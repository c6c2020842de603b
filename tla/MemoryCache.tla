---------------------------- MODULE MemoryCache -----------------------------
(***************************************************************************)
(* The cache of target memory kept by the debugger (memory_cache.cpp).     *)
(*                                                                         *)
(* lines_ is a table of slots, each with 256 bytes of data_ and a LineInfo *)
(* (address, valid, accessed).  address_view_ maps a line address to the   *)
(* slot that serves it.  Reads fetch a missing line from the target over   *)
(* the serial link, which may fail half way; M65Debugger::next() calls     *)
(* refresh_accessed() after the target executed one instruction, and       *)
(* pause() and handle_breakpoint() call invalidate() after it ran freely.  *)
(* The target's memory changes only then: evaluation is refused while the  *)
(* target runs.  (The polled stop, which breaks that rule, is modelled in  *)
(* M65Debugger.)                                                           *)
(*                                                                         *)
(* An address is a page number and an offset, what `address & ~255' and    *)
(* `address % 256' make of it, and a line address is the page number.      *)
(* A line's 256 bytes are one value; a byte is a pair <<value, offset>>.   *)
(* The sizes are parameters: NumLines is 512 and LineBytes 256 in the      *)
(* code, MaxRead is 1024 (256 elements of type `q').                       *)
(***************************************************************************)
EXTENDS Naturals, Sequences, FiniteSets

CONSTANTS NumLines, NumPages, LineBytes, MaxRead, Values, Torn, NoRead

ASSUME NumLinesAssumption  == NumLines \in Nat \ {0}
ASSUME NumPagesAssumption  == NumPages \in Nat \ {0}
ASSUME LineBytesAssumption == LineBytes \in Nat \ {0}
ASSUME MaxReadAssumption   == MaxRead \in Nat \ {0}
ASSUME ValuesAssumption    == /\ Values # {}
                              /\ Torn \notin Values

VARIABLES mem,      \* the target's memory, one value per page
          data,     \* data_: the content of each slot
          lines,    \* lines_: the LineInfo of each slot
          view,     \* address_view_: line address -> slot
          result,   \* what the last completed read returned
          touched   \* history: pages asked for since the view was cleared

vars == <<mem, data, lines, view, result, touched>>

Slots     == 1 .. NumLines
Pages     == 0 .. (NumPages - 1)
Offsets   == 0 .. (LineBytes - 1)
Contents  == Values \cup {Torn}

Results   == [page : Pages, offset : Offsets, bytes : Seq(Contents \X Offsets)]

ASSUME NoReadAssumption == NoRead \notin Results

LineInfo  == [address : Pages, valid : BOOLEAN, accessed : BOOLEAN]
EmptyLine == [address |-> 0, valid |-> FALSE, accessed |-> FALSE]
EmptyView == [p \in {} |-> 1]

Served     == {view[p] : p \in DOMAIN view}
Viewers(s) == {p \in DOMAIN view : view[p] = s}

-----------------------------------------------------------------------------

Init ==
  /\ mem \in [Pages -> Values]
  /\ data = [s \in Slots |-> Torn]          \* zero bytes, belonging to no page
  /\ lines = [s \in Slots |-> EmptyLine]
  /\ view = EmptyView
  /\ result = NoRead
  /\ touched = {}

(***************************************************************************)
(* The slot a missing line is fetched into: the first that is not valid,   *)
(* else the first that is not accessed, else the first.                    *)
(***************************************************************************)
IsFirst(s, S) == s \in S /\ \A t \in S : s <= t

InvalidSlots    == {s \in Slots : ~lines[s].valid}
UnaccessedSlots == {s \in Slots : ~lines[s].accessed}

VictimIgnoringUse(s) ==    \* mutant: never looks for an unaccessed slot
  \/ IsFirst(s, InvalidSlots)
  \/ InvalidSlots = {} /\ s = 1

Victim(s) ==
  \/ IsFirst(s, InvalidSlots)
  \/ InvalidSlots = {} /\ IsFirst(s, UnaccessedSlots)
  \/ InvalidSlots = {} /\ UnaccessedSlots = {} /\ s = 1

(***************************************************************************)
(* The bytes copied out of slot content c: line_address never advances, so *)
(* past the end of the line the copy starts over at its beginning.         *)
(***************************************************************************)
CopyOut(c, o, n) == [i \in 1 .. n |-> <<c, (o + i - 1) % LineBytes>>]

(***************************************************************************)
(* A read whose line is in the view.                                       *)
(***************************************************************************)
Hit(p, o, n) ==
  /\ p \in DOMAIN view
  /\ lines' = [lines EXCEPT ![view[p]].accessed = TRUE]
  /\ result' = [page |-> p, offset |-> o, bytes |-> CopyOut(data[view[p]], o, n)]
  /\ touched' = touched \cup {p}
  /\ UNCHANGED <<mem, data, view>>

(***************************************************************************)
(* A read whose line is not in the view and is fetched first.  The view    *)
(* entry of the line the slot held before, if any, is left in place.       *)
(***************************************************************************)
Miss(p, o, n) ==
  /\ p \notin DOMAIN view
  /\ \E s \in Slots :
       /\ Victim(s)
       /\ data' = [data EXCEPT ![s] = mem[p]]
       /\ lines' = [lines EXCEPT ![s] = [address |-> p, valid |-> TRUE, accessed |-> TRUE]]
       /\ view' = [q \in DOMAIN view \cup {p} |-> IF q = p THEN s ELSE view[q]]
  /\ result' = [page |-> p, offset |-> o, bytes |-> CopyOut(mem[p], o, n)]
  /\ touched' = touched \cup {p}
  /\ UNCHANGED mem

(***************************************************************************)
(* The fetch throws: get_memory_bytes() may have overwritten a part of the *)
(* slot's bytes, the LineInfo and the view are as before.                  *)
(***************************************************************************)
FetchFails(p) ==
  /\ p \notin DOMAIN view
  /\ \E s \in Slots : /\ Victim(s)
                      /\ \/ data' = [data EXCEPT ![s] = Torn]
                         \/ data' = data
  /\ touched' = touched \cup {p}
  /\ UNCHANGED <<mem, lines, view, result>>

(***************************************************************************)
(* read() of n > 0 bytes (0 bytes touch nothing); read_byte() is n = 1 and *)
(* read_word() is n = 2.                                                   *)
(***************************************************************************)
Read(p, o, n) == Hit(p, o, n) \/ Miss(p, o, n)

(***************************************************************************)
(* refresh_accessed() on one slot.  The loop visits the slot once for each *)
(* view entry that names it: the first visit finds it accessed (its line   *)
(* is in the view, so ensure_valid_cache_line() does nothing) and resets   *)
(* the flag, a second visit finds it not accessed and drops it.            *)
(***************************************************************************)
RefreshedStillAccessed(s) ==    \* mutant: the flag is not reset
  IF Viewers(s) = {} \/ lines[s].accessed THEN lines[s] ELSE EmptyLine

Refreshed(s) ==
  LET visits == Cardinality(Viewers(s)) IN
  CASE visits = 0 -> lines[s]
    [] visits = 1 /\ lines[s].accessed -> [lines[s] EXCEPT !.accessed = FALSE]
    [] OTHER -> EmptyLine

(***************************************************************************)
(* next(): the target executes one instruction, then refresh_accessed().   *)
(***************************************************************************)
StepWithoutRefresh ==    \* mutant: next() leaves the cache alone
  /\ mem' \in [Pages -> Values]
  /\ touched' = {}
  /\ UNCHANGED <<data, lines, view, result>>

Step ==
  /\ mem' \in [Pages -> Values]
  /\ lines' = [s \in Slots |-> Refreshed(s)]
  /\ view' = EmptyView
  /\ touched' = {}
  /\ UNCHANGED <<data, result>>

(***************************************************************************)
(* cont(), then a stop seen by pause() or handle_breakpoint(): invalidate()*)
(***************************************************************************)
RunAndStop ==
  /\ mem' \in [Pages -> Values]
  /\ lines' = [s \in Slots |-> EmptyLine]
  /\ view' = EmptyView
  /\ touched' = {}
  /\ UNCHANGED <<data, result>>

Next == \/ \E p \in Pages, o \in Offsets, n \in 1 .. MaxRead : Read(p, o, n)
        \/ \E p \in Pages : FetchFails(p)
        \/ Step
        \/ RunAndStop

Spec == Init /\ [][Next]_vars

-----------------------------------------------------------------------------
(***************************************************************************)
(* Types.                                                                  *)
(***************************************************************************)
TypeOK ==
  /\ mem \in [Pages -> Values]
  /\ data \in [Slots -> Contents]
  /\ lines \in [Slots -> LineInfo]
  /\ DOMAIN view \subseteq Pages
  /\ view \in [DOMAIN view -> Slots]
  /\ result \in Results \cup {NoRead}
  /\ touched \subseteq Pages

(***************************************************************************)
(* A slot is marked accessed exactly while some line address is served     *)
(* from it, and then it is valid: victim selection, which looks at these   *)
(* two flags alone, can tell a slot in use from a free one.                *)
(***************************************************************************)
FlagsMatchView ==
  \A s \in Slots : /\ lines[s].accessed <=> s \in Served
                   /\ s \in Served => lines[s].valid

(***************************************************************************)
(* As long as no more lines were asked for than there are slots, every     *)
(* line in the view has a slot of its own, labelled with its address and   *)
(* holding what the target's memory holds, failed fetches included.        *)
(***************************************************************************)
ServesExactly(p) ==
  /\ lines[view[p]].address = p
  /\ data[view[p]] = mem[p]

ViewExact ==
  Cardinality(touched) <= NumLines =>
    /\ \A p, q \in DOMAIN view : view[p] = view[q] => p = q
    /\ \A p \in DOMAIN view : ServesExactly(p)

(***************************************************************************)
(* The strengthening that is inductive.                                    *)
(***************************************************************************)
ViewIsTouched == DOMAIN view \subseteq touched

CacheInv == TypeOK /\ FlagsMatchView /\ ViewIsTouched /\ ViewExact

(***************************************************************************)
(* A fetch takes the slot of a line that is still in the view only when    *)
(* every slot serves one: lines that were valid but forgotten by           *)
(* refresh_accessed() are given up first.                                  *)
(***************************************************************************)
NoNeedlessEviction ==
  [][(\E s \in Served : data'[s] # data[s]) => Served = Slots]_vars

(***************************************************************************)
(* The promise to readers.                                                 *)
(***************************************************************************)
Promise == INSTANCE CachedMemory WITH Capacity <- NumLines

CachePromise == Promise!Spec

(***************************************************************************)
(* What readers of the cache take for granted (the tests of the evaluation *)
(* of `$2001,w,3' expect three consecutive words): the bytes of a read are *)
(* the target's bytes from its address on, wherever they lie.              *)
(***************************************************************************)
ByteFrom(r, i) ==
  LET distance == r.offset + i - 1
  IN  <<mem[r.page + distance \div LineBytes], distance % LineBytes>>

IsConsecutive(r) ==
  \A i \in DOMAIN r.bytes :
     r.page + (r.offset + i - 1) \div LineBytes \in Pages => r.bytes[i] = ByteFrom(r, i)

ReadsAreConsecutive == [][result' # result => IsConsecutive(result')]_vars
=============================================================================
