------------------------- MODULE MemoryCache_proofs -------------------------
(***************************************************************************)
(* What is proved of the memory cache, for every number of slots, pages    *)
(* and bytes per line: the type invariant, the inductive invariant         *)
(* CacheInv, that no line in use is evicted needlessly, and that the cache *)
(* keeps the promise CachedMemory makes to its readers.                    *)
(***************************************************************************)
EXTENDS MemoryCache, FiniteSetTheorems, TLAPS

(***************************************************************************)
(* A map from fewer than NumLines pages leaves a slot unused.              *)
(***************************************************************************)
LEMMA FreeSlot ==
  ASSUME NEW D, IsFiniteSet(D), Cardinality(D) < NumLines,
         NEW f \in [D -> Slots]
  PROVE  {f[d] : d \in D} # Slots
<1>1. SUFFICES ASSUME {f[d] : d \in D} = Slots
               PROVE  FALSE
  OBVIOUS
<1> DEFINE g == [s \in Slots |-> CHOOSE d \in D : f[d] = s]
<1>2. \A s \in Slots : g[s] \in D /\ f[g[s]] = s
  BY <1>1
<1>3. IsFiniteSet(Slots) /\ Cardinality(Slots) = NumLines
  BY FS_Interval, NumLinesAssumption DEF Slots
<1>4. g \in [Slots -> D]
  BY <1>2
<1>5. \E x, y \in Slots : x # y /\ g[x] = g[y]
  <2> HIDE DEF g
  <2> QED BY <1>3, <1>4, FS_PigeonHole
<1> QED BY <1>2, <1>5

(***************************************************************************)
(* Pages asked for are finitely many, and asking for one more, p, that is  *)
(* not in the view leaves fewer pages in the view than were asked for.     *)
(***************************************************************************)
LEMMA TouchedFinite ==
  ASSUME TypeOK, NEW p \in Pages
  PROVE  /\ IsFiniteSet(touched)
         /\ IsFiniteSet(touched \cup {p})
         /\ Cardinality(touched) \in Nat
         /\ Cardinality(touched \cup {p}) \in Nat
         /\ Cardinality(touched) <= Cardinality(touched \cup {p})
<1>1. IsFiniteSet(Pages)
  BY FS_Interval, NumPagesAssumption DEF Pages
<1>2. IsFiniteSet(touched)
  BY <1>1, FS_Subset DEF TypeOK
<1>3. IsFiniteSet(touched \cup {p})
  BY <1>2, FS_AddElement
<1>4. Cardinality(touched) <= Cardinality(touched \cup {p})
  BY <1>3, FS_Subset
<1> QED BY <1>2, <1>3, <1>4, FS_CardinalityType

LEMMA RoomForOneMore ==
  ASSUME TypeOK, ViewIsTouched, NEW p \in Pages, p \notin DOMAIN view,
         Cardinality(touched \cup {p}) <= NumLines
  PROVE  Served # Slots
<1> DEFINE T == touched \cup {p}
<1>1. IsFiniteSet(T) /\ Cardinality(T) \in Nat
  BY TouchedFinite
<1>2. IsFiniteSet(T \ {p}) /\ Cardinality(T \ {p}) = Cardinality(T) - 1
  BY <1>1, FS_RemoveElement
<1>3. DOMAIN view \subseteq T \ {p}
  BY DEF ViewIsTouched
<1>4. IsFiniteSet(DOMAIN view) /\ Cardinality(DOMAIN view) <= Cardinality(T \ {p})
  BY <1>2, <1>3, FS_Subset
<1>5. Cardinality(DOMAIN view) < NumLines
  <2>1. Cardinality(DOMAIN view) \in Nat
    BY <1>4, FS_CardinalityType
  <2> QED BY <2>1, <1>1, <1>2, <1>4, NumLinesAssumption
<1> QED BY <1>4, <1>5, FreeSlot DEF Served, TypeOK

(***************************************************************************)
(* The victim serves no line unless every slot does.                       *)
(***************************************************************************)
LEMMA VictimIsFree ==
  ASSUME TypeOK, FlagsMatchView, Served # Slots, NEW s \in Slots, Victim(s)
  PROVE  s \notin Served
<1>1. CASE s \in InvalidSlots
  BY <1>1 DEF InvalidSlots, FlagsMatchView
<1>2. CASE s \in UnaccessedSlots
  BY <1>2 DEF UnaccessedSlots, FlagsMatchView
<1>3. CASE UnaccessedSlots = {}
  BY <1>3 DEF UnaccessedSlots, FlagsMatchView, Served, TypeOK
<1> QED BY <1>1, <1>2, <1>3 DEF Victim, IsFirst

-----------------------------------------------------------------------------

LEMMA CopyOutType ==
  ASSUME NEW c \in Contents, NEW p \in Pages, NEW o \in Offsets, NEW n \in 1 .. MaxRead
  PROVE  [page |-> p, offset |-> o, bytes |-> CopyOut(c, o, n)] \in Results
<1>1. n \in Nat
  BY MaxReadAssumption
<1>2. \A i \in 1 .. n : (o + i - 1) % LineBytes \in Offsets
  BY <1>1, LineBytesAssumption DEF Offsets
<1>3. CopyOut(c, o, n) \in [1 .. n -> Contents \X Offsets]
  BY <1>2 DEF CopyOut
<1>4. CopyOut(c, o, n) \in Seq(Contents \X Offsets)
  BY <1>1, <1>3
<1> QED BY <1>4 DEF Results

LEMMA InitInv == Init => CacheInv
<1> SUFFICES ASSUME Init PROVE CacheInv
  OBVIOUS
<1>1. DOMAIN view = {} /\ Served = {}
  BY DEF Init, EmptyView, Served
<1>2. 0 \in Pages
  BY NumPagesAssumption DEF Pages
<1>3. TypeOK
  BY <1>1, <1>2 DEF Init, TypeOK, Contents, EmptyLine, LineInfo, EmptyView
<1>4. FlagsMatchView /\ ViewIsTouched /\ ViewExact
  BY <1>1 DEF Init, FlagsMatchView, ViewIsTouched, ViewExact, EmptyLine
<1> QED BY <1>3, <1>4 DEF CacheInv

LEMMA HitInv ==
  ASSUME CacheInv, NEW p \in Pages, NEW o \in Offsets, NEW n \in 1 .. MaxRead, Hit(p, o, n)
  PROVE  CacheInv'
<1> USE DEF CacheInv
<1>1. view[p] \in Slots /\ view[p] \in Served
  BY DEF Hit, TypeOK, Served
<1>2. TypeOK'
  <2>1. data[view[p]] \in Contents
    BY <1>1 DEF TypeOK
  <2>2. result' \in Results
    BY <2>1, CopyOutType DEF Hit
  <2>3. lines' \in [Slots -> LineInfo]
    BY <1>1 DEF Hit, TypeOK, LineInfo
  <2> QED BY <2>2, <2>3 DEF Hit, TypeOK
<1>3. \A s \in Slots : /\ lines'[s].address = lines[s].address
                       /\ lines'[s].valid = lines[s].valid
                       /\ lines'[s].accessed = lines[s].accessed
  BY <1>1 DEF Hit, TypeOK, LineInfo, FlagsMatchView
<1>4. Served' = Served
  BY DEF Hit, Served
<1>5. FlagsMatchView'
  BY <1>3, <1>4 DEF FlagsMatchView
<1>6. ViewIsTouched'
  BY DEF Hit, ViewIsTouched
<1>7. ViewExact'
  <2>1. SUFFICES ASSUME Cardinality(touched') <= NumLines
                 PROVE  /\ \A a, b \in DOMAIN view : view[a] = view[b] => a = b
                        /\ \A a \in DOMAIN view : ServesExactly(a)'
    BY DEF ViewExact, Hit
  <2>2. Cardinality(touched) <= NumLines
    BY <2>1, TouchedFinite, NumLinesAssumption DEF Hit
  <2>3. \A a \in DOMAIN view : view[a] \in Slots
    BY DEF TypeOK
  <2> QED BY <2>2, <2>3, <1>3 DEF ViewExact, ServesExactly, Hit
<1> QED BY <1>2, <1>5, <1>6, <1>7

LEMMA MissInv ==
  ASSUME CacheInv, NEW p \in Pages, NEW o \in Offsets, NEW n \in 1 .. MaxRead, Miss(p, o, n)
  PROVE  CacheInv'
<1> USE DEF CacheInv
<1>1. PICK s \in Slots :
        /\ Victim(s)
        /\ data' = [data EXCEPT ![s] = mem[p]]
        /\ lines' = [lines EXCEPT ![s] = [address |-> p, valid |-> TRUE, accessed |-> TRUE]]
        /\ view' = [q \in DOMAIN view \cup {p} |-> IF q = p THEN s ELSE view[q]]
  BY DEF Miss
<1>2. p \notin DOMAIN view /\ touched' = touched \cup {p} /\ mem' = mem
  BY DEF Miss
<1>3. TypeOK'
  <2>1. mem[p] \in Contents
    BY DEF TypeOK, Contents
  <2>2. result' \in Results
    BY <2>1, CopyOutType DEF Miss
  <2>3. lines' \in [Slots -> LineInfo] /\ data' \in [Slots -> Contents]
    BY <1>1, <2>1 DEF TypeOK, LineInfo
  <2>4. view' \in [DOMAIN view' -> Slots] /\ DOMAIN view' \subseteq Pages
    BY <1>1 DEF TypeOK
  <2> QED BY <1>2, <2>2, <2>3, <2>4 DEF TypeOK
<1>4. Served' = Served \cup {s}
  <2>1. DOMAIN view' = DOMAIN view \cup {p}
    BY <1>1
  <2>2. view'[p] = s /\ \A q \in DOMAIN view : view'[q] = view[q]
    BY <1>1, <1>2
  <2> QED BY <2>1, <2>2 DEF Served
<1>5. FlagsMatchView'
  <2>1. \A t \in Slots \ {s} : lines'[t] = lines[t]
    BY <1>1 DEF TypeOK
  <2>2. lines'[s].accessed /\ lines'[s].valid
    BY <1>1 DEF TypeOK
  <2> QED BY <1>4, <2>1, <2>2 DEF FlagsMatchView
<1>6. ViewIsTouched'
  BY <1>1, <1>2 DEF ViewIsTouched
<1>7. ViewExact'
  <2>1. SUFFICES ASSUME Cardinality(touched') <= NumLines
                 PROVE  /\ \A a, b \in DOMAIN view' : view'[a] = view'[b] => a = b
                        /\ \A a \in DOMAIN view' : ServesExactly(a)'
    BY DEF ViewExact
  <2>2. s \notin Served
    BY <1>1, <1>2, <2>1, RoomForOneMore, VictimIsFree
  <2>3. Cardinality(touched) <= NumLines
    BY <1>2, <2>1, TouchedFinite, NumLinesAssumption
  <2>4. \A a \in DOMAIN view : view[a] # s /\ view[a] \in Slots
    BY <2>2 DEF Served, TypeOK
  <2>5. \A a, b \in DOMAIN view' : view'[a] = view'[b] => a = b
    BY <1>1, <2>3, <2>4 DEF ViewExact
  <2>6. ASSUME NEW a \in DOMAIN view' PROVE ServesExactly(a)'
    <3>1. CASE a = p
      BY <1>1, <1>2, <3>1 DEF ServesExactly, TypeOK
    <3>2. CASE a # p
      <4>1. a \in DOMAIN view /\ view'[a] = view[a]
        BY <1>1, <3>2
      <4>2. ServesExactly(a)
        BY <4>1, <2>3 DEF ViewExact
      <4> QED BY <1>1, <1>2, <2>4, <4>1, <4>2 DEF ServesExactly, TypeOK
    <3> QED BY <3>1, <3>2
  <2> QED BY <2>5, <2>6
<1> QED BY <1>3, <1>5, <1>6, <1>7

LEMMA FetchFailsInv ==
  ASSUME CacheInv, NEW p \in Pages, FetchFails(p)
  PROVE  CacheInv'
<1> USE DEF CacheInv
<1>1. PICK s \in Slots : /\ Victim(s)
                         /\ \/ data' = [data EXCEPT ![s] = Torn]
                            \/ data' = data
  BY DEF FetchFails
<1>2. /\ p \notin DOMAIN view
      /\ touched' = touched \cup {p}
      /\ UNCHANGED <<mem, lines, view, result>>
  BY DEF FetchFails
<1>3. TypeOK'
  BY <1>1, <1>2 DEF TypeOK, Contents
<1>4. FlagsMatchView' /\ ViewIsTouched'
  BY <1>2 DEF FlagsMatchView, ViewIsTouched, Served
<1>5. ViewExact'
  <2>1. SUFFICES ASSUME Cardinality(touched') <= NumLines
                 PROVE  /\ \A a, b \in DOMAIN view : view[a] = view[b] => a = b
                        /\ \A a \in DOMAIN view : ServesExactly(a)'
    BY <1>2 DEF ViewExact
  <2>2. s \notin Served
    BY <1>1, <1>2, <2>1, RoomForOneMore, VictimIsFree
  <2>3. Cardinality(touched) <= NumLines
    BY <1>2, <2>1, TouchedFinite, NumLinesAssumption
  <2>4. \A a \in DOMAIN view : view[a] \in Slots /\ data'[view[a]] = data[view[a]]
    BY <1>1, <2>2 DEF Served, TypeOK
  <2> QED BY <1>2, <2>3, <2>4 DEF ViewExact, ServesExactly
<1> QED BY <1>3, <1>4, <1>5

(***************************************************************************)
(* Whatever the slots' flags become, they match an empty view when none is *)
(* marked accessed.                                                        *)
(***************************************************************************)
LEMMA ClearInv ==
  ASSUME CacheInv, Step \/ RunAndStop
  PROVE  CacheInv'
<1> USE DEF CacheInv
<1>1. 0 \in Pages
  BY NumPagesAssumption DEF Pages
<1>2. ASSUME NEW s \in Slots
      PROVE  Refreshed(s) \in LineInfo /\ ~Refreshed(s).accessed
  <2> DEFINE visits == Cardinality(Viewers(s))
  <2>1. lines[s] \in LineInfo
    BY DEF TypeOK
  <2>2. CASE visits = 0
    <3>1. Viewers(s) \in SUBSET Pages
      BY DEF Viewers, TypeOK
    <3>2. IsFiniteSet(Pages)
      BY FS_Interval, NumPagesAssumption DEF Pages
    <3>3. IsFiniteSet(Viewers(s))
      BY <3>1, <3>2, FS_Subset
    <3>4. Viewers(s) = {}
      BY <2>2, <3>3, FS_EmptySet
    <3>5. s \notin Served
      BY <3>4 DEF Viewers, Served
    <3>6. Refreshed(s) = lines[s]
      BY <2>2 DEF Refreshed
    <3> QED BY <2>1, <3>5, <3>6 DEF FlagsMatchView
  <2>3. CASE visits # 0 /\ visits = 1 /\ lines[s].accessed
    <3>1. Refreshed(s) = [lines[s] EXCEPT !.accessed = FALSE]
      BY <2>3 DEF Refreshed
    <3> QED BY <2>1, <3>1 DEF LineInfo
  <2>4. CASE visits # 0 /\ ~(visits = 1 /\ lines[s].accessed)
    <3>1. Refreshed(s) = EmptyLine
      BY <2>4 DEF Refreshed
    <3> QED BY <1>1, <3>1 DEF EmptyLine, LineInfo
  <2> QED BY <2>2, <2>3, <2>4
<1>3. EmptyLine \in LineInfo /\ ~EmptyLine.accessed
  BY <1>1 DEF EmptyLine, LineInfo
<1>4. lines' \in [Slots -> LineInfo] /\ \A s \in Slots : ~lines'[s].accessed
  BY <1>2, <1>3 DEF Step, RunAndStop
<1>5. /\ mem' \in [Pages -> Values] /\ view' = EmptyView /\ touched' = {}
      /\ data' = data /\ result' = result
  BY DEF Step, RunAndStop
<1>6. DOMAIN view' = {} /\ Served' = {}
  BY <1>5 DEF EmptyView, Served
<1>7. TypeOK'
  BY <1>4, <1>5, <1>6 DEF TypeOK, EmptyView
<1> QED BY <1>4, <1>5, <1>6, <1>7 DEF FlagsMatchView, ViewIsTouched, ViewExact

LEMMA NextInv == CacheInv /\ [Next]_vars => CacheInv'
<1> SUFFICES ASSUME CacheInv, [Next]_vars PROVE CacheInv'
  OBVIOUS
<1>1. ASSUME NEW p \in Pages, NEW o \in Offsets, NEW n \in 1 .. MaxRead, Read(p, o, n)
      PROVE  CacheInv'
  BY <1>1, HitInv, MissInv DEF Read
<1>2. ASSUME NEW p \in Pages, FetchFails(p)
      PROVE  CacheInv'
  BY <1>2, FetchFailsInv
<1>3. CASE Step \/ RunAndStop
  BY <1>3, ClearInv
<1>4. CASE UNCHANGED vars
  BY <1>4 DEF vars, CacheInv, TypeOK, FlagsMatchView, ViewIsTouched, ViewExact,
              ServesExactly, Served
<1> QED BY <1>1, <1>2, <1>3, <1>4 DEF Next

-----------------------------------------------------------------------------
(***************************************************************************)
(* The inductive invariant holds: types, flags that match the view, and a  *)
(* view that serves the target's memory while no more lines were asked for *)
(* than there are slots.                                                   *)
(***************************************************************************)
THEOREM CacheInvariant == Spec => []CacheInv
<1> QED BY InitInv, NextInv, PTL DEF Spec

(***************************************************************************)
(* memory_cache.cpp's tables stay well typed.                              *)
(***************************************************************************)
THEOREM TypeCorrect == Spec => []TypeOK
<1>1. CacheInv => TypeOK
  BY DEF CacheInv
<1> QED BY <1>1, CacheInvariant, PTL

(***************************************************************************)
(* ensure_valid_cache_line() evicts a line that is in use only when every  *)
(* slot is.                                                                *)
(***************************************************************************)
THEOREM EvictsOnlyWhenFull == Spec => NoNeedlessEviction
<1> DEFINE Needed == (\E s \in Served : data'[s] # data[s]) => Served = Slots
<1>1. ASSUME CacheInv, [Next]_vars PROVE [Needed]_vars
  <2> SUFFICES ASSUME Served # Slots, NEW s \in Served PROVE data'[s] = data[s]
    OBVIOUS
  <2>1. TypeOK /\ FlagsMatchView /\ s \in Slots
    BY <1>1 DEF CacheInv, Served, TypeOK
  <2>2. ASSUME NEW t \in Slots, Victim(t) PROVE t # s
    BY <2>1, <2>2, VictimIsFree
  <2>3. ASSUME NEW p \in Pages, NEW o \in Offsets, NEW n \in 1 .. MaxRead, Read(p, o, n)
        PROVE  data'[s] = data[s]
    BY <2>1, <2>2, <2>3 DEF Read, Hit, Miss, TypeOK
  <2>4. ASSUME NEW p \in Pages, FetchFails(p)
        PROVE  data'[s] = data[s]
    BY <2>1, <2>2, <2>4 DEF FetchFails, TypeOK
  <2>5. CASE Step \/ RunAndStop \/ UNCHANGED vars
    BY <2>5 DEF Step, RunAndStop, vars
  <2> QED BY <1>1, <2>3, <2>4, <2>5 DEF Next
<1> QED BY <1>1, CacheInvariant, PTL DEF Spec, NoNeedlessEviction

(***************************************************************************)
(* A read that returns keeps the promise: what it copies out is what the   *)
(* target holds, up to the end of the line.                                *)
(***************************************************************************)
LEMMA ReadKeepsPromise ==
  ASSUME CacheInv, NEW p \in Pages, NEW o \in Offsets, NEW n \in 1 .. MaxRead, Read(p, o, n)
  PROVE  Promise!Read(p, o, n)
<1> DEFINE c == IF p \in DOMAIN view THEN data[view[p]] ELSE mem[p]
<1>1. /\ result' = [page |-> p, offset |-> o, bytes |-> CopyOut(c, o, n)]
      /\ touched' = touched \cup {p} /\ mem' = mem
  BY DEF Read, Hit, Miss
<1>2. c \in Contents
  BY DEF CacheInv, TypeOK, Contents
<1>3. result' \in Results
  BY <1>1, <1>2, CopyOutType
<1>4. n \in Nat /\ DOMAIN CopyOut(c, o, n) = 1 .. n
  BY MaxReadAssumption DEF CopyOut
<1>5. Len(result'.bytes) = n
  <2>1. CopyOut(c, o, n) \in Seq(Contents \X Offsets)
    BY <1>1, <1>3 DEF Results
  <2> QED BY <1>1, <1>4, <2>1
<1>6. ASSUME Cardinality(touched') <= NumLines
      PROVE  Promise!AgreesOnPage(mem, result')
  <2>1. Cardinality(touched) <= NumLines
    BY <1>1, <1>6, TouchedFinite, NumLinesAssumption DEF CacheInv
  <2>2. c = mem[p]
    BY <2>1 DEF CacheInv, ViewExact, ServesExactly
  <2>3. ASSUME NEW i \in 1 .. n, o + i - 1 < LineBytes
        PROVE  CopyOut(c, o, n)[i] = <<mem[p], o + i - 1>>
    <3>1. (o + i - 1) % LineBytes = o + i - 1
      BY <1>4, <2>3, LineBytesAssumption DEF Offsets
    <3> QED BY <2>2, <3>1 DEF CopyOut
  <2> QED BY <1>1, <1>4, <2>3 DEF Promise!AgreesOnPage
<1> QED BY <1>1, <1>3, <1>5, <1>6, NoReadAssumption DEF Promise!Read, Promise!Cardinality, Cardinality

(***************************************************************************)
(* The cache of memory_cache.cpp implements the memory its readers are     *)
(* promised.                                                               *)
(***************************************************************************)
THEOREM CacheKeepsPromise == Spec => CachePromise
<1>1. Init => Promise!Init
  BY DEF Init, Promise!Init, Pages, Promise!Pages
<1>2. ASSUME CacheInv, [Next]_vars PROVE [Promise!Next]_(Promise!vars)
  <2>1. ASSUME NEW p \in Pages, NEW o \in Offsets, NEW n \in 1 .. MaxRead, Read(p, o, n)
        PROVE  Promise!Next
    BY <1>2, <2>1, ReadKeepsPromise
       DEF Promise!Next, Pages, Promise!Pages, Offsets, Promise!Offsets
  <2>2. ASSUME NEW p \in Pages, FetchFails(p) PROVE Promise!Next
    BY <2>2 DEF FetchFails, Promise!Next, Promise!Fail, Pages, Promise!Pages
  <2>3. CASE Step \/ RunAndStop
    BY <2>3 DEF Step, RunAndStop, Promise!Next, Promise!Change, Pages, Promise!Pages
  <2>4. CASE UNCHANGED vars
    BY <2>4 DEF vars, Promise!vars
  <2> QED BY <1>2, <2>1, <2>2, <2>3, <2>4 DEF Next
<1> QED BY <1>1, <1>2, CacheInvariant, PTL DEF Spec, CachePromise, Promise!Spec
=============================================================================
