---------------------------- MODULE CachedMemory ----------------------------
(***************************************************************************)
(* What the debugger's memory cache promises to its readers.               *)
(*                                                                         *)
(* The target's memory is a row of pages of LineBytes bytes.  A reader     *)
(* asks for n bytes from an offset in a page on.  As long as no more than  *)
(* Capacity pages were asked for since the cache was last cleared, the     *)
(* bytes up to the end of that page are the bytes the target holds.        *)
(* Nothing is promised beyond the end of the page, nor beyond Capacity.    *)
(*                                                                         *)
(* The content of a page is one value; its bytes are the pairs             *)
(* <<value, offset>>, so that a byte tells which content it came from and  *)
(* from which position of it.                                              *)
(***************************************************************************)
EXTENDS Naturals, Sequences, FiniteSets

CONSTANTS Capacity,     \* pages the cache can hold
          NumPages,     \* pages of the target's memory
          LineBytes,    \* bytes per page
          MaxRead,      \* bytes a reader may ask for at once
          Values,       \* contents a page may have
          NoRead        \* no read has returned yet

VARIABLES mem,          \* the target's memory
          touched,      \* pages asked for since the cache was cleared
          result        \* what the last completed read returned

vars == <<mem, touched, result>>

Pages   == 0 .. (NumPages - 1)
Offsets == 0 .. (LineBytes - 1)

(***************************************************************************)
(* The bytes of read r agree with memory m up to the end of r's page.      *)
(***************************************************************************)
AgreesOnPage(m, r) ==
  \A i \in DOMAIN r.bytes :
     r.offset + i - 1 < LineBytes => r.bytes[i] = <<m[r.page], r.offset + i - 1>>

Init == /\ mem \in [Pages -> Values]
        /\ touched = {}
        /\ result = NoRead

(***************************************************************************)
(* A read of n bytes from offset o of page p on returns.                   *)
(***************************************************************************)
Read(p, o, n) ==
  /\ touched' = touched \cup {p}
  /\ result' # NoRead
  /\ result'.page = p
  /\ result'.offset = o
  /\ Len(result'.bytes) = n
  /\ Cardinality(touched') <= Capacity => AgreesOnPage(mem, result')
  /\ UNCHANGED mem

(***************************************************************************)
(* A read gives up because the target did not answer.                      *)
(***************************************************************************)
Fail(p) ==
  /\ touched' = touched \cup {p}
  /\ UNCHANGED <<mem, result>>

(***************************************************************************)
(* The target executes: its memory changes and every page asked for before *)
(* is forgotten.                                                           *)
(***************************************************************************)
Change == /\ mem' \in [Pages -> Values]
          /\ touched' = {}
          /\ UNCHANGED result

Next == \/ \E p \in Pages, o \in Offsets, n \in 1 .. MaxRead : Read(p, o, n)
        \/ \E p \in Pages : Fail(p)
        \/ Change

Spec == Init /\ [][Next]_vars
=============================================================================
