----------------------------- MODULE MonitorCommands ---------------------------
(***************************************************************************)
(* The commands M65Debugger composes for the monitor and the replies it    *)
(* takes apart (m65_debugger.cpp): the upload of a program, key presses    *)
(* and memory dumps.                                                       *)
(***************************************************************************)
EXTENDS Integers, Sequences, FiniteSets

KeysPerLine == 9      \* keys in a command
RowBytes    == 16     \* bytes in a row of a memory dump
DumpRows    == 16     \* rows of a long memory dump

-----------------------------------------------------------------------------
(***************************************************************************)
(* upload_prg_file(): the load command for a file of so many bytes, the    *)
(* first two of which are the load address.  A char is signed.             *)
(***************************************************************************)
Char(byte) == IF byte >= 128 THEN byte - 256 ELSE byte

Upload(size, lo, hi) ==
  IF size < 3 \/ size > 65536 THEN [is |-> "throws"]
  ELSE LET from == Char(lo) + 256 * Char(hi)
       IN [is |-> "load", from |-> from, to |-> from + size - 2]

(***************************************************************************)
(* simulate_keypresses(): the keys of each store command, which is         *)
(* followed by one that sets their number.                                 *)
(***************************************************************************)
RECURSIVE KeyCommands(_)
KeyCommands(keys) ==
  IF Len(keys) < KeysPerLine
  THEN IF keys = <<>> THEN <<>> ELSE <<[store |-> keys, count |-> Len(keys)]>>
  ELSE <<[store |-> SubSeq(keys, 1, KeysPerLine), count |-> KeysPerLine]>>
         \o KeyCommands(SubSeq(keys, KeysPerLine + 1, Len(keys)))

-----------------------------------------------------------------------------
(***************************************************************************)
(* The monitor's reply to a memory command; a row is the address it names  *)
(* and its bytes, each of which is represented by its address.             *)
(***************************************************************************)
Row(a) == [is |-> "row", at |-> a, bytes |-> [i \in 1 .. RowBytes |-> a + i - 1]]
Dump(a, rows) == [i \in 1 .. rows |-> Row(a + (i - 1) * RowBytes)]

(***************************************************************************)
(* get_memory_bytes(): what is read is copied out row by row; a row at     *)
(* another address than the next throws, and so does a line that is none.  *)
(* The loop asks until it has all bytes.                                   *)
(***************************************************************************)
Got(a, bytes, count) == [is |-> "bytes", next |-> a, bytes |-> bytes, count |-> count]
Throws == [is |-> "throws"]

Needed(got) == got.count - Len(got.bytes)

TakeRow(got, row) ==
  LET n == IF Needed(got) < RowBytes THEN Needed(got) ELSE RowBytes
  IN Got(got.next + RowBytes, got.bytes \o SubSeq(row.bytes, 1, n), got.count)

RECURSIVE TakeRows(_, _)

IsNextAnywhere(row, got) == row.is = "row"    \* mutant: its address is not looked at

IsNext(row, got) == row.is = "row" /\ row.at = got.next

TakeRows(got, rows) ==
  IF rows = <<>> \/ Needed(got) = 0 THEN got
  ELSE CASE rows[1].is = "empty"    -> TakeRows(got, Tail(rows))
         [] IsNext(rows[1], got)    -> TakeRows(TakeRow(got, rows[1]), Tail(rows))
         [] OTHER                   -> Throws

Asked(got) == IF Needed(got) <= RowBytes THEN 1 ELSE DumpRows

(***************************************************************************)
(* The loop, given the reply to its first command.                         *)
(***************************************************************************)
RECURSIVE GetMemoryBytes(_, _)
GetMemoryBytes(got, reply) ==
  LET then == TakeRows(got, reply)
  IN IF then.is = "throws" \/ Needed(then) = 0 THEN then
     ELSE GetMemoryBytes(then, Dump(then.next, Asked(then)))
=============================================================================
