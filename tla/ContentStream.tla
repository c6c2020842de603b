----------------------------- MODULE ContentStream -----------------------------
(***************************************************************************)
(* How cppdap finds messages in a stream of bytes (content_stream.cpp): a  *)
(* header with the length, an empty line, and as many bytes.               *)
(*                                                                         *)
(* A reader is what ContentReader keeps: the bytes in buf, the bytes that  *)
(* are still to be read from the stream, of which there are no more, and   *)
(* how far it has come in buf.  Bytes are names; three of them stand for   *)
(* the fifteen of "Content-Length:".                                       *)
(***************************************************************************)
EXTENDS Naturals, Sequences

Prefix == <<"C", "L", ":">>
Blanks == <<" ", "tab">>
Digits == <<"0", "1", "2", "3", "4", "5", "6", "7", "8", "9">>
EmptyLine == <<"cr", "lf", "cr", "lf">>

Reader(bytes) == [buf |-> <<>>, rest |-> bytes, idx |-> 0, len |-> 0, ok |-> TRUE]

(***************************************************************************)
(* buffer(): reads as many bytes as are missing and no more.  It fails     *)
(* when the stream ends before, but keeps what it got.                     *)
(***************************************************************************)
Buffer(r, n) ==
  LET missing == IF n > Len(r.buf) THEN n - Len(r.buf) ELSE 0
      got     == IF missing > Len(r.rest) THEN Len(r.rest) ELSE missing
  IN [r EXCEPT !.buf  = @ \o SubSeq(r.rest, 1, got),
               !.rest = SubSeq(@, got + 1, Len(@)),
               !.ok   = (got = missing)]

Match(r, seq) ==
  LET b == Buffer(r, r.idx + Len(seq))
  IN IF b.ok /\ SubSeq(b.buf, r.idx + 1, r.idx + Len(seq)) = seq
     THEN [b EXCEPT !.idx = @ + Len(seq)]
     ELSE [b EXCEPT !.ok = FALSE]

(***************************************************************************)
(* matchAny() takes a byte that is one of chars; strchr() finds a NUL in   *)
(* every string, which is then taken and ends the search all the same.     *)
(***************************************************************************)
Taken(b, chars) == \E i \in DOMAIN chars : chars[i] = b.buf[b.idx + 1]
Value(b)        == (CHOOSE i \in DOMAIN Digits : Digits[i] = b.buf[b.idx + 1]) - 1

RECURSIVE Scan(_), SkipBlanks(_), ParseLength(_)

ScanInStrides(r) ==    \* mutant: what does not match is dropped as a whole
  LET b == Buffer(r, Len(Prefix))
      m == Match(b, Prefix)
  IN IF ~b.ok \/ m.ok THEN m
     ELSE Scan([b EXCEPT !.buf = SubSeq(@, Len(Prefix) + 1, Len(@))])

Scan(r) ==
  LET b == Buffer(r, Len(Prefix))
      m == Match(b, Prefix)
  IN IF ~b.ok \/ m.ok THEN m ELSE Scan([b EXCEPT !.buf = Tail(@)])

SkipBlanks(r) ==
  LET b == Buffer(r, r.idx + 1)
  IN CASE ~b.ok                     -> b
       [] Taken(b, Blanks)          -> SkipBlanks([b EXCEPT !.idx = @ + 1])
       [] b.buf[b.idx + 1] = "nul"  -> [b EXCEPT !.idx = @ + 1]
       [] OTHER                     -> b

ParseLength(r) ==
  LET b == Buffer(r, r.idx + 1)
  IN CASE ~b.ok                     -> b
       [] Taken(b, Digits)          -> ParseLength([b EXCEPT !.idx = @ + 1,
                                                             !.len = 10 * @ + Value(b)])
       [] b.buf[b.idx + 1] = "nul"  -> [b EXCEPT !.idx = @ + 1]
       [] OTHER                     -> b

(***************************************************************************)
(* read(): a message and the reader behind it, or no message and the       *)
(* reader where it gave up, the prefix still in front of it.               *)
(***************************************************************************)
Header(r) ==
  LET prefix == Scan([r EXCEPT !.idx = 0, !.len = 0])
      length == ParseLength(SkipBlanks(prefix))
  IN IF ~prefix.ok \/ length.len = 0 THEN [length EXCEPT !.ok = FALSE]
     ELSE Match(length, EmptyLine)

Body(h) ==
  LET b == Buffer(h, h.idx + h.len) IN
  IF ~h.ok \/ ~b.ok THEN [text |-> <<>>, reader |-> [b EXCEPT !.ok = FALSE]]
  ELSE [text   |-> SubSeq(b.buf, b.idx + 1, b.idx + b.len),
        reader |-> [b EXCEPT !.buf = SubSeq(@, b.idx + b.len + 1, Len(@))]]

Read(r) == Body(Header(r))

(***************************************************************************)
(* The receive thread takes messages until there is none, which it would   *)
(* ask for again for ever while the stream is open.                        *)
(***************************************************************************)
RECURSIVE ReadAll(_)
ReadAll(r) == LET m == Read(r) IN IF m.reader.ok THEN <<m.text>> \o ReadAll(m.reader) ELSE <<>>

(***************************************************************************)
(* ContentWriter::write().                                                 *)
(***************************************************************************)
RECURSIVE Decimal(_)
Decimal(n) == IF n < 10 THEN <<Digits[n + 1]>> ELSE Decimal(n \div 10) \o <<Digits[(n % 10) + 1]>>

Write(text) == Prefix \o <<" ">> \o Decimal(Len(text)) \o EmptyLine \o text
=============================================================================
