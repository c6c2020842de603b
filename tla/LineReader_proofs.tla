--------------------------- MODULE LineReader_proofs ---------------------------
(***************************************************************************)
(* What is proved of read_line(), for any number of messages and whatever  *)
(* the chunks in which they arrive: on Xemu no line comes out that was not *)
(* sent, on the hardware the last line that comes out is a prompt, and it  *)
(* implements the channel of lines that M65Debugger is modelled with.      *)
(***************************************************************************)
EXTENDS LineReader, SequenceTheorems, WellFoundedInduction, TLAPS

\* What the bytes are.
Symbols == {CR, LF, "!", ".", "PC", "A", "2058", "E", ",", "0777", ":", "00", "r", "m", "2000"}

\* The bytes that were sent and not yet taken for lines.
Pending == buffer \o stream

(***************************************************************************)
(* Xemu: where a line begins there is the text of one, and its end.        *)
(***************************************************************************)
Texts == {Text(l) : l \in LineSet} \cup {Append(Text(l), CR) : l \in LineSet}

LineAt(s, i) == \E x \in Texts : /\ i + Len(x) \in 1 .. Len(s) /\ s[i + Len(x)] = LF
                                 /\ \A j \in 1 .. Len(x) : s[i + j - 1] = x[j]

Whole(s) == /\ s # <<>> => s[Len(s)] = LF
            /\ \A i \in 1 .. Len(s) : i = 1 \/ s[i - 1] = LF => LineAt(s, i)

(***************************************************************************)
(* The hardware: a prompt is the end of all, and what is in a line is      *)
(* followed by what belongs behind it, up to the line's end.               *)
(***************************************************************************)
EndsInPrompt(s) == s # <<>> => s[Len(s)] = "."

Successor(a) == CASE a = "PC" -> "A"    [] a = "2058" -> "."  [] a = "," -> "0777"
                  [] a = ":"  -> "00"   [] a = "m" -> "2000"  [] a = CR  -> LF
                  [] OTHER -> CR

SpelledAt(s, i) ==
  \/ s[i] \in {".", LF}
  \/ /\ i + 1 \in 1 .. Len(s) /\ s[i + 1] = Successor(s[i])
     /\ s[i] = "2058" => i + 2 \in 1 .. Len(s) /\ s[i + 2] = "E"

Spelled(s) == \A i \in 1 .. Len(s) : SpelledAt(s, i)

Fine(xemu, s) == IF xemu THEN Whole(s) ELSE EndsInPrompt(s) /\ Spelled(s)

ReaderInv == TypeOK /\ Fine(isXemu, Pending) /\ PromptComesLast

-----------------------------------------------------------------------------
(***************************************************************************)
(* Concatenations and what is left of them.                                *)
(***************************************************************************)
Cat(s, t) == s \o t

LEMMA Cats ==
  ASSUME NEW S, NEW s \in Seq(S), NEW t \in Seq(S)
  PROVE  /\ Cat(s, t) \in Seq(S) /\ Len(Cat(s, t)) = Len(s) + Len(t)
         /\ \A i \in 1 .. Len(s) : Cat(s, t)[i] = s[i]
         /\ \A i \in 1 .. Len(t) : Cat(s, t)[Len(s) + i] = t[i]
<1>1. Len(s) \in Nat /\ Len(t) \in Nat
  BY LenProperties
<1>. QED BY <1>1, ConcatProperties DEF Cat

LEMMA CatEmpty ==
  ASSUME NEW S, NEW s \in Seq(S), NEW t \in Seq(S)
  PROVE  /\ Cat(s, <<>>) = s /\ Cat(<<>>, s) = s
         /\ Cat(s, t) = <<>> <=> s = <<>> /\ t = <<>>
BY ConcatEmptySeq, ConcatEqualIffEmpty DEF Cat

LEMMA Froms ==
  ASSUME NEW S, NEW s \in Seq(S), NEW k \in 1 .. Len(s) + 1
  PROVE  /\ From(s, k) \in Seq(S) /\ Len(From(s, k)) = Len(s) - k + 1
         /\ \A i \in 1 .. Len(s) - k + 1 : From(s, k)[i] = s[k + i - 1]
<1>1. Len(s) \in Nat /\ \A i \in 1 .. Len(s) : s[i] \in S
  BY LenProperties, ElementOfSeq
<1>2. \A i \in k .. Len(s) : s[i] \in S
  BY <1>1
<1>3. /\ From(s, k) \in Seq(S)
      /\ Len(From(s, k)) = IF k <= Len(s) THEN Len(s) - k + 1 ELSE 0
      /\ \A i \in 1 .. Len(s) - k + 1 : From(s, k)[i] = s[k + i - 1]
  BY <1>1, <1>2, SubSeqProperties DEF From
<1>. QED BY <1>1, <1>3

LEMMA FromCat ==
  ASSUME NEW S, NEW s \in Seq(S), NEW t \in Seq(S), NEW k \in 1 .. Len(t) + 1
  PROVE  From(Cat(s, t), Len(s) + k) = From(t, k)
<1>. DEFINE c == Cat(s, t)  m == Len(s) + k  u == From(c, m)  v == From(t, k)
<1>1. /\ Len(s) \in Nat /\ Len(t) \in Nat /\ c \in Seq(S) /\ Len(c) = Len(s) + Len(t)
      /\ \A i \in 1 .. Len(t) : c[Len(s) + i] = t[i]
  BY Cats, LenProperties
<1>. HIDE DEF c
<1>2. m \in 1 .. Len(c) + 1 /\ m = Len(s) + k
  BY <1>1
<1>. HIDE DEF m
<1>3. /\ u \in Seq(S) /\ Len(u) = Len(c) - m + 1
      /\ \A j \in 1 .. Len(c) - m + 1 : u[j] = c[m + j - 1]
  <2>1. c \in Seq(S) /\ m \in 1 .. Len(c) + 1
    BY <1>1, <1>2
  <2>. QED BY <2>1, Froms
<1>4. /\ v \in Seq(S) /\ Len(v) = Len(t) - k + 1
      /\ \A j \in 1 .. Len(t) - k + 1 : v[j] = t[k + j - 1]
  BY <1>1, Froms
<1>. HIDE DEF u, v
<1>5. ASSUME NEW j \in 1 .. Len(u)
      PROVE  u[j] = v[j]
  <2>. DEFINE h == k + j - 1
  <2>1. h \in 1 .. Len(t) /\ Len(s) + h = m + j - 1
    BY <1>1, <1>2, <1>3
  <2>. HIDE DEF h
  <2>2. c[Len(s) + h] = t[h]
    BY <1>1, <2>1
  <2>3. u[j] = c[m + j - 1] /\ v[j] = t[h]
    BY <1>1, <1>2, <1>3, <1>4 DEF h
  <2>. QED BY <2>1, <2>2, <2>3
<1>6. u = v
  BY <1>1, <1>2, <1>3, <1>4, <1>5, SeqEqual
<1>. QED BY <1>6 DEF u, v, c, m

LEMMA FromCatLeft ==
  ASSUME NEW S, NEW s \in Seq(S), NEW t \in Seq(S), NEW k \in 1 .. Len(s) + 1
  PROVE  From(Cat(s, t), k) = Cat(From(s, k), t)
<1>. DEFINE c == Cat(s, t)  r == From(s, k)  u == From(c, k)  v == Cat(r, t)
<1>t. s \in Seq(S) /\ t \in Seq(S) /\ Len(s) \in Nat /\ Len(t) \in Nat
  BY LenProperties
<1>1. c \in Seq(S) /\ Len(c) = Len(s) + Len(t) /\ \A i \in 1 .. Len(s) : c[i] = s[i]
  BY Cats
<1>2. \A i \in 1 .. Len(t) : c[Len(s) + i] = t[i]
  BY Cats
<1>. HIDE DEF c
<1>3. r \in Seq(S) /\ Len(r) = Len(s) - k + 1 /\ \A i \in 1 .. Len(s) - k + 1 : r[i] = s[k + i - 1]
  BY Froms
<1>. HIDE DEF r
<1>4. /\ u \in Seq(S) /\ Len(u) = Len(c) - k + 1
      /\ \A i \in 1 .. Len(c) - k + 1 : u[i] = c[k + i - 1]
  <2>1. c \in Seq(S) /\ k \in 1 .. Len(c) + 1
    BY <1>t, <1>1
  <2>. QED BY <2>1, Froms
<1>d. r \in Seq(S)
  BY <1>3
<1>5. v \in Seq(S) /\ Len(v) = Len(r) + Len(t) /\ \A i \in 1 .. Len(r) : v[i] = r[i]
  BY <1>d, Cats
<1>6. \A i \in 1 .. Len(t) : v[Len(r) + i] = t[i]
  BY <1>d, Cats
<1>. HIDE DEF u, v
<1>l. /\ Len(s) \in Nat /\ Len(t) \in Nat /\ Len(c) = Len(s) + Len(t) /\ Len(r) = Len(s) - k + 1
      /\ Len(u) = Len(c) - k + 1
  BY <1>t, <1>1, <1>3, <1>4
<1>7. ASSUME NEW j \in 1 .. Len(u)
      PROVE  u[j] = v[j]
  <2>1. CASE j \in 1 .. Len(r)
    <3>. DEFINE h == k + j - 1
    <3>1. h \in 1 .. Len(s) /\ j \in 1 .. Len(s) - k + 1 /\ j \in 1 .. Len(c) - k + 1
      BY <2>1, <1>t, <1>1, <1>3
    <3>. HIDE DEF h
    <3>2. c[h] = s[h]
      BY <3>1, <1>1
    <3>3. u[j] = c[h] /\ r[j] = s[h] /\ v[j] = r[j]
      BY <2>1, <3>1, <1>3, <1>4, <1>5 DEF h
    <3>. QED BY <3>2, <3>3
  <2>2. CASE j \notin 1 .. Len(r)
    <3>. DEFINE h == j - Len(r)
    <3>1. /\ h \in 1 .. Len(t) /\ j = Len(r) + h /\ k + j - 1 = Len(s) + h
          /\ j \in 1 .. Len(c) - k + 1
      BY <2>2, <1>l
    <3>. HIDE DEF h
    <3>2. c[Len(s) + h] = t[h] /\ v[Len(r) + h] = t[h]
      BY <3>1, <1>2, <1>6
    <3>3. u[j] = c[k + j - 1]
      BY <3>1, <1>4
    <3>. QED BY <3>1, <3>2, <3>3
  <2>. QED BY <2>1, <2>2
<1>8. Len(u) = Len(v)
  BY <1>t, <1>1, <1>3, <1>4, <1>5
<1>9. u = v
  BY <1>4, <1>5, <1>7, <1>8, SeqEqual
<1>. QED BY <1>9 DEF u, v, c, r

-----------------------------------------------------------------------------
(***************************************************************************)
(* The lines and their texts.                                              *)
(***************************************************************************)
LEMMA TextIs ==
  /\ Text(Blank) = <<>> /\ Text(Bang) = <<"!">> /\ Text(Dot) = <<".">>
  /\ Text(Header) = <<"PC", "A">> /\ Text(Regs("hit")) = <<"2058", ".", "E">>
  /\ Text(Flags) = <<"E">> /\ Text(Loc) = <<",", "0777">> /\ Text(Mem("fresh")) = <<":", "00">>
  /\ Text(Echo("r")) = <<"r">> /\ Text(Echo("code")) = <<"m", "2000">>
BY DEF Text, Blank, Bang, Dot, Header, Regs, Flags, Loc, Mem, Echo, Line

\* What a text is: no line end in it, and a mark only where it is alone.
IsText(x) ==
  /\ x \in Seq(Symbols)
  /\ \A i \in 1 .. Len(x) : x[i] # LF
  /\ x # <<>> => x[Len(x)] # CR
  /\ Len(x) >= 1 /\ x[1] \in {".", "!"} => Len(x) = 1

NoMark(x) == \A i \in 1 .. Len(x) : x[i] # "!"

LEMMA ShortTexts ==
  ASSUME NEW a \in Symbols \ {CR, LF}, NEW b \in Symbols \ {CR, LF}, NEW c \in Symbols \ {CR, LF}
  PROVE  /\ IsText(<<>>) /\ NoMark(<<>>)
         /\ IsText(<<a>>) /\ (a # "!" => NoMark(<<a>>))
         /\ a \notin {".", "!"} => /\ IsText(<<a, b>>) /\ (b # "!" => NoMark(<<a, b>>))
                                   /\ IsText(<<a, b, c>>) /\ ("!" \notin {b, c} => NoMark(<<a, b, c>>))
BY DEF IsText, NoMark

LEMMA SymbolsAre ==
  /\ {"!", ".", "PC", "A", "2058", "E", ",", "0777", ":", "00", "r", "m", "2000"} \subseteq Symbols \ {CR, LF}
  /\ CR \in Symbols /\ LF \in Symbols /\ CR # LF /\ {CR, LF} \cap {".", "!"} = {}
BY DEF Symbols, CR, LF

LEMMA TextFacts == \A l \in LineSet : IsText(Text(l)) /\ (l # Bang => NoMark(Text(l)))
<1>. /\ IsText(<<>>) /\ NoMark(<<>>)
     /\ \A a \in Symbols \ {CR, LF} : IsText(<<a>>) /\ (a # "!" => NoMark(<<a>>))
  BY DEF IsText, NoMark
<1>1. IsText(Text(Blank)) /\ NoMark(Text(Blank)) /\ IsText(Text(Bang)) /\ IsText(Text(Dot)) /\ NoMark(Text(Dot))
  BY TextIs, SymbolsAre
<1>2. IsText(Text(Header)) /\ NoMark(Text(Header))
  BY TextIs, SymbolsAre, ShortTexts
<1>3. IsText(Text(Regs("hit"))) /\ NoMark(Text(Regs("hit")))
  BY TextIs, SymbolsAre, ShortTexts
<1>4. IsText(Text(Flags)) /\ NoMark(Text(Flags)) /\ IsText(Text(Loc)) /\ NoMark(Text(Loc))
  BY TextIs, SymbolsAre, ShortTexts
<1>5. IsText(Text(Mem("fresh"))) /\ NoMark(Text(Mem("fresh")))
  BY TextIs, SymbolsAre, ShortTexts
<1>6. /\ IsText(Text(Echo("r"))) /\ NoMark(Text(Echo("r")))
      /\ IsText(Text(Echo("code"))) /\ NoMark(Text(Echo("code")))
  BY TextIs, SymbolsAre, ShortTexts
<1>. QED BY <1>1, <1>2, <1>3, <1>4, <1>5, <1>6 DEF LineSet

\* The text of a line, with the carriage return of its end or without.
LEMMA WithReturn ==
  ASSUME NEW t, IsText(t), NEW x, x = Append(t, CR)
  PROVE  /\ x \in Seq(Symbols) /\ Len(x) = Len(t) + 1 /\ x # <<>> /\ x[Len(x)] = CR
         /\ \A i \in 1 .. Len(t) : x[i] = t[i]
         /\ Front(x) = t
<1>1. t \in Seq(Symbols) /\ Len(t) \in Nat /\ CR \in Symbols
  BY SymbolsAre, LenProperties DEF IsText
<1>2. x \in Seq(Symbols) /\ Len(x) = Len(t) + 1 /\ x[Len(x)] = CR /\ \A i \in 1 .. Len(t) : x[i] = t[i]
  BY <1>1, AppendProperties
<1>3. x # <<>>
  BY <1>1, <1>2
<1>4. /\ Front(x) \in Seq(Symbols) /\ Len(Front(x)) = Len(t)
      /\ \A i \in 1 .. Len(t) : Front(x)[i] = x[i]
  <2>. DEFINE n == Len(x) - 1
  <2>1. n \in Nat /\ n = Len(t) /\ \A i \in 1 .. n : x[i] \in Symbols
    BY <1>1, <1>2, ElementOfSeq
  <2>. HIDE DEF n
  <2>2. /\ SubSeq(x, 1, n) \in Seq(Symbols) /\ Len(SubSeq(x, 1, n)) = IF 1 <= n THEN n - 1 + 1 ELSE 0
        /\ \A i \in 1 .. n - 1 + 1 : SubSeq(x, 1, n)[i] = x[1 + i - 1]
    BY <2>1, SubSeqProperties
  <2>3. Front(x) = SubSeq(x, 1, n)
    BY DEF Front, n
  <2>4. \A i \in 1 .. Len(t) : SubSeq(x, 1, n)[i] = x[i]
    BY <2>1, <2>2
  <2>. QED BY <2>1, <2>2, <2>3, <2>4
<1>5. \A i \in 1 .. Len(t) : Front(x)[i] = t[i]
  BY <1>2, <1>4
<1>6. Front(x) = t
  BY <1>1, <1>4, <1>5, SeqEqual
<1>. QED BY <1>2, <1>3, <1>6

\* The texts that read_line() may find before a line feed.
LEMMA TextsFacts ==
  ASSUME NEW x \in Texts
  PROVE  /\ x \in Seq(Symbols) /\ Len(x) \in Nat
         /\ \A i \in 1 .. Len(x) : x[i] # LF
         /\ Len(x) >= 1 /\ x[1] \in {".", "!"} => Len(x) = 1 \/ (Len(x) = 2 /\ x[2] = CR)
         /\ Parsed(x) \in LineSet
<1>1. PICK l \in LineSet : x = Text(l) \/ x = Append(Text(l), CR)
  BY DEF Texts
<1>. DEFINE t == Text(l)
<1>2. IsText(t)
  BY TextFacts
<1>3. ASSUME NEW y, \E k \in LineSet : Text(k) = y
      PROVE  (CHOOSE k \in LineSet : Text(k) = y) \in LineSet
  BY <1>3
<1>4. (CHOOSE k \in LineSet : Text(k) = t) \in LineSet /\ \E k \in LineSet : Text(k) = t
  BY <1>3
<1>5. t \in Seq(Symbols) /\ Len(t) \in Nat
  BY <1>2, LenProperties DEF IsText
<1>6. CASE x = t
  <2>1. ~(x # <<>> /\ Last(x) = CR)
    BY <1>2, <1>6 DEF IsText, Last
  <2>2. Parsed(x) = CHOOSE k \in LineSet : Text(k) = t
    BY <1>4, <1>6, <2>1 DEF Parsed
  <2>3. \A i \in 1 .. Len(x) : x[i] # LF
    BY <1>2, <1>6 DEF IsText
  <2>4. Len(x) >= 1 /\ x[1] \in {".", "!"} => Len(x) = 1
    BY <1>2, <1>6 DEF IsText
  <2>5. Parsed(x) \in LineSet
    BY <1>4, <2>2
  <2>6. x \in Seq(Symbols) /\ Len(x) \in Nat
    BY <1>5, <1>6
  <2>. QED BY <2>3, <2>4, <2>5, <2>6
<1>7. CASE x = Append(t, CR)
  <2>. HIDE DEF t
  <2>1. /\ x \in Seq(Symbols) /\ Len(x) = Len(t) + 1 /\ x # <<>> /\ x[Len(x)] = CR
        /\ \A i \in 1 .. Len(t) : x[i] = t[i]
        /\ Front(x) = t
    BY <1>2, <1>7, WithReturn
  <2>2. Parsed(x) = CHOOSE k \in LineSet : Text(k) = t
    BY <1>4, <2>1 DEF Parsed, Last
  <2>3. \A i \in 1 .. Len(x) : x[i] # LF
    BY <1>2, <1>5, <2>1 DEF IsText, LF, CR
  <2>4. ASSUME x[1] \in {".", "!"}
        PROVE  Len(x) = 2 /\ x[2] = CR
    <3>1. Len(t) # 0
      BY <2>1, <2>4 DEF CR
    <3>2. Len(t) >= 1 /\ t[1] = x[1]
      BY <1>5, <2>1, <3>1
    <3>3. Len(t) = 1
      BY <1>2, <2>4, <3>2 DEF IsText
    <3>. QED BY <2>1, <3>3
  <2>. QED BY <1>4, <1>5, <2>1, <2>2, <2>3, <2>4
<1>. QED BY <1>1, <1>6, <1>7

LEMMA ParsedTypes == \A x : Parsed(x) \in LineSet \cup {Junk}
<1>1. ASSUME NEW y, \E k \in LineSet : Text(k) = y
      PROVE  (CHOOSE k \in LineSet : Text(k) = y) \in LineSet
  BY <1>1
<1>. QED BY <1>1 DEF Parsed

LEMMA EndTexts == <<>> \in Texts /\ <<CR>> \in Texts /\ Len(<<>>) = 0 /\ Len(<<CR>>) = 1 /\ <<CR>>[1] = CR
<1>1. Blank \in LineSet /\ Text(Blank) = <<>>
  BY TextIs DEF LineSet
<1>2. Append(<<>>, CR) = <<CR>>
  OBVIOUS
<1>. QED BY <1>1, <1>2 DEF Texts

LEMMA FirstEolIs ==
  ASSUME NEW s \in Seq(Symbols), Contains(s, LF)
  PROVE  /\ FirstEol(s) \in 1 .. Len(s) /\ s[FirstEol(s)] = LF
         /\ \A j \in 1 .. FirstEol(s) - 1 : s[j] # LF
<1>. DEFINE T == {i \in 1 .. Len(s) : s[i] = LF}
<1>0. DOMAIN s = 1 .. Len(s) /\ Len(s) \in Nat
  BY LenProperties
<1>1. T \subseteq Nat /\ T # {}
  BY DEF Contains
<1>2. PICK i \in T : \A j \in T : ~(<<j, i>> \in OpToRel(<, Nat))
  <2>. HIDE DEF T
  <2>. QED BY <1>1, NatLessThanWellFounded, WFMin
<1>3. \A j \in T : ~(j < i)
  BY <1>1, <1>2 DEF OpToRel
<1>4. \A j \in 1 .. i - 1 : s[j] # LF
  BY <1>0, <1>3
<1>5. \E k \in DOMAIN s : s[k] = LF /\ \A j \in 1 .. k - 1 : s[j] # LF
  BY <1>0, <1>4
<1>6. FirstEol(s) \in DOMAIN s /\ s[FirstEol(s)] = LF /\ \A j \in 1 .. FirstEol(s) - 1 : s[j] # LF
  BY <1>5 DEF FirstEol
<1>. QED BY <1>0, <1>6

-----------------------------------------------------------------------------
(***************************************************************************)
(* What whole lines are put together of, and what is left of them.         *)
(***************************************************************************)
LEMMA LineMoved ==
  ASSUME NEW s \in Seq(Symbols), NEW t \in Seq(Symbols), NEW d \in Int, NEW i \in Nat \ {0},
         \A j \in i .. Len(s) : d + j \in 1 .. Len(t) /\ t[d + j] = s[j],
         LineAt(s, i)
  PROVE  LineAt(t, d + i)
<1>1. PICK x \in Texts : /\ i + Len(x) \in 1 .. Len(s) /\ s[i + Len(x)] = LF
                         /\ \A j \in 1 .. Len(x) : s[i + j - 1] = x[j]
  BY DEF LineAt
<1>2. Len(x) \in Nat /\ Len(s) \in Nat /\ Len(t) \in Nat
  BY TextsFacts, LenProperties
<1>3. d + i + Len(x) \in 1 .. Len(t) /\ t[d + i + Len(x)] = LF
  <2>. DEFINE h == i + Len(x)
  <2>1. h \in i .. Len(s) /\ d + i + Len(x) = d + h
    BY <1>1, <1>2
  <2>. HIDE DEF h
  <2>2. d + h \in 1 .. Len(t) /\ t[d + h] = s[h]
    BY <2>1
  <2>. QED BY <1>1, <2>1, <2>2 DEF h
<1>4. ASSUME NEW j \in 1 .. Len(x)
      PROVE  t[d + i + j - 1] = x[j]
  <2>. DEFINE h == i + j - 1
  <2>1. h \in i .. Len(s) /\ d + i + j - 1 = d + h
    BY <1>1, <1>2
  <2>. HIDE DEF h
  <2>2. t[d + h] = s[h]
    BY <2>1
  <2>3. s[h] = x[j]
    BY <1>1 DEF h
  <2>. QED BY <2>1, <2>2, <2>3
<1>. QED BY <1>3, <1>4 DEF LineAt

LEMMA WholeCat ==
  ASSUME NEW s \in Seq(Symbols), NEW t \in Seq(Symbols), Whole(s), Whole(t)
  PROVE  Whole(Cat(s, t))
<1>. DEFINE c == Cat(s, t)
<1>t. s \in Seq(Symbols) /\ t \in Seq(Symbols) /\ Len(s) \in Nat /\ Len(t) \in Nat
  BY LenProperties
<1>1. c \in Seq(Symbols) /\ Len(c) = Len(s) + Len(t) /\ \A i \in 1 .. Len(s) : c[i] = s[i]
  BY <1>t, Cats
<1>2. \A i \in 1 .. Len(t) : c[Len(s) + i] = t[i]
  BY <1>t, Cats
<1>3. (t = <<>> => c = s) /\ (t # <<>> => Len(t) >= 1) /\ (c # <<>> => Len(c) >= 1)
  <2>1. t = <<>> => c = s
    BY CatEmpty
  <2>2. (t # <<>> => Len(t) >= 1) /\ (c # <<>> => Len(c) >= 1)
    BY <1>1, EmptySeq
  <2>. QED BY <2>1, <2>2
<1>. HIDE DEF c
<1>4. CASE t = <<>>
  BY <1>3, <1>4 DEF c
<1>5. CASE t # <<>>
  <2>1. c[Len(c)] = LF
    <3>1. t[Len(t)] = LF /\ Len(t) \in 1 .. Len(t)
      BY <1>t, <1>3, <1>5 DEF Whole
    <3>. QED BY <1>1, <1>2, <3>1
  <2>2. ASSUME NEW i \in 1 .. Len(c), i = 1 \/ c[i - 1] = LF
        PROVE  LineAt(c, i)
    <3>1. CASE i \in 1 .. Len(s)
      <4>1. i = 1 \/ s[i - 1] = LF
        BY <1>1, <1>t, <2>2, <3>1
      <4>2. LineAt(s, i) /\ i \in Nat \ {0}
        BY <3>1, <4>1 DEF Whole
      <4>. DEFINE d == 0
      <4>3. d \in Int /\ d + i = i /\ \A j \in i .. Len(s) : d + j \in 1 .. Len(c) /\ c[d + j] = s[j]
        BY <1>1, <1>t, <3>1
      <4>. HIDE DEF d
      <4>4. LineAt(c, d + i)
        BY <1>1, <4>2, <4>3, LineMoved
      <4>. QED BY <4>3, <4>4
    <3>2. CASE i \notin 1 .. Len(s)
      <4>. DEFINE d == Len(s)  h == i - d
      <4>1. h \in 1 .. Len(t) /\ i = d + h /\ d \in Int
        BY <1>1, <1>t, <3>2
      <4>2. h = 1 \/ (h - 1 \in 1 .. Len(t) /\ i - 1 = d + (h - 1))
        BY <1>t, <4>1
      <4>. HIDE DEF h
      <4>3. h = 1 \/ t[h - 1] = LF
        <5>1. CASE h # 1
          <6>1. i - 1 = Len(s) + (h - 1) /\ h - 1 \in 1 .. Len(t)
            BY <4>2, <5>1
          <6>2. c[i - 1] = t[h - 1]
            BY <1>2, <6>1
          <6>3. i # 1
            BY <1>t, <4>1, <5>1
          <6>. QED BY <2>2, <6>2, <6>3
        <5>. QED BY <5>1
      <4>4. LineAt(t, h) /\ h \in Nat \ {0}
        BY <4>1, <4>3 DEF Whole
      <4>5. \A j \in h .. Len(t) : d + j \in 1 .. Len(c) /\ c[d + j] = t[j]
        BY <1>1, <1>2, <1>t, <4>4
      <4>. HIDE DEF d
      <4>6. LineAt(c, d + h)
        BY <1>1, <4>1, <4>4, <4>5, LineMoved
      <4>. QED BY <4>1, <4>6
    <3>. QED BY <3>1, <3>2
  <2>. QED BY <2>1, <2>2 DEF Whole, c
<1>. QED BY <1>4, <1>5 DEF c

LEMMA WholeFrom ==
  ASSUME NEW s \in Seq(Symbols), NEW p \in 1 .. Len(s) + 1, Whole(s), p \in 1 .. Len(s) => LineAt(s, p)
  PROVE  Whole(From(s, p))
<1>. DEFINE t == From(s, p)  d == 1 - p
<1>1. Len(s) \in Nat /\ d \in Int
  BY LenProperties
<1>2. /\ t \in Seq(Symbols) /\ Len(t) = Len(s) - p + 1
      /\ \A i \in 1 .. Len(s) - p + 1 : t[i] = s[p + i - 1]
  BY Froms
<1>3. t # <<>> => Len(t) >= 1
  BY <1>2, EmptySeq
<1>. HIDE DEF t
<1>4. t # <<>> => t[Len(t)] = LF
  <2>1. CASE t # <<>>
    <3>1. Len(t) \in 1 .. Len(s) - p + 1 /\ p + Len(t) - 1 = Len(s) /\ Len(s) >= 1
      BY <1>1, <1>2, <1>3, <2>1
    <3>2. t[Len(t)] = s[Len(s)]
      BY <1>2, <3>1
    <3>3. s # <<>>
      BY <3>1, EmptySeq
    <3>. QED BY <3>2, <3>3 DEF Whole
  <2>. QED BY <2>1
<1>5. ASSUME NEW i \in 1 .. Len(t), i = 1 \/ t[i - 1] = LF
      PROVE  LineAt(t, i)
  <2>. DEFINE h == p + i - 1
  <2>1. h \in p .. Len(s) /\ h \in 1 .. Len(s) /\ h \in Nat \ {0} /\ d + h = i
    BY <1>1, <1>2
  <2>2. i = 1 => h = p
    OBVIOUS
  <2>3. i # 1 => i - 1 \in 1 .. Len(s) - p + 1 /\ p + (i - 1) - 1 = h - 1 /\ h # 1
    BY <1>1, <1>2
  <2>. HIDE DEF h
  <2>4. LineAt(s, h)
    <3>1. CASE i = 1
      BY <2>1, <2>2, <3>1
    <3>2. CASE i # 1
      <4>1. t[i - 1] = s[h - 1]
        BY <1>2, <2>3, <3>2
      <4>. QED BY <1>5, <2>1, <3>2, <4>1 DEF Whole
    <3>. QED BY <3>1, <3>2
  <2>5. \A j \in h .. Len(s) : d + j \in 1 .. Len(t) /\ t[d + j] = s[j]
    <3>. SUFFICES ASSUME NEW j \in h .. Len(s)
                  PROVE  d + j \in 1 .. Len(t) /\ t[d + j] = s[j]
      OBVIOUS
    <3>. DEFINE k == d + j
    <3>1. k \in 1 .. Len(s) - p + 1 /\ p + k - 1 = j
      BY <1>1, <2>1
    <3>. HIDE DEF k
    <3>2. t[k] = s[p + k - 1]
      BY <1>2, <3>1
    <3>. QED BY <1>2, <3>1, <3>2 DEF k
  <2>. HIDE DEF d
  <2>6. LineAt(t, d + h)
    BY <1>1, <1>2, <2>1, <2>4, <2>5, LineMoved
  <2>. QED BY <2>1, <2>6
<1>. QED BY <1>4, <1>5 DEF Whole, t

-----------------------------------------------------------------------------
(***************************************************************************)
(* The same of what the hardware sends.                                    *)
(***************************************************************************)
LEMMA SpellingMoved ==
  ASSUME NEW s \in Seq(Symbols), NEW t \in Seq(Symbols), NEW d \in Int, NEW i \in 1 .. Len(s),
         \A j \in i .. Len(s) : d + j \in 1 .. Len(t) /\ t[d + j] = s[j],
         SpelledAt(s, i)
  PROVE  SpelledAt(t, d + i)
<1>1. Len(s) \in Nat /\ i \in i .. Len(s)
  BY LenProperties
<1>2. t[d + i] = s[i]
  BY <1>1
<1>3. CASE s[i] \in {".", LF}
  BY <1>2, <1>3 DEF SpelledAt
<1>4. CASE s[i] \notin {".", LF}
  <2>. DEFINE h == i + 1  k == i + 2
  <2>1. h \in 1 .. Len(s) /\ s[h] = Successor(s[i]) /\ (s[i] = "2058" => k \in 1 .. Len(s) /\ s[k] = "E")
    BY <1>4 DEF SpelledAt
  <2>2. /\ d + h = d + i + 1 /\ d + k = d + i + 2
         /\ (h \in 1 .. Len(s) => h \in i .. Len(s)) /\ (k \in 1 .. Len(s) => k \in i .. Len(s))
    BY <1>1
  <2>. HIDE DEF h, k
  <2>3. d + h \in 1 .. Len(t) /\ t[d + h] = s[h]
    BY <2>1, <2>2
  <2>4. s[i] = "2058" => d + k \in 1 .. Len(t) /\ t[d + k] = s[k]
    BY <2>1, <2>2
  <2>5. d + i + 1 \in 1 .. Len(t) /\ t[d + i + 1] = Successor(t[d + i])
    BY <1>2, <2>1, <2>2, <2>3
  <2>6. t[d + i] = "2058" => d + i + 2 \in 1 .. Len(t) /\ t[d + i + 2] = "E"
    BY <1>2, <2>1, <2>2, <2>4
  <2>. QED BY <2>5, <2>6 DEF SpelledAt
<1>. QED BY <1>3, <1>4

LEMMA SpelledCat ==
  ASSUME NEW s \in Seq(Symbols), NEW t \in Seq(Symbols), Spelled(s), Spelled(t)
  PROVE  Spelled(Cat(s, t))
<1>. DEFINE c == Cat(s, t)
<1>t. s \in Seq(Symbols) /\ t \in Seq(Symbols) /\ Len(s) \in Nat /\ Len(t) \in Nat
  BY LenProperties
<1>1. c \in Seq(Symbols) /\ Len(c) = Len(s) + Len(t) /\ \A i \in 1 .. Len(s) : c[i] = s[i]
  BY <1>t, Cats
<1>2. \A i \in 1 .. Len(t) : c[Len(s) + i] = t[i]
  BY <1>t, Cats
<1>. HIDE DEF c
<1>3. ASSUME NEW i \in 1 .. Len(c)
      PROVE  SpelledAt(c, i)
  <2>1. CASE i \in 1 .. Len(s)
    <3>. DEFINE d == 0
    <3>1. d \in Int /\ d + i = i /\ \A j \in i .. Len(s) : d + j \in 1 .. Len(c) /\ c[d + j] = s[j]
      BY <1>1, <1>t, <2>1
    <3>. HIDE DEF d
    <3>2. SpelledAt(s, i)
      BY <2>1 DEF Spelled
    <3>3. SpelledAt(c, d + i)
      BY <1>1, <2>1, <3>1, <3>2, SpellingMoved
    <3>. QED BY <3>1, <3>3
  <2>2. CASE i \notin 1 .. Len(s)
    <3>. DEFINE d == Len(s)  h == i - d
    <3>1. h \in 1 .. Len(t) /\ i = d + h /\ d \in Int
      BY <1>1, <1>t, <2>2
    <3>. HIDE DEF h
    <3>2. SpelledAt(t, h)
      BY <3>1 DEF Spelled
    <3>3. \A j \in h .. Len(t) : d + j \in 1 .. Len(c) /\ c[d + j] = t[j]
      BY <1>1, <1>2, <1>t, <3>1
    <3>. HIDE DEF d
    <3>4. SpelledAt(c, d + h)
      BY <1>1, <3>1, <3>2, <3>3, SpellingMoved
    <3>. QED BY <3>1, <3>4
  <2>. QED BY <2>1, <2>2
<1>. QED BY <1>3 DEF Spelled, c

LEMMA PromptCat ==
  ASSUME NEW s \in Seq(Symbols), NEW t \in Seq(Symbols), EndsInPrompt(t), EndsInPrompt(s) \/ t # <<>>
  PROVE  EndsInPrompt(Cat(s, t))
<1>. DEFINE c == Cat(s, t)
<1>t. s \in Seq(Symbols) /\ t \in Seq(Symbols) /\ Len(s) \in Nat /\ Len(t) \in Nat
  BY LenProperties
<1>1. c \in Seq(Symbols) /\ Len(c) = Len(s) + Len(t) /\ \A i \in 1 .. Len(t) : c[Len(s) + i] = t[i]
  BY <1>t, Cats
<1>2. (t = <<>> => c = s) /\ (t # <<>> => Len(t) >= 1)
  BY CatEmpty, EmptySeq
<1>. HIDE DEF c
<1>3. CASE t # <<>>
  <2>1. Len(t) \in 1 .. Len(t)
    BY <1>t, <1>2, <1>3
  <2>2. c[Len(c)] = t[Len(t)]
    BY <1>1, <2>1
  <2>. QED BY <1>3, <2>2 DEF EndsInPrompt, c
<1>. QED BY <1>2, <1>3 DEF c

LEMMA HardwareFrom ==
  ASSUME NEW s \in Seq(Symbols), NEW p \in 1 .. Len(s) + 1, EndsInPrompt(s), Spelled(s)
  PROVE  EndsInPrompt(From(s, p)) /\ Spelled(From(s, p))
<1>. DEFINE t == From(s, p)
<1>1. Len(s) \in Nat
  BY LenProperties
<1>2. /\ t \in Seq(Symbols) /\ Len(t) = Len(s) - p + 1
      /\ \A i \in 1 .. Len(s) - p + 1 : t[i] = s[p + i - 1]
  BY Froms
<1>3. t # <<>> => Len(t) >= 1
  BY <1>2, EmptySeq
<1>. HIDE DEF t
<1>4. t # <<>> => t[Len(t)] = "."
  <2>1. CASE t # <<>>
    <3>1. Len(t) \in 1 .. Len(s) - p + 1 /\ p + Len(t) - 1 = Len(s) /\ Len(s) >= 1
      BY <1>1, <1>2, <1>3, <2>1
    <3>2. t[Len(t)] = s[Len(s)]
      BY <1>2, <3>1
    <3>3. s # <<>>
      BY <3>1, EmptySeq
    <3>. QED BY <3>2, <3>3 DEF EndsInPrompt
  <2>. QED BY <2>1
<1>5. ASSUME NEW i \in 1 .. Len(t)
      PROVE  SpelledAt(t, i)
  <2>. DEFINE d == 1 - p  h == p + i - 1
  <2>1. h \in 1 .. Len(s) /\ d + h = i /\ d \in Int /\ h >= p
    BY <1>1, <1>2
  <2>. HIDE DEF h
  <2>2. \A j \in h .. Len(s) : d + j \in 1 .. Len(t) /\ t[d + j] = s[j]
    <3>. SUFFICES ASSUME NEW j \in h .. Len(s)
                  PROVE  d + j \in 1 .. Len(t) /\ t[d + j] = s[j]
      OBVIOUS
    <3>. DEFINE k == d + j
    <3>1. k \in 1 .. Len(s) - p + 1 /\ p + k - 1 = j
      BY <1>1, <2>1
    <3>. HIDE DEF k
    <3>2. t[k] = s[p + k - 1]
      BY <1>2, <3>1
    <3>. QED BY <1>2, <3>1, <3>2 DEF k
  <2>3. SpelledAt(s, h)
    BY <2>1 DEF Spelled
  <2>. HIDE DEF d
  <2>4. SpelledAt(t, d + h)
    BY <1>2, <2>1, <2>2, <2>3, SpellingMoved
  <2>. QED BY <2>1, <2>4
<1>. QED BY <1>4, <1>5 DEF EndsInPrompt, Spelled, t

-----------------------------------------------------------------------------
(***************************************************************************)
(* What the target sends.                                                  *)
(***************************************************************************)
Ends == {<<LF>>, <<CR, LF>>}

LEMMA EolFacts ==
  ASSUME NEW l \in LineSet
  PROVE  /\ isXemu => Eol(l) \in Ends
         /\ ~isXemu => Eol(l) = IF l = Dot THEN <<>> ELSE <<CR, LF>>
<1>1. l = Dot => l.kind # "mem"
  <2>1. Dot.kind = "dot"
    BY DEF Dot, Line
  <2>. QED BY <2>1
<1>2. CASE isXemu
  BY <1>2 DEF Eol, Ends
<1>3. CASE ~isXemu
  BY <1>1, <1>3 DEF Eol
<1>. QED BY <1>2, <1>3

LEMMA WholeLine ==
  ASSUME NEW x \in Texts, NEW s \in Seq(Symbols), Len(s) = Len(x) + 1, s[Len(s)] = LF,
         \A i \in 1 .. Len(x) : s[i] = x[i]
  PROVE  Whole(s)
<1>1. Len(x) \in Nat /\ \A i \in 1 .. Len(x) : x[i] # LF
  BY TextsFacts
<1>2. LineAt(s, 1)
  BY <1>1 DEF LineAt
<1>3. ASSUME NEW i \in 1 .. Len(s), i = 1 \/ s[i - 1] = LF
      PROVE  LineAt(s, i)
  <2>1. CASE i # 1
    <3>. DEFINE h == i - 1
    <3>1. h \in 1 .. Len(x)
      BY <1>1, <2>1
    <3>. HIDE DEF h
    <3>2. s[h] # LF
      BY <1>1, <3>1
    <3>. QED BY <1>3, <2>1, <3>2 DEF h
  <2>. QED BY <1>2, <2>1
<1>. QED BY <1>3 DEF Whole

LEMMA EndsAre ==
  ASSUME NEW e \in Ends
  PROVE  /\ e \in Seq(Symbols) /\ Len(e) \in 1 .. 2 /\ e[Len(e)] = LF
         /\ Len(e) = 2 => e[1] = CR
         /\ \A i \in 1 .. Len(e) : e[i] # "!"
<1>s. CR \in Symbols /\ LF \in Symbols /\ CR # "!" /\ LF # "!"
  BY DEF Symbols, CR, LF
<1>1. CASE e = <<LF>>
  <2>1. e \in Seq(Symbols) /\ Len(e) = 1 /\ e[1] = LF
    BY <1>1, <1>s
  <2>. QED BY <1>s, <2>1
<1>2. CASE e = <<CR, LF>>
  <2>1. e \in Seq(Symbols) /\ Len(e) = 2 /\ e[1] = CR /\ e[2] = LF
    BY <1>2, <1>s
  <2>. QED BY <1>s, <2>1
<1>. QED BY <1>1, <1>2 DEF Ends

LEMMA Successors ==
  /\ Successor("PC") = "A" /\ Successor("2058") = "." /\ Successor(",") = "0777" /\ Successor(":") = "00"
  /\ Successor("m") = "2000" /\ Successor(CR) = LF
  /\ Successor("!") = CR /\ Successor("A") = CR /\ Successor("E") = CR /\ Successor("0777") = CR
  /\ Successor("00") = CR /\ Successor("r") = CR /\ Successor("2000") = CR
BY DEF Successor, CR, LF

\* A text of one, and of two symbols.
LEMMA OneSpelled ==
  ASSUME NEW a, NEW t, t = <<a>>, Successor(a) = CR, a # "2058", NEW i \in 1 .. Len(t)
  PROVE  /\ i < Len(t) => t[i + 1] = Successor(t[i])
         /\ i = Len(t) => Successor(t[i]) = CR
         /\ t[i] = "2058" => i + 2 = Len(t) /\ t[i + 2] = "E"
<1>1. Len(t) = 1 /\ t[1] = a /\ i = 1
  OBVIOUS
<1>. QED BY <1>1

LEMMA TwoSpelled ==
  ASSUME NEW a, NEW b, NEW t, t = <<a, b>>, Successor(a) = b, Successor(b) = CR,
         a # "2058", b # "2058", NEW i \in 1 .. Len(t)
  PROVE  /\ i < Len(t) => t[i + 1] = Successor(t[i])
         /\ i = Len(t) => Successor(t[i]) = CR
         /\ t[i] = "2058" => i + 2 = Len(t) /\ t[i + 2] = "E"
<1>1. Len(t) = 2 /\ t[1] = a /\ t[2] = b
  OBVIOUS
<1>2. CASE i = 1
  <2>1. t[i] = a /\ t[i + 1] = b
    BY <1>1, <1>2
  <2>. QED BY <1>1, <1>2, <2>1
<1>3. CASE i = 2
  BY <1>1, <1>3
<1>. QED BY <1>1, <1>2, <1>3

\* A line that is sent with its end.
LEMMA TextSpelled ==
  ASSUME NEW l \in LineSet, NEW t, t = Text(l), NEW i \in 1 .. Len(t), t[i] # "."
  PROVE  /\ i < Len(t) => t[i + 1] = Successor(t[i])
         /\ i = Len(t) => Successor(t[i]) = CR
         /\ t[i] = "2058" => i + 2 = Len(t) /\ t[i + 2] = "E"
<1>1. CASE l = Blank \/ l = Dot
  <2>1. t = <<>> \/ t = <<".">>
    BY <1>1, TextIs
  <2>2. CASE t = <<>>
    BY <2>2
  <2>3. CASE t = <<".">>
    <3>1. Len(t) = 1 /\ t[1] = "."
      BY <2>3
    <3>. QED BY <3>1
  <2>. QED BY <2>1, <2>2, <2>3
<1>2. CASE l = Bang
  <2>1. t = <<"!">>
    BY <1>2, TextIs
  <2>2. Successor("!") = CR /\ "!" # "2058"
    BY Successors
  <2>. QED BY <2>1, <2>2, OneSpelled
<1>3. CASE l = Header
  <2>1. t = <<"PC", "A">>
    BY <1>3, TextIs
  <2>2. Successor("PC") = "A" /\ Successor("A") = CR /\ "PC" # "2058" /\ "A" # "2058"
    BY Successors
  <2>. QED BY <2>1, <2>2, TwoSpelled
<1>4. CASE l = Regs("hit")
  <2>1. t = <<"2058", ".", "E">>
    BY <1>4, TextIs
  <2>2. Len(t) = 3 /\ t[1] = "2058" /\ t[2] = "." /\ t[3] = "E"
    BY <2>1
  <2>3. Successor("2058") = "." /\ Successor("E") = CR /\ "E" # "2058"
    BY Successors
  <2>4. CASE i = 1
    <3>1. t[i] = "2058" /\ t[i + 1] = "." /\ t[i + 2] = "E"
      BY <2>2, <2>4
    <3>. QED BY <2>2, <2>3, <2>4, <3>1
  <2>5. CASE i = 3
    <3>1. t[i] = "E" /\ i = Len(t)
      BY <2>2, <2>5
    <3>. QED BY <2>3, <3>1
  <2>6. i = 1 \/ i = 3
    <3>1. i = 1 \/ i = 2 \/ i = 3
      BY <2>2
    <3>2. i # 2
      BY <2>2
    <3>. QED BY <3>1, <3>2
  <2>. QED BY <2>4, <2>5, <2>6
<1>5. CASE l = Flags
  <2>1. t = <<"E">>
    BY <1>5, TextIs
  <2>2. Successor("E") = CR /\ "E" # "2058"
    BY Successors
  <2>. QED BY <2>1, <2>2, OneSpelled
<1>6. CASE l = Loc
  <2>1. t = <<",", "0777">>
    BY Zenon, <1>6, TextIs
  <2>2. PICK a : t = <<a, "0777">> /\ Successor(a) = "0777" /\ a # "2058"
    <3>1. Successor(",") = "0777"
      BY Zenon, Successors
    <3>2. "," # "2058"
      BY Zenon
    <3>. QED BY Zenon, <2>1, <3>1, <3>2
  <2>3. Successor("0777") = CR /\ "0777" # "2058"
    BY Successors
  <2>. QED BY <2>2, <2>3, TwoSpelled
<1>7. CASE l = Mem("fresh")
  <2>1. t = <<":", "00">>
    BY <1>7, TextIs
  <2>2. Successor(":") = "00" /\ Successor("00") = CR /\ ":" # "2058" /\ "00" # "2058"
    BY Successors
  <2>. QED BY <2>1, <2>2, TwoSpelled
<1>8. CASE l = Echo("r")
  <2>1. t = <<"r">>
    BY <1>8, TextIs
  <2>2. Successor("r") = CR /\ "r" # "2058"
    BY Successors
  <2>. QED BY <2>1, <2>2, OneSpelled
<1>9. CASE l = Echo("code")
  <2>1. t = <<"m", "2000">>
    BY <1>9, TextIs
  <2>2. Successor("m") = "2000" /\ Successor("2000") = CR /\ "m" # "2058" /\ "2000" # "2058"
    BY Successors
  <2>. QED BY <2>1, <2>2, TwoSpelled
<1>. QED BY <1>1, <1>2, <1>3, <1>4, <1>5, <1>6, <1>7, <1>8, <1>9 DEF LineSet

LEMMA LineSent ==
  ASSUME NEW l \in LineSet, NEW e \in Ends
  PROVE  /\ Cat(Text(l), e) \in Seq(Symbols) /\ Cat(Text(l), e) # <<>>
         /\ Whole(Cat(Text(l), e))
         /\ Len(e) = 2 => Spelled(Cat(Text(l), e))
<1>. DEFINE t == Text(l)  s == Cat(t, e)  x == IF Len(e) = 1 THEN t ELSE Append(t, CR)
<1>1. IsText(t) /\ (l # Bang => NoMark(t)) /\ (l = Bang => t = <<"!">>)
  BY TextFacts, TextIs
<1>2. x \in Texts
  BY EndsAre DEF Texts
<1>3. /\ e \in Seq(Symbols) /\ Len(e) \in 1 .. 2 /\ e[Len(e)] = LF
      /\ Len(e) = 2 => e[1] = CR
      /\ \A i \in 1 .. Len(e) : e[i] # "!"
  BY EndsAre
<1>. HIDE DEF t
<1>4. t \in Seq(Symbols) /\ Len(t) \in Nat
  BY <1>1, LenProperties DEF IsText
<1>t. t \in Seq(Symbols) /\ e \in Seq(Symbols)
  BY <1>3, <1>4
<1>5. s \in Seq(Symbols) /\ Len(s) = Len(t) + Len(e) /\ \A i \in 1 .. Len(t) : s[i] = t[i]
  BY <1>t, Cats
<1>6. \A i \in 1 .. Len(e) : s[Len(t) + i] = e[i]
  BY <1>t, Cats
<1>. HIDE DEF s
<1>7. s # <<>> /\ s[Len(s)] = LF
  <2>1. Len(e) \in 1 .. Len(e)
    BY <1>3
  <2>2. s[Len(t) + Len(e)] = e[Len(e)]
    BY <1>6, <2>1
  <2>3. Len(s) # 0
    BY <1>3, <1>4, <1>5
  <2>. QED BY <1>3, <1>5, <2>2, <2>3, EmptySeq
<1>8. Whole(s)
  <2>1. CASE Len(e) = 1
    <3>1. x = t
      BY <2>1
    <3>2. Len(s) = Len(x) + 1 /\ \A i \in 1 .. Len(x) : s[i] = x[i]
      BY <1>5, <2>1, <3>1
    <3>. HIDE DEF x
    <3>. QED BY <1>2, <1>5, <1>7, <3>2, WholeLine
  <2>2. CASE Len(e) # 1
    <3>1. x = Append(t, CR) /\ Len(e) = 2
      BY <1>3, <2>2
    <3>. HIDE DEF x
    <3>2. x \in Seq(Symbols) /\ Len(x) = Len(t) + 1 /\ x[Len(x)] = CR /\ \A i \in 1 .. Len(t) : x[i] = t[i]
      BY <1>1, <3>1, WithReturn
    <3>3. Len(s) = Len(x) + 1
      BY <1>4, <1>5, <3>1, <3>2
    <3>4. s[Len(x)] = CR
      <4>1. 1 \in 1 .. Len(e)
        BY <3>1
      <4>2. s[Len(t) + 1] = e[1]
        BY <1>6, <4>1
      <4>. QED BY <1>3, <3>1, <3>2, <4>2
    <3>5. \A i \in 1 .. Len(x) : s[i] = x[i]
      <4>1. \A i \in 1 .. Len(x) : i = Len(x) \/ i \in 1 .. Len(t)
        BY <1>4, <3>2
      <4>. QED BY <1>5, <3>2, <3>4, <4>1
    <3>. QED BY <1>2, <1>5, <1>7, <3>3, <3>5, WholeLine
  <2>. QED BY <2>1, <2>2
<1>9. ASSUME Len(e) = 2
      PROVE  Spelled(s)
  <2>1. s[Len(t) + 1] = CR /\ s[Len(t) + 2] = LF /\ Len(s) = Len(t) + 2
    <3>1. 1 \in 1 .. Len(e) /\ 2 \in 1 .. Len(e)
      BY <1>9
    <3>2. s[Len(t) + 1] = e[1] /\ s[Len(t) + 2] = e[2]
      BY <1>6, <3>1
    <3>. QED BY <1>3, <1>5, <1>9, <3>2
  <2>2. ASSUME NEW i \in 1 .. Len(s)
        PROVE  SpelledAt(s, i)
    <3>1. CASE i \in 1 .. Len(t)
      <4>1. s[i] = t[i]
        BY <1>5, <3>1
      <4>2. CASE t[i] = "."
        BY <4>1, <4>2 DEF SpelledAt
      <4>3. CASE t[i] # "."
        <5>1. /\ i < Len(t) => t[i + 1] = Successor(t[i])
              /\ i = Len(t) => Successor(t[i]) = CR
              /\ t[i] = "2058" => i + 2 = Len(t) /\ t[i + 2] = "E"
          BY <3>1, <4>3, TextSpelled DEF t
        <5>2. i + 1 \in 1 .. Len(s) /\ (i < Len(t) => i + 1 \in 1 .. Len(t))
          BY <1>4, <2>1, <3>1
        <5>3. s[i + 1] = Successor(s[i])
          <6>1. CASE i < Len(t)
            BY <1>5, <4>1, <5>1, <5>2, <6>1
          <6>2. CASE i = Len(t)
            BY <2>1, <4>1, <5>1, <6>2
          <6>. QED BY <1>4, <3>1, <6>1, <6>2
        <5>4. s[i] = "2058" => i + 2 \in 1 .. Len(s) /\ s[i + 2] = "E"
          <6>1. CASE t[i] = "2058"
            <7>1. i + 2 \in 1 .. Len(t) /\ t[i + 2] = "E"
              BY <1>4, <3>1, <5>1, <6>1
            <7>2. s[i + 2] = t[i + 2]
              BY <1>5, <7>1
            <7>3. i + 2 \in 1 .. Len(s)
              BY <1>4, <2>1, <7>1
            <7>. QED BY <7>1, <7>2, <7>3
          <6>. QED BY <4>1, <6>1
        <5>. QED BY <5>2, <5>3, <5>4 DEF SpelledAt
      <4>. QED BY <4>2, <4>3
    <3>2. CASE i = Len(t) + 1
      <4>1. s[i] = CR /\ s[i + 1] = LF /\ i + 1 \in 1 .. Len(s)
        BY <1>4, <2>1, <3>2
      <4>2. Successor(CR) = LF /\ CR # "2058"
        BY DEF Successor, CR, LF
      <4>. QED BY <4>1, <4>2 DEF SpelledAt
    <3>3. CASE i = Len(t) + 2
      BY <2>1, <3>3 DEF SpelledAt
    <3>. QED BY <1>4, <2>1, <3>1, <3>2, <3>3
  <2>. QED BY <2>2 DEF Spelled
<1>. QED BY <1>5, <1>7, <1>8, <1>9 DEF s, t

\* A part of a message.
Sound(xemu, s) == s \in Seq(Symbols) /\ s # <<>> /\ IF xemu THEN Whole(s) ELSE Spelled(s)

LEMMA SoundCat ==
  ASSUME NEW xemu, NEW s, NEW t, Sound(xemu, s), Sound(xemu, t)
  PROVE  Sound(xemu, Cat(s, t))
<1>1. s \in Seq(Symbols) /\ t \in Seq(Symbols) /\ s # <<>>
  BY DEF Sound
<1>2. Cat(s, t) \in Seq(Symbols) /\ Cat(s, t) # <<>>
  <2>1. Cat(s, t) \in Seq(Symbols)
    BY <1>1, Cats
  <2>2. Cat(s, t) # <<>>
    BY <1>1, CatEmpty
  <2>. QED BY <2>1, <2>2
<1>3. CASE xemu
  <2>1. Whole(s) /\ Whole(t)
    BY <1>3 DEF Sound
  <2>2. Whole(Cat(s, t))
    BY <1>1, <2>1, WholeCat
  <2>. QED BY <1>2, <1>3, <2>2 DEF Sound
<1>4. CASE ~xemu
  <2>1. Spelled(s) /\ Spelled(t)
    BY <1>4 DEF Sound
  <2>2. Spelled(Cat(s, t))
    BY <1>1, <2>1, SpelledCat
  <2>. QED BY <1>2, <1>4, <2>2 DEF Sound
<1>. QED BY <1>3, <1>4

LEMMA BytesFacts ==
  /\ \A l \in LineSet : Sound(isXemu, Bytes(l))
  /\ ~isXemu => EndsInPrompt(Bytes(Dot))
<1>1. \A l \in LineSet : Bytes(l) = Cat(Text(l), Eol(l))
  BY Zenon DEF Cat, Bytes
<1>2. ASSUME NEW l \in LineSet, isXemu \/ l # Dot
      PROVE  Sound(isXemu, Bytes(l))
  <2>. DEFINE e == Eol(l)
  <2>1. e \in Ends /\ (~isXemu => Len(e) = 2)
    <3>1. CASE isXemu
      BY <3>1, EolFacts
    <3>2. CASE ~isXemu
      <4>1. e = <<CR, LF>>
        BY <1>2, <3>2, EolFacts
      <4>. QED BY <4>1 DEF Ends
    <3>. QED BY <3>1, <3>2
  <2>2. Bytes(l) = Cat(Text(l), e)
    BY <1>1
  <2>. HIDE DEF e
  <2>3. /\ Cat(Text(l), e) \in Seq(Symbols) /\ Cat(Text(l), e) # <<>>
        /\ Whole(Cat(Text(l), e))
        /\ Len(e) = 2 => Spelled(Cat(Text(l), e))
    BY <2>1, LineSent
  <2>. QED BY <2>1, <2>2, <2>3 DEF Sound
<1>3. Dot \in LineSet
  BY DEF LineSet
<1>4. CASE ~isXemu
  <2>1. Bytes(Dot) = Cat(<<".">>, <<>>)
    BY <1>1, <1>3, <1>4, EolFacts, TextIs
  <2>2. "." \in Symbols /\ "." # "!"
    BY SymbolsAre
  <2>. DEFINE p == <<".">>
  <2>3. p \in Seq(Symbols) /\ Len(p) = 1 /\ p[1] = "."
    BY <2>2
  <2>. HIDE DEF p
  <2>4. Cat(p, <<>>) = p
    BY <2>3, CatEmpty
  <2>5. Bytes(Dot) = p
    BY <2>1, <2>4 DEF p
  <2>6. Spelled(p) /\ EndsInPrompt(p) /\ p # <<>>
    <3>1. \A i \in 1 .. Len(p) : p[i] = "."
      BY <2>3
    <3>2. Spelled(p)
      BY <3>1 DEF Spelled, SpelledAt
    <3>3. p # <<>>
      BY <2>3
    <3>. QED BY <2>3, <3>2, <3>3 DEF EndsInPrompt
  <2>. QED BY <1>2, <1>4, <2>3, <2>5, <2>6 DEF Sound
<1>. QED BY <1>2, <1>4

LEMMA MessageFacts == \A m \in Messages : Sound(isXemu, m) /\ (~isXemu => EndsInPrompt(m))
<1>1. {Blank, Bang, Dot, Header, Loc, Regs("hit"), Mem("fresh"), Echo("r"), Echo("code")} \subseteq LineSet
  BY DEF LineSet
<1>2. \A l \in LineSet : Sound(isXemu, Bytes(l))
  BY BytesFacts
<1>3. ASSUME NEW s, NEW t, Sound(isXemu, s), Sound(isXemu, t)
      PROVE  /\ Sound(isXemu, Cat(s, t))
             /\ ~isXemu /\ EndsInPrompt(t) => EndsInPrompt(Cat(s, t))
  <2>1. s \in Seq(Symbols) /\ t \in Seq(Symbols) /\ t # <<>>
    BY <1>3 DEF Sound
  <2>2. EndsInPrompt(t) => EndsInPrompt(Cat(s, t))
    BY <2>1, PromptCat
  <2>. QED BY <1>3, <2>2, SoundCat
<1>4. Registers = Cat(Cat(Bytes(Header), Bytes(Regs("hit"))), Bytes(Loc))
  BY Zenon DEF Registers, Cat
<1>5. Sound(isXemu, Registers)
  <2>1. Sound(isXemu, Cat(Bytes(Header), Bytes(Regs("hit"))))
    BY <1>1, <1>2, <1>3
  <2>. QED BY <1>1, <1>2, <1>3, <1>4, <2>1
<1>6. Sound(isXemu, PromptBytes) /\ (~isXemu => EndsInPrompt(PromptBytes))
  <2>1. PromptBytes = IF isXemu THEN Bytes(Dot) ELSE Cat(Bytes(Blank), Bytes(Dot))
    BY Zenon DEF PromptBytes, Cat
  <2>2. Sound(isXemu, Bytes(Dot)) /\ Sound(isXemu, Bytes(Blank)) /\ (~isXemu => EndsInPrompt(Bytes(Dot)))
    BY <1>1, <1>2, BytesFacts
  <2>. QED BY <1>3, <2>1, <2>2
<1>7. Sound(isXemu, RegistersReply) /\ (~isXemu => EndsInPrompt(RegistersReply))
  <2>. DEFINE a == Cat(Bytes(Echo("r")), Bytes(Blank))  b == Cat(a, Registers)
  <2>1. RegistersReply = Cat(b, PromptBytes)
    BY Zenon DEF RegistersReply, Cat
  <2>2. Sound(isXemu, a)
    BY <1>1, <1>2, <1>3
  <2>. HIDE DEF a
  <2>3. Sound(isXemu, b)
    BY <1>3, <1>5, <2>2
  <2>. HIDE DEF b
  <2>. QED BY <1>3, <1>6, <2>1, <2>3
<1>8. Sound(isXemu, MemoryReply) /\ (~isXemu => EndsInPrompt(MemoryReply))
  <2>. DEFINE a == Cat(Bytes(Echo("code")), Bytes(Mem("fresh")))
  <2>1. MemoryReply = Cat(a, PromptBytes)
    BY Zenon DEF MemoryReply, Cat
  <2>2. Sound(isXemu, a)
    BY <1>1, <1>2, <1>3
  <2>. HIDE DEF a
  <2>. QED BY <1>3, <1>6, <2>1, <2>2
<1>9. Sound(isXemu, Report) /\ (~isXemu => EndsInPrompt(Report))
  <2>. DEFINE a == Cat(Bytes(Bang), Registers)
  <2>1. Report = IF isXemu THEN Cat(Bytes(Blank), Registers) ELSE Cat(a, PromptBytes)
    BY Zenon DEF Report, Cat
  <2>2. Sound(isXemu, a) /\ Sound(isXemu, Cat(Bytes(Blank), Registers))
    BY <1>1, <1>2, <1>3, <1>5
  <2>. HIDE DEF a
  <2>. QED BY <1>3, <1>6, <2>1, <2>2
<1>. QED BY <1>7, <1>8, <1>9 DEF Messages

-----------------------------------------------------------------------------
(***************************************************************************)
(* Types: what is pending is made of what is sent.                         *)
(***************************************************************************)
LEMMA Fixed == isXemu' = isXemu => AllBytes' = AllBytes
BY DEF AllBytes, Messages, RegistersReply, MemoryReply, Report, PromptBytes, Registers, Bytes, Eol

LEMMA BytesAreSymbols ==
  /\ AllBytes \subseteq Symbols
  /\ \A m \in Messages : m \in Seq(AllBytes)
<1>1. ASSUME NEW m \in Messages
      PROVE  m \in Seq(Symbols) /\ Range(m) \subseteq Symbols /\ m \in Seq(Range(m))
  <2>1. m \in Seq(Symbols)
    BY MessageFacts DEF Sound
  <2>. QED BY <2>1, RangeOfSeq, SeqOfRange
<1>2. AllBytes \subseteq Symbols
  BY <1>1 DEF AllBytes
<1>3. ASSUME NEW m \in Messages
      PROVE  m \in Seq(AllBytes)
  <2>1. Range(m) \subseteq AllBytes
    BY DEF AllBytes
  <2>. QED BY <1>1, <2>1, SeqMonotonic
<1>. QED BY <1>2, <1>3

LEMMA PendingTypes ==
  TypeOK => /\ buffer \in Seq(Symbols) /\ stream \in Seq(Symbols)
            /\ Pending = Cat(buffer, stream) /\ Pending \in Seq(Symbols)
<1>. SUFFICES ASSUME TypeOK
              PROVE  /\ buffer \in Seq(Symbols) /\ stream \in Seq(Symbols)
                     /\ Pending = Cat(buffer, stream) /\ Pending \in Seq(Symbols)
  OBVIOUS
<1>1. buffer \in Seq(AllBytes) /\ stream \in Seq(AllBytes)
  BY DEF TypeOK
<1>2. buffer \in Seq(Symbols) /\ stream \in Seq(Symbols)
  BY <1>1, BytesAreSymbols, SeqMonotonic
<1>3. Pending = Cat(buffer, stream)
  BY Zenon DEF Pending, Cat
<1>4. Cat(buffer, stream) \in Seq(Symbols)
  BY <1>2, Cats
<1>. QED BY <1>2, <1>3, <1>4

-----------------------------------------------------------------------------
(***************************************************************************)
(* What the steps do to what is pending.                                   *)
(***************************************************************************)
LEMMA SendEffect ==
  ASSUME TypeOK, Send
  PROVE  \E m \in Messages : /\ Pending' = Cat(Pending, m) /\ stream' \in Seq(AllBytes)
                             /\ stream' # <<>>
<1>1. PICK m \in Messages : stream' = stream \o m
  BY DEF Send
<1>2. buffer \in Seq(AllBytes) /\ stream \in Seq(AllBytes) /\ m \in Seq(AllBytes) /\ m # <<>>
  BY BytesAreSymbols, MessageFacts DEF TypeOK, Sound
<1>3. (buffer \o stream) \o m = buffer \o (stream \o m)
  BY <1>2, ConcatAssociative
<1>4. Pending' = (buffer \o stream) \o m
  BY <1>1, <1>3, Zenon DEF Pending, Send
<1>5. Pending' = Cat(Pending, m)
  BY <1>4, Zenon DEF Pending, Cat
<1>6. stream' = Cat(stream, m)
  BY <1>1, Zenon DEF Cat
<1>7. Cat(stream, m) \in Seq(AllBytes)
  BY <1>2, Cats
<1>8. Cat(stream, m) # <<>>
  BY <1>2, CatEmpty
<1>. QED BY <1>5, <1>6, <1>7, <1>8

LEMMA ReadEffect ==
  ASSUME TypeOK, ReadChunk
  PROVE  /\ Pending' = Pending /\ {stream', buffer'} \subseteq Seq(AllBytes)
         /\ buffer' # <<>>
<1>1. PICK n \in 1 .. Len(stream) : /\ buffer' = buffer \o SubSeq(stream, 1, n)
                                    /\ stream' = SubSeq(stream, n + 1, Len(stream))
  BY DEF ReadChunk
<1>. DEFINE a == SubSeq(stream, 1, n)  z == SubSeq(stream, n + 1, Len(stream))
<1>2. buffer \in Seq(AllBytes) /\ stream \in Seq(AllBytes) /\ Len(stream) \in Nat
  BY LenProperties DEF TypeOK
<1>3. a \in Seq(AllBytes) /\ Len(a) = n
  <2>1. \A i \in 1 .. n : stream[i] \in AllBytes
    BY <1>2, ElementOfSeq
  <2>2. n \in Int /\ 1 \in Int /\ 1 <= n
    OBVIOUS
  <2>. QED BY <2>1, <2>2, SubSeqProperties
<1>4. z \in Seq(AllBytes)
  <2>1. n + 1 \in 1 .. Len(stream) + 1 /\ z = From(stream, n + 1)
    BY <1>2 DEF From
  <2>. QED BY <1>2, <2>1, Froms
<1>5. stream = a \o z
  <2>1. n \in 1 - 1 .. Len(stream) /\ Len(stream) \in n .. Len(stream)
    BY <1>2
  <2>2. SubSeq(stream, 1, n) \o SubSeq(stream, n + 1, Len(stream)) = SubSeq(stream, 1, Len(stream))
    BY <1>2, <2>1, ConcatAdjacentSubSeq
  <2>3. SubSeq(stream, 1, Len(stream)) = stream
    BY <1>2, SubSeqFull
  <2>. QED BY <2>2, <2>3
<1>6. buffer' = buffer \o a /\ stream' = z
  BY <1>1
<1>. HIDE DEF a, z
<1>7. (buffer \o a) \o z = buffer \o (a \o z)
  <2>1. buffer \in Seq(AllBytes) /\ a \in Seq(AllBytes) /\ z \in Seq(AllBytes)
    BY <1>2, <1>3, <1>4
  <2>. QED BY <2>1, ConcatAssociative
<1>8. Pending' = Pending
  BY <1>5, <1>6, <1>7, Zenon DEF Pending
<1>9. buffer' = Cat(buffer, a)
  BY <1>6, Zenon DEF Cat
<1>10. Cat(buffer, a) \in Seq(AllBytes)
  BY <1>2, <1>3, Cats
<1>11. Cat(buffer, a) # <<>>
  <2>1. a # <<>>
    BY <1>3
  <2>. QED BY <1>2, <1>3, <2>1, CatEmpty
<1>. QED BY <1>4, <1>6, <1>8, <1>9, <1>10, <1>11

\* buffer_.erase(0, ...): what was in front is gone.
LEMMA TakeEffect ==
  ASSUME TypeOK, NEW k \in 1 .. Len(buffer) + 1, buffer' = From(buffer, k), stream' = stream
  PROVE  /\ Pending' = From(Pending, k) /\ {stream', buffer'} \subseteq Seq(AllBytes)
         /\ k \in 1 .. Len(Pending) + 1
<1>1. buffer \in Seq(AllBytes) /\ stream \in Seq(AllBytes)
  BY DEF TypeOK
<1>2. Pending' = Cat(From(buffer, k), stream) /\ Pending = Cat(buffer, stream)
  BY Zenon DEF Pending, Cat
<1>3. From(Cat(buffer, stream), k) = Cat(From(buffer, k), stream)
  BY <1>1, FromCatLeft
<1>4. From(buffer, k) \in Seq(AllBytes)
  BY <1>1, Froms
<1>5. Len(Cat(buffer, stream)) = Len(buffer) + Len(stream)
  BY <1>1, Cats
<1>6. Len(buffer) \in Nat /\ Len(stream) \in Nat
  BY <1>1, LenProperties
<1>7. k \in 1 .. Len(Cat(buffer, stream)) + 1
  BY <1>5, <1>6
<1>. QED BY <1>1, <1>2, <1>3, <1>4, <1>7

\* The first byte pending is the first of the buffer, and so on.
LEMMA PendingBegins ==
  ASSUME TypeOK
  PROVE  /\ Len(buffer) \in Nat /\ Len(Pending) \in Nat /\ Len(buffer) <= Len(Pending)
         /\ \A i \in 1 .. Len(buffer) : Pending[i] = buffer[i]
         /\ stream = <<>> => Pending = buffer
         /\ buffer # <<>> => Len(buffer) >= 1 /\ Head(buffer) = buffer[1]
<1>1. buffer \in Seq(Symbols) /\ stream \in Seq(Symbols) /\ Pending = Cat(buffer, stream)
  BY PendingTypes
<1>2. /\ Len(Cat(buffer, stream)) = Len(buffer) + Len(stream)
      /\ \A i \in 1 .. Len(buffer) : Cat(buffer, stream)[i] = buffer[i]
  BY <1>1, Cats
<1>3. Cat(buffer, <<>>) = buffer
  BY <1>1, CatEmpty
<1>4. Len(buffer) \in Nat /\ Len(stream) \in Nat
  BY <1>1, LenProperties
<1>5. buffer # <<>> => Len(buffer) >= 1 /\ Head(buffer) = buffer[1]
  BY <1>1, EmptySeq
<1>. QED BY <1>1, <1>2, <1>3, <1>4, <1>5

-----------------------------------------------------------------------------
(***************************************************************************)
(* The steps.                                                              *)
(***************************************************************************)
LEMMA PromptIn ==
  ASSUME TypeOK, HasEol, isXemu, IsPrompt
  PROVE  3 <= Len(buffer) /\ buffer[1] = "." /\ buffer[2] = CR /\ buffer[3] = LF
<1>. DEFINE p == <<".", CR, LF>>
<1>1. buffer \in Seq(Symbols) /\ Len(buffer) \in Nat
  BY PendingTypes, LenProperties
<1>2. IsPrefix(p, buffer)
  BY DEF IsPrompt
<1>3. p \in Seq(Symbols) /\ Len(p) = 3 /\ p[1] = "." /\ p[2] = CR /\ p[3] = LF
  <2>1. "." \in Symbols /\ CR \in Symbols /\ LF \in Symbols
    BY SymbolsAre
  <2>. QED BY <2>1
<1>. HIDE DEF p
<1>4. 3 <= Len(buffer) /\ SubSeq(p, 1, 3) = SubSeq(buffer, 1, 3)
  BY <1>2, <1>3 DEF IsPrefix
<1>5. ASSUME NEW s \in Seq(Symbols), 3 <= Len(s), Len(s) \in Nat
      PROVE  \A i \in 1 .. 3 : SubSeq(s, 1, 3)[i] = s[i]
  <2>1. \A i \in 1 .. 3 : s[i] \in Symbols
    BY <1>5, ElementOfSeq
  <2>2. \A i \in 1 .. 3 - 1 + 1 : SubSeq(s, 1, 3)[i] = s[1 + i - 1]
    BY <2>1, SubSeqProperties
  <2>. QED BY <2>2
<1>6. \A i \in 1 .. 3 : SubSeq(p, 1, 3)[i] = p[i] /\ SubSeq(buffer, 1, 3)[i] = buffer[i]
  BY <1>1, <1>3, <1>4, <1>5
<1>. QED BY <1>3, <1>4, <1>6

\* Xemu: the line in front, if there is an end of a line in the buffer.
LEMMA FrontLine ==
  ASSUME TypeOK, HasEol, isXemu, Whole(Pending)
  PROVE  SubSeq(buffer, 1, FirstEol(buffer) - 1) \in Texts
<1>. DEFINE e == FirstEol(buffer)  f == SubSeq(buffer, 1, e - 1)
<1>1. buffer \in Seq(Symbols) /\ Len(buffer) \in Nat
  BY PendingTypes, LenProperties
<1>2. e \in 1 .. Len(buffer) /\ buffer[e] = LF /\ \A j \in 1 .. e - 1 : buffer[j] # LF
  BY <1>1, FirstEolIs DEF HasEol
<1>. HIDE DEF e
<1>3. Len(Pending) \in Nat /\ Len(buffer) <= Len(Pending) /\ \A i \in 1 .. Len(buffer) : Pending[i] = buffer[i]
  BY PendingBegins
<1>4. LineAt(Pending, 1)
  <2>1. 1 \in 1 .. Len(Pending)
    BY <1>1, <1>2, <1>3
  <2>. QED BY <2>1 DEF Whole
<1>5. PICK x \in Texts : /\ 1 + Len(x) \in 1 .. Len(Pending) /\ Pending[1 + Len(x)] = LF
                         /\ \A j \in 1 .. Len(x) : Pending[1 + j - 1] = x[j]
  BY <1>4 DEF LineAt
<1>6. x \in Seq(Symbols) /\ Len(x) \in Nat /\ \A i \in 1 .. Len(x) : x[i] # LF
  BY TextsFacts
<1>7. \A j \in 1 .. Len(x) : Pending[j] = x[j]
  BY <1>5, <1>6
<1>8. e = Len(x) + 1
  <2>1. ~(e <= Len(x))
    <3>1. CASE e \in 1 .. Len(x)
      BY <1>2, <1>3, <1>6, <1>7, <3>1
    <3>. QED BY <1>2, <1>6, <3>1
  <2>2. ~(Len(x) + 1 < e)
    <3>. DEFINE h == Len(x) + 1
    <3>1. CASE h \in 1 .. e - 1
      <4>. HIDE DEF h
      <4>1. buffer[h] # LF /\ Pending[h] = buffer[h]
        BY <1>1, <1>2, <1>3, <3>1
      <4>2. Pending[h] = LF
        BY <1>5, <1>6 DEF h
      <4>. QED BY <4>1, <4>2
    <3>. QED BY <1>2, <1>6, <3>1
  <2>. QED BY <1>2, <1>6, <2>1, <2>2
<1>9. f \in Seq(Symbols) /\ Len(f) = Len(x) /\ \A i \in 1 .. Len(x) : f[i] = buffer[i]
  <2>. DEFINE n == e - 1
  <2>1. n = Len(x) /\ n \in Int /\ n <= Len(buffer)
    BY <1>1, <1>2, <1>6, <1>8
  <2>2. \A i \in 1 .. n : buffer[i] \in Symbols
    BY <1>1, <2>1, ElementOfSeq
  <2>. HIDE DEF n
  <2>3. /\ SubSeq(buffer, 1, n) \in Seq(Symbols)
        /\ Len(SubSeq(buffer, 1, n)) = IF 1 <= n THEN n - 1 + 1 ELSE 0
        /\ \A i \in 1 .. n - 1 + 1 : SubSeq(buffer, 1, n)[i] = buffer[1 + i - 1]
    BY <2>1, <2>2, SubSeqProperties
  <2>4. Len(SubSeq(buffer, 1, n)) = Len(x) /\ \A i \in 1 .. Len(x) : SubSeq(buffer, 1, n)[i] = buffer[i]
    BY <1>6, <2>1, <2>3
  <2>. QED BY <2>3, <2>4 DEF n
<1>. HIDE DEF f
<1>10. \A i \in 1 .. Len(x) : f[i] = x[i]
  <2>1. \A i \in 1 .. Len(x) : i \in 1 .. Len(buffer)
    BY <1>1, <1>2, <1>6, <1>8
  <2>. QED BY <1>3, <1>7, <1>9, <2>1
<1>11. f = x
  BY <1>6, <1>9, <1>10, SeqEqual
<1>. QED BY <1>11 DEF f, e

\* Xemu: a mark without its end was read, which is what is left of the line.
LEMMA BehindMark ==
  ASSUME TypeOK, ~HasEol, IsAtMark, isXemu, Whole(Pending), Len(buffer) + 1 \in 1 .. Len(Pending)
  PROVE  LineAt(Pending, Len(buffer) + 1)
<1>. DEFINE P == Pending  n == Len(buffer)
<1>1. /\ n \in Nat /\ Len(P) \in Nat /\ n <= Len(P) /\ \A i \in 1 .. n : P[i] = buffer[i]
      /\ n >= 1 /\ buffer[1] \in {".", "!"}
  BY PendingBegins DEF IsAtMark
<1>2. \A i \in 1 .. n : P[i] # LF
  BY <1>1 DEF HasEol, Contains
<1>. HIDE DEF P, n
<1>3. LineAt(P, 1)
  <2>1. 1 \in 1 .. Len(P) /\ Whole(P)
    BY <1>1 DEF P
  <2>. QED BY <2>1 DEF Whole
<1>4. PICK x \in Texts : /\ 1 + Len(x) \in 1 .. Len(P) /\ P[1 + Len(x)] = LF
                         /\ \A j \in 1 .. Len(x) : P[1 + j - 1] = x[j]
  BY <1>3 DEF LineAt
<1>5. /\ Len(x) \in Nat
      /\ Len(x) >= 1 /\ x[1] \in {".", "!"} => Len(x) = 1 \/ (Len(x) = 2 /\ x[2] = CR)
  BY TextsFacts
<1>6. \A j \in 1 .. Len(x) : P[j] = x[j]
  BY <1>4, <1>5
<1>7. Len(x) # 0
  BY <1>1, <1>2, <1>4
<1>8. Len(x) = 1 \/ (Len(x) = 2 /\ x[2] = CR)
  BY <1>1, <1>5, <1>6, <1>7
<1>9. n <= Len(x)
  <2>. DEFINE h == 1 + Len(x)
  <2>1. ~(h \in 1 .. n)
    BY <1>2, <1>4
  <2>. QED BY <1>1, <1>5, <2>1
<1>10. CASE n = Len(x)
  <2>1. P[n + 1] = LF /\ n + 1 \in 1 .. Len(P)
    BY <1>4, <1>5, <1>10
  <2>. DEFINE y == <<>>
  <2>2. y \in Texts /\ Len(y) = 0
    BY EndTexts
  <2>. HIDE DEF y
  <2>3. LineAt(P, n + 1)
    BY <1>1, <2>1, <2>2 DEF LineAt
  <2>. QED BY <2>3 DEF P, n
<1>11. CASE n # Len(x)
  <2>. DEFINE m == Len(x)
  <2>0. n \in Nat /\ n >= 1 /\ n <= m /\ n # m /\ (m = 1 \/ m = 2)
    BY <1>1, <1>8, <1>9, <1>11
  <2>1. n = 1 /\ Len(x) = 2 /\ x[2] = CR
    <3>1. n = 1 /\ m = 2
      <4>. HIDE DEF m
      <4>. QED BY <2>0
    <3>. QED BY <1>8, <3>1
  <2>2. P[2] = CR /\ P[3] = LF /\ 3 \in 1 .. Len(P)
    BY <1>4, <1>6, <2>1
  <2>. DEFINE y == <<CR>>
  <2>3. y \in Texts /\ Len(y) = 1 /\ y[1] = CR
    BY EndTexts
  <2>. HIDE DEF y
  <2>4. LineAt(P, 2)
    <3>1. 2 + Len(y) \in 1 .. Len(P) /\ P[2 + Len(y)] = LF
      BY <2>2, <2>3
    <3>2. \A j \in 1 .. Len(y) : P[2 + j - 1] = y[j]
      BY <2>2, <2>3
    <3>. QED BY <2>3, <3>1, <3>2 DEF LineAt
  <2>. QED BY <2>1, <2>4 DEF P, n
<1>. QED BY <1>10, <1>11

LEMMA InitFine == Init => ReaderInv
<1>. SUFFICES ASSUME Init
              PROVE  ReaderInv
  OBVIOUS
<1>1. stream = <<>> /\ buffer = <<>> /\ isXemu \in BOOLEAN /\ line = NoLine /\ messages = 0
  BY DEF Init
<1>2. TypeOK
  BY <1>1, ReaderAssumption, EmptySeq DEF TypeOK
<1>3. Pending = <<>>
  <2>1. Cat(buffer, <<>>) = buffer
    BY <1>2, CatEmpty DEF TypeOK
  <2>. QED BY <1>1, <1>2, <2>1, PendingTypes
<1>4. Fine(isXemu, Pending)
  BY <1>3 DEF Fine, Whole, EndsInPrompt, Spelled
<1>. QED BY <1>1, <1>2, <1>4 DEF ReaderInv, PromptComesLast

LEMMA StepSend ==
  ASSUME ReaderInv, Send
  PROVE  ReaderInv'
<1>1. TypeOK
  BY DEF ReaderInv
<1>2. PICK m \in Messages : /\ Pending' = Cat(Pending, m) /\ stream' \in Seq(AllBytes)
                            /\ stream' # <<>>
  BY <1>1, SendEffect
<1>3. isXemu' = isXemu /\ buffer' = buffer /\ line' = line /\ messages' = messages + 1 /\ messages < MaxMessages
  BY DEF Send
<1>4. TypeOK'
  <2>1. AllBytes' = AllBytes
    BY <1>3, Fixed
  <2>2. messages' \in 0 .. MaxMessages
    BY <1>1, <1>3, ReaderAssumption DEF TypeOK
  <2>. QED BY <1>1, <1>2, <1>3, <2>1, <2>2 DEF TypeOK
<1>5. /\ Pending \in Seq(Symbols) /\ m \in Seq(Symbols)
      /\ (isXemu => Whole(m)) /\ (~isXemu => Spelled(m) /\ EndsInPrompt(m)) /\ m # <<>>
  BY <1>1, PendingTypes, MessageFacts DEF Sound
<1>6. Fine(isXemu, Cat(Pending, m))
  <2>1. CASE isXemu
    <3>1. Whole(Pending)
      BY <2>1 DEF ReaderInv, Fine
    <3>2. Whole(Cat(Pending, m))
      BY <1>5, <2>1, <3>1, WholeCat
    <3>. QED BY <2>1, <3>2 DEF Fine
  <2>2. CASE ~isXemu
    <3>1. Spelled(Pending)
      BY <2>2 DEF ReaderInv, Fine
    <3>2. Spelled(Cat(Pending, m))
      BY <1>5, <2>2, <3>1, SpelledCat
    <3>3. EndsInPrompt(Cat(Pending, m))
      BY <1>5, <2>2, PromptCat
    <3>. QED BY <2>2, <3>2, <3>3 DEF Fine
  <2>. QED BY <2>1, <2>2
<1>7. PromptComesLast'
  BY <1>2 DEF PromptComesLast
<1>. QED BY <1>2, <1>3, <1>4, <1>6, <1>7 DEF ReaderInv

LEMMA StepRead ==
  ASSUME ReaderInv, ReadChunk
  PROVE  ReaderInv'
<1>1. TypeOK
  BY DEF ReaderInv
<1>2. /\ Pending' = Pending /\ {stream', buffer'} \subseteq Seq(AllBytes)
      /\ buffer' # <<>>
  BY <1>1, ReadEffect
<1>3. isXemu' = isXemu /\ line' = line /\ messages' = messages
  BY DEF ReadChunk
<1>4. TypeOK'
  <2>1. AllBytes' = AllBytes
    BY <1>3, Fixed
  <2>. QED BY <1>1, <1>2, <1>3, <2>1 DEF TypeOK
<1>5. Fine(isXemu', Pending')
  BY <1>2, <1>3 DEF ReaderInv
<1>6. PromptComesLast'
  BY <1>2 DEF PromptComesLast
<1>. QED BY <1>4, <1>5, <1>6 DEF ReaderInv

\* A line was returned: what it takes to go on.
LEMMA StepTake ==
  ASSUME ReaderInv, NEW k \in 1 .. Len(buffer) + 1, buffer' = From(buffer, k),
         UNCHANGED <<isXemu, stream, messages>>,
         isXemu => (k \in 1 .. Len(Pending) => LineAt(Pending, k)),
         line' \in LineSet \cup (IF isXemu THEN {} ELSE {Junk}),
         PromptComesLast'
  PROVE  ReaderInv'
<1>1. TypeOK
  BY DEF ReaderInv
<1>2. /\ Pending' = From(Pending, k) /\ {stream', buffer'} \subseteq Seq(AllBytes)
      /\ k \in 1 .. Len(Pending) + 1
  BY <1>1, TakeEffect
<1>3. TypeOK'
  <2>1. AllBytes' = AllBytes
    BY Fixed
  <2>. QED BY <1>1, <1>2, <2>1 DEF TypeOK
<1>4. Pending \in Seq(Symbols)
  BY <1>1, PendingTypes
<1>5. Fine(isXemu, From(Pending, k))
  <2>1. CASE isXemu
    <3>1. Whole(Pending)
      BY <2>1 DEF ReaderInv, Fine
    <3>2. Whole(From(Pending, k))
      BY <1>2, <1>4, <2>1, <3>1, WholeFrom
    <3>. QED BY <2>1, <3>2 DEF Fine
  <2>2. CASE ~isXemu
    <3>1. EndsInPrompt(Pending) /\ Spelled(Pending)
      BY <2>2 DEF ReaderInv, Fine
    <3>2. EndsInPrompt(From(Pending, k)) /\ Spelled(From(Pending, k))
      BY <1>2, <1>4, <3>1, HardwareFrom
    <3>. QED BY <2>2, <3>2 DEF Fine
  <2>. QED BY <2>1, <2>2
<1>. QED BY <1>2, <1>3, <1>5 DEF ReaderInv

\* Everything is gone: what follows is what begins behind it.
LEMMA TakesAll ==
  ASSUME TypeOK
  PROVE  Len(buffer) + 1 \in 1 .. Len(buffer) + 1 /\ From(buffer, Len(buffer) + 1) = <<>>
<1>1. Len(buffer) \in Nat
  BY PendingBegins
<1>. QED BY <1>1, SubSeqEmpty DEF From

LEMMA StepPrompt ==
  ASSUME ReaderInv, ReturnPrompt
  PROVE  ReaderInv'
<1>1. TypeOK
  BY DEF ReaderInv
<1>2. UNCHANGED <<isXemu, stream, messages>> /\ line' = Dot /\ HasEol /\ IsPrompt
  BY DEF ReturnPrompt
<1>3. line' \in LineSet /\ PromptComesLast'
  BY <1>2 DEF LineSet, PromptComesLast
<1>4. Len(buffer) \in Nat /\ Len(Pending) \in Nat /\ \A i \in 1 .. Len(buffer) : Pending[i] = buffer[i]
  BY <1>1, PendingBegins
<1>5. CASE isXemu
  <2>. DEFINE k == 4
  <2>1. 3 <= Len(buffer) /\ buffer[3] = LF
    BY <1>1, <1>2, <1>5, PromptIn
  <2>2. k \in 1 .. Len(buffer) + 1 /\ buffer' = From(buffer, k)
    BY <1>4, <1>5, <2>1 DEF ReturnPrompt, From
  <2>3. k \in 1 .. Len(Pending) => LineAt(Pending, k)
    <3>1. Pending[k - 1] = LF /\ Whole(Pending)
      BY <1>4, <1>5, <2>1 DEF ReaderInv, Fine
    <3>. QED BY <3>1 DEF Whole
  <2>. HIDE DEF k
  <2>. QED BY <1>2, <1>3, <1>5, <2>2, <2>3, StepTake
<1>6. CASE ~isXemu
  <2>. DEFINE k == Len(buffer) + 1
  <2>1. k \in 1 .. Len(buffer) + 1 /\ buffer' = From(buffer, k)
    BY <1>1, <1>6, TakesAll DEF ReturnPrompt
  <2>. HIDE DEF k
  <2>. QED BY <1>2, <1>3, <1>6, <2>1, StepTake
<1>. QED BY <1>5, <1>6

LEMMA StepMark ==
  ASSUME ReaderInv, ReturnMark
  PROVE  ReaderInv'
<1>. DEFINE k == Len(buffer) + 1
<1>1. TypeOK
  BY DEF ReaderInv
<1>2. UNCHANGED <<isXemu, stream, messages>> /\ line' \in {Dot, Bang} /\ ~HasEol /\ IsAtMark /\ buffer' = <<>>
  BY DEF ReturnMark
<1>3. k \in 1 .. Len(buffer) + 1 /\ buffer' = From(buffer, k)
  BY <1>1, <1>2, TakesAll
<1>4. line' \in LineSet
  BY <1>2 DEF LineSet
<1>5. isXemu => (k \in 1 .. Len(Pending) => LineAt(Pending, k))
  <2>1. ASSUME isXemu, k \in 1 .. Len(Pending)
        PROVE  LineAt(Pending, k)
    <3>1. Whole(Pending)
      BY <2>1 DEF ReaderInv, Fine
    <3>. QED BY <1>1, <1>2, <2>1, <3>1, BehindMark
  <2>. QED BY <2>1
<1>6. PromptComesLast'
  <2>1. ASSUME ~isXemu, stream = <<>>, line' # Dot
        PROVE  FALSE
    <3>1. /\ Pending = buffer /\ Len(buffer) \in Nat /\ Len(buffer) >= 1
          /\ Head(buffer) = buffer[1] /\ buffer[1] = "!"
      BY <1>1, <2>1, PendingBegins DEF ReturnMark, IsAtMark
    <3>2. Spelled(buffer)
      BY <2>1, <3>1 DEF ReaderInv, Fine
    <3>3. 3 \in 1 .. Len(buffer) /\ buffer[3] = LF
      <4>1. Successor("!") = CR /\ Successor(CR) = LF /\ "!" \notin {".", LF} /\ CR \notin {".", LF}
        BY DEF Successor, CR, LF
      <4>2. 1 \in 1 .. Len(buffer) /\ SpelledAt(buffer, 1)
        BY <3>1, <3>2 DEF Spelled
      <4>3. 2 \in 1 .. Len(buffer) /\ buffer[2] = CR
        BY <3>1, <4>1, <4>2 DEF SpelledAt
      <4>4. SpelledAt(buffer, 2)
        BY <3>2, <4>3 DEF Spelled
      <4>. QED BY <4>1, <4>3, <4>4 DEF SpelledAt
    <3>. QED BY <1>2, <3>3 DEF HasEol, Contains
  <2>. QED BY <1>2, <2>1 DEF PromptComesLast
<1>. HIDE DEF k
<1>. QED BY <1>2, <1>3, <1>4, <1>5, <1>6, StepTake

LEMMA StepLine ==
  ASSUME ReaderInv, ReturnLine
  PROVE  ReaderInv'
<1>. DEFINE e == FirstEol(buffer)  k == e + 1
<1>1. TypeOK
  BY DEF ReaderInv
<1>2. /\ UNCHANGED <<isXemu, stream, messages>> /\ HasEol
      /\ line' = Parsed(SubSeq(buffer, 1, e - 1)) /\ buffer' = From(buffer, k)
  BY DEF ReturnLine, From
<1>3. buffer \in Seq(Symbols) /\ e \in 1 .. Len(buffer) /\ buffer[e] = LF
  BY <1>1, <1>2, PendingTypes, FirstEolIs DEF HasEol
<1>4. /\ Len(buffer) \in Nat /\ Len(Pending) \in Nat /\ \A i \in 1 .. Len(buffer) : Pending[i] = buffer[i]
      /\ stream = <<>> => Pending = buffer
  BY <1>1, PendingBegins
<1>5. line' \in LineSet \cup (IF isXemu THEN {} ELSE {Junk})
  <2>1. CASE isXemu
    <3>1. Whole(Pending)
      BY <2>1 DEF ReaderInv, Fine
    <3>2. SubSeq(buffer, 1, e - 1) \in Texts
      BY <1>1, <1>2, <2>1, <3>1, FrontLine
    <3>. QED BY <1>2, <3>2, TextsFacts
  <2>2. CASE ~isXemu
    BY <1>2, <2>2, ParsedTypes
  <2>. QED BY <2>1, <2>2
<1>. HIDE DEF e
<1>6. k \in 1 .. Len(buffer) + 1
  BY <1>3, <1>4
<1>7. isXemu => (k \in 1 .. Len(Pending) => LineAt(Pending, k))
  <2>1. ASSUME isXemu, k \in 1 .. Len(Pending)
        PROVE  LineAt(Pending, k)
    <3>1. Whole(Pending)
      BY <2>1 DEF ReaderInv, Fine
    <3>2. Pending[k - 1] = LF
      BY <1>3, <1>4
    <3>. QED BY <2>1, <3>1, <3>2 DEF Whole
  <2>. QED BY <2>1
<1>8. PromptComesLast'
  <2>1. ASSUME ~isXemu, stream = <<>>, buffer' = <<>>
        PROVE  FALSE
    <3>1. Len(From(buffer, k)) = Len(buffer) - k + 1
      BY <1>3, <1>6, Froms
    <3>2. k = Len(buffer) + 1
      BY <1>2, <1>4, <1>6, <2>1, <3>1, EmptySeq
    <3>3. buffer[Len(buffer)] = LF /\ buffer # <<>>
      BY <1>3, <1>4, <3>2
    <3>4. EndsInPrompt(buffer)
      BY <1>4, <2>1 DEF ReaderInv, Fine
    <3>. QED BY <3>3, <3>4 DEF EndsInPrompt, LF
  <2>. QED BY <1>2, <2>1 DEF PromptComesLast
<1>. HIDE DEF k
<1>. QED BY <1>2, <1>5, <1>6, <1>7, <1>8, StepTake

LEMMA StepFine == ReaderInv /\ [Next]_vars => ReaderInv'
<1>. SUFFICES ASSUME ReaderInv, [Next]_vars
              PROVE  ReaderInv'
  OBVIOUS
<1>1. CASE UNCHANGED vars
  <2>1. AllBytes' = AllBytes
    BY <1>1, Fixed DEF vars
  <2>2. TypeOK'
    BY <1>1, <2>1 DEF ReaderInv, TypeOK, vars
  <2>3. Pending' = Pending /\ isXemu' = isXemu
    BY <1>1 DEF Pending, vars
  <2>4. PromptComesLast'
    BY <1>1 DEF ReaderInv, PromptComesLast, vars
  <2>. QED BY <2>2, <2>3, <2>4 DEF ReaderInv
<1>2. CASE Next
  BY <1>1, <1>2, StepSend, StepRead, StepMark, StepPrompt, StepLine DEF Next, ReadLine, Done
<1>. QED BY <1>1, <1>2

(***************************************************************************)
(* The invariant of read_line().                                           *)
(***************************************************************************)
THEOREM ReaderInvariant == Spec => []ReaderInv
BY InitFine, StepFine, PTL DEF Spec

(***************************************************************************)
(* On Xemu what read_line() returns is a line the target sent, however its *)
(* bytes arrive; only on the hardware the end of a line may come out.      *)
(***************************************************************************)
THEOREM LinesAreSent == Spec => []TypeOK
<1>1. ReaderInv => TypeOK
  BY DEF ReaderInv
<1>. QED BY <1>1, ReaderInvariant, PTL

(***************************************************************************)
(* On the hardware the last line that read_line() returns is a prompt,     *)
(* whatever it threw away before it: who waits for a prompt gets one.      *)
(***************************************************************************)
THEOREM LastLineIsPrompt == Spec => []PromptComesLast
<1>1. ReaderInv => PromptComesLast
  BY DEF ReaderInv
<1>. QED BY <1>1, ReaderInvariant, PTL

-----------------------------------------------------------------------------
(***************************************************************************)
(* What Unread() defines: the lines from a position on.                    *)
(***************************************************************************)
Values == LineSet \cup {Junk}

One(l) == <<l>>

Step(xemu, s, f, i) ==
  IF i > Len(s) THEN <<>>
  ELSE IF s[i] = "." /\ ~xemu THEN <<Dot>> \o f[i + 1]
  ELSE LET n == FirstEol(SubSeq(s, i, Len(s)))
       IN  <<Parsed(SubSeq(s, i, i + n - 2))>> \o f[i + n]

Behind(xemu, s) == CHOOSE f : f = [i \in 1 .. Len(s) + 1 |-> Step(xemu, s, f, i)]

\* The text x and a line feed are at i; a dot of the hardware is a line of its own.
TextAt(xemu, s, i, x) ==
  /\ x \in Seq(Symbols) /\ \A j \in 1 .. Len(x) : x[j] # LF
  /\ i + Len(x) \in 1 .. Len(s) /\ s[i + Len(x)] = LF
  /\ \A j \in 1 .. Len(x) : s[i + j - 1] = x[j]
  /\ xemu \/ s[i] # "."

PromptAt(xemu, s, i) == ~xemu /\ s[i] = "."

\* The line l is at i, and at k what follows it.
Takes(xemu, s, i, l, k) ==
  /\ i \in 1 .. Len(s)
  /\ \/ PromptAt(xemu, s, i) /\ l = Dot /\ k = i + 1
     \/ \E x \in Seq(Symbols) : TextAt(xemu, s, i, x) /\ l = Parsed(x) /\ k = i + Len(x) + 1

Regular(xemu, s) == \A i \in 1 .. Len(s) : \E l, k : Takes(xemu, s, i, l, k)

\* Induction from the end of a sequence to its beginning.
LEMMA Downward ==
  ASSUME NEW n \in Nat, NEW T \in SUBSET (1 .. n), \A i \in T : \E j \in T : i < j
  PROVE  T = {}
<1>. DEFINE U == {n - i : i \in T}
<1>1. U \subseteq Nat
  OBVIOUS
<1>2. SUFFICES ASSUME T # {}
               PROVE  FALSE
  OBVIOUS
<1>3. U # {}
  BY <1>2
<1>4. PICK u \in U : \A v \in U : ~(<<v, u>> \in OpToRel(<, Nat))
  <2>. HIDE DEF U
  <2>. QED BY <1>1, <1>3, NatLessThanWellFounded, WFMin
<1>5. \A v \in U : ~(v < u)
  BY <1>1, <1>4 DEF OpToRel
<1>6. PICK i \in T : u = n - i
  BY <1>4
<1>7. PICK j \in T : i < j
  BY <1>6
<1>8. n - j \in U /\ n - j < u
  BY <1>6, <1>7
<1>. QED BY <1>5, <1>8

LEMMA ValuesAre ==
  /\ Dot \in Values /\ Junk \in Values /\ \A x : Parsed(x) \in Values
  /\ \A l \in Values : One(l) \in Seq(Values) /\ Len(One(l)) = 1 /\ One(l)[1] = l
<1>1. Dot \in Values /\ Junk \in Values /\ \A x : Parsed(x) \in Values
  BY ParsedTypes DEF Values, LineSet
<1>2. \A l \in Values : One(l) \in Seq(Values) /\ Len(One(l)) = 1 /\ One(l)[1] = l
  BY DEF One
<1>. QED BY <1>1, <1>2

LEMMA TextRead ==
  ASSUME NEW xemu, NEW s \in Seq(Symbols), NEW f, NEW i \in 1 .. Len(s), NEW x \in Seq(Symbols),
         TextAt(xemu, s, i, x)
  PROVE  Step(xemu, s, f, i) = Cat(One(Parsed(x)), f[i + Len(x) + 1])
<1>. DEFINE r == SubSeq(s, i, Len(s))  n == FirstEol(r)  t == SubSeq(s, i, i + n - 2)
<1>1. /\ Len(s) \in Nat /\ Len(x) \in Nat /\ i + Len(x) \in 1 .. Len(s) /\ s[i + Len(x)] = LF
      /\ \A j \in 1 .. Len(x) : x[j] # LF /\ s[i + j - 1] = x[j]
      /\ xemu \/ s[i] # "."
  BY LenProperties DEF TextAt
<1>2. r = From(s, i)
  BY DEF From
<1>3. /\ r \in Seq(Symbols) /\ Len(r) = Len(s) - i + 1
      /\ \A j \in 1 .. Len(s) - i + 1 : r[j] = s[i + j - 1]
  BY <1>1, <1>2, Froms
<1>. HIDE DEF r
<1>4. Len(x) + 1 \in 1 .. Len(r) /\ r[Len(x) + 1] = LF
  <2>. DEFINE h == Len(x) + 1
  <2>1. h \in 1 .. Len(s) - i + 1 /\ i + h - 1 = i + Len(x)
    BY <1>1
  <2>. HIDE DEF h
  <2>2. r[h] = s[i + h - 1]
    BY <1>3, <2>1
  <2>. QED BY <1>1, <1>3, <2>1, <2>2 DEF h
<1>5. \A j \in 1 .. Len(x) : r[j] # LF
  <2>1. \A j \in 1 .. Len(x) : j \in 1 .. Len(s) - i + 1
    BY <1>1
  <2>. QED BY <1>1, <1>3, <2>1
<1>6. Contains(r, LF)
  BY <1>4 DEF Contains
<1>7. n \in 1 .. Len(r) /\ r[n] = LF /\ \A j \in 1 .. n - 1 : r[j] # LF
  BY <1>3, <1>6, FirstEolIs
<1>. HIDE DEF n
<1>8. n = Len(x) + 1
  <2>1. ~(n \in 1 .. Len(x))
    BY <1>5, <1>7
  <2>2. ~(Len(x) + 1 \in 1 .. n - 1)
    BY <1>4, <1>7
  <2>. QED BY <1>1, <1>7, <2>1, <2>2
<1>9. t = x
  <2>. DEFINE m == i + n - 2
  <2>1. m = i + Len(x) - 1 /\ m \in Int /\ m <= Len(s) /\ \A j \in i .. m : s[j] \in Symbols
    BY <1>1, <1>8, ElementOfSeq
  <2>2. t = SubSeq(s, i, m)
    OBVIOUS
  <2>. HIDE DEF m, t
  <2>3. /\ t \in Seq(Symbols) /\ Len(t) = IF i <= m THEN m - i + 1 ELSE 0
        /\ \A j \in 1 .. m - i + 1 : t[j] = s[i + j - 1]
    BY <2>1, <2>2, SubSeqProperties
  <2>4. Len(t) = Len(x) /\ m - i + 1 = Len(x)
    BY <1>1, <2>1, <2>3
  <2>. QED BY <1>1, <2>3, <2>4, SeqEqual
<1>10. Step(xemu, s, f, i) = <<Parsed(t)>> \o f[i + n]
  BY <1>1 DEF Step, r, n
<1>11. i + n = i + Len(x) + 1
  BY <1>1, <1>8
<1>. QED BY <1>9, <1>10, <1>11 DEF Cat, One

LEMMA TakesFacts ==
  ASSUME NEW xemu, NEW s \in Seq(Symbols), NEW i, NEW l, NEW k, Takes(xemu, s, i, l, k)
  PROVE  /\ i \in 1 .. Len(s) /\ k \in i + 1 .. Len(s) + 1 /\ l \in Values
         /\ \A f : Step(xemu, s, f, i) = Cat(One(l), f[k])
<1>1. i \in 1 .. Len(s) /\ Len(s) \in Nat
  BY LenProperties DEF Takes
<1>2. CASE PromptAt(xemu, s, i) /\ l = Dot /\ k = i + 1
  <2>1. \A f : Step(xemu, s, f, i) = <<Dot>> \o f[i + 1]
    BY <1>1, <1>2 DEF Step, PromptAt
  <2>2. \A f : Step(xemu, s, f, i) = Cat(One(l), f[k])
    BY <1>2, <2>1 DEF Cat, One
  <2>. QED BY <1>1, <1>2, <2>2, ValuesAre
<1>3. CASE \E x \in Seq(Symbols) : TextAt(xemu, s, i, x) /\ l = Parsed(x) /\ k = i + Len(x) + 1
  <2>1. PICK x \in Seq(Symbols) : TextAt(xemu, s, i, x) /\ l = Parsed(x) /\ k = i + Len(x) + 1
    BY <1>3
  <2>2. Len(x) \in Nat /\ i + Len(x) \in 1 .. Len(s)
    BY <2>1, LenProperties DEF TextAt
  <2>3. k \in i + 1 .. Len(s) + 1
    BY <1>1, <2>1, <2>2
  <2>4. \A f : Step(xemu, s, f, i) = Cat(One(Parsed(x)), f[i + Len(x) + 1])
    BY <1>1, <2>1, TextRead
  <2>. QED BY <1>1, <2>1, <2>3, <2>4, ValuesAre
<1>. QED BY <1>2, <1>3 DEF Takes

LEMMA TakesRead ==
  ASSUME NEW xemu, NEW s \in Seq(Symbols), NEW i, NEW l, NEW k, Takes(xemu, s, i, l, k), NEW f
  PROVE  Step(xemu, s, f, i) = Cat(One(l), f[k])
BY TakesFacts

\* Unread() has a value at every position.
DefinedFrom(xemu, s, i, f) == f = [j \in i .. Len(s) + 1 |-> Step(xemu, s, f, j)]

LEMMA SomeDefined ==
  ASSUME NEW xemu, NEW s \in Seq(Symbols), Regular(xemu, s)
  PROVE  \E f : DefinedFrom(xemu, s, 1, f)
<1>. DEFINE L == Len(s)  n == L + 1  T == {i \in 1 .. n : ~ \E f : DefinedFrom(xemu, s, i, f)}
<1>1. L \in Nat /\ n \in Nat
  BY LenProperties
<1>2. ASSUME NEW i \in T
      PROVE  \E j \in T : i < j
  <2>1. CASE i = n
    <3>. DEFINE f == [j \in i .. n |-> <<>>]
    <3>1. \A j \in i .. n : Step(xemu, s, f, j) = <<>>
      BY <1>1, <2>1 DEF Step
    <3>2. f = [j \in i .. n |-> Step(xemu, s, f, j)]
      BY <3>1
    <3>. HIDE DEF f
    <3>3. DefinedFrom(xemu, s, i, f)
      BY <3>2 DEF DefinedFrom
    <3>. QED BY <3>3
  <2>2. CASE i # n
    <3>1. i \in 1 .. L /\ i + 1 \in 1 .. n /\ i < i + 1
      BY <1>1, <2>2
    <3>2. ASSUME NEW f, DefinedFrom(xemu, s, i + 1, f)
          PROVE  \E g : DefinedFrom(xemu, s, i, g)
      <4>. DEFINE g == [j \in i .. n |-> IF j = i THEN Step(xemu, s, f, i) ELSE f[j]]
      <4>1. \A j \in i + 1 .. n : g[j] = f[j]
        BY <3>1
      <4>2. g[i] = Step(xemu, s, f, i) /\ g = [j \in i .. n |-> g[j]]
        BY <3>1
      <4>. HIDE DEF g
      <4>3. \A j \in i + 1 .. n : f[j] = Step(xemu, s, f, j)
        BY <3>2 DEF DefinedFrom
      <4>4. ASSUME NEW j \in i .. n
            PROVE  Step(xemu, s, g, j) = Step(xemu, s, f, j)
        <5>1. CASE j = n
          BY <1>1, <5>1 DEF Step
        <5>2. CASE j # n
          <6>1. j \in 1 .. L
            BY <1>1, <5>2
          <6>2. PICK l, k : Takes(xemu, s, j, l, k)
            BY <6>1 DEF Regular
          <6>3. k \in j + 1 .. n
            BY <6>2, TakesFacts
          <6>a. Step(xemu, s, f, j) = Cat(One(l), f[k])
            BY <6>2, TakesRead
          <6>b. Step(xemu, s, g, j) = Cat(One(l), g[k])
            BY <6>2, TakesRead
          <6>4. k \in i + 1 .. n
            BY <1>1, <6>3
          <6>. QED BY <4>1, <6>a, <6>b, <6>4
        <5>. QED BY <5>1, <5>2
      <4>5. \A j \in i .. n : g[j] = Step(xemu, s, g, j)
        <5>1. ASSUME NEW j \in i .. n
              PROVE  g[j] = Step(xemu, s, g, j)
          <6>1. CASE j = i
            BY <4>2, <4>4, <6>1
          <6>2. CASE j # i
            <7>1. j \in i + 1 .. n
              BY <1>1, <6>2
            <7>. QED BY <4>1, <4>3, <4>4, <7>1
          <6>. QED BY <6>1, <6>2
        <5>. QED BY <5>1
      <4>6. g = [j \in i .. n |-> Step(xemu, s, g, j)]
        BY <4>2, <4>5
      <4>7. DefinedFrom(xemu, s, i, g)
        BY <4>6 DEF DefinedFrom
      <4>. QED BY <4>7
    <3>3. i + 1 \in T
      BY <3>1, <3>2
    <3>. QED BY <3>1, <3>3
  <2>. QED BY <2>1, <2>2
<1>3. T = {}
  <2>1. T \in SUBSET (1 .. n)
    OBVIOUS
  <2>. HIDE DEF T, n
  <2>. QED BY <1>1, <1>2, <2>1, Downward
<1>4. 1 \in 1 .. n
  BY <1>1
<1>. QED BY <1>3, <1>4

LEMMA BehindIs ==
  ASSUME NEW xemu, NEW s \in Seq(Symbols), Regular(xemu, s)
  PROVE  /\ Behind(xemu, s)[Len(s) + 1] = <<>>
         /\ \A i, l, k : Takes(xemu, s, i, l, k) => Behind(xemu, s)[i] = Cat(One(l), Behind(xemu, s)[k])
         /\ \A i \in 1 .. Len(s) + 1 : Behind(xemu, s)[i] \in Seq(Values)
<1>. DEFINE f == Behind(xemu, s)  L == Len(s)  n == L + 1
<1>1. L \in Nat /\ n \in Nat
  BY LenProperties
<1>2. f = [i \in 1 .. n |-> Step(xemu, s, f, i)]
  <2>1. \E g : g = [i \in 1 .. n |-> Step(xemu, s, g, i)]
    BY SomeDefined DEF DefinedFrom
  <2>. QED BY <2>1 DEF Behind
<1>. HIDE DEF f
<1>3. \A i \in 1 .. n : f[i] = Step(xemu, s, f, i)
  BY <1>2
<1>4. f[n] = <<>>
  <2>1. n \in 1 .. n /\ n > Len(s)
    BY <1>1
  <2>2. Step(xemu, s, f, n) = <<>>
    BY <2>1 DEF Step
  <2>. QED BY <1>3, <2>1, <2>2
<1>5. ASSUME NEW i, NEW l, NEW k, Takes(xemu, s, i, l, k)
      PROVE  f[i] = Cat(One(l), f[k]) /\ k \in i + 1 .. n /\ i \in 1 .. n /\ l \in Values
  <2>1. /\ i \in 1 .. L /\ k \in i + 1 .. n /\ l \in Values
        /\ \A g : Step(xemu, s, g, i) = Cat(One(l), g[k])
    BY <1>5, TakesFacts
  <2>2. i \in 1 .. n
    BY <1>1, <2>1
  <2>. QED BY <1>3, <2>1, <2>2
<1>6. \A i \in 1 .. n : f[i] \in Seq(Values)
  <2>. DEFINE T == {i \in 1 .. n : f[i] \notin Seq(Values)}
  <2>1. ASSUME NEW i \in T
        PROVE  \E j \in T : i < j
    <3>1. i # n
      BY <1>4, EmptySeq
    <3>2. i \in 1 .. L
      BY <1>1, <3>1
    <3>3. PICK l, k : Takes(xemu, s, i, l, k)
      BY <3>2 DEF Regular
    <3>4. f[i] = Cat(One(l), f[k]) /\ k \in i + 1 .. n /\ l \in Values
      BY <1>5, <3>3
    <3>5. k \in 1 .. n /\ i < k
      BY <1>1, <3>2, <3>4
    <3>6. ASSUME f[k] \in Seq(Values)
          PROVE  FALSE
      <4>1. One(l) \in Seq(Values)
        BY <3>4, ValuesAre
      <4>2. Cat(One(l), f[k]) \in Seq(Values)
        BY <3>6, <4>1, Cats
      <4>. QED BY <3>4, <4>2
    <3>. QED BY <3>5, <3>6
  <2>2. T \in SUBSET (1 .. n)
    OBVIOUS
  <2>3. T = {}
    <3>. HIDE DEF T, n
    <3>. QED BY <1>1, <2>1, <2>2, Downward
  <2>. QED BY <2>3
<1>7. \A i, l, k : Takes(xemu, s, i, l, k) => f[i] = Cat(One(l), f[k])
  BY <1>5
<1>. QED BY <1>4, <1>6, <1>7 DEF f

\* What is taken does not depend on what is before or behind it.
LEMMA TakesMoved ==
  ASSUME NEW xemu, NEW s \in Seq(Symbols), NEW t \in Seq(Symbols), NEW i, NEW l, NEW k, NEW d \in Int,
         Takes(xemu, s, i, l, k),
         \A j \in i .. k - 1 : d + j \in 1 .. Len(t) /\ t[d + j] = s[j]
  PROVE  Takes(xemu, t, d + i, l, d + k)
<1>1. i \in 1 .. Len(s) /\ k \in i + 1 .. Len(s) + 1 /\ Len(s) \in Nat /\ Len(t) \in Nat
  BY TakesFacts, LenProperties
<1>2. d + i \in 1 .. Len(t) /\ t[d + i] = s[i]
  <2>1. i \in i .. k - 1
    BY <1>1
  <2>. QED BY <2>1
<1>3. CASE PromptAt(xemu, s, i) /\ l = Dot /\ k = i + 1
  <2>1. PromptAt(xemu, t, d + i) /\ d + k = d + i + 1
    BY <1>1, <1>2, <1>3 DEF PromptAt
  <2>. QED BY <1>2, <1>3, <2>1 DEF Takes
<1>4. CASE \E x \in Seq(Symbols) : TextAt(xemu, s, i, x) /\ l = Parsed(x) /\ k = i + Len(x) + 1
  <2>1. PICK x \in Seq(Symbols) : TextAt(xemu, s, i, x) /\ l = Parsed(x) /\ k = i + Len(x) + 1
    BY <1>4
  <2>2. /\ Len(x) \in Nat /\ i + Len(x) \in 1 .. Len(s) /\ s[i + Len(x)] = LF
        /\ \A j \in 1 .. Len(x) : x[j] # LF /\ s[i + j - 1] = x[j]
        /\ xemu \/ s[i] # "."
    BY <2>1, LenProperties DEF TextAt
  <2>3. d + i + Len(x) \in 1 .. Len(t) /\ t[d + i + Len(x)] = LF
    <3>. DEFINE h == i + Len(x)
    <3>1. h \in i .. k - 1 /\ d + i + Len(x) = d + h
      BY <1>1, <2>1, <2>2
    <3>. HIDE DEF h
    <3>2. d + h \in 1 .. Len(t) /\ t[d + h] = s[h]
      BY <3>1
    <3>. QED BY <2>2, <3>1, <3>2 DEF h
  <2>4. ASSUME NEW j \in 1 .. Len(x)
        PROVE  t[d + i + j - 1] = x[j]
    <3>. DEFINE h == i + j - 1
    <3>1. h \in i .. k - 1 /\ d + i + j - 1 = d + h
      BY <1>1, <2>1, <2>2
    <3>. HIDE DEF h
    <3>2. t[d + h] = s[h]
      BY <3>1
    <3>3. s[h] = x[j]
      BY <2>2 DEF h
    <3>. QED BY <3>1, <3>2, <3>3
  <2>5. TextAt(xemu, t, d + i, x)
    BY <1>2, <2>1, <2>2, <2>3, <2>4 DEF TextAt
  <2>6. d + k = d + i + Len(x) + 1
    BY <1>1, <2>1, <2>2
  <2>. QED BY <1>2, <2>1, <2>5, <2>6 DEF Takes
<1>. QED BY <1>3, <1>4 DEF Takes

-----------------------------------------------------------------------------
(***************************************************************************)
(* Every position is read, if the bytes are as they are sent.              *)
(***************************************************************************)
\* On the hardware what begins somewhere in a line ends with it.
Firsts == {"PC", ",", ":", "m"}
Finals == {"!", "A", "E", "0777", "00", "r", "2000"}

LEMMA SymbolKinds ==
  /\ \A a \in Symbols : a \in {".", LF, CR, "2058"} \cup Firsts \cup Finals
  /\ \A a \in Finals : Successor(a) = CR /\ a \notin {".", LF, CR, "2058"}
  /\ \A a \in Firsts : Successor(a) \in Finals /\ a \notin {".", LF, CR, "2058"}
  /\ Successor(CR) = LF /\ CR \notin {".", LF, "2058"}
  /\ Successor("2058") = "." /\ "2058" \notin {".", LF, CR}
<1>1. \A a \in Symbols : a \in {".", LF, CR, "2058"} \cup Firsts \cup Finals
  BY DEF Symbols, Firsts, Finals
<1>2. \A a \in Finals : Successor(a) = CR /\ a \notin {".", LF, CR, "2058"}
  BY DEF Finals, Successor, CR, LF
<1>3. \A a \in Firsts : Successor(a) \in Finals /\ a \notin {".", LF, CR, "2058"}
  BY DEF Firsts, Finals, Successor, CR, LF
<1>4. Successor(CR) = LF /\ CR \notin {".", LF, "2058"} /\ Successor("2058") = "." /\ "2058" \notin {".", LF, CR}
  BY DEF Successor, CR, LF
<1>. QED BY <1>1, <1>2, <1>3, <1>4

LEMMA LineEnds ==
  ASSUME NEW s \in Seq(Symbols), Spelled(s), NEW i \in 1 .. Len(s)
  PROVE  /\ s[i] = CR => i + 1 \in 1 .. Len(s) /\ s[i + 1] = LF
         /\ s[i] \in Finals => i + 2 \in 1 .. Len(s) /\ s[i + 1] = CR /\ s[i + 2] = LF
         /\ s[i] \in Firsts => /\ i + 3 \in 1 .. Len(s) /\ s[i + 1] = Successor(s[i])
                               /\ s[i + 2] = CR /\ s[i + 3] = LF
         /\ s[i] = "2058" => /\ i + 4 \in 1 .. Len(s) /\ s[i + 1] = "." /\ s[i + 2] = "E"
                             /\ s[i + 3] = CR /\ s[i + 4] = LF
<1>1. Len(s) \in Nat
  BY LenProperties
<1>2. \A j \in 1 .. Len(s) : s[j] = CR => j + 1 \in 1 .. Len(s) /\ s[j + 1] = LF
  BY SymbolKinds DEF Spelled, SpelledAt
<1>3. \A j \in 1 .. Len(s) : s[j] \in Finals => j + 2 \in 1 .. Len(s) /\ s[j + 1] = CR /\ s[j + 2] = LF
  <2>1. ASSUME NEW j \in 1 .. Len(s), s[j] \in Finals
        PROVE  j + 2 \in 1 .. Len(s) /\ s[j + 1] = CR /\ s[j + 2] = LF
    <3>. DEFINE h == j + 1
    <3>1. h \in 1 .. Len(s) /\ s[h] = CR
      BY <2>1, SymbolKinds DEF Spelled, SpelledAt
    <3>2. h + 1 = j + 2
      BY <1>1
    <3>. HIDE DEF h
    <3>3. h + 1 \in 1 .. Len(s) /\ s[h + 1] = LF
      BY <1>2, <3>1
    <3>. QED BY <3>1, <3>2, <3>3 DEF h
  <2>. QED BY <2>1
<1>4. ASSUME s[i] \in Firsts
      PROVE  /\ i + 3 \in 1 .. Len(s) /\ s[i + 1] = Successor(s[i])
             /\ s[i + 2] = CR /\ s[i + 3] = LF
  <2>. DEFINE h == i + 1
  <2>1. h \in 1 .. Len(s) /\ s[h] = Successor(s[i]) /\ s[h] \in Finals
    BY <1>4, SymbolKinds DEF Spelled, SpelledAt
  <2>2. h + 1 = i + 2 /\ h + 2 = i + 3
    BY <1>1
  <2>. HIDE DEF h
  <2>3. h + 2 \in 1 .. Len(s) /\ s[h + 1] = CR /\ s[h + 2] = LF
    BY <1>3, <2>1
  <2>. QED BY <2>1, <2>2, <2>3 DEF h
<1>5. ASSUME s[i] = "2058"
      PROVE  /\ i + 4 \in 1 .. Len(s) /\ s[i + 1] = "." /\ s[i + 2] = "E"
             /\ s[i + 3] = CR /\ s[i + 4] = LF
  <2>. DEFINE h == i + 2
  <2>1. h \in 1 .. Len(s) /\ s[i + 1] = "." /\ s[h] = "E"
    BY <1>5, SymbolKinds DEF Spelled, SpelledAt
  <2>2. h + 1 = i + 3 /\ h + 2 = i + 4 /\ "E" \in Finals
    BY <1>1 DEF Finals
  <2>. HIDE DEF h
  <2>3. h + 2 \in 1 .. Len(s) /\ s[h + 1] = CR /\ s[h + 2] = LF
    BY <1>3, <2>1, <2>2
  <2>. QED BY <2>1, <2>2, <2>3 DEF h
<1>. QED BY <1>2, <1>3, <1>4, <1>5

LEMMA FineRegular ==
  ASSUME NEW xemu \in BOOLEAN, NEW s \in Seq(Symbols), Fine(xemu, s)
  PROVE  Regular(xemu, s)
<1>1. Len(s) \in Nat
  BY LenProperties
<1>2. ASSUME NEW i \in 1 .. Len(s), ~PromptAt(xemu, s, i)
      PROVE  \E k \in i .. Len(s) : s[k] = LF
  <2>1. CASE xemu
    <3>1. s # <<>> /\ Len(s) \in i .. Len(s)
      BY <1>1, EmptySeq
    <3>2. s[Len(s)] = LF
      BY <2>1, <3>1 DEF Fine, Whole
    <3>. QED BY <3>1, <3>2
  <2>2. CASE ~xemu
    <3>1. s[i] # "." /\ s[i] \in Symbols /\ Spelled(s)
      BY <1>2, <2>2, ElementOfSeq DEF PromptAt, Fine
    <3>2. s[i] \in {LF, CR, "2058"} \cup Firsts \cup Finals
      BY <3>1, SymbolKinds
    <3>3. CASE s[i] = LF
      BY <3>3
    <3>4. CASE s[i] = CR
      <4>1. i + 1 \in i .. Len(s) /\ s[i + 1] = LF
        BY <3>1, <3>4, LineEnds
      <4>. QED BY <4>1
    <3>5. CASE s[i] \in Finals
      <4>1. i + 2 \in i .. Len(s) /\ s[i + 2] = LF
        BY <3>1, <3>5, LineEnds
      <4>. QED BY <4>1
    <3>6. CASE s[i] \in Firsts
      <4>1. i + 3 \in i .. Len(s) /\ s[i + 3] = LF
        BY <3>1, <3>6, LineEnds
      <4>. QED BY <4>1
    <3>7. CASE s[i] = "2058"
      <4>1. i + 4 \in i .. Len(s) /\ s[i + 4] = LF
        BY <3>1, <3>7, LineEnds
      <4>. QED BY <4>1
    <3>. QED BY <3>2, <3>3, <3>4, <3>5, <3>6, <3>7
  <2>. QED BY <2>1, <2>2
<1>3. ASSUME NEW i \in 1 .. Len(s)
      PROVE  \E l, k : Takes(xemu, s, i, l, k)
  <2>1. CASE PromptAt(xemu, s, i)
    BY <2>1 DEF Takes
  <2>2. CASE ~PromptAt(xemu, s, i)
    <3>. DEFINE r == From(s, i)  n == FirstEol(r)  m == i + n - 2  x == SubSeq(s, i, m)
    <3>1. PICK k \in i .. Len(s) : s[k] = LF
      BY <1>2, <2>2
    <3>2. /\ r \in Seq(Symbols) /\ Len(r) = Len(s) - i + 1
          /\ \A j \in 1 .. Len(s) - i + 1 : r[j] = s[i + j - 1]
      BY <1>1, Froms
    <3>. HIDE DEF r
    <3>3. Contains(r, LF)
      <4>. DEFINE h == k - i + 1
      <4>1. h \in 1 .. Len(s) - i + 1 /\ i + h - 1 = k
        BY <1>1
      <4>. HIDE DEF h
      <4>2. r[h] = LF
        BY <3>1, <3>2, <4>1
      <4>. QED BY <3>2, <4>1, <4>2 DEF Contains
    <3>4. n \in 1 .. Len(r) /\ r[n] = LF /\ \A j \in 1 .. n - 1 : r[j] # LF
      BY <3>2, <3>3, FirstEolIs
    <3>. HIDE DEF n
    <3>5. /\ m \in Int /\ m <= Len(s) /\ m - i + 1 = n - 1 /\ n - 1 \in Nat
          /\ i + (n - 1) = m + 1 /\ m + 1 \in 1 .. Len(s)
      BY <1>1, <3>2, <3>4
    <3>6. x \in Seq(Symbols) /\ Len(x) = n - 1 /\ \A j \in 1 .. n - 1 : x[j] = s[i + j - 1]
      <4>1. \A j \in i .. m : s[j] \in Symbols
        BY <1>1, <3>5, ElementOfSeq
      <4>. HIDE DEF m
      <4>2. /\ x \in Seq(Symbols) /\ Len(x) = IF i <= m THEN m - i + 1 ELSE 0
            /\ \A j \in 1 .. m - i + 1 : x[j] = s[i + j - 1]
        BY <3>5, <4>1, SubSeqProperties
      <4>3. Len(x) = n - 1
        BY <1>1, <3>5, <4>2
      <4>. QED BY <3>5, <4>2, <4>3
    <3>. HIDE DEF x
    <3>7. \A j \in 1 .. n - 1 : r[j] = s[i + j - 1]
      BY <1>1, <3>2, <3>4
    <3>8. s[m + 1] = LF
      BY <1>1, <3>2, <3>4
    <3>9. xemu \/ s[i] # "."
      BY <2>2 DEF PromptAt
    <3>10. TextAt(xemu, s, i, x)
      <4>1. \A j \in 1 .. Len(x) : x[j] # LF /\ s[i + j - 1] = x[j]
        BY <3>4, <3>6, <3>7
      <4>2. i + Len(x) \in 1 .. Len(s) /\ s[i + Len(x)] = LF
        BY <3>5, <3>6, <3>8
      <4>. QED BY <3>6, <3>9, <4>1, <4>2 DEF TextAt
    <3>. QED BY <3>6, <3>10 DEF Takes
  <2>. QED BY <2>1, <2>2
<1>. QED BY <1>3 DEF Regular

LEMMA CatAssociative ==
  ASSUME NEW S, NEW s \in Seq(S), NEW t \in Seq(S), NEW u \in Seq(S)
  PROVE  Cat(s, Cat(t, u)) = Cat(Cat(s, t), u)
BY ConcatAssociative DEF Cat

-----------------------------------------------------------------------------
(***************************************************************************)
(* The lines of what is left of the bytes, and of more of them.            *)
(***************************************************************************)
LEMMA BehindFrom ==
  ASSUME NEW xemu, NEW s \in Seq(Symbols), NEW b \in 1 .. Len(s) + 1,
         Regular(xemu, s), Regular(xemu, From(s, b))
  PROVE  Behind(xemu, From(s, b))[1] = Behind(xemu, s)[b]
<1>. DEFINE t == From(s, b)  d == b - 1  f == Behind(xemu, s)  g == Behind(xemu, t)  n == Len(t) + 1
            T == {i \in 1 .. n : g[i] # f[d + i]}
<1>1. Len(s) \in Nat
  BY LenProperties
<1>2. /\ t \in Seq(Symbols) /\ Len(t) = Len(s) - b + 1
      /\ \A i \in 1 .. Len(s) - b + 1 : t[i] = s[b + i - 1]
  BY <1>1, Froms
<1>3. Regular(xemu, s) /\ Regular(xemu, t)
  OBVIOUS
<1>. HIDE DEF t
<1>4. n \in Nat /\ d \in Int /\ d + n = Len(s) + 1 /\ d + 1 = b /\ 1 \in 1 .. n
  BY <1>1, <1>2
<1>5. /\ g[n] = <<>> /\ f[Len(s) + 1] = <<>>
      /\ \A i, l, k : Takes(xemu, t, i, l, k) => g[i] = Cat(One(l), g[k])
  BY <1>2, <1>3, BehindIs
<1>6. \A i, l, k : Takes(xemu, s, i, l, k) => f[i] = Cat(One(l), f[k])
  BY <1>3, BehindIs
<1>. HIDE DEF f, g
<1>7. ASSUME NEW i \in T
      PROVE  \E j \in T : i < j
  <2>1. i # n
    BY <1>4, <1>5
  <2>2. i \in 1 .. Len(t)
    BY <1>4, <2>1
  <2>3. PICK l, k : Takes(xemu, t, i, l, k)
    BY <1>3, <2>2 DEF Regular
  <2>4. k \in i + 1 .. Len(t) + 1
    BY <1>2, <2>3, TakesFacts
  <2>5. \A j \in i .. k - 1 : d + j \in 1 .. Len(s) /\ s[d + j] = t[j]
    <3>1. \A j \in i .. k - 1 : j \in 1 .. Len(s) - b + 1 /\ d + j \in 1 .. Len(s) /\ b + j - 1 = d + j
      BY <1>1, <1>2, <2>2, <2>4
    <3>. HIDE DEF d
    <3>. QED BY <1>2, <3>1
  <2>6. Takes(xemu, s, d + i, l, d + k)
    <3>. HIDE DEF d
    <3>. QED BY <1>2, <1>4, <2>3, <2>5, TakesMoved
  <2>7. g[i] = Cat(One(l), g[k]) /\ f[d + i] = Cat(One(l), f[d + k])
    <3>. HIDE DEF d
    <3>. QED BY <1>5, <1>6, <2>3, <2>6
  <2>8. k \in 1 .. n /\ i < k
    BY <1>2, <1>1, <2>2, <2>4
  <2>. HIDE DEF d
  <2>. QED BY <2>7, <2>8
<1>8. T = {}
  <2>1. T \in SUBSET (1 .. n)
    OBVIOUS
  <2>. HIDE DEF T, n
  <2>. QED BY <1>4, <1>7, <2>1, Downward
<1>9. g[1] = f[b]
  BY <1>4, <1>8
<1>. QED BY <1>9 DEF f, g, t

LEMMA SomeBehind ==
  ASSUME NEW xemu, NEW s \in Seq(Symbols), Regular(xemu, s), NEW i \in 1 .. Len(s)
  PROVE  Behind(xemu, s)[i] \in Seq(Values) \ {<<>>}
<1>1. PICK l, k : Takes(xemu, s, i, l, k)
  BY DEF Regular
<1>2. /\ Behind(xemu, s)[i] = Cat(One(l), Behind(xemu, s)[k])
      /\ \A j \in 1 .. Len(s) + 1 : Behind(xemu, s)[j] \in Seq(Values)
  BY <1>1, BehindIs
<1>3. k \in i + 1 .. Len(s) + 1 /\ l \in Values /\ Len(s) \in Nat
  BY <1>1, TakesFacts, LenProperties
<1>4. i \in 1 .. Len(s) + 1 /\ k \in 1 .. Len(s) + 1
  BY <1>3
<1>. DEFINE w == One(l)  u == Behind(xemu, s)[k]
<1>5. /\ w \in Seq(Values) /\ w # <<>> /\ u \in Seq(Values)
      /\ Behind(xemu, s)[i] = Cat(w, u) /\ Behind(xemu, s)[i] \in Seq(Values)
  BY <1>2, <1>3, <1>4, ValuesAre
<1>. HIDE DEF w, u
<1>6. Cat(w, u) # <<>>
  BY <1>5, CatEmpty
<1>. QED BY <1>5, <1>6

LEMMA BehindCat ==
  ASSUME NEW xemu, NEW s \in Seq(Symbols), NEW m \in Seq(Symbols), m # <<>>,
         Regular(xemu, s), Regular(xemu, Cat(s, m))
  PROVE  /\ Behind(xemu, s)[1] \in Seq(Values)
         /\ \E u \in Seq(Values) \ {<<>>} : Behind(xemu, Cat(s, m))[1] = Cat(Behind(xemu, s)[1], u)
<1>. DEFINE t == Cat(s, m)  f == Behind(xemu, s)  g == Behind(xemu, t)  n == Len(s) + 1  u == g[n]
            T == {i \in 1 .. n : g[i] # Cat(f[i], u)}
<1>1. Len(s) \in Nat /\ Len(m) \in Nat /\ Len(m) # 0
  BY LenProperties, EmptySeq
<1>2. t \in Seq(Symbols) /\ Len(t) = Len(s) + Len(m) /\ \A i \in 1 .. Len(s) : t[i] = s[i]
  BY Cats
<1>3. Regular(xemu, s) /\ Regular(xemu, t)
  OBVIOUS
<1>. HIDE DEF t
<1>4. n \in 1 .. Len(t) /\ n \in Nat /\ 1 \in 1 .. n
  BY <1>1, <1>2
<1>5. u \in Seq(Values) \ {<<>>}
  BY <1>2, <1>3, <1>4, SomeBehind
<1>6. \A i, l, k : Takes(xemu, t, i, l, k) => g[i] = Cat(One(l), g[k])
  BY <1>2, <1>3, BehindIs
<1>7. /\ f[n] = <<>> /\ \A i \in 1 .. n : f[i] \in Seq(Values)
      /\ \A i, l, k : Takes(xemu, s, i, l, k) => f[i] = Cat(One(l), f[k])
  BY <1>3, BehindIs
<1>. HIDE DEF f, g
<1>8. ASSUME NEW i \in T
      PROVE  \E j \in T : i < j
  <2>1. i # n
    <3>1. Cat(<<>>, u) = u
      BY <1>5, CatEmpty
    <3>. QED BY <1>7, <3>1
  <2>2. i \in 1 .. Len(s)
    BY <1>4, <2>1
  <2>3. PICK l, k : Takes(xemu, s, i, l, k)
    BY <1>3, <2>2 DEF Regular
  <2>4. k \in i + 1 .. Len(s) + 1 /\ l \in Values
    BY <2>3, TakesFacts
  <2>5. k \in 1 .. n /\ i < k
    BY <1>1, <2>2, <2>4
  <2>6. Takes(xemu, t, i, l, k)
    <3>. DEFINE d == 0
    <3>1. d \in Int /\ d + i = i /\ d + k = k
      BY <1>1, <2>2, <2>4
    <3>2. \A j \in i .. k - 1 : d + j \in 1 .. Len(t) /\ t[d + j] = s[j]
      BY <1>1, <1>2, <2>2, <2>4
    <3>. HIDE DEF d
    <3>3. Takes(xemu, t, d + i, l, d + k)
      BY <1>2, <2>3, <3>1, <3>2, TakesMoved
    <3>. QED BY <3>1, <3>3
  <2>. DEFINE w == One(l)
  <2>7. w \in Seq(Values) /\ g[i] = Cat(w, g[k]) /\ f[i] = Cat(w, f[k]) /\ f[k] \in Seq(Values) /\ u \in Seq(Values)
    BY <1>5, <1>6, <1>7, <2>3, <2>4, <2>5, <2>6, ValuesAre
  <2>. HIDE DEF w, u
  <2>8. Cat(w, Cat(f[k], u)) = Cat(Cat(w, f[k]), u)
    BY <2>7, CatAssociative
  <2>9. g[k] # Cat(f[k], u)
    BY <2>7, <2>8
  <2>. QED BY <2>5, <2>9
<1>9. T = {}
  <2>1. T \in SUBSET (1 .. n)
    OBVIOUS
  <2>. HIDE DEF T, n
  <2>. QED BY <1>4, <1>8, <2>1, Downward
<1>10. g[1] = Cat(f[1], u) /\ f[1] \in Seq(Values)
  BY <1>4, <1>7, <1>9
<1>. QED BY <1>5, <1>10 DEF f, g, t

-----------------------------------------------------------------------------
(***************************************************************************)
(* The lines that texts mean.                                              *)
(***************************************************************************)
Initial(t) == IF t = <<>> THEN "" ELSE t[1]

LEMMA Initials ==
  /\ Initial(<<>>) = "" /\ \A a : Initial(<<a>>) = a /\ \A b : Initial(<<a, b>>) = a /\ \A c : Initial(<<a, b, c>>) = a
BY DEF Initial

LEMMA InitialsAre ==
  /\ Initial(Text(Blank)) = "" /\ Initial(Text(Bang)) = "!" /\ Initial(Text(Dot)) = "."
  /\ Initial(Text(Header)) = "PC" /\ Initial(Text(Regs("hit"))) = "2058" /\ Initial(Text(Flags)) = "E"
  /\ Initial(Text(Loc)) = "," /\ Initial(Text(Mem("fresh"))) = ":" /\ Initial(Text(Echo("r"))) = "r"
  /\ Initial(Text(Echo("code"))) = "m"
<1>1. Initial(Text(Blank)) = "" /\ Initial(Text(Bang)) = "!" /\ Initial(Text(Dot)) = "."
  BY TextIs, Initials
<1>2. Initial(Text(Header)) = "PC" /\ Initial(Text(Flags)) = "E"
  BY TextIs, Initials
<1>5. Initial(Text(Regs("hit"))) = "2058"
  <2>1. Initial(<<"2058", ".", "E">>) = "2058"
    BY DEF Initial
  <2>. QED BY <2>1, TextIs
<1>3. Initial(Text(Loc)) = "," /\ Initial(Text(Mem("fresh"))) = ":"
  BY TextIs, Initials
<1>4. Initial(Text(Echo("r"))) = "r" /\ Initial(Text(Echo("code"))) = "m"
  BY TextIs, Initials
<1>. QED BY <1>1, <1>2, <1>3, <1>4, <1>5

LEMMA OneLine == \A l, k \in LineSet : Text(l) = Text(k) => l = k
<1>. DEFINE Line0(a) == CASE a = "" -> Blank   [] a = "!" -> Bang   [] a = "." -> Dot   [] a = "PC" -> Header
                          [] a = "2058" -> Regs("hit") [] a = "E" -> Flags [] a = "," -> Loc
                          [] a = ":" -> Mem("fresh") [] a = "r" -> Echo("r") [] a = "m" -> Echo("code")
<1>1. /\ Line0("") = Blank /\ Line0("!") = Bang /\ Line0(".") = Dot /\ Line0("PC") = Header
      /\ Line0("2058") = Regs("hit") /\ Line0("E") = Flags /\ Line0(",") = Loc
      /\ Line0(":") = Mem("fresh") /\ Line0("r") = Echo("r") /\ Line0("m") = Echo("code")
  OBVIOUS
<1>. HIDE DEF Line0
<1>2. \A l \in LineSet : Line0(Initial(Text(l))) = l
  BY <1>1, InitialsAre DEF LineSet
<1>. QED BY <1>2

LEMMA NoLineWith == \A l \in LineSet : Initial(Text(l)) \notin {"A", "0777", "00", "2000"}
BY InitialsAre DEF LineSet

LEMMA ParsedIs ==
  ASSUME NEW t, IsText(t), NEW x, x = t \/ x = Append(t, CR)
  PROVE  /\ \A l \in LineSet : Text(l) = t => Parsed(x) = l
         /\ (\A l \in LineSet : Text(l) # t) => Parsed(x) = Junk
<1>1. Parsed(x) = IF \E l \in LineSet : Text(l) = t THEN CHOOSE l \in LineSet : Text(l) = t ELSE Junk
  <2>1. CASE x = t
    <3>1. ~(x # <<>> /\ Last(x) = CR)
      BY <2>1 DEF IsText, Last
    <3>. QED BY <2>1, <3>1 DEF Parsed
  <2>2. CASE x = Append(t, CR)
    <3>1. x # <<>> /\ x[Len(x)] = CR /\ Front(x) = t
      BY <2>2, WithReturn
    <3>. QED BY <3>1 DEF Parsed, Last
  <2>. QED BY <2>1, <2>2
<1>2. ASSUME NEW l \in LineSet, Text(l) = t
      PROVE  Parsed(x) = l
  <2>1. /\ (CHOOSE k \in LineSet : Text(k) = t) \in LineSet
        /\ Text(CHOOSE k \in LineSet : Text(k) = t) = t
    BY <1>2
  <2>2. (CHOOSE k \in LineSet : Text(k) = t) = l
    BY <1>2, <2>1, OneLine
  <2>. QED BY <1>1, <1>2, <2>2
<1>. QED BY <1>1, <1>2

LEMMA Appends ==
  /\ \A a : Append(<<>>, a) = <<a>>
  /\ \A a, b : Append(<<a>>, b) = <<a, b>>
  /\ \A a, b, c : Append(<<a, b>>, c) = <<a, b, c>>
  /\ \A a, b, c, d : Append(<<a, b, c>>, d) = <<a, b, c, d>>
<1>1. ASSUME NEW a
      PROVE  Append(<<>>, a) = <<a>>
  OBVIOUS
<1>2. ASSUME NEW a, NEW b
      PROVE  Append(<<a>>, b) = <<a, b>>
  <2>. DEFINE S == {a, b}  s == <<a>>  t == <<a, b>>  u == Append(s, b)
  <2>1. s \in Seq(S) /\ t \in Seq(S) /\ b \in S
    OBVIOUS
  <2>2. /\ Len(s) = 1 /\ Len(t) = 2 /\ t[2] = b
        /\ t[1] = s[1]
    OBVIOUS
  <2>. HIDE DEF S, s, t
  <2>3. u \in Seq(S) /\ Len(u) = 2 /\ u[2] = b /\ \A i \in 1 .. 1 : u[i] = s[i]
    <3>. DEFINE k == 1
    <3>1. k \in Nat /\ Len(s) = k /\ k + 1 = 2
      BY <2>2
    <3>. HIDE DEF k
    <3>2. u \in Seq(S) /\ Len(u) = k + 1 /\ u[k + 1] = b /\ \A i \in 1 .. k : u[i] = s[i]
      BY <2>1, <3>1, AppendProperties
    <3>. QED BY <3>1, <3>2 DEF k
  <2>. HIDE DEF u
  <2>4. \A i \in 1 .. Len(u) : u[i] = t[i]
    BY <2>2, <2>3
  <2>5. u = t
    BY <2>1, <2>2, <2>3, <2>4, SeqEqual
  <2>. QED BY <2>5 DEF u, s, t
<1>3. ASSUME NEW a, NEW b, NEW c
      PROVE  Append(<<a, b>>, c) = <<a, b, c>>
  <2>. DEFINE S == {a, b, c}  s == <<a, b>>  t == <<a, b, c>>  u == Append(s, c)
  <2>1. s \in Seq(S) /\ t \in Seq(S) /\ c \in S
    OBVIOUS
  <2>2. /\ Len(s) = 2 /\ Len(t) = 3 /\ t[3] = c
        /\ t[1] = s[1] /\ t[2] = s[2]
    OBVIOUS
  <2>. HIDE DEF S, s, t
  <2>3. u \in Seq(S) /\ Len(u) = 3 /\ u[3] = c /\ \A i \in 1 .. 2 : u[i] = s[i]
    <3>. DEFINE k == 2
    <3>1. k \in Nat /\ Len(s) = k /\ k + 1 = 3
      BY <2>2
    <3>. HIDE DEF k
    <3>2. u \in Seq(S) /\ Len(u) = k + 1 /\ u[k + 1] = c /\ \A i \in 1 .. k : u[i] = s[i]
      BY <2>1, <3>1, AppendProperties
    <3>. QED BY <3>1, <3>2 DEF k
  <2>. HIDE DEF u
  <2>4. \A i \in 1 .. Len(u) : u[i] = t[i]
    BY <2>2, <2>3
  <2>5. u = t
    BY <2>1, <2>2, <2>3, <2>4, SeqEqual
  <2>. QED BY <2>5 DEF u, s, t
<1>4. ASSUME NEW a, NEW b, NEW c, NEW d
      PROVE  Append(<<a, b, c>>, d) = <<a, b, c, d>>
  <2>. DEFINE S == {a, b, c, d}  s == <<a, b, c>>  t == <<a, b, c, d>>  u == Append(s, d)
  <2>1. s \in Seq(S) /\ t \in Seq(S) /\ d \in S
    OBVIOUS
  <2>2. /\ Len(s) = 3 /\ Len(t) = 4 /\ t[4] = d
        /\ t[1] = s[1] /\ t[2] = s[2] /\ t[3] = s[3]
    OBVIOUS
  <2>. HIDE DEF S, s, t
  <2>3. u \in Seq(S) /\ Len(u) = 4 /\ u[4] = d /\ \A i \in 1 .. 3 : u[i] = s[i]
    <3>. DEFINE k == 3
    <3>1. k \in Nat /\ Len(s) = k /\ k + 1 = 4
      BY <2>2
    <3>. HIDE DEF k
    <3>2. u \in Seq(S) /\ Len(u) = k + 1 /\ u[k + 1] = d /\ \A i \in 1 .. k : u[i] = s[i]
      BY <2>1, <3>1, AppendProperties
    <3>. QED BY <3>1, <3>2 DEF k
  <2>. HIDE DEF u
  <2>4. \A i \in 1 .. Len(u) : u[i] = t[i]
    BY <2>2, <2>3
  <2>5. u = t
    BY <2>1, <2>2, <2>3, <2>4, SeqEqual
  <2>. QED BY <2>5 DEF u, s, t
<1>. QED BY <1>1, <1>2, <1>3, <1>4

LEMMA ParsedMarks ==
  /\ Parsed(<<>>) = Blank /\ Parsed(<<CR>>) = Blank
  /\ Parsed(<<".">>) = Dot /\ Parsed(<<".", CR>>) = Dot
  /\ Parsed(<<"!">>) = Bang /\ Parsed(<<"!", CR>>) = Bang
<1>1. {Blank, Bang, Dot} \subseteq LineSet
  BY DEF LineSet
<1>2. IsText(Text(Blank)) /\ IsText(Text(Bang)) /\ IsText(Text(Dot))
  BY <1>1, TextFacts
<1>3. \A l \in {Blank, Bang, Dot} : Parsed(Text(l)) = l /\ Parsed(Append(Text(l), CR)) = l
  BY <1>1, <1>2, ParsedIs
<1>4. /\ Append(<<>>, CR) = <<CR>> /\ Append(<<".">>, CR) = <<".", CR>>
      /\ Append(<<"!">>, CR) = <<"!", CR>>
  BY Appends
<1>5. Parsed(<<>>) = Blank /\ Parsed(<<CR>>) = Blank
  BY <1>3, <1>4, TextIs, Zenon
<1>6. Parsed(<<".">>) = Dot /\ Parsed(<<".", CR>>) = Dot
  BY <1>3, <1>4, TextIs, Zenon
<1>7. Parsed(<<"!">>) = Bang /\ Parsed(<<"!", CR>>) = Bang
  BY <1>3, <1>4, TextIs, Zenon
<1>. QED BY <1>5, <1>6, <1>7

LEMMA ParsedEnds ==
  /\ \A a \in {"A", "0777", "00", "2000"} : Parsed(<<a, CR>>) = Junk
  /\ Parsed(<<"!", CR>>) = Bang /\ Parsed(<<"E", CR>>) = Flags /\ Parsed(<<"r", CR>>) = Echo("r")
  /\ Parsed(<<"PC", "A", CR>>) = Header /\ Parsed(<<",", "0777", CR>>) = Loc
  /\ Parsed(<<":", "00", CR>>) = Mem("fresh") /\ Parsed(<<"m", "2000", CR>>) = Echo("code")
  /\ Parsed(<<"2058", ".", "E", CR>>) = Regs("hit")
<1>1. ASSUME NEW a \in {"A", "0777", "00", "2000"}
      PROVE  Parsed(<<a, CR>>) = Junk
  <2>. DEFINE t == <<a>>  x == <<a, CR>>
  <2>1. IsText(t) /\ x = Append(t, CR)
    <3>1. a \in Symbols \ {CR, LF}
      BY SymbolsAre
    <3>. QED BY <3>1 DEF IsText, LF, CR
  <2>2. \A l \in LineSet : Text(l) # t
    <3>1. Initial(t) = a
      BY Initials
    <3>. HIDE DEF t
    <3>. QED BY <3>1, NoLineWith
  <2>. HIDE DEF t, x
  <2>3. Parsed(x) = Junk
    BY <2>1, <2>2, ParsedIs
  <2>. QED BY <2>3 DEF x
<1>2. {Flags, Header, Regs("hit"), Loc, Mem("fresh"), Echo("r"), Echo("code")} \subseteq LineSet
  BY DEF LineSet
<1>3. \A l \in LineSet : Parsed(Append(Text(l), CR)) = l
  BY TextFacts, ParsedIs
<1>5. Parsed(<<"E", CR>>) = Flags /\ Parsed(<<"r", CR>>) = Echo("r")
  <2>1. Append(Text(Flags), CR) = <<"E", CR>>
    BY TextIs, Appends
  <2>2. Parsed(Append(Text(Flags), CR)) = Flags
    BY <1>2, <1>3
  <2>3. Append(Text(Echo("r")), CR) = <<"r", CR>>
    BY TextIs, Appends
  <2>4. Parsed(Append(Text(Echo("r")), CR)) = Echo("r")
    BY <1>2, <1>3
  <2>. QED BY <2>1, <2>2, <2>3, <2>4
<1>6. Parsed(<<"PC", "A", CR>>) = Header /\ Parsed(<<",", "0777", CR>>) = Loc
  <2>1. Append(Text(Header), CR) = <<"PC", "A", CR>>
    <3>1. Append(<<"PC", "A">>, CR) = <<"PC", "A", CR>>
      BY Appends, Zenon
    <3>. QED BY <3>1, TextIs
  <2>2. Parsed(Append(Text(Header), CR)) = Header
    BY <1>2, <1>3
  <2>3. Append(Text(Loc), CR) = <<",", "0777", CR>>
    <3>1. Append(<<",", "0777">>, CR) = <<",", "0777", CR>>
      BY Appends, Zenon
    <3>. QED BY <3>1, TextIs
  <2>4. Parsed(Append(Text(Loc), CR)) = Loc
    BY <1>2, <1>3
  <2>. QED BY <2>1, <2>2, <2>3, <2>4
<1>7. Parsed(<<":", "00", CR>>) = Mem("fresh") /\ Parsed(<<"m", "2000", CR>>) = Echo("code")
  <2>1. Append(Text(Mem("fresh")), CR) = <<":", "00", CR>>
    <3>1. Append(<<":", "00">>, CR) = <<":", "00", CR>>
      BY Appends, Zenon
    <3>. QED BY <3>1, TextIs
  <2>2. Parsed(Append(Text(Mem("fresh")), CR)) = Mem("fresh")
    BY <1>2, <1>3
  <2>3. Append(Text(Echo("code")), CR) = <<"m", "2000", CR>>
    <3>1. Append(<<"m", "2000">>, CR) = <<"m", "2000", CR>>
      BY Appends, Zenon
    <3>. QED BY <3>1, TextIs
  <2>4. Parsed(Append(Text(Echo("code")), CR)) = Echo("code")
    BY <1>2, <1>3
  <2>. QED BY <2>1, <2>2, <2>3, <2>4
<1>8. Parsed(<<"2058", ".", "E", CR>>) = Regs("hit")
  <2>1. Append(Text(Regs("hit")), CR) = <<"2058", ".", "E", CR>>
    <3>1. Append(<<"2058", ".", "E">>, CR) = <<"2058", ".", "E", CR>>
      BY Appends, Zenon
    <3>. QED BY <3>1, TextIs
  <2>2. Parsed(Append(Text(Regs("hit")), CR)) = Regs("hit")
    BY <1>2, <1>3
  <2>. QED BY <2>1, <2>2
<1>. QED BY <1>1, <1>5, <1>6, <1>7, <1>8, ParsedMarks

\* What is taken where a text is known.
LEMMA TakesText ==
  ASSUME NEW xemu, NEW s \in Seq(Symbols), NEW i \in 1 .. Len(s), xemu \/ s[i] # ".",
         NEW x \in Seq(Symbols), \A j \in 1 .. Len(x) : x[j] # LF /\ s[i + j - 1] = x[j],
         i + Len(x) \in 1 .. Len(s), s[i + Len(x)] = LF
  PROVE  Takes(xemu, s, i, Parsed(x), i + Len(x) + 1)
<1>1. TextAt(xemu, s, i, x)
  BY DEF TextAt
<1>. QED BY <1>1 DEF Takes

LEMMA TakesEnd ==
  ASSUME NEW xemu, NEW s \in Seq(Symbols), NEW i \in 1 .. Len(s)
  PROVE  /\ s[i] = LF => Takes(xemu, s, i, Blank, i + 1)
         /\ s[i] = CR /\ i + 1 \in 1 .. Len(s) /\ s[i + 1] = LF => Takes(xemu, s, i, Blank, i + 2)
<1>1. CASE s[i] = LF
  <2>. DEFINE x == <<>>
  <2>1. x \in Seq(Symbols) /\ Len(x) = 0 /\ Parsed(x) = Blank
    BY ParsedMarks
  <2>. HIDE DEF x
  <2>2. s[i] # "."
    BY <1>1 DEF LF
  <2>3. i + Len(x) = i /\ i + Len(x) + 1 = i + 1 /\ \A j \in 1 .. Len(x) : x[j] # LF /\ s[i + j - 1] = x[j]
    BY <2>1
  <2>4. Takes(xemu, s, i, Parsed(x), i + Len(x) + 1)
    BY <1>1, <2>1, <2>2, <2>3, TakesText
  <2>5. Takes(xemu, s, i, Blank, i + 1)
    BY <2>1, <2>3, <2>4
  <2>. QED BY <1>1, <2>5 DEF LF, CR
<1>2. CASE s[i] = CR /\ i + 1 \in 1 .. Len(s) /\ s[i + 1] = LF
  <2>. DEFINE x == <<CR>>
  <2>1. x \in Seq(Symbols) /\ Len(x) = 1 /\ x[1] = CR /\ CR # LF /\ Parsed(x) = Blank
    <3>1. CR \in Symbols /\ CR # LF
      BY SymbolsAre
    <3>2. x \in Seq(Symbols) /\ Len(x) = 1 /\ x[1] = CR
      BY <3>1
    <3>. QED BY <3>1, <3>2, ParsedMarks
  <2>. HIDE DEF x
  <2>2. s[i] # "."
    BY <1>2 DEF CR
  <2>3. i + Len(x) = i + 1 /\ i + Len(x) + 1 = i + 2 /\ \A j \in 1 .. Len(x) : j = 1 /\ i + j - 1 = i
    BY <2>1
  <2>4. Takes(xemu, s, i, Parsed(x), i + Len(x) + 1)
    BY <1>2, <2>1, <2>2, <2>3, TakesText
  <2>5. Takes(xemu, s, i, Blank, i + 2)
    BY <2>1, <2>3, <2>4
  <2>. QED BY <1>2, <2>5 DEF LF, CR
<1>. QED BY <1>1, <1>2

LEMMA TakesFinal ==
  ASSUME NEW xemu, NEW s \in Seq(Symbols), NEW i \in 1 .. Len(s), NEW a \in Symbols \ {CR, LF},
         xemu \/ a # ".", s[i] = a, i + 2 \in 1 .. Len(s), s[i + 1] = CR, s[i + 2] = LF
  PROVE  Takes(xemu, s, i, Parsed(<<a, CR>>), i + 3)
<1>. DEFINE x == <<a, CR>>
<1>1. x \in Seq(Symbols) /\ Len(x) = 2 /\ x[1] = a /\ x[2] = CR /\ CR # LF
  <2>1. CR \in Symbols /\ CR # LF
    BY SymbolsAre
  <2>. QED BY <2>1
<1>. HIDE DEF x
<1>2. i + Len(x) = i + 2 /\ i + Len(x) + 1 = i + 3 /\ \A j \in 1 .. Len(x) : (j = 1 /\ i + j - 1 = i) \/ (j = 2 /\ i + j - 1 = i + 1)
  BY <1>1
<1>3. Takes(xemu, s, i, Parsed(x), i + Len(x) + 1)
  BY <1>1, <1>2, TakesText
<1>. QED BY <1>2, <1>3 DEF x

LEMMA TakesTwo ==
  ASSUME NEW xemu, NEW s \in Seq(Symbols), NEW i \in 1 .. Len(s),
         NEW a \in Symbols \ {".", CR, LF}, NEW b \in Symbols \ {CR, LF},
         s[i] = a, s[i + 1] = b, i + 3 \in 1 .. Len(s), s[i + 2] = CR, s[i + 3] = LF
  PROVE  Takes(xemu, s, i, Parsed(<<a, b, CR>>), i + 4)
<1>. DEFINE x == <<a, b, CR>>
<1>1. x \in Seq(Symbols) /\ Len(x) = 3 /\ x[1] = a /\ x[2] = b /\ x[3] = CR /\ CR # LF
  <2>1. CR \in Symbols /\ CR # LF
    BY SymbolsAre
  <2>. QED BY <2>1
<1>. HIDE DEF x
<1>2. /\ i + Len(x) = i + 3 /\ i + Len(x) + 1 = i + 4
      /\ \A j \in 1 .. Len(x) : \/ j = 1 /\ i + j - 1 = i
                                \/ j = 2 /\ i + j - 1 = i + 1
                                \/ j = 3 /\ i + j - 1 = i + 2
  BY <1>1
<1>3. Takes(xemu, s, i, Parsed(x), i + Len(x) + 1)
  BY <1>1, <1>2, TakesText
<1>. QED BY <1>2, <1>3 DEF x

LEMMA TakesRegs ==
  ASSUME NEW xemu, NEW s \in Seq(Symbols), NEW i \in 1 .. Len(s), s[i] = "2058",
         i + 4 \in 1 .. Len(s), s[i + 1] = ".", s[i + 2] = "E", s[i + 3] = CR, s[i + 4] = LF
  PROVE  Takes(xemu, s, i, Regs("hit"), i + 5)
<1>. DEFINE x == <<"2058", ".", "E", CR>>
<1>1. /\ x \in Seq(Symbols) /\ Len(x) = 4 /\ x[1] = "2058" /\ x[2] = "." /\ x[3] = "E" /\ x[4] = CR
      /\ \A j \in 1 .. 4 : x[j] # LF
  <2>1. {"2058", ".", "E"} \subseteq Symbols /\ CR \in Symbols /\ CR # LF
    BY SymbolsAre
  <2>2. "2058" # LF /\ "." # LF /\ "E" # LF
    BY DEF LF
  <2>3. x \in Seq(Symbols) /\ Len(x) = 4
    BY <2>1
  <2>4. x[1] = "2058" /\ x[2] = "." /\ x[3] = "E" /\ x[4] = CR
    OBVIOUS
  <2>. HIDE DEF x
  <2>. QED BY <2>1, <2>2, <2>3, <2>4
<1>0. Parsed(x) = Regs("hit")
  BY ParsedEnds
<1>. HIDE DEF x
<1>2. /\ i + Len(x) = i + 4 /\ i + Len(x) + 1 = i + 5
      /\ \A j \in 1 .. Len(x) : \/ j = 1 /\ i + j - 1 = i
                                \/ j = 2 /\ i + j - 1 = i + 1
                                \/ j = 3 /\ i + j - 1 = i + 2
                                \/ j = 4 /\ i + j - 1 = i + 3
  BY <1>1
<1>3. Takes(xemu, s, i, Parsed(x), i + Len(x) + 1)
  BY <1>1, <1>2, TakesText
<1>. QED BY <1>0, <1>2, <1>3

-----------------------------------------------------------------------------
(***************************************************************************)
(* The hardware: what is left of a line when its beginning was lost.       *)
(***************************************************************************)
LEMMA NotDot == Dot \notin {Blank, Bang, Flags, Header, Regs("hit"), Loc, Mem("fresh"), Echo("r"), Echo("code"), Junk}
<1>1. Dot # Junk
  <2>1. Dot.kind = "dot" /\ Junk.kind = "junk"
    BY DEF Dot, Junk, Line
  <2>. QED BY <2>1
<1>2. Dot \notin {Blank, Bang, Flags, Header, Regs("hit"), Loc, Mem("fresh"), Echo("r"), Echo("code")}
  BY InitialsAre
<1>. QED BY <1>1, <1>2

Kept == <<Dot, Flags>>

LEMMA KeptIs == Kept \in Seq(Values) /\ Kept = Cat(One(Dot), One(Flags)) /\ Dot \in Values /\ Flags \in Values
<1>1. Dot \in Values /\ Flags \in Values
  BY DEF Values, LineSet
<1>. DEFINE w == One(Dot)  z == One(Flags)
<1>2. w \in Seq(Values) /\ Len(w) = 1 /\ w[1] = Dot /\ z \in Seq(Values) /\ Len(z) = 1 /\ z[1] = Flags
  BY <1>1, ValuesAre
<1>3. Kept \in Seq(Values) /\ Len(Kept) = 2 /\ Kept[1] = Dot /\ Kept[2] = Flags
  BY <1>1 DEF Kept
<1>. HIDE DEF w, z
<1>t. w \in Seq(Values) /\ z \in Seq(Values)
  BY <1>2
<1>4. Cat(w, z) \in Seq(Values) /\ Len(Cat(w, z)) = 2
  <2>1. Cat(w, z) \in Seq(Values) /\ Len(Cat(w, z)) = Len(w) + Len(z)
    BY <1>t, Cats
  <2>. QED BY <1>2, <2>1
<1>5. Cat(w, z)[1] = w[1]
  <2>1. \A i \in 1 .. Len(w) : Cat(w, z)[i] = w[i]
    BY <1>t, Cats
  <2>. QED BY <1>2, <2>1
<1>6. Cat(w, z)[2] = z[1]
  <2>1. \A i \in 1 .. Len(z) : Cat(w, z)[Len(w) + i] = z[i]
    BY <1>t, Cats
  <2>2. 1 \in 1 .. Len(z) /\ Len(w) + 1 = 2
    BY <1>2
  <2>. QED BY <2>1, <2>2
<1>7. \A i \in 1 .. Len(Kept) : i = 1 \/ i = 2
  BY <1>3
<1>8. \A i \in 1 .. Len(Kept) : Kept[i] = Cat(w, z)[i]
  BY <1>2, <1>3, <1>5, <1>6, <1>7
<1>9. Kept = Cat(w, z)
  BY <1>3, <1>4, <1>8, SeqEqual
<1>. QED BY <1>1, <1>3, <1>9 DEF w, z

LEMMA CutOffs ==
  /\ \A l : One(Blank) \in CutOff(l)
  /\ One(Flags) \in CutOff(Regs("hit")) /\ Kept \in CutOff(Regs("hit"))
  /\ \A l \in {Header, Loc, Mem("fresh"), Echo("code")} : One(Junk) \in CutOff(l)
  /\ {Blank, Flags, Junk} \subseteq Values
<1>1. \A l : One(Blank) \in CutOff(l)
  BY DEF One, CutOff
<1>2. Regs("hit").kind = "regs" /\ Header.kind = "header" /\ Loc.kind = "loc" /\ Mem("fresh").kind = "mem"
  BY DEF Regs, Header, Loc, Mem, Line
<1>3. Echo("code").kind = "echo"
  BY DEF Echo, Line
<1>4. One(Flags) \in CutOff(Regs("hit")) /\ Kept \in CutOff(Regs("hit"))
  BY <1>2 DEF One, Kept, CutOff
<1>5. \A l \in {Header, Loc, Mem("fresh"), Echo("code")} : One(Junk) \in CutOff(l)
  BY <1>2, <1>3 DEF One, CutOff
<1>6. {Blank, Flags, Junk} \subseteq Values
  BY DEF Values, LineSet
<1>. QED BY <1>1, <1>4, <1>5, <1>6

\* From anywhere inside the line that begins at i: what is cut off, and what follows the line.
Cut(xemu, s, l, k, q) ==
  \E cut \in CutOff(l) : cut \in Seq(Values) /\ Behind(xemu, s)[q] = Cat(cut, Behind(xemu, s)[k])

Inside(xemu, s, i, l, k) ==
  Takes(xemu, s, i, l, k) /\ l # Dot /\ \A q \in i + 1 .. k - 1 : Cut(xemu, s, l, k, q)

LEMMA CutBy ==
  ASSUME NEW xemu, NEW s \in Seq(Symbols), Regular(xemu, s), NEW q, NEW v \in Values, NEW k,
         Takes(xemu, s, q, v, k), NEW l, One(v) \in CutOff(l)
  PROVE  Cut(xemu, s, l, k, q)
<1>1. Behind(xemu, s)[q] = Cat(One(v), Behind(xemu, s)[k])
  BY BehindIs
<1>2. One(v) \in Seq(Values)
  BY ValuesAre
<1>. QED BY <1>1, <1>2 DEF Cut

LEMMA CutEnd ==
  ASSUME NEW xemu, NEW s \in Seq(Symbols), Regular(xemu, s), NEW h \in 1 .. Len(s), s[h] = CR,
         h + 1 \in 1 .. Len(s), s[h + 1] = LF, NEW l
  PROVE  Cut(xemu, s, l, h + 2, h) /\ Cut(xemu, s, l, h + 2, h + 1)
<1>1. Takes(xemu, s, h, Blank, h + 2)
  BY TakesEnd
<1>2. Takes(xemu, s, h + 1, Blank, h + 2)
  <2>. DEFINE d == h + 1
  <2>1. d \in 1 .. Len(s) /\ s[d] = LF /\ d + 1 = h + 2
    OBVIOUS
  <2>. HIDE DEF d
  <2>2. Takes(xemu, s, d, Blank, d + 1)
    BY <2>1, TakesEnd
  <2>. QED BY <2>1, <2>2 DEF d
<1>3. Blank \in Values /\ One(Blank) \in CutOff(l)
  BY CutOffs
<1>4. Cut(xemu, s, l, h + 2, h)
  BY <1>1, <1>3, CutBy
<1>5. Cut(xemu, s, l, h + 2, h + 1)
  <2>. DEFINE d == h + 1  k == h + 2
  <2>1. Takes(xemu, s, d, Blank, k)
    BY <1>2
  <2>. HIDE DEF d, k
  <2>2. Cut(xemu, s, l, k, d)
    BY <1>3, <2>1, CutBy
  <2>. QED BY <2>2 DEF d, k
<1>. QED BY <1>4, <1>5

LEMMA FinalsAre ==
  /\ \A a \in Finals : a \in Symbols \ {".", CR, LF} /\ Parsed(<<a, CR>>) # Dot
  /\ \A a \in Firsts : /\ a \in Symbols \ {".", CR, LF} /\ Successor(a) \in Symbols \ {".", CR, LF}
                       /\ Parsed(<<Successor(a), CR>>) = Junk
                       /\ Parsed(<<a, Successor(a), CR>>) \in {Header, Loc, Mem("fresh"), Echo("code")}
<1>1. \A a \in Finals : a \in Symbols \ {".", CR, LF}
  BY DEF Finals, Symbols, CR, LF
<1>2. \A a \in Finals : Parsed(<<a, CR>>) # Dot
  <2>1. \A a \in Finals : Parsed(<<a, CR>>) \in {Bang, Flags, Echo("r"), Junk}
    BY ParsedEnds DEF Finals
  <2>. QED BY <2>1, NotDot
<1>3. ASSUME NEW a \in Firsts
      PROVE  /\ a \in Symbols \ {".", CR, LF} /\ Successor(a) \in Symbols \ {".", CR, LF}
             /\ Parsed(<<Successor(a), CR>>) = Junk
             /\ Parsed(<<a, Successor(a), CR>>) \in {Header, Loc, Mem("fresh"), Echo("code")}
  <2>1. CASE a = "PC"
    <3>1. Successor(a) = "A"
      BY <2>1 DEF Successor, CR
    <3>2. a \in Symbols \ {".", CR, LF} /\ Successor(a) \in Symbols \ {".", CR, LF}
      BY <2>1, <3>1 DEF Symbols, CR, LF
    <3>3. Parsed(<<"A", CR>>) = Junk
      BY ParsedEnds
    <3>4. Parsed(<<"PC", "A", CR>>) \in {Header, Loc, Mem("fresh"), Echo("code")}
      BY ParsedEnds
    <3>. QED BY <2>1, <3>1, <3>2, <3>3, <3>4
  <2>2. CASE a = ","
    <3>1. Successor(a) = "0777"
      BY <2>2 DEF Successor, CR
    <3>2. a \in Symbols \ {".", CR, LF} /\ Successor(a) \in Symbols \ {".", CR, LF}
      BY <2>2, <3>1 DEF Symbols, CR, LF
    <3>3. Parsed(<<"0777", CR>>) = Junk
      BY ParsedEnds
    <3>4. Parsed(<<",", "0777", CR>>) \in {Header, Loc, Mem("fresh"), Echo("code")}
      BY ParsedEnds
    <3>. QED BY <2>2, <3>1, <3>2, <3>3, <3>4
  <2>3. CASE a = ":"
    <3>1. Successor(a) = "00"
      BY <2>3 DEF Successor, CR
    <3>2. a \in Symbols \ {".", CR, LF} /\ Successor(a) \in Symbols \ {".", CR, LF}
      BY <2>3, <3>1 DEF Symbols, CR, LF
    <3>3. Parsed(<<"00", CR>>) = Junk
      BY ParsedEnds
    <3>4. Parsed(<<":", "00", CR>>) \in {Header, Loc, Mem("fresh"), Echo("code")}
      BY ParsedEnds
    <3>. QED BY <2>3, <3>1, <3>2, <3>3, <3>4
  <2>4. CASE a = "m"
    <3>1. Successor(a) = "2000"
      BY <2>4 DEF Successor, CR
    <3>2. a \in Symbols \ {".", CR, LF} /\ Successor(a) \in Symbols \ {".", CR, LF}
      BY <2>4, <3>1 DEF Symbols, CR, LF
    <3>3. Parsed(<<"2000", CR>>) = Junk
      BY ParsedEnds
    <3>4. Parsed(<<"m", "2000", CR>>) \in {Header, Loc, Mem("fresh"), Echo("code")}
      BY ParsedEnds
    <3>. QED BY <2>4, <3>1, <3>2, <3>3, <3>4
  <2>. QED BY <2>1, <2>2, <2>3, <2>4 DEF Firsts
<1>. QED BY <1>1, <1>2, <1>3

LEMMA InsideLine ==
  ASSUME NEW xemu \in BOOLEAN, NEW s \in Seq(Symbols), ~xemu, Fine(xemu, s), NEW i \in 1 .. Len(s), s[i] # "."
  PROVE  \E l, k : Inside(xemu, s, i, l, k)
<1>1. Regular(xemu, s) /\ Spelled(s) /\ s[i] \in Symbols
  BY FineRegular, ElementOfSeq DEF Fine
<1>2. s[i] \in {LF, CR, "2058"} \cup Firsts \cup Finals
  BY <1>1, SymbolKinds
<1>3. Blank # Dot /\ Regs("hit") # Dot /\ \A l \in {Header, Loc, Mem("fresh"), Echo("code")} : l # Dot
  BY NotDot
<1>4. CASE s[i] = LF
  <2>1. Takes(xemu, s, i, Blank, i + 1)
    BY <1>4, TakesEnd
  <2>2. Inside(xemu, s, i, Blank, i + 1)
    BY <1>3, <2>1 DEF Inside
  <2>. QED BY <2>2
<1>5. CASE s[i] = CR
  <2>1. i + 1 \in 1 .. Len(s) /\ s[i + 1] = LF
    BY <1>1, <1>5, LineEnds
  <2>2. Takes(xemu, s, i, Blank, i + 2)
    BY <1>5, <2>1, TakesEnd
  <2>3. Cut(xemu, s, Blank, i + 2, i + 1)
    BY <1>1, <1>5, <2>1, CutEnd
  <2>4. \A q \in i + 1 .. i + 2 - 1 : q = i + 1
    OBVIOUS
  <2>5. Inside(xemu, s, i, Blank, i + 2)
    BY <1>3, <2>2, <2>3, <2>4 DEF Inside
  <2>. QED BY <2>5
<1>6. CASE s[i] \in Finals
  <2>. DEFINE a == s[i]  l == Parsed(<<a, CR>>)  h == i + 1
  <2>1. i + 2 \in 1 .. Len(s) /\ s[i + 1] = CR /\ s[i + 2] = LF
    BY <1>1, <1>6, LineEnds
  <2>2. a \in Symbols \ {".", CR, LF} /\ l # Dot
    BY <1>6, FinalsAre
  <2>3. Takes(xemu, s, i, l, i + 3)
    BY <2>1, <2>2, TakesFinal
  <2>4. h \in 1 .. Len(s) /\ s[h] = CR /\ h + 1 \in 1 .. Len(s) /\ s[h + 1] = LF /\ h + 2 = i + 3 /\ h + 1 = i + 2
    BY <2>1
  <2>5. \A q \in i + 1 .. i + 3 - 1 : q = h \/ q = h + 1
    OBVIOUS
  <2>. HIDE DEF h, l
  <2>6. Cut(xemu, s, l, h + 2, h) /\ Cut(xemu, s, l, h + 2, h + 1)
    BY <1>1, <2>4, CutEnd
  <2>7. Inside(xemu, s, i, l, i + 3)
    BY <2>2, <2>3, <2>4, <2>5, <2>6 DEF Inside
  <2>. QED BY <2>7
<1>7. CASE s[i] \in Firsts
  <2>. DEFINE a == s[i]  b == Successor(a)  l == Parsed(<<a, b, CR>>)  j == i + 1  h == i + 2
  <2>1. i + 3 \in 1 .. Len(s) /\ s[i + 1] = b /\ s[i + 2] = CR /\ s[i + 3] = LF
    BY <1>1, <1>7, LineEnds
  <2>2. /\ a \in Symbols \ {".", CR, LF} /\ b \in Symbols \ {".", CR, LF}
        /\ Parsed(<<b, CR>>) = Junk
        /\ l \in {Header, Loc, Mem("fresh"), Echo("code")}
    BY <1>7, FinalsAre
  <2>. HIDE DEF b
  <2>3. Takes(xemu, s, i, l, i + 4)
    BY <2>1, <2>2, TakesTwo
  <2>4. /\ h \in 1 .. Len(s) /\ s[h] = CR /\ h + 1 \in 1 .. Len(s) /\ s[h + 1] = LF /\ h + 2 = i + 4
        /\ j \in 1 .. Len(s) /\ j + 2 \in 1 .. Len(s) /\ s[j] = b /\ s[j + 1] = CR /\ s[j + 2] = LF
        /\ j + 3 = i + 4
    BY <2>1
  <2>5. \A q \in i + 1 .. i + 4 - 1 : q = j \/ q = h \/ q = h + 1
    OBVIOUS
  <2>6. One(Junk) \in CutOff(l) /\ Junk \in Values /\ l # Dot
    BY <1>3, <2>2, CutOffs
  <2>. HIDE DEF h, l, j
  <2>7. Cut(xemu, s, l, h + 2, h) /\ Cut(xemu, s, l, h + 2, h + 1)
    BY <1>1, <2>4, CutEnd
  <2>8. Takes(xemu, s, j, Parsed(<<b, CR>>), j + 3)
    BY <2>2, <2>4, TakesFinal
  <2>9. Takes(xemu, s, j, Junk, i + 4)
    BY <2>2, <2>4, <2>8
  <2>. DEFINE k == i + 4
  <2>10. Takes(xemu, s, j, Junk, k)
    BY <2>9
  <2>. HIDE DEF k
  <2>11. Cut(xemu, s, l, k, j)
    BY <1>1, <2>6, <2>10, CutBy
  <2>12. Inside(xemu, s, i, l, i + 4)
    BY <2>3, <2>4, <2>5, <2>6, <2>7, <2>11 DEF Inside, k
  <2>. QED BY <2>12
<1>8. CASE s[i] = "2058"
  <2>. DEFINE l == Regs("hit")  p == i + 1  j == i + 2  h == i + 3  k == i + 5
  <2>1. /\ i + 4 \in 1 .. Len(s) /\ s[i + 1] = "." /\ s[i + 2] = "E"
        /\ s[i + 3] = CR /\ s[i + 4] = LF
    BY <1>1, <1>8, LineEnds
  <2>2. Takes(xemu, s, i, l, k)
    BY <1>8, <2>1, TakesRegs
  <2>3. /\ h \in 1 .. Len(s) /\ s[h] = CR /\ h + 1 \in 1 .. Len(s) /\ s[h + 1] = LF /\ h + 2 = k
        /\ j \in 1 .. Len(s) /\ j + 2 \in 1 .. Len(s) /\ s[j] = "E" /\ s[j + 1] = CR /\ s[j + 2] = LF
        /\ j + 3 = k
        /\ p \in 1 .. Len(s) /\ s[p] = "." /\ p + 1 = j
    BY <2>1
  <2>4. \A q \in i + 1 .. k - 1 : q = p \/ q = j \/ q = h \/ q = h + 1
    OBVIOUS
  <2>a. k \in 1 .. Len(s) + 1
    BY <2>1
  <2>5. One(Flags) \in CutOff(l) /\ Kept \in CutOff(l) /\ l # Dot
    BY <1>3, CutOffs
  <2>. HIDE DEF h, l, j, p, k
  <2>6. Cut(xemu, s, l, h + 2, h) /\ Cut(xemu, s, l, h + 2, h + 1)
    BY <1>1, <2>3, CutEnd
  <2>7. Takes(xemu, s, j, Flags, k)
    <3>. DEFINE a == "E"
    <3>1. a \in Symbols \ {".", CR, LF} /\ Parsed(<<a, CR>>) = Flags /\ s[j] = a
      <4>1. a \in Finals
        BY DEF Finals
      <4>. QED BY <2>3, <4>1, FinalsAre, ParsedEnds
    <3>. HIDE DEF a
    <3>2. Takes(xemu, s, j, Parsed(<<a, CR>>), j + 3)
      BY <2>3, <3>1, TakesFinal
    <3>. QED BY <2>3, <3>1, <3>2
  <2>8. Cut(xemu, s, l, k, j)
    BY <1>1, <2>5, <2>7, CutBy, KeptIs
  <2>9. Takes(xemu, s, p, Dot, j)
    BY <2>3 DEF Takes, PromptAt
  <2>10. Cut(xemu, s, l, k, p)
    <3>. DEFINE f == Behind(xemu, s)  u == f[k]  w == One(Dot)  z == One(Flags)
    <3>1. f[j] = Cat(z, u) /\ f[p] = Cat(w, f[j]) /\ u \in Seq(Values)
      BY <1>1, <2>7, <2>9, <2>a, BehindIs
    <3>2. w \in Seq(Values) /\ z \in Seq(Values) /\ Kept \in Seq(Values) /\ Kept = Cat(w, z)
      BY KeptIs, ValuesAre
    <3>. HIDE DEF f, u, w, z
    <3>3. Cat(w, Cat(z, u)) = Cat(Cat(w, z), u)
      BY <3>1, <3>2, CatAssociative
    <3>4. f[p] = Cat(Kept, u)
      BY <3>1, <3>2, <3>3
    <3>. QED BY <2>5, <3>2, <3>4 DEF Cut, f, u
  <2>11. Inside(xemu, s, i, l, k)
    BY <2>2, <2>3, <2>4, <2>5, <2>6, <2>8, <2>10 DEF Inside
  <2>. QED BY <2>11
<1>. QED BY <1>2, <1>4, <1>5, <1>6, <1>7, <1>8

\* AfterPrompt() on the hardware.
Thrown(rest) ==
  {From(rest, j) : j \in 1 .. Len(rest) + 1}
    \cup UNION {{cut \o From(rest, j + 1) : cut \in CutOff(rest[j])} :
                   j \in {i \in 1 .. Len(rest) : rest[i] # Dot}}

LEMMA ThrownAre ==
  ASSUME NEW rest, NEW v
  PROVE  v \in Thrown(rest) <=>
           \/ \E j \in 1 .. Len(rest) + 1 : v = From(rest, j)
           \/ \E j \in 1 .. Len(rest) : /\ rest[j] # Dot
                                        /\ \E cut \in CutOff(rest[j]) : v = Cat(cut, From(rest, j + 1))
<1>. DEFINE A == {From(rest, j) : j \in 1 .. Len(rest) + 1}
            J == {i \in 1 .. Len(rest) : rest[i] # Dot}
            B(j) == {Cat(cut, From(rest, j + 1)) : cut \in CutOff(rest[j])}
<1>1. Thrown(rest) = A \cup UNION {B(j) : j \in J}
  BY Zenon DEF Thrown, Cat
<1>2. v \in A <=> \E j \in 1 .. Len(rest) + 1 : v = From(rest, j)
  OBVIOUS
<1>3. v \in UNION {B(j) : j \in J} <=> \E j \in J : v \in B(j)
  <2>. HIDE DEF B, J
  <2>. QED BY Zenon
<1>4. \A j : v \in B(j) <=> \E cut \in CutOff(rest[j]) : v = Cat(cut, From(rest, j + 1))
  OBVIOUS
<1>5. \A j : j \in J <=> j \in 1 .. Len(rest) /\ rest[j] # Dot
  OBVIOUS
<1>. HIDE DEF A, B, J
<1>. QED BY <1>1, <1>2, <1>3, <1>4, <1>5

LEMMA FromFirst ==
  ASSUME NEW S, NEW r \in Seq(S)
  PROVE  From(r, 1) = r
<1>1. Len(r) \in Nat
  BY LenProperties
<1>2. /\ From(r, 1) \in Seq(S) /\ Len(From(r, 1)) = Len(r)
      /\ \A i \in 1 .. Len(r) : From(r, 1)[i] = r[i]
  <2>. DEFINE k == 1
  <2>1. k \in 1 .. Len(r) + 1 /\ Len(r) - k + 1 = Len(r) /\ \A i \in 1 .. Len(r) : k + i - 1 = i
    BY <1>1
  <2>. HIDE DEF k
  <2>2. /\ From(r, k) \in Seq(S) /\ Len(From(r, k)) = Len(r) - k + 1
        /\ \A i \in 1 .. Len(r) - k + 1 : From(r, k)[i] = r[k + i - 1]
    BY <2>1, Froms
  <2>3. /\ From(r, k) \in Seq(S) /\ Len(From(r, k)) = Len(r)
        /\ \A i \in 1 .. Len(r) : From(r, k)[i] = r[i]
    BY <2>1, <2>2
  <2>. QED BY <2>3 DEF k
<1>. QED BY <1>1, <1>2, SeqEqual

LEMMA ThrownNothing ==
  ASSUME NEW S, NEW r \in Seq(S)
  PROVE  r \in Thrown(r)
<1>1. Len(r) \in Nat /\ From(r, 1) = r
  BY LenProperties, FromFirst
<1>2. 1 \in 1 .. Len(r) + 1
  BY <1>1
<1>. QED BY <1>1, <1>2, ThrownAre

LEMMA OneMore ==
  ASSUME NEW l \in Values, NEW r \in Seq(Values)
  PROVE  /\ Cat(One(l), r) \in Seq(Values) /\ Len(Cat(One(l), r)) = Len(r) + 1 /\ Len(r) \in Nat
         /\ Cat(One(l), r)[1] = l
         /\ \A j \in 1 .. Len(r) : Cat(One(l), r)[j + 1] = r[j]
         /\ \A j \in 1 .. Len(r) + 1 : From(Cat(One(l), r), j + 1) = From(r, j)
<1>. DEFINE w == One(l)  c == Cat(w, r)
<1>1. w \in Seq(Values) /\ Len(w) = 1 /\ w[1] = l /\ Len(r) \in Nat
  BY ValuesAre, LenProperties
<1>. HIDE DEF w
<1>t. w \in Seq(Values) /\ r \in Seq(Values)
  BY <1>1
<1>2. c \in Seq(Values) /\ Len(c) = Len(w) + Len(r) /\ \A i \in 1 .. Len(w) : c[i] = w[i]
  BY <1>t, Cats
<1>3. \A i \in 1 .. Len(r) : c[Len(w) + i] = r[i]
  BY <1>t, Cats
<1>4. \A j \in 1 .. Len(r) + 1 : From(c, Len(w) + j) = From(r, j)
  BY <1>t, FromCat
<1>. HIDE DEF c
<1>5. \A j \in 1 .. Len(r) + 1 : Len(w) + j = j + 1 /\ (j \in 1 .. Len(r) => Len(w) + j = j + 1)
  BY <1>1
<1>6. \A j \in 1 .. Len(r) : c[j + 1] = r[j]
  BY <1>1, <1>3
<1>7. \A j \in 1 .. Len(r) + 1 : From(c, j + 1) = From(r, j)
  BY <1>4, <1>5
<1>8. c[1] = l /\ Len(c) = Len(r) + 1
  BY <1>1, <1>2
<1>. QED BY <1>1, <1>2, <1>6, <1>7, <1>8 DEF c, w

LEMMA ThrownMore ==
  ASSUME NEW l \in Values, NEW r \in Seq(Values), NEW v, v \in Thrown(r)
  PROVE  v \in Thrown(Cat(One(l), r))
<1>. DEFINE c == Cat(One(l), r)
<1>1. /\ Len(c) = Len(r) + 1 /\ Len(r) \in Nat
      /\ \A j \in 1 .. Len(r) : c[j + 1] = r[j]
      /\ \A j \in 1 .. Len(r) + 1 : From(c, j + 1) = From(r, j)
  BY OneMore
<1>. HIDE DEF c
<1>2. CASE \E j \in 1 .. Len(r) + 1 : v = From(r, j)
  <2>1. PICK j \in 1 .. Len(r) + 1 : v = From(r, j)
    BY <1>2
  <2>2. j + 1 \in 1 .. Len(c) + 1 /\ v = From(c, j + 1)
    BY <1>1, <2>1
  <2>3. v \in Thrown(c)
    BY <2>2, ThrownAre
  <2>. QED BY <2>3 DEF c
<1>3. CASE \E j \in 1 .. Len(r) : /\ r[j] # Dot
                                  /\ \E cut \in CutOff(r[j]) : v = Cat(cut, From(r, j + 1))
  <2>1. PICK j \in 1 .. Len(r) : /\ r[j] # Dot
                                 /\ \E cut \in CutOff(r[j]) : v = Cat(cut, From(r, j + 1))
    BY <1>3
  <2>. DEFINE h == j + 1
  <2>2. h \in 1 .. Len(c) /\ h \in 1 .. Len(r) + 1 /\ c[h] = r[j]
    BY <1>1
  <2>. HIDE DEF h
  <2>3. From(c, h + 1) = From(r, h)
    BY <1>1, <2>2
  <2>4. \E cut \in CutOff(c[h]) : v = Cat(cut, From(c, h + 1))
    BY <2>1, <2>2, <2>3 DEF h
  <2>5. v \in Thrown(c)
    BY <2>1, <2>2, <2>4, ThrownAre
  <2>. QED BY <2>5 DEF c
<1>. QED BY <1>2, <1>3, ThrownAre

LEMMA ThrownCut ==
  ASSUME NEW l \in Values, NEW r \in Seq(Values), l # Dot, NEW cut \in CutOff(l)
  PROVE  Cat(cut, r) \in Thrown(Cat(One(l), r))
<1>. DEFINE c == Cat(One(l), r)  j == 1
<1>1. /\ Len(c) = Len(r) + 1 /\ Len(r) \in Nat /\ c[j] = l
      /\ \A i \in 1 .. Len(r) + 1 : From(c, i + 1) = From(r, i)
      /\ From(r, j) = r
  BY OneMore, FromFirst
<1>. HIDE DEF c
<1>2. j \in 1 .. Len(c) /\ j \in 1 .. Len(r) + 1
  BY <1>1
<1>. HIDE DEF j
<1>3. From(c, j + 1) = r
  BY <1>1, <1>2
<1>4. Cat(cut, r) \in Thrown(c)
  BY <1>1, <1>2, <1>3, ThrownAre
<1>. QED BY <1>4 DEF c

\* Whatever a prompt takes along, what follows is one of the rests that are allowed.
LEMMA CutAnywhere ==
  ASSUME NEW xemu \in BOOLEAN, NEW s \in Seq(Symbols), ~xemu, Fine(xemu, s),
         NEW q \in 1 .. Len(s) + 1, NEW p \in 1 .. q
  PROVE  Behind(xemu, s)[q] \in Thrown(Behind(xemu, s)[p])
<1>. DEFINE f == Behind(xemu, s)  v == f[q]  T == {i \in 1 .. q : v \notin Thrown(f[i])}
<1>1. Len(s) \in Nat /\ Regular(xemu, s) /\ q \in Nat
  BY LenProperties, FineRegular
<1>2. /\ \A i, l, k : Takes(xemu, s, i, l, k) => f[i] = Cat(One(l), f[k])
      /\ \A i \in 1 .. Len(s) + 1 : f[i] \in Seq(Values)
  BY <1>1, BehindIs
<1>3. ASSUME NEW i \in T
      PROVE  \E j \in T : i < j
  <2>1. i # q
    <3>1. f[q] \in Thrown(f[q])
      <4>. DEFINE r == f[q]
      <4>1. r \in Seq(Values)
        BY <1>2
      <4>. HIDE DEF r
      <4>2. r \in Thrown(r)
        BY <4>1, ThrownNothing
      <4>. QED BY <4>2 DEF r
    <3>. QED BY <3>1
  <2>2. i \in 1 .. Len(s) /\ i < q
    BY <1>1, <2>1
  <2>3. \E l, k : Takes(xemu, s, i, l, k) /\ (k <= q \/ Inside(xemu, s, i, l, k))
    <3>1. CASE s[i] = "."
      <4>1. Takes(xemu, s, i, Dot, i + 1)
        BY <2>2, <3>1 DEF Takes, PromptAt
      <4>2. i + 1 <= q
        BY <1>1, <2>2
      <4>. QED BY <4>1, <4>2
    <3>2. CASE s[i] # "."
      <4>1. PICK l, k : Inside(xemu, s, i, l, k)
        BY <2>2, <3>2, InsideLine
      <4>. QED BY <4>1 DEF Inside
    <3>. QED BY <3>1, <3>2
  <2>4. PICK l, k : Takes(xemu, s, i, l, k) /\ (k <= q \/ Inside(xemu, s, i, l, k))
    BY <2>3
  <2>5. k \in i + 1 .. Len(s) + 1 /\ l \in Values
    BY <2>4, TakesFacts
  <2>. DEFINE u == f[k]
  <2>6. f[i] = Cat(One(l), u) /\ u \in Seq(Values)
    BY <1>1, <1>2, <2>2, <2>4, <2>5
  <2>7. CASE k <= q
    <3>1. k \in 1 .. q /\ i < k
      BY <1>1, <2>2, <2>5, <2>7
    <3>2. ASSUME v \in Thrown(u)
          PROVE  FALSE
      <4>. HIDE DEF f, u, v
      <4>1. v \in Thrown(Cat(One(l), u))
        BY <2>5, <2>6, <3>2, ThrownMore
      <4>. QED BY <2>6, <4>1
    <3>. QED BY <3>1, <3>2
  <2>8. CASE ~(k <= q)
    <3>1. q \in i + 1 .. k - 1 /\ Inside(xemu, s, i, l, k)
      BY <1>1, <2>2, <2>4, <2>5, <2>8
    <3>2. l # Dot /\ Cut(xemu, s, l, k, q)
      BY <3>1 DEF Inside
    <3>3. PICK cut \in CutOff(l) : v = Cat(cut, u)
      BY <3>2 DEF Cut
    <3>. HIDE DEF f, u, v
    <3>4. v \in Thrown(Cat(One(l), u))
      BY <2>5, <2>6, <3>2, <3>3, ThrownCut
    <3>. QED BY <2>6, <3>4
  <2>. QED BY <2>7, <2>8
<1>4. T = {}
  <2>1. T \in SUBSET (1 .. q)
    OBVIOUS
  <2>. HIDE DEF T
  <2>. QED BY <1>1, <1>3, <2>1, Downward
<1>. QED BY <1>4

-----------------------------------------------------------------------------
(***************************************************************************)
(* The channel of lines.                                                   *)
(***************************************************************************)
After(xemu, l, rest) ==
  CASE l = Dot  -> IF xemu THEN {rest, Cat(One(Blank), rest)} ELSE Thrown(rest)
    [] l = Bang -> {rest, Cat(One(Blank), rest)}
    [] OTHER    -> {rest}

LEMMA RxIs ==
  /\ Unread(buffer \o stream) = Behind(isXemu, Pending)[1]
  /\ Unread(buffer \o stream)' = Behind(isXemu', Pending')[1]
<1>1. Unread(buffer \o stream) = Behind(isXemu, Pending)[1]
  BY DEF Unread, Behind, Step, Pending
<1>2. Unread(buffer \o stream)' = Behind(isXemu', Pending')[1]
  BY DEF Unread, Behind, Step, Pending
<1>. QED BY <1>1, <1>2

LEMMA SameLines ==
  /\ Channel!Dot = Dot /\ Channel!Bang = Bang /\ Channel!Blank = Blank
  /\ \A l : Channel!CutOff(l) = CutOff(l)
  /\ \A r, j : Channel!From(r, j) = From(r, j)
<1>1. Channel!Dot = Dot /\ Channel!Bang = Bang /\ Channel!Blank = Blank /\ Channel!Flags = Flags /\ Channel!Junk = Junk
  BY DEF Channel!Dot, Channel!Bang, Channel!Blank, Channel!Flags, Channel!Junk, Channel!Line, Dot, Bang, Blank, Flags, Junk, Line
<1>2. ASSUME NEW l
      PROVE  Channel!CutOff(l) = CutOff(l)
  BY <1>1, Zenon DEF Channel!CutOff, CutOff
<1>3. ASSUME NEW r, NEW j
      PROVE  Channel!From(r, j) = From(r, j)
  BY DEF Channel!From, From
<1>. QED BY <1>1, <1>2, <1>3

LEMMA RemainingIs == \A l, rest : Channel!Remaining(l, rest) = After(isXemu, l, rest)
<1>. SUFFICES ASSUME NEW l, NEW rest
              PROVE  Channel!Remaining(l, rest) = After(isXemu, l, rest)
  OBVIOUS
<1>1. Channel!AfterBang(rest) = {rest, Cat(One(Blank), rest)}
  BY SameLines, Zenon DEF Channel!AfterBang, Cat, One
<1>2. CASE isXemu
  <2>1. Channel!AfterPrompt(rest) = {rest} \cup {<<Blank>> \o rest}
    BY SameLines, <1>2, Zenon DEF Channel!AfterPrompt
  <2>2. Channel!AfterPrompt(rest) = {rest, Cat(One(Blank), rest)}
    BY <2>1 DEF Cat, One
  <2>. QED BY <1>1, <1>2, <2>2, SameLines, Zenon DEF After, Channel!Remaining
<1>3. CASE ~isXemu
  <2>1. Channel!AfterPrompt(rest) = Thrown(rest)
    <3>. DEFINE A == {From(rest, j) : j \in 1 .. Len(rest) + 1}
                J == {i \in 1 .. Len(rest) : rest[i] # Dot}
                B(j) == {cut \o From(rest, j + 1) : cut \in CutOff(rest[j])}
                C == {Channel!From(rest, j) : j \in 1 .. Len(rest) + 1}
                K == {i \in 1 .. Len(rest) : rest[i] # Channel!Dot}
                D(j) == {cut \o Channel!From(rest, j + 1) : cut \in Channel!CutOff(rest[j])}
    <3>1. Channel!AfterPrompt(rest) = C \cup UNION {D(j) : j \in K}
      BY <1>3, Zenon DEF Channel!AfterPrompt
    <3>2. Thrown(rest) = A \cup UNION {B(j) : j \in J}
      BY Zenon DEF Thrown
    <3>3. A = C /\ J = K
      BY SameLines
    <3>4. ASSUME NEW j
          PROVE  B(j) = D(j)
      BY SameLines
    <3>. HIDE DEF A, B, C, D, J, K
    <3>5. {B(j) : j \in J} = {D(j) : j \in K}
      BY <3>3, <3>4
    <3>. QED BY <3>1, <3>2, <3>3, <3>5
  <2>. QED BY <1>1, <1>3, <2>1, SameLines, Zenon DEF After, Channel!Remaining
<1>. QED BY <1>2, <1>3

LEMMA DeliverIs ==
  ASSUME NEW l \in Values, NEW r \in Seq(Values), Behind(isXemu, Pending)[1] = Cat(One(l), r),
         Behind(isXemu', Pending')[1] \in After(isXemu, l, r), line' = l, isXemu' = isXemu
  PROVE  Channel!Next
<1>. DEFINE c == Cat(One(l), r)  k == 2
<1>1. /\ c \in Seq(Values) /\ Len(c) = Len(r) + 1 /\ Len(r) \in Nat /\ c[1] = l
      /\ \A j \in 1 .. Len(r) + 1 : From(c, j + 1) = From(r, j)
      /\ From(r, 1) = r
  BY OneMore, FromFirst
<1>. HIDE DEF c
<1>2. c # <<>> /\ Head(c) = l /\ Tail(c) = r
  <2>1. c # <<>>
    BY <1>1
  <2>2. Head(c) = l
    BY <1>1, <2>1
  <2>3. Tail(c) = From(c, 1 + 1)
    BY <1>1, <2>1 DEF From
  <2>4. 1 \in 1 .. Len(r) + 1
    BY <1>1
  <2>. QED BY <1>1, <2>1, <2>2, <2>3, <2>4
<1>3. Unread(buffer \o stream) = c /\ Unread(buffer \o stream)' = Behind(isXemu', Pending')[1]
  BY RxIs DEF c
<1>4. Unread(buffer \o stream)' \in Channel!Remaining(l, r)
  BY <1>3, RemainingIs
<1>5. Channel!Deliver
  BY <1>2, <1>3, <1>4 DEF Channel!Deliver
<1>. QED BY <1>5 DEF Channel!Next

LEMMA AllRegular ==
  ASSUME ReaderInv
  PROVE  /\ TypeOK /\ isXemu \in BOOLEAN /\ Pending \in Seq(Symbols) /\ Fine(isXemu, Pending)
         /\ Regular(isXemu, Pending)
<1>1. TypeOK /\ Fine(isXemu, Pending) /\ isXemu \in BOOLEAN
  BY DEF ReaderInv, TypeOK
<1>2. Pending \in Seq(Symbols)
  BY <1>1, PendingTypes
<1>. QED BY <1>1, <1>2, FineRegular

LEMMA ArriveIs ==
  ASSUME ReaderInv, Send
  PROVE  Channel!Next
<1>1. /\ TypeOK /\ isXemu \in BOOLEAN /\ Pending \in Seq(Symbols) /\ Fine(isXemu, Pending)
      /\ Regular(isXemu, Pending)
  BY AllRegular
<1>2. PICK m \in Messages : Pending' = Cat(Pending, m)
  BY <1>1, SendEffect
<1>3. isXemu' = isXemu /\ line' = line /\ m \in Seq(Symbols) /\ m # <<>>
  BY MessageFacts DEF Send, Sound
<1>4. ReaderInv'
  BY StepSend
<1>5. Fine(isXemu, Cat(Pending, m)) /\ Cat(Pending, m) \in Seq(Symbols)
  <2>1. Fine(isXemu', Pending')
    BY <1>4 DEF ReaderInv
  <2>2. Cat(Pending, m) \in Seq(Symbols)
    BY <1>1, <1>3, Cats
  <2>. QED BY <1>2, <1>3, <2>1, <2>2
<1>6. Regular(isXemu, Cat(Pending, m))
  BY <1>1, <1>5, FineRegular
<1>. DEFINE r == Behind(isXemu, Pending)[1]  z == Behind(isXemu, Cat(Pending, m))[1]
<1>7. r \in Seq(Values) /\ \E u \in Seq(Values) \ {<<>>} : z = Cat(r, u)
  <2>. DEFINE s == Pending
  <2>1. s \in Seq(Symbols) /\ Regular(isXemu, s) /\ Regular(isXemu, Cat(s, m))
    BY <1>1, <1>6
  <2>. HIDE DEF s
  <2>2. /\ Behind(isXemu, s)[1] \in Seq(Values)
        /\ \E u \in Seq(Values) \ {<<>>} : Behind(isXemu, Cat(s, m))[1] = Cat(Behind(isXemu, s)[1], u)
    BY <1>3, <2>1, BehindCat
  <2>. QED BY <2>2 DEF s
<1>8. Unread(buffer \o stream) = r /\ Unread(buffer \o stream)' = z
  BY <1>2, <1>3, RxIs
<1>. HIDE DEF r, z
<1>9. PICK u \in Seq(Values) \ {<<>>} : z = Cat(r, u)
  BY <1>7
<1>10. /\ Len(r) \in Nat /\ Len(u) \in Nat /\ Len(u) # 0 /\ z \in Seq(Values)
       /\ Len(z) = Len(r) + Len(u) /\ \A i \in 1 .. Len(r) : z[i] = r[i]
  <2>1. r \in Seq(Values) /\ u \in Seq(Values)
    BY <1>7
  <2>2. /\ Cat(r, u) \in Seq(Values) /\ Len(Cat(r, u)) = Len(r) + Len(u)
        /\ \A i \in 1 .. Len(r) : Cat(r, u)[i] = r[i]
    BY <2>1, Cats
  <2>3. Len(r) \in Nat /\ Len(u) \in Nat /\ Len(u) # 0
    BY <2>1, LenProperties, EmptySeq
  <2>. QED BY <1>9, <2>2, <2>3
<1>11. IsStrictPrefix(r, z)
  <2>. DEFINE n == Len(r)
  <2>1. n \in Nat /\ n <= Len(z) /\ \A i \in 1 .. n : z[i] \in Values
    BY <1>10, ElementOfSeq
  <2>2. \A i \in 1 .. n : r[i] \in Values
    BY <1>7, ElementOfSeq
  <2>. HIDE DEF n
  <2>3. SubSeq(r, 1, n) \in Seq(Values) /\ Len(SubSeq(r, 1, n)) = n /\ \A i \in 1 .. n : SubSeq(r, 1, n)[i] = r[i]
    <3>1. /\ SubSeq(r, 1, n) \in Seq(Values) /\ Len(SubSeq(r, 1, n)) = IF 1 <= n THEN n - 1 + 1 ELSE 0
          /\ \A i \in 1 .. n - 1 + 1 : SubSeq(r, 1, n)[i] = r[1 + i - 1]
      BY <2>1, <2>2, SubSeqProperties
    <3>. QED BY <2>1, <3>1
  <2>4. SubSeq(z, 1, n) \in Seq(Values) /\ Len(SubSeq(z, 1, n)) = n /\ \A i \in 1 .. n : SubSeq(z, 1, n)[i] = z[i]
    <3>1. /\ SubSeq(z, 1, n) \in Seq(Values) /\ Len(SubSeq(z, 1, n)) = IF 1 <= n THEN n - 1 + 1 ELSE 0
          /\ \A i \in 1 .. n - 1 + 1 : SubSeq(z, 1, n)[i] = z[1 + i - 1]
      BY <2>1, SubSeqProperties
    <3>. QED BY <2>1, <3>1
  <2>5. SubSeq(r, 1, n) = SubSeq(z, 1, n)
    BY <1>10, <2>3, <2>4, SeqEqual DEF n
  <2>6. r # z
    BY <1>10
  <2>. QED BY <2>1, <2>5, <2>6 DEF IsStrictPrefix, IsPrefix, n
<1>12. Channel!Arrive
  BY <1>3, <1>8, <1>11 DEF Channel!Arrive, Channel!IsStrictPrefix, IsStrictPrefix, Channel!IsPrefix, IsPrefix
<1>. QED BY <1>12 DEF Channel!Next

\* A mark of which the end is left behind.
Mark(c) == IF c = "." THEN Dot ELSE Bang

LEMMA MarkRest ==
  ASSUME NEW xemu, NEW s \in Seq(Symbols), Regular(xemu, s), NEW c \in {".", "!"}, xemu \/ c # ".",
         NEW n \in {2, 3}, n \in 1 .. Len(s), s[1] = c, s[n] = LF, n = 3 => s[2] = CR, NEW q \in 2 .. n
  PROVE  /\ Behind(xemu, s)[1] = Cat(One(Mark(c)), Behind(xemu, s)[n + 1])
         /\ Behind(xemu, s)[q] = Cat(One(Blank), Behind(xemu, s)[n + 1])
         /\ Behind(xemu, s)[n + 1] \in Seq(Values)
<1>1. \A i, l, k : Takes(xemu, s, i, l, k) => Behind(xemu, s)[i] = Cat(One(l), Behind(xemu, s)[k])
  BY BehindIs
<1>2. Behind(xemu, s)[n + 1] \in Seq(Values)
  <2>1. n + 1 \in 1 .. Len(s) + 1
    OBVIOUS
  <2>. QED BY <2>1, BehindIs
<1>3. c \in Symbols \ {CR, LF}
  BY SymbolsAre
<1>4. Takes(xemu, s, 1, Mark(c), n + 1)
  <2>. DEFINE d == 1
  <2>1. d \in 1 .. Len(s) /\ s[d] = c
    OBVIOUS
  <2>2. CASE n = 2
    <3>. DEFINE x == <<c>>
    <3>1. x \in Seq(Symbols) /\ Len(x) = 1 /\ x[1] = c /\ c # LF
      BY <1>3
    <3>2. Parsed(x) = Mark(c)
      BY ParsedMarks DEF Mark
    <3>. HIDE DEF x
    <3>3. d + Len(x) = n /\ d + Len(x) + 1 = n + 1 /\ \A j \in 1 .. Len(x) : x[j] # LF /\ s[d + j - 1] = x[j]
      BY <2>2, <3>1
    <3>. HIDE DEF d
    <3>4. Takes(xemu, s, d, Parsed(x), d + Len(x) + 1)
      BY <2>1, <3>1, <3>3, TakesText
    <3>. QED BY <3>2, <3>3, <3>4 DEF d
  <2>3. CASE n = 3
    <3>1. d + 1 = 2 /\ d + 2 = n /\ d + 3 = n + 1
      BY <2>3
    <3>2. Parsed(<<c, CR>>) = Mark(c)
      BY ParsedMarks DEF Mark
    <3>. HIDE DEF d
    <3>3. Takes(xemu, s, d, Parsed(<<c, CR>>), d + 3)
      BY <1>3, <2>1, <2>3, <3>1, TakesFinal
    <3>. QED BY <3>1, <3>2, <3>3 DEF d
  <2>. QED BY <2>2, <2>3
<1>5. Takes(xemu, s, q, Blank, n + 1)
  <2>1. CASE q = n
    BY <2>1, TakesEnd
  <2>2. CASE q # n
    <3>1. q \in 1 .. Len(s) /\ q + 1 = n /\ s[q] = CR /\ q + 2 = n + 1
      BY <2>2
    <3>2. Takes(xemu, s, q, Blank, q + 2)
      BY <3>1, TakesEnd
    <3>. QED BY <3>1, <3>2
  <2>. QED BY <2>1, <2>2
<1>. QED BY <1>1, <1>2, <1>4, <1>5

LEMMA RestIs ==
  ASSUME ReaderInv, ReaderInv', NEW k \in 1 .. Len(buffer) + 1, buffer' = From(buffer, k),
         UNCHANGED <<isXemu, stream, messages>>
  PROVE  /\ k \in 1 .. Len(Pending) + 1
         /\ Behind(isXemu', Pending')[1] = Behind(isXemu, Pending)[k]
<1>1. /\ TypeOK /\ isXemu \in BOOLEAN /\ Pending \in Seq(Symbols) /\ Fine(isXemu, Pending)
      /\ Regular(isXemu, Pending)
  BY AllRegular
<1>2. Pending' = From(Pending, k) /\ k \in 1 .. Len(Pending) + 1
  BY <1>1, TakeEffect
<1>3. Fine(isXemu, From(Pending, k))
  BY <1>2 DEF ReaderInv
<1>. DEFINE s == Pending  t == From(s, k)
<1>4. s \in Seq(Symbols) /\ k \in 1 .. Len(s) + 1 /\ Regular(isXemu, s) /\ t \in Seq(Symbols)
  <2>1. s \in Seq(Symbols) /\ k \in 1 .. Len(s) + 1 /\ Regular(isXemu, s)
    BY <1>1, <1>2
  <2>. HIDE DEF s
  <2>. QED BY <2>1, Froms
<1>5. Regular(isXemu, t)
  BY <1>1, <1>3, <1>4, FineRegular
<1>. HIDE DEF s
<1>6. Behind(isXemu, From(s, k))[1] = Behind(isXemu, s)[k]
  BY <1>4, <1>5, BehindFrom
<1>. QED BY <1>2, <1>6 DEF s

\* What is behind a line is always among what may remain.
LEMMA AfterNothing ==
  ASSUME NEW xemu, NEW l, NEW r \in Seq(Values)
  PROVE  r \in After(xemu, l, r)
<1>1. r \in Thrown(r)
  BY ThrownNothing
<1>. QED BY <1>1 DEF After

LEMMA DeliverTaken ==
  ASSUME ReaderInv, NEW l \in Values, NEW k \in 1 .. Len(Pending) + 1, Takes(isXemu, Pending, 1, l, k),
         Behind(isXemu', Pending')[1] = Behind(isXemu, Pending)[k], line' = l, isXemu' = isXemu
  PROVE  Channel!Next
<1>. DEFINE r == Behind(isXemu, Pending)[k]
<1>1. Pending \in Seq(Symbols) /\ Regular(isXemu, Pending)
  BY AllRegular
<1>2. Behind(isXemu, Pending)[1] = Cat(One(l), r) /\ r \in Seq(Values)
  BY <1>1, BehindIs
<1>. HIDE DEF r
<1>3. r \in After(isXemu, l, r)
  BY <1>2, AfterNothing
<1>4. Behind(isXemu', Pending')[1] = r
  BY DEF r
<1>. QED BY <1>2, <1>3, <1>4, DeliverIs

LEMMA DeliverLine ==
  ASSUME ReaderInv, ReturnLine
  PROVE  Channel!Next
<1>. DEFINE e == FirstEol(buffer)  k == e + 1  n == e - 1  x == SubSeq(buffer, 1, n)
<1>1. /\ TypeOK /\ isXemu \in BOOLEAN /\ Pending \in Seq(Symbols) /\ Fine(isXemu, Pending)
      /\ Regular(isXemu, Pending)
  BY AllRegular
<1>2. /\ UNCHANGED <<isXemu, stream, messages>> /\ HasEol /\ ~IsPrompt
      /\ line' = Parsed(x) /\ buffer' = From(buffer, k)
  BY DEF ReturnLine, From
<1>3. /\ buffer \in Seq(Symbols) /\ e \in 1 .. Len(buffer) /\ buffer[e] = LF
      /\ \A j \in 1 .. e - 1 : buffer[j] # LF
  BY <1>1, <1>2, PendingTypes, FirstEolIs DEF HasEol
<1>4. /\ Len(buffer) \in Nat /\ Len(Pending) \in Nat /\ Len(buffer) <= Len(Pending)
      /\ \A i \in 1 .. Len(buffer) : Pending[i] = buffer[i]
  BY <1>1, PendingBegins
<1>. HIDE DEF e
<1>5. n \in Nat /\ n <= Len(buffer) /\ k \in 1 .. Len(buffer) + 1 /\ k = n + 2 /\ e = n + 1
  BY <1>3, <1>4
<1>6. x \in Seq(Symbols) /\ Len(x) = n /\ \A j \in 1 .. n : x[j] = buffer[j]
  <2>1. \A j \in 1 .. n : buffer[j] \in Symbols
    BY <1>3, <1>4, <1>5, ElementOfSeq
  <2>. HIDE DEF n
  <2>2. /\ x \in Seq(Symbols) /\ Len(x) = IF 1 <= n THEN n - 1 + 1 ELSE 0
        /\ \A j \in 1 .. n - 1 + 1 : x[j] = buffer[1 + j - 1]
    BY <1>5, <2>1, SubSeqProperties
  <2>. QED BY <1>5, <2>2
<1>. HIDE DEF x, k, n
<1>7. isXemu \/ Pending[1] # "."
  <2>1. CASE ~isXemu
    <3>1. Head(buffer) # "."
      BY <1>2, <2>1 DEF IsPrompt
    <3>2. Head(buffer) = buffer[1] /\ 1 \in 1 .. Len(buffer)
      BY <1>3, <1>4
    <3>. QED BY <1>4, <3>1, <3>2
  <2>. QED BY <2>1
<1>8. Takes(isXemu, Pending, 1, Parsed(x), k)
  <2>. DEFINE d == 1
  <2>1. d \in 1 .. Len(Pending) /\ d + Len(x) = e /\ d + Len(x) + 1 = k /\ e \in 1 .. Len(Pending) /\ Pending[e] = LF
    BY <1>3, <1>4, <1>5, <1>6
  <2>2. \A j \in 1 .. Len(x) : j \in 1 .. Len(buffer) /\ j \in 1 .. e - 1 /\ d + j - 1 = j
    BY <1>3, <1>4, <1>5, <1>6
  <2>3. isXemu \/ Pending[d] # "."
    BY <1>7
  <2>. HIDE DEF d
  <2>4. \A j \in 1 .. Len(x) : x[j] # LF /\ Pending[d + j - 1] = x[j]
    BY <1>3, <1>4, <1>6, <2>2
  <2>5. Takes(isXemu, Pending, d, Parsed(x), d + Len(x) + 1)
    BY <1>1, <1>6, <2>1, <2>3, <2>4, TakesText
  <2>. QED BY <2>1, <2>5 DEF d
<1>9. /\ k \in 1 .. Len(Pending) + 1
      /\ Behind(isXemu', Pending')[1] = Behind(isXemu, Pending)[k]
  BY <1>2, <1>5, StepLine, RestIs
<1>10. Parsed(x) \in Values
  BY ValuesAre
<1>. QED BY <1>2, <1>8, <1>9, <1>10, DeliverTaken

\* The hardware: a prompt is returned, and all that was read with it is gone.
LEMMA DeliverPrompt ==
  ASSUME ReaderInv, ReaderInv', ~isXemu, buffer # <<>>, Head(buffer) = ".", line' = Dot,
         buffer' = <<>>, UNCHANGED <<isXemu, stream, messages>>
  PROVE  Channel!Next
<1>. DEFINE k == Len(buffer) + 1  p == 2
<1>1. /\ TypeOK /\ isXemu \in BOOLEAN /\ Pending \in Seq(Symbols) /\ Fine(isXemu, Pending)
      /\ Regular(isXemu, Pending)
  BY AllRegular
<1>2. /\ Len(buffer) \in Nat /\ Len(Pending) \in Nat /\ Len(buffer) <= Len(Pending)
      /\ \A i \in 1 .. Len(buffer) : Pending[i] = buffer[i]
      /\ Len(buffer) >= 1 /\ Head(buffer) = buffer[1]
  BY <1>1, PendingBegins
<1>3. k \in 1 .. Len(buffer) + 1 /\ buffer' = From(buffer, k)
  BY <1>1, TakesAll
<1>4. p \in 1 .. k /\ p \in 1 .. Len(Pending) + 1 /\ Pending[1] = "." /\ 1 \in 1 .. Len(Pending)
  BY <1>2
<1>5. Takes(isXemu, Pending, 1, Dot, p)
  BY <1>4 DEF Takes, PromptAt
<1>. HIDE DEF k, p
<1>6. /\ k \in 1 .. Len(Pending) + 1
      /\ Behind(isXemu', Pending')[1] = Behind(isXemu, Pending)[k]
  BY <1>3, RestIs
<1>. DEFINE r == Behind(isXemu, Pending)[p]
<1>7. Behind(isXemu, Pending)[1] = Cat(One(Dot), r) /\ r \in Seq(Values) /\ Dot \in Values
  BY <1>1, <1>4, <1>5, BehindIs, ValuesAre
<1>8. Behind(isXemu, Pending)[k] \in Thrown(r)
  BY <1>1, <1>4, <1>6, CutAnywhere
<1>. HIDE DEF r
<1>9. Behind(isXemu', Pending')[1] \in After(isXemu, Dot, r)
  <2>1. After(isXemu, Dot, r) = Thrown(r)
    BY NotDot DEF After
  <2>. QED BY <1>6, <1>8, <2>1
<1>. QED BY <1>7, <1>9, DeliverIs

LEMMA DeliverXemuPrompt ==
  ASSUME ReaderInv, ReturnPrompt, isXemu
  PROVE  Channel!Next
<1>. DEFINE k == 4  d == 1  c == "."
<1>1. /\ TypeOK /\ isXemu \in BOOLEAN /\ Pending \in Seq(Symbols) /\ Fine(isXemu, Pending)
      /\ Regular(isXemu, Pending)
  BY AllRegular
<1>2. UNCHANGED <<isXemu, stream, messages>> /\ line' = Dot /\ HasEol /\ IsPrompt /\ buffer' = From(buffer, k)
  BY DEF ReturnPrompt, From
<1>3. 3 <= Len(buffer) /\ buffer[1] = "." /\ buffer[2] = CR /\ buffer[3] = LF
  BY <1>1, <1>2, PromptIn
<1>4. /\ Len(buffer) \in Nat /\ Len(Pending) \in Nat /\ Len(buffer) <= Len(Pending)
      /\ \A i \in 1 .. Len(buffer) : Pending[i] = buffer[i]
  BY <1>1, PendingBegins
<1>5. /\ d \in 1 .. Len(Pending) /\ d + 2 \in 1 .. Len(Pending) /\ d + 3 = k /\ k \in 1 .. Len(buffer) + 1
      /\ Pending[d] = c /\ Pending[d + 1] = CR /\ Pending[d + 2] = LF
  BY <1>3, <1>4
<1>6. c \in Symbols \ {CR, LF} /\ Parsed(<<c, CR>>) = Dot
  BY SymbolsAre, ParsedMarks
<1>. HIDE DEF k, c
<1>7. Takes(isXemu, Pending, d, Dot, k)
  <2>. HIDE DEF d
  <2>1. Takes(isXemu, Pending, d, Parsed(<<c, CR>>), d + 3)
    BY <1>1, <1>5, <1>6, TakesFinal
  <2>. QED BY <1>5, <1>6, <2>1
<1>8. /\ k \in 1 .. Len(Pending) + 1
      /\ Behind(isXemu', Pending')[1] = Behind(isXemu, Pending)[k]
  BY <1>2, <1>5, StepPrompt, RestIs
<1>9. Dot \in Values
  BY ValuesAre
<1>. QED BY <1>2, <1>7, <1>8, <1>9, DeliverTaken

\* Where the end of the mark is that was not there in time.
LEMMA MarkEnd ==
  ASSUME ReaderInv, ~HasEol, IsAtMark, isXemu \/ Head(buffer) # "."
  PROVE  \E n \in {2, 3} : /\ n \in 1 .. Len(Pending) /\ Pending[n] = LF
                           /\ n = 3 => Pending[2] = CR
                           /\ Len(buffer) + 1 \in 2 .. n
<1>. DEFINE P == Pending  m == Len(buffer)
<1>1. TypeOK /\ P \in Seq(Symbols) /\ Fine(isXemu, P)
  BY AllRegular
<1>2. /\ m \in Nat /\ Len(P) \in Nat /\ m <= Len(P) /\ \A i \in 1 .. m : P[i] = buffer[i]
      /\ m >= 1 /\ Head(buffer) = buffer[1] /\ buffer[1] \in {".", "!"}
  BY <1>1, PendingBegins DEF IsAtMark
<1>3. \A i \in 1 .. m : P[i] # LF
  BY <1>2 DEF HasEol, Contains
<1>4. P[1] = buffer[1] /\ 1 \in 1 .. Len(P)
  BY <1>2
<1>5. SUFFICES \E n \in {2, 3} : n \in 1 .. Len(P) /\ P[n] = LF /\ (n = 3 => P[2] = CR)
  <2>1. ASSUME NEW n \in {2, 3}, n \in 1 .. Len(P), P[n] = LF
        PROVE  m + 1 \in 2 .. n
    <3>. HIDE DEF m, P
    <3>1. ~(n \in 1 .. m)
      BY <1>3, <2>1
    <3>. QED BY <1>2, <2>1, <3>1
  <2>. QED BY <2>1
<1>. HIDE DEF P, m
<1>6. CASE isXemu
  <2>1. LineAt(P, 1)
    BY <1>1, <1>4, <1>6 DEF Fine, Whole
  <2>2. PICK x \in Texts : /\ 1 + Len(x) \in 1 .. Len(P) /\ P[1 + Len(x)] = LF
                           /\ \A j \in 1 .. Len(x) : P[1 + j - 1] = x[j]
    BY <2>1 DEF LineAt
  <2>3. /\ Len(x) \in Nat
        /\ Len(x) >= 1 /\ x[1] \in {".", "!"} => Len(x) = 1 \/ (Len(x) = 2 /\ x[2] = CR)
    BY TextsFacts
  <2>4. \A j \in 1 .. Len(x) : P[j] = x[j]
    BY <2>2, <2>3
  <2>5. Len(x) # 0
    <3>1. P[1] # LF
      BY <1>2, <1>3
    <3>. QED BY <2>2, <3>1
  <2>6. Len(x) = 1 \/ (Len(x) = 2 /\ x[2] = CR)
    BY <1>2, <1>4, <2>3, <2>4, <2>5
  <2>7. CASE Len(x) = 1
    BY <2>2, <2>7
  <2>8. CASE Len(x) = 2 /\ x[2] = CR
    <3>1. P[2] = CR /\ P[3] = LF /\ 3 \in 1 .. Len(P)
      BY <2>2, <2>4, <2>8
    <3>. QED BY <3>1
  <2>. QED BY <2>6, <2>7, <2>8
<1>7. CASE ~isXemu
  <2>1. P[1] = "!" /\ Spelled(P)
    BY <1>1, <1>2, <1>4, <1>7 DEF Fine
  <2>. DEFINE i == 1
  <2>2. i \in 1 .. Len(P) /\ P[i] \in Finals /\ i + 1 = 2 /\ i + 2 = 3
    BY <1>4, <2>1 DEF Finals
  <2>. HIDE DEF i
  <2>3. i + 2 \in 1 .. Len(P) /\ P[i + 1] = CR /\ P[i + 2] = LF
    BY <1>1, <2>1, <2>2, LineEnds
  <2>4. 3 \in 1 .. Len(P) /\ P[2] = CR /\ P[3] = LF
    BY <2>2, <2>3
  <2>. QED BY <2>4
<1>. QED BY <1>6, <1>7

LEMMA DeliverMark ==
  ASSUME ReaderInv, ReturnMark, isXemu \/ Head(buffer) # "."
  PROVE  Channel!Next
<1>. DEFINE c == Head(buffer)  q == Len(buffer) + 1
<1>1. /\ TypeOK /\ isXemu \in BOOLEAN /\ Pending \in Seq(Symbols) /\ Fine(isXemu, Pending)
      /\ Regular(isXemu, Pending)
  BY AllRegular
<1>2. /\ UNCHANGED <<isXemu, stream, messages>> /\ line' = Mark(c) /\ ~HasEol /\ IsAtMark /\ buffer' = <<>>
      /\ c \in {".", "!"}
  BY DEF ReturnMark, IsAtMark, Mark
<1>3. PICK n \in {2, 3} : /\ n \in 1 .. Len(Pending) /\ Pending[n] = LF
                          /\ n = 3 => Pending[2] = CR
                          /\ q \in 2 .. n
  BY <1>2, MarkEnd
<1>4. q \in 1 .. Len(buffer) + 1 /\ buffer' = From(buffer, q)
  BY <1>1, <1>2, TakesAll
<1>5. Pending[1] = c
  <2>1. /\ Len(buffer) \in Nat /\ \A i \in 1 .. Len(buffer) : Pending[i] = buffer[i]
        /\ Len(buffer) >= 1 /\ Head(buffer) = buffer[1]
    BY <1>1, <1>2, PendingBegins DEF IsAtMark
  <2>. QED BY <2>1
<1>6. isXemu \/ c # "."
  OBVIOUS
<1>. HIDE DEF c, q
<1>. DEFINE r == Behind(isXemu, Pending)[n + 1]  l == Mark(c)
<1>7. /\ Behind(isXemu, Pending)[1] = Cat(One(l), r)
      /\ Behind(isXemu, Pending)[q] = Cat(One(Blank), r)
      /\ r \in Seq(Values)
  BY <1>1, <1>2, <1>3, <1>5, <1>6, MarkRest
<1>8. Behind(isXemu', Pending')[1] = Behind(isXemu, Pending)[q]
  BY <1>2, <1>4, StepMark, RestIs
<1>9. l \in Values /\ (l = Dot => isXemu) /\ (l = Dot \/ l = Bang)
  <2>1. Dot # Bang
    BY NotDot
  <2>2. Bang \in Values /\ Dot \in Values
    BY DEF Values, LineSet
  <2>. QED BY <1>6, <2>1, <2>2 DEF Mark
<1>. HIDE DEF r, l
<1>10. Cat(One(Blank), r) \in After(isXemu, l, r)
  BY <1>9 DEF After
<1>11. line' = l /\ isXemu' = isXemu
  BY <1>2 DEF l
<1>. QED BY <1>7, <1>8, <1>9, <1>10, <1>11, DeliverIs

LEMMA StepChannel == ReaderInv /\ [Next]_vars => [Channel!Next]_<<isXemu, Unread(buffer \o stream), line>>
<1>. SUFFICES ASSUME ReaderInv, [Next]_vars
              PROVE  Channel!Next \/ UNCHANGED <<isXemu, Unread(buffer \o stream), line>>
  OBVIOUS
<1>1. ASSUME Pending' = Pending, isXemu' = isXemu, line' = line
      PROVE  UNCHANGED <<isXemu, Unread(buffer \o stream), line>>
  BY <1>1, RxIs
<1>2. CASE UNCHANGED vars
  <2>1. Pending' = Pending /\ isXemu' = isXemu /\ line' = line
    BY <1>2 DEF Pending, vars
  <2>. QED BY <1>1, <2>1
<1>3. CASE Send
  BY <1>3, ArriveIs
<1>4. CASE ReadChunk
  <2>1. Pending' = Pending /\ isXemu' = isXemu /\ line' = line
    <3>1. TypeOK
      BY DEF ReaderInv
    <3>2. Pending' = Pending
      BY <1>4, <3>1, ReadEffect
    <3>. QED BY <1>4, <3>2 DEF ReadChunk
  <2>. QED BY <1>1, <2>1
<1>5. CASE ReturnLine
  BY <1>5, DeliverLine
<1>6. ASSUME ReaderInv', ~isXemu, buffer # <<>>, Head(buffer) = ".", line' = Dot,
             buffer' = <<>>, UNCHANGED <<isXemu, stream, messages>>
      PROVE  Channel!Next
  BY <1>6, DeliverPrompt
<1>7. CASE ReturnPrompt
  <2>1. CASE isXemu
    BY <1>7, <2>1, DeliverXemuPrompt
  <2>2. CASE ~isXemu
    <3>1. buffer # <<>>
      BY <1>7 DEF ReturnPrompt, HasEol, Contains
    <3>2. Head(buffer) = "." /\ line' = Dot /\ buffer' = <<>> /\ UNCHANGED <<isXemu, stream, messages>>
      BY <1>7, <2>2 DEF ReturnPrompt, IsPrompt
    <3>. QED BY <1>6, <1>7, <2>2, <3>1, <3>2, StepPrompt
  <2>. QED BY <2>1, <2>2
<1>8. CASE ReturnMark
  <2>1. CASE isXemu \/ Head(buffer) # "."
    BY <1>8, <2>1, DeliverMark
  <2>2. CASE ~isXemu /\ Head(buffer) = "."
    <3>1. buffer # <<>> /\ line' = Dot /\ buffer' = <<>> /\ UNCHANGED <<isXemu, stream, messages>>
      BY <1>8, <2>2 DEF ReturnMark, IsAtMark
    <3>. QED BY <1>6, <1>8, <2>2, <3>1, StepMark
  <2>. QED BY <2>1, <2>2
<1>9. CASE Done
  BY <1>2, <1>9 DEF Done
<1>. QED BY <1>2, <1>3, <1>4, <1>5, <1>7, <1>8, <1>9 DEF Next, ReadLine

LEMMA InitChannel == Init => Channel!Init
<1>. SUFFICES ASSUME Init
              PROVE  Channel!Init
  OBVIOUS
<1>1. ReaderInv /\ isXemu \in BOOLEAN /\ line = NoLine
  BY InitFine DEF Init
<1>2. Pending = <<>>
  BY DEF Init, Pending
<1>3. Regular(isXemu, Pending) /\ Pending \in Seq(Symbols)
  BY <1>1, AllRegular
<1>4. Behind(isXemu, Pending)[Len(Pending) + 1] = <<>>
  BY <1>3, BehindIs
<1>5. Unread(buffer \o stream) = <<>>
  BY <1>2, <1>4, RxIs
<1>. QED BY <1>1, <1>5 DEF Channel!Init

(***************************************************************************)
(* read_line() implements the channel of lines: for any number of messages *)
(* and whatever the chunks in which they arrive, each line that comes out  *)
(* is the next of those that were sent, and none is lost, torn or made up  *)
(* but by the end of a prompt or of a `!', and then as LineChannel allows. *)
(***************************************************************************)
THEOREM ReadsTheChannel == Spec => ReadsLines
<1>1. Init => Channel!Init
  BY InitChannel
<1>2. ReaderInv /\ [Next]_vars => [Channel!Next]_<<isXemu, Unread(buffer \o stream), line>>
  BY StepChannel
<1>. QED BY <1>1, <1>2, ReaderInvariant, PTL DEF Spec, ReadsLines, Channel!Spec
================================================================================
