------------------------- MODULE SyncConnection_proofs -------------------------
(***************************************************************************)
(* What is proved of the constructor, for any number of attempts and every *)
(* state in which the target may be: late answers are not taken for that   *)
(* of the current attempt, nothing is outstanding when the main loop       *)
(* starts, and no answer without lines is looked into.                     *)
(***************************************************************************)
EXTENDS SyncConnection, SequenceTheorems, TLAPS

(***************************************************************************)
(* What the target has written and the constructor has not read.           *)
(***************************************************************************)
Rest   == conn \o air
Unread == buffer \o Rest

\* An answer, or the reply to t0, as far as it was read, and all that is behind it.
Seen == lines \o Unread

Places == {"open", "ask", "echo", "lines", "flush", "reset", "bang", "reboot", "resume", "t0",
           "running", "failed", "undefined"}

Probes == {[kind |-> "probe", attempt |-> n] : n \in 0 .. Retries}
Lines  == {Blank, Bang, Dot, Header, Regs("hit"), Loc, Ident, At, Junk, Flags, Echo("t0")}
            \cup Probes

TypeOK ==
  /\ {isXemu, resetOnRun, blocking, alive, prompt, firstTry, again} \subseteq BOOLEAN
  /\ loading \in {"none", "few", "many"} /\ stray \in {"none", "set", "hit"}
  /\ {air, conn, buffer, lines} \subseteq Seq(Lines)
  /\ pc \in Places
  /\ retries \in 0 .. Retries
  /\ pc \in {"open", "reset", "bang", "reboot"} => ~isXemu
  /\ pc = "resume" => lines = <<>>

-----------------------------------------------------------------------------
(***************************************************************************)
(* A probe is answered only by a target that waits for commands, and it is *)
(* one from then on.                                                       *)
(***************************************************************************)
NoProbe(s) == \A i \in DOMAIN s : s[i].kind # "probe"

ProbesAreAnswered ==
  ~NoProbe(Unread) \/ pc \in {"lines", "reset", "resume", "t0"} => alive /\ loading = "none"

(***************************************************************************)
(* Hardware: a probe that has not been read bears the number of an attempt *)
(* already made, and that of this attempt has its whole answer behind it.  *)
(***************************************************************************)
XemuProbe == [kind |-> "probe", attempt |-> 0]

NumberedFrom(n, s) == \A i \in DOMAIN s : s[i].kind = "probe" => s[i].attempt >= n

EndsWith(l, answer, s) == \A i \in DOMAIN s : s[i] = l => From(s, i) = answer

AttemptsAreNumbered ==
  ~isXemu =>
    /\ pc \in {"open", "ask", "echo", "flush"} => NumberedFrom(retries, Unread)
    /\ pc = "echo" => EndsWith(Probe(retries), Answer(Probe(retries)), Unread)
    /\ pc \in {"bang", "reboot"} => NoProbe(Unread)

(***************************************************************************)
(* A prompt Xemu: all answers have come, and are flushed before the next   *)
(* attempt.                                                                *)
(***************************************************************************)
AttemptsAreFlushed ==
  isXemu /\ prompt =>
    /\ pc = "ask" => NoProbe(buffer) /\ Rest = <<>>
    /\ pc = "flush" => NoProbe(buffer) \/ Rest # <<>>
    /\ pc = "echo" => \/ NoProbe(buffer) /\ (NoProbe(Rest) \/ Rest = Answer(XemuProbe))
                      \/ Unread = Answer(XemuProbe)

\* There is no late answer, or none that could be taken for another.
Certain == ~isXemu \/ prompt

Body == <<Ident, Junk>> \o Prompt

NothingElseComes ==
  Certain =>
    /\ pc = "lines" => Seen = Body
    /\ pc \in {"reset", "resume", "running"} => Unread = <<>>
    /\ pc = "t0" => Seen = Resume0

(***************************************************************************)
(* A late Xemu: answers come one after the other, each of them complete.   *)
(***************************************************************************)
InAnswer(s, j) ==
  \/ s[j] = XemuProbe /\ j + 1 \in DOMAIN s /\ s[j + 1] = Ident
  \/ s[j] = Ident /\ j + 1 \in DOMAIN s /\ s[j + 1] = Junk
  \/ s[j] = Junk /\ j + 1 \in DOMAIN s /\ s[j + 1] = Dot
  \/ s[j] = Dot /\ (j + 1 \in DOMAIN s => s[j + 1] = XemuProbe)

Answers(s) == \A j \in DOMAIN s : InAnswer(s, j)

AnswersFollow(s) == \A i \in DOMAIN s : s[i] = XemuProbe => Answers(From(s, i))

Late(s)  == s # <<>> /\ s[1] = Ident
Echoes   == {XemuProbe, Echo("t0")}
Opens(s) == \/ Len(s) >= 1 /\ s[1] \in Echoes
            \/ Len(s) >= 2 /\ s[1] = Blank /\ s[2] \in Echoes

AnswersAreWhole ==
  /\ pc = "lines" => Late(Seen)
  /\ pc = "t0" => Opens(Seen)
  /\ isXemu =>
       /\ pc \in {"ask", "echo", "flush"} => AnswersFollow(Unread)
       /\ pc = "lines" => Answers(Unread)
       /\ pc = "resume" => Unread \in {<<>>, <<Blank>>} \/ Opens(Unread)

Attempts == /\ ProbesAreAnswered
            /\ AttemptsAreNumbered
            /\ AttemptsAreFlushed
            /\ NothingElseComes
            /\ AnswersAreWhole

SyncInv == TypeOK /\ (stray # "hit" => Attempts) /\ AnswersHaveLines

-----------------------------------------------------------------------------
(***************************************************************************)
(* Concatenations and what is left of them.                                *)
(***************************************************************************)
Cat(s, t) == s \o t

LEMMA Cats ==
  ASSUME NEW S, NEW s \in Seq(S), NEW t \in Seq(S)
  PROVE  /\ Cat(s, t) \in Seq(S) /\ Len(Cat(s, t)) = Len(s) + Len(t)
         /\ \A i \in 1 .. Len(s) : Cat(s, t)[i] = s[i]
         /\ \A i \in 1 .. Len(t) : Cat(s, t)[Len(s) + i] = t[i]
<1>1. Len(s) \in Nat /\ Len(t) \in Nat
  BY LenProperties
<1>. QED BY <1>1, ConcatProperties DEF Cat

LEMMA CatEmpty ==
  ASSUME NEW S, NEW s \in Seq(S), NEW t \in Seq(S)
  PROVE  /\ Cat(s, <<>>) = s /\ Cat(<<>>, s) = s
         /\ Cat(s, t) = <<>> <=> s = <<>> /\ t = <<>>
BY ConcatEmptySeq, ConcatEqualIffEmpty DEF Cat

LEMMA CatTail ==
  ASSUME NEW S, NEW s \in Seq(S), NEW t \in Seq(S), s # <<>>
  PROVE  Head(Cat(s, t)) = Head(s) /\ Tail(Cat(s, t)) = Cat(Tail(s), t) /\ Cat(s, t) # <<>>
<1>. DEFINE r == Tail(s)  c == Cat(s, t)  d == Cat(r, t)  u == Tail(c)
<1>1. /\ Len(s) \in Nat \ {0} /\ Len(t) \in Nat
      /\ r \in Seq(S) /\ Len(r) = Len(s) - 1
      /\ \A i \in 1 .. Len(r) : r[i] = s[i + 1]
      /\ Head(s) = s[1]
  BY LenProperties, EmptySeq, HeadTailProperties
<1>. HIDE DEF r
<1>2. /\ c \in Seq(S) /\ Len(c) = Len(s) + Len(t) /\ c # <<>> /\ c[1] = s[1]
      /\ \A i \in 1 .. Len(s) : c[i] = s[i]
      /\ \A i \in 1 .. Len(t) : c[Len(s) + i] = t[i]
  <2>1. c \in Seq(S) /\ Len(c) = Len(s) + Len(t) /\ \A i \in 1 .. Len(s) : c[i] = s[i]
    BY Cats
  <2>3. \A i \in 1 .. Len(t) : c[Len(s) + i] = t[i]
    BY Cats
  <2>2. c # <<>>
    BY CatEmpty
  <2>. QED BY <1>1, <2>1, <2>2, <2>3
<1>3. /\ d \in Seq(S) /\ Len(d) = Len(r) + Len(t)
      /\ \A i \in 1 .. Len(r) : d[i] = r[i]
      /\ \A i \in 1 .. Len(t) : d[Len(r) + i] = t[i]
  <2>1. r \in Seq(S)
    BY <1>1
  <2>2. d \in Seq(S) /\ Len(d) = Len(r) + Len(t) /\ \A i \in 1 .. Len(r) : d[i] = r[i]
    BY <2>1, Cats
  <2>3. \A i \in 1 .. Len(t) : d[Len(r) + i] = t[i]
    BY <2>1, Cats
  <2>. QED BY <2>2, <2>3
<1>. HIDE DEF c, d
<1>4. /\ u \in Seq(S) /\ Len(u) = Len(c) - 1 /\ Head(c) = c[1]
      /\ \A i \in 1 .. Len(u) : u[i] = c[i + 1]
  BY <1>2, HeadTailProperties
<1>. HIDE DEF u
<1>5. ASSUME NEW i \in 1 .. Len(u)
      PROVE  u[i] = d[i]
  <2>1. CASE i \in 1 .. Len(r)
    BY <2>1, <1>1, <1>2, <1>3, <1>4
  <2>2. CASE i \notin 1 .. Len(r)
    <3>. DEFINE j == i - Len(r)
    <3>1. j \in 1 .. Len(t) /\ i = Len(r) + j /\ i + 1 = Len(s) + j
      BY <2>2, <1>1, <1>2, <1>4
    <3>. HIDE DEF j
    <3>2. d[Len(r) + j] = t[j] /\ c[Len(s) + j] = t[j]
      BY <3>1, <1>2, <1>3
    <3>. QED BY <3>1, <3>2, <1>4
  <2>. QED BY <2>1, <2>2
<1>6. u = d
  BY <1>1, <1>2, <1>3, <1>4, <1>5, SeqEqual
<1>. QED BY <1>1, <1>2, <1>4, <1>6 DEF r, c, d, u

LEMMA Froms ==
  ASSUME NEW S, NEW s \in Seq(S), NEW k \in 1 .. Len(s) + 1
  PROVE  /\ From(s, k) \in Seq(S) /\ Len(From(s, k)) = Len(s) - k + 1
         /\ \A i \in 1 .. Len(s) - k + 1 : From(s, k)[i] = s[k + i - 1]
<1>1. Len(s) \in Nat /\ \A i \in 1 .. Len(s) : s[i] \in S
  BY LenProperties, ElementOfSeq
<1>2. \A i \in k .. Len(s) : s[i] \in S
  BY <1>1
<1>3. /\ From(s, k) \in Seq(S)
      /\ Len(From(s, k)) = IF k <= Len(s) THEN Len(s) - k + 1 ELSE 0
      /\ \A i \in 1 .. Len(s) - k + 1 : From(s, k)[i] = s[k + i - 1]
  BY <1>1, <1>2, SubSeqProperties DEF From
<1>. QED BY <1>1, <1>3

LEMMA FromFirst ==
  ASSUME NEW S, NEW s \in Seq(S)
  PROVE  From(s, 1) = s /\ (s # <<>> => Tail(s) = From(s, 2) /\ Head(s) = s[1] /\ Len(s) >= 1)
<1>1. Len(s) \in Nat /\ (s # <<>> => Len(s) >= 1)
  BY EmptySeq, LenProperties
<1>. QED BY <1>1, SubSeqFull, TailIsSubSeq DEF From

LEMMA FromFrom ==
  ASSUME NEW S, NEW s \in Seq(S), NEW k \in 1 .. Len(s) + 1, NEW i \in 1 .. Len(s) - k + 2
  PROVE  From(From(s, k), i) = From(s, k + i - 1)
<1>. DEFINE t == From(s, k)  u == From(t, i)  m == k + i - 1  v == From(s, m)
<1>1. /\ Len(s) \in Nat /\ t \in Seq(S) /\ Len(t) = Len(s) - k + 1
      /\ \A j \in 1 .. Len(s) - k + 1 : t[j] = s[k + j - 1]
  BY Froms, LenProperties
<1>. HIDE DEF t
<1>2. /\ u \in Seq(S) /\ Len(u) = Len(s) - k - i + 2
      /\ \A j \in 1 .. Len(s) - k - i + 2 : u[j] = t[i + j - 1]
  <2>1. i \in 1 .. Len(t) + 1 /\ t \in Seq(S)
    BY <1>1
  <2>2. /\ u \in Seq(S) /\ Len(u) = Len(t) - i + 1
        /\ \A j \in 1 .. Len(t) - i + 1 : u[j] = t[i + j - 1]
    BY <2>1, Froms
  <2>3. Len(t) - i + 1 = Len(s) - k - i + 2
    BY <1>1
  <2>. QED BY <2>2, <2>3
<1>3. m \in 1 .. Len(s) + 1 /\ m = k + i - 1
  BY <1>1
<1>. HIDE DEF m
<1>4. /\ v \in Seq(S) /\ Len(v) = Len(s) - m + 1
      /\ \A j \in 1 .. Len(s) - m + 1 : v[j] = s[m + j - 1]
  BY <1>1, <1>3, Froms
<1>. HIDE DEF u, v
<1>5. ASSUME NEW j \in 1 .. Len(u)
      PROVE  u[j] = v[j]
  <2>. DEFINE h == i + j - 1
  <2>1. h \in 1 .. Len(s) - k + 1 /\ k + h - 1 = m + j - 1
    BY <1>1, <1>2, <1>3
  <2>. HIDE DEF h
  <2>2. t[h] = s[k + h - 1]
    BY <1>1, <2>1
  <2>3. u[j] = t[h] /\ v[j] = s[m + j - 1]
    BY <1>1, <1>2, <1>3, <1>4 DEF h
  <2>. QED BY <2>1, <2>2, <2>3
<1>6. u = v
  BY <1>1, <1>2, <1>3, <1>4, <1>5, SeqEqual
<1>. QED BY <1>6 DEF u, v, t, m

LEMMA FromCat ==
  ASSUME NEW S, NEW s \in Seq(S), NEW t \in Seq(S), NEW k \in 1 .. Len(t) + 1
  PROVE  From(Cat(s, t), Len(s) + k) = From(t, k)
<1>. DEFINE c == Cat(s, t)  m == Len(s) + k  u == From(c, m)  v == From(t, k)
<1>1. /\ Len(s) \in Nat /\ Len(t) \in Nat /\ c \in Seq(S) /\ Len(c) = Len(s) + Len(t)
      /\ \A i \in 1 .. Len(t) : c[Len(s) + i] = t[i]
  BY Cats, LenProperties
<1>. HIDE DEF c
<1>2. m \in 1 .. Len(c) + 1 /\ m = Len(s) + k
  BY <1>1
<1>. HIDE DEF m
<1>3. /\ u \in Seq(S) /\ Len(u) = Len(c) - m + 1
      /\ \A j \in 1 .. Len(c) - m + 1 : u[j] = c[m + j - 1]
  <2>1. c \in Seq(S) /\ m \in 1 .. Len(c) + 1
    BY <1>1, <1>2
  <2>. QED BY <2>1, Froms
<1>4. /\ v \in Seq(S) /\ Len(v) = Len(t) - k + 1
      /\ \A j \in 1 .. Len(t) - k + 1 : v[j] = t[k + j - 1]
  BY <1>1, Froms
<1>. HIDE DEF u, v
<1>5. ASSUME NEW j \in 1 .. Len(u)
      PROVE  u[j] = v[j]
  <2>. DEFINE h == k + j - 1
  <2>1. h \in 1 .. Len(t) /\ Len(s) + h = m + j - 1
    BY <1>1, <1>2, <1>3
  <2>. HIDE DEF h
  <2>2. c[Len(s) + h] = t[h]
    BY <1>1, <2>1
  <2>3. u[j] = c[m + j - 1] /\ v[j] = t[h]
    BY <1>1, <1>2, <1>3, <1>4 DEF h
  <2>. QED BY <2>1, <2>2, <2>3
<1>6. u = v
  BY <1>1, <1>2, <1>3, <1>4, <1>5, SeqEqual
<1>. QED BY <1>6 DEF u, v, c, m

\* s begins with c, has a suffix of t behind it, and no probe in c.
KeepsProbes(s, t) ==
  \A i \in DOMAIN s : s[i].kind = "probe" =>
    \E j \in DOMAIN t : t[j] = s[i] /\ From(t, j) = From(s, i)

LEMMA KeepsBehind ==
  ASSUME NEW S, NEW t \in Seq(S), NEW k \in 1 .. Len(t) + 1, NEW c \in Seq(S), NoProbe(c)
  PROVE  KeepsProbes(Cat(c, From(t, k)), t) /\ Cat(c, From(t, k)) \in Seq(S)
<1>. DEFINE r == From(t, k)  s == Cat(c, r)
<1>1. /\ r \in Seq(S) /\ Len(r) = Len(t) - k + 1 /\ Len(t) \in Nat /\ Len(c) \in Nat
      /\ \A i \in 1 .. Len(t) - k + 1 : r[i] = t[k + i - 1]
  BY Froms, LenProperties
<1>2. \A i \in 1 .. Len(t) - k + 2 : From(r, i) = From(t, k + i - 1)
  BY FromFrom
<1>. HIDE DEF r
<1>3. s \in Seq(S) /\ Len(s) = Len(c) + Len(r) /\ \A i \in 1 .. Len(c) : s[i] = c[i]
  BY <1>1, Cats
<1>4. \A i \in 1 .. Len(r) : s[Len(c) + i] = r[i]
  <2>1. r \in Seq(S)
    BY <1>1
  <2>. QED BY <2>1, Cats
<1>5. \A i \in 1 .. Len(r) + 1 : From(s, Len(c) + i) = From(r, i)
  BY <1>1, FromCat
<1>. HIDE DEF s
<1>6. ASSUME NEW i \in DOMAIN s, s[i].kind = "probe"
      PROVE  \E j \in DOMAIN t : t[j] = s[i] /\ From(t, j) = From(s, i)
  <2>. DEFINE h == i - Len(c)  j == k + h - 1
  <2>1. i \in 1 .. Len(s) /\ DOMAIN t = 1 .. Len(t) /\ DOMAIN c = 1 .. Len(c)
    BY <1>3, LenProperties
  <2>2. i \notin 1 .. Len(c)
    BY <1>3, <1>6, <2>1 DEF NoProbe
  <2>3. h \in 1 .. Len(r) /\ i = Len(c) + h
    BY <1>1, <1>3, <2>1, <2>2
  <2>. HIDE DEF h
  <2>4. j \in DOMAIN t /\ j = k + h - 1
    BY <1>1, <2>1, <2>3
  <2>. HIDE DEF j
  <2>5. s[i] = t[j]
    BY <1>1, <1>4, <2>3, <2>4
  <2>6. From(s, i) = From(t, j)
    <3>1. From(s, Len(c) + h) = From(r, h)
      BY <1>1, <1>5, <2>3
    <3>2. From(r, h) = From(t, k + h - 1)
      BY <1>1, <1>2, <2>3
    <3>. QED BY <3>1, <3>2, <2>3, <2>4
  <2>. QED BY <2>4, <2>5, <2>6
<1>7. KeepsProbes(s, t)
  BY <1>6 DEF KeepsProbes
<1>. QED BY <1>3, <1>7 DEF s, r

LEMMA KeepsAll == ASSUME NEW S, NEW s \in Seq(S) PROVE KeepsProbes(s, s)
BY DEF KeepsProbes

LEMMA KeepsFrom ==
  ASSUME NEW S, NEW t \in Seq(S), NEW k \in 1 .. Len(t) + 1
  PROVE  KeepsProbes(From(t, k), t) /\ From(t, k) \in Seq(S)
<1>. DEFINE r == From(t, k)  c == <<>>
<1>1. r \in Seq(S) /\ c \in Seq(S)
  BY Froms, EmptySeq
<1>2. NoProbe(c)
  BY DEF NoProbe
<1>. HIDE DEF c
<1>3. KeepsProbes(Cat(c, From(t, k)), t)
  BY <1>1, <1>2, KeepsBehind
<1>4. Cat(c, r) = r
  <2>. HIDE DEF r
  <2>. QED BY <1>1, CatEmpty DEF c
<1>. QED BY <1>1, <1>3, <1>4

LEMMA KeepsWhatHolds ==
  ASSUME NEW s, NEW t, KeepsProbes(s, t)
  PROVE  /\ NoProbe(t) => NoProbe(s)
         /\ \A n : NumberedFrom(n, t) => NumberedFrom(n, s)
         /\ \A l, a : l.kind = "probe" /\ EndsWith(l, a, t) => EndsWith(l, a, s)
         /\ AnswersFollow(t) => AnswersFollow(s)
<1>1. NoProbe(t) => NoProbe(s)
  BY DEF KeepsProbes, NoProbe
<1>2. \A n : NumberedFrom(n, t) => NumberedFrom(n, s)
  BY DEF KeepsProbes, NumberedFrom
<1>3. \A l, a : l.kind = "probe" /\ EndsWith(l, a, t) => EndsWith(l, a, s)
  BY DEF KeepsProbes, EndsWith
<1>4. AnswersFollow(t) => AnswersFollow(s)
  BY DEF KeepsProbes, AnswersFollow, XemuProbe
<1>. QED BY <1>1, <1>2, <1>3, <1>4

-----------------------------------------------------------------------------
(***************************************************************************)
(* What the target writes.                                                 *)
(***************************************************************************)
LEMMA LineFacts ==
  /\ {Blank, Bang, Dot, Header, Regs("hit"), Loc, Ident, At, Junk, Flags, Echo("t0")} \subseteq Lines
  /\ Probes \subseteq Lines
  /\ \A l \in {Blank, Bang, Dot, Header, Regs("hit"), Loc, Ident, At, Junk, Flags, Echo("t0")} :
       l.kind # "probe"
  /\ Dot \notin {Blank, Ident, Junk, Echo("t0")} /\ Ident \notin {Blank, Junk, Echo("t0")}
  /\ Blank \notin {Junk, Echo("t0")} /\ Header # Echo("t0") /\ Bang # Echo("t0")
<1>1. /\ Blank.kind = "blank" /\ Bang.kind = "bang" /\ Dot.kind = "dot" /\ Header.kind = "header"
      /\ Regs("hit").kind = "regs" /\ Loc.kind = "loc" /\ Ident.kind = "ident" /\ At.kind = "at"
      /\ Junk.kind = "junk" /\ Flags.kind = "flags" /\ Echo("t0").kind = "echo"
  BY DEF Line, Blank, Bang, Dot, Header, Regs, Loc, Ident, At, Junk, Flags, Echo
<1>2. /\ Dot \notin {Blank, Ident, Junk, Echo("t0")} /\ Ident \notin {Blank, Junk, Echo("t0")}
      /\ Blank \notin {Junk, Echo("t0")} /\ Header # Echo("t0") /\ Bang # Echo("t0")
  BY <1>1
<1>3. \A l \in {Blank, Bang, Dot, Header, Regs("hit"), Loc, Ident, At, Junk, Flags, Echo("t0")} :
        l.kind # "probe"
  BY <1>1
<1>. QED BY <1>2, <1>3 DEF Lines

LEMMA ProbeFacts ==
  ASSUME NEW n \in 0 .. Retries, isXemu \in BOOLEAN
  PROVE  /\ Probe(n) \in Lines /\ Probe(n).kind = "probe"
         /\ Probe(n).attempt = IF isXemu THEN 0 ELSE n
         /\ isXemu => Probe(n) = XemuProbe
         /\ XemuProbe \in Lines /\ XemuProbe.kind = "probe"
<1>1. Probe(n) \in Probes /\ XemuProbe \in Probes
  BY RetriesAssumption DEF Probe, Probes, XemuProbe
<1>. QED BY <1>1, LineFacts DEF Probe, XemuProbe

LEMMA PromptFacts ==
  ASSUME isXemu \in BOOLEAN
  PROVE  /\ Prompt \in Seq(Lines) /\ Prompt # <<>> /\ NoProbe(Prompt)
         /\ Len(Prompt) = IF isXemu THEN 1 ELSE 2
         /\ Prompt[Len(Prompt)] = Dot
         /\ ~isXemu => Prompt[1] = Blank
<1>. DEFINE x == <<Dot>>  h == <<Blank, Dot>>
<1>1. x \in Seq(Lines) /\ h \in Seq(Lines)
  BY LineFacts
<1>2. x # <<>> /\ h # <<>> /\ NoProbe(x) /\ NoProbe(h)
  BY LineFacts DEF NoProbe
<1>3. Prompt = IF isXemu THEN x ELSE h
  BY DEF Prompt
<1>. QED BY <1>1, <1>2, <1>3

LEMMA NoProbes ==
  ASSUME NEW S, NEW s \in Seq(S), NEW t \in Seq(S)
  PROVE  Cat(s, t) \in Seq(S) /\ (NoProbe(Cat(s, t)) <=> NoProbe(s) /\ NoProbe(t))
<1>. DEFINE c == Cat(s, t)
<1>1. c \in Seq(S) /\ Len(c) = Len(s) + Len(t) /\ \A i \in 1 .. Len(s) : c[i] = s[i]
  BY Cats
<1>2. \A i \in 1 .. Len(t) : c[Len(s) + i] = t[i]
  BY Cats
<1>3. /\ Len(s) \in Nat /\ Len(t) \in Nat /\ DOMAIN s = 1 .. Len(s) /\ DOMAIN t = 1 .. Len(t)
      /\ DOMAIN c = 1 .. Len(c)
  BY <1>1, LenProperties
<1>. HIDE DEF c
<1>4. ASSUME NoProbe(c)
      PROVE  NoProbe(s) /\ NoProbe(t)
  <2>1. \A i \in 1 .. Len(t) : Len(s) + i \in DOMAIN c
    BY <1>1, <1>3
  <2>2. NoProbe(t)
    BY <1>2, <1>3, <1>4, <2>1 DEF NoProbe
  <2>3. NoProbe(s)
    BY <1>1, <1>3, <1>4 DEF NoProbe
  <2>. QED BY <2>2, <2>3
<1>5. ASSUME NoProbe(s), NoProbe(t), NEW i \in DOMAIN c
      PROVE  c[i].kind # "probe"
  <2>1. CASE i \in 1 .. Len(s)
    BY <2>1, <1>1, <1>3, <1>5 DEF NoProbe
  <2>2. CASE i \notin 1 .. Len(s)
    <3>. DEFINE j == i - Len(s)
    <3>1. j \in 1 .. Len(t) /\ i = Len(s) + j
      BY <2>2, <1>1, <1>3
    <3>. HIDE DEF j
    <3>. QED BY <3>1, <1>2, <1>3, <1>5 DEF NoProbe
  <2>. QED BY <2>1, <2>2
<1>. QED BY <1>1, <1>4, <1>5 DEF c, NoProbe

Join2(b, c, p)    == <<b, c>> \o p
Join3(a, b, c, p) == <<a, b, c>> \o p

LEMMA JoinedTuple ==
  ASSUME NEW S, NEW a \in S, NEW b \in S, NEW c \in S, NEW p \in Seq(S), p # <<>>
  PROVE  /\ Join3(a, b, c, p) \in Seq(S) /\ Len(Join3(a, b, c, p)) = 3 + Len(p)
         /\ Join3(a, b, c, p)[1] = a /\ Join3(a, b, c, p)[2] = b /\ Join3(a, b, c, p)[3] = c
         /\ \A i \in 1 .. Len(p) : Join3(a, b, c, p)[3 + i] = p[i]
         /\ Tail(Join3(a, b, c, p)) = Join2(b, c, p)
<1>. DEFINE x == <<a, b, c>>  y == <<b, c>>
<1>1. x \in Seq(S) /\ y \in Seq(S) /\ Len(x) = 3 /\ x # <<>> /\ Tail(x) = y
      /\ x[1] = a /\ x[2] = b /\ x[3] = c
  OBVIOUS
<1>. HIDE DEF x, y
<1>. DEFINE c0 == Cat(x, p)
<1>t. x \in Seq(S)
  BY <1>1
<1>2. c0 \in Seq(S) /\ Len(c0) = Len(x) + Len(p) /\ \A i \in 1 .. Len(x) : c0[i] = x[i]
  BY <1>t, Cats
<1>3. \A i \in 1 .. Len(p) : c0[Len(x) + i] = p[i]
  BY <1>t, Cats
<1>. HIDE DEF c0
<1>4. Tail(Cat(x, p)) = Cat(y, p)
  BY <1>1, CatTail
<1>5. x \o p = c0 /\ y \o p = Cat(y, p) /\ c0 = Cat(x, p)
  BY Zenon DEF Cat, c0
<1>6. c0[1] = a /\ c0[2] = b /\ c0[3] = c /\ Len(x) = 3
  BY <1>1, <1>2
<1>7. /\ c0 \in Seq(S) /\ Len(c0) = 3 + Len(p)
      /\ c0[1] = a /\ c0[2] = b /\ c0[3] = c
      /\ \A i \in 1 .. Len(p) : c0[3 + i] = p[i]
      /\ Tail(c0) = y \o p
  BY <1>2, <1>3, <1>4, <1>5, <1>6
<1>8. Join3(a, b, c, p) = c0
  BY <1>5, Zenon DEF x, Join3
<1>9. Join2(b, c, p) = y \o p
  BY Zenon DEF y, Join2
<1>. QED BY <1>7, <1>8, <1>9

LEMMA AnswerFacts ==
  ASSUME NEW l \in Lines, isXemu \in BOOLEAN
  PROVE  /\ Answer(l) \in Seq(Lines) /\ Len(Answer(l)) = 3 + Len(Prompt)
         /\ Answer(l)[1] = l /\ Answer(l)[2] = Ident /\ Answer(l)[3] = Junk
         /\ \A i \in 4 .. Len(Answer(l)) : Answer(l)[i] \in {Blank, Dot}
         /\ Answer(l)[4] = IF isXemu THEN Dot ELSE Blank
         /\ Answer(l)[Len(Answer(l))] = Dot
         /\ Answer(l) # <<>> /\ Tail(Answer(l)) = Body
<1>. DEFINE p == Prompt  a == Join3(l, Ident, Junk, p)
<1>1. /\ p \in Seq(Lines) /\ p # <<>> /\ Len(p) = IF isXemu THEN 1 ELSE 2
      /\ p[Len(p)] = Dot /\ (~isXemu => p[1] = Blank)
  BY PromptFacts
<1>2. Ident \in Lines /\ Junk \in Lines
  BY LineFacts
<1>3. Answer(l) = a /\ Body = Join2(Ident, Junk, p)
  BY Zenon DEF Answer, Body, Join2, Join3
<1>. HIDE DEF p
<1>t. p \in Seq(Lines) /\ p # <<>>
  BY <1>1
<1>4. /\ a \in Seq(Lines) /\ Len(a) = 3 + Len(p) /\ a[1] = l /\ a[2] = Ident /\ a[3] = Junk
      /\ Tail(a) = Join2(Ident, Junk, p)
  BY <1>t, <1>2, JoinedTuple
<1>b. \A i \in 1 .. Len(p) : a[3 + i] = p[i]
  BY <1>t, <1>2, JoinedTuple
<1>. HIDE DEF a
<1>5. Len(a) = IF isXemu THEN 4 ELSE 5
  BY <1>1, <1>4
<1>6. isXemu => a[4] = Dot
  BY <1>1, <1>b
<1>7. ~isXemu => a[4] = Blank /\ a[5] = Dot
  BY <1>1, <1>b
<1>8. (\A i \in 4 .. Len(a) : a[i] \in {Blank, Dot}) /\ a[Len(a)] = Dot
  BY <1>5, <1>6, <1>7
<1>9. a # <<>>
  BY <1>4, <1>5
<1>. QED BY <1>3, <1>4, <1>6, <1>7, <1>8, <1>9 DEF p

\* Body is what follows a probe; the first dot in it is its last line.
LEMMA BodyFacts ==
  ASSUME isXemu \in BOOLEAN
  PROVE  /\ Body \in Seq(Lines) /\ Len(Body) = 2 + Len(Prompt) /\ Body[1] = Ident
         /\ NoProbe(Body) /\ \A i \in DOMAIN Body : Body[i] = Dot => i = Len(Body)
<1>. DEFINE a == Answer(Junk)
<1>1. /\ a \in Seq(Lines) /\ a # <<>> /\ Len(a) = 3 + Len(Prompt)
      /\ a[2] = Ident /\ a[3] = Junk
      /\ \A i \in 4 .. Len(a) : a[i] \in {Blank, Dot}
      /\ a[4] = IF isXemu THEN Dot ELSE Blank
      /\ Tail(a) = Body
  BY LineFacts, AnswerFacts
<1>2. Len(Prompt) = IF isXemu THEN 1 ELSE 2
  BY PromptFacts
<1>. HIDE DEF a
<1>3. /\ Body \in Seq(Lines) /\ Len(Body) = Len(a) - 1
      /\ \A i \in 1 .. Len(Body) : Body[i] = a[i + 1]
  BY <1>1, HeadTailProperties
<1>4. DOMAIN Body = 1 .. Len(Body) /\ Len(Body) = IF isXemu THEN 3 ELSE 4
  <2>1. Body \in Seq(Lines)
    BY <1>3
  <2>2. DOMAIN Body = 1 .. Len(Body)
    BY <2>1, LenProperties
  <2>. QED BY <1>1, <1>2, <1>3, <2>2
<1>5. Body[1] = Ident /\ Body[2] = Junk /\ Body[3] = (IF isXemu THEN Dot ELSE Blank)
  BY <1>1, <1>3, <1>4
<1>6. \A i \in DOMAIN Body : Body[i] = Dot => i = Len(Body)
  BY <1>4, <1>5, LineFacts
<1>7. \A i \in DOMAIN Body : Body[i] \in {Ident, Junk, Blank, Dot}
  BY <1>1, <1>3, <1>4, <1>5
<1>8. NoProbe(Body)
  BY <1>7, LineFacts DEF NoProbe
<1>. QED BY <1>1, <1>3, <1>5, <1>6, <1>8

LEMMA Resume0Facts ==
  ASSUME isXemu \in BOOLEAN
  PROVE  /\ Resume0 \in Seq(Lines) /\ Len(Resume0) = 1 + Len(Prompt) /\ Resume0[1] = Echo("t0")
         /\ \A i \in DOMAIN Resume0 : Resume0[i] = Dot => i = Len(Resume0)
<1>. DEFINE x == <<Echo("t0")>>  p == Prompt
<1>1. x \in Seq(Lines) /\ Len(x) = 1 /\ x[1] = Echo("t0")
  BY LineFacts
<1>2. /\ p \in Seq(Lines) /\ p # <<>> /\ Len(p) = IF isXemu THEN 1 ELSE 2
      /\ p[Len(p)] = Dot /\ (~isXemu => p[1] = Blank)
  BY PromptFacts
<1>3. Resume0 = Cat(x, p)
  BY Zenon DEF Resume0, Cat
<1>. HIDE DEF x, p
<1>. DEFINE c == Cat(x, p)
<1>t. x \in Seq(Lines) /\ p \in Seq(Lines)
  BY <1>1, <1>2
<1>4. c \in Seq(Lines) /\ Len(c) = Len(x) + Len(p) /\ \A i \in 1 .. Len(x) : c[i] = x[i]
  BY <1>t, Cats
<1>5. \A i \in 1 .. Len(p) : c[Len(x) + i] = p[i]
  BY <1>t, Cats
<1>. HIDE DEF c
<1>6. DOMAIN c = 1 .. Len(c)
  BY <1>4, LenProperties
<1>7. /\ Len(c) = IF isXemu THEN 2 ELSE 3
      /\ c[1] = Echo("t0") /\ (~isXemu => c[2] = Blank)
  BY <1>1, <1>2, <1>4, <1>5
<1>8. \A i \in DOMAIN c : c[i] = Dot => i = Len(c)
  BY <1>6, <1>7, LineFacts
<1>9. Len(c) = 1 + Len(p)
  BY <1>1, <1>4
<1>. QED BY <1>3, <1>4, <1>7, <1>8, <1>9 DEF c, p

LEMMA Reset0Facts == isXemu \in BOOLEAN => Reset0 \in Seq(Lines) /\ NoProbe(Reset0)
<1>. SUFFICES ASSUME isXemu \in BOOLEAN PROVE Reset0 \in Seq(Lines) /\ NoProbe(Reset0)
  OBVIOUS
<1>. DEFINE x == <<Bang, At, Blank, Ident, Junk>>
<1>1. x \in Seq(Lines) /\ NoProbe(x)
  BY LineFacts DEF NoProbe
<1>2. Prompt \in Seq(Lines) /\ NoProbe(Prompt)
  BY PromptFacts
<1>3. Reset0 = Cat(x, Prompt)
  BY Zenon DEF Reset0, Cat
<1>. HIDE DEF x
<1>. QED BY <1>1, <1>2, <1>3, NoProbes

-----------------------------------------------------------------------------
(***************************************************************************)
(* Types.                                                                  *)
(***************************************************************************)
LEMMA CatTypes ==
  ASSUME NEW s \in Seq(Lines), NEW t \in Seq(Lines)
  PROVE  s \o t \in Seq(Lines)
<1>1. Cat(s, t) \in Seq(Lines)
  BY Cats
<1>. QED BY <1>1, Zenon DEF Cat

LEMMA WrittenTypes ==
  ASSUME isXemu \in BOOLEAN
  PROVE  /\ Step \in Seq(Lines) /\ NoProbe(Step)
         /\ Event("hit") \in Seq(Lines)
<1>. DEFINE b == <<Blank>>  g == <<Bang>>  r == RegisterLines("hit")  p == Prompt
<1>1. b \in Seq(Lines) /\ g \in Seq(Lines) /\ NoProbe(b)
  BY LineFacts DEF NoProbe
<1>2. r \in Seq(Lines) /\ NoProbe(r)
  BY LineFacts DEF RegisterLines, NoProbe
<1>3. p \in Seq(Lines) /\ NoProbe(p)
  BY PromptFacts
<1>4. Step = Cat(Cat(b, r), p)
  BY Zenon DEF Step, Cat
<1>5. Event("hit") = IF isXemu THEN Cat(b, r) ELSE Cat(Cat(g, r), p)
  BY Zenon DEF Event, Cat
<1>. HIDE DEF b, g, r, p
<1>. DEFINE br == Cat(b, r)  gr == Cat(g, r)
<1>6. br \in Seq(Lines) /\ gr \in Seq(Lines) /\ NoProbe(br)
  BY <1>1, <1>2, NoProbes
<1>. HIDE DEF br, gr
<1>7. Cat(br, p) \in Seq(Lines) /\ NoProbe(Cat(br, p)) /\ Cat(gr, p) \in Seq(Lines)
  BY <1>3, <1>6, NoProbes
<1>8. Step = Cat(br, p)
  BY <1>4, Zenon DEF br
<1>9. Event("hit") = IF isXemu THEN br ELSE Cat(gr, p)
  BY <1>5, Zenon DEF br, gr
<1>. QED BY <1>6, <1>7, <1>8, <1>9

LEMMA CutOffTypes ==
  ASSUME NEW l \in Lines, NEW cut \in CutOff(l)
  PROVE  cut \in Seq(Lines) /\ NoProbe(cut)
<1>1. cut \in {<<Blank>>, <<Flags>>, <<Dot, Flags>>, <<Junk>>}
  BY DEF CutOff
<1>2. <<Blank>> \in Seq(Lines) /\ <<Flags>> \in Seq(Lines) /\ <<Dot, Flags>> \in Seq(Lines)
      /\ <<Junk>> \in Seq(Lines)
  BY LineFacts
<1>3. NoProbe(<<Blank>>) /\ NoProbe(<<Flags>>) /\ NoProbe(<<Dot, Flags>>) /\ NoProbe(<<Junk>>)
  BY LineFacts DEF NoProbe
<1>. QED BY <1>1, <1>2, <1>3

LEMMA WriteTypes ==
  ASSUME TypeOK, NEW reply \in Seq(Lines), Write(reply)
  PROVE  air' \in Seq(Lines) /\ loading' \in {"none", "few", "many"} /\ stray' = stray
<1>1. Prompt \in Seq(Lines) /\ Step \in Seq(Lines) /\ air \in Seq(Lines)
  BY PromptFacts, WrittenTypes DEF TypeOK
<1>2. air \o reply \in Seq(Lines) /\ air \o Prompt \in Seq(Lines)
  BY <1>1, CatTypes
<1>. DEFINE ap == air \o Prompt
<1>3. ap \in Seq(Lines)
  BY <1>2
<1>. HIDE DEF ap
<1>4. ap \o Step \in Seq(Lines)
  BY <1>1, <1>3, CatTypes
<1>. QED BY <1>1, <1>2, <1>4 DEF TypeOK, Write, ap

LEMMA DeliverTypes ==
  ASSUME TypeOK, Deliver
  PROVE  /\ {air', conn', buffer'} \subseteq Seq(Lines) /\ FirstLine \in Lines
         /\ buffer # <<>> /\ air' = air
<1>1. buffer \in Seq(Lines) /\ conn \in Seq(Lines) /\ air \in Seq(Lines) /\ buffer # <<>> /\ air' = air
  BY DEF TypeOK, Deliver
<1>2. Tail(buffer) \in Seq(Lines) /\ FirstLine \in Lines
  BY <1>1 DEF FirstLine
<1>3. <<Blank>> \in Seq(Lines) /\ <<>> \in Seq(Lines)
  BY LineFacts
<1>4. ASSUME conn # <<>>, NEW cut \in CutOff(Head(conn))
      PROVE  cut \o Tail(conn) \in Seq(Lines)
  <2>1. Head(conn) \in Lines /\ Tail(conn) \in Seq(Lines)
    BY <1>1, <1>4
  <2>2. cut \in Seq(Lines)
    BY <2>1, CutOffTypes
  <2>. QED BY <2>1, <2>2, CatTypes
<1>. QED BY <1>1, <1>2, <1>3, <1>4 DEF Deliver

LEMMA FlushTypes ==
  ASSUME TypeOK, Flush
  PROVE  {air', conn', buffer'} \subseteq Seq(Lines)
BY EmptySeq DEF TypeOK, Flush

LEMMA InitTypes == Init => TypeOK
<1>1. <<>> \in Seq(Lines) /\ <<Junk>> \in Seq(Lines)
  BY LineFacts
<1>2. ASSUME Init
      PROVE  air \in Seq(Lines) /\ pc \in {"ask", "open"} /\ (pc = "open" => ~isXemu)
  BY <1>1, <1>2 DEF Init
<1>3. ASSUME Init
      PROVE  {isXemu, resetOnRun, blocking, alive, prompt, firstTry, again} \subseteq BOOLEAN
  BY <1>3 DEF Init
<1>4. ASSUME Init
      PROVE  {air, conn, buffer, lines} \subseteq Seq(Lines)
  <2>1. conn = <<>> /\ buffer = <<>> /\ lines = <<>>
    BY <1>4 DEF Init
  <2>. QED BY <2>1, <1>1, <1>2, <1>4
<1>5. ASSUME Init
      PROVE  /\ loading \in {"none", "few", "many"} /\ stray \in {"none", "set", "hit"}
             /\ retries \in 0 .. Retries
  BY <1>5, RetriesAssumption DEF Init
<1>. QED BY <1>2, <1>3, <1>4, <1>5 DEF TypeOK, Places

LEMMA StepTypes == TypeOK /\ [Next]_vars => TypeOK'
<1>. SUFFICES ASSUME TypeOK, [Next]_vars PROVE TypeOK'
  OBVIOUS
<1>. USE DEF TypeOK, Places, setting, target, wire, control
<1>r. Retries \in Nat \ {0}
  BY RetriesAssumption
<1>1. CASE Open
  BY <1>1, FlushTypes DEF Open
<1>2. CASE Ask
  <2>1. retries' \in 0 .. Retries
    BY <1>2, <1>r DEF Ask
  <2>. DEFINE reply == Answer(Probe(retries'))
  <2>2. reply \in Seq(Lines)
    BY <2>1, <1>2, ProbeFacts, AnswerFacts
  <2>. HIDE DEF reply
  <2>3. Write(reply)
    BY <1>2 DEF Ask, reply
  <2>4. air' \in Seq(Lines) /\ loading' \in {"none", "few", "many"} /\ stray' = stray
    BY <2>2, <2>3, WriteTypes
  <2>. QED BY <1>2, <2>1, <2>4 DEF Ask
<1>3. CASE GiveUp
  BY <1>3 DEF GiveUp
<1>4. CASE Fill
  BY <1>4, EmptySeq DEF Fill
<1>5. CASE TakePrompt
  <2>1. /\ {air', conn', buffer'} \subseteq Seq(Lines) /\ lines' = <<>> /\ <<>> \in Seq(Lines)
        /\ UNCHANGED <<setting, target, retries, firstTry, again>>
    BY <1>5, DeliverTypes, EmptySeq DEF TakePrompt
  <2>2. pc' \in {"undefined", "running", "reset", "resume", "flush"} /\ (pc' = "reset" => ~isXemu)
    BY <1>5 DEF TakePrompt, Synced
  <2>. QED BY <2>1, <2>2
<1>6. CASE FlushAndRetry
  BY <1>6, FlushTypes DEF FlushAndRetry
<1>7. CASE TakeEcho
  BY <1>7, DeliverTypes, EmptySeq DEF TakeEcho
<1>8. CASE TakeLine
  BY <1>8, DeliverTypes DEF TakeLine
<1>9. CASE TakeResumeLine
  <2>1. /\ {air', conn', buffer'} \subseteq Seq(Lines) /\ FirstLine \in Lines /\ <<>> \in Seq(Lines)
        /\ UNCHANGED <<setting, target, retries, firstTry, again>> /\ pc = "t0"
    BY <1>9, DeliverTypes, EmptySeq DEF TakeResumeLine
  <2>2. Resumed \in {"failed", "running", "undefined"}
    BY DEF Resumed
  <2>3. \/ pc' = Resumed /\ lines' = <<>>
        \/ lines' = Append(lines, FirstLine) /\ pc' = pc
    BY <1>9 DEF TakeResumeLine
  <2>4. pc' \in {"failed", "running", "undefined", "t0"}
    BY <2>1, <2>2, <2>3
  <2>6. Append(lines, FirstLine) \in Seq(Lines)
    BY <2>1
  <2>5. lines' \in Seq(Lines)
    BY <2>1, <2>3, <2>6
  <2>. QED BY <2>1, <2>4, <2>5
<1>10. CASE MissEcho
  <2>1. Prompt \in Seq(Lines)
    BY PromptFacts
  <2>2. air \o Prompt \in Seq(Lines)
    BY <2>1, CatTypes
  <2>. QED BY <1>10, <2>2 DEF MissEcho, WriteDummy
<1>11. CASE MissPrompt
  <2>1. <<>> \in Seq(Lines)
    BY EmptySeq
  <2>. QED BY <1>11, <2>1 DEF MissPrompt
<1>12. CASE NoResume
  BY <1>12, EmptySeq DEF NoResume
<1>13. CASE Reset
  <2>1. Reset0 \in Seq(Lines)
    BY Reset0Facts
  <2>2. air' \in Seq(Lines) /\ loading' \in {"none", "few", "many"} /\ stray' = stray
    BY <1>13, <2>1, WriteTypes DEF Reset
  <2>. QED BY <1>13, <2>2 DEF Reset
<1>14. CASE Rebooting
  <2>1. Len(conn) >= 2 /\ Len(conn) \in Nat
    BY <1>14, LenProperties DEF Rebooting
  <2>2. SubSeq(conn, 3, Len(conn)) \in Seq(Lines)
    <3>1. From(conn, 3) \in Seq(Lines)
      BY <2>1, Froms
    <3>. QED BY <3>1 DEF From
  <2>3. <<Blank>> \in Seq(Lines)
    BY LineFacts
  <2>4. <<Blank>> \o SubSeq(conn, 3, Len(conn)) \in Seq(Lines)
    BY <2>2, <2>3, CatTypes
  <2>. QED BY <1>14, <2>4 DEF Rebooting
<1>15. CASE NotRebooting
  BY <1>15 DEF NotRebooting
<1>16. CASE SyncAgain
  BY <1>16, <1>r, FlushTypes DEF SyncAgain
<1>17. CASE Resume
  <2>1. Resume0 \in Seq(Lines)
    BY Resume0Facts
  <2>2. air' \in Seq(Lines) /\ loading' \in {"none", "few", "many"} /\ stray' = stray
    BY <1>17, <2>1, WriteTypes DEF Resume
  <2>. QED BY <1>17, <2>2 DEF Resume
<1>18. CASE Hit
  <2>1. Event("hit") \in Seq(Lines)
    BY WrittenTypes
  <2>2. air \o Event("hit") \in Seq(Lines)
    BY <2>1, CatTypes
  <2>. QED BY <1>18, <2>2 DEF Hit
<1>19. CASE Arrive
  BY <1>19 DEF Arrive
<1>20. CASE UNCHANGED vars
  BY <1>20 DEF vars
<1>. QED BY <1>1, <1>2, <1>3, <1>4, <1>5, <1>6, <1>7, <1>8, <1>9, <1>10, <1>11, <1>12, <1>13,
            <1>14, <1>15, <1>16, <1>17, <1>18, <1>19, <1>20 DEF Next, Go

-----------------------------------------------------------------------------
(***************************************************************************)
(* What is unread, before and after a step.                                *)
(***************************************************************************)
LEMMA CatCat ==
  ASSUME NEW S, NEW s \in Seq(S), NEW t \in Seq(S), NEW u \in Seq(S)
  PROVE  Cat(Cat(s, t), u) = Cat(s, Cat(t, u))
<1>1. (s \o t) \o u = s \o (t \o u)
  BY ConcatAssociative
<1>. QED BY <1>1, Zenon DEF Cat

LEMMA UnreadIs ==
  /\ Rest = Cat(conn, air) /\ Unread = Cat(buffer, Rest)
  /\ Rest' = Cat(conn', air') /\ Unread' = Cat(buffer', Rest')
BY Zenon DEF Rest, Unread, Cat

LEMMA UnreadTypes ==
  ASSUME TypeOK
  PROVE  /\ Rest \in Seq(Lines) /\ Unread \in Seq(Lines)
         /\ Rest = <<>> <=> conn = <<>> /\ air = <<>>
         /\ Unread = <<>> <=> buffer = <<>> /\ conn = <<>> /\ air = <<>>
         /\ buffer = <<>> => Unread = Rest
         /\ Rest = <<>> => Unread = buffer
         /\ NoProbe(Rest) <=> NoProbe(conn) /\ NoProbe(air)
         /\ NoProbe(Unread) <=> NoProbe(buffer) /\ NoProbe(Rest)
<1>1. conn \in Seq(Lines) /\ air \in Seq(Lines) /\ buffer \in Seq(Lines)
  BY DEF TypeOK
<1>. DEFINE r == Cat(conn, air)  u == Cat(buffer, r)
<1>2. r \in Seq(Lines) /\ (r = <<>> <=> conn = <<>> /\ air = <<>>)
      /\ (NoProbe(r) <=> NoProbe(conn) /\ NoProbe(air))
  BY <1>1, Cats, CatEmpty, NoProbes
<1>3. Rest = r /\ Unread = u
  BY UnreadIs
<1>. HIDE DEF r
<1>4. u \in Seq(Lines) /\ (u = <<>> <=> buffer = <<>> /\ r = <<>>)
      /\ (NoProbe(u) <=> NoProbe(buffer) /\ NoProbe(r))
  BY <1>1, <1>2, Cats, CatEmpty, NoProbes
<1>5. Cat(<<>>, r) = r /\ Cat(buffer, <<>>) = buffer
  BY <1>1, <1>2, CatEmpty
<1>. QED BY <1>2, <1>3, <1>4, <1>5

LEMMA UnreadRest == TypeOK' => (buffer' = <<>> => Unread' = Rest')
<1>. SUFFICES ASSUME TypeOK', buffer' = <<>> PROVE Unread' = Rest'
  OBVIOUS
<1>1. conn' \in Seq(Lines) /\ air' \in Seq(Lines)
  BY DEF TypeOK
<1>2. Rest' \in Seq(Lines)
  BY <1>1, UnreadIs, Cats
<1>. QED BY <1>2, UnreadIs, CatEmpty

\* What was taken from the connection only is the end of what is unread.
LEMMA RestIsEnd ==
  ASSUME TypeOK
  PROVE  /\ Rest = From(Unread, Len(buffer) + 1) /\ Len(buffer) + 1 \in 1 .. Len(Unread) + 1
         /\ Rest # <<>> => /\ Tail(Rest) = From(Unread, Len(buffer) + 2)
                           /\ Len(buffer) + 2 \in 1 .. Len(Unread) + 1
         /\ air = From(Unread, Len(buffer) + Len(conn) + 1)
         /\ Len(buffer) + Len(conn) + 1 \in 1 .. Len(Unread) + 1
<1>1. /\ conn \in Seq(Lines) /\ air \in Seq(Lines) /\ buffer \in Seq(Lines)
      /\ Rest \in Seq(Lines) /\ Unread \in Seq(Lines)
      /\ Rest = Cat(conn, air) /\ Unread = Cat(buffer, Rest)
  BY UnreadTypes, UnreadIs DEF TypeOK
<1>2. /\ Len(conn) \in Nat /\ Len(air) \in Nat /\ Len(buffer) \in Nat /\ Len(Rest) \in Nat
      /\ (Rest # <<>> => Len(Rest) >= 1)
  BY <1>1, EmptySeq, LenProperties
<1>3. Len(Rest) = Len(conn) + Len(air) /\ Len(Unread) = Len(buffer) + Len(Rest)
  <2>1. Len(Cat(conn, air)) = Len(conn) + Len(air) /\ Len(Cat(buffer, Rest)) = Len(buffer) + Len(Rest)
    BY <1>1, Cats
  <2>. QED BY <1>1, <2>1
<1>4. From(Rest, 1) = Rest /\ (Rest # <<>> => Tail(Rest) = From(Rest, 2)) /\ From(air, 1) = air
  BY <1>1, FromFirst
<1>5. ASSUME NEW k \in 1 .. Len(Rest) + 1
      PROVE  From(Unread, Len(buffer) + k) = From(Rest, k)
  BY <1>1, FromCat
<1>6. From(Rest, Len(conn) + 1) = From(air, 1)
  <2>1. 1 \in 1 .. Len(air) + 1
    BY <1>2
  <2>2. From(Cat(conn, air), Len(conn) + 1) = From(air, 1)
    BY <1>1, <2>1, FromCat
  <2>. QED BY <1>1, <2>2
<1>7. Rest = From(Unread, Len(buffer) + 1) /\ Len(buffer) + 1 \in 1 .. Len(Unread) + 1
  BY <1>2, <1>3, <1>4, <1>5
<1>8. Rest # <<>> => /\ Tail(Rest) = From(Unread, Len(buffer) + 2)
                     /\ Len(buffer) + 2 \in 1 .. Len(Unread) + 1
  BY <1>2, <1>3, <1>4, <1>5
<1>9. Len(conn) + 1 \in 1 .. Len(Rest) + 1
  BY <1>2, <1>3
<1>. DEFINE k == Len(conn) + 1
<1>10. k \in 1 .. Len(Rest) + 1 /\ Len(buffer) + k = Len(buffer) + Len(conn) + 1
  BY <1>2, <1>9
<1>11. From(Rest, k) = air
  BY <1>4, <1>6
<1>. HIDE DEF k
<1>12. From(Unread, Len(buffer) + k) = air /\ Len(buffer) + k \in 1 .. Len(Unread) + 1
  BY <1>2, <1>3, <1>5, <1>10, <1>11
<1>. QED BY <1>7, <1>8, <1>10, <1>12

LEMMA FlushEffect ==
  ASSUME TypeOK, TypeOK', Flush
  PROVE  /\ KeepsProbes(Unread', Unread) /\ Rest' = air
         /\ (prompt => air = <<>>)
         /\ buffer' # <<>> => buffer' = buffer /\ Rest' = Rest
<1>1. /\ conn' = <<>> /\ air' = air /\ air \in Seq(Lines) /\ (prompt => air = <<>>)
      /\ buffer' = IF conn = <<>> THEN buffer ELSE <<>>
  BY DEF Flush, TypeOK
<1>2. Rest' = air
  BY <1>1, UnreadIs, CatEmpty
<1>3. CASE conn = <<>>
  <2>1. buffer' = buffer /\ Rest' = Rest
    BY <1>1, <1>2, <1>3, UnreadIs, CatEmpty
  <2>2. Unread' = Unread
    BY <2>1, UnreadIs
  <2>. QED BY <1>1, <1>2, <2>1, <2>2, UnreadTypes, KeepsAll
<1>4. CASE conn # <<>>
  <2>1. buffer' = <<>>
    BY <1>1, <1>4
  <2>2. Unread' = air
    BY <1>1, <1>2, <2>1, UnreadIs, CatEmpty
  <2>. DEFINE k == Len(buffer) + Len(conn) + 1
  <2>3. Unread' = From(Unread, k) /\ k \in 1 .. Len(Unread) + 1
    BY <2>2, RestIsEnd
  <2>. HIDE DEF k
  <2>4. KeepsProbes(Unread', Unread)
    BY <2>3, UnreadTypes, KeepsFrom
  <2>. QED BY <1>1, <1>2, <2>1, <2>4
<1>. QED BY <1>3, <1>4

LEMMA DeliverFirst ==
  ASSUME TypeOK, Deliver
  PROVE  /\ buffer # <<>> /\ Unread # <<>> /\ FirstLine = Unread[1] /\ FirstLine = buffer[1]
         /\ Len(Unread) >= 1 /\ Len(Unread) \in Nat
         /\ Tail(Unread) = From(Unread, 2) /\ Tail(Unread) = Cat(Tail(buffer), Rest)
<1>1. buffer # <<>> /\ FirstLine = Head(buffer) /\ buffer \in Seq(Lines)
  BY DEF Deliver, FirstLine, TypeOK
<1>2. Rest \in Seq(Lines) /\ Unread \in Seq(Lines) /\ Unread = Cat(buffer, Rest)
  BY UnreadTypes, UnreadIs
<1>3. Head(Unread) = Head(buffer) /\ Tail(Unread) = Cat(Tail(buffer), Rest) /\ Unread # <<>>
  BY <1>1, <1>2, CatTail
<1>4. Tail(Unread) = From(Unread, 2) /\ Head(Unread) = Unread[1] /\ Len(Unread) >= 1
      /\ Head(buffer) = buffer[1] /\ Len(Unread) \in Nat
  BY <1>1, <1>2, <1>3, FromFirst, LenProperties
<1>. QED BY <1>1, <1>3, <1>4

LEMMA DeliverEffect ==
  ASSUME TypeOK, TypeOK', Deliver
  PROVE  /\ KeepsProbes(Unread', Unread)
         /\ FirstLine # Dot \/ isXemu =>
              /\ Rest' = Rest
              /\ \/ Unread' = Tail(Unread) /\ buffer' = Tail(buffer)
                 \/ FirstLine = Dot /\ Unread' = Cat(<<Blank>>, Tail(Unread)) /\ ~prompt
         /\ FirstLine = Dot /\ ~isXemu => buffer' = <<>> /\ (conn = <<>> => Rest' = Rest)
<1>1. /\ conn \in Seq(Lines) /\ air \in Seq(Lines) /\ buffer \in Seq(Lines)
      /\ Rest \in Seq(Lines) /\ Unread \in Seq(Lines) /\ Len(Unread) \in Nat
      /\ Tail(Unread) = From(Unread, 2) /\ Tail(Unread) = Cat(Tail(buffer), Rest)
      /\ air' = air
  BY UnreadTypes, DeliverFirst DEF TypeOK, Deliver
<1>2. 2 \in 1 .. Len(Unread) + 1
  BY DeliverFirst
<1>t. Tail(Unread) \in Seq(Lines)
  BY DeliverFirst, <1>1
<1>3. CASE (FirstLine # Dot \/ isXemu) /\ buffer' = Tail(buffer)
  <2>1. conn' = conn
    BY <1>3 DEF Deliver
  <2>2. Rest' = Rest
    BY <2>1, <1>1, UnreadIs
  <2>3. Unread' = Tail(Unread)
    BY <2>2, <1>1, <1>3, UnreadIs
  <2>4. KeepsProbes(Unread', Unread)
    BY <2>3, <1>1, <1>2, KeepsFrom
  <2>. QED BY <1>3, <2>2, <2>3, <2>4
<1>4. CASE (FirstLine # Dot \/ isXemu) /\ buffer' # Tail(buffer)
  <2>1. conn' = conn /\ FirstLine = Dot /\ Tail(buffer) = <<>> /\ ~prompt /\ buffer' = <<Blank>> /\ isXemu
    BY <1>4 DEF Deliver
  <2>2. Rest' = Rest
    BY <2>1, <1>1, UnreadIs
  <2>3. Tail(Unread) = Rest
    BY <2>1, <1>1, CatEmpty
  <2>4. Unread' = Cat(<<Blank>>, Tail(Unread))
    BY <2>1, <2>2, <2>3, UnreadIs
  <2>. DEFINE b == <<Blank>>
  <2>a. b \in Seq(Lines) /\ NoProbe(b)
    BY LineFacts DEF NoProbe
  <2>5. Unread' = Cat(b, From(Unread, 2))
    BY <2>4, <1>1
  <2>. HIDE DEF b
  <2>6. KeepsProbes(Unread', Unread)
    BY <2>a, <2>5, <1>1, <1>2, KeepsBehind
  <2>. QED BY <2>1, <2>2, <2>4, <2>6
<1>5. CASE FirstLine = Dot /\ ~isXemu
  <2>1. /\ buffer' = <<>>
        /\ \/ UNCHANGED conn
           \/ conn # <<>> /\ \E cut \in CutOff(Head(conn)) : conn' = cut \o Tail(conn)
    BY <1>5, Zenon DEF Deliver
  <2>2. Unread' = Rest' /\ Rest' = Cat(conn', air)
    <3>1. Unread' = Rest'
      BY <2>1, UnreadRest
    <3>. QED BY <3>1, <1>1, UnreadIs
  <2>3. CASE conn' = conn
    <3>1. Rest' = Rest
      BY <2>2, <2>3, UnreadIs
    <3>. DEFINE k == Len(buffer) + 1
    <3>2. Unread' = From(Unread, k) /\ k \in 1 .. Len(Unread) + 1
      BY <3>1, <2>2, RestIsEnd
    <3>. HIDE DEF k
    <3>3. KeepsProbes(Unread', Unread)
      BY <3>2, <1>1, KeepsFrom
    <3>. QED BY <1>5, <2>1, <3>1, <3>3
  <2>4. CASE conn' # conn
    <3>1. PICK cut \in CutOff(Head(conn)) : conn' = cut \o Tail(conn)
      BY <2>1, <2>4
    <3>2. conn # <<>>
      BY <2>1, <2>4
    <3>3. Head(conn) \in Lines /\ Tail(conn) \in Seq(Lines)
      BY <1>1, <3>2
    <3>4. cut \in Seq(Lines) /\ NoProbe(cut)
      BY <3>3, CutOffTypes
    <3>5. conn' = Cat(cut, Tail(conn))
      BY <3>1, Zenon DEF Cat
    <3>. DEFINE t == Tail(conn)
    <3>6. Tail(Rest) = Cat(t, air) /\ Rest # <<>>
      BY <1>1, <3>2, UnreadIs, CatTail
    <3>. HIDE DEF t
    <3>7. Cat(Cat(cut, t), air) = Cat(cut, Cat(t, air))
      <4>1. t \in Seq(Lines)
        BY <3>3 DEF t
      <4>. QED BY <1>1, <3>4, <4>1, CatCat
    <3>8. Unread' = Cat(cut, Tail(Rest))
      BY <2>2, <3>5, <3>6, <3>7 DEF t
    <3>. DEFINE k == Len(buffer) + 2
    <3>9. Tail(Rest) = From(Unread, k) /\ k \in 1 .. Len(Unread) + 1
      BY <3>6, RestIsEnd
    <3>. HIDE DEF k
    <3>10. KeepsProbes(Unread', Unread)
      BY <3>4, <3>8, <3>9, <1>1, KeepsBehind
    <3>. QED BY <1>5, <2>1, <3>2, <3>10
  <2>. QED BY <2>3, <2>4
<1>. QED BY <1>3, <1>4, <1>5

\* The last line, be it a prompt that takes along what has arrived with it.
LEMMA DeliverLast ==
  ASSUME TypeOK, TypeOK', Deliver, FirstLine = Dot, Len(Unread) = 1, isXemu => prompt
  PROVE  Unread' = <<>>
<1>1. /\ conn \in Seq(Lines) /\ air \in Seq(Lines) /\ buffer \in Seq(Lines) /\ Rest \in Seq(Lines)
      /\ Unread = Cat(buffer, Rest) /\ buffer # <<>> /\ Unread # <<>>
  BY UnreadTypes, UnreadIs, DeliverFirst DEF TypeOK
<1>2. Len(Unread) = Len(buffer) + Len(Rest)
  <2>1. buffer \in Seq(Lines) /\ Rest \in Seq(Lines)
    BY <1>1
  <2>2. Len(Cat(buffer, Rest)) = Len(buffer) + Len(Rest)
    BY <2>1, Cats
  <2>. QED BY <1>1, <2>2
<1>3. Len(buffer) \in Nat \ {0} /\ Len(Rest) \in Nat
  BY <1>1, EmptySeq, LenProperties
<1>4. Len(buffer) = 1 /\ Len(Rest) = 0
  BY <1>2, <1>3
<1>5. Rest = <<>>
  BY <1>1, <1>4, EmptySeq
<1>6. conn = <<>> /\ air = <<>>
  BY <1>5, UnreadTypes
<1>7. Tail(Unread) = <<>>
  <2>1. Len(Tail(Unread)) = 0 /\ Tail(Unread) \in Seq(Lines)
    BY <1>1, UnreadTypes, HeadTailProperties
  <2>. QED BY <2>1, EmptySeq
<1>8. CASE isXemu
  BY <1>7, <1>8, DeliverEffect
<1>9. CASE ~isXemu
  <2>1. buffer' = <<>> /\ Rest' = Rest
    BY <1>6, <1>9, DeliverEffect
  <2>. QED BY <2>1, <1>5, UnreadIs, CatEmpty, EmptySeq
<1>. QED BY <1>8, <1>9 DEF TypeOK

\* A target that waits for commands replies; another one does not, and no probe was answered.
LEMMA WriteEffect ==
  ASSUME TypeOK, TypeOK', NEW reply \in Seq(Lines), Write(reply), UNCHANGED <<conn, buffer, alive>>
  PROVE  \/ /\ alive /\ loading = "none" /\ loading' = "none"
            /\ Unread' = Cat(Unread, reply) /\ Rest' = Cat(Rest, reply)
         \/ /\ ~(alive /\ loading = "none")
            /\ \E w \in Seq(Lines) : NoProbe(w) /\ Unread' = Cat(Unread, w) /\ Rest' = Cat(Rest, w)
<1>1. /\ conn \in Seq(Lines) /\ air \in Seq(Lines) /\ buffer \in Seq(Lines) /\ Rest \in Seq(Lines)
      /\ Unread = Cat(buffer, Rest) /\ Rest = Cat(conn, air)
  BY UnreadTypes, UnreadIs DEF TypeOK
<1>2. ASSUME NEW w \in Seq(Lines), air' = Cat(air, w)
      PROVE  Unread' = Cat(Unread, w) /\ Rest' = Cat(Rest, w)
  <2>1. Rest' = Cat(conn, Cat(air, w))
    BY <1>2, UnreadIs
  <2>2. Cat(conn, Cat(air, w)) = Cat(Cat(conn, air), w)
    BY <1>1, CatCat
  <2>3. Rest' = Cat(Rest, w)
    BY <2>1, <2>2, <1>1
  <2>4. Cat(buffer, Cat(Rest, w)) = Cat(Cat(buffer, Rest), w)
    BY <1>1, CatCat
  <2>5. Unread' = Cat(Unread, w)
    BY <2>3, <2>4, <1>1, UnreadIs
  <2>. QED BY <2>3, <2>5
<1>3. CASE alive /\ loading = "none"
  <2>1. air' = air \o reply /\ loading' = loading
    BY <1>3 DEF Write
  <2>2. air' = Cat(air, reply)
    BY <2>1, Zenon DEF Cat
  <2>. QED BY <1>2, <1>3, <2>1, <2>2
<1>4. CASE ~(alive /\ loading = "none")
  <2>1. PICK w \in Seq(Lines) : NoProbe(w) /\ air' = Cat(air, w)
    <3>1. CASE air' = air
      <4>1. <<>> \in Seq(Lines) /\ NoProbe(<<>>) /\ Cat(air, <<>>) = air
        BY <1>1, EmptySeq, CatEmpty DEF NoProbe
      <4>. QED BY <3>1, <4>1
    <3>. DEFINE p == Prompt  s == Step
    <3>2. p \in Seq(Lines) /\ NoProbe(p) /\ s \in Seq(Lines) /\ NoProbe(s)
      BY PromptFacts, WrittenTypes DEF TypeOK
    <3>3. CASE air' = air \o p
      <4>1. air' = Cat(air, p)
        BY <3>3, Zenon DEF Cat
      <4>. HIDE DEF p
      <4>. QED BY <4>1, <3>2
    <3>4. CASE air' = air \o p \o s
      <4>1. air' = Cat(Cat(air, p), s)
        BY <3>4, Zenon DEF Cat
      <4>. HIDE DEF p, s
      <4>2. Cat(Cat(air, p), s) = Cat(air, Cat(p, s))
        BY <1>1, <3>2, CatCat
      <4>3. Cat(p, s) \in Seq(Lines) /\ NoProbe(Cat(p, s))
        BY <3>2, NoProbes
      <4>. QED BY <4>1, <4>2, <4>3
    <3>. HIDE DEF p, s
    <3>5. air' = air \/ air' \in {air \o Prompt, air \o Prompt \o Step}
      BY <1>4, Zenon DEF Write
    <3>6. air' = air \/ air' = air \o p \/ air' = air \o p \o s
      BY <3>5, Zenon DEF p, s
    <3>. QED BY <3>1, <3>3, <3>4, <3>6
  <2>2. Unread' = Cat(Unread, w) /\ Rest' = Cat(Rest, w)
    BY <1>2, <2>1
  <2>. QED BY <1>4, <2>1, <2>2
<1>. QED BY <1>3, <1>4

-----------------------------------------------------------------------------
(***************************************************************************)
(* Probes and their answers in what is written behind what was.            *)
(***************************************************************************)
LEMMA FromCatLeft ==
  ASSUME NEW S, NEW s \in Seq(S), NEW t \in Seq(S), NEW k \in 1 .. Len(s) + 1
  PROVE  From(Cat(s, t), k) = Cat(From(s, k), t)
<1>. DEFINE c == Cat(s, t)  r == From(s, k)  u == From(c, k)  v == Cat(r, t)
<1>t. s \in Seq(S) /\ t \in Seq(S) /\ Len(s) \in Nat /\ Len(t) \in Nat
  BY LenProperties
<1>1. c \in Seq(S) /\ Len(c) = Len(s) + Len(t) /\ \A i \in 1 .. Len(s) : c[i] = s[i]
  BY Cats
<1>2. \A i \in 1 .. Len(t) : c[Len(s) + i] = t[i]
  BY Cats
<1>. HIDE DEF c
<1>3. r \in Seq(S) /\ Len(r) = Len(s) - k + 1 /\ \A i \in 1 .. Len(s) - k + 1 : r[i] = s[k + i - 1]
  BY Froms
<1>. HIDE DEF r
<1>4. /\ u \in Seq(S) /\ Len(u) = Len(c) - k + 1
      /\ \A i \in 1 .. Len(c) - k + 1 : u[i] = c[k + i - 1]
  <2>1. c \in Seq(S) /\ k \in 1 .. Len(c) + 1
    BY <1>t, <1>1
  <2>. QED BY <2>1, Froms
<1>d. r \in Seq(S)
  BY <1>3
<1>5. v \in Seq(S) /\ Len(v) = Len(r) + Len(t) /\ \A i \in 1 .. Len(r) : v[i] = r[i]
  BY <1>d, Cats
<1>6. \A i \in 1 .. Len(t) : v[Len(r) + i] = t[i]
  BY <1>d, Cats
<1>. HIDE DEF u, v
<1>l. /\ Len(s) \in Nat /\ Len(t) \in Nat /\ Len(c) = Len(s) + Len(t) /\ Len(r) = Len(s) - k + 1
      /\ Len(u) = Len(c) - k + 1
  BY <1>t, <1>1, <1>3, <1>4
<1>7. ASSUME NEW j \in 1 .. Len(u)
      PROVE  u[j] = v[j]
  <2>1. CASE j \in 1 .. Len(r)
    <3>. DEFINE h == k + j - 1
    <3>1. h \in 1 .. Len(s) /\ j \in 1 .. Len(s) - k + 1 /\ j \in 1 .. Len(c) - k + 1
      BY <2>1, <1>t, <1>1, <1>3
    <3>. HIDE DEF h
    <3>2. c[h] = s[h]
      BY <3>1, <1>1
    <3>3. u[j] = c[h] /\ r[j] = s[h] /\ v[j] = r[j]
      BY <2>1, <3>1, <1>3, <1>4, <1>5 DEF h
    <3>. QED BY <3>2, <3>3
  <2>2. CASE j \notin 1 .. Len(r)
    <3>. DEFINE h == j - Len(r)
    <3>1. /\ h \in 1 .. Len(t) /\ j = Len(r) + h /\ k + j - 1 = Len(s) + h
          /\ j \in 1 .. Len(c) - k + 1
      BY <2>2, <1>l
    <3>. HIDE DEF h
    <3>2. c[Len(s) + h] = t[h] /\ v[Len(r) + h] = t[h]
      BY <3>1, <1>2, <1>6
    <3>3. u[j] = c[k + j - 1]
      BY <3>1, <1>4
    <3>. QED BY <3>1, <3>2, <3>3
  <2>. QED BY <2>1, <2>2
<1>8. Len(u) = Len(v)
  BY <1>t, <1>1, <1>3, <1>4, <1>5
<1>9. u = v
  BY <1>4, <1>5, <1>7, <1>8, SeqEqual
<1>. QED BY <1>9 DEF u, v, c, r

\* The places of a concatenation are those of its parts.
LEMMA CatPlaces ==
  ASSUME NEW s \in Seq(Lines), NEW t \in Seq(Lines), NEW i \in DOMAIN Cat(s, t)
  PROVE  \/ /\ i \in DOMAIN s /\ Cat(s, t)[i] = s[i] /\ From(Cat(s, t), i) = Cat(From(s, i), t)
         \/ \E j \in DOMAIN t : /\ i = Len(s) + j /\ Cat(s, t)[i] = t[j]
                                /\ From(Cat(s, t), i) = From(t, j)
<1>. DEFINE c == Cat(s, t)
<1>t. s \in Seq(Lines) /\ t \in Seq(Lines)
  OBVIOUS
<1>1. c \in Seq(Lines) /\ Len(c) = Len(s) + Len(t) /\ \A k \in 1 .. Len(s) : c[k] = s[k]
  <2>1. c \in Seq(Lines) /\ Len(c) = Len(s) + Len(t)
    BY <1>t, Cats
  <2>2. \A k \in 1 .. Len(s) : c[k] = s[k]
    BY <1>t, Cats
  <2>. QED BY <2>1, <2>2
<1>2. \A k \in 1 .. Len(t) : c[Len(s) + k] = t[k]
  BY <1>t, Cats
<1>3. /\ Len(s) \in Nat /\ Len(t) \in Nat /\ DOMAIN s = 1 .. Len(s) /\ DOMAIN t = 1 .. Len(t)
      /\ DOMAIN c = 1 .. Len(c)
  BY <1>1, LenProperties
<1>4. \A k \in 1 .. Len(s) + 1 : From(c, k) = Cat(From(s, k), t)
  BY FromCatLeft
<1>5. \A k \in 1 .. Len(t) + 1 : From(c, Len(s) + k) = From(t, k)
  BY FromCat
<1>6. i \in DOMAIN c
  OBVIOUS
<1>. HIDE DEF c
<1>7. CASE i \in 1 .. Len(s)
  <2>1. i \in DOMAIN s /\ c[i] = s[i] /\ From(c, i) = Cat(From(s, i), t)
    BY <1>1, <1>3, <1>4, <1>7
  <2>. QED BY <2>1 DEF c
<1>8. CASE i \notin 1 .. Len(s)
  <2>. DEFINE j == i - Len(s)
  <2>1. j \in DOMAIN t /\ j \in 1 .. Len(t) + 1 /\ i = Len(s) + j
    BY <1>1, <1>3, <1>6, <1>8
  <2>. HIDE DEF j
  <2>2. c[i] = t[j] /\ From(c, i) = From(t, j)
    BY <1>2, <1>3, <1>5, <2>1
  <2>. QED BY <2>1, <2>2 DEF c
<1>. QED BY <1>7, <1>8

LEMMA NumberedCat ==
  ASSUME NEW s \in Seq(Lines), NEW t \in Seq(Lines), NEW n, NumberedFrom(n, s), NumberedFrom(n, t)
  PROVE  NumberedFrom(n, Cat(s, t))
<1>1. ASSUME NEW i \in DOMAIN Cat(s, t), Cat(s, t)[i].kind = "probe"
      PROVE  Cat(s, t)[i].attempt >= n
  <2>. DEFINE x == Cat(s, t)[i]
  <2>1. (\E j \in DOMAIN s : x = s[j]) \/ \E j \in DOMAIN t : x = t[j]
    BY CatPlaces
  <2>2. x.kind = "probe"
    BY <1>1
  <2>. HIDE DEF x
  <2>3. x.attempt >= n
    BY <2>1, <2>2 DEF NumberedFrom
  <2>. QED BY <2>3 DEF x
<1>. QED BY <1>1 DEF NumberedFrom

LEMMA NoProbeHolds ==
  ASSUME NEW s, NoProbe(s), isXemu \in BOOLEAN
  PROVE  /\ \A n : NumberedFrom(n, s)
         /\ \A n \in 0 .. Retries : \A a : EndsWith(Probe(n), a, s)
         /\ AnswersFollow(s)
<1>1. \A n : NumberedFrom(n, s)
  BY DEF NoProbe, NumberedFrom
<1>2. \A n \in 0 .. Retries : \A a : EndsWith(Probe(n), a, s)
  BY ProbeFacts DEF NoProbe, EndsWith
<1>4. XemuProbe.kind = "probe"
  BY DEF XemuProbe
<1>5. AnswersFollow(s)
  BY <1>4 DEF NoProbe, AnswersFollow
<1>. QED BY <1>1, <1>2, <1>5

\* An answer has one probe, its first line.
LEMMA AnswerProbes ==
  ASSUME NEW n \in 0 .. Retries, isXemu \in BOOLEAN
  PROVE  /\ Answer(Probe(n)) \in Seq(Lines)
         /\ \A i \in DOMAIN Answer(Probe(n)) : Answer(Probe(n))[i].kind = "probe" => i = 1
         /\ From(Answer(Probe(n)), 1) = Answer(Probe(n))
         /\ ~isXemu => NumberedFrom(n, Answer(Probe(n)))
<1>. DEFINE l == Probe(n)  a == Answer(l)
<1>1. l \in Lines /\ (~isXemu => l.attempt = n)
  BY ProbeFacts
<1>. HIDE DEF l
<1>2. /\ a \in Seq(Lines) /\ a[1] = l /\ a[2] = Ident /\ a[3] = Junk
      /\ \A i \in 4 .. Len(a) : a[i] \in {Blank, Dot}
  BY <1>1, AnswerFacts
<1>. HIDE DEF a
<1>3. DOMAIN a = 1 .. Len(a) /\ Len(a) \in Nat
  BY <1>2, LenProperties
<1>4. \A i \in DOMAIN a : i # 1 => a[i] \in {Ident, Junk, Blank, Dot}
  BY <1>2, <1>3
<1>5. \A i \in DOMAIN a : a[i].kind = "probe" => i = 1
  BY <1>4, LineFacts
<1>6. From(a, 1) = a
  BY <1>2, FromFirst
<1>7. ~isXemu => NumberedFrom(n, a)
  BY <1>1, <1>2, <1>5 DEF NumberedFrom
<1>. QED BY <1>2, <1>5, <1>6, <1>7 DEF a, l

LEMMA EndsCat ==
  ASSUME NEW n \in 0 .. Retries, NEW s \in Seq(Lines), NumberedFrom(n + 1, s), isXemu = FALSE
  PROVE  EndsWith(Probe(n), Answer(Probe(n)), Cat(s, Answer(Probe(n))))
<1>. DEFINE l == Probe(n)  a == Answer(l)  c == Cat(s, a)
<1>1. l.kind = "probe" /\ l.attempt = n
  BY ProbeFacts
<1>2. /\ a \in Seq(Lines) /\ From(a, 1) = a
      /\ \A i \in DOMAIN a : a[i].kind = "probe" => i = 1
  BY AnswerProbes
<1>. HIDE DEF l, a
<1>3. ASSUME NEW i \in DOMAIN c, c[i] = l
      PROVE  From(c, i) = a
  <2>1. CASE i \in DOMAIN s /\ c[i] = s[i]
    <3>1. s[i].kind = "probe" => s[i].attempt >= n + 1
      BY <2>1 DEF NumberedFrom
    <3>2. s[i].kind = "probe" /\ s[i].attempt = n
      BY <2>1, <1>1, <1>3
    <3>. QED BY <3>1, <3>2
  <2>2. CASE \E j \in DOMAIN a : c[i] = a[j] /\ From(c, i) = From(a, j)
    BY <2>2, <1>1, <1>2, <1>3
  <2>3. \/ i \in DOMAIN s /\ c[i] = s[i]
        \/ \E j \in DOMAIN a : c[i] = a[j] /\ From(c, i) = From(a, j)
    <3>1. a \in Seq(Lines)
      BY <1>2
    <3>. QED BY <3>1, CatPlaces
  <2>. QED BY <2>1, <2>2, <2>3
<1>4. EndsWith(l, a, c)
  BY <1>3 DEF EndsWith
<1>. QED BY <1>4 DEF l, a, c

-----------------------------------------------------------------------------
(***************************************************************************)
(* Answers of Xemu, one after the other.                                   *)
(***************************************************************************)
LEMMA AnswersSuffix ==
  ASSUME NEW s \in Seq(Lines), Answers(s), NEW k \in 1 .. Len(s) + 1
  PROVE  Answers(From(s, k))
<1>. DEFINE r == From(s, k)
<1>1. /\ r \in Seq(Lines) /\ Len(r) = Len(s) - k + 1
      /\ \A i \in 1 .. Len(s) - k + 1 : r[i] = s[k + i - 1]
  BY Froms
<1>2. DOMAIN r = 1 .. Len(r) /\ DOMAIN s = 1 .. Len(s) /\ Len(s) \in Nat
  BY <1>1, LenProperties
<1>. HIDE DEF r
<1>l. Len(s) \in Nat /\ Len(r) = Len(s) - k + 1 /\ DOMAIN r = 1 .. Len(r) /\ DOMAIN s = 1 .. Len(s)
  BY <1>1, <1>2
<1>3. ASSUME NEW j \in DOMAIN r
      PROVE  InAnswer(r, j)
  <2>. DEFINE h == k + j - 1
  <2>1. h \in DOMAIN s /\ (h + 1 \in DOMAIN s <=> j + 1 \in DOMAIN r) /\ h + 1 = k + (j + 1) - 1
    BY <1>l
  <2>2. r[j] = s[h]
    BY <1>1, <1>2
  <2>3. j + 1 \in DOMAIN r => r[j + 1] = s[h + 1]
    <3>. DEFINE i == j + 1
    <3>1. i \in DOMAIN r => i \in 1 .. Len(s) - k + 1 /\ k + i - 1 = h + 1
      BY <1>1, <1>2
    <3>. HIDE DEF i
    <3>2. i \in DOMAIN r => r[i] = s[h + 1]
      BY <1>1, <3>1
    <3>. QED BY <3>2 DEF i
  <2>. HIDE DEF h
  <2>4. InAnswer(s, h)
    BY <2>1 DEF Answers
  <2>. QED BY <2>1, <2>2, <2>3, <2>4 DEF InAnswer
<1>. QED BY <1>3 DEF Answers, r

LEMMA AnswersHold == ASSUME NEW s \in Seq(Lines), Answers(s) PROVE AnswersFollow(s)
<1>1. \A i \in DOMAIN s : i \in 1 .. Len(s) + 1
  BY LenProperties
<1>2. \A i \in DOMAIN s : Answers(From(s, i))
  BY <1>1, AnswersSuffix
<1>. QED BY <1>2 DEF AnswersFollow

LEMMA AnswersCat ==
  ASSUME isXemu = TRUE, NEW s \in Seq(Lines), Answers(s)
  PROVE  Answers(Cat(s, Answer(XemuProbe)))
<1>. DEFINE l == XemuProbe  a == Answer(l)  c == Cat(s, a)
<1>1. l \in Lines /\ l.kind = "probe"
  <2>1. 0 \in 0 .. Retries /\ isXemu \in BOOLEAN
    BY RetriesAssumption
  <2>. QED BY <2>1, ProbeFacts
<1>. HIDE DEF l
<1>2. /\ a \in Seq(Lines) /\ a[1] = l /\ a[2] = Ident /\ a[3] = Junk
      /\ a[4] = Dot /\ Len(a) = 4
  <2>1. isXemu \in BOOLEAN
    OBVIOUS
  <2>2. Len(Prompt) = 1
    BY <2>1, PromptFacts
  <2>. QED BY <1>1, <2>1, <2>2, AnswerFacts
<1>. HIDE DEF a
<1>t. a \in Seq(Lines)
  BY <1>2
<1>3. c \in Seq(Lines) /\ Len(c) = Len(s) + Len(a) /\ \A k \in 1 .. Len(s) : c[k] = s[k]
  BY <1>t, Cats
<1>4. \A k \in 1 .. Len(a) : c[Len(s) + k] = a[k]
  BY <1>t, Cats
<1>5. /\ Len(s) \in Nat /\ DOMAIN s = 1 .. Len(s) /\ DOMAIN c = 1 .. Len(c)
  BY <1>3, LenProperties
<1>. HIDE DEF c
<1>6. /\ c[Len(s) + 1] = l /\ c[Len(s) + 2] = Ident /\ c[Len(s) + 3] = Junk /\ c[Len(s) + 4] = Dot
      /\ Len(c) = Len(s) + 4
  BY <1>2, <1>3, <1>4
<1>7. ASSUME NEW j \in DOMAIN c
      PROVE  InAnswer(c, j)
  <2>1. CASE j \in 1 .. Len(s)
    <3>1. InAnswer(s, j) /\ c[j] = s[j]
      BY <1>3, <1>5, <2>1 DEF Answers
    <3>2. j + 1 \in DOMAIN c
      BY <1>5, <1>6, <2>1
    <3>3. j + 1 \in DOMAIN s => c[j + 1] = s[j + 1]
      BY <1>3, <1>5
    <3>4. j + 1 \notin DOMAIN s => c[j + 1] = l
      <4>1. j + 1 \notin DOMAIN s => j + 1 = Len(s) + 1
        BY <1>5, <2>1
      <4>. QED BY <4>1, <1>6
    <3>. QED BY <3>1, <3>2, <3>3, <3>4 DEF InAnswer, l
  <2>2. CASE j = Len(s) + 1
    <3>1. j + 1 \in DOMAIN c /\ j + 1 = Len(s) + 2
      BY <1>5, <1>6, <2>2
    <3>. QED BY <3>1, <1>6, <2>2 DEF InAnswer, l
  <2>3. CASE j = Len(s) + 2
    <3>1. j + 1 \in DOMAIN c /\ j + 1 = Len(s) + 3
      BY <1>5, <1>6, <2>3
    <3>. QED BY <3>1, <1>6, <2>3 DEF InAnswer
  <2>4. CASE j = Len(s) + 3
    <3>1. j + 1 \in DOMAIN c /\ j + 1 = Len(s) + 4
      BY <1>5, <1>6, <2>4
    <3>. QED BY <3>1, <1>6, <2>4 DEF InAnswer
  <2>5. CASE j = Len(s) + 4
    <3>1. j + 1 \notin DOMAIN c
      BY <1>5, <1>6, <2>5
    <3>. QED BY <3>1, <1>6, <2>5 DEF InAnswer
  <2>. QED BY <1>5, <1>6, <2>1, <2>2, <2>3, <2>4, <2>5
<1>. QED BY <1>7 DEF Answers, c, a, l

LEMMA FollowCat ==
  ASSUME isXemu = TRUE, NEW s \in Seq(Lines), AnswersFollow(s)
  PROVE  AnswersFollow(Cat(s, Answer(XemuProbe)))
<1>. DEFINE l == XemuProbe  a == Answer(l)  c == Cat(s, a)  e == <<>>
<1>1. l.kind = "probe" /\ l = Probe(0) /\ 0 \in 0 .. Retries /\ isXemu \in BOOLEAN
  BY RetriesAssumption DEF XemuProbe, Probe
<1>. HIDE DEF l
<1>2. /\ a \in Seq(Lines) /\ From(a, 1) = a
      /\ \A i \in DOMAIN a : a[i].kind = "probe" => i = 1
  BY <1>1, AnswerProbes
<1>3. \A r \in Seq(Lines) : Answers(r) => Answers(Cat(r, a))
  BY AnswersCat DEF l
<1>4. Answers(a)
  <2>1. e \in Seq(Lines) /\ Answers(e)
    BY EmptySeq DEF Answers
  <2>. HIDE DEF e, a
  <2>2. Answers(Cat(e, a))
    BY <1>3, <2>1
  <2>3. Cat(e, a) = a
    <3>1. a \in Seq(Lines)
      BY <1>2
    <3>. QED BY <3>1, CatEmpty DEF e
  <2>. QED BY <2>2, <2>3
<1>. HIDE DEF l, a
<1>5. ASSUME NEW i \in DOMAIN c, c[i] = l
      PROVE  Answers(From(c, i))
  <2>1. CASE i \in DOMAIN s /\ c[i] = s[i] /\ From(c, i) = Cat(From(s, i), a)
    <3>. DEFINE r == From(s, i)
    <3>1. i \in 1 .. Len(s) + 1
      BY <2>1, LenProperties
    <3>2. r \in Seq(Lines)
      BY <3>1, Froms
    <3>3. Answers(r)
      BY <2>1, <1>5 DEF AnswersFollow, l
    <3>. HIDE DEF r
    <3>4. Answers(Cat(r, a))
      BY <3>2, <3>3, <1>3
    <3>. QED BY <2>1, <3>4 DEF r
  <2>2. CASE \E j \in DOMAIN a : c[i] = a[j] /\ From(c, i) = From(a, j)
    BY <2>2, <1>1, <1>2, <1>4, <1>5
  <2>3. \/ i \in DOMAIN s /\ c[i] = s[i] /\ From(c, i) = Cat(From(s, i), a)
        \/ \E j \in DOMAIN a : c[i] = a[j] /\ From(c, i) = From(a, j)
    <3>1. a \in Seq(Lines)
      BY <1>2
    <3>. QED BY <3>1, CatPlaces
  <2>. QED BY <2>1, <2>2, <2>3
<1>6. AnswersFollow(c)
  BY <1>5 DEF AnswersFollow, l
<1>. QED BY <1>6 DEF l, a, c

-----------------------------------------------------------------------------
(***************************************************************************)
(* The invariant, action by action.                                        *)
(***************************************************************************)
LEMMA SeenIs == Seen = Cat(lines, Unread) /\ Seen' = Cat(lines', Unread')
BY Zenon DEF Seen, Cat

LEMMA Fixed ==
  ASSUME isXemu' = isXemu
  PROVE  /\ Body' = Body /\ Resume0' = Resume0
         /\ (Probe(retries))' = Probe(retries')
         /\ (Answer(Probe(retries)))' = Answer(Probe(retries'))
         /\ (Answer(XemuProbe))' = Answer(XemuProbe)
<1>1. Prompt' = Prompt
  BY DEF Prompt
<1>2. (Probe(retries))' = Probe(retries')
  BY DEF Probe
<1>. QED BY <1>1, <1>2, Zenon DEF Body, Resume0, Answer

LEMMA KeepsUnread ==
  ASSUME TypeOK, KeepsProbes(Unread', Unread)
  PROVE  /\ NoProbe(Unread) => NoProbe(Unread')
         /\ NumberedFrom(retries, Unread) => NumberedFrom(retries, Unread')
         /\ AnswersFollow(Unread) => AnswersFollow(Unread')
BY KeepsWhatHolds

LEMMA SameUnread ==
  ASSUME UNCHANGED <<buffer, conn, air>>
  PROVE  Unread' = Unread /\ Rest' = Rest
BY UnreadIs

\* A line that was taken is no longer unread, but seen.
LEMMA SeenOnTake ==
  ASSUME TypeOK, Deliver, Unread' = Tail(Unread), lines' = Append(lines, FirstLine)
  PROVE  Seen' = Seen
<1>1. lines \in Seq(Lines) /\ Unread \in Seq(Lines) /\ Unread # <<>> /\ FirstLine = Unread[1]
  BY UnreadTypes, DeliverFirst DEF TypeOK
<1>. DEFINE x == FirstLine  h == <<x>>  u == Unread  r == Tail(u)
<1>2. x \in Lines /\ h \in Seq(Lines) /\ r \in Seq(Lines) /\ h # <<>> /\ Head(h) = x /\ Tail(h) = <<>>
      /\ x = Head(u)
  BY <1>1, DeliverTypes
<1>3. Append(lines, x) = Cat(lines, h)
  <2>1. lines \in Seq(Lines) /\ x \in Lines
    BY <1>1, <1>2
  <2>2. Append(lines, x) = lines \o <<x>>
    BY <2>1, AppendIsConcat
  <2>. QED BY <2>2, Zenon DEF Cat, h
<1>4. Cat(h, r) = u
  <2>1. u \in Seq(Lines) /\ 1 \in 1 .. Len(u) /\ Len(u) \in 1 .. Len(u)
    BY <1>1, EmptySeq, LenProperties
  <2>2. SubSeq(u, 1, Len(u)) = <<u[1]>> \o SubSeq(u, 1 + 1, Len(u))
    BY <2>1, SubSeqRecursiveFirst
  <2>3. SubSeq(u, 1, Len(u)) = u /\ r = SubSeq(u, 2, Len(u))
    BY <1>1, SubSeqFull, TailIsSubSeq
  <2>4. u = <<u[1]>> \o r
    BY <2>2, <2>3
  <2>5. u = <<x>> \o r
    BY <2>4, <1>1
  <2>. QED BY <2>5, Zenon DEF Cat, h
<1>. HIDE DEF h, r, x, u
<1>5. Cat(Cat(lines, h), r) = Cat(lines, Cat(h, r))
  BY <1>1, <1>2, CatCat
<1>6. Seen' = Cat(Cat(lines, h), r)
  BY <1>3, SeenIs DEF x, r, u
<1>. QED BY <1>4, <1>5, <1>6, SeenIs DEF u

\* The prompt that ends an answer is the last of it.
LEMMA SeenOnPrompt ==
  ASSUME TypeOK, Deliver, FirstLine = Dot, \A i \in DOMAIN Seen : Seen[i] = Dot => i = Len(Seen)
  PROVE  Len(Unread) = 1
<1>1. /\ lines \in Seq(Lines) /\ Unread \in Seq(Lines) /\ Len(Unread) >= 1 /\ Unread[1] = Dot
      /\ Len(Unread) \in Nat /\ Len(lines) \in Nat
  BY UnreadTypes, DeliverFirst, LenProperties DEF TypeOK
<1>t. lines \in Seq(Lines) /\ Unread \in Seq(Lines)
  BY <1>1
<1>2. Seen \in Seq(Lines) /\ Len(Seen) = Len(lines) + Len(Unread)
  BY <1>t, SeenIs, Cats
<1>3. \A i \in 1 .. Len(Unread) : Seen[Len(lines) + i] = Unread[i]
  <2>1. \A i \in 1 .. Len(Unread) : Cat(lines, Unread)[Len(lines) + i] = Unread[i]
    BY <1>t, Cats
  <2>. QED BY <2>1, SeenIs
<1>4. Seen[Len(lines) + 1] = Dot
  BY <1>1, <1>3
<1>5. Len(lines) + 1 \in DOMAIN Seen
  BY <1>1, <1>2, LenProperties
<1>. DEFINE m == Len(lines)  n == Len(Unread)
<1>6. m + 1 = Len(Seen)
  BY <1>4, <1>5
<1>7. m + 1 = m + n /\ m \in Nat /\ n \in Nat
  BY <1>1, <1>2, <1>6
<1>. HIDE DEF m, n
<1>8. n = 1
  BY <1>7
<1>. QED BY <1>8 DEF n

\* What was taken is the beginning of what is seen.
LEMMA SeenBegins ==
  ASSUME TypeOK
  PROVE  /\ lines = <<>> => Seen = Unread
         /\ \A i \in 1 .. Len(lines) : Seen[i] = lines[i]
         /\ Unread # <<>> => Seen[Len(lines) + 1] = Unread[1]
         /\ lines # <<>> => Len(lines) >= 1
         /\ Len(lines) \in Nat /\ Seen \in Seq(Lines)
         /\ Unread = <<>> => Seen = lines
<1>1. lines \in Seq(Lines) /\ Unread \in Seq(Lines)
  BY UnreadTypes DEF TypeOK
<1>2. Seen \in Seq(Lines) /\ \A i \in 1 .. Len(lines) : Seen[i] = lines[i]
  BY <1>1, SeenIs, Cats
<1>3. \A i \in 1 .. Len(Unread) : Seen[Len(lines) + i] = Unread[i]
  <2>1. \A i \in 1 .. Len(Unread) : Cat(lines, Unread)[Len(lines) + i] = Unread[i]
    BY <1>1, Cats
  <2>. QED BY <2>1, SeenIs
<1>4. Len(Unread) \in Nat /\ (Unread # <<>> => 1 \in 1 .. Len(Unread))
  BY <1>1, EmptySeq, LenProperties
<1>5. (lines # <<>> => Len(lines) >= 1) /\ Len(lines) \in Nat
  BY <1>1, EmptySeq, LenProperties
<1>6. (lines = <<>> => Seen = Unread) /\ (Unread = <<>> => Seen = lines)
  BY <1>1, SeenIs, CatEmpty
<1>. QED BY <1>2, <1>3, <1>4, <1>5, <1>6

LEMMA Ending ==
  ASSUME Attempts, pc' = "failed", UNCHANGED <<alive, loading, isXemu, prompt>>,
         Unread' = Unread
  PROVE  Attempts'
BY DEF Attempts, ProbesAreAnswered, AttemptsAreNumbered, AttemptsAreFlushed, NothingElseComes,
       AnswersAreWhole, Certain

-----------------------------------------------------------------------------
LEMMA StepOpen ==
  ASSUME TypeOK, TypeOK', Attempts, Open
  PROVE  Attempts'
<1>1. /\ pc = "open" /\ ~isXemu /\ UNCHANGED <<alive, loading, isXemu, prompt, retries, lines>>
  BY DEF Open, TypeOK, setting, target
<1>2. CASE pc' = "failed"
  <2>1. UNCHANGED <<buffer, conn, air>>
    BY <1>2 DEF Open, wire
  <2>. QED BY <1>1, <1>2, <2>1, SameUnread, Ending
<1>3. CASE pc' # "failed"
  <2>1. Flush /\ pc' = "ask"
    BY <1>3 DEF Open
  <2>2. /\ NoProbe(Unread) => NoProbe(Unread')
        /\ NumberedFrom(retries, Unread) => NumberedFrom(retries, Unread')
    BY <2>1, FlushEffect, KeepsUnread
  <2>3. NumberedFrom(retries', Unread')
    BY <1>1, <2>2 DEF Attempts, AttemptsAreNumbered
  <2>. QED BY <1>1, <2>1, <2>2, <2>3
           DEF Attempts, ProbesAreAnswered, AttemptsAreNumbered, AttemptsAreFlushed,
               NothingElseComes, AnswersAreWhole, Certain
<1>. QED BY <1>2, <1>3

LEMMA StepAsk ==
  ASSUME TypeOK, TypeOK', Attempts, Ask
  PROVE  Attempts'
<1>1. /\ pc = "ask" /\ pc' = "echo" /\ retries \in 0 .. Retries /\ retries' = retries - 1
      /\ retries' \in 0 .. Retries
      /\ UNCHANGED <<alive, isXemu, prompt, conn, buffer, lines>> /\ isXemu \in BOOLEAN
  BY RetriesAssumption DEF Ask, TypeOK, setting
<1>. DEFINE l == Probe(retries')  reply == Answer(l)
<1>2. /\ l \in Lines /\ l.kind = "probe" /\ (isXemu => l = XemuProbe)
      /\ reply \in Seq(Lines) /\ (~isXemu => NumberedFrom(retries', reply))
  BY <1>1, ProbeFacts, AnswerProbes
<1>3. Write(reply)
  BY DEF Ask
<1>4. /\ (Probe(retries))' = l /\ (Answer(Probe(retries)))' = reply
      /\ (Answer(XemuProbe))' = Answer(XemuProbe)
  BY <1>1, Fixed
<1>5. Unread \in Seq(Lines) /\ Rest \in Seq(Lines)
  BY UnreadTypes
<1>6. /\ ~NoProbe(Unread) => alive /\ loading = "none"
      /\ ~isXemu => NumberedFrom(retries, Unread)
      /\ isXemu /\ prompt => NoProbe(buffer) /\ Rest = <<>>
      /\ isXemu => AnswersFollow(Unread)
  BY <1>1 DEF Attempts, ProbesAreAnswered, AttemptsAreNumbered, AttemptsAreFlushed, AnswersAreWhole
<1>7. ~isXemu => EndsWith(l, reply, Cat(Unread, reply))
  <2>. SUFFICES ASSUME ~isXemu PROVE EndsWith(l, reply, Cat(Unread, reply))
    OBVIOUS
  <2>. DEFINE n == retries'
  <2>1. n \in 0 .. Retries /\ n + 1 = retries /\ isXemu = FALSE
    BY <1>1
  <2>. HIDE DEF n
  <2>2. EndsWith(Probe(n), Answer(Probe(n)), Cat(Unread, Answer(Probe(n))))
    BY <1>5, <1>6, <2>1, EndsCat
  <2>. QED BY <2>2 DEF n
<1>8. isXemu => AnswersFollow(Cat(Unread, reply))
  <2>. SUFFICES ASSUME isXemu PROVE AnswersFollow(Cat(Unread, reply))
    OBVIOUS
  <2>1. isXemu = TRUE
    BY <1>1
  <2>2. AnswersFollow(Cat(Unread, Answer(XemuProbe)))
    BY <1>5, <1>6, <2>1, FollowCat
  <2>3. l = XemuProbe
    BY <1>2
  <2>. QED BY <2>2, <2>3
<1>9. isXemu => reply = Answer(XemuProbe)
  BY <1>2
<1>. HIDE DEF l, reply
<1>10. ~isXemu => NumberedFrom(retries', Unread)
  <2>1. \A x \in Int : x >= retries => x >= retries'
    BY <1>1
  <2>2. ASSUME NEW i \in DOMAIN Unread, Unread[i].kind = "probe"
        PROVE  Unread[i].attempt \in Int
    <3>1. Unread[i] \in Lines
      BY <1>5, ElementOfSeq
    <3>2. Unread[i] \in Probes
      BY <2>2, <3>1, LineFacts DEF Lines
    <3>. QED BY <3>2 DEF Probes
  <2>. QED BY <1>6, <2>1, <2>2 DEF NumberedFrom
<1>11. CASE alive /\ loading = "none" /\ loading' = "none"
            /\ Unread' = Cat(Unread, reply) /\ Rest' = Cat(Rest, reply)
  <2>1. ~isXemu => NumberedFrom(retries', Unread')
    BY <1>2, <1>5, <1>10, <1>11, NumberedCat
  <2>2. ~isXemu => EndsWith(l, reply, Unread')
    BY <1>7, <1>11
  <2>3. isXemu => AnswersFollow(Unread')
    BY <1>8, <1>11
  <2>4. isXemu /\ prompt => NoProbe(buffer') /\ Rest' = Answer(XemuProbe)
    BY <1>1, <1>2, <1>6, <1>9, <1>11, CatEmpty
  <2>5. alive' /\ loading' = "none"
    BY <1>1, <1>11
  <2>. QED BY <1>1, <1>4, <2>1, <2>2, <2>3, <2>4, <2>5
           DEF Attempts, ProbesAreAnswered, AttemptsAreNumbered, AttemptsAreFlushed,
               NothingElseComes, AnswersAreWhole, Certain
<1>12. CASE ~(alive /\ loading = "none")
             /\ \E w \in Seq(Lines) : NoProbe(w) /\ Unread' = Cat(Unread, w) /\ Rest' = Cat(Rest, w)
  <2>1. PICK w \in Seq(Lines) : NoProbe(w) /\ Unread' = Cat(Unread, w) /\ Rest' = Cat(Rest, w)
    BY <1>12
  <2>2. NoProbe(Unread)
    BY <1>6, <1>12
  <2>3. NoProbe(Unread')
    BY <2>1, <2>2, <1>5, NoProbes
  <2>4. /\ NumberedFrom(retries', Unread') /\ AnswersFollow(Unread')
        /\ EndsWith(l, reply, Unread')
    BY <2>3, <1>1, NoProbeHolds DEF l
  <2>5. NoProbe(Rest) => NoProbe(Rest')
    BY <2>1, <1>5, NoProbes
  <2>6. isXemu /\ prompt => NoProbe(buffer') /\ NoProbe(Rest')
    <3>1. NoProbe(<<>>)
      BY DEF NoProbe
    <3>. QED BY <2>5, <3>1, <1>1, <1>6
  <2>. QED BY <1>1, <1>4, <2>3, <2>4, <2>6
           DEF Attempts, ProbesAreAnswered, AttemptsAreNumbered, AttemptsAreFlushed,
               NothingElseComes, AnswersAreWhole, Certain
<1>13. Write(reply) /\ UNCHANGED <<conn, buffer, alive>>
  BY <1>1, <1>3 DEF reply
<1>. QED BY <1>2, <1>11, <1>12, <1>13, WriteEffect

LEMMA StepFill ==
  ASSUME TypeOK, TypeOK', Attempts, Fill
  PROVE  Attempts'
<1>1. /\ pc \in {"echo", "lines", "t0"} /\ buffer = <<>> /\ buffer' = conn /\ conn' = <<>>
      /\ UNCHANGED <<alive, loading, isXemu, prompt, air, retries, lines, pc>>
  BY DEF Fill, setting, target, control
<1>2. air \in Seq(Lines) /\ Rest \in Seq(Lines) /\ Unread = Rest /\ Rest = Cat(conn, air)
      /\ (NoProbe(Rest) => NoProbe(conn) /\ NoProbe(air))
  BY <1>1, UnreadTypes, UnreadIs DEF TypeOK
<1>3. Rest' = air
  BY <1>1, <1>2, UnreadIs, CatEmpty
<1>4. Unread' = Unread
  BY <1>1, <1>2, <1>3, UnreadIs
<1>5. Seen' = Seen
  BY <1>1, <1>4, SeenIs
<1>6. /\ Body' = Body /\ Resume0' = Resume0 /\ (Probe(retries))' = Probe(retries)
      /\ (Answer(Probe(retries)))' = Answer(Probe(retries))
      /\ (Answer(XemuProbe))' = Answer(XemuProbe)
  BY <1>1, Fixed
<1>7. AttemptsAreFlushed'
  BY <1>1, <1>2, <1>3, <1>4, <1>6 DEF Attempts, AttemptsAreFlushed
<1>. QED BY <1>1, <1>4, <1>5, <1>6, <1>7
         DEF Attempts, ProbesAreAnswered, AttemptsAreNumbered,
             NothingElseComes, AnswersAreWhole, Certain

LEMMA StepArrive ==
  ASSUME TypeOK, TypeOK', Attempts, Arrive
  PROVE  Attempts'
<1>1. /\ air # <<>> /\ conn' = Append(conn, Head(air)) /\ air' = Tail(air)
      /\ UNCHANGED <<alive, loading, isXemu, prompt, buffer, retries, lines, pc>>
  BY DEF Arrive, setting, target, control
<1>2. conn \in Seq(Lines) /\ air \in Seq(Lines)
  BY DEF TypeOK
<1>. DEFINE x == Head(air)  h == <<x>>  r == Tail(air)
<1>3. x \in Lines /\ h \in Seq(Lines) /\ r \in Seq(Lines) /\ x = air[1]
  BY <1>1, <1>2
<1>4. Append(conn, x) = Cat(conn, h)
  <2>1. Append(conn, x) = conn \o <<x>>
    BY <1>2, <1>3, AppendIsConcat
  <2>. QED BY <2>1, Zenon DEF Cat, h
<1>5. Cat(h, r) = air
  <2>1. 1 \in 1 .. Len(air) /\ Len(air) \in 1 .. Len(air)
    BY <1>1, <1>2, EmptySeq, LenProperties
  <2>2. SubSeq(air, 1, Len(air)) = <<air[1]>> \o SubSeq(air, 1 + 1, Len(air))
    BY <1>2, <2>1, SubSeqRecursiveFirst
  <2>3. SubSeq(air, 1, Len(air)) = air /\ r = SubSeq(air, 2, Len(air))
    BY <1>1, <1>2, SubSeqFull, TailIsSubSeq
  <2>4. air = <<air[1]>> \o r
    BY <2>2, <2>3
  <2>5. air = <<x>> \o r
    BY <2>4, <1>3
  <2>. QED BY <2>5, Zenon DEF Cat, h
<1>. HIDE DEF h, r, x
<1>6. Cat(Cat(conn, h), r) = Cat(conn, Cat(h, r))
  BY <1>2, <1>3, CatCat
<1>7. Rest' = Cat(Cat(conn, h), r)
  BY <1>1, <1>4, UnreadIs DEF x, r
<1>8. Rest' = Rest
  BY <1>5, <1>6, <1>7, UnreadIs
<1>9. Unread' = Unread
  BY <1>1, <1>8, UnreadIs
<1>10. Seen' = Seen
  BY <1>1, <1>9, SeenIs
<1>11. /\ Body' = Body /\ Resume0' = Resume0 /\ (Probe(retries))' = Probe(retries)
       /\ (Answer(Probe(retries)))' = Answer(Probe(retries))
       /\ (Answer(XemuProbe))' = Answer(XemuProbe)
  BY <1>1, Fixed
<1>. QED BY <1>1, <1>8, <1>9, <1>10, <1>11
         DEF Attempts, ProbesAreAnswered, AttemptsAreNumbered, AttemptsAreFlushed,
             NothingElseComes, AnswersAreWhole, Certain

LEMMA StepTakeEcho ==
  ASSUME TypeOK, TypeOK', Attempts, TakeEcho
  PROVE  Attempts'
<1>1. /\ pc = "echo" /\ Deliver /\ lines' = <<>> /\ isXemu \in BOOLEAN
      /\ pc' = IF FirstLine = Probe(retries) THEN "lines" ELSE "flush"
      /\ UNCHANGED <<alive, loading, isXemu, prompt, retries>>
  BY DEF TakeEcho, setting, target, TypeOK
<1>2. /\ ~NoProbe(Unread) => alive /\ loading = "none"
      /\ ~isXemu => /\ NumberedFrom(retries, Unread)
                    /\ EndsWith(Probe(retries), Answer(Probe(retries)), Unread)
      /\ isXemu /\ prompt => \/ NoProbe(buffer)
                             \/ Unread = Answer(XemuProbe)
      /\ isXemu => AnswersFollow(Unread)
  BY <1>1 DEF Attempts, ProbesAreAnswered, AttemptsAreNumbered, AttemptsAreFlushed, AnswersAreWhole
<1>3. /\ buffer # <<>> /\ Unread # <<>> /\ FirstLine = Unread[1] /\ FirstLine = buffer[1]
      /\ Len(Unread) >= 1 /\ Len(Unread) \in Nat
      /\ Tail(Unread) = From(Unread, 2)
  BY <1>1, DeliverFirst
<1>4. /\ Unread \in Seq(Lines) /\ buffer \in Seq(Lines) /\ From(Unread, 1) = Unread
      /\ 1 \in DOMAIN Unread /\ 1 \in DOMAIN buffer
      /\ (NoProbe(Unread) => NoProbe(buffer))
  <2>1. Unread \in Seq(Lines) /\ buffer \in Seq(Lines) /\ (NoProbe(Unread) => NoProbe(buffer))
    BY UnreadTypes DEF TypeOK
  <2>2. From(Unread, 1) = Unread
    BY <2>1, FromFirst
  <2>3. 1 \in DOMAIN Unread
    BY <2>1, <1>3, LenProperties
  <2>4. 1 \in DOMAIN buffer
    BY <2>1, <1>3, EmptySeq, LenProperties
  <2>. QED BY <2>1, <2>2, <2>3, <2>4
<1>5. Probe(retries).kind = "probe" /\ Probe(retries) \in Lines /\ (isXemu => Probe(retries) = XemuProbe)
  BY <1>1, ProbeFacts DEF TypeOK
<1>6. Body' = Body
  BY <1>1, Fixed
<1>7. CASE FirstLine = Probe(retries)
  <2>1. FirstLine # Dot
    BY <1>5, <1>7, LineFacts
  <2>2. Unread' = Tail(Unread)
    BY <1>1, <2>1, DeliverEffect
  <2>3. ~NoProbe(Unread) /\ ~NoProbe(buffer)
    BY <1>3, <1>4, <1>5, <1>7 DEF NoProbe
  <2>4. alive' /\ loading' = "none"
    BY <1>1, <1>2, <2>3
  <2>5. pc' = "lines" /\ Seen' = Unread'
    <3>1. pc' = "lines"
      BY <1>1, <1>7
    <3>2. TypeOK' /\ lines' = <<>> => Seen' = Unread'
      <4>1. Unread' \in Seq(Lines)
        BY <2>2, <1>3, <1>4
      <4>. QED BY <4>1, SeenIs, CatEmpty
    <3>. QED BY <1>1, <3>1, <3>2
  <2>6. ~isXemu \/ prompt => Unread = Answer(Probe(retries))
    <3>1. ~isXemu => From(Unread, 1) = Answer(Probe(retries))
      BY <1>2, <1>3, <1>4, <1>7 DEF EndsWith
    <3>. QED BY <3>1, <1>2, <1>4, <1>5, <2>3
  <2>7. ~isXemu \/ prompt => Unread' = Body /\ Unread' # <<>> /\ Unread'[1] = Ident
    <3>1. Tail(Answer(Probe(retries))) = Body
      BY <1>1, <1>5, AnswerFacts
    <3>2. Body # <<>> /\ Body[1] = Ident
      <4>1. Body \in Seq(Lines) /\ Len(Body) = 2 + Len(Prompt) /\ Body[1] = Ident /\ Len(Prompt) \in Nat
        BY <1>1, BodyFacts, PromptFacts
      <4>. QED BY <4>1, EmptySeq
    <3>. QED BY <2>2, <2>6, <3>1, <3>2
  <2>8. isXemu => Answers(Unread)
    BY <1>2, <1>3, <1>4, <1>5, <1>7 DEF AnswersFollow
  <2>9. isXemu => Answers(Unread')
    <3>1. 2 \in 1 .. Len(Unread) + 1
      BY <1>3
    <3>. QED BY <1>3, <1>4, <2>2, <2>8, <3>1, AnswersSuffix
  <2>10. isXemu => Unread' # <<>> /\ Unread'[1] = Ident
    <3>. SUFFICES ASSUME isXemu PROVE Unread' # <<>> /\ Unread'[1] = Ident
      OBVIOUS
    <3>1. Unread[1] = XemuProbe /\ XemuProbe.kind = "probe"
      BY <1>3, <1>5, <1>7
    <3>2. InAnswer(Unread, 1)
      BY <2>8, <1>4 DEF Answers
    <3>3. 1 + 1 \in DOMAIN Unread /\ Unread[1 + 1] = Ident
      BY <3>1, <3>2, LineFacts DEF InAnswer
    <3>4. 2 \in 1 .. Len(Unread) /\ Unread[2] = Ident
      BY <3>3, <1>4, LenProperties
    <3>. DEFINE t == Tail(Unread)
    <3>5. t \in Seq(Lines) /\ Len(t) = Len(Unread) - 1 /\ \A i \in 1 .. Len(t) : t[i] = Unread[i + 1]
      BY <1>3, <1>4, HeadTailProperties
    <3>. HIDE DEF t
    <3>6. 1 \in 1 .. Len(t)
      BY <3>4, <3>5, <1>3
    <3>7. t[1] = Ident /\ t # <<>>
      BY <3>4, <3>5, <3>6
    <3>. QED BY <2>2, <3>7 DEF t
  <2>. QED BY <1>1, <1>6, <2>4, <2>5, <2>7, <2>9, <2>10
           DEF Attempts, ProbesAreAnswered, AttemptsAreNumbered, AttemptsAreFlushed,
               NothingElseComes, AnswersAreWhole, Certain, Late
<1>8. CASE FirstLine # Probe(retries)
  <2>1. KeepsProbes(Unread', Unread) /\ pc' = "flush"
    BY <1>1, <1>8, DeliverEffect
  <2>2. /\ NoProbe(Unread) => NoProbe(Unread')
        /\ NumberedFrom(retries, Unread) => NumberedFrom(retries, Unread')
        /\ AnswersFollow(Unread) => AnswersFollow(Unread')
    BY <2>1, KeepsUnread
  <2>3. isXemu /\ prompt => NoProbe(buffer')
    <3>. SUFFICES ASSUME isXemu, prompt PROVE NoProbe(buffer')
      OBVIOUS
    <3>1. Unread # Answer(XemuProbe)
      <4>1. Answer(XemuProbe)[1] = XemuProbe
        BY <1>1, <1>5, AnswerFacts
      <4>. QED BY <4>1, <1>3, <1>5, <1>8
    <3>2. NoProbe(buffer)
      BY <1>2, <3>1
    <3>3. buffer' = Tail(buffer)
      BY <1>1, DeliverEffect
    <3>. QED BY <3>2, <3>3, <1>3, <1>4, HeadTailProperties DEF NoProbe
  <2>. QED BY <1>1, <1>2, <2>1, <2>2, <2>3
           DEF Attempts, ProbesAreAnswered, AttemptsAreNumbered, AttemptsAreFlushed,
               NothingElseComes, AnswersAreWhole, Certain
<1>. QED BY <1>7, <1>8

LEMMA StepMissEcho ==
  ASSUME TypeOK, TypeOK', Attempts, MissEcho
  PROVE  Attempts'
<1>1. /\ pc = "echo" /\ pc' = "flush" /\ buffer = <<>> /\ conn = <<>> /\ isXemu \in BOOLEAN
      /\ UNCHANGED <<alive, isXemu, prompt, retries, conn, buffer>>
  BY DEF MissEcho, TimedOut, setting, TypeOK
<1>2. /\ ~NoProbe(Unread) => alive /\ loading = "none"
      /\ ~isXemu => NumberedFrom(retries, Unread)
      /\ isXemu => AnswersFollow(Unread)
  BY <1>1 DEF Attempts, ProbesAreAnswered, AttemptsAreNumbered, AnswersAreWhole
<1>3. NoProbe(buffer')
  BY <1>1 DEF NoProbe
<1>4. CASE air' = air
  <2>1. Unread' = Unread /\ loading' \in {loading, "none"}
    BY <1>1, <1>4, SameUnread DEF MissEcho, WriteDummy, target
  <2>. QED BY <1>1, <1>2, <1>3, <2>1
           DEF Attempts, ProbesAreAnswered, AttemptsAreNumbered, AttemptsAreFlushed,
               NothingElseComes, AnswersAreWhole, Certain
<1>5. CASE air' # air
  <2>1. alive /\ loading # "none" /\ air' = air \o Prompt
    BY <1>5 DEF MissEcho, WriteDummy
  <2>. DEFINE p == Prompt
  <2>2. air' = Cat(air, p)
    BY <2>1, Zenon DEF Cat
  <2>3. p \in Seq(Lines) /\ NoProbe(p)
    BY <1>1, PromptFacts
  <2>. HIDE DEF p
  <2>4. NoProbe(Unread)
    BY <1>2, <2>1
  <2>5. NoProbe(buffer) /\ NoProbe(conn) /\ NoProbe(air) /\ air \in Seq(Lines)
    BY <2>4, UnreadTypes DEF TypeOK
  <2>6. NoProbe(air')
    BY <2>2, <2>3, <2>5, NoProbes
  <2>7. NoProbe(Unread')
    <3>1. Rest' = air' /\ air' \in Seq(Lines)
      BY <1>1, UnreadIs, CatEmpty DEF TypeOK
    <3>2. Unread' = air'
      BY <1>1, <3>1, UnreadRest
    <3>. QED BY <2>6, <3>2
  <2>8. NumberedFrom(retries', Unread') /\ AnswersFollow(Unread')
    BY <1>1, <2>7, NoProbeHolds
  <2>. QED BY <1>1, <1>3, <2>7, <2>8
           DEF Attempts, ProbesAreAnswered, AttemptsAreNumbered, AttemptsAreFlushed,
               NothingElseComes, AnswersAreWhole, Certain
<1>. QED BY <1>4, <1>5

LEMMA StepTakeLine ==
  ASSUME TypeOK, TypeOK', Attempts, TakeLine
  PROVE  Attempts'
<1>1. /\ pc = "lines" /\ pc' = pc /\ Deliver /\ FirstLine # Dot /\ lines' = Append(lines, FirstLine)
      /\ UNCHANGED <<alive, loading, isXemu, prompt, retries>>
  BY DEF TakeLine, setting, target
<1>2. Unread' = Tail(Unread)
  BY <1>1, DeliverEffect
<1>3. Seen' = Seen
  BY <1>1, <1>2, SeenOnTake
<1>4. Unread \in Seq(Lines) /\ Tail(Unread) = From(Unread, 2) /\ 2 \in 1 .. Len(Unread) + 1
  BY <1>1, UnreadTypes, DeliverFirst
<1>5. isXemu => Answers(Unread')
  <2>1. isXemu => Answers(Unread)
    BY <1>1 DEF Attempts, AnswersAreWhole
  <2>. QED BY <1>2, <1>4, <2>1, AnswersSuffix
<1>6. Body' = Body
  BY <1>1, Fixed
<1>. QED BY <1>1, <1>3, <1>5, <1>6
         DEF Attempts, ProbesAreAnswered, AttemptsAreNumbered, AttemptsAreFlushed,
             NothingElseComes, AnswersAreWhole, Certain

\* What is behind the prompt of a late answer is another one, if anything.
LEMMA BehindPrompt ==
  ASSUME TypeOK, TypeOK', Deliver, isXemu, FirstLine = Dot, Answers(Unread)
  PROVE  Unread' \in {<<>>, <<Blank>>} \/ Opens(Unread')
<1>1. /\ Unread \in Seq(Lines) /\ Unread # <<>> /\ Unread[1] = Dot /\ Len(Unread) \in Nat
      /\ Len(Unread) >= 1
  BY UnreadTypes, DeliverFirst
<1>. DEFINE t == Tail(Unread)  b == <<Blank>>  c == Cat(b, t)
<1>2. t \in Seq(Lines) /\ Len(t) = Len(Unread) - 1 /\ \A i \in 1 .. Len(t) : t[i] = Unread[i + 1]
  BY <1>1, HeadTailProperties
<1>3. 1 \in DOMAIN Unread /\ DOMAIN Unread = 1 .. Len(Unread)
  BY <1>1, LenProperties
<1>4. InAnswer(Unread, 1)
  BY <1>3 DEF Answers
<1>5. Dot # XemuProbe /\ Dot # Ident /\ Dot # Junk
  BY LineFacts DEF XemuProbe
<1>6. 1 + 1 \in DOMAIN Unread => Unread[1 + 1] = XemuProbe
  BY <1>1, <1>4, <1>5 DEF InAnswer
<1>7. Unread' = t \/ Unread' = c
  BY DeliverEffect
<1>. HIDE DEF t
<1>8. t # <<>> => Len(t) >= 1 /\ t[1] = XemuProbe
  <2>. SUFFICES ASSUME t # <<>> PROVE Len(t) >= 1 /\ t[1] = XemuProbe
    OBVIOUS
  <2>1. Len(t) >= 1 /\ Len(t) \in Nat
    BY <1>2, EmptySeq, LenProperties
  <2>2. 1 \in 1 .. Len(t) /\ 2 \in 1 .. Len(Unread)
    BY <2>1, <1>1, <1>2
  <2>3. t[1] = Unread[1 + 1] /\ 1 + 1 \in DOMAIN Unread
    BY <2>2, <1>2, <1>3
  <2>. QED BY <2>1, <2>3, <1>6
<1>9. b \in Seq(Lines) /\ Len(b) = 1 /\ b[1] = Blank
  BY LineFacts
<1>b. b = <<Blank>>
  OBVIOUS
<1>. HIDE DEF b
<1>10. CASE t = <<>>
  <2>1. c = b
    BY <1>9, <1>10, CatEmpty
  <2>. QED BY <2>1, <1>b, <1>7, <1>10
<1>11. CASE t # <<>> /\ Unread' = t
  BY <1>8, <1>11 DEF Opens, Echoes
<1>12. CASE t # <<>> /\ Unread' = c
  <2>t. b \in Seq(Lines) /\ t \in Seq(Lines)
    BY <1>2, <1>9
  <2>1. Len(c) = Len(b) + Len(t) /\ \A i \in 1 .. Len(b) : c[i] = b[i]
    BY <2>t, Cats
  <2>2. \A i \in 1 .. Len(t) : c[Len(b) + i] = t[i]
    BY <2>t, Cats
  <2>. HIDE DEF c
  <2>3. Len(t) \in Nat /\ Len(t) >= 1
    BY <1>2, <1>8, <1>12, LenProperties
  <2>4. c[1] = Blank /\ c[2] = t[1] /\ Len(c) >= 2
    BY <2>1, <2>2, <2>3, <1>9
  <2>. QED BY <2>4, <1>8, <1>12 DEF Opens, Echoes
<1>. QED BY <1>7, <1>10, <1>11, <1>12

LEMMA StepTakePrompt ==
  ASSUME TypeOK, TypeOK', Attempts, TakePrompt
  PROVE  Attempts' /\ pc' # "undefined"
<1>1. /\ pc = "lines" /\ Deliver /\ FirstLine = Dot /\ lines' = <<>> /\ isXemu \in BOOLEAN
      /\ pc' = IF lines = <<>> THEN "undefined"
                       ELSE IF Head(lines) = Ident THEN Synced ELSE "flush"
      /\ UNCHANGED <<alive, loading, isXemu, prompt, retries>>
  BY DEF TakePrompt, setting, target, TypeOK
<1>2. /\ alive /\ loading = "none" /\ Seen # <<>> /\ Seen[1] = Ident
      /\ Certain => Seen = Body
      /\ isXemu => Answers(Unread)
  BY <1>1 DEF Attempts, ProbesAreAnswered, NothingElseComes, AnswersAreWhole, Late
<1>3. lines \in Seq(Lines) /\ Unread[1] = Dot /\ Unread # <<>>
  BY <1>1, DeliverFirst DEF TypeOK
<1>4. lines # <<>>
  <2>1. lines = <<>> => Seen = Unread
    BY SeenBegins
  <2>. QED BY <2>1, <1>2, <1>3, LineFacts
<1>5. Head(lines) = Ident
  <2>1. Seen[1] = lines[1]
    BY <1>4, SeenBegins
  <2>2. Head(lines) = lines[1]
    BY <1>3, <1>4, FromFirst
  <2>. QED BY <2>1, <2>2, <1>2
<1>6. pc' \in {"running", "reset", "resume"} /\ (pc' = "reset" => ~isXemu)
  BY <1>1, <1>4, <1>5 DEF Synced
<1>7. Certain => Unread' = <<>>
  <2>. SUFFICES ASSUME Certain PROVE Unread' = <<>>
    OBVIOUS
  <2>1. \A i \in DOMAIN Seen : Seen[i] = Dot => i = Len(Seen)
    BY <1>1, <1>2, BodyFacts
  <2>2. Len(Unread) = 1
    BY <1>1, <2>1, SeenOnPrompt
  <2>3. isXemu => prompt
    BY DEF Certain
  <2>. QED BY <1>1, <2>2, <2>3, DeliverLast
<1>8. isXemu => Unread' \in {<<>>, <<Blank>>} \/ Opens(Unread')
  BY <1>1, <1>2, BehindPrompt
<1>9. Certain' <=> Certain
  BY <1>1 DEF Certain
<1>. QED BY <1>1, <1>2, <1>6, <1>7, <1>8, <1>9
         DEF Attempts, ProbesAreAnswered, AttemptsAreNumbered, AttemptsAreFlushed,
             NothingElseComes, AnswersAreWhole

LEMMA StepMissPrompt ==
  ASSUME TypeOK, TypeOK', Attempts, MissPrompt
  PROVE  Attempts'
<1>1. /\ pc = "lines" /\ pc' = "flush" /\ buffer = <<>> /\ isXemu \in BOOLEAN
      /\ UNCHANGED <<alive, loading, isXemu, prompt, retries, buffer, conn, air>>
  BY DEF MissPrompt, TimedOut, setting, target, wire, TypeOK
<1>2. /\ alive /\ loading = "none"
      /\ ~isXemu => Seen = Body
      /\ isXemu => Answers(Unread)
  BY <1>1 DEF Attempts, ProbesAreAnswered, NothingElseComes, AnswersAreWhole, Certain
<1>3. Unread' = Unread /\ Unread \in Seq(Lines) /\ lines \in Seq(Lines)
  BY <1>1, SameUnread, UnreadTypes DEF TypeOK
<1>4. ~isXemu => NoProbe(Unread)
  <2>1. NoProbe(Body)
    BY <1>1, BodyFacts
  <2>2. NoProbe(Seen) => NoProbe(Unread)
    BY <1>3, SeenIs, NoProbes
  <2>. QED BY <1>2, <2>1, <2>2
<1>5. ~isXemu => NumberedFrom(retries, Unread)
  BY <1>1, <1>4, NoProbeHolds
<1>6. isXemu => AnswersFollow(Unread)
  BY <1>2, <1>3, AnswersHold
<1>7. NoProbe(buffer')
  BY <1>1 DEF NoProbe
<1>. QED BY <1>1, <1>2, <1>3, <1>5, <1>6, <1>7
         DEF Attempts, ProbesAreAnswered, AttemptsAreNumbered, AttemptsAreFlushed,
             NothingElseComes, AnswersAreWhole, Certain

LEMMA StepFlushAndRetry ==
  ASSUME TypeOK, TypeOK', Attempts, FlushAndRetry
  PROVE  Attempts'
<1>1. /\ pc = "flush" /\ pc' = "ask" /\ Flush
      /\ UNCHANGED <<alive, loading, isXemu, prompt, retries>>
  BY DEF FlushAndRetry, setting, target
<1>2. /\ KeepsProbes(Unread', Unread) /\ Rest' = air /\ (prompt => air = <<>>)
      /\ (buffer' # <<>> => buffer' = buffer /\ Rest' = Rest)
  BY <1>1, FlushEffect
<1>3. /\ NoProbe(Unread) => NoProbe(Unread')
      /\ NumberedFrom(retries, Unread) => NumberedFrom(retries, Unread')
      /\ AnswersFollow(Unread) => AnswersFollow(Unread')
  BY <1>2, KeepsUnread
<1>4. isXemu /\ prompt => NoProbe(buffer') /\ Rest' = <<>>
  <2>. SUFFICES ASSUME isXemu, prompt PROVE NoProbe(buffer') /\ Rest' = <<>>
    OBVIOUS
  <2>1. Rest' = <<>>
    BY <1>2
  <2>2. NoProbe(buffer) \/ Rest # <<>>
    BY <1>1 DEF Attempts, AttemptsAreFlushed
  <2>3. NoProbe(<<>>)
    BY DEF NoProbe
  <2>. QED BY <1>2, <2>1, <2>2, <2>3
<1>. QED BY <1>1, <1>3, <1>4
         DEF Attempts, ProbesAreAnswered, AttemptsAreNumbered, AttemptsAreFlushed,
             NothingElseComes, AnswersAreWhole, Certain

LEMMA StepReset ==
  ASSUME TypeOK, TypeOK', Attempts, Reset
  PROVE  Attempts'
<1>1. /\ pc = "reset" /\ pc' = "bang" /\ Write(Reset0) /\ ~isXemu /\ isXemu \in BOOLEAN
      /\ UNCHANGED <<alive, isXemu, prompt, retries, conn, buffer>>
  BY DEF Reset, TypeOK, setting
<1>2. alive /\ loading = "none" /\ Unread = <<>>
  BY <1>1 DEF Attempts, ProbesAreAnswered, NothingElseComes, Certain
<1>3. Reset0 \in Seq(Lines) /\ NoProbe(Reset0)
  BY <1>1, Reset0Facts
<1>4. Unread' = Cat(Unread, Reset0)
  BY <1>1, <1>2, <1>3, WriteEffect
<1>5. Unread' = Reset0
  BY <1>2, <1>3, <1>4, CatEmpty
<1>. QED BY <1>1, <1>3, <1>5
         DEF Attempts, ProbesAreAnswered, AttemptsAreNumbered, AttemptsAreFlushed,
             NothingElseComes, AnswersAreWhole, Certain

LEMMA StepRebooting ==
  ASSUME TypeOK, TypeOK', Attempts, Rebooting
  PROVE  Attempts'
<1>1. /\ pc = "bang" /\ ~isXemu /\ Len(conn) >= 2
      /\ UNCHANGED <<alive, loading, isXemu, prompt, air, buffer>>
  BY DEF Rebooting, TypeOK, setting, target
<1>2. CASE pc' = "failed"
  <2>1. conn' = conn
    BY <1>2 DEF Rebooting
  <2>. QED BY <1>1, <1>2, <2>1, SameUnread, Ending
<1>3. CASE pc' # "failed"
  <2>1. pc' = "reboot" /\ conn' = <<Blank>> \o From(conn, 3)
    BY <1>3 DEF Rebooting, From
  <2>2. /\ NoProbe(Unread) /\ conn \in Seq(Lines) /\ air \in Seq(Lines) /\ buffer \in Seq(Lines)
        /\ Len(conn) \in Nat
    BY <1>1, LenProperties DEF Attempts, AttemptsAreNumbered, TypeOK
  <2>3. NoProbe(buffer) /\ NoProbe(conn) /\ NoProbe(air)
    BY <2>2, UnreadTypes
  <2>. DEFINE b == <<Blank>>  r == From(conn, 3)  c == Cat(b, r)
  <2>4. b \in Seq(Lines) /\ NoProbe(b)
    BY LineFacts DEF NoProbe
  <2>5. r \in Seq(Lines) /\ NoProbe(r)
    <3>1. 3 \in 1 .. Len(conn) + 1
      BY <1>1, <2>2
    <3>2. KeepsProbes(r, conn) /\ r \in Seq(Lines)
      BY <2>2, <3>1, KeepsFrom
    <3>. QED BY <2>3, <3>2, KeepsWhatHolds
  <2>6. conn' = c
    BY <2>1, Zenon DEF Cat
  <2>. HIDE DEF b, r
  <2>7. c \in Seq(Lines) /\ NoProbe(c)
    BY <2>4, <2>5, NoProbes
  <2>. HIDE DEF c
  <2>. DEFINE d == Cat(c, air)
  <2>8. d \in Seq(Lines) /\ NoProbe(d)
    BY <2>2, <2>3, <2>7, NoProbes
  <2>9. Rest' = d
    BY <1>1, <2>6, UnreadIs
  <2>. HIDE DEF d
  <2>10. NoProbe(Cat(buffer, d))
    BY <2>2, <2>3, <2>8, NoProbes
  <2>11. NoProbe(Unread')
    BY <1>1, <2>9, <2>10, UnreadIs
  <2>. QED BY <1>1, <2>1, <2>11
           DEF Attempts, ProbesAreAnswered, AttemptsAreNumbered, AttemptsAreFlushed,
               NothingElseComes, AnswersAreWhole, Certain
<1>. QED BY <1>2, <1>3

LEMMA StepSyncAgain ==
  ASSUME TypeOK, TypeOK', Attempts, SyncAgain
  PROVE  Attempts'
<1>1. /\ pc = "reboot" /\ pc' = "ask" /\ Flush /\ ~isXemu /\ isXemu \in BOOLEAN
      /\ UNCHANGED <<alive, loading, isXemu, prompt>>
  BY DEF SyncAgain, TypeOK, setting, target
<1>2. NoProbe(Unread)
  BY <1>1 DEF Attempts, AttemptsAreNumbered
<1>3. NoProbe(Unread')
  BY <1>1, <1>2, FlushEffect, KeepsUnread
<1>4. NumberedFrom(retries', Unread')
  BY <1>1, <1>3, NoProbeHolds
<1>. QED BY <1>1, <1>3, <1>4
         DEF Attempts, ProbesAreAnswered, AttemptsAreNumbered, AttemptsAreFlushed,
             NothingElseComes, AnswersAreWhole, Certain

LEMMA StepResume ==
  ASSUME TypeOK, TypeOK', Attempts, Resume
  PROVE  Attempts'
<1>1. /\ pc = "resume" /\ pc' = "t0" /\ Write(Resume0) /\ isXemu \in BOOLEAN
      /\ lines = <<>> /\ lines' = <<>>
      /\ UNCHANGED <<alive, isXemu, prompt, retries, conn, buffer>>
  BY DEF Resume, TypeOK, setting
<1>2. /\ alive /\ loading = "none"
      /\ Certain => Unread = <<>>
      /\ isXemu => Unread \in {<<>>, <<Blank>>} \/ Opens(Unread)
  BY <1>1 DEF Attempts, ProbesAreAnswered, NothingElseComes, AnswersAreWhole
<1>. DEFINE r == Resume0  u == Unread  c == Cat(u, r)
<1>3. r \in Seq(Lines) /\ Len(r) = 1 + Len(Prompt) /\ r[1] = Echo("t0") /\ Len(Prompt) \in Nat
  BY <1>1, Resume0Facts, PromptFacts
<1>4. loading' = "none" /\ Unread' = c
  <2>1. r \in Seq(Lines) /\ Write(r) /\ UNCHANGED <<conn, buffer, alive>>
    BY <1>1, <1>3
  <2>. HIDE DEF r
  <2>. QED BY <1>2, <2>1, WriteEffect
<1>u. u \in Seq(Lines)
  BY UnreadTypes
<1>5. Seen' = c
  <2>1. c \in Seq(Lines)
    BY <1>3, <1>u, Cats
  <2>. HIDE DEF c
  <2>. QED BY <1>1, <1>4, <2>1, SeenIs, CatEmpty
<1>6. Certain => Seen' = Resume0
  <2>1. u = <<>> => c = r
    BY <1>3, CatEmpty
  <2>. QED BY <1>2, <1>5, <2>1
<1>b. <<Blank>> \in Seq(Lines) /\ Len(<<Blank>>) = 1
  BY LineFacts
<1>7. u = <<>> \/ u = <<Blank>> \/ Opens(u)
  BY <1>1, <1>2 DEF Certain
<1>r. Resume0' = Resume0 /\ (Certain' <=> Certain)
  BY <1>1, Fixed DEF Certain
<1>. HIDE DEF r, u
<1>t. r \in Seq(Lines) /\ u \in Seq(Lines)
  BY <1>3, <1>u
<1>8. /\ Len(c) = Len(u) + Len(r) /\ Len(u) \in Nat /\ Len(r) \in Nat
      /\ \A i \in 1 .. Len(u) : c[i] = u[i]
  <2>1. Len(c) = Len(u) + Len(r) /\ \A i \in 1 .. Len(u) : c[i] = u[i]
    BY <1>t, Cats
  <2>. QED BY <2>1, <1>t, LenProperties
<1>9. \A i \in 1 .. Len(r) : c[Len(u) + i] = r[i]
  BY <1>t, Cats
<1>. HIDE DEF c
<1>10. 1 \in 1 .. Len(r) /\ c[Len(u) + 1] = Echo("t0") /\ Len(c) >= Len(u) + 1
  BY <1>3, <1>8, <1>9
<1>11. Opens(c)
  <2>1. CASE u = <<>>
    <3>1. Len(u) = 0
      BY <2>1
    <3>. QED BY <3>1, <1>8, <1>10 DEF Opens, Echoes
  <2>2. CASE u = <<Blank>>
    <3>1. Len(u) = 1 /\ u[1] = Blank
      BY <2>2
    <3>2. c[1] = Blank /\ c[2] = Echo("t0") /\ Len(c) >= 2
      BY <3>1, <1>8, <1>10
    <3>. QED BY <3>2 DEF Opens, Echoes
  <2>3. CASE Opens(u)
    BY <2>3, <1>8 DEF Opens
  <2>. QED BY <1>7, <2>1, <2>2, <2>3
<1>. QED BY <1>1, <1>2, <1>4, <1>5, <1>6, <1>11, <1>r
         DEF Attempts, ProbesAreAnswered, AttemptsAreNumbered, AttemptsAreFlushed,
             NothingElseComes, AnswersAreWhole

\* Lines that open with an echo are not taken for a report, and there are some.
LEMMA NoReport ==
  ASSUME TypeOK, Deliver, FirstLine = Dot, Opens(Seen)
  PROVE  Resumed # "undefined"
<1>1. /\ Unread # <<>> /\ Unread[1] = Dot /\ lines \in Seq(Lines)
  BY DeliverFirst DEF TypeOK
<1>2. /\ lines = <<>> => Seen = Unread
      /\ \A i \in 1 .. Len(lines) : Seen[i] = lines[i]
      /\ Seen[Len(lines) + 1] = Dot
      /\ lines # <<>> => Len(lines) >= 1
      /\ Len(lines) \in Nat /\ DOMAIN lines = 1 .. Len(lines)
  BY <1>1, SeenBegins, LenProperties
<1>3. \A l \in Echoes : l # Dot /\ l # Blank /\ l # Bang /\ l # Header
  BY LineFacts DEF Echoes, XemuProbe
<1>4. Blank # Dot
  BY LineFacts
<1>5. CASE lines = <<>>
  BY <1>5 DEF Resumed
<1>6. CASE lines # <<>> /\ Seen[1] \in Echoes
  <2>1. 1 \in DOMAIN lines /\ lines[1] \in Echoes /\ Head(lines) = lines[1]
    BY <1>1, <1>2, <1>6, FromFirst
  <2>2. CASE lines[1] = Echo("t0")
    BY <1>6, <2>1, <2>2 DEF Resumed
  <2>3. CASE lines[1] # Echo("t0")
    <3>1. 1 \in Said
      BY <1>3, <2>1 DEF Said
    <3>2. lines[1] # Bang /\ lines[1] # Header
      BY <1>3, <2>1, <2>3
    <3>3. 1 \in Report
      BY <3>1, <3>2 DEF Report
    <3>4. \A j \in Report : 1 <= j
      BY <1>2 DEF Report, Said
    <3>5. ~IsReport
      BY <3>2, <3>3, <3>4 DEF IsReport, FirstOf
    <3>. QED BY <1>6, <2>1, <2>3, <3>5 DEF Resumed
  <2>. QED BY <2>2, <2>3
<1>7. CASE lines # <<>> /\ Seen[1] = Blank /\ Seen[2] \in Echoes
  <2>1. Len(lines) # 1
    <3>1. ASSUME Len(lines) = 1
          PROVE  FALSE
      <4>1. Seen[2] = Dot
        BY <3>1, <1>2
      <4>. QED BY <4>1, <1>3, <1>7
    <3>. QED BY <3>1
  <2>2. 1 \in DOMAIN lines /\ 2 \in DOMAIN lines /\ lines[1] = Blank /\ lines[2] \in Echoes
        /\ Head(lines) = lines[1]
    <3>1. 1 \in 1 .. Len(lines) /\ 2 \in 1 .. Len(lines)
      BY <1>2, <1>7, <2>1
    <3>. QED BY <3>1, <1>1, <1>2, <1>7, FromFirst
  <2>3. 2 \in Said /\ 1 \notin Said
    BY <1>3, <2>2 DEF Said
  <2>4. lines[2] # Bang /\ lines[2] # Header
    BY <1>3, <2>2
  <2>5. 2 \in Report
    BY <2>3, <2>4 DEF Report
  <2>6. \A j \in Report : 2 <= j
    BY <1>2, <2>3 DEF Report, Said
  <2>7. ~IsReport
    BY <2>4, <2>5, <2>6 DEF IsReport, FirstOf
  <2>8. Head(lines) # Echo("t0")
    BY <2>2, LineFacts
  <2>. QED BY <1>7, <2>7, <2>8 DEF Resumed
<1>8. Seen[1] \in Echoes \/ (Seen[1] = Blank /\ Seen[2] \in Echoes)
  BY DEF Opens
<1>. QED BY <1>5, <1>6, <1>7, <1>8

LEMMA StepTakeResumeLine ==
  ASSUME TypeOK, TypeOK', Attempts, TakeResumeLine
  PROVE  Attempts' /\ pc' # "undefined"
<1>1. /\ pc = "t0" /\ Deliver /\ isXemu \in BOOLEAN
      /\ UNCHANGED <<alive, loading, isXemu, prompt, retries>>
  BY DEF TakeResumeLine, setting, target, TypeOK
<1>2. /\ alive /\ loading = "none" /\ Opens(Seen)
      /\ Certain => Seen = Resume0
  BY <1>1 DEF Attempts, ProbesAreAnswered, NothingElseComes, AnswersAreWhole
<1>3. (Certain' <=> Certain) /\ Resume0' = Resume0
  BY <1>1, Fixed DEF Certain
<1>4. CASE FirstLine # Dot
  <2>1. pc' = pc /\ lines' = Append(lines, FirstLine)
    BY <1>4 DEF TakeResumeLine
  <2>2. Unread' = Tail(Unread)
    BY <1>1, <1>4, DeliverEffect
  <2>3. Seen' = Seen
    BY <1>1, <2>1, <2>2, SeenOnTake
  <2>. QED BY <1>1, <1>2, <1>3, <2>1, <2>3
           DEF Attempts, ProbesAreAnswered, AttemptsAreNumbered, AttemptsAreFlushed,
               NothingElseComes, AnswersAreWhole
<1>5. CASE FirstLine = Dot
  <2>1. pc' = Resumed
    BY <1>5 DEF TakeResumeLine
  <2>2. Resumed \in {"failed", "running"}
    BY <1>1, <1>2, <1>5, NoReport DEF Resumed
  <2>3. Certain => Unread' = <<>>
    <3>. SUFFICES ASSUME Certain PROVE Unread' = <<>>
      OBVIOUS
    <3>1. \A i \in DOMAIN Seen : Seen[i] = Dot => i = Len(Seen)
      BY <1>1, <1>2, Resume0Facts
    <3>2. Len(Unread) = 1
      BY <1>1, <1>5, <3>1, SeenOnPrompt
    <3>3. isXemu => prompt
      BY DEF Certain
    <3>. QED BY <1>1, <1>5, <3>2, <3>3, DeliverLast
  <2>. QED BY <1>1, <1>2, <1>3, <2>1, <2>2, <2>3
           DEF Attempts, ProbesAreAnswered, AttemptsAreNumbered, AttemptsAreFlushed,
               NothingElseComes, AnswersAreWhole
<1>. QED BY <1>4, <1>5

LEMMA InitAttempts == Init => SyncInv
<1>. SUFFICES ASSUME Init PROVE SyncInv
  OBVIOUS
<1>1. TypeOK
  BY InitTypes
<1>2. /\ isXemu \in BOOLEAN /\ conn = <<>> /\ buffer = <<>> /\ (isXemu => air = <<>>)
      /\ air \in {<<>>, <<Junk>>} /\ pc \in {"ask", "open"}
  BY DEF Init
<1>3. NoProbe(<<>>) /\ NoProbe(<<Junk>>)
  BY LineFacts DEF NoProbe
<1>4. NoProbe(Unread) /\ NoProbe(buffer)
  <2>1. NoProbe(buffer) /\ NoProbe(conn) /\ NoProbe(air)
    BY <1>2, <1>3
  <2>. QED BY <1>1, <2>1, UnreadTypes
<1>5. isXemu => Rest = <<>>
  BY <1>1, <1>2, UnreadTypes
<1>6. NumberedFrom(retries, Unread) /\ AnswersFollow(Unread)
  BY <1>2, <1>4, NoProbeHolds
<1>. QED BY <1>1, <1>2, <1>4, <1>5, <1>6
         DEF SyncInv, Attempts, ProbesAreAnswered, AttemptsAreNumbered, AttemptsAreFlushed,
             NothingElseComes, AnswersAreWhole, Certain, AnswersHaveLines

LEMMA StepAttempts == SyncInv /\ [Next]_vars => SyncInv'
<1>. SUFFICES ASSUME SyncInv, [Next]_vars PROVE SyncInv'
  OBVIOUS
<1>1. TypeOK /\ TypeOK'
  BY StepTypes DEF SyncInv
<1>4. stray' # "hit" => stray # "hit" /\ ~Hit
  <2>1. Write(Reset0) \/ Write(Resume0) \/ (\E n : Write(Answer(Probe(n)))) => stray' = stray
    BY DEF Write
  <2>2. WriteDummy => stray' = stray
    BY DEF WriteDummy
  <2>3. Ask \/ Reset \/ Resume \/ MissEcho => stray' = stray
    BY <2>1, <2>2 DEF Ask, Reset, Resume, MissEcho, target
  <2>4. target' = target => stray' = stray
    BY DEF target
  <2>5. Open \/ GiveUp \/ Fill \/ TakePrompt \/ FlushAndRetry \/ TakeEcho \/ TakeLine => target' = target
    BY DEF Open, GiveUp, Fill, TakePrompt, FlushAndRetry, TakeEcho, TakeLine
  <2>6. TakeResumeLine \/ MissPrompt \/ NoResume \/ Rebooting \/ NotRebooting \/ SyncAgain \/ Arrive
          => target' = target
    BY DEF TakeResumeLine, MissPrompt, NoResume, Rebooting, NotRebooting, SyncAgain, Arrive
  <2>7. UNCHANGED vars => target' = target
    BY DEF vars
  <2>8. Hit => stray' = "hit"
    BY DEF Hit
  <2>9. Hit \/ stray' = stray
    BY <2>3, <2>4, <2>5, <2>6, <2>7 DEF Next, Go
  <2>. QED BY <2>8, <2>9
<1>2. ASSUME stray' # "hit"
      PROVE  Attempts' /\ (pc' = "undefined" => pc = "undefined")
  <2>1. stray # "hit" /\ ~Hit
    BY <1>2, <1>4
  <2>2. Attempts
    BY <2>1 DEF SyncInv
  <2>3. CASE Open
    BY <1>1, <2>2, <2>3, StepOpen DEF Open
  <2>4. CASE Ask
    BY <1>1, <2>2, <2>4, StepAsk DEF Ask
  <2>5. CASE GiveUp
    <3>1. pc' = "failed" /\ UNCHANGED <<alive, loading, isXemu, prompt, buffer, conn, air>>
      BY <2>5 DEF GiveUp, setting, target, wire
    <3>. QED BY <2>2, <3>1, SameUnread, Ending
  <2>6. CASE Fill
    BY <1>1, <2>2, <2>6, StepFill DEF Fill, control
  <2>7. CASE TakePrompt
    BY <1>1, <2>2, <2>7, StepTakePrompt
  <2>8. CASE FlushAndRetry
    BY <1>1, <2>2, <2>8, StepFlushAndRetry DEF FlushAndRetry
  <2>9. CASE TakeEcho
    BY <1>1, <2>2, <2>9, StepTakeEcho DEF TakeEcho
  <2>10. CASE TakeLine
    BY <1>1, <2>2, <2>10, StepTakeLine DEF TakeLine
  <2>11. CASE TakeResumeLine
    BY <1>1, <2>2, <2>11, StepTakeResumeLine
  <2>12. CASE MissEcho
    BY <1>1, <2>2, <2>12, StepMissEcho DEF MissEcho
  <2>13. CASE MissPrompt
    BY <1>1, <2>2, <2>13, StepMissPrompt DEF MissPrompt
  <2>14. CASE NoResume
    <3>1. pc' = "failed" /\ UNCHANGED <<alive, loading, isXemu, prompt, buffer, conn, air>>
      BY <2>14 DEF NoResume, setting, target, wire
    <3>. QED BY <2>2, <3>1, SameUnread, Ending
  <2>15. CASE Reset
    BY <1>1, <2>2, <2>15, StepReset DEF Reset
  <2>16. CASE Rebooting
    BY <1>1, <2>2, <2>16, StepRebooting DEF Rebooting
  <2>17. CASE NotRebooting
    <3>1. pc' = "failed" /\ UNCHANGED <<alive, loading, isXemu, prompt, buffer, conn, air>>
      BY <2>17 DEF NotRebooting, setting, target, wire
    <3>. QED BY <2>2, <3>1, SameUnread, Ending
  <2>18. CASE SyncAgain
    BY <1>1, <2>2, <2>18, StepSyncAgain DEF SyncAgain
  <2>19. CASE Resume
    BY <1>1, <2>2, <2>19, StepResume DEF Resume
  <2>20. CASE Arrive
    BY <1>1, <2>2, <2>20, StepArrive DEF Arrive, control
  <2>21. CASE UNCHANGED vars
    <3>1. UNCHANGED <<alive, loading, isXemu, prompt, buffer, conn, air, retries, lines, pc>>
      BY <2>21 DEF vars, setting, target, wire, control
    <3>2. Unread' = Unread /\ Rest' = Rest
      BY <3>1, SameUnread
    <3>3. Seen' = Seen
      BY <3>1, <3>2, SeenIs
    <3>4. /\ Body' = Body /\ Resume0' = Resume0 /\ (Probe(retries))' = Probe(retries)
          /\ (Answer(Probe(retries)))' = Answer(Probe(retries))
          /\ (Answer(XemuProbe))' = Answer(XemuProbe)
      BY <3>1, Fixed
    <3>. QED BY <2>2, <3>1, <3>2, <3>3, <3>4
             DEF Attempts, ProbesAreAnswered, AttemptsAreNumbered, AttemptsAreFlushed,
                 NothingElseComes, AnswersAreWhole, Certain
  <2>. QED BY <2>1, <2>3, <2>4, <2>5, <2>6, <2>7, <2>8, <2>9, <2>10, <2>11, <2>12, <2>13, <2>14,
              <2>15, <2>16, <2>17, <2>18, <2>19, <2>20, <2>21 DEF Next, Go
<1>3. AnswersHaveLines'
  <2>1. ASSUME stray' # "hit"
        PROVE  pc' # "undefined"
    <3>1. stray # "hit" /\ (pc' = "undefined" => pc = "undefined")
      BY <2>1, <1>2, <1>4
    <3>. QED BY <3>1 DEF SyncInv, AnswersHaveLines
  <2>. QED BY <2>1 DEF AnswersHaveLines
<1>5. (stray' # "hit" => Attempts')
  BY <1>2
<1>. QED BY <1>1, <1>3, <1>5 DEF SyncInv

-----------------------------------------------------------------------------
(***************************************************************************)
(* The types, and what is known of late answers in each state.             *)
(***************************************************************************)
THEOREM SyncInvariant == Spec => []SyncInv
BY InitAttempts, StepAttempts, PTL DEF Spec

(***************************************************************************)
(* No late answer is taken for that of the current attempt: when the main  *)
(* loop starts, nothing the target wrote is outstanding, if the target is  *)
(* the hardware, whose attempts are numbered, or a Xemu that is prompt.    *)
(***************************************************************************)
THEOREM NothingIsOutstanding == Spec => []InStep
<1>1. SyncInv => InStep
  <2>. SUFFICES ASSUME SyncInv, pc = "running", isXemu => prompt, stray # "hit"
                PROVE  air \o conn \o buffer = <<>>
    BY DEF InStep
  <2>1. Unread = <<>> /\ TypeOK
    BY DEF SyncInv, Attempts, NothingElseComes, Certain, TypeOK
  <2>2. air = <<>> /\ conn = <<>> /\ buffer = <<>>
    BY <2>1, UnreadTypes
  <2>. QED BY <2>2
<1>. QED BY <1>1, SyncInvariant, PTL

(***************************************************************************)
(* front() is not called of an answer without lines, and a late answer is  *)
(* not taken for a breakpoint: only one left by an earlier session is.     *)
(***************************************************************************)
THEOREM NoEmptyAnswer == Spec => []AnswersHaveLines
<1>1. SyncInv => AnswersHaveLines
  BY DEF SyncInv
<1>. QED BY <1>1, SyncInvariant, PTL
================================================================================
