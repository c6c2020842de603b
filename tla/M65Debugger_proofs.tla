------------------------- MODULE M65Debugger_proofs -------------------------
(***************************************************************************)
(* What is proved of the debugger's main loop, for every target, every     *)
(* environment and any number of requests and stops: the type invariant,   *)
(* and that a client which was told of a stop is never refused.            *)
(***************************************************************************)
EXTENDS M65Debugger, SequenceTheorems, WellFoundedInduction, TLAPS

(***************************************************************************)
(* Operations.                                                             *)
(***************************************************************************)
LEMMA OpFields == ASSUME NEW d, NEW a PROVE Op(d, a).do = d /\ Op(d, a).arg = a
BY DEF Op

LEMMA OpTypes ==
  /\ \A c \in Commands : Op("send", c) \in Ops /\ Op("await", c) \in Ops
  /\ \A p \in Pages : Op("fill", p) \in Ops /\ Op("evaluate", p) \in Ops
  /\ \A a \in {"strict", "retry"} : Op("regs", a) \in Ops
  /\ \A a \in {"event", "poll"} : Op("verdict", a) \in Ops
  /\ \A a \in {"stopped", "symbols"} : Op("require", a) \in Ops
  /\ \A a \in {"pause", "step", "breakpoint"} : Op("notify", a) \in Ops
  /\ \A d \in Plain : Op(d, "") \in Ops
BY DEF Op, Ops

LEMMA ArgTypes ==
  ASSUME NEW op \in Ops
  PROVE  /\ op = Op(op.do, op.arg)
         /\ op.do \in {"send", "await"} => op.arg \in Commands
         /\ op.do \in {"fill", "evaluate"} => op.arg \in Pages
         /\ op.do = "regs" => op.arg \in {"strict", "retry"}
         /\ op.do = "verdict" => op.arg \in {"event", "poll"}
         /\ op.do = "require" => op.arg \in {"stopped", "symbols"}
         /\ op.do \in Plain => op.arg = ""
BY DEF Op, Ops, Plain

(***************************************************************************)
(* Operations that may be put in front of what is already to be done: they *)
(* neither return nor resume, and announce a stop only behind an operation *)
(* that makes sure of it.                                                  *)
(***************************************************************************)
IsBody(q) == q \in Seq(Ops) /\ \A i \in DOMAIN q : q[i].do \notin {"return", "resumed"}
IsPush(q) == IsBody(q) /\ NotifiesStops(q)
Stops(q)  == \E i \in DOMAIN q : IsStop(q[i])

LEMMA NotifiesConcat ==
  ASSUME NEW q \in Seq(Ops), NEW r \in Seq(Ops),
         NotifiesStops(q), Stops(q) \/ NotifiesStops(r)
  PROVE  NotifiesStops(q \o r) /\ (Stops(q) \/ Stops(r) => Stops(q \o r))
<1>1. /\ q \o r \in Seq(Ops)
      /\ Len(q) \in Nat /\ Len(r) \in Nat
      /\ DOMAIN q = 1 .. Len(q) /\ DOMAIN r = 1 .. Len(r)
      /\ DOMAIN (q \o r) = 1 .. Len(q) + Len(r)
  OBVIOUS
<1>2. \A i \in DOMAIN (q \o r) :
        \/ i \in DOMAIN q /\ (q \o r)[i] = q[i]
        \/ i > Len(q) /\ i - Len(q) \in DOMAIN r /\ (q \o r)[i] = r[i - Len(q)]
  BY <1>1
<1>3. /\ \A i \in DOMAIN q : i \in DOMAIN (q \o r) /\ (q \o r)[i] = q[i]
      /\ \A i \in DOMAIN r : i + Len(q) \in DOMAIN (q \o r) /\ (q \o r)[i + Len(q)] = r[i]
  BY <1>1
<1>4. Stops(q) \/ Stops(r) => Stops(q \o r)
  BY <1>3 DEF Stops
<1>5. NotifiesStops(q \o r)
  <2> SUFFICES ASSUME NEW i \in DOMAIN (q \o r), (q \o r)[i].do = "notify"
               PROVE  \E j \in 1 .. i - 1 : IsStop((q \o r)[j])
    BY DEF NotifiesStops
  <2>1. CASE i \in DOMAIN q
    <3>1. PICK j \in 1 .. i - 1 : IsStop(q[j])
      BY <1>3, <2>1 DEF NotifiesStops
    <3> QED BY <1>1, <1>3, <2>1, <3>1
  <2>2. CASE i \notin DOMAIN q /\ Stops(q)
    <3>1. PICK j \in DOMAIN q : IsStop(q[j])
      BY <2>2 DEF Stops
    <3> QED BY <1>1, <1>2, <1>3, <2>2, <3>1, SMTT(30)
  <2>3. CASE i \notin DOMAIN q /\ NotifiesStops(r)
    <3>1. PICK j \in 1 .. (i - Len(q)) - 1 : IsStop(r[j])
      BY <1>2, <2>3 DEF NotifiesStops
    <3>2. j \in DOMAIN r /\ j + Len(q) \in 1 .. i - 1
      BY <1>1, <1>2, <2>3, <3>1
    <3> QED BY <1>3, <3>1, <3>2
  <2> QED BY <2>1, <2>2, <2>3
<1> QED BY <1>4, <1>5

LEMMA BodyConcat ==
  ASSUME NEW q, IsBody(q), NEW r, IsBody(r)
  PROVE  IsBody(q \o r)
<1>1. q \in Seq(Ops) /\ r \in Seq(Ops) /\ q \o r \in Seq(Ops)
  BY DEF IsBody
<1>2. \A i \in DOMAIN (q \o r) :
        \/ i \in DOMAIN q /\ (q \o r)[i] = q[i]
        \/ i - Len(q) \in DOMAIN r /\ (q \o r)[i] = r[i - Len(q)]
  BY <1>1
<1> QED BY <1>1, <1>2 DEF IsBody

LEMMA PushBody ==
  ASSUME NEW q, IsPush(q), NEW r, IsBody(r), Stops(q) \/ NotifiesStops(r)
  PROVE  IsPush(q \o r) /\ (Stops(q) \/ Stops(r) => Stops(q \o r))
BY BodyConcat, NotifiesConcat DEF IsPush, IsBody

LEMMA BodyOne ==
  ASSUME NEW d, NEW a, Op(d, a) \in Ops, d \notin {"return", "resumed"}
  PROVE  /\ IsBody(<<Op(d, a)>>)
         /\ d # "notify" => IsPush(<<Op(d, a)>>)
         /\ IsStop(Op(d, a)) => Stops(<<Op(d, a)>>)
<1> DEFINE op == Op(d, a)
<1>1. op \in Ops /\ op.do = d
  BY OpFields
<1>2. /\ IsBody(<<op>>)
      /\ d # "notify" => IsPush(<<op>>)
      /\ IsStop(op) => Stops(<<op>>)
  <2> HIDE DEF op
  <2> QED BY <1>1 DEF IsBody, IsPush, NotifiesStops, Stops
<1> QED BY <1>2

LEMMA PushExecute == ASSUME NEW c \in Commands PROVE IsPush(Execute(c))
<1> DEFINE a == Op("send", c)
           b == Op("await", c)
<1>1. a \in Ops /\ a.do = "send" /\ b \in Ops /\ b.do = "await"
  BY OpTypes, OpFields
<1>2. Execute(c) = <<a, b>>
  BY DEF Execute
<1> HIDE DEF a, b
<1> QED BY <1>1, <1>2 DEF IsPush, IsBody, NotifiesStops

LEMMA PushFetch == ASSUME NEW p \in Pages PROVE IsPush(Fetch(p))
<1>1. IsPush(<<Op("fill", p)>>)
  BY OpTypes, BodyOne
<1>2. IsPush(Execute(p))
  BY PushExecute DEF Commands
<1> QED BY <1>1, <1>2, PushBody DEF Fetch, IsPush

LEMMA PushReadRegs == IsPush(ReadRegs)
<1>1. IsPush(<<Op("regs", "strict")>>)
  BY OpTypes, BodyOne
<1>2. IsPush(Execute("r"))
  BY PushExecute DEF Commands
<1> QED BY <1>1, <1>2, PushBody DEF ReadRegs, IsPush

(***************************************************************************)
(* What pushing and popping preserve.                                      *)
(***************************************************************************)
LEMMA PushedBody ==
  ASSUME NEW q, IsBody(q), NEW s \in Seq(Ops), NEW t
  PROVE  /\ q \o s \in Seq(Ops)
         /\ ReturnsLast(s) => ReturnsLast(q \o s)
         /\ ResumesLast(s, t) => ResumesLast(q \o s, t)
<1>1. /\ q \in Seq(Ops) /\ q \o s \in Seq(Ops) /\ Len(q \o s) = Len(q) + Len(s)
      /\ Len(q) \in Nat /\ Len(s) \in Nat
      /\ DOMAIN q = 1 .. Len(q) /\ DOMAIN s = 1 .. Len(s)
      /\ DOMAIN (q \o s) = 1 .. Len(q) + Len(s)
  BY DEF IsBody
<1>2. \A i \in DOMAIN (q \o s) :
        \/ i \in DOMAIN q /\ (q \o s)[i] = q[i]
        \/ i - Len(q) \in DOMAIN s /\ (q \o s)[i] = s[i - Len(q)]
  BY <1>1
<1>3. \A i \in DOMAIN s : i + Len(q) \in DOMAIN (q \o s) /\ (q \o s)[i + Len(q)] = s[i]
  BY <1>1
<1>4. \A i \in DOMAIN (q \o s) : (q \o s)[i].do \in {"return", "resumed"} =>
        i - Len(q) \in DOMAIN s /\ (q \o s)[i] = s[i - Len(q)]
  BY <1>2 DEF IsBody
<1>5. ReturnsLast(s) => ReturnsLast(q \o s)
  <2> SUFFICES ASSUME ReturnsLast(s), NEW i \in DOMAIN (q \o s), (q \o s)[i].do = "return"
               PROVE  i = Len(q \o s)
    BY DEF ReturnsLast
  <2>1. i - Len(q) = Len(s)
    BY <1>4 DEF ReturnsLast
  <2> QED BY <1>1, <2>1
<1>6. ResumesLast(s, t) => ResumesLast(q \o s, t)
  <2> SUFFICES ASSUME ResumesLast(s, t), NEW i \in DOMAIN (q \o s), (q \o s)[i].do = "resumed"
               PROVE  t = "cont" /\ i = Len(q \o s) - 1 /\ (q \o s)[Len(q \o s)].do = "return"
    BY DEF ResumesLast
  <2>1. i - Len(q) \in DOMAIN s /\ s[i - Len(q)].do = "resumed"
    BY <1>4
  <2>2. t = "cont" /\ i - Len(q) = Len(s) - 1 /\ s[Len(s)].do = "return"
    BY <2>1 DEF ResumesLast
  <2>3. Len(s) \in DOMAIN s
    BY <1>1, <2>1
  <2> QED BY <1>1, <1>3, <2>2, <2>3
<1> QED BY <1>1, <1>5, <1>6

LEMMA Pushed ==
  ASSUME NEW q, IsPush(q), NEW s \in Seq(Ops), NEW t
  PROVE  /\ q \o s \in Seq(Ops)
         /\ ReturnsLast(s) => ReturnsLast(q \o s)
         /\ ResumesLast(s, t) => ResumesLast(q \o s, t)
         /\ NotifiesStops(s) => NotifiesStops(q \o s)
BY PushedBody, NotifiesConcat DEF IsPush, IsBody

LEMMA Popped ==
  ASSUME NEW s \in Seq(Ops), s # <<>>, NEW t
  PROVE  /\ Tail(s) \in Seq(Ops)
         /\ ReturnsLast(s) => ReturnsLast(Tail(s))
         /\ ResumesLast(s, t) => ResumesLast(Tail(s), t)
         /\ NotifiesStops(s) /\ ~IsStop(Head(s)) => NotifiesStops(Tail(s))
<1>1. Tail(s) \in Seq(Ops) /\ Len(Tail(s)) = Len(s) - 1 /\ Len(s) > 0
  OBVIOUS
<1>2. \A i \in DOMAIN Tail(s) : i + 1 \in DOMAIN s /\ Tail(s)[i] = s[i + 1]
  BY <1>1
<1>3. ReturnsLast(s) => ReturnsLast(Tail(s))
  BY <1>1, <1>2 DEF ReturnsLast
<1>4. ResumesLast(s, t) => ResumesLast(Tail(s), t)
  BY <1>1, <1>2 DEF ResumesLast
<1>5. NotifiesStops(s) /\ ~IsStop(Head(s)) => NotifiesStops(Tail(s))
  <2> SUFFICES ASSUME NotifiesStops(s), ~IsStop(s[1]),
                      NEW i \in DOMAIN Tail(s), Tail(s)[i].do = "notify"
               PROVE  \E j \in 1 .. i - 1 : IsStop(Tail(s)[j])
    BY DEF NotifiesStops
  <2>1. PICK j \in 1 .. i : IsStop(s[j])
    BY <1>2 DEF NotifiesStops
  <2>2. j - 1 \in 1 .. i - 1 /\ j - 1 \in DOMAIN Tail(s)
    BY <1>1, <2>1
  <2>3. Tail(s)[j - 1] = s[j]
    BY <1>2, <2>2
  <2> QED BY <2>1, <2>2, <2>3
<1> QED BY <1>1, <1>3, <1>4, <1>5

(***************************************************************************)
(* A task: its operations and the return.                                  *)
(***************************************************************************)
IsTask(s, t) == s \in Seq(Ops) /\ ReturnsLast(s) /\ ResumesLast(s, t) /\ NotifiesStops(s)

LEMMA ReturnIsTask == ASSUME NEW t PROVE IsTask(<<Op("return", "")>>, t)
<1> DEFINE op == Op("return", "")
<1>1. op \in Ops /\ op.do = "return"
  BY OpTypes, OpFields DEF Plain
<1>2. IsTask(<<op>>, t)
  <2> HIDE DEF op
  <2> QED BY <1>1 DEF IsTask, ReturnsLast, ResumesLast, NotifiesStops
<1> QED BY <1>2

LEMMA BodyTask ==
  ASSUME NEW q, IsPush(q), NEW s, NEW t, IsTask(s, t)
  PROVE  IsTask(q \o s, t)
BY Pushed DEF IsTask

LEMMA PushTask ==
  ASSUME NEW q, IsPush(q), NEW t
  PROVE  IsTask(q \o <<Op("return", "")>>, t)
BY BodyTask, ReturnIsTask

LEMMA PushLaunch == IsPush(SetTarget)
<1> DEFINE a == Op("send", "load")
           b == Op("getlines", "")
           c == Op("symbols", "")
<1>1. /\ {a, b, c} \subseteq Ops
      /\ a.do = "send" /\ b.do = "getlines" /\ c.do = "symbols"
  BY OpTypes, OpFields DEF Commands, Plain
<1>2. SetTarget = <<a, b, c>>
  BY DEF SetTarget
<1> HIDE DEF a, b, c
<1> QED BY <1>1, <1>2 DEF IsPush, IsBody, NotifiesStops

LEMMA PushRun == IsPush(RunTarget)
<1>1. IsPush(Execute("keys")) /\ IsPush(Execute("count"))
  BY PushExecute DEF Commands
<1> QED BY <1>1, PushBody DEF RunTarget, IsPush

LEMMA PushEvaluation == ASSUME NEW p \in Pages PROVE IsPush(Evaluation(p))
<1> DEFINE a == Op("require", "stopped")
           b == Op("evaluate", p)
<1>1. {a, b} \subseteq Ops /\ a.do = "require" /\ b.do = "evaluate"
  BY OpTypes, OpFields
<1>2. Evaluation(p) = <<a, b>>
  BY DEF Evaluation
<1> HIDE DEF a, b
<1> QED BY <1>1, <1>2 DEF IsPush, IsBody, NotifiesStops

LEMMA PushSetBreakpoint == IsPush(SetBreakpoint)
<1> DEFINE a == <<Op("require", "symbols")>>
           b == <<Op("bpset", "")>>
<1>1. IsPush(a) /\ IsPush(b) /\ IsPush(Execute("b"))
  BY OpTypes, BodyOne, PushExecute DEF Commands, Plain
<1>2. SetBreakpoint = (a \o Execute("b")) \o b
  BY DEF SetBreakpoint
<1> HIDE DEF a, b
<1>3. IsPush(a \o Execute("b"))
  BY <1>1, PushBody DEF IsPush
<1> QED BY <1>1, <1>2, <1>3, PushBody DEF IsPush

LEMMA PushPause == IsPush(Pause)
<1> DEFINE a == <<Op("stopped", "")>>
           b == Op("forget", "")
           c == Op("notify", "pause")
<1>1. IsPush(a) /\ Stops(a) /\ IsPush(Execute("t1"))
  BY OpTypes, OpFields, BodyOne, PushExecute DEF Commands, Plain, IsStop
<1>2. {b, c} \subseteq Ops /\ b.do = "forget" /\ c.do = "notify"
  BY OpTypes, OpFields DEF Plain
<1>3. Pause = ((Execute("t1") \o a) \o ReadRegs) \o <<b, c>>
  BY DEF Pause
<1> HIDE DEF a, b, c
<1>4. IsPush(Execute("t1") \o a) /\ Stops(Execute("t1") \o a)
  BY <1>1, PushBody DEF IsPush
<1>5. /\ IsPush((Execute("t1") \o a) \o ReadRegs)
      /\ Stops((Execute("t1") \o a) \o ReadRegs)
  BY <1>4, PushBody, PushReadRegs DEF IsPush
<1>6. IsBody(<<b, c>>)
  BY <1>2 DEF IsBody
<1> QED BY <1>3, <1>5, <1>6, PushBody

LEMMA PushStepOver == IsPush(StepOver)
<1> DEFINE a == <<Op("require", "stopped")>>
           b == IF isXemu THEN <<Op("getlines", "")>> ELSE <<>>
           c == Op("regs", "retry")
           d == Op("forget", "")
           e == Op("notify", "step")
<1>1. IsPush(a) /\ Stops(a) /\ IsPush(Execute("step"))
  BY OpTypes, OpFields, BodyOne, PushExecute DEF Commands, IsStop
<1>2. IsPush(b)
  <2>1. IsPush(<<Op("getlines", "")>>)
    BY OpTypes, BodyOne DEF Plain
  <2>2. IsPush(<<>>)
    BY DEF IsPush, IsBody, NotifiesStops
  <2> QED BY <2>1, <2>2
<1>3. {c, d, e} \subseteq Ops /\ c.do = "regs" /\ d.do = "forget" /\ e.do = "notify"
  BY OpTypes, OpFields DEF Plain
<1>4. StepOver = ((a \o Execute("step")) \o b) \o <<c, d, e>>
  BY DEF StepOver
<1> HIDE DEF a, b, c, d, e
<1>5. IsPush(a \o Execute("step")) /\ Stops(a \o Execute("step"))
  BY <1>1, PushBody DEF IsPush
<1>6. IsPush((a \o Execute("step")) \o b) /\ Stops((a \o Execute("step")) \o b)
  BY <1>2, <1>5, PushBody DEF IsPush
<1>7. IsBody(<<c, d, e>>)
  BY <1>3 DEF IsBody
<1> QED BY <1>4, <1>6, <1>7, PushBody

LEMMA ContIsTask == IsTask(Cont \o <<Op("return", "")>>, "cont")
<1> DEFINE a == Op("resumed", "")
           b == Op("return", "")
<1>1. a \in Ops /\ a.do = "resumed" /\ b \in Ops /\ b.do = "return"
  BY OpTypes, OpFields DEF Plain
<1>2. Cont \o <<b>> = (Execute("t0") \o <<a>>) \o <<b>>
  BY DEF Cont
<1> HIDE DEF a, b
<1>3. IsPush(Execute("t0"))
  BY PushExecute DEF Commands
<1>4. (Execute("t0") \o <<a>>) \o <<b>> = Execute("t0") \o (<<a>> \o <<b>>)
  BY <1>1, <1>3, ConcatAssociative DEF IsPush, IsBody
<1>5. IsTask(<<a>> \o <<b>>, "cont")
  <2> DEFINE s == <<a>> \o <<b>>
  <2>1. s \in Seq(Ops) /\ Len(s) = 2 /\ s[1] = a /\ s[2] = b
    BY <1>1
  <2> HIDE DEF s
  <2>2. IsTask(s, "cont")
    BY <1>1, <2>1 DEF IsTask, ReturnsLast, ResumesLast, NotifiesStops
  <2> QED BY <2>2 DEF s
<1>6. IsTask(Cont \o <<b>>, "cont")
  BY <1>2, <1>3, <1>4, <1>5, BodyTask
<1> QED BY <1>6 DEF b

LEMMA ScriptIsTask ==
  ASSUME NEW t \in Requests \cup {"launch"}
  PROVE  IsTask(Script(t) \o <<Op("return", "")>>, t)
<1>1. CASE t = "cont"
  <2>1. Script(t) = Cont
    BY <1>1 DEF Script, Pages
  <2> QED BY <1>1, <2>1, ContIsTask
<1>2. CASE t \in Pages
  <2>1. Script(t) = Evaluation(t)
    BY <1>2 DEF Script, Pages
  <2> QED BY <1>2, <2>1, PushEvaluation, PushTask
<1>3. CASE t \notin {"cont"} \cup Pages
  <2>1. Script(t) \in {SetTarget, RunTarget, Pause, StepOver, SetBreakpoint}
    BY <1>3 DEF Script, Requests
  <2> QED BY <2>1, PushTask, PushLaunch, PushRun, PushPause, PushStepOver,
             PushSetBreakpoint
<1> QED BY <1>1, <1>2, <1>3

-----------------------------------------------------------------------------
(***************************************************************************)
(* Lines.                                                                  *)
(***************************************************************************)
LEMMA LineTypes ==
  /\ {Blank, Bang, Dot, Header, Loc, Junk, Flags} \subseteq LinesOfTarget
  /\ \A pc \in PCs : Regs(pc) \in LinesOfTarget
  /\ \A a \in {"fresh", "stale"} : Mem(a) \in LinesOfTarget
  /\ \A c \in Commands : Echo(c) \in LinesOfTarget
BY DEF LinesOfTarget

LEMMA LineFields ==
  ASSUME NEW l \in LinesOfTarget
  PROVE  /\ l.kind = "regs" => l.val \in PCs
         /\ l.kind = "mem" => l.val \in {"fresh", "stale"}
<1>1. /\ \A pc : Regs(pc).kind = "regs" /\ Regs(pc).val = pc
      /\ \A a : Mem(a).kind = "mem" /\ Mem(a).val = a
      /\ \A c : Echo(c).kind \in {"blank", "echo"}
      /\ \A m \in {Blank, Bang, Dot, Header, Loc, Junk, Flags} : m.kind \notin {"regs", "mem"}
  BY DEF Line, Blank, Bang, Dot, Header, Loc, Junk, Flags, Regs, Mem, Echo
<1> QED BY <1>1 DEF LinesOfTarget

LEMMA MessageTypes ==
  /\ Prompt \in Seq(LinesOfTarget)
  /\ \A pc \in PCs : /\ RegisterLines(pc) \in Seq(LinesOfTarget)
                     /\ Event(pc) \in Seq(LinesOfTarget)
<1>1. Prompt \in Seq(LinesOfTarget)
  BY LineTypes DEF Prompt
<1>2. \A pc \in PCs : RegisterLines(pc) \in Seq(LinesOfTarget)
  BY LineTypes DEF RegisterLines
<1>3. <<Blank>> \in Seq(LinesOfTarget) /\ <<Bang>> \in Seq(LinesOfTarget)
  BY LineTypes
<1>4. \A pc \in PCs : Event(pc) \in Seq(LinesOfTarget)
  BY <1>1, <1>2, <1>3, ConcatProperties DEF Event
<1> QED BY <1>1, <1>2, <1>4

LEMMA ReplyTypes ==
  ASSUME NEW c \in Commands, NEW pc \in PCs
  PROVE  Reply(c, pc) \in Seq(LinesOfTarget)
<1> DEFINE S == Seq(LinesOfTarget)
<1>1. \A s, t \in S : s \o t \in S
  BY ConcatProperties
<1>2. /\ Prompt \in S /\ RegisterLines(pc) \in S
      /\ <<>> \in S /\ <<Blank>> \in S
      /\ <<Echo(c), Blank>> \in S /\ <<Echo(c)>> \in S
      /\ \A a \in {"fresh", "stale"} : <<Echo(c), Mem(a)>> \in S
  BY MessageTypes, LineTypes
<1> HIDE DEF S
<1>3. CASE c = "r"
  <2>1. Reply(c, pc) = (<<Echo(c), Blank>> \o RegisterLines(pc)) \o Prompt
    BY <1>3 DEF Reply, Pages
  <2> QED BY <1>1, <1>2, <2>1 DEF S
<1>4. CASE c = "step"
  <2>1. Reply(c, pc) = (((<<Blank>> \o (IF isXemu THEN Prompt ELSE <<>>)) \o <<Blank>>)
                          \o RegisterLines(pc)) \o Prompt
    BY <1>4 DEF Reply, Pages
  <2>2. (IF isXemu THEN Prompt ELSE <<>>) \in S
    BY <1>2
  <2> QED BY <1>1, <1>2, <2>1, <2>2 DEF S
<1>5. CASE c \in Pages
  <2>1. Reply(c, pc) = <<Echo(c), Mem(IF tgt.running THEN "stale" ELSE "fresh")>> \o Prompt
    BY <1>5 DEF Reply, Pages
  <2> QED BY <1>1, <1>2, <2>1 DEF S
<1>6. CASE c \notin {"r", "step"} \cup Pages
  <2>1. Reply(c, pc) = <<Echo(c)>> \o Prompt
    BY <1>6 DEF Reply
  <2> QED BY <1>1, <1>2, <2>1 DEF S
<1> QED BY <1>3, <1>4, <1>5, <1>6

LEMMA FromTypes ==
  ASSUME NEW s \in Seq(LinesOfTarget), NEW j \in 1 .. Len(s) + 1
  PROVE  From(s, j) \in Seq(LinesOfTarget)
BY DEF From

LEMMA CutOffTypes ==
  ASSUME NEW l PROVE CutOff(l) \subseteq Seq(LinesOfTarget)
<1>1. /\ <<Blank>> \in Seq(LinesOfTarget) /\ <<Flags>> \in Seq(LinesOfTarget)
      /\ <<Dot, Flags>> \in Seq(LinesOfTarget) /\ <<Junk>> \in Seq(LinesOfTarget)
  BY LineTypes
<1> QED BY <1>1 DEF CutOff

LEMMA AfterTypes ==
  ASSUME NEW s \in Seq(LinesOfTarget)
  PROVE  /\ AfterPrompt(s) \subseteq Seq(LinesOfTarget)
         /\ AfterBang(s) \subseteq Seq(LinesOfTarget)
<1>1. <<Blank>> \o s \in Seq(LinesOfTarget)
  BY LineTypes
<1>2. CASE isXemu
  BY <1>1, <1>2 DEF AfterPrompt, AfterBang
<1>3. CASE ~isXemu
  <2>1. ASSUME NEW j \in 1 .. Len(s), NEW cut \in CutOff(s[j])
        PROVE  cut \o From(s, j + 1) \in Seq(LinesOfTarget)
    <3>1. j + 1 \in 1 .. Len(s) + 1
      OBVIOUS
    <3> QED BY <3>1, FromTypes, CutOffTypes, ConcatProperties
  <2>2. \A j \in 1 .. Len(s) + 1 : From(s, j) \in Seq(LinesOfTarget)
    BY FromTypes
  <2>3. AfterPrompt(s) \subseteq Seq(LinesOfTarget)
    <3> SUFFICES ASSUME NEW t \in AfterPrompt(s) PROVE t \in Seq(LinesOfTarget)
      OBVIOUS
    <3>1. \/ \E j \in 1 .. Len(s) + 1 : t = From(s, j)
          \/ \E j \in 1 .. Len(s) : \E cut \in CutOff(s[j]) : t = cut \o From(s, j + 1)
      BY <1>3, Zenon DEF AfterPrompt
    <3> QED BY <2>1, <2>2, <3>1
  <2> QED BY <1>1, <2>3 DEF AfterBang
<1> QED BY <1>2, <1>3

LEMMA FirstLineExists ==
  ASSUME NEW s \in Seq(LinesOfTarget), \E i \in DOMAIN s : s[i] # Blank
  PROVE  \E i \in DOMAIN s : FirstLine(i, s)
<1> DEFINE T == {i \in DOMAIN s : s[i] # Blank}
<1>1. T \subseteq Nat /\ T # {}
  OBVIOUS
<1>2. PICK i \in T : \A j \in T : ~(<<j, i>> \in OpToRel(<, Nat))
  <2> HIDE DEF T
  <2> QED BY <1>1, NatLessThanWellFounded, WFMin
<1>3. \A j \in T : ~(j < i)
  BY <1>1, <1>2 DEF OpToRel
<1>4. \A j \in 1 .. i - 1 : s[j] = Blank
  BY <1>3
<1> QED BY <1>4 DEF FirstLine

LEMMA UnblankedTypes ==
  ASSUME NEW s \in Seq(LinesOfTarget)
  PROVE  Unblanked(s) \in Seq(LinesOfTarget)
<1>1. CASE \A i \in DOMAIN s : s[i] = Blank
  BY <1>1 DEF Unblanked
<1>2. CASE \E i \in DOMAIN s : s[i] # Blank
  <2> DEFINE i == CHOOSE k \in DOMAIN s : FirstLine(k, s)
  <2>1. i \in DOMAIN s
    BY <1>2, FirstLineExists
  <2>2. i \in 1 .. Len(s) + 1
    BY <2>1
  <2>3. From(s, i) \in Seq(LinesOfTarget)
    BY <2>2, FromTypes
  <2> QED BY <1>2, <2>3 DEF Unblanked
<1> QED BY <1>1, <1>2

LEMMA ToldTypes ==
  ASSUME NEW s \in Seq(LinesOfTarget)
  PROVE  Told(s) \in Seq(LinesOfTarget)
<1>1. Unblanked(s) \in Seq(LinesOfTarget)
  BY UnblankedTypes
<1>2. Unblanked(s) # <<>> => Unblanked(Tail(Unblanked(s))) \in Seq(LinesOfTarget)
  BY <1>1, UnblankedTypes, HeadTailProperties
<1> QED BY <1>1, <1>2 DEF Told

LEMMA RegsTypes ==
  ASSUME NEW s \in Seq(LinesOfTarget), HasRegs(s)
  PROVE  s[2].val \in PCs
BY LineFields DEF HasRegs

-----------------------------------------------------------------------------
(***************************************************************************)
(* The invariant in two parts: what is on the stack, and the types of all  *)
(* other variables.                                                        *)
(***************************************************************************)
StackOK ==
  /\ todo \in Seq(Ops)
  /\ ReturnsLast(todo) /\ ResumesLast(todo, task)
  /\ stopped \/ NotifiesStops(todo)
  /\ shown => stopped \/ Resuming

Target == /\ tgt \in [running : BOOLEAN, armed : BOOLEAN, pc : PCs]
          /\ cmds \in Seq(Commands) /\ rx \in Seq(LinesOfTarget)
          /\ hits \in 0 .. MaxHits

Memory == /\ lines \in Seq(LinesOfTarget)
          /\ regs \in PCs
          /\ cache \in [Pages -> {"absent", "fresh", "stale"}]

Flow == /\ phase \in {"task", "events", "poll", "exited", "reset", "closed"}
        /\ task \in Requests \cup {"launch", "none"}
        /\ dead \in {"no", "terminate", "undefined"}
        /\ answer \in {"none", "done", "error", "empty", "fresh", "stale"}
        /\ requests \in 0 .. MaxRequests

Booleans == /\ stopped \in BOOLEAN /\ breakpoint \in BOOLEAN /\ dbg \in BOOLEAN
            /\ shown \in BOOLEAN /\ leaving \in BOOLEAN /\ polled \in BOOLEAN
            /\ configured \in BOOLEAN /\ isXemu \in BOOLEAN

Data == Target /\ Memory /\ Flow /\ Booleans

LEMMA Parts == ClientInv <=> StackOK /\ Data
BY DEF ClientInv, TypeOK, StackOK, Data, Target, Memory, Flow, Booleans

LEMMA NextParts == ClientInv' <=> StackOK' /\ Data'
BY DEF ClientInv, TypeOK, StackOK, Data, Target, Memory, Flow, Booleans

(***************************************************************************)
(* The ways in which an operation changes the stack.                       *)
(***************************************************************************)
LEMMA StackStays ==
  ASSUME StackOK, UNCHANGED <<todo, task, stopped, shown>>
  PROVE  StackOK'
BY DEF StackOK, Resuming

LEMMA HeadOfOne == \A x : Head(<<x>>) = x
OBVIOUS

LEMMA NotResuming == Resuming => Head(todo).do = "return"
<1> DEFINE op == Op("return", "")
<1>1. op.do = "return"
  BY OpFields
<1>2. Resuming => todo = <<op>>
  BY DEF Resuming
<1> HIDE DEF op
<1> QED BY <1>1, <1>2, HeadOfOne

LEMMA OpPops ==
  ASSUME StackOK, todo # <<>>, Head(todo).do # "return",
         todo' = Rest, task' = task, stopped => stopped',
         IsStop(Head(todo)) => stopped', shown' => shown \/ stopped'
  PROVE  StackOK'
<1>1. /\ Tail(todo) \in Seq(Ops) /\ ReturnsLast(Tail(todo)) /\ ResumesLast(Tail(todo), task)
      /\ NotifiesStops(todo) /\ ~IsStop(Head(todo)) => NotifiesStops(Tail(todo))
  BY Popped DEF StackOK
<1>2. shown => stopped
  BY NotResuming DEF StackOK
<1> QED BY <1>1, <1>2 DEF StackOK, Rest

LEMMA OpPushes ==
  ASSUME StackOK, todo # <<>>, Head(todo).do # "return", ~IsStop(Head(todo)),
         NEW q, IsPush(q), todo' \in {q \o todo, q \o Rest},
         UNCHANGED <<task, stopped, shown>>
  PROVE  StackOK'
<1>1. /\ Tail(todo) \in Seq(Ops) /\ ReturnsLast(Tail(todo)) /\ ResumesLast(Tail(todo), task)
      /\ NotifiesStops(todo) => NotifiesStops(Tail(todo))
  BY Popped DEF StackOK
<1>2. shown => stopped
  BY NotResuming DEF StackOK
<1>3. CASE todo' = q \o todo
  BY <1>2, <1>3, Pushed DEF StackOK
<1>4. CASE todo' = q \o Rest
  BY <1>1, <1>2, <1>4, Pushed DEF StackOK, Rest
<1> QED BY <1>3, <1>4

LEMMA TaskStarts ==
  ASSUME StackOK, todo = <<>>, IsTask(todo', task'), UNCHANGED <<stopped, shown>>
  PROVE  StackOK'
BY DEF StackOK, Resuming, IsTask

LEMMA PushIsTask == ASSUME NEW q, IsPush(q), NEW t PROVE IsTask(q, t)
BY DEF IsTask, IsPush, IsBody, ReturnsLast, ResumesLast

LEMMA Throws ==
  ASSUME StackOK, Flow, Throw, UNCHANGED <<stopped, shown, requests>>
  PROVE  StackOK' /\ Flow'
<1>1. CASE phase = "task" /\ task \in {"launch", "setbp"}
  <2>1. todo' = <<>> /\ task' = "none" /\ answer' = "error" /\ phase' = "events" /\ dead' = dead
    BY <1>1 DEF Throw
  <2>2. shown => stopped
    BY <1>1 DEF StackOK, Resuming
  <2> QED BY <2>1, <2>2
          DEF StackOK, Flow, ReturnsLast, ResumesLast, NotifiesStops, Requests
<1>2. CASE ~(phase = "task" /\ task \in {"launch", "setbp"})
  <2>1. dead' = "terminate" /\ UNCHANGED <<todo, task, answer, phase>>
    BY <1>2 DEF Throw
  <2> QED BY <2>1, StackStays DEF Flow
<1> QED BY <1>1, <1>2

LEMMA Blows ==
  ASSUME StackOK, Flow, Undefined, UNCHANGED <<stopped, shown, requests>>
  PROVE  StackOK' /\ Flow'
BY StackStays DEF Undefined, Flow

LEMMA Continues ==
  ASSUME Flow, NEW ops, Continue(ops), UNCHANGED requests
  PROVE  todo' = ops /\ task' = task /\ Flow'
BY DEF Continue, Flow

-----------------------------------------------------------------------------
(***************************************************************************)
(* The steps of the target.                                                *)
(***************************************************************************)
LEMMA ProcessStep == ASSUME StackOK, Data, Process PROVE StackOK' /\ Data'
<1>1. cmds # <<>> /\ Head(cmds) \in Commands /\ Tail(cmds) \in Seq(Commands)
  BY DEF Process, Data, Target
<1>2. PICK pc \in PCs :
         /\ cmds' = Tail(cmds)
         /\ rx' = rx \o Reply(Head(cmds), pc)
         /\ tgt' = [running |-> CASE Head(cmds) \in {"t0", "!"} -> TRUE
                                  [] Head(cmds) = "t1" -> FALSE
                                  [] OTHER -> tgt.running,
                    armed   |-> Head(cmds) = "b" \/ (tgt.armed /\ Head(cmds) # "!"),
                    pc      |-> IF tgt.running /\ Head(cmds) # "t1" THEN tgt.pc ELSE pc]
  BY Zenon DEF Process
<1>3. rx' \in Seq(LinesOfTarget)
  BY <1>1, <1>2, ReplyTypes, ConcatProperties DEF Data, Target
<1>4. tgt' \in [running : BOOLEAN, armed : BOOLEAN, pc : PCs]
  <2>1. /\ tgt.running \in BOOLEAN /\ tgt.pc \in PCs
        /\ tgt'.running \in BOOLEAN /\ tgt'.pc \in PCs
    BY <1>2 DEF Data, Target
  <2> QED BY <1>2, <2>1
<1>5. cache' \in [Pages -> {"absent", "fresh", "stale"}]
  BY DEF Process, Data, Memory, Aged
<1>6. UNCHANGED <<todo, lines, phase, task, stopped, breakpoint, dbg, regs, dead, shown,
                  answer, leaving, polled, hits, configured, requests, isXemu>>
  BY DEF Process, client
<1>7. StackOK'
  BY <1>6, StackStays
<1>8. Target' /\ Memory'
  BY <1>1, <1>2, <1>3, <1>4, <1>5, <1>6 DEF Data, Target, Memory
<1>9. Flow' /\ Booleans'
  BY <1>6 DEF Data, Flow, Booleans
<1> QED BY <1>7, <1>8, <1>9 DEF Data

LEMMA HitStep == ASSUME StackOK, Data, Hit PROVE StackOK' /\ Data'
<1>1. PICK pc \in PCs : /\ tgt' = [tgt EXCEPT !.running = FALSE, !.pc = pc]
                        /\ rx' = rx \o Event(pc)
  BY DEF Hit, PCs
<1>2. rx' \in Seq(LinesOfTarget)
  BY <1>1, MessageTypes, ConcatProperties DEF Data, Target
<1>3. /\ tgt' \in [running : BOOLEAN, armed : BOOLEAN, pc : PCs]
      /\ hits' \in 0 .. MaxHits
  <2>1. tgt' \in [running : BOOLEAN, armed : BOOLEAN, pc : PCs]
    BY <1>1 DEF Data, Target
  <2>2. hits' \in 0 .. MaxHits
    BY ConstantsAssumption DEF Hit, Data, Target
  <2> QED BY <2>1, <2>2
<1>4. UNCHANGED <<cmds, todo, lines, phase, task, stopped, breakpoint, dbg, regs, cache,
                  dead, shown, answer, leaving, polled, configured, requests, isXemu>>
  BY DEF Hit, adapter, client
<1> QED BY <1>2, <1>3, <1>4, StackStays DEF Data, Target, Memory, Flow, Booleans

(***************************************************************************)
(* The steps that read and write the connection.                           *)
(***************************************************************************)
LEMMA AtOp ==
  ASSUME StackOK, NEW d, At(d)
  PROVE  /\ todo # <<>> /\ Head(todo).do = d /\ Head(todo) \in Ops
         /\ d \notin {"stopped", "require"} => ~IsStop(Head(todo))
<1>1. todo # <<>> /\ Head(todo).do = d /\ Head(todo) \in Ops
  BY DEF At, StackOK
<1>2. Op("require", "stopped").do = "require"
  BY OpFields
<1> QED BY <1>1, <1>2 DEF IsStop

LEMMA SendStep == ASSUME StackOK, Data, Send PROVE StackOK' /\ Data'
<1>1. /\ todo # <<>> /\ Head(todo).do = "send" /\ Head(todo) \in Ops
      /\ ~IsStop(Head(todo))
  BY AtOp DEF Send
<1>2. UNCHANGED <<tgt, rx, hits, lines, stopped, breakpoint, dbg, regs, cache, shown,
                  leaving, polled, configured, requests, isXemu>>
  BY DEF Send, client
<1>3. todo' = Rest /\ task' = task /\ Flow'
  BY <1>2, Continues DEF Send, Data
<1>4. cmds' \in Seq(Commands)
  <2>1. Head(todo).arg \in Commands
    BY <1>1, ArgTypes
  <2> QED BY <2>1 DEF Send, Arg, Data, Target
<1> QED BY <1>1, <1>2, <1>3, <1>4, OpPops DEF Data, Target, Memory, Booleans

LEMMA GetLinesStep == ASSUME StackOK, Data, GetLines PROVE StackOK' /\ Data'
<1>1. UNCHANGED <<tgt, cmds, hits, stopped, breakpoint, dbg, regs, cache, shown, leaving,
                  polled, configured, requests, isXemu>>
  BY DEF GetLines, client
<1>2. /\ todo # <<>> /\ Head(todo).do \in {"getlines", "await"} /\ ~IsStop(Head(todo))
  <2>1. CASE At("getlines")
    BY <2>1, AtOp
  <2>2. CASE At("await")
    BY <2>2, AtOp
  <2> QED BY <2>1, <2>2 DEF GetLines
<1>3. PICK k \in DOMAIN rx :
         /\ rx' \in AfterPrompt(From(rx, k + 1))
         /\ \/ lines' = SubSeq(rx, 1, k - 1) /\ Continue(Rest)
            \/ Throw /\ UNCHANGED lines
            \/ /\ SubSeq(rx, 1, k - 1) # <<>>
               /\ lines' = Tail(SubSeq(rx, 1, k - 1))
               /\ Continue(Rest)
            \/ /\ lines' = SubSeq(rx, 1, k - 1)
               /\ Continue(<<Op("event", "")>> \o todo)
  BY Zenon DEF GetLines
<1>4. /\ SubSeq(rx, 1, k - 1) \in Seq(LinesOfTarget)
      /\ From(rx, k + 1) \in Seq(LinesOfTarget)
  BY FromTypes DEF Data, Target
<1>5. rx' \in Seq(LinesOfTarget) /\ lines' \in Seq(LinesOfTarget)
  BY <1>3, <1>4, AfterTypes, HeadTailProperties DEF Data, Memory
<1>6. StackOK' /\ Flow'
  <2>1. CASE Continue(Rest)
    BY <1>1, <1>2, <2>1, Continues, OpPops DEF Data
  <2>2. CASE Throw
    BY <1>1, <2>2, Throws DEF Data
  <2>3. CASE Continue(<<Op("event", "")>> \o todo)
    <3>1. IsPush(<<Op("event", "")>>)
      BY OpTypes, BodyOne DEF Plain
    <3>2. todo' = <<Op("event", "")>> \o todo /\ task' = task /\ Flow'
      BY <1>1, <2>3, Continues DEF Data
    <3> QED BY <1>1, <1>2, <3>1, <3>2, OpPushes
  <2> QED BY <1>3, <2>1, <2>2, <2>3
<1> QED BY <1>1, <1>5, <1>6 DEF Data, Target, Memory, Booleans

LEMMA TimeoutStep == ASSUME StackOK, Data, Timeout PROVE StackOK' /\ Data'
<1>1. /\ UNCHANGED <<tgt, cmds, hits, stopped, breakpoint, dbg, regs, cache, shown,
                     leaving, polled, configured, requests, isXemu>>
      /\ lines' = <<>> /\ Throw
      /\ \E k \in 1 .. Len(rx) + 1 : rx' = From(rx, k)
  BY DEF Timeout, GivesUpAt, client
<1>2. StackOK' /\ Flow'
  BY <1>1, Throws DEF Data
<1>3. rx' \in Seq(LinesOfTarget)
  BY <1>1, FromTypes DEF Data, Target
<1> QED BY <1>1, <1>2, <1>3 DEF Data, Target, Memory, Booleans

LEMMA ReadEventStep == ASSUME StackOK, Data, ReadEvent PROVE StackOK' /\ Data'
<1>1. UNCHANGED <<tgt, cmds, hits, stopped, breakpoint, dbg, regs, cache, shown, leaving,
                  polled, configured, requests, isXemu>>
  BY DEF ReadEvent, client
<1>2. todo # <<>> /\ Head(todo).do = "readevent" /\ ~IsStop(Head(todo))
  BY AtOp DEF ReadEvent
<1>3. CASE Continue(Rest) /\ lines' = SubSeq(rx, 1, 3) /\ rx' = SubSeq(rx, 4, Len(rx))
  <2>1. StackOK' /\ Flow'
    BY <1>1, <1>2, <1>3, Continues, OpPops DEF Data
  <2>2. rx' \in Seq(LinesOfTarget) /\ lines' \in Seq(LinesOfTarget)
    BY <1>3 DEF ReadEvent, Data, Target
  <2> QED BY <1>1, <2>1, <2>2 DEF Data, Target, Memory, Booleans
<1>4. CASE Throw /\ UNCHANGED <<lines, rx>>
  <2>1. StackOK' /\ Flow'
    BY <1>1, <1>4, Throws DEF Data
  <2> QED BY <1>1, <1>4, <2>1 DEF Data, Target, Memory, Booleans
<1> QED BY <1>3, <1>4 DEF ReadEvent

(***************************************************************************)
(* The steps that only read what was received.                             *)
(***************************************************************************)
LEMMA UpdateRegsStep == ASSUME StackOK, Data, UpdateRegs PROVE StackOK' /\ Data'
<1>1. /\ UNCHANGED <<tgt, cmds, rx, hits, stopped, breakpoint, dbg, cache, shown, leaving,
                     polled, configured, requests, isXemu>>
      /\ lines' = <<>>
  BY DEF UpdateRegs, target, client
<1>2. todo # <<>> /\ Head(todo).do = "regs" /\ ~IsStop(Head(todo))
  BY AtOp DEF UpdateRegs
<1>3. CASE HasRegs(Unblanked(lines)) /\ regs' = Unblanked(lines)[2].val /\ Continue(Rest)
  <2>1. StackOK' /\ Flow'
    BY <1>1, <1>2, <1>3, Continues, OpPops DEF Data
  <2>2. regs' \in PCs
    BY <1>3, UnblankedTypes, RegsTypes DEF Data, Memory
  <2> QED BY <1>1, <2>1, <2>2 DEF Data, Target, Memory, Booleans
<1>4. CASE Continue(ReadRegs \o Rest) /\ UNCHANGED regs
  <2>1. todo' = ReadRegs \o Rest /\ task' = task /\ Flow'
    BY <1>1, <1>4, Continues DEF Data
  <2>2. StackOK'
    BY <1>1, <1>2, <2>1, PushReadRegs, OpPushes
  <2> QED BY <1>1, <1>4, <2>1, <2>2 DEF Data, Target, Memory, Booleans
<1>5. CASE Throw /\ UNCHANGED regs
  <2>1. StackOK' /\ Flow'
    BY <1>1, <1>5, Throws DEF Data
  <2> QED BY <1>1, <1>5, <2>1 DEF Data, Target, Memory, Booleans
<1> QED BY <1>3, <1>4, <1>5 DEF UpdateRegs

LEMMA HandleBreakpointStep ==
  ASSUME StackOK, Data, HandleBreakpoint PROVE StackOK' /\ Data'
<1>1. /\ UNCHANGED <<tgt, cmds, rx, hits, stopped, breakpoint, dbg, cache, shown, leaving,
                     polled, configured, requests, isXemu>>
      /\ lines' = <<>>
  BY DEF HandleBreakpoint, target, client
<1>2. todo # <<>> /\ Head(todo).do = "event" /\ ~IsStop(Head(todo))
  BY AtOp DEF HandleBreakpoint
<1>3. CASE (Undefined \/ Throw) /\ UNCHANGED regs
  <2>1. StackOK' /\ Flow'
    BY <1>1, <1>3, Throws, Blows DEF Data
  <2> QED BY <1>1, <1>3, <2>1 DEF Data, Target, Memory, Booleans
<1>4. CASE Continue(Execute("t0") \o Rest) /\ UNCHANGED regs
  <2>1. IsPush(Execute("t0"))
    BY PushExecute DEF Commands
  <2>2. todo' = Execute("t0") \o Rest /\ task' = task /\ Flow'
    BY <1>1, <1>4, Continues DEF Data
  <2>3. StackOK'
    BY <1>1, <1>2, <2>1, <2>2, OpPushes
  <2> QED BY <1>1, <1>4, <2>2, <2>3 DEF Data, Target, Memory, Booleans
<1>5. CASE /\ HasRegs(Told(lines)) /\ regs' = Told(lines)[2].val
           /\ Continue(<<Op("verdict", "event")>> \o Rest) \/ Undefined
  <2>1. regs' \in PCs
    BY <1>5, ToldTypes, RegsTypes DEF Data, Memory
  <2>2. CASE Undefined
    <3>1. StackOK' /\ Flow'
      BY <1>1, <2>2, Blows DEF Data
    <3> QED BY <1>1, <2>1, <3>1 DEF Data, Target, Memory, Booleans
  <2>3. CASE Continue(<<Op("verdict", "event")>> \o Rest)
    <3>1. IsPush(<<Op("verdict", "event")>>)
      BY OpTypes, BodyOne
    <3>2. todo' = <<Op("verdict", "event")>> \o Rest /\ task' = task /\ Flow'
      BY <1>1, <2>3, Continues DEF Data
    <3>3. StackOK'
      BY <1>1, <1>2, <3>1, <3>2, OpPushes
    <3> QED BY <1>1, <2>1, <3>2, <3>3 DEF Data, Target, Memory, Booleans
  <2> QED BY <1>5, <2>2, <2>3
<1> QED BY <1>3, <1>4, <1>5 DEF HandleBreakpoint

LEMMA VerdictStep == ASSUME StackOK, Data, Verdict PROVE StackOK' /\ Data'
<1>1. UNCHANGED <<tgt, cmds, rx, hits, lines, breakpoint, dbg, regs, shown, leaving,
                  configured, requests, isXemu>>
  BY DEF Verdict, target, client
<1>2. todo # <<>> /\ Head(todo).do = "verdict" /\ ~IsStop(Head(todo))
  BY AtOp DEF Verdict
<1>3. ASSUME NEW q, IsPush(q), todo' \in {q \o todo, q \o Rest}, task' = task, Flow',
             UNCHANGED <<stopped, cache, polled>>
      PROVE  StackOK' /\ Data'
  <2>1. StackOK'
    BY <1>1, <1>2, <1>3, OpPushes
  <2> QED BY <1>1, <1>3, <2>1 DEF Data, Target, Memory, Booleans
<1>4. CASE Continue(Fetch("code") \o todo) /\ UNCHANGED <<stopped, cache, polled>>
  <2>1. IsPush(Fetch("code"))
    BY PushFetch DEF Pages
  <2> QED BY <1>1, <1>3, <1>4, <2>1, Continues DEF Data
<1>5. CASE /\ Continue((IF Arg = "event" THEN Execute("t0") ELSE <<>>) \o Rest)
           /\ UNCHANGED <<stopped, cache, polled>>
  <2> DEFINE q == IF Arg = "event" THEN Execute("t0") ELSE <<>>
  <2>1. IsPush(Execute("t0")) /\ IsPush(<<>>)
    BY PushExecute DEF Commands, IsPush, IsBody, NotifiesStops
  <2>2. IsPush(q)
    BY <2>1
  <2>3. Continue(q \o Rest)
    BY <1>5
  <2> HIDE DEF q
  <2> QED BY <1>1, <1>3, <1>5, <2>2, <2>3, Continues DEF Data
<1>6. CASE /\ cache' = IF Arg = "event" THEN Empty ELSE cache
           /\ stopped' = TRUE /\ polled' = (Arg = "poll")
           /\ Continue(<<Op("notify", "breakpoint")>> \o Rest)
  <2>1. todo' = <<Op("notify", "breakpoint")>> \o Rest /\ task' = task /\ Flow'
    BY <1>1, <1>6, Continues DEF Data
  <2>2. IsBody(<<Op("notify", "breakpoint")>>)
    BY OpTypes, BodyOne
  <2>3. /\ Rest \in Seq(Ops) /\ ReturnsLast(Rest) /\ ResumesLast(Rest, task)
    BY <1>2, Popped DEF StackOK, Rest
  <2>4. /\ todo' \in Seq(Ops) /\ ReturnsLast(todo') /\ ResumesLast(todo', task')
    BY <2>1, <2>2, <2>3, PushedBody
  <2>5. StackOK'
    BY <1>6, <2>4 DEF StackOK
  <2>6. cache' \in [Pages -> {"absent", "fresh", "stale"}]
    BY <1>6 DEF Empty, Data, Memory
  <2> QED BY <1>1, <1>6, <2>1, <2>5, <2>6 DEF Data, Target, Memory, Booleans
<1> QED BY <1>4, <1>5, <1>6 DEF Verdict

LEMMA FillStep == ASSUME StackOK, Data, Fill PROVE StackOK' /\ Data'
<1>1. /\ UNCHANGED <<tgt, cmds, rx, hits, stopped, breakpoint, dbg, regs, shown, leaving,
                     polled, configured, requests, isXemu>>
      /\ lines' = <<>>
  BY DEF Fill, target, client
<1>2. todo # <<>> /\ Head(todo).do = "fill" /\ ~IsStop(Head(todo))
  BY AtOp DEF Fill
<1> DEFINE s == Unblanked(lines)
<1>3. CASE /\ s # <<>> /\ Head(s).kind = "mem"
           /\ cache' = [cache EXCEPT ![Arg] = Head(s).val]
           /\ Continue(Rest)
  <2>1. StackOK' /\ Flow'
    BY <1>1, <1>2, <1>3, Continues, OpPops DEF Data
  <2>2. s \in Seq(LinesOfTarget)
    BY UnblankedTypes DEF Data, Memory
  <2>3. Head(s).val \in {"fresh", "stale"}
    <3> HIDE DEF s
    <3> QED BY <1>3, <2>2, LineFields
  <2>4. cache' \in [Pages -> {"absent", "fresh", "stale"}]
    <3> HIDE DEF s
    <3> QED BY <1>3, <2>3 DEF Data, Memory
  <2> QED BY <1>1, <2>1, <2>4 DEF Data, Target, Memory, Booleans
<1>4. CASE Throw /\ UNCHANGED cache
  <2>1. StackOK' /\ Flow'
    BY <1>1, <1>4, Throws DEF Data
  <2> QED BY <1>1, <1>4, <2>1 DEF Data, Target, Memory, Booleans
<1> QED BY <1>3, <1>4 DEF Fill

LEMMA RequireStep == ASSUME StackOK, Data, Require PROVE StackOK' /\ Data'
<1>1. UNCHANGED <<tgt, cmds, rx, hits, lines, stopped, breakpoint, dbg, regs, cache, shown,
                  leaving, polled, configured, requests, isXemu>>
  BY DEF Require, target, client
<1>2. /\ todo # <<>> /\ Head(todo).do = "require" /\ Head(todo) \in Ops
  BY AtOp DEF Require
<1>3. Target' /\ Memory' /\ Booleans'
  BY <1>1 DEF Data, Target, Memory, Booleans
<1>4. CASE Throw
  BY <1>1, <1>3, <1>4, Throws DEF Data
<1>5. CASE Continue(Rest) /\ (CASE Arg = "stopped" -> stopped [] Arg = "symbols" -> dbg)
  <2>1. IsStop(Head(todo)) => Arg = "stopped"
    BY <1>2, OpFields DEF IsStop, Arg
  <2>2. Arg = "stopped" => stopped
    BY <1>5
  <2>3. StackOK' /\ Flow'
    BY <1>1, <1>2, <1>5, <2>1, <2>2, Continues, OpPops DEF Data
  <2> QED BY <1>3, <2>3 DEF Data
<1> QED BY <1>4, <1>5 DEF Require

LEMMA SymbolsStep == ASSUME StackOK, Data, Symbols PROVE StackOK' /\ Data'
<1>1. /\ UNCHANGED <<tgt, cmds, rx, hits, stopped, breakpoint, regs, cache, shown, leaving,
                     polled, configured, requests, isXemu>>
      /\ lines' = <<>>
  BY DEF Symbols, target, client
<1>2. todo # <<>> /\ Head(todo).do = "symbols" /\ ~IsStop(Head(todo))
  BY AtOp DEF Symbols
<1>3. dbg' \in BOOLEAN /\ (Continue(Rest) \/ Throw)
  BY DEF Symbols, Data, Booleans
<1>4. StackOK' /\ Flow'
  BY <1>1, <1>2, <1>3, Continues, OpPops, Throws DEF Data
<1> QED BY <1>1, <1>3, <1>4 DEF Data, Target, Memory, Booleans

LEMMA EvaluateStep == ASSUME StackOK, Data, Evaluate PROVE StackOK' /\ Data'
<1>1. UNCHANGED <<tgt, cmds, rx, hits, lines, stopped, breakpoint, dbg, regs, cache, shown,
                  leaving, polled, configured, requests, isXemu>>
  BY DEF Evaluate, target, client
<1>2. /\ todo # <<>> /\ Head(todo).do = "evaluate" /\ ~IsStop(Head(todo))
      /\ Head(todo) \in Ops
  BY AtOp DEF Evaluate
<1>3. Arg \in Pages
  BY <1>2, ArgTypes DEF Arg
<1>4. Target' /\ Memory' /\ Booleans'
  BY <1>1 DEF Data, Target, Memory, Booleans
<1>5. CASE Continue(Fetch(Arg) \o todo)
  <2>1. todo' = Fetch(Arg) \o todo /\ task' = task /\ Flow'
    BY <1>1, <1>5, Continues DEF Data
  <2>2. StackOK'
    BY <1>1, <1>2, <1>3, <2>1, PushFetch, OpPushes
  <2> QED BY <1>4, <2>1, <2>2 DEF Data
<1>6. CASE /\ cache[Arg] # "absent" \/ ~dbg
           /\ answer' = IF dbg THEN cache[Arg] ELSE "empty"
           /\ todo' = Rest /\ UNCHANGED <<task, phase, dead>>
  <2>1. StackOK'
    BY <1>1, <1>2, <1>6, OpPops
  <2>2. answer' \in {"empty", "fresh", "stale"}
    BY <1>3, <1>6 DEF Data, Memory
  <2> QED BY <1>1, <1>4, <1>6, <2>1, <2>2 DEF Data, Flow
<1> QED BY <1>5, <1>6 DEF Evaluate

(***************************************************************************)
(* The two operations the argument is about: an operation that changes     *)
(* stopped_, and the notification.                                         *)
(***************************************************************************)
LEMMA AssignStep == ASSUME StackOK, Data, Assign PROVE StackOK' /\ Data'
<1>1. /\ UNCHANGED <<tgt, cmds, rx, hits, dbg, regs, shown, leaving, configured, requests, isXemu>>
      /\ lines' = <<>> /\ Continue(Rest)
      /\ cache' \in {Empty, cache}
      /\ breakpoint' \in BOOLEAN /\ polled' \in BOOLEAN
      /\ stopped' = CASE At("stopped") -> TRUE [] At("resumed") -> FALSE [] OTHER -> stopped
      /\ Alive /\ todo # <<>> /\ Head(todo).do \in {"stopped", "resumed", "bpset", "forget"}
  BY DEF Assign, target, client, At, Data, Booleans
<1>2. Target' /\ Memory' /\ Booleans'
  <2>1. stopped' \in BOOLEAN
    BY <1>1 DEF Data, Booleans
  <2>2. cache' \in [Pages -> {"absent", "fresh", "stale"}]
    BY <1>1 DEF Data, Memory, Empty
  <2>3. Target' /\ Memory'
    BY <1>1, <2>2 DEF Data, Target, Memory
  <2>4. Booleans'
    BY <1>1, <2>1 DEF Data, Booleans
  <2> QED BY <2>3, <2>4
<1>3. todo' = Rest /\ task' = task /\ Flow'
  BY <1>1, Continues DEF Data
<1>4. CASE Head(todo).do = "resumed"
  <2>1. todo \in Seq(Ops) /\ Len(todo) \in Nat /\ 1 \in DOMAIN todo /\ todo[1].do = "resumed"
    BY <1>1, <1>4 DEF StackOK
  <2>2. task = "cont" /\ 1 = Len(todo) - 1 /\ todo[Len(todo)].do = "return"
    BY <2>1 DEF StackOK, ResumesLast
  <2>3. Len(todo) = 2 /\ todo[2].do = "return"
    <3>1. Len(todo) = 2
      BY <2>1, <2>2
    <3> QED BY <2>2, <3>1
  <2>4. todo[2] = Op("return", "")
    <3>1. todo[2] \in Ops
      BY <2>1, <2>3
    <3> QED BY <2>3, <3>1, ArgTypes DEF Plain
  <2>5. Rest = <<Op("return", "")>>
    <3>1. Rest \in Seq(Ops) /\ Len(Rest) = 1 /\ Rest[1] = todo[2]
      BY <1>1, <2>1, <2>3, HeadTailProperties DEF Rest
    <3>2. Rest = <<Rest[1]>>
      BY <3>1
    <3> QED BY <2>4, <3>1, <3>2
  <2>6. IsTask(Rest, task)
    BY <2>5, ReturnIsTask
  <2>7. task' = "cont" /\ todo' = <<Op("return", "")>>
    BY <1>3, <2>2, <2>5
  <2>8. StackOK'
    BY <1>3, <2>6, <2>7 DEF StackOK, IsTask, Resuming
  <2> QED BY <1>2, <1>3, <2>8 DEF Data
<1>5. CASE Head(todo).do # "resumed"
  <2>1. stopped => stopped'
    BY <1>1, <1>5 DEF At
  <2>2. IsStop(Head(todo)) => stopped'
    <3>1. Op("require", "stopped").do = "require"
      BY OpFields
    <3> QED BY <1>1, <3>1 DEF At, IsStop
  <2>3. StackOK'
    BY <1>1, <1>3, <2>1, <2>2, OpPops
  <2> QED BY <1>2, <1>3, <2>3 DEF Data
<1> QED BY <1>4, <1>5

LEMMA NotifyStep == ASSUME StackOK, Data, Notify PROVE StackOK' /\ Data'
<1>1. /\ UNCHANGED <<tgt, cmds, rx, hits, lines, stopped, breakpoint, dbg, regs, cache,
                     leaving, polled, configured, requests, isXemu>>
      /\ shown' = TRUE /\ Continue(Rest)
  BY DEF Notify, target, client
<1>2. todo # <<>> /\ Head(todo).do = "notify" /\ ~IsStop(Head(todo))
  BY AtOp DEF Notify
<1>3. ~NotifiesStops(todo)
  BY <1>2 DEF NotifiesStops, StackOK
<1>4. stopped
  BY <1>3 DEF StackOK
<1>5. StackOK' /\ Flow'
  BY <1>1, <1>2, <1>4, Continues, OpPops DEF Data
<1> QED BY <1>1, <1>5 DEF Data, Target, Memory, Booleans

(***************************************************************************)
(* The main loop.                                                          *)
(***************************************************************************)
LEMMA TakeTaskStep == ASSUME StackOK, Data, TakeTask PROVE StackOK' /\ Data'
<1>1. /\ UNCHANGED <<tgt, cmds, rx, hits, lines, phase, task, stopped, breakpoint, dbg, regs,
                     cache, dead, shown, answer, leaving, polled, configured, requests, isXemu>>
      /\ todo = <<>> /\ todo' = Script(task) \o <<Op("return", "")>>
      /\ task \in Requests \cup {"launch"}
  BY DEF TakeTask, Unchanged, Idle, target, client, Data, Flow
<1>2. StackOK'
  BY <1>1, ScriptIsTask, TaskStarts
<1>3. Target' /\ Memory'
  BY <1>1 DEF Data, Target, Memory
<1>4. Flow'
  BY <1>1 DEF Data, Flow
<1>5. Booleans'
  BY <1>1 DEF Data, Booleans
<1> QED BY <1>2, <1>3, <1>4, <1>5 DEF Data

LEMMA ReturnStep == ASSUME StackOK, Data, Return PROVE StackOK' /\ Data'
<1>1. /\ UNCHANGED <<tgt, cmds, rx, hits, lines, stopped, breakpoint, dbg, regs, cache, dead,
                     leaving, polled, configured, requests, isXemu>>
      /\ todo' = Rest /\ task' = "none" /\ phase' = "events"
      /\ answer' \in {answer, "done"}
      /\ shown' = (shown /\ task # "cont")
  BY DEF Return, target, client
<1>2. todo # <<>> /\ Head(todo).do = "return"
  BY AtOp DEF Return
<1>3. todo \in Seq(Ops) /\ 1 \in DOMAIN todo /\ todo[1].do = "return"
  BY <1>2 DEF StackOK
<1>4. Len(todo) = 1
  BY <1>3 DEF StackOK, ReturnsLast
<1>5. todo' = <<>>
  BY <1>1, <1>3, <1>4, HeadTailProperties DEF Rest
<1>6. shown' => stopped'
  BY <1>1 DEF StackOK, Resuming, Data, Booleans
<1>7. StackOK'
  BY <1>5, <1>6 DEF StackOK, ReturnsLast, ResumesLast, NotifiesStops
<1>8. Target' /\ Memory' /\ Booleans'
  BY <1>1 DEF Data, Target, Memory, Booleans
<1>9. Flow'
  BY <1>1 DEF Data, Flow
<1> QED BY <1>7, <1>8, <1>9 DEF Data

\* A step of the main loop that is none of a task, an event or the poll.
LEMMA LoopTurns ==
  ASSUME StackOK, Data,
         UNCHANGED <<tgt, hits, lines, task, stopped, breakpoint, dbg, regs, cache, shown,
                     answer, polled, configured, requests, isXemu>>,
         cmds' \in Seq(Commands), rx' \in Seq(LinesOfTarget), leaving' \in BOOLEAN,
         phase' \in {"task", "events", "poll", "exited", "reset", "closed"},
         dead' \in {"no", "terminate", "undefined"},
         \/ todo' = todo
         \/ todo # <<>> /\ todo' = Rest /\ Head(todo).do # "return" /\ ~IsStop(Head(todo))
  PROVE  StackOK' /\ Data'
<1>1. StackOK'
  BY StackStays, OpPops
<1> QED BY <1>1 DEF Data, Target, Memory, Flow, Booleans

LEMMA QuietSteps ==
  ASSUME StackOK, Data,
         NoTask \/ NoEvent \/ EventDone \/ NoPoll \/ PollDone \/ Joined \/ ResetTarget
           \/ Disconnect \/ Over
  PROVE  StackOK' /\ Data'
<1>1. CASE NoTask \/ NoEvent \/ NoPoll
  BY <1>1, LoopTurns
     DEF NoTask, NoEvent, NoPoll, LoopEnd, Unchanged, target, client, Data, Target, Flow,
         Booleans
<1>2. CASE EventDone \/ PollDone
  <2>1. todo # <<>> /\ Head(todo).do \in {"eventdone", "polldone"} /\ ~IsStop(Head(todo))
    <3>1. CASE At("eventdone")
      BY <3>1, AtOp
    <3>2. CASE At("polldone")
      BY <3>2, AtOp
    <3> QED BY <1>2, <3>1, <3>2 DEF EventDone, PollDone
  <2> QED BY <1>2, <2>1, LoopTurns
          DEF EventDone, PollDone, LoopEnd, Unchanged, target, client, Data, Target, Flow,
              Booleans
<1>3. CASE Joined
  <2>1. cmds' \in Seq(Commands)
    BY <1>3, SMTT(30) DEF Joined, Commands, Data, Target
  <2> QED BY <1>3, <2>1, LoopTurns DEF Joined, target, client, Data, Target, Flow, Booleans
<1>4. CASE ResetTarget
  <2>1. rx' \in Seq(LinesOfTarget)
    <3>1. rx' = <<>> \/ rx' = rx
      BY <1>4 DEF ResetTarget
    <3>2. rx \in Seq(LinesOfTarget) /\ <<>> \in Seq(LinesOfTarget)
      BY DEF Data, Target
    <3> QED BY <3>1, <3>2
  <2> QED BY <1>4, <2>1, LoopTurns DEF ResetTarget, client, Data, Target, Flow, Booleans
<1>5. CASE Over
  BY <1>5, LoopTurns DEF Over, vars, target, adapter, client, Data, Target, Flow, Booleans
<1>6. CASE Disconnect
  BY <1>6, LoopTurns DEF Disconnect, target, client, Data, Target, Flow
<1> QED BY <1>1, <1>2, <1>3, <1>4, <1>5, <1>6

LEMMA DoEventStep == ASSUME StackOK, Data, DoEvent PROVE StackOK' /\ Data'
<1>1. UNCHANGED <<tgt, cmds, hits, lines, stopped, breakpoint, dbg, regs, cache, shown,
                  leaving, polled, configured, requests, isXemu>>
  BY DEF DoEvent, client
<1>2. rx # <<>> /\ todo = <<>>
  BY DEF DoEvent, Idle
<1> DEFINE a == IF isXemu THEN Op("readevent", "") ELSE Op("getlines", "")
           b == Op("event", "")
           c == Op("eventdone", "")
<1>3. CASE /\ todo' = <<a, b, c>>
           /\ rx' \in IF Head(rx) = Bang THEN AfterBang(Tail(rx)) ELSE {Tail(rx)}
           /\ UNCHANGED <<task, answer, phase, dead>>
  <2>1. {a, b, c} \subseteq Ops /\ a.do \in {"readevent", "getlines"}
        /\ b.do = "event" /\ c.do = "eventdone"
    BY OpTypes, OpFields DEF Plain
  <2>2. IsPush(<<a, b, c>>)
    <3> HIDE DEF a, b, c
    <3> QED BY <2>1 DEF IsPush, IsBody, NotifiesStops
  <2>3. StackOK'
    <3> HIDE DEF a, b, c
    <3> QED BY <1>1, <1>2, <1>3, <2>2, PushIsTask, TaskStarts
  <2>4. Tail(rx) \in Seq(LinesOfTarget)
    BY <1>2 DEF Data, Target
  <2>5. rx' \in Seq(LinesOfTarget)
    BY <1>3, <2>4, AfterTypes
  <2>6. Target' /\ Memory' /\ Booleans'
    BY <1>1, <2>5 DEF Data, Target, Memory, Booleans
  <2>7. Flow'
    BY <1>1, <1>3 DEF Data, Flow
  <2> QED BY <2>3, <2>6, <2>7 DEF Data
<1>4. CASE Throw /\ UNCHANGED rx
  <2>1. StackOK' /\ Flow'
    BY <1>1, <1>4, Throws DEF Data
  <2> QED BY <1>1, <1>4, <2>1 DEF Data, Target, Memory, Booleans
<1> QED BY <1>3, <1>4 DEF DoEvent

LEMMA PollStep == ASSUME StackOK, Data, Poll PROVE StackOK' /\ Data'
<1>1. /\ UNCHANGED <<tgt, cmds, rx, hits, lines, phase, task, stopped, breakpoint, dbg, regs,
                     cache, dead, shown, answer, leaving, polled, configured, requests, isXemu>>
      /\ todo = <<>> /\ todo' = ReadRegs \o <<Op("verdict", "poll"), Op("polldone", "")>>
  BY DEF Poll, Unchanged, Idle, target, client
<1> DEFINE a == Op("verdict", "poll")
           b == Op("polldone", "")
<1>2. {a, b} \subseteq Ops /\ a.do = "verdict" /\ b.do = "polldone"
  BY OpTypes, OpFields DEF Plain
<1>3. todo' = ReadRegs \o <<a, b>>
  BY <1>1
<1> HIDE DEF a, b
<1>4. IsPush(<<a, b>>)
  BY <1>2 DEF IsPush, IsBody, NotifiesStops
<1>5. IsPush(ReadRegs \o <<a, b>>)
  BY <1>4, PushReadRegs, PushBody DEF IsPush
<1>6. StackOK'
  BY <1>1, <1>3, <1>5, PushIsTask, TaskStarts
<1>7. Target' /\ Memory'
  BY <1>1 DEF Data, Target, Memory
<1>8. Flow'
  BY <1>1 DEF Data, Flow
<1>9. Booleans'
  BY <1>1 DEF Data, Booleans
<1> QED BY <1>6, <1>7, <1>8, <1>9 DEF Data

(***************************************************************************)
(* A request comes only while no task is under way: nothing on the stack   *)
(* resumes the target.                                                     *)
(***************************************************************************)
LEMMA RequestStep == ASSUME StackOK, Data, Request PROVE StackOK' /\ Data'
<1>1. UNCHANGED <<tgt, cmds, rx, hits, todo, lines, phase, stopped, breakpoint, dbg, regs,
                  cache, dead, leaving, polled, isXemu>>
  BY DEF Request, target
<1>2. /\ task = "none" /\ task' \in Requests
      /\ shown' \in BOOLEAN /\ (shown' => shown) /\ configured' \in BOOLEAN
      /\ answer' = "none" /\ requests' \in 0 .. MaxRequests
  BY ConstantsAssumption DEF Request, Data, Flow, Booleans
<1>3. ResumesLast(todo, task')
  BY <1>2 DEF StackOK, ResumesLast
<1>4. StackOK'
  BY <1>1, <1>2, <1>3 DEF StackOK, Resuming
<1> QED BY <1>1, <1>2, <1>4 DEF Data, Target, Memory, Flow, Booleans

-----------------------------------------------------------------------------
(***************************************************************************)
(* The invariant.                                                          *)
(***************************************************************************)
LEMMA InitInv == Init => ClientInv
<1> SUFFICES ASSUME Init PROVE StackOK /\ Data
  BY Parts
<1>1. StackOK
  BY DEF Init, StackOK, ReturnsLast, ResumesLast, NotifiesStops
<1>2. tgt \in [running : BOOLEAN, armed : BOOLEAN, pc : PCs]
  <2>1. PICK armed \in BOOLEAN : tgt = [running |-> TRUE, armed |-> armed, pc |-> "away"]
    BY ConstantsAssumption DEF Init
  <2> QED BY <2>1 DEF PCs
<1>3. Target /\ Memory
  BY <1>2, ConstantsAssumption DEF Init, Target, Memory, Empty, PCs
<1>4. Flow
  BY ConstantsAssumption DEF Init, Flow
<1>5. Booleans
  BY DEF Init, Booleans
<1> QED BY <1>1, <1>3, <1>4, <1>5 DEF Data

LEMMA NextInv == ClientInv /\ [Next]_vars => ClientInv'
<1> SUFFICES ASSUME StackOK, Data, [Next]_vars PROVE StackOK' /\ Data'
  BY Parts, NextParts
<1>1. CASE Process \/ Hit
  BY <1>1, ProcessStep, HitStep
<1>2. CASE Connection
  BY <1>2, SendStep, GetLinesStep, TimeoutStep, ReadEventStep DEF Connection
<1>3. CASE Local
  BY <1>3, UpdateRegsStep, HandleBreakpointStep, VerdictStep, FillStep, RequireStep,
     AssignStep, SymbolsStep, NotifyStep, EvaluateStep DEF Local
<1>4. CASE Loop
  BY <1>4, TakeTaskStep, ReturnStep, QuietSteps, DoEventStep, PollStep DEF Loop
<1>5. CASE Request
  BY <1>5, RequestStep
<1>6. CASE Disconnect \/ Over
  BY <1>6, QuietSteps
<1>7. CASE UNCHANGED vars
  BY <1>7, LoopTurns DEF vars, target, adapter, client, Data, Target, Flow, Booleans
<1> QED BY <1>1, <1>2, <1>3, <1>4, <1>5, <1>6, <1>7 DEF Next

(***************************************************************************)
(* The invariant ClientInv holds: a stop is announced only behind the      *)
(* operation that sets or requires stopped_, and stopped_ is reset by the  *)
(* last operation of cont() only.                                          *)
(***************************************************************************)
THEOREM ClientInvariant == Spec => []ClientInv
<1> QED BY InitInv, NextInv, PTL DEF Spec

(***************************************************************************)
(* Type correctness of the debugger.                                       *)
(***************************************************************************)
THEOREM DebuggerTypes == Spec => []TypeOK
<1>1. ClientInv => TypeOK
  BY DEF ClientInv
<1> QED BY <1>1, ClientInvariant, PTL

(***************************************************************************)
(* Between two requests a client that was told of a stop is right about    *)
(* stopped_, whatever the target reports, when, and after what: next() and *)
(* the evaluations are not refused to it.                                  *)
(***************************************************************************)
THEOREM ClientIsRight == Spec => []ClientAgrees
<1>1. ClientInv => ClientAgrees
  BY DEF ClientInv, ClientAgrees, Resuming
<1> QED BY <1>1, ClientInvariant, PTL
=============================================================================
