---------------------- MODULE M65Debugger_quiet_proofs ----------------------
(***************************************************************************)
(* What is proved of the debugger's main loop while events wait until it   *)
(* looks for them, chunks do not end inside of a prompt and no breakpoint  *)
(* is left by an earlier session, for both targets, every breakpoint and   *)
(* any number of requests and stops: it never brings the adapter down,     *)
(* replies stay paired with their commands, what it tells the client of a  *)
(* stop is true, and the memory it shows is that of the stop.              *)
(***************************************************************************)
EXTENDS M65Debugger_proofs

(***************************************************************************)
(* Without any one of the four the debugger may bring the adapter down;    *)
(* replies need only the first and the last, announcements the first, and  *)
(* StopIsReal, as far as TLC has looked, none.                             *)
(***************************************************************************)
Quiet == ~Overtaking /\ ~SplitPrompts /\ ~LeftoverBp /\ ~Late

-----------------------------------------------------------------------------
(***************************************************************************)
(* The stacks of the main loop's thread, each named for what is left to do *)
(* of a task, of an event and of a poll.                                   *)
(***************************************************************************)
First(op, s) == <<op>> \o s
Do(c, s)     == First(Op("send", c), First(Op("await", c), s))

Finish  == <<Op("return", "")>>
Loaded  == First(Op("symbols", ""), Finish)
Loading == First(Op("getlines", ""), Loaded)
Load    == First(Op("send", "load"), Loading)

Run == Do("keys", Do("count", Finish))

Paused     == First(Op("notify", "pause"), Finish)
PauseKnown == First(Op("forget", ""), Paused)
PauseAsked == First(Op("regs", "strict"), PauseKnown)
PauseSet   == First(Op("stopped", ""), Do("r", PauseAsked))

Resumed == First(Op("resumed", ""), Finish)

Stepped     == First(Op("notify", "step"), Finish)
StepKnown   == First(Op("forget", ""), Stepped)
StepAsked   == First(Op("regs", "retry"), StepKnown)
StepEchoed  == IF isXemu THEN First(Op("getlines", ""), StepAsked) ELSE StepAsked
StepOverAll == First(Op("require", "stopped"), Do("step", StepEchoed))

BpKnown == First(Op("bpset", ""), Finish)
BpAll   == First(Op("require", "symbols"), Do("b", BpKnown))

Evaluated(p) == First(Op("evaluate", p), Finish)
Fetched(p)   == First(Op("fill", p), Evaluated(p))
EvalAll(p)   == First(Op("require", "stopped"), Evaluated(p))

EventOver    == <<Op("eventdone", "")>>
EventTold    == First(Op("notify", "breakpoint"), EventOver)
EventJudged  == First(Op("verdict", "event"), EventOver)
EventFetched == First(Op("fill", "code"), EventJudged)
EventHeard   == First(Op("event", ""), EventOver)
EventAll     == First(IF isXemu THEN Op("readevent", "") ELSE Op("getlines", ""), EventHeard)

PollOver    == <<Op("polldone", "")>>
PollTold    == First(Op("notify", "breakpoint"), PollOver)
PollJudged  == First(Op("verdict", "poll"), PollOver)
PollFetched == First(Op("fill", "code"), PollJudged)
PollAsked   == First(Op("regs", "strict"), PollJudged)

-----------------------------------------------------------------------------
(***************************************************************************)
(* The connection: nothing is under way, or one command or its answer.     *)
(***************************************************************************)
Still      == cmds = <<>> /\ rx = <<>>
Asked(c)   == cmds = <<c>> /\ rx = <<>>
Answered(c) == /\ cmds = <<>>
               /\ \E pc \in PCs : rx = Reply(c, pc) /\ (~tgt.running => pc = tgt.pc)
               /\ c = "t1" => ~tgt.running

Ready(s)   == todo = s /\ Still
Doing(c, s) == \/ todo = Do(c, s) /\ Still
               \/ todo = First(Op("await", c), s) /\ (Asked(c) \/ Answered(c))

(***************************************************************************)
(* What update_registers() and get_memory_bytes() look for in the lines.   *)
(***************************************************************************)
RegsIn(ls, pc) == \E i \in DOMAIN ls : /\ FirstLine(i, ls) /\ i < Len(ls)
                                       /\ ls[i] = Header /\ ls[i + 1] = Regs(pc)
MemIn(ls) == \E i \in DOMAIN ls : FirstLine(i, ls) /\ ls[i].kind = "mem"

Standing == ~tgt.running /\ regs = tgt.pc
Calm     == polled \/ ~tgt.running

InTask(t) == phase = "task" /\ task = t

Launching == InTask("launch") /\ \/ Ready(Load) \/ Ready(Loaded)
                                 \/ todo = Loading /\ (Asked("load") \/ Answered("load"))
Running   == InTask("run") /\ (Doing("keys", Do("count", Finish)) \/ Doing("count", Finish))
Pausing   == /\ InTask("pause")
             /\ \/ Doing("t1", PauseSet)
                \/ /\ ~tgt.running
                   /\ \/ Ready(PauseSet) \/ Doing("r", PauseAsked)
                      \/ (Ready(PauseAsked) /\ RegsIn(lines, tgt.pc))
                      \/ Ready(PauseKnown) /\ Standing
                      \/ Ready(Paused) /\ Standing /\ cache = Empty
Continuing == InTask("cont") /\ (Doing("t0", Resumed) \/ Ready(Resumed))
Stepping   == /\ InTask("next") /\ Calm
              /\ \/ Ready(StepOverAll)
                 \/ Doing("step", StepEchoed)
                 \/ /\ isXemu /\ todo = StepEchoed /\ cmds = <<>>
                    /\ \E pc \in PCs : /\ rx = <<Blank>> \o RegisterLines(pc) \o Prompt
                                       /\ ~tgt.running => pc = tgt.pc
                 \/ /\ Ready(StepAsked)
                    /\ \E pc \in PCs : RegsIn(lines, pc) /\ (~tgt.running => pc = tgt.pc)
                 \/ Ready(StepKnown) /\ (polled \/ Standing)
                 \/ Ready(Stepped) /\ (polled \/ Standing) /\ cache = Empty
Setting    == /\ InTask("setbp")
              /\ \/ Ready(BpAll) /\ (tgt.armed => breakpoint)
                 \/ Doing("b", BpKnown) \/ Ready(BpKnown)
Evaluating(p) == /\ InTask(p)
                 /\ \/ Ready(EvalAll(p)) \/ Ready(Evaluated(p))
                    \/ Doing(p, Fetched(p)) \/ (Ready(Fetched(p)) /\ MemIn(lines))
Finishing  == phase = "task" /\ task # "none" /\ Ready(Finish)

Unnoticed == breakpoint /\ (stopped => polled) /\ ~tgt.running
Reported == rx = Event(tgt.pc)
Listening ==
  /\ phase = "events"
  /\ \/ Ready(<<>>)
     \/ todo = <<>> /\ cmds = <<>> /\ Unnoticed /\ Reported
     \/ /\ Unnoticed /\ cmds = <<>> /\ todo = EventAll
        /\ IF isXemu THEN rx = RegisterLines(tgt.pc)
           ELSE rx \in {RegisterLines(tgt.pc) \o Prompt, <<Blank>> \o RegisterLines(tgt.pc) \o Prompt}
     \/ Unnoticed /\ Ready(EventHeard) /\ RegsIn(lines, tgt.pc)
     \/ /\ Unnoticed /\ regs = tgt.pc
        /\ \/ Ready(EventJudged) \/ Doing("code", EventFetched)
           \/ Ready(EventFetched) /\ MemIn(lines)
     \/ (stopped => polled) /\ Doing("t0", EventOver)
     \/ Ready(EventTold) /\ Standing /\ cache = Empty
     \/ Ready(EventOver)
Polling ==
  /\ phase = "poll"
  /\ \/ Ready(<<>>)
     \/ /\ ~stopped
        /\ \/ Doing("r", PollAsked) \/ Ready(PollJudged) \/ Doing("code", PollFetched)
           \/ Ready(PollAsked) /\ \E pc \in PCs : RegsIn(lines, pc)
           \/ Ready(PollFetched) /\ MemIn(lines)
     \/ Ready(PollTold) /\ polled
     \/ Ready(PollOver)
Between == phase \in {"task", "exited", "closed"} /\ Ready(<<>>)
Leaving == phase = "reset" /\ todo = <<>> /\ (Asked("!") \/ Answered("!"))

Place == \/ Launching \/ Running \/ Pausing \/ Continuing \/ Stepping \/ Setting
         \/ (\E p \in Pages : Evaluating(p)) \/ Finishing
         \/ Listening \/ Polling \/ Between \/ Leaving

StopHolds ==
  stopped /\ ~polled /\ phase \in {"task", "events", "poll"} =>
    Standing \/ Pausing \/ Continuing \/ Stepping
ArmedIsKnown == tgt.armed => breakpoint \/ Setting
NeedsStop == task \in {"next"} \cup Pages => stopped

(***************************************************************************)
(* The invariant: where the loop is, that it believes in a stop only while *)
(* the target stands, and that it knows of every breakpoint.               *)
(***************************************************************************)
Beliefs  == Alive /\ StopHolds /\ ArmedIsKnown /\ NeedsStop
Good     == Place /\ Beliefs
QuietInv == ClientInv /\ Good

-----------------------------------------------------------------------------
(***************************************************************************)
(* The stacks.                                                             *)
(***************************************************************************)
Top(s, op, rest) == s # <<>> /\ Head(s) = op /\ Tail(s) = rest /\ s \in Seq(Ops)

LEMMA FirstTop ==
  ASSUME NEW op \in Ops, NEW s \in Seq(Ops)
  PROVE  Top(First(op, s), op, s)
<1>. DEFINE q == <<op>> \o s
<1>1. <<op>> \in Seq(Ops) /\ Len(<<op>>) = 1 /\ <<op>>[1] = op
  OBVIOUS
<1>2. /\ q \in Seq(Ops) /\ Len(q) = Len(s) + 1 /\ Len(s) \in Nat
      /\ \A i \in 1 .. Len(s) + 1 : q[i] = IF i <= 1 THEN <<op>>[i] ELSE s[i - 1]
  BY <1>1, ConcatProperties
<1>3. q[1] = op /\ q # <<>>
  BY <1>1, <1>2
<1>. HIDE DEF q
<1>4. /\ Tail(q) \in Seq(Ops) /\ Len(Tail(q)) = Len(s)
      /\ \A i \in 1 .. Len(s) : Tail(q)[i] = q[i + 1]
  BY <1>2, <1>3, HeadTailProperties
<1>5. \A i \in 1 .. Len(s) : Tail(q)[i] = s[i]
  BY <1>2, <1>4
<1>6. Tail(q) = s
  BY <1>4, <1>5, SeqEqual
<1>7. Head(q) = op
  BY <1>2, <1>3
<1>. QED BY <1>2, <1>3, <1>6, <1>7 DEF First, q, Top

LEMMA DoTop ==
  ASSUME NEW c \in Commands, NEW s \in Seq(Ops)
  PROVE  /\ Top(Do(c, s), Op("send", c), First(Op("await", c), s))
         /\ Top(First(Op("await", c), s), Op("await", c), s)
<1>1. Top(First(Op("await", c), s), Op("await", c), s)
  BY OpTypes, FirstTop
<1>. QED BY <1>1, OpTypes, FirstTop DEF Do, Top

LEMMA FinishTop ==
  /\ Top(Finish, Op("return", ""), <<>>)
  /\ Top(EventOver, Op("eventdone", ""), <<>>)
  /\ Top(PollOver, Op("polldone", ""), <<>>)
<1>1. \A d \in {"return", "eventdone", "polldone"} : Op(d, "") \in Ops
  BY OpTypes DEF Plain
<1>2. \A op \in Ops : Top(<<op>>, op, <<>>)
  BY DEF Top
<1>. QED BY <1>1, <1>2 DEF Finish, EventOver, PollOver

LEMMA PlainTop ==
  ASSUME NEW d \in Plain, NEW s \in Seq(Ops)
  PROVE  Top(First(Op(d, ""), s), Op(d, ""), s)
BY OpTypes, FirstTop

LEMMA LaunchTops ==
  /\ Top(Loaded, Op("symbols", ""), Finish)
  /\ Top(Loading, Op("getlines", ""), Loaded)
  /\ Top(Load, Op("send", "load"), Loading)
  /\ Do("count", Finish) \in Seq(Ops)
  /\ Run \in Seq(Ops)
<1>1. Top(Loaded, Op("symbols", ""), Finish)
  BY FinishTop, PlainTop DEF Loaded, Top, Plain
<1>2. Top(Loading, Op("getlines", ""), Loaded)
  BY <1>1, PlainTop DEF Loading, Top, Plain
<1>3. Top(Load, Op("send", "load"), Loading)
  <2>1. Op("send", "load") \in Ops
    BY OpTypes DEF Commands
  <2>. QED BY <1>2, <2>1, FirstTop DEF Load, Top
<1>4. Do("count", Finish) \in Seq(Ops)
  BY FinishTop, DoTop DEF Top, Commands
<1>5. Run \in Seq(Ops)
  BY <1>4, DoTop DEF Top, Run, Commands
<1>. QED BY <1>1, <1>2, <1>3, <1>4, <1>5

LEMMA PauseTops ==
  /\ Top(Paused, Op("notify", "pause"), Finish)
  /\ Top(PauseKnown, Op("forget", ""), Paused)
  /\ Top(PauseAsked, Op("regs", "strict"), PauseKnown)
  /\ Top(PauseSet, Op("stopped", ""), Do("r", PauseAsked))
<1>1. Top(Paused, Op("notify", "pause"), Finish)
  BY FinishTop, FirstTop, OpTypes DEF Paused, Top
<1>2. Top(PauseKnown, Op("forget", ""), Paused)
  BY <1>1, PlainTop DEF PauseKnown, Top, Plain
<1>3. Top(PauseAsked, Op("regs", "strict"), PauseKnown)
  BY <1>2, FirstTop, OpTypes DEF PauseAsked, Top
<1>4. Do("r", PauseAsked) \in Seq(Ops)
  BY <1>3, DoTop DEF Top, Commands
<1>5. Top(PauseSet, Op("stopped", ""), Do("r", PauseAsked))
  BY <1>4, PlainTop DEF PauseSet, Top, Plain
<1>. QED BY <1>1, <1>2, <1>3, <1>5

LEMMA StepTops ==
  /\ Top(Stepped, Op("notify", "step"), Finish)
  /\ Top(StepKnown, Op("forget", ""), Stepped)
  /\ Top(StepAsked, Op("regs", "retry"), StepKnown)
  /\ isXemu => Top(StepEchoed, Op("getlines", ""), StepAsked)
  /\ StepEchoed \in Seq(Ops)
  /\ Top(StepOverAll, Op("require", "stopped"), Do("step", StepEchoed))
<1>1. Top(Stepped, Op("notify", "step"), Finish)
  BY FinishTop, FirstTop, OpTypes DEF Stepped, Top
<1>2. Top(StepKnown, Op("forget", ""), Stepped)
  BY <1>1, PlainTop DEF StepKnown, Top, Plain
<1>3. Top(StepAsked, Op("regs", "retry"), StepKnown)
  BY <1>2, FirstTop, OpTypes DEF StepAsked, Top
<1>4. isXemu => Top(StepEchoed, Op("getlines", ""), StepAsked)
  BY <1>3, PlainTop DEF StepEchoed, Top, Plain
<1>5. StepEchoed \in Seq(Ops)
  BY <1>3, <1>4 DEF StepEchoed, Top
<1>6. Do("step", StepEchoed) \in Seq(Ops)
  BY <1>5, DoTop DEF Top, Commands
<1>7. Top(StepOverAll, Op("require", "stopped"), Do("step", StepEchoed))
  BY <1>6, FirstTop, OpTypes DEF StepOverAll, Top
<1>. QED BY <1>1, <1>2, <1>3, <1>4, <1>5, <1>7

LEMMA TaskTops ==
  /\ Top(Resumed, Op("resumed", ""), Finish)
  /\ Top(BpKnown, Op("bpset", ""), Finish)
  /\ Top(BpAll, Op("require", "symbols"), Do("b", BpKnown))
  /\ \A p \in Pages : /\ Top(Evaluated(p), Op("evaluate", p), Finish)
                      /\ Top(Fetched(p), Op("fill", p), Evaluated(p))
                      /\ Top(EvalAll(p), Op("require", "stopped"), Evaluated(p))
<1>1. Top(Resumed, Op("resumed", ""), Finish)
  BY FinishTop, PlainTop DEF Resumed, Top, Plain
<1>2. Top(BpKnown, Op("bpset", ""), Finish)
  BY FinishTop, PlainTop DEF BpKnown, Top, Plain
<1>3. Top(BpAll, Op("require", "symbols"), Do("b", BpKnown))
  <2>1. Do("b", BpKnown) \in Seq(Ops)
    BY <1>2, DoTop DEF Top, Commands
  <2>. QED BY <2>1, FirstTop, OpTypes DEF BpAll, Top
<1>4. ASSUME NEW p \in Pages
      PROVE  /\ Top(Evaluated(p), Op("evaluate", p), Finish)
             /\ Top(Fetched(p), Op("fill", p), Evaluated(p))
             /\ Top(EvalAll(p), Op("require", "stopped"), Evaluated(p))
  <2>1. Top(Evaluated(p), Op("evaluate", p), Finish)
    BY FinishTop, FirstTop, OpTypes DEF Evaluated, Top
  <2>2. Top(Fetched(p), Op("fill", p), Evaluated(p))
    BY <2>1, FirstTop, OpTypes DEF Fetched, Top
  <2>3. Top(EvalAll(p), Op("require", "stopped"), Evaluated(p))
    BY <2>1, FirstTop, OpTypes DEF EvalAll, Top
  <2>. QED BY <2>1, <2>2, <2>3
<1>. QED BY <1>1, <1>2, <1>3, <1>4

LEMMA EventTops ==
  /\ Top(EventTold, Op("notify", "breakpoint"), EventOver)
  /\ Top(EventJudged, Op("verdict", "event"), EventOver)
  /\ Top(EventFetched, Op("fill", "code"), EventJudged)
  /\ Top(EventHeard, Op("event", ""), EventOver)
  /\ Top(EventAll, IF isXemu THEN Op("readevent", "") ELSE Op("getlines", ""), EventHeard)
<1>1. Top(EventTold, Op("notify", "breakpoint"), EventOver)
  BY FinishTop, FirstTop, OpTypes DEF EventTold, Top
<1>2. Top(EventJudged, Op("verdict", "event"), EventOver)
  BY FinishTop, FirstTop, OpTypes DEF EventJudged, Top
<1>3. Top(EventFetched, Op("fill", "code"), EventJudged)
  BY <1>2, FirstTop, OpTypes DEF EventFetched, Top, Pages
<1>4. Top(EventHeard, Op("event", ""), EventOver)
  BY FinishTop, PlainTop DEF EventHeard, Top, Plain
<1>5. Top(EventAll, IF isXemu THEN Op("readevent", "") ELSE Op("getlines", ""), EventHeard)
  <2>1. (IF isXemu THEN Op("readevent", "") ELSE Op("getlines", "")) \in Ops
    BY OpTypes DEF Plain
  <2>. QED BY <1>4, <2>1, FirstTop DEF EventAll, Top
<1>. QED BY <1>1, <1>2, <1>3, <1>4, <1>5

LEMMA PollTops ==
  /\ Top(PollTold, Op("notify", "breakpoint"), PollOver)
  /\ Top(PollJudged, Op("verdict", "poll"), PollOver)
  /\ Top(PollFetched, Op("fill", "code"), PollJudged)
  /\ Top(PollAsked, Op("regs", "strict"), PollJudged)
<1>1. Top(PollTold, Op("notify", "breakpoint"), PollOver)
  BY FinishTop, FirstTop, OpTypes DEF PollTold, Top
<1>2. Top(PollJudged, Op("verdict", "poll"), PollOver)
  BY FinishTop, FirstTop, OpTypes DEF PollJudged, Top
<1>3. Top(PollFetched, Op("fill", "code"), PollJudged)
  BY <1>2, FirstTop, OpTypes DEF PollFetched, Top, Pages
<1>4. Top(PollAsked, Op("regs", "strict"), PollJudged)
  BY <1>2, FirstTop, OpTypes DEF PollAsked, Top
<1>. QED BY <1>1, <1>2, <1>3, <1>4

(***************************************************************************)
(* What operations put on the stack, and the scripts of the tasks.  Cat is *)
(* \o under a name of its own, which the provers leave alone.              *)
(***************************************************************************)
Cat(s, t) == s \o t

LEMMA Cats ==
  ASSUME NEW S, NEW q \in Seq(S), NEW r \in Seq(S), NEW s \in Seq(S)
  PROVE  Cat(Cat(q, r), s) = Cat(q, Cat(r, s)) /\ Cat(q, r) \in Seq(S)
BY ConcatAssociative, ConcatProperties DEF Cat

LEMMA Cons ==
  ASSUME NEW op \in Ops, NEW s \in Seq(Ops), NEW t \in Seq(Ops)
  PROVE  /\ Cat(First(op, s), t) = First(op, Cat(s, t))
         /\ First(op, s) \in Seq(Ops) /\ Cat(s, t) \in Seq(Ops)
<1>. DEFINE x == <<op>>
<1>1. \A u : First(op, u) = Cat(x, u)
  BY Zenon DEF First, Cat
<1>2. x \in Seq(Ops)
  OBVIOUS
<1>. HIDE DEF x
<1>. QED BY <1>1, <1>2, Cats

LEMMA Single ==
  ASSUME NEW a \in Ops, NEW s \in Seq(Ops)
  PROVE  <<a>> \in Seq(Ops) /\ Cat(<<a>>, s) = First(a, s)
<1>1. Cat(<<a>>, s) = First(a, s)
  BY Zenon DEF First, Cat
<1>. QED BY <1>1

LEMMA Pair ==
  ASSUME NEW a \in Ops, NEW b \in Ops
  PROVE  <<a, b>> = First(a, <<b>>) /\ <<a, b>> \in Seq(Ops)
<1>. DEFINE x == <<a>>
            y == <<b>>
            z == <<a, b>>
<1>1. x \in Seq(Ops) /\ y \in Seq(Ops) /\ z \in Seq(Ops) /\ Len(x) = 1 /\ Len(y) = 1 /\ Len(z) = 2
  OBVIOUS
<1>2. x[1] = a /\ y[1] = b /\ z[1] = a /\ z[2] = b
  OBVIOUS
<1>. HIDE DEF x, y, z
<1>3. /\ x \o y \in Seq(Ops) /\ Len(x \o y) = Len(x) + Len(y)
      /\ \A i \in 1 .. Len(x) + Len(y) : (x \o y)[i] = IF i <= Len(x) THEN x[i] ELSE y[i - Len(x)]
  BY <1>1, ConcatProperties
<1>4. Len(x \o y) = 2 /\ \A i \in 1 .. 2 : (x \o y)[i] = z[i]
  BY <1>1, <1>2, <1>3
<1>5. x \o y = z
  BY <1>1, <1>3, <1>4, SeqEqual
<1>. QED BY <1>1, <1>5 DEF x, y, z, First

LEMMA PairCat ==
  ASSUME NEW a \in Ops, NEW b \in Ops, NEW s \in Seq(Ops)
  PROVE  Cat(<<a, b>>, s) = First(a, First(b, s)) /\ <<a, b>> \in Seq(Ops)
<1>. DEFINE y == <<b>>
            z == <<a, b>>
<1>1. z = First(a, y) /\ z \in Seq(Ops) /\ y \in Seq(Ops) /\ Cat(y, s) = First(b, s)
  BY Pair, Single
<1>. HIDE DEF y, z
<1>2. Cat(z, s) = First(a, First(b, s))
  BY <1>1, Cons
<1>. QED BY <1>1, <1>2 DEF z

LEMMA Triple ==
  ASSUME NEW a \in Ops, NEW b \in Ops, NEW c \in Ops
  PROVE  <<a, b, c>> = First(a, First(b, <<c>>))
<1>. DEFINE x == <<a>>
            y == <<b, c>>
            z == <<a, b, c>>
<1>1. x \in Seq(Ops) /\ y \in Seq(Ops) /\ z \in Seq(Ops) /\ Len(x) = 1 /\ Len(y) = 2 /\ Len(z) = 3
  OBVIOUS
<1>2. x[1] = a /\ y[1] = b /\ y[2] = c /\ z[1] = a /\ z[2] = b /\ z[3] = c
  OBVIOUS
<1>6. y = First(b, <<c>>)
  BY Pair DEF y
<1>7. First(a, y) = x \o y
  BY Zenon DEF First, x
<1>. HIDE DEF x, y, z
<1>3. /\ x \o y \in Seq(Ops) /\ Len(x \o y) = Len(x) + Len(y)
      /\ \A i \in 1 .. Len(x) + Len(y) : (x \o y)[i] = IF i <= Len(x) THEN x[i] ELSE y[i - Len(x)]
  BY <1>1, ConcatProperties
<1>4. Len(x \o y) = 3 /\ \A i \in 1 .. 3 : (x \o y)[i] = z[i]
  BY <1>1, <1>2, <1>3
<1>5. x \o y = z
  BY <1>1, <1>3, <1>4, SeqEqual
<1>8. z = First(a, y)
  BY <1>5, <1>7
<1>. QED BY <1>6, <1>8, Zenon DEF z

LEMMA TripleCat ==
  ASSUME NEW a \in Ops, NEW b \in Ops, NEW c \in Ops, NEW s \in Seq(Ops)
  PROVE  Cat(<<a, b, c>>, s) = First(a, First(b, First(c, s))) /\ <<a, b, c>> \in Seq(Ops)
<1>. DEFINE y == <<b, c>>
            z == <<a, b, c>>
<1>1. y \in Seq(Ops) /\ z \in Seq(Ops) /\ y = First(b, <<c>>) /\ Cat(y, s) = First(b, First(c, s))
  BY Pair, PairCat
<1>2. z = First(a, First(b, <<c>>))
  BY Triple
<1>3. z = First(a, y)
  BY <1>1, <1>2, Zenon
<1>. HIDE DEF y, z
<1>4. Cat(z, s) = First(a, First(b, First(c, s)))
  BY <1>1, <1>3, Cons
<1>. QED BY <1>1, <1>4, Zenon DEF z

LEMMA ExecuteCat ==
  ASSUME NEW c \in Commands, NEW s \in Seq(Ops)
  PROVE  Cat(Execute(c), s) = Do(c, s) /\ Execute(c) \in Seq(Ops) /\ Do(c, s) \in Seq(Ops)
<1>1. Op("send", c) \in Ops /\ Op("await", c) \in Ops
  BY OpTypes
<1>. QED BY <1>1, PairCat, Cons DEF Execute, Do

LEMMA ExecuteThen ==
  ASSUME NEW c \in Commands, NEW q \in Seq(Ops), NEW s \in Seq(Ops)
  PROVE  Cat(Cat(Execute(c), q), s) = Do(c, Cat(q, s)) /\ Cat(Execute(c), q) \in Seq(Ops)
<1>1. Execute(c) \in Seq(Ops) /\ Cat(q, s) \in Seq(Ops)
  BY ExecuteCat, Cats
<1>. QED BY <1>1, ExecuteCat, Cats

LEMMA FetchCat ==
  ASSUME NEW p \in Pages, NEW s \in Seq(Ops)
  PROVE  Fetch(p) \o s = Do(p, First(Op("fill", p), s))
<1>. DEFINE y == <<Op("fill", p)>>
<1>1. y \in Seq(Ops) /\ Cat(y, s) = First(Op("fill", p), s) /\ p \in Commands
  BY OpTypes, Single DEF Commands
<1>2. Fetch(p) \o s = Cat(Cat(Execute(p), y), s)
  BY Zenon DEF Fetch, Cat
<1>. HIDE DEF y
<1>. QED BY <1>1, <1>2, ExecuteThen

LEMMA ReadRegsCat ==
  ASSUME NEW s \in Seq(Ops)
  PROVE  /\ Cat(ReadRegs, s) = Do("r", First(Op("regs", "strict"), s))
         /\ ReadRegs \in Seq(Ops)
<1>. DEFINE y == <<Op("regs", "strict")>>
<1>1. y \in Seq(Ops) /\ Cat(y, s) = First(Op("regs", "strict"), s) /\ "r" \in Commands
  BY OpTypes, Single DEF Commands
<1>2. ReadRegs = Cat(Execute("r"), y)
  BY Zenon DEF ReadRegs, Cat
<1>. HIDE DEF y
<1>. QED BY <1>1, <1>2, ExecuteThen

LEMMA ScriptLaunch == SetTarget \o Finish = Load
<1>. DEFINE a == Op("send", "load")
            b == Op("getlines", "")
            c == Op("symbols", "")
<1>1. a \in Ops /\ b \in Ops /\ c \in Ops /\ Finish \in Seq(Ops)
  BY OpTypes, FinishTop DEF Commands, Plain, Top
<1>2. SetTarget \o Finish = Cat(<<a, b, c>>, Finish)
  BY Zenon DEF SetTarget, Cat
<1>3. Load = First(a, First(b, First(c, Finish)))
  BY DEF Load, Loading, Loaded
<1>. HIDE DEF a, b, c
<1>. QED BY <1>1, <1>2, <1>3, TripleCat

LEMMA ScriptRun == RunTarget \o Finish = Run
<1>1. "keys" \in Commands /\ "count" \in Commands /\ Finish \in Seq(Ops)
  BY FinishTop DEF Commands, Top
<1>2. Execute("count") \in Seq(Ops) /\ Cat(Execute("count"), Finish) = Do("count", Finish)
  BY <1>1, ExecuteCat
<1>3. Cat(Cat(Execute("keys"), Execute("count")), Finish) = Do("keys", Do("count", Finish))
  BY <1>1, <1>2, ExecuteThen
<1>4. RunTarget \o Finish = Cat(Cat(Execute("keys"), Execute("count")), Finish)
  BY Zenon DEF RunTarget, Cat
<1>. QED BY <1>3, <1>4 DEF Run

LEMMA ScriptPause == Pause \o Finish = Do("t1", PauseSet)
<1>. DEFINE a == Op("stopped", "")
            b == Op("forget", "")
            c == Op("notify", "pause")
            x == <<a>>
            y == <<b, c>>
<1>1. a \in Ops /\ b \in Ops /\ c \in Ops /\ "t1" \in Commands
  BY OpTypes DEF Plain, Commands
<1>2. Pause \o Finish = Cat(Cat(Cat(Cat(Execute("t1"), x), ReadRegs), y), Finish)
  BY Zenon DEF Pause, Cat
<1>3. /\ PauseKnown = First(b, First(c, Finish)) /\ PauseKnown \in Seq(Ops)
      /\ PauseSet = First(a, Do("r", PauseAsked))
      /\ Do("r", PauseAsked) = Cat(ReadRegs, PauseKnown)
      /\ Do("r", PauseAsked) \in Seq(Ops)
  <2>1. PauseKnown = First(b, First(c, Finish)) /\ PauseSet = First(a, Do("r", PauseAsked))
    BY DEF PauseKnown, Paused, PauseSet
  <2>2. PauseKnown \in Seq(Ops) /\ PauseAsked \in Seq(Ops)
    BY PauseTops DEF Top
  <2>3. Do("r", PauseAsked) = Cat(ReadRegs, PauseKnown)
    BY <2>2, ReadRegsCat DEF PauseAsked
  <2>4. Do("r", PauseAsked) \in Seq(Ops)
    BY <2>2, ExecuteCat DEF Commands
  <2>. QED BY <2>1, <2>2, <2>3, <2>4
<1>4. /\ y \in Seq(Ops) /\ Cat(y, Finish) = PauseKnown
      /\ x \in Seq(Ops) /\ Cat(x, Do("r", PauseAsked)) = PauseSet
      /\ Finish \in Seq(Ops)
  <2>1. Finish \in Seq(Ops)
    BY FinishTop DEF Top
  <2>. HIDE DEF a, b, c
  <2>. QED BY <1>1, <1>3, <2>1, PairCat, Single
<1>. HIDE DEF a, b, c, x, y
<1>5. Execute("t1") \in Seq(Ops) /\ ReadRegs \in Seq(Ops)
  BY <1>1, <1>4, ExecuteCat, ReadRegsCat
<1>6. Cat(Execute("t1"), x) \in Seq(Ops) /\ Cat(Cat(Execute("t1"), x), ReadRegs) \in Seq(Ops)
  BY <1>4, <1>5, Cats
<1>7. Cat(Cat(Cat(Cat(Execute("t1"), x), ReadRegs), y), Finish)
        = Cat(Cat(Cat(Execute("t1"), x), ReadRegs), PauseKnown)
  BY <1>4, <1>6, Cats
<1>8. Cat(Cat(Cat(Execute("t1"), x), ReadRegs), PauseKnown)
        = Cat(Cat(Execute("t1"), x), Do("r", PauseAsked))
  BY <1>3, <1>5, <1>6, Cats
<1>9. Cat(Cat(Execute("t1"), x), Do("r", PauseAsked)) = Do("t1", Cat(x, Do("r", PauseAsked)))
  BY <1>1, <1>3, <1>4, ExecuteThen
<1>. QED BY <1>2, <1>4, <1>7, <1>8, <1>9

LEMMA ScriptCont == Cont \o Finish = Do("t0", Resumed)
<1>. DEFINE y == <<Op("resumed", "")>>
<1>1. /\ "t0" \in Commands /\ y \in Seq(Ops) /\ Finish \in Seq(Ops)
      /\ Cat(y, Finish) = Resumed
  BY OpTypes, Single, FinishTop DEF Commands, Plain, Top, Resumed
<1>2. Cont \o Finish = Cat(Cat(Execute("t0"), y), Finish)
  BY Zenon DEF Cont, Cat
<1>. HIDE DEF y
<1>. QED BY <1>1, <1>2, ExecuteThen

LEMMA ScriptSetBp == SetBreakpoint \o Finish = BpAll
<1>. DEFINE a == Op("require", "symbols")
            b == Op("bpset", "")
            x == <<a>>
            y == <<b>>
<1>1. a \in Ops /\ b \in Ops /\ "b" \in Commands
  BY OpTypes DEF Commands, Plain
<1>2. SetBreakpoint \o Finish = Cat(Cat(Cat(x, Execute("b")), y), Finish)
  BY Zenon DEF SetBreakpoint, Cat
<1>3. BpKnown \in Seq(Ops) /\ Finish \in Seq(Ops) /\ Do("b", BpKnown) \in Seq(Ops)
  BY <1>1, FinishTop, TaskTops, ExecuteCat DEF Top
<1>4. /\ x \in Seq(Ops) /\ Cat(x, Do("b", BpKnown)) = BpAll
      /\ y \in Seq(Ops) /\ Cat(y, Finish) = BpKnown
  BY <1>1, <1>3, Single DEF BpAll, BpKnown
<1>. HIDE DEF a, b, x, y
<1>5. Execute("b") \in Seq(Ops) /\ Cat(Execute("b"), BpKnown) = Do("b", BpKnown)
  BY <1>1, <1>3, ExecuteCat
<1>6. Cat(x, Execute("b")) \in Seq(Ops)
  BY <1>4, <1>5, Cats
<1>7. Cat(Cat(Cat(x, Execute("b")), y), Finish) = Cat(Cat(x, Execute("b")), BpKnown)
  BY <1>3, <1>4, <1>6, Cats
<1>8. Cat(Cat(x, Execute("b")), BpKnown) = Cat(x, Do("b", BpKnown))
  BY <1>3, <1>4, <1>5, Cats
<1>. QED BY <1>2, <1>4, <1>7, <1>8

LEMMA StepRest ==
  /\ <<Op("regs", "retry"), Op("forget", ""), Op("notify", "step")>> \in Seq(Ops)
  /\ Cat(<<Op("regs", "retry"), Op("forget", ""), Op("notify", "step")>>, Finish) = StepAsked
<1>. DEFINE c == Op("regs", "retry")
            d == Op("forget", "")
            e == Op("notify", "step")
<1>1. c \in Ops /\ d \in Ops /\ e \in Ops /\ Finish \in Seq(Ops)
  BY OpTypes, FinishTop DEF Plain, Top
<1>2. StepAsked = First(c, First(d, First(e, Finish)))
  BY DEF StepAsked, StepKnown, Stepped
<1>. HIDE DEF c, d, e
<1>3. <<c, d, e>> \in Seq(Ops)
  BY <1>1
<1>4. Cat(<<c, d, e>>, Finish) = StepAsked
  BY <1>1, <1>2, TripleCat
<1>. QED BY <1>3, <1>4, Zenon DEF c, d, e

LEMMA ScriptNext == StepOver \o Finish = StepOverAll
<1>. DEFINE a == <<Op("require", "stopped")>>
            b == IF isXemu THEN <<Op("getlines", "")>> ELSE <<>>
            c == Op("regs", "retry")
            d == Op("forget", "")
            e == Op("notify", "step")
            y == <<c, d, e>>
            s == Execute("step")
<1>1. /\ "step" \in Commands /\ c \in Ops /\ d \in Ops /\ e \in Ops
      /\ Op("require", "stopped") \in Ops /\ Op("getlines", "") \in Ops
  BY OpTypes DEF Commands, Plain
<1>2. StepOver \o Finish = Cat(Cat(Cat(Cat(a, s), b), y), Finish)
  BY Zenon DEF StepOver, Cat
<1>3. StepAsked \in Seq(Ops) /\ StepEchoed \in Seq(Ops) /\ Finish \in Seq(Ops)
  BY StepTops, FinishTop DEF Top
<1>4. b \in Seq(Ops) /\ Cat(b, StepAsked) = StepEchoed
  <2>1. CASE isXemu
    BY <1>1, <1>3, <2>1, Single DEF StepEchoed
  <2>2. CASE ~isXemu
    <3>1. b = <<>> /\ StepEchoed = StepAsked
      BY <2>2 DEF StepEchoed
    <3>2. Cat(<<>>, StepAsked) = StepAsked
      BY <1>3, ConcatEmptySeq, Zenon DEF Cat
    <3>3. <<>> \in Seq(Ops)
      OBVIOUS
    <3>. HIDE DEF b
    <3>. QED BY <3>1, <3>2, <3>3
  <2>. QED BY <2>1, <2>2
<1>5. s \in Seq(Ops) /\ Cat(s, StepEchoed) = Do("step", StepEchoed)
      /\ Do("step", StepEchoed) \in Seq(Ops)
  BY <1>1, <1>3, ExecuteCat
<1>6. a \in Seq(Ops) /\ Cat(a, Do("step", StepEchoed)) = StepOverAll
  BY <1>1, <1>5, Single DEF StepOverAll
<1>7. y \in Seq(Ops) /\ Cat(y, Finish) = StepAsked
  BY StepRest, Zenon
<1>. HIDE DEF a, b, c, d, e, y, s
<1>8. Cat(a, s) \in Seq(Ops) /\ Cat(Cat(a, s), b) \in Seq(Ops)
  BY <1>4, <1>5, <1>6, Cats
<1>9. Cat(Cat(Cat(Cat(a, s), b), y), Finish) = Cat(Cat(Cat(a, s), b), StepAsked)
  BY <1>3, <1>7, <1>8, Cats
<1>10. Cat(Cat(Cat(a, s), b), StepAsked) = Cat(Cat(a, s), StepEchoed)
  BY <1>3, <1>4, <1>8, Cats
<1>11. Cat(Cat(a, s), StepEchoed) = Cat(a, Do("step", StepEchoed))
  BY <1>3, <1>5, <1>6, Cats
<1>. QED BY <1>2, <1>6, <1>9, <1>10, <1>11

LEMMA ScriptEvaluation ==
  ASSUME NEW p \in Pages
  PROVE  Evaluation(p) \o Finish = EvalAll(p)
<1>. DEFINE a == Op("require", "stopped")
            b == Op("evaluate", p)
<1>1. a \in Ops /\ b \in Ops /\ Finish \in Seq(Ops)
  BY OpTypes, FinishTop DEF Top
<1>2. Evaluation(p) \o Finish = Cat(<<a, b>>, Finish)
  BY Zenon DEF Evaluation, Cat
<1>3. EvalAll(p) = First(a, First(b, Finish))
  BY DEF EvalAll, Evaluated
<1>. HIDE DEF a, b
<1>. QED BY <1>1, <1>2, <1>3, PairCat

LEMMA Scripts ==
  /\ Script("launch") \o Finish = Load
  /\ Script("run") \o Finish = Run
  /\ Script("pause") \o Finish = Do("t1", PauseSet)
  /\ Script("cont") \o Finish = Do("t0", Resumed)
  /\ Script("next") \o Finish = StepOverAll
  /\ Script("setbp") \o Finish = BpAll
  /\ \A p \in Pages : Script(p) \o Finish = EvalAll(p)
<1>1. /\ Script("launch") = SetTarget /\ Script("run") = RunTarget /\ Script("pause") = Pause
      /\ Script("cont") = Cont /\ Script("next") = StepOver /\ Script("setbp") = SetBreakpoint
      /\ \A p \in Pages : Script(p) = Evaluation(p)
  BY DEF Script, Pages
<1>. QED BY <1>1, ScriptLaunch, ScriptRun, ScriptPause, ScriptCont, ScriptNext, ScriptSetBp,
            ScriptEvaluation, Zenon

LEMMA EventIsAll ==
  <<IF isXemu THEN Op("readevent", "") ELSE Op("getlines", ""), Op("event", ""),
    Op("eventdone", "")>> = EventAll
<1>. DEFINE a == IF isXemu THEN Op("readevent", "") ELSE Op("getlines", "")
            b == Op("event", "")
            c == Op("eventdone", "")
<1>1. a \in Ops /\ b \in Ops /\ c \in Ops
  BY OpTypes DEF Plain
<1>2. EventAll = First(a, First(b, <<c>>))
  BY DEF EventAll, EventHeard, EventOver
<1>. HIDE DEF a, b, c
<1>3. <<a, b, c>> = First(a, First(b, <<c>>))
  BY <1>1, Triple
<1>. QED BY <1>2, <1>3, Zenon DEF a, b, c

LEMMA PollIsAll ==
  ReadRegs \o <<Op("verdict", "poll"), Op("polldone", "")>> = Do("r", PollAsked)
<1>. DEFINE v == Op("verdict", "poll")
            d == Op("polldone", "")
<1>1. v \in Ops /\ d \in Ops
  BY OpTypes DEF Plain
<1>2. PollJudged = First(v, <<d>>)
  BY DEF PollJudged, PollOver
<1>3. ReadRegs \o <<v, d>> = Cat(ReadRegs, <<v, d>>)
  BY Zenon DEF Cat
<1>. HIDE DEF v, d
<1>4. <<v, d>> = PollJudged
  BY <1>1, <1>2, Pair
<1>5. Cat(ReadRegs, PollJudged) = Do("r", PollAsked)
  BY ReadRegsCat, PollTops DEF PollAsked, Top
<1>. QED BY <1>3, <1>4, <1>5 DEF v, d

-----------------------------------------------------------------------------
(***************************************************************************)
(* The lines.                                                              *)
(***************************************************************************)
LEMMA Kinds ==
  /\ Blank.kind = "blank" /\ Bang.kind = "bang" /\ Dot.kind = "dot" /\ Header.kind = "header"
  /\ Loc.kind = "loc"
  /\ \A pc : Regs(pc).kind = "regs" /\ Regs(pc).val = pc
  /\ \A a : Mem(a).kind = "mem"
  /\ \A c : Echo(c).kind \in {"blank", "echo"}
  /\ Echo("step") = Blank
BY DEF Line, Blank, Bang, Dot, Header, Loc, Regs, Mem, Echo

Lines == Seq(LinesOfTarget)
Dotless(y) == \A i \in 1 .. Len(y) : y[i] # Dot

LEMMA PromptEnds ==
  /\ Prompt \in Lines /\ Len(Prompt) \in Nat /\ Len(Prompt) >= 1
  /\ Prompt[Len(Prompt)] = Dot
  /\ \A i \in 1 .. Len(Prompt) - 1 : Prompt[i] = Blank
<1>1. Prompt \in Lines
  BY MessageTypes DEF Lines
<1>. QED BY <1>1 DEF Prompt

LEMMA RegisterLinesAre ==
  ASSUME NEW pc \in PCs
  PROVE  /\ RegisterLines(pc) \in Lines /\ Len(RegisterLines(pc)) = 3
         /\ RegisterLines(pc)[1] = Header /\ RegisterLines(pc)[2] = Regs(pc)
         /\ RegisterLines(pc)[3] = Loc
         /\ Dotless(RegisterLines(pc))
<1>1. RegisterLines(pc) \in Lines
  BY MessageTypes DEF Lines
<1>2. /\ Len(RegisterLines(pc)) = 3
      /\ RegisterLines(pc)[1] = Header /\ RegisterLines(pc)[2] = Regs(pc)
      /\ RegisterLines(pc)[3] = Loc
  BY DEF RegisterLines
<1>3. Dotless(RegisterLines(pc))
  <2>. HIDE DEF Lines
  <2>1. \A i \in 1 .. 3 : i = 1 \/ i = 2 \/ i = 3
    OBVIOUS
  <2>. QED BY <1>2, <2>1, Kinds DEF Dotless
<1>. QED BY <1>1, <1>2, <1>3

LEMMA Joined2 ==
  ASSUME NEW x \in Lines, NEW y \in Lines
  PROVE  /\ x \o y \in Lines /\ Len(x \o y) = Len(x) + Len(y)
         /\ Len(x) \in Nat /\ Len(y) \in Nat
         /\ \A i \in 1 .. Len(x) : (x \o y)[i] = x[i]
         /\ \A i \in 1 .. Len(y) : (x \o y)[Len(x) + i] = y[i]
<1>1. Len(x) \in Nat /\ Len(y) \in Nat
  BY DEF Lines
<1>. DEFINE z == x \o y
<1>2. /\ z \in Lines /\ Len(z) = Len(x) + Len(y)
      /\ \A i \in 1 .. Len(x) + Len(y) : z[i] = IF i <= Len(x) THEN x[i] ELSE y[i - Len(x)]
  BY ConcatProperties DEF Lines
<1>. HIDE DEF z
<1>3. \A i \in 1 .. Len(x) : z[i] = x[i]
  BY <1>1, <1>2
<1>4. ASSUME NEW i \in 1 .. Len(y) PROVE z[Len(x) + i] = y[i]
  <2>1. Len(x) + i \in 1 .. Len(x) + Len(y) /\ ~(Len(x) + i <= Len(x)) /\ (Len(x) + i) - Len(x) = i
    BY <1>1
  <2>. QED BY <1>2, <2>1
<1>. QED BY <1>1, <1>2, <1>3, <1>4 DEF z

LEMMA JoinedCat ==
  ASSUME NEW x \in Lines, NEW y \in Lines
  PROVE  /\ Cat(x, y) \in Lines /\ Len(Cat(x, y)) = Len(x) + Len(y)
         /\ \A i \in 1 .. Len(x) : Cat(x, y)[i] = x[i]
         /\ \A i \in 1 .. Len(y) : Cat(x, y)[Len(x) + i] = y[i]
BY Joined2, Zenon DEF Cat

(***************************************************************************)
(* Lines without a prompt, and the prompt: that is all there is.           *)
(***************************************************************************)
LEMMA LastPrompt ==
  ASSUME NEW y \in Lines, Dotless(y), NEW r, r = Cat(y, Prompt)
  PROVE  /\ r \in Lines /\ Len(r) >= Len(y) + 1 /\ Len(y) \in Nat /\ Len(r) \in Nat
         /\ r[Len(r)] = Dot /\ \A i \in 1 .. Len(r) - 1 : r[i] # Dot
         /\ \A i \in 1 .. Len(y) : r[i] = y[i]
<1>1. /\ r \in Lines /\ Len(r) = Len(y) + Len(Prompt) /\ Len(y) \in Nat
      /\ Len(Prompt) \in Nat /\ Len(Prompt) >= 1
      /\ \A i \in 1 .. Len(y) : r[i] = y[i]
      /\ \A i \in 1 .. Len(Prompt) : r[Len(y) + i] = Prompt[i]
  BY PromptEnds, Joined2 DEF Cat
<1>2. r[Len(r)] = Dot
  <2>. DEFINE n == Len(Prompt)
  <2>1. n \in Nat /\ n >= 1 /\ Prompt[n] = Dot /\ \A i \in 1 .. n : r[Len(y) + i] = Prompt[i]
    BY <1>1, PromptEnds
  <2>2. Len(r) = Len(y) + n
    BY <1>1
  <2>. HIDE DEF n
  <2>3. n \in 1 .. n
    BY <2>1
  <2>. QED BY <2>1, <2>2, <2>3
<1>4. Len(r) >= Len(y) + 1 /\ Len(r) \in Nat
  BY <1>1
<1>3. ASSUME NEW i \in 1 .. Len(r) - 1 PROVE r[i] # Dot
  <2>1. CASE i \in 1 .. Len(y)
    BY <1>1, <2>1 DEF Dotless
  <2>2. CASE i \notin 1 .. Len(y)
    <3>. DEFINE j == i - Len(y)
    <3>1. j \in 1 .. Len(Prompt) - 1 /\ j \in 1 .. Len(Prompt) /\ i = Len(y) + j
      BY <1>1, <2>2
    <3>. HIDE DEF j
    <3>2. r[i] = Blank
      BY <1>1, <3>1, PromptEnds
    <3>. QED BY <3>2, Kinds
  <2>. QED BY <2>1, <2>2
<1>. QED BY <1>1, <1>2, <1>3, <1>4, Zenon

LEMMA FromEnd ==
  ASSUME NEW r \in Lines
  PROVE  From(r, Len(r) + 1) = <<>>
BY DEF From, Lines

LEMMA NothingAfter ==
  ASSUME ~SplitPrompts, NEW s \in AfterPrompt(<<>>)
  PROVE  s = <<>>
<1>1. CASE isXemu
  BY <1>1 DEF AfterPrompt
<1>2. CASE ~isXemu
  <2>1. \/ \E j \in 1 .. Len(<<>>) + 1 : s = From(<<>>, j)
        \/ \E j \in 1 .. Len(<<>>) : TRUE
    BY <1>2, Zenon DEF AfterPrompt
  <2>2. \E j \in 1 .. 1 : s = From(<<>>, j)
    BY <2>1
  <2>3. s = From(<<>>, 1)
    BY <2>2
  <2>. QED BY <2>3 DEF From
<1>. QED BY <1>1, <1>2

LEMMA OnlyPrompt ==
  ASSUME rx \in Lines, NEW k \in DOMAIN rx, FirstPrompt(k),
         NEW n \in DOMAIN rx, rx[n] = Dot, \A i \in 1 .. n - 1 : rx[i] # Dot
  PROVE  k = n
<1>1. k \in 1 .. Len(rx) /\ n \in 1 .. Len(rx) /\ Len(rx) \in Nat
  BY DEF Lines
<1>2. ~(k < n)
  BY <1>1 DEF FirstPrompt
<1>3. ~(n < k)
  BY <1>1 DEF FirstPrompt
<1>. QED BY <1>1, <1>2, <1>3

LEMMA Reads ==
  ASSUME NEW y \in Lines, Dotless(y), rx = Cat(y, Prompt), GetLines, ~SplitPrompts
  PROVE  /\ rx' = <<>>
         /\ \E got \in Lines :
              /\ Len(got) >= Len(y) /\ \A i \in 1 .. Len(y) : got[i] = y[i]
              /\ \/ At("getlines") /\ lines' = got /\ Continue(Rest)
                 \/ At("await") /\ got = <<>>
                 \/ At("await") /\ got # <<>> /\ Head(got) = Echo(Arg) /\ lines' = Tail(got)
                      /\ Continue(Rest)
                 \/ At("await") /\ got # <<>> /\ Head(got) # Echo(Arg)
<1>1. /\ rx \in Lines /\ Len(rx) >= Len(y) + 1 /\ Len(y) \in Nat /\ Len(rx) \in Nat
      /\ rx[Len(rx)] = Dot /\ \A i \in 1 .. Len(rx) - 1 : rx[i] # Dot
      /\ \A i \in 1 .. Len(y) : rx[i] = y[i]
  BY LastPrompt
<1>2. PICK k \in DOMAIN rx :
        /\ FirstPrompt(k)
        /\ rx' \in AfterPrompt(From(rx, k + 1))
        /\ \/ At("getlines") /\ lines' = SubSeq(rx, 1, k - 1) /\ Continue(Rest)
           \/ At("await") /\ SubSeq(rx, 1, k - 1) = <<>>
           \/ At("await") /\ SubSeq(rx, 1, k - 1) # <<>> /\ Head(SubSeq(rx, 1, k - 1)) = Echo(Arg)
                /\ lines' = Tail(SubSeq(rx, 1, k - 1)) /\ Continue(Rest)
           \/ At("await") /\ SubSeq(rx, 1, k - 1) # <<>> /\ Head(SubSeq(rx, 1, k - 1)) # Echo(Arg)
  BY Zenon DEF GetLines
<1>3. k = Len(rx)
  <2>1. Len(rx) \in DOMAIN rx
    BY <1>1 DEF Lines
  <2>. QED BY <1>1, <1>2, <2>1, OnlyPrompt
<1>4. rx' = <<>>
  <2>1. From(rx, k + 1) = <<>>
    BY <1>1, <1>3, FromEnd
  <2>. QED BY <1>2, <2>1, NothingAfter
<1>. DEFINE got == SubSeq(rx, 1, k - 1)
<1>5. got \in Lines /\ Len(got) >= Len(y) /\ \A i \in 1 .. Len(y) : got[i] = y[i]
  <2>1. k - 1 \in 0 .. Len(rx) /\ k - 1 >= Len(y) /\ k - 1 \in Nat
    BY <1>1, <1>3
  <2>2. got \in Lines /\ Len(got) = k - 1 /\ \A i \in 1 .. k - 1 : got[i] = rx[i]
    BY <1>1, <1>3, <2>1 DEF Lines
  <2>. QED BY <1>1, <2>1, <2>2
<1>. QED BY <1>2, <1>4, <1>5, Zenon

LEMMA Listens ==
  ASSUME NEW y \in Lines, Dotless(y), rx = Cat(y, Prompt), GetLines, ~SplitPrompts, At("getlines")
  PROVE  /\ rx' = <<>> /\ Continue(Rest)
         /\ Len(lines') >= Len(y) /\ \A i \in 1 .. Len(y) : lines'[i] = y[i]
<1>1. ~At("await")
  BY DEF At
<1>. QED BY <1>1, Reads

LEMMA Hears ==
  ASSUME NEW y \in Lines, Dotless(y), y # <<>>, rx = Cat(y, Prompt), GetLines, ~SplitPrompts,
         At("await"), y[1] = Echo(Arg)
  PROVE  /\ rx' = <<>> /\ Continue(Rest)
         /\ Len(lines') >= Len(y) - 1 /\ \A i \in 1 .. Len(y) - 1 : lines'[i] = y[i + 1]
<1>1. ~At("getlines")
  BY DEF At
<1>2. Len(y) \in Nat /\ Len(y) >= 1
  BY DEF Lines
<1>3. PICK got \in Lines :
         /\ Len(got) >= Len(y) /\ \A i \in 1 .. Len(y) : got[i] = y[i]
         /\ \/ got = <<>>
            \/ got # <<>> /\ Head(got) = Echo(Arg) /\ lines' = Tail(got) /\ Continue(Rest)
            \/ got # <<>> /\ Head(got) # Echo(Arg)
  BY <1>1, Reads, Zenon
<1>4. got # <<>> /\ Head(got) = y[1] /\ Len(got) \in Nat
  <2>1. Len(got) \in Nat /\ got # <<>>
    BY <1>2, <1>3 DEF Lines
  <2>2. Head(got) = got[1]
    BY <2>1 DEF Lines
  <2>. QED BY <1>2, <1>3, <2>1, <2>2
<1>5. lines' = Tail(got) /\ Continue(Rest)
  BY <1>3, <1>4, Zenon
<1>6. Len(Tail(got)) = Len(got) - 1 /\ \A i \in 1 .. Len(Tail(got)) : Tail(got)[i] = got[i + 1]
  BY <1>4, HeadTailProperties DEF Lines
<1>7. ASSUME NEW i \in 1 .. Len(y) - 1 PROVE lines'[i] = y[i + 1]
  <2>1. i \in 1 .. Len(Tail(got)) /\ i + 1 \in 1 .. Len(y)
    BY <1>2, <1>3, <1>4, <1>6
  <2>. QED BY <1>3, <1>5, <1>6, <2>1
<1>8. Len(lines') >= Len(y) - 1
  BY <1>2, <1>3, <1>4, <1>5, <1>6
<1>9. rx' = <<>>
  BY Reads
<1>. QED BY <1>5, <1>7, <1>8, <1>9

(***************************************************************************)
(* The registers and the memory in what was read.                          *)
(***************************************************************************)
LEMMA RegsBehind ==
  ASSUME NEW ls \in Lines, NEW pc, NEW k \in Nat, \A i \in 1 .. k : ls[i] = Blank,
         ls[k + 1] = Header, ls[k + 2] = Regs(pc), Len(ls) >= k + 2
  PROVE  RegsIn(ls, pc)
<1>1. Len(ls) \in Nat /\ DOMAIN ls = 1 .. Len(ls)
  BY DEF Lines
<1>. DEFINE i == k + 1
<1>2. i \in DOMAIN ls /\ i < Len(ls) /\ i + 1 = k + 2 /\ i - 1 = k
  BY <1>1
<1>3. FirstLine(i, ls)
  <2>1. \A j \in 1 .. i - 1 : ls[j] = Blank
    BY <1>2
  <2>. QED BY <2>1, Kinds DEF FirstLine
<1>. HIDE DEF i
<1>4. ls[i] = Header /\ ls[i + 1] = Regs(pc)
  BY <1>2 DEF i
<1>. QED BY <1>2, <1>3, <1>4 DEF RegsIn

LEMMA MemFirst ==
  ASSUME NEW ls \in Lines, Len(ls) >= 1, NEW a, ls[1] = Mem(a)
  PROVE  MemIn(ls)
<1>1. 1 \in DOMAIN ls
  BY DEF Lines
<1>2. FirstLine(1, ls)
  BY Kinds DEF FirstLine
<1>. QED BY <1>1, <1>2, Kinds DEF MemIn

LEMMA ThenRegisters ==
  ASSUME NEW x \in Lines, NEW pc \in PCs, Dotless(x)
  PROVE  /\ Cat(x, RegisterLines(pc)) \in Lines /\ Dotless(Cat(x, RegisterLines(pc)))
         /\ Len(Cat(x, RegisterLines(pc))) = Len(x) + 3 /\ Len(x) \in Nat
         /\ \A i \in 1 .. Len(x) : Cat(x, RegisterLines(pc))[i] = x[i]
         /\ Cat(x, RegisterLines(pc))[Len(x) + 1] = Header
         /\ Cat(x, RegisterLines(pc))[Len(x) + 2] = Regs(pc)
         /\ Cat(x, RegisterLines(pc))[Len(x) + 3] = Loc
<1>. DEFINE y == Cat(x, RegisterLines(pc))
            R == RegisterLines(pc)
            n == Len(x)
<1>1. R \in Lines /\ Len(R) = 3 /\ R[1] = Header /\ R[2] = Regs(pc) /\ R[3] = Loc
  BY RegisterLinesAre
<1>2. /\ y \in Lines /\ Len(y) = n + Len(R) /\ n \in Nat
      /\ \A i \in 1 .. n : y[i] = x[i]
      /\ \A i \in 1 .. Len(R) : y[n + i] = R[i]
  BY <1>1, Joined2 DEF Cat
<1>. HIDE DEF y, R, n
<1>3. Len(y) = n + 3 /\ y[n + 1] = Header /\ y[n + 2] = Regs(pc) /\ y[n + 3] = Loc
  BY <1>1, <1>2
<1>4. Dotless(y)
  <2>. SUFFICES ASSUME NEW i \in 1 .. Len(y) PROVE y[i] # Dot
    BY DEF Dotless
  <2>1. CASE i \in 1 .. n
    BY <1>2, <2>1 DEF Dotless, n
  <2>2. CASE i \notin 1 .. n
    <3>1. i = n + 1 \/ i = n + 2 \/ i = n + 3
      BY <1>2, <1>3, <2>2
    <3>. QED BY <1>3, <3>1, Kinds
  <2>. QED BY <2>1, <2>2
<1>. QED BY <1>2, <1>3, <1>4 DEF y, n, R

LEMMA LineTuples ==
  /\ \A a \in LinesOfTarget : /\ <<a>> \in Lines /\ Len(<<a>>) = 1 /\ <<a>>[1] = a
                              /\ a # Dot => Dotless(<<a>>)
  /\ \A a, b \in LinesOfTarget :
       /\ <<a, b>> \in Lines /\ Len(<<a, b>>) = 2 /\ <<a, b>>[1] = a /\ <<a, b>>[2] = b
       /\ a # Dot /\ b # Dot => Dotless(<<a, b>>)
BY DEF Lines, Dotless

LEMMA EchoLines ==
  ASSUME NEW c \in Commands
  PROVE  /\ Echo(c) \in LinesOfTarget /\ Echo(c) # Dot
         /\ Blank \in LinesOfTarget /\ Blank # Dot
         /\ \A a \in {"fresh", "stale"} : Mem(a) \in LinesOfTarget /\ Mem(a) # Dot
BY LineTypes, Kinds

(***************************************************************************)
(* The replies.                                                            *)
(***************************************************************************)
LEMMA ReplyIs ==
  ASSUME NEW c \in Commands, NEW pc \in PCs
  PROVE  /\ c = "r" => Reply(c, pc) = Cat(Cat(<<Echo(c), Blank>>, RegisterLines(pc)), Prompt)
         /\ c = "step" =>
              Reply(c, pc) = Cat(Cat(Cat(Cat(<<Blank>>, IF isXemu THEN Prompt ELSE <<>>), <<Blank>>),
                                     RegisterLines(pc)), Prompt)
         /\ c \in Pages =>
              \E a \in {"fresh", "stale"} : Reply(c, pc) = Cat(<<Echo(c), Mem(a)>>, Prompt)
         /\ c \notin {"r", "step"} \cup Pages => Reply(c, pc) = Cat(<<Echo(c)>>, Prompt)
<1>1. ASSUME c = "r"
      PROVE  Reply(c, pc) = Cat(Cat(<<Echo(c), Blank>>, RegisterLines(pc)), Prompt)
  <2>1. Reply(c, pc) = (<<Echo(c), Blank>> \o RegisterLines(pc)) \o Prompt
    BY <1>1 DEF Reply, Pages
  <2>. QED BY <2>1, Zenon DEF Cat
<1>2. ASSUME c = "step"
      PROVE  Reply(c, pc) = Cat(Cat(Cat(Cat(<<Blank>>, IF isXemu THEN Prompt ELSE <<>>), <<Blank>>),
                                    RegisterLines(pc)), Prompt)
  <2>1. Reply(c, pc) = (((<<Blank>> \o (IF isXemu THEN Prompt ELSE <<>>)) \o <<Blank>>)
                          \o RegisterLines(pc)) \o Prompt
    BY <1>2 DEF Reply, Pages
  <2>. QED BY <2>1, Zenon DEF Cat
<1>3. ASSUME c \in Pages
      PROVE  \E a \in {"fresh", "stale"} : Reply(c, pc) = Cat(<<Echo(c), Mem(a)>>, Prompt)
  <2>. DEFINE a == IF tgt.running THEN "stale" ELSE "fresh"
  <2>1. Reply(c, pc) = <<Echo(c), Mem(a)>> \o Prompt
    BY <1>3 DEF Reply, Pages
  <2>2. Reply(c, pc) = Cat(<<Echo(c), Mem(a)>>, Prompt)
    BY <2>1, Zenon DEF Cat
  <2>3. a \in {"fresh", "stale"}
    OBVIOUS
  <2>. QED BY <2>2, <2>3, Zenon
<1>4. ASSUME c \notin {"r", "step"} \cup Pages
      PROVE  Reply(c, pc) = Cat(<<Echo(c)>>, Prompt)
  <2>1. Reply(c, pc) = <<Echo(c)>> \o Prompt
    BY <1>4 DEF Reply
  <2>. QED BY <2>1, Zenon DEF Cat
<1>. QED BY <1>1, <1>2, <1>3, <1>4, Zenon

(***************************************************************************)
(* A reply up to its prompt begins with the echo, and the registers or the *)
(* memory are on the lines behind it.                                      *)
(***************************************************************************)
LEMMA ReplyBegins ==
  ASSUME NEW c \in Commands, NEW pc \in PCs, ~(isXemu /\ c = "step")
  PROVE  \E y \in Lines :
           /\ Reply(c, pc) = Cat(y, Prompt) /\ Dotless(y) /\ Len(y) \in Nat /\ Len(y) >= 1
           /\ y # <<>> /\ y[1] = Echo(c)
           /\ c \in {"r", "step"} =>
                Len(y) = 5 /\ y[2] = Blank /\ y[3] = Header /\ y[4] = Regs(pc)
           /\ c \in Pages => Len(y) = 2 /\ \E a : y[2] = Mem(a)
<1>1. ASSUME NEW x \in Lines, Len(x) = 2, x[1] = Echo(c), x[2] = Blank, Dotless(x),
             Reply(c, pc) = Cat(Cat(x, RegisterLines(pc)), Prompt), c \in {"r", "step"}
      PROVE  \E y \in Lines :
               /\ Reply(c, pc) = Cat(y, Prompt) /\ Dotless(y) /\ Len(y) \in Nat /\ Len(y) >= 1
               /\ y # <<>> /\ y[1] = Echo(c)
               /\ Len(y) = 5 /\ y[2] = Blank /\ y[3] = Header /\ y[4] = Regs(pc)
               /\ c \notin Pages
  <2>. DEFINE y == Cat(x, RegisterLines(pc))
              n == Len(x)
  <2>6. /\ y \in Lines /\ Dotless(y) /\ Len(y) = n + 3 /\ n \in Nat
        /\ \A i \in 1 .. n : y[i] = x[i]
        /\ y[n + 1] = Header /\ y[n + 2] = Regs(pc)
    BY <1>1, ThenRegisters, Zenon
  <2>2. c \notin Pages
    BY <1>1 DEF Pages
  <2>3. Reply(c, pc) = Cat(y, Prompt)
    BY <1>1
  <2>7. n = 2 /\ x[1] = Echo(c) /\ x[2] = Blank
    BY <1>1
  <2>. HIDE DEF y, n
  <2>1. y \in Lines /\ Dotless(y) /\ Len(y) = 5
    BY <2>6, <2>7
  <2>8. y[1] = Echo(c) /\ y[2] = Blank /\ y[3] = Header /\ y[4] = Regs(pc)
    BY <2>6, <2>7
  <2>4. y # <<>> /\ y[1] = Echo(c) /\ y[2] = Blank /\ y[3] = Header /\ y[4] = Regs(pc)
    <3>2. Len(<<>>) = 0 /\ 5 # 0
      BY EmptySeq
    <3>1. y # <<>>
      BY <2>1, <3>2, Zenon
    <3>. QED BY <2>8, <3>1, Zenon
  <2>5. Len(y) \in Nat /\ Len(y) >= 1
    BY <2>1
  <2>. QED BY <2>1, <2>2, <2>3, <2>4, <2>5, Zenon
<1>2. CASE c = "r"
  <2>. DEFINE x == <<Echo(c), Blank>>
  <2>1. x \in Lines /\ Len(x) = 2 /\ x[1] = Echo(c) /\ x[2] = Blank /\ Dotless(x)
    BY EchoLines, LineTuples
  <2>2. Reply(c, pc) = Cat(Cat(x, RegisterLines(pc)), Prompt)
    BY <1>2, ReplyIs, Zenon
  <2>. HIDE DEF x
  <2>. QED BY <1>1, <1>2, <2>1, <2>2, Zenon
<1>3. CASE c = "step"
  <2>. DEFINE e == <<>>
              b == <<Blank>>
              x == Cat(Cat(b, e), b)
  <2>1. Reply(c, pc) = Cat(Cat(x, RegisterLines(pc)), Prompt)
    <3>1. (IF isXemu THEN Prompt ELSE <<>>) = <<>>
      BY <1>3
    <3>. QED BY <1>3, <3>1, ReplyIs, Zenon
  <2>2. b \in Lines /\ Len(b) = 1 /\ b[1] = Blank /\ e \in Lines /\ Len(e) = 0
    BY EchoLines, LineTuples DEF Lines
  <2>3. Echo(c) = Blank
    BY <1>3, Kinds
  <2>. HIDE DEF b, e
  <2>4. Cat(b, e) \in Lines /\ Len(Cat(b, e)) = 1 /\ Cat(b, e)[1] = Blank
    <3>1. b \o e \in Lines /\ Len(b \o e) = Len(b) + Len(e) /\ \A i \in 1 .. Len(b) : (b \o e)[i] = b[i]
      BY <2>2, Joined2
    <3>. QED BY <2>2, <3>1 DEF Cat
  <2>5. x \in Lines /\ Len(x) = 2 /\ x[1] = Blank /\ x[2] = Blank
    <3>. DEFINE g == Cat(b, e)
    <3>. HIDE DEF g
    <3>1. /\ g \o b \in Lines /\ Len(g \o b) = Len(g) + Len(b)
          /\ \A i \in 1 .. Len(g) : (g \o b)[i] = g[i]
          /\ \A i \in 1 .. Len(b) : (g \o b)[Len(g) + i] = b[i]
      BY <2>2, <2>4, Joined2 DEF g
    <3>2. Len(g) = 1 /\ g[1] = Blank
      BY <2>4 DEF g
    <3>3. g \o b \in Lines /\ Len(g \o b) = 2 /\ (g \o b)[1] = Blank /\ (g \o b)[1 + 1] = Blank
      BY <2>2, <3>1, <3>2
    <3>. QED BY <3>3 DEF Cat, g
  <2>. HIDE DEF x
  <2>6. Dotless(x)
    BY <2>5, Kinds DEF Dotless
  <2>. QED BY <1>1, <1>3, <2>1, <2>3, <2>5, <2>6, Zenon
<1>4. CASE c \in Pages
  <2>1. PICK a \in {"fresh", "stale"} : Reply(c, pc) = Cat(<<Echo(c), Mem(a)>>, Prompt)
    BY <1>4, ReplyIs, Zenon
  <2>. DEFINE y == <<Echo(c), Mem(a)>>
  <2>2. /\ y \in Lines /\ Len(y) = 2 /\ y[1] = Echo(c) /\ y[2] = Mem(a) /\ Dotless(y)
        /\ y # <<>> /\ Len(y) \in Nat /\ Len(y) >= 1
    BY EchoLines, LineTuples
  <2>3. c \notin {"r", "step"}
    BY <1>4 DEF Pages
  <2>. HIDE DEF y
  <2>4. Reply(c, pc) = Cat(y, Prompt)
    BY <2>1 DEF y
  <2>. QED BY <2>2, <2>3, <2>4, Zenon
<1>5. CASE c \notin {"r", "step"} \cup Pages
  <2>. DEFINE y == <<Echo(c)>>
  <2>1. /\ y \in Lines /\ Len(y) = 1 /\ y[1] = Echo(c) /\ Dotless(y)
        /\ y # <<>> /\ Len(y) \in Nat /\ Len(y) >= 1
    BY EchoLines, LineTuples
  <2>2. Reply(c, pc) = Cat(y, Prompt)
    BY <1>5, ReplyIs, Zenon
  <2>. HIDE DEF y
  <2>. QED BY <1>5, <2>1, <2>2, Zenon
<1>. QED BY <1>2, <1>3, <1>4, <1>5

(***************************************************************************)
(* On Xemu the first prompt in the reply to a step is the second line, and *)
(* the registers are behind it.                                            *)
(***************************************************************************)
LEMMA BlankLine == Blank \in LinesOfTarget /\ Blank # Dot
BY LineTypes, Kinds

Behind(pc) == Cat(Cat(<<Blank>>, RegisterLines(pc)), Prompt)

LEMMA BehindIs ==
  ASSUME isXemu, NEW pc \in PCs
  PROVE  /\ Behind(pc) \in Lines /\ Len(Behind(pc)) = 5
         /\ Behind(pc)[1] = Blank /\ Behind(pc)[2] = Header /\ Behind(pc)[3] = Regs(pc)
         /\ Behind(pc)[4] = Loc /\ Behind(pc)[5] = Dot
<1>. DEFINE b == <<Blank>>
            y == Cat(b, RegisterLines(pc))
            p == Prompt
            z == Cat(y, p)
<1>1. b \in Lines /\ Len(b) = 1 /\ b[1] = Blank /\ Dotless(b)
  BY BlankLine, LineTuples
<1>. HIDE DEF b
<1>2. /\ y \in Lines /\ Len(y) = 4
      /\ y[1] = Blank /\ y[2] = Header /\ y[3] = Regs(pc) /\ y[4] = Loc
  <2>. DEFINE n == Len(b)
  <2>1. /\ y \in Lines /\ Len(y) = n + 3
        /\ \A i \in 1 .. n : y[i] = b[i]
        /\ y[n + 1] = Header /\ y[n + 2] = Regs(pc) /\ y[n + 3] = Loc
    BY <1>1, ThenRegisters, Zenon
  <2>2. n = 1
    BY <1>1
  <2>. HIDE DEF y, n
  <2>. QED BY <1>1, <2>1, <2>2
<1>3. p \in Lines /\ Len(p) = 1 /\ p[1] = Dot
  <2>1. p \in Lines
    BY PromptEnds
  <2>. QED BY <2>1 DEF Prompt
<1>. HIDE DEF y, p
<1>4. /\ z \in Lines /\ Len(z) = Len(y) + Len(p)
      /\ \A i \in 1 .. Len(y) : z[i] = y[i]
      /\ \A i \in 1 .. Len(p) : z[Len(y) + i] = p[i]
  BY <1>2, <1>3, Joined2 DEF Cat
<1>. HIDE DEF z
<1>5. z[4 + 1] = Dot
  BY <1>2, <1>3, <1>4
<1>6. Len(z) = 5 /\ z[1] = Blank /\ z[2] = Header /\ z[3] = Regs(pc) /\ z[4] = Loc /\ z[5] = Dot
  BY <1>2, <1>3, <1>4, <1>5
<1>. QED BY <1>4, <1>6 DEF z, y, b, p, Behind

LEMMA XemuReply ==
  ASSUME isXemu, NEW pc \in PCs, NEW r, r = Reply("step", pc)
  PROVE  /\ r \in Lines /\ Len(r) = 7
         /\ r[1] = Blank /\ r[2] = Dot /\ From(r, 3) = Behind(pc)
<1>. DEFINE b == <<Blank>>
            p == Prompt
            w == Cat(b, p)
            z == Behind(pc)
            R == RegisterLines(pc)
<1>1. b \in Lines /\ Len(b) = 1 /\ b[1] = Blank
  BY BlankLine, LineTuples
<1>2. p \in Lines /\ Len(p) = 1 /\ p[1] = Dot /\ R \in Lines
  <2>1. p \in Lines /\ R \in Lines
    BY PromptEnds, RegisterLinesAre
  <2>. QED BY <2>1 DEF Prompt
<1>3. r = Cat(Cat(Cat(w, b), R), p) /\ z = Cat(Cat(b, R), p)
  <2>1. (IF isXemu THEN Prompt ELSE <<>>) = Prompt
    OBVIOUS
  <2>2. "step" \in Commands
    BY DEF Commands
  <2>. QED BY <2>1, <2>2, ReplyIs, Zenon DEF Behind
<1>4. z \in Lines /\ Len(z) = 5
  BY BehindIs
<1>. HIDE DEF b, p, z, R
<1>5. /\ w \in Lines /\ Len(w) = Len(b) + Len(p)
      /\ \A i \in 1 .. Len(b) : w[i] = b[i]
      /\ \A i \in 1 .. Len(p) : w[Len(b) + i] = p[i]
  BY <1>1, <1>2, Joined2 DEF Cat
<1>. HIDE DEF w
<1>6. w[1 + 1] = Dot /\ w[1] = Blank /\ Len(w) = 2
  BY <1>1, <1>2, <1>5
<1>7. r = Cat(w, z)
  <2>1. Cat(w, b) \in Lines /\ Cat(b, R) \in Lines
    BY <1>1, <1>2, <1>5, Cats DEF Lines
  <2>2. Cat(Cat(w, b), R) = Cat(w, Cat(b, R))
    BY <1>1, <1>2, <1>5, Cats DEF Lines
  <2>3. Cat(Cat(w, Cat(b, R)), p) = Cat(w, Cat(Cat(b, R), p))
    BY <1>2, <1>5, <2>1, Cats DEF Lines
  <2>. QED BY <1>3, <2>2, <2>3
<1>8. /\ r \in Lines /\ Len(r) = Len(w) + Len(z)
      /\ \A i \in 1 .. Len(w) : r[i] = w[i]
      /\ \A i \in 1 .. Len(z) : r[Len(w) + i] = z[i]
  <2>1. z \in Lines /\ w \in Lines
    BY <1>4, <1>5
  <2>2. /\ Cat(w, z) \in Lines /\ Len(Cat(w, z)) = Len(w) + Len(z)
        /\ \A i \in 1 .. Len(w) : Cat(w, z)[i] = w[i]
        /\ \A i \in 1 .. Len(z) : Cat(w, z)[Len(w) + i] = z[i]
    BY <2>1, JoinedCat
  <2>. QED BY <1>7, <2>2, Zenon
<1>9. Len(r) = 7 /\ r[1] = Blank /\ r[2] = Dot /\ \A i \in 1 .. 5 : r[2 + i] = z[i]
  BY <1>4, <1>6, <1>8
<1>10. From(r, 3) = z
  <2>. DEFINE f == SubSeq(r, 3, 7)
  <2>1. f \in Lines /\ Len(f) = 5 /\ \A i \in 1 .. 5 : f[i] = r[i + 2]
    <3>1. f \in Lines
      BY <1>8, <1>9 DEF Lines
    <3>2. Len(f) = 5
      BY <1>8, <1>9 DEF Lines
    <3>3. \A i \in 1 .. 5 : f[i] = r[i + 2]
      BY <1>8, <1>9 DEF Lines
    <3>. QED BY <3>1, <3>2, <3>3
  <2>2. From(r, 3) = f
    BY <1>9 DEF From
  <2>. HIDE DEF f
  <2>3. \A i \in 1 .. 5 : f[i] = z[i]
    BY <1>9, <2>1
  <2>4. f = z
    BY <1>4, <2>1, <2>3, SeqEqual DEF Lines
  <2>. QED BY <2>2, <2>4
<1>. QED BY <1>8, <1>9, <1>10 DEF z

LEMMA XemuStepEcho ==
  ASSUME isXemu, ~SplitPrompts, NEW pc \in PCs, rx = Reply("step", pc), GetLines, At("await"),
         Arg = "step"
  PROVE  rx' = Behind(pc) /\ Continue(Rest)
<1>1. /\ rx \in Lines /\ Len(rx) = 7 /\ rx[1] = Blank /\ rx[2] = Dot
      /\ From(rx, 3) = Behind(pc)
  BY XemuReply
<1>2. ~At("getlines")
  BY DEF At
<1>3. PICK k \in DOMAIN rx :
        /\ FirstPrompt(k)
        /\ rx' \in AfterPrompt(From(rx, k + 1))
        /\ \/ SubSeq(rx, 1, k - 1) = <<>>
           \/ Continue(Rest)
           \/ SubSeq(rx, 1, k - 1) # <<>> /\ Head(SubSeq(rx, 1, k - 1)) # Echo(Arg)
  BY <1>2, Zenon DEF GetLines
<1>4. k = 2
  <2>1. \A i \in 1 .. 2 - 1 : rx[i] # Dot
    BY <1>1, Kinds
  <2>2. 2 \in DOMAIN rx
    BY <1>1 DEF Lines
  <2>. QED BY <1>1, <1>3, <2>1, <2>2, OnlyPrompt
<1>5. rx' = Behind(pc)
  <2>1. rx' \in AfterPrompt(Behind(pc))
    BY <1>1, <1>3, <1>4
  <2>2. AfterPrompt(Behind(pc)) = {Behind(pc)}
    BY DEF AfterPrompt
  <2>. QED BY <2>1, <2>2
<1>6. SubSeq(rx, 1, k - 1) # <<>> /\ Head(SubSeq(rx, 1, k - 1)) = Blank
  <2>1. SubSeq(rx, 1, 1) # <<>> /\ Head(SubSeq(rx, 1, 1)) = Blank
    BY <1>1 DEF Lines
  <2>2. k - 1 = 1
    BY <1>4
  <2>. QED BY <2>1, <2>2
<1>7. Echo(Arg) = Blank
  BY Kinds
<1>. QED BY <1>3, <1>5, <1>6, <1>7, Zenon

(***************************************************************************)
(* execute_command() takes the reply as a whole.                           *)
(***************************************************************************)
Same == UNCHANGED <<isXemu, tgt, phase, task, dead, stopped, breakpoint, polled, regs, cache>>

Heard(c) ==
  IF isXemu /\ c = "step"
  THEN \E pc \in PCs : rx' = Behind(pc) /\ (~tgt.running => pc = tgt.pc)
  ELSE /\ rx' = <<>>
       /\ c \in {"r", "step"} =>
            \E pc \in PCs : RegsIn(lines', pc) /\ (~tgt.running => pc = tgt.pc)
       /\ c \in Pages => MemIn(lines')

LEMMA AwaitStep ==
  ASSUME Alive, ~SplitPrompts, lines' \in Lines, NEW c \in Commands, NEW s \in Seq(Ops),
         Top(todo, Op("await", c), s), Answered(c), GetLines
  PROVE  todo' = s /\ cmds' = <<>> /\ Same /\ Heard(c)
<1>1. PICK pc \in PCs : rx = Reply(c, pc) /\ (~tgt.running => pc = tgt.pc)
  BY DEF Answered
<1>2. At("await") /\ Arg = c /\ Rest = s
  BY OpFields DEF At, Top, Arg, Rest
<1>3. UNCHANGED <<isXemu, tgt, stopped, breakpoint, polled, regs, cache, cmds>>
  BY DEF GetLines, client
<1>4. ASSUME Continue(Rest) PROVE todo' = s /\ cmds' = <<>> /\ Same
  BY <1>2, <1>3, <1>4 DEF Continue, Same, Answered
<1>5. CASE isXemu /\ c = "step"
  <2>1. rx' = Behind(pc) /\ Continue(Rest)
    BY <1>1, <1>2, <1>5, XemuStepEcho
  <2>2. Heard(c)
    BY <1>1, <1>5, <2>1, Zenon DEF Heard
  <2>. QED BY <1>4, <2>1, <2>2
<1>6. CASE ~(isXemu /\ c = "step")
  <2>1. PICK y \in Lines :
           /\ Reply(c, pc) = Cat(y, Prompt) /\ Dotless(y) /\ Len(y) \in Nat /\ Len(y) >= 1
           /\ y # <<>> /\ y[1] = Echo(c)
           /\ c \in {"r", "step"} =>
                Len(y) = 5 /\ y[2] = Blank /\ y[3] = Header /\ y[4] = Regs(pc)
           /\ c \in Pages => Len(y) = 2 /\ \E a : y[2] = Mem(a)
    BY <1>6, ReplyBegins
  <2>2. /\ rx' = <<>> /\ Continue(Rest)
        /\ Len(lines') >= Len(y) - 1 /\ \A i \in 1 .. Len(y) - 1 : lines'[i] = y[i + 1]
    BY <1>1, <1>2, <2>1, Hears
  <2>3. ASSUME c \in {"r", "step"} PROVE RegsIn(lines', pc)
    <3>1. Len(y) = 5 /\ y[2] = Blank /\ y[3] = Header /\ y[4] = Regs(pc)
      BY <2>1, <2>3
    <3>2. \A i \in 1 .. 4 : lines'[i] = y[i + 1]
      BY <2>2, <3>1
    <3>3. lines'[1] = Blank /\ lines'[2] = Header /\ lines'[3] = Regs(pc) /\ Len(lines') >= 4
      BY <2>2, <3>1, <3>2
    <3>4. \A i \in 1 .. 1 : lines'[i] = Blank
      BY <3>3
    <3>5. lines'[1 + 1] = Header /\ lines'[1 + 2] = Regs(pc) /\ Len(lines') >= 1 + 2
      BY <3>3 DEF Lines
    <3>. QED BY <3>4, <3>5, RegsBehind
  <2>4. ASSUME c \in Pages PROVE MemIn(lines')
    <3>1. PICK a : y[2] = Mem(a)
      BY <2>1, <2>4
    <3>2. Len(y) = 2
      BY <2>1, <2>4
    <3>3. lines'[1] = Mem(a) /\ Len(lines') >= 1
      BY <2>2, <3>1, <3>2
    <3>. QED BY <3>3, MemFirst
  <2>5. Heard(c)
    BY <1>1, <1>6, <2>2, <2>3, <2>4, Zenon DEF Heard
  <2>. QED BY <1>4, <2>2, <2>5
<1>. QED BY <1>5, <1>6

(***************************************************************************)
(* What update_registers(), handle_breakpoint() and get_memory_bytes()     *)
(* find behind the empty lines.                                            *)
(***************************************************************************)
LEMMA UnblankedFrom ==
  ASSUME NEW ls \in Lines, NEW i \in DOMAIN ls, FirstLine(i, ls)
  PROVE  /\ Unblanked(ls) \in Lines /\ Len(Unblanked(ls)) = Len(ls) - i + 1
         /\ \A j \in 1 .. Len(ls) - i + 1 : Unblanked(ls)[j] = ls[i + j - 1]
         /\ Unblanked(ls) # <<>> /\ Head(Unblanked(ls)) = ls[i]
<1>1. DOMAIN ls = 1 .. Len(ls) /\ Len(ls) \in Nat
  BY DEF Lines
<1>2. \A k \in DOMAIN ls : FirstLine(k, ls) => k = i
  <2>. SUFFICES ASSUME NEW k \in DOMAIN ls, FirstLine(k, ls) PROVE k = i
    OBVIOUS
  <2>1. ~(k < i)
    BY <1>1 DEF FirstLine
  <2>2. ~(i < k)
    BY <1>1 DEF FirstLine
  <2>. QED BY <1>1, <2>1, <2>2
<1>3. (CHOOSE k \in DOMAIN ls : FirstLine(k, ls)) = i
  BY <1>2
<1>4. ~(\A k \in DOMAIN ls : ls[k] = Blank)
  BY DEF FirstLine
<1>5. Unblanked(ls) = From(ls, i)
  BY <1>3, <1>4 DEF Unblanked
<1>. DEFINE u == SubSeq(ls, i, Len(ls))
<1>6. u \in Lines /\ Len(u) = Len(ls) - i + 1 /\ \A j \in 1 .. Len(ls) - i + 1 : u[j] = ls[i + j - 1]
  <2>1. u \in Lines
    BY <1>1 DEF Lines
  <2>2. Len(u) = Len(ls) - i + 1
    BY <1>1 DEF Lines
  <2>3. \A j \in 1 .. Len(ls) - i + 1 : u[j] = ls[i + j - 1]
    BY <1>1 DEF Lines
  <2>. QED BY <2>1, <2>2, <2>3
<1>7. Unblanked(ls) = u
  BY <1>5 DEF From
<1>. HIDE DEF u
<1>8. u # <<>> /\ Head(u) = ls[i]
  <2>1. Len(u) >= 1 /\ Len(u) \in Nat
    BY <1>1, <1>6
  <2>2. u # <<>> /\ Head(u) = u[1]
    BY <1>6, <2>1 DEF Lines
  <2>3. u[1] = ls[i]
    BY <1>1, <1>6, <2>1
  <2>. QED BY <2>2, <2>3
<1>. QED BY <1>6, <1>7, <1>8

LEMMA RegsFound ==
  ASSUME NEW ls \in Lines, NEW pc, RegsIn(ls, pc)
  PROVE  /\ HasRegs(Unblanked(ls)) /\ Unblanked(ls)[2].val = pc
         /\ Unblanked(ls) # <<>> /\ Head(Unblanked(ls)) = Header
         /\ Told(ls) = Unblanked(ls)
<1>1. PICK i \in DOMAIN ls : /\ FirstLine(i, ls) /\ i < Len(ls)
                             /\ ls[i] = Header /\ ls[i + 1] = Regs(pc)
  BY DEF RegsIn
<1>. DEFINE u == Unblanked(ls)
            m == Len(ls) - i + 1
<1>2. /\ u \in Lines /\ Len(u) = m
      /\ \A j \in 1 .. m : u[j] = ls[i + j - 1]
      /\ u # <<>> /\ Head(u) = ls[i]
  BY <1>1, UnblankedFrom
<1>3. i \in Nat /\ Len(ls) \in Nat /\ m >= 2 /\ m \in Nat
  BY <1>1 DEF Lines
<1>. HIDE DEF u
<1>4. u[1] = ls[i + 1 - 1] /\ u[2] = ls[i + 2 - 1]
  BY <1>2, <1>3
<1>5. i + 1 - 1 = i /\ i + 2 - 1 = i + 1
  BY <1>3
<1>6. u[1] = Header /\ u[2] = Regs(pc)
  BY <1>1, <1>4, <1>5
<1>7. HasRegs(u) /\ u[2].val = pc
  BY <1>2, <1>3, <1>6, Kinds DEF HasRegs
<1>8. Head(u) = Header /\ Header # Bang
  BY <1>1, <1>2, Kinds
<1>9. Told(ls) = u
  BY <1>8 DEF Told, u
<1>. QED BY <1>2, <1>7, <1>8, <1>9 DEF u

LEMMA MemFound ==
  ASSUME NEW ls \in Lines, MemIn(ls)
  PROVE  Unblanked(ls) # <<>> /\ Head(Unblanked(ls)).kind = "mem"
<1>1. PICK i \in DOMAIN ls : FirstLine(i, ls) /\ ls[i].kind = "mem"
  BY DEF MemIn
<1>. QED BY <1>1, UnblankedFrom

-----------------------------------------------------------------------------
(***************************************************************************)
(* Who acts.  While the loop's thread has something to do it does what is  *)
(* on top, unless the target or the client acts.                           *)
(***************************************************************************)
Side == Request \/ Disconnect \/ UNCHANGED vars

LEMMA Dispatch ==
  ASSUME Alive, Quiet, [Next]_vars, ~Side, NEW op, NEW s, Top(todo, op, s)
  PROVE  \/ Process
         \/ op.do = "send" /\ Send
         \/ op.do \in {"getlines", "await"} /\ (GetLines \/ Timeout)
         \/ op.do = "readevent" /\ (ReadEvent \/ Timeout)
         \/ op.do = "regs" /\ UpdateRegs
         \/ op.do = "event" /\ HandleBreakpoint
         \/ op.do = "verdict" /\ Verdict
         \/ op.do = "fill" /\ Fill
         \/ op.do = "require" /\ Require
         \/ op.do \in {"stopped", "resumed", "bpset", "forget"} /\ Assign
         \/ op.do = "symbols" /\ Symbols
         \/ op.do = "notify" /\ Notify
         \/ op.do = "evaluate" /\ Evaluate
         \/ op.do = "return" /\ Return
         \/ op.do = "eventdone" /\ EventDone
         \/ op.do = "polldone" /\ PollDone
<1>1. todo # <<>> /\ Head(todo) = op
  BY DEF Top
<1>2. \A d : At(d) => op.do = d
  BY <1>1 DEF At
<1>3. ~Hit
  BY <1>1 DEF Hit, Quiet
<1>4. ~Over
  BY DEF Over, Side
<1>5. ~TakeTask /\ ~NoTask /\ ~NoEvent /\ ~DoEvent /\ ~NoPoll /\ ~Poll /\ ~Joined /\ ~ResetTarget
  BY <1>1 DEF TakeTask, NoTask, NoEvent, DoEvent, NoPoll, Poll, Joined, ResetTarget, Idle
<1>6. /\ Send => op.do = "send"
      /\ GetLines => op.do \in {"getlines", "await"}
      /\ Timeout => op.do \in {"getlines", "await", "readevent"}
      /\ ReadEvent => op.do = "readevent"
  BY <1>2 DEF Send, GetLines, Timeout, ReadEvent
<1>7. /\ UpdateRegs => op.do = "regs"
      /\ HandleBreakpoint => op.do = "event"
      /\ Verdict => op.do = "verdict"
      /\ Fill => op.do = "fill"
      /\ Require => op.do = "require"
      /\ Symbols => op.do = "symbols"
      /\ Notify => op.do = "notify"
      /\ Evaluate => op.do = "evaluate"
  BY <1>2 DEF UpdateRegs, HandleBreakpoint, Verdict, Fill, Require, Symbols, Notify, Evaluate
<1>8. Assign => op.do \in {"stopped", "resumed", "bpset", "forget"}
  BY <1>1 DEF Assign
<1>9. /\ Return => op.do = "return"
      /\ EventDone => op.do = "eventdone"
      /\ PollDone => op.do = "polldone"
  BY <1>2 DEF Return, EventDone, PollDone
<1>10. \/ Process \/ Hit \/ Send \/ GetLines \/ Timeout \/ ReadEvent
       \/ UpdateRegs \/ HandleBreakpoint \/ Verdict \/ Fill \/ Require \/ Assign \/ Symbols
       \/ Notify \/ Evaluate
       \/ TakeTask \/ Return \/ NoTask \/ NoEvent \/ DoEvent \/ EventDone \/ NoPoll \/ Poll
       \/ PollDone \/ Joined \/ ResetTarget
       \/ Over
  BY Zenon DEF Next, Connection, Local, Loop, Side
<1>. QED BY <1>3, <1>4, <1>5, <1>6, <1>7, <1>8, <1>9, <1>10

LEMMA IdleDispatch ==
  ASSUME Alive, todo = <<>>, [Next]_vars, ~Side
  PROVE  Process \/ Hit \/ TakeTask \/ NoTask \/ NoEvent \/ DoEvent \/ NoPoll \/ Poll
           \/ Joined \/ ResetTarget
<1>1. \A d : ~At(d)
  BY DEF At
<1>2. ~Over
  BY DEF Over, Side
<1>3. ~Send /\ ~GetLines /\ ~Timeout /\ ~ReadEvent
  BY <1>1 DEF Send, GetLines, Timeout, ReadEvent
<1>4. /\ ~UpdateRegs /\ ~HandleBreakpoint /\ ~Verdict /\ ~Fill /\ ~Require /\ ~Symbols
      /\ ~Notify /\ ~Evaluate
  BY <1>1 DEF UpdateRegs, HandleBreakpoint, Verdict, Fill, Require, Symbols, Notify, Evaluate
<1>5. ~Assign
  BY DEF Assign
<1>6. ~Return /\ ~EventDone /\ ~PollDone
  BY <1>1 DEF Return, EventDone, PollDone
<1>7. \/ Process \/ Hit \/ Send \/ GetLines \/ Timeout \/ ReadEvent
      \/ UpdateRegs \/ HandleBreakpoint \/ Verdict \/ Fill \/ Require \/ Assign \/ Symbols
      \/ Notify \/ Evaluate
      \/ TakeTask \/ Return \/ NoTask \/ NoEvent \/ DoEvent \/ EventDone \/ NoPoll \/ Poll
      \/ PollDone \/ Joined \/ ResetTarget
      \/ Over
  BY Zenon DEF Next, Connection, Local, Loop, Side
<1>. QED BY <1>2, <1>3, <1>4, <1>5, <1>6, <1>7

(***************************************************************************)
(* The target answers.                                                     *)
(***************************************************************************)
Processed(c) ==
  /\ c \in {"t0", "!"} => tgt'.running
  /\ c = "t1" => ~tgt'.running
  /\ c \notin {"t0", "!", "t1"} => (tgt'.running <=> tgt.running)
  /\ tgt'.armed => c = "b" \/ tgt.armed
  /\ c # "step" /\ ~tgt.running => tgt'.pc = tgt.pc
  /\ UNCHANGED <<isXemu, phase, task, dead, stopped, breakpoint, polled, regs, lines, todo>>

LEMMA Answers ==
  ASSUME TypeOK, NEW c \in Commands, Asked(c), Process
  PROVE  Answered(c)' /\ Processed(c)
<1>1. Head(cmds) = c /\ Tail(cmds) = <<>> /\ rx = <<>>
  BY DEF Asked
<1>2. PICK pc \in PCs :
         /\ ~tgt.running /\ c # "step" => pc = tgt.pc
         /\ cmds' = <<>>
         /\ rx' = rx \o Reply(c, pc)
         /\ tgt' = [running |-> CASE c \in {"t0", "!"} -> TRUE
                                  [] c = "t1" -> FALSE
                                  [] OTHER -> tgt.running,
                    armed   |-> c = "b" \/ (tgt.armed /\ c # "!"),
                    pc      |-> IF tgt.running /\ c # "t1" THEN tgt.pc ELSE pc]
  <2>1. PICK pc \in PCs :
         /\ ~tgt.running /\ Head(cmds) # "step" => pc = tgt.pc
         /\ cmds' = Tail(cmds)
         /\ rx' = rx \o Reply(Head(cmds), pc)
         /\ tgt' = [running |-> CASE Head(cmds) \in {"t0", "!"} -> TRUE
                                  [] Head(cmds) = "t1" -> FALSE
                                  [] OTHER -> tgt.running,
                    armed   |-> Head(cmds) = "b" \/ (tgt.armed /\ Head(cmds) # "!"),
                    pc      |-> IF tgt.running /\ Head(cmds) # "t1" THEN tgt.pc ELSE pc]
    BY Zenon DEF Process
  <2>. QED BY <1>1, <2>1
<1>3. rx' = Reply(c, pc)
  <2>1. Reply(c, pc) \in Seq(LinesOfTarget)
    BY ReplyTypes
  <2>2. <<>> \o Reply(c, pc) = Reply(c, pc)
    BY <2>1, ConcatEmptySeq
  <2>. QED BY <1>1, <1>2, <2>2
<1>4. UNCHANGED <<todo, lines, phase, task, stopped, breakpoint, regs, dead, polled, isXemu>>
  BY DEF Process, client
<1>5. tgt.running \in BOOLEAN /\ tgt.armed \in BOOLEAN
  BY DEF TypeOK
<1>6. /\ c \in {"t0", "!"} => tgt'.running
      /\ c = "t1" => ~tgt'.running
      /\ c \notin {"t0", "!", "t1"} => (tgt'.running <=> tgt.running)
  BY <1>2, <1>5
<1>7. /\ tgt'.armed => c = "b" \/ tgt.armed
      /\ c # "step" /\ ~tgt.running => tgt'.pc = tgt.pc
      /\ ~tgt'.running => pc = tgt'.pc
  BY <1>2, <1>5, <1>6
<1>8. Reply(c, pc)' = Reply(c, pc)
  BY <1>4, <1>6 DEF Reply, Prompt, RegisterLines, Pages
<1>9. Answered(c)'
  <2>1. cmds' = <<>> /\ (c = "t1" => ~tgt'.running)
    BY <1>2, <1>6
  <2>2. rx' = Reply(c, pc)' /\ (~tgt'.running => pc = tgt'.pc)
    BY <1>3, <1>7, <1>8
  <2>. QED BY <2>1, <2>2, Zenon DEF Answered
<1>. QED BY <1>4, <1>6, <1>7, <1>9, Zenon DEF Processed

(***************************************************************************)
(* A wait for a prompt does not time out while an answer is to come.       *)
(***************************************************************************)
LEMMA PromptIsThere ==
  ASSUME NEW c \in Commands, Answered(c)
  PROVE  rx \in Lines /\ \E i \in DOMAIN rx : rx[i] = Dot
<1>1. PICK pc \in PCs : rx = Reply(c, pc)
  BY DEF Answered
<1>2. CASE isXemu /\ c = "step"
  <2>1. rx \in Lines /\ Len(rx) = 7 /\ rx[2] = Dot
    BY <1>1, <1>2, XemuReply
  <2>. QED BY <2>1 DEF Lines
<1>3. CASE ~(isXemu /\ c = "step")
  <2>1. PICK y \in Lines : Reply(c, pc) = Cat(y, Prompt) /\ Dotless(y)
    BY <1>3, ReplyBegins, Zenon
  <2>2. rx \in Lines /\ Len(rx) >= Len(y) + 1 /\ Len(y) \in Nat /\ Len(rx) \in Nat /\ rx[Len(rx)] = Dot
    BY <1>1, <2>1, LastPrompt
  <2>3. Len(rx) \in DOMAIN rx
    BY <2>2 DEF Lines
  <2>. QED BY <2>2, <2>3
<1>. QED BY <1>2, <1>3

LEMMA TimesOut ==
  ASSUME Quiet, Timeout, rx \in Lines
  PROVE  /\ cmds = <<>>
         /\ IF At("readevent") THEN Len(rx) < 3 ELSE \A i \in DOMAIN rx : rx[i] # Dot
<1>1. PICK k \in 1 .. Len(rx) + 1 :
        /\ IF At("readevent") THEN k <= 3 ELSE \A i \in 1 .. k - 1 : rx[i] # Dot
        /\ cmds = <<>> /\ k = Len(rx) + 1
  BY DEF Timeout, GivesUpAt, Quiet
<1>2. Len(rx) \in Nat /\ DOMAIN rx = 1 .. Len(rx)
  BY DEF Lines
<1>3. k - 1 = Len(rx) /\ (k <= 3 => Len(rx) < 3)
  BY <1>1, <1>2
<1>. QED BY <1>1, <1>2, <1>3

LEMMA Waits ==
  ASSUME Quiet, NEW c \in Commands, Asked(c) \/ Answered(c), At("getlines") \/ At("await")
  PROVE  ~Timeout /\ (GetLines => Answered(c))
<1>1. ~At("readevent")
  BY DEF At
<1>2. CASE Asked(c)
  <2>1. cmds # <<>> /\ rx = <<>>
    BY <1>2 DEF Asked
  <2>2. ~GetLines
    BY <2>1 DEF GetLines
  <2>. QED BY <2>1, <2>2 DEF Timeout, GivesUpAt, Quiet
<1>3. CASE Answered(c)
  <2>1. rx \in Lines /\ \E i \in DOMAIN rx : rx[i] = Dot
    BY <1>3, PromptIsThere
  <2>. QED BY <1>1, <1>3, <2>1, TimesOut
<1>. QED BY <1>2, <1>3

(***************************************************************************)
(* execute_command(), from the command's being sent to its reply's being   *)
(* read.                                                                   *)
(***************************************************************************)
LEMMA Sends ==
  ASSUME NEW c, NEW s, Top(todo, Op("send", c), s), Still, Send
  PROVE  todo' = s /\ Asked(c)' /\ Same
<1>1. Arg = c /\ Rest = s
  BY OpFields DEF Top, Arg, Rest
<1>2. cmds' = Append(<<>>, c) /\ rx' = <<>>
  BY <1>1 DEF Send, Still
<1>3. Append(<<>>, c) = <<c>>
  OBVIOUS
<1>4. Asked(c)'
  BY <1>2, <1>3 DEF Asked
<1>5. todo' = s /\ Same
  BY <1>1 DEF Send, Continue, Same, client
<1>. QED BY <1>4, <1>5

LEMMA DoingStep ==
  ASSUME ClientInv, lines' \in Lines, Alive, Quiet, [Next]_vars, ~Side,
         NEW c \in Commands, NEW s \in Seq(Ops), Doing(c, s)
  PROVE  \/ todo' = First(Op("await", c), s) /\ Asked(c)' /\ Same
         \/ todo' = First(Op("await", c), s) /\ Answered(c)' /\ Processed(c)
         \/ todo' = s /\ cmds' = <<>> /\ Same /\ Heard(c) /\ Answered(c)
<1>1. CASE todo = Do(c, s) /\ Still
  <2>1. Top(todo, Op("send", c), First(Op("await", c), s))
    BY <1>1, DoTop
  <2>2. ~Process
    BY <1>1 DEF Process, Still
  <2>3. Send
    BY <2>1, <2>2, Dispatch, OpFields
  <2>. QED BY <1>1, <2>1, <2>3, Sends
<1>2. CASE todo = First(Op("await", c), s) /\ (Asked(c) \/ Answered(c))
  <2>1. Top(todo, Op("await", c), s)
    BY <1>2, DoTop
  <2>2. At("await")
    BY <2>1, OpFields DEF At, Top
  <2>3. Process \/ GetLines
    BY <1>2, <2>1, <2>2, Dispatch, OpFields, Waits
  <2>4. CASE Process
    <3>1. Asked(c)
      BY <1>2, <2>4 DEF Process, Answered
    <3>2. Answered(c)' /\ Processed(c)
      BY <2>4, <3>1, Answers DEF ClientInv
    <3>. QED BY <1>2, <3>2 DEF Processed
  <2>5. CASE GetLines
    <3>1. Answered(c)
      BY <1>2, <2>2, <2>5, Waits
    <3>. QED BY <2>1, <2>5, <3>1, AwaitStep DEF Quiet
  <2>. QED BY <2>3, <2>4, <2>5
<1>. QED BY <1>1, <1>2 DEF Doing

(***************************************************************************)
(* Operations that leave the connection alone.                             *)
(***************************************************************************)
LEMMA NobodyAnswers == ASSUME cmds = <<>> PROVE ~Process
BY DEF Process

LEMMA AtTop ==
  ASSUME Alive, NEW d, NEW a, NEW s, Top(todo, Op(d, a), s)
  PROVE  At(d) /\ Arg = a /\ Rest = s /\ (\A e : At(e) => e = d) /\ Head(todo).do = d
<1>1. Head(todo).do = d /\ Head(todo).arg = a
  BY OpFields DEF Top
<1>. QED BY <1>1 DEF At, Top, Arg, Rest

LEMMA TopReads ==
  ASSUME Alive, Quiet, [Next]_vars, ~Side, NEW s, Top(todo, Op("getlines", ""), s)
  PROVE  Process \/ GetLines \/ Timeout
<1>. DEFINE op == Op("getlines", "")
<1>1. op.do = "getlines" /\ Top(todo, op, s)
  BY OpFields
<1>. HIDE DEF op
<1>. QED BY <1>1, Dispatch

(***************************************************************************)
(* What is never on top while the connection is free, and what is.         *)
(***************************************************************************)
LEMMA TopIs ==
  ASSUME Alive, Quiet, cmds = <<>>, [Next]_vars, ~Side, NEW d, NEW a, NEW s, Top(todo, Op(d, a), s)
  PROVE  /\ At(d) /\ Arg = a /\ Rest = s
         /\ d = "send" => Send
         /\ d = "getlines" => GetLines \/ Timeout
         /\ d = "readevent" => ReadEvent \/ Timeout
         /\ d = "regs" => UpdateRegs
         /\ d = "event" => HandleBreakpoint
         /\ d = "verdict" => Verdict
         /\ d = "fill" => Fill
         /\ d = "require" => Require
         /\ d \in {"stopped", "resumed", "bpset", "forget"} => Assign
         /\ d = "symbols" => Symbols
         /\ d = "notify" => Notify
         /\ d = "evaluate" => Evaluate
         /\ d = "return" => Return
         /\ d = "eventdone" => EventDone
         /\ d = "polldone" => PollDone
<1>. DEFINE op == Op(d, a)
<1>1. op.do = d /\ Top(todo, op, s)
  BY OpFields
<1>2. At(d) /\ Arg = a /\ Rest = s
  BY AtTop
<1>. HIDE DEF op
<1>. QED BY <1>1, <1>2, Dispatch, NobodyAnswers

(***************************************************************************)
(* What the operations that leave the connection alone do.                 *)
(***************************************************************************)
LEMMA ConstantStacks ==
  /\ Finish' = Finish /\ Loaded' = Loaded /\ Loading' = Loading /\ Load' = Load
  /\ Do("count", Finish)' = Do("count", Finish) /\ Run' = Run
  /\ PauseSet' = PauseSet
OBVIOUS

Steady == UNCHANGED <<cmds, rx, isXemu, tgt, dead, breakpoint, task, phase>>

LEMMA SymbolsDo ==
  ASSUME Symbols, NEW s, Rest = s
  PROVE  /\ \/ todo' = s /\ UNCHANGED <<task, phase, dead>>
            \/ Throw
         /\ UNCHANGED <<cmds, rx, isXemu, tgt, stopped, breakpoint, polled, regs, cache>>
BY DEF Symbols, Continue, target, client

LEMMA RegsDo ==
  ASSUME Alive, UpdateRegs, NEW s, Rest = s, NEW pc, lines \in Lines, RegsIn(lines, pc)
  PROVE  todo' = s /\ regs' = pc /\ Steady /\ UNCHANGED <<stopped, polled, cache>>
<1>1. HasRegs(Unblanked(lines)) /\ Unblanked(lines)[2].val = pc
  BY RegsFound
<1>2. regs' = pc /\ Continue(Rest)
  BY <1>1, Zenon DEF UpdateRegs
<1>. QED BY <1>2 DEF UpdateRegs, Continue, Steady, target, client

LEMMA FillDoes ==
  ASSUME Alive, Fill, NEW s, Rest = s, lines \in Lines, MemIn(lines)
  PROVE  todo' = s /\ Steady /\ UNCHANGED <<stopped, polled, regs>>
<1>1. Unblanked(lines) # <<>> /\ Head(Unblanked(lines)).kind = "mem"
  BY MemFound
<1>2. Continue(Rest)
  BY <1>1, Zenon DEF Fill
<1>. QED BY <1>2 DEF Fill, Continue, Steady, target, client

LEMMA AssignDoes ==
  ASSUME Alive, Assign, breakpoint \in BOOLEAN, NEW d, NEW s, Top(todo, Op(d, ""), s)
  PROVE  /\ todo' = s
         /\ UNCHANGED <<cmds, rx, isXemu, tgt, phase, task, dead, regs>>
         /\ d = "stopped" =>
              stopped' = TRUE /\ polled' = FALSE /\ UNCHANGED <<breakpoint, cache>>
         /\ d = "resumed" => stopped' = FALSE /\ UNCHANGED <<breakpoint, polled, cache>>
         /\ d = "bpset" => breakpoint' = TRUE /\ UNCHANGED <<stopped, polled, cache>>
         /\ d = "forget" => cache' = Empty /\ UNCHANGED <<stopped, polled, breakpoint>>
<1>1. At(d) /\ Rest = s /\ \A e : At(e) => e = d
  BY AtTop
<1>2. todo' = s /\ UNCHANGED <<cmds, rx, isXemu, tgt, phase, task, dead, regs>>
  BY <1>1 DEF Assign, Continue, target, client
<1>3. /\ stopped' = CASE At("stopped") -> TRUE [] At("resumed") -> FALSE [] OTHER -> stopped
      /\ polled' = IF At("stopped") THEN FALSE ELSE polled
      /\ breakpoint' = (At("bpset") \/ breakpoint)
      /\ cache' = IF At("forget") THEN Empty ELSE cache
  BY DEF Assign
<1>4. d = "stopped" => At("stopped") /\ ~At("resumed") /\ ~At("bpset") /\ ~At("forget")
  BY <1>1
<1>5. d = "resumed" => ~At("stopped") /\ At("resumed") /\ ~At("bpset") /\ ~At("forget")
  BY <1>1
<1>6. d = "bpset" => ~At("stopped") /\ ~At("resumed") /\ At("bpset") /\ ~At("forget")
  BY <1>1
<1>7. d = "forget" => ~At("stopped") /\ ~At("resumed") /\ ~At("bpset") /\ At("forget")
  BY <1>1
<1>8. breakpoint' = IF At("bpset") THEN TRUE ELSE breakpoint
  BY <1>3
<1>9. d = "stopped" => stopped' = TRUE /\ polled' = FALSE /\ UNCHANGED <<breakpoint, cache>>
  BY <1>3, <1>4, <1>8
<1>10. d = "resumed" => stopped' = FALSE /\ UNCHANGED <<breakpoint, polled, cache>>
  BY <1>3, <1>5, <1>8
<1>11. d = "bpset" => breakpoint' = TRUE /\ UNCHANGED <<stopped, polled, cache>>
  BY <1>3, <1>6, <1>8
<1>12. d = "forget" => cache' = Empty /\ UNCHANGED <<stopped, polled, breakpoint>>
  BY <1>3, <1>7, <1>8
<1>. QED BY <1>2, <1>9, <1>10, <1>11, <1>12

LEMMA RequireDoes ==
  ASSUME Require, NEW s, Rest = s, Arg = "stopped" => stopped, Arg \in {"stopped", "symbols"}
  PROVE  /\ \/ todo' = s /\ UNCHANGED <<task, phase, dead>>
            \/ Arg = "symbols" /\ Throw
         /\ UNCHANGED <<cmds, rx, isXemu, tgt, stopped, breakpoint, polled, regs, cache>>
<1>1. UNCHANGED <<cmds, rx, isXemu, tgt, stopped, breakpoint, polled, regs, cache>>
  BY DEF Require, target, client
<1>2. Continue(Rest) \/ (Arg = "symbols" /\ Throw)
  BY DEF Require
<1>. QED BY <1>1, <1>2 DEF Continue

LEMMA NotifyDoes ==
  ASSUME Notify, NEW s, Rest = s
  PROVE  todo' = s /\ Steady /\ UNCHANGED <<stopped, polled, regs, cache>>
BY DEF Notify, Continue, Steady, target, client

LEMMA ReturnDoes ==
  ASSUME Return, NEW s, Rest = s
  PROVE  /\ todo' = s /\ task' = "none" /\ phase' = "events"
         /\ UNCHANGED <<cmds, rx, isXemu, tgt, dead, stopped, breakpoint, polled, regs, cache>>
BY DEF Return, target, client

LEMMA LaunchFails ==
  ASSUME phase = "task", task \in {"launch", "setbp"}, Throw
  PROVE  todo' = <<>> /\ task' = "none" /\ phase' = "events" /\ dead' = dead
BY DEF Throw

(***************************************************************************)
(* The beliefs outside of the tasks that are about to change them.         *)
(***************************************************************************)
Believed == stopped /\ ~polled => Standing
Known    == tgt.armed => breakpoint

LEMMA BeliefsNow ==
  ASSUME StopHolds, ArmedIsKnown
  PROVE  /\ phase = "task" /\ task \notin {"pause", "cont", "next"} => Believed
         /\ phase \in {"events", "poll"} => Believed
         /\ phase # "task" \/ task # "setbp" => Known
BY DEF StopHolds, ArmedIsKnown, Believed, Known, Pausing, Continuing, Stepping, Setting, InTask

LEMMA NextBeliefs ==
  /\ Believed' => StopHolds'
  /\ phase' \notin {"task", "events", "poll"} => StopHolds'
  /\ Known' => ArmedIsKnown'
BY DEF StopHolds, ArmedIsKnown, Believed, Known

LEMMA BeliefsStay ==
  ASSUME UNCHANGED <<tgt, stopped, polled, breakpoint, regs>>
  PROVE  (Believed => Believed') /\ (Known => Known')
BY DEF Believed, Known, Standing

LEMMA BeliefsProcessed ==
  ASSUME NEW c, Processed(c)
  PROVE  /\ c \notin {"t0", "!", "step"} /\ Believed => Believed'
         /\ c # "b" /\ Known => Known'
<1>1. ASSUME c \notin {"t0", "!", "step"}, Standing PROVE Standing'
  BY <1>1 DEF Standing, Processed
<1>2. UNCHANGED <<stopped, polled, breakpoint>>
  BY DEF Processed
<1>3. c # "b" /\ tgt'.armed => tgt.armed
  BY DEF Processed
<1>. QED BY <1>1, <1>2, <1>3 DEF Believed, Known

-----------------------------------------------------------------------------
(***************************************************************************)
(* A step of each activity.                                                *)
(***************************************************************************)
Turn == Quiet /\ [Next]_vars /\ ~Side /\ lines' \in Lines

LEMMA Carries ==
  ASSUME Believed, Known, dead' = "no", UNCHANGED <<tgt, stopped, polled, breakpoint, regs>>,
         task' \notin {"next"} \cup Pages \/ stopped'
  PROVE  Beliefs'
<1>1. StopHolds' /\ ArmedIsKnown'
  BY BeliefsStay, NextBeliefs
<1>2. Alive' /\ NeedsStop'
  BY DEF Alive, NeedsStop, Pages
<1>. QED BY <1>1, <1>2 DEF Beliefs

LEMMA Progresses ==
  ASSUME Believed, Known, dead = "no", task \notin {"next"} \cup Pages \/ stopped,
         NEW c, c \notin {"t0", "!", "step", "b"}, Same \/ Processed(c)
  PROVE  Beliefs'
<1>1. CASE Same
  BY <1>1, Carries DEF Same
<1>2. CASE Processed(c)
  <2>1. StopHolds' /\ ArmedIsKnown'
    BY <1>2, BeliefsProcessed, NextBeliefs
  <2>2. Alive' /\ NeedsStop'
    BY <1>2 DEF Alive, NeedsStop, Pages, Processed
  <2>. QED BY <2>1, <2>2 DEF Beliefs
<1>. QED BY <1>1, <1>2

LEMMA Arrives ==
  ASSUME phase' = "events", todo' = <<>>, cmds' = <<>>, rx' = <<>>
  PROVE  Place'
<1>1. Listening'
  BY DEF Listening, Ready, Still
<1>. QED BY <1>1 DEF Place

LEMMA Finishes ==
  ASSUME phase' = "task", task' # "none", todo' = Finish, cmds' = <<>>, rx' = <<>>
  PROVE  Place'
<1>1. Finishing'
  BY DEF Finishing, Ready, Still
<1>. QED BY <1>1 DEF Place

LEMMA LaunchingStep ==
  ASSUME QuietInv, Turn, Launching
  PROVE  Good'
<1>1. phase = "task" /\ task = "launch" /\ dead = "no" /\ Alive /\ Believed /\ Known
  BY BeliefsNow DEF QuietInv, Good, Beliefs, Alive, Launching, InTask
<1>2. "launch" \notin {"next"} \cup Pages /\ "none" \notin {"next"} \cup Pages
  BY DEF Pages
<1>3. Quiet /\ [Next]_vars /\ ~Side /\ ~SplitPrompts /\ "load" \in Commands
  BY DEF Turn, Quiet, Commands
<1>4. CASE Ready(Load)
  <2>1. Top(todo, Op("send", "load"), Loading) /\ Still /\ cmds = <<>>
    BY <1>4, LaunchTops DEF Ready, Still
  <2>2. todo' = Loading /\ Asked("load")' /\ Same
    BY <1>1, <1>3, <2>1, TopIs, Sends
  <2>3. Launching'
    BY <1>1, <2>2 DEF Launching, InTask, Same
  <2>4. Beliefs'
    BY <1>1, <1>2, <2>2, Carries DEF Same
  <2>. QED BY <2>3, <2>4 DEF Good, Place
<1>5. CASE todo = Loading /\ (Asked("load") \/ Answered("load"))
  <2>1. Top(todo, Op("getlines", ""), Loaded)
    BY <1>5, LaunchTops
  <2>2. At("getlines") /\ Rest = Loaded
    BY <1>1, <2>1, AtTop
  <2>3. Process \/ GetLines
    <3>1. Process \/ GetLines \/ Timeout
      BY <1>1, <1>3, <2>1, TopReads
    <3>. QED BY <1>3, <1>5, <2>2, <3>1, Waits
  <2>4. CASE Process
    <3>1. Asked("load")
      BY <1>5, <2>4 DEF Process, Answered
    <3>2. Answered("load")' /\ Processed("load")
      BY <1>3, <2>4, <3>1, Answers DEF QuietInv, ClientInv
    <3>3. Launching'
      BY <1>1, <1>5, <3>2 DEF Launching, InTask, Processed
    <3>4. Beliefs'
      BY <1>1, <1>2, <3>2, Progresses
    <3>. QED BY <3>3, <3>4 DEF Good, Place
  <2>5. CASE GetLines
    <3>1. Answered("load")
      BY <1>3, <1>5, <2>2, <2>5, Waits
    <3>2. PICK pc \in PCs : rx = Reply("load", pc)
      BY <3>1 DEF Answered
    <3>3. PICK y \in Lines : Reply("load", pc) = Cat(y, Prompt) /\ Dotless(y)
      BY <1>3, ReplyBegins, Zenon
    <3>4. rx' = <<>> /\ Continue(Rest)
      BY <1>3, <2>2, <2>5, <3>2, <3>3, Listens
    <3>5. /\ todo' = Loaded /\ cmds' = <<>> /\ task' = task /\ phase' = phase /\ dead' = dead
          /\ UNCHANGED <<tgt, stopped, polled, breakpoint, regs>>
      BY <2>2, <2>5, <3>1, <3>4 DEF Continue, GetLines, Answered
    <3>6. Launching'
      BY <1>1, <3>4, <3>5 DEF Launching, InTask, Ready, Still
    <3>7. Beliefs'
      BY <1>1, <1>2, <3>5, Carries
    <3>. QED BY <3>6, <3>7 DEF Good, Place
  <2>. QED BY <2>3, <2>4, <2>5
<1>6. CASE Ready(Loaded)
  <2>1. Top(todo, Op("symbols", ""), Finish) /\ cmds = <<>> /\ rx = <<>>
    BY <1>6, LaunchTops DEF Ready, Still
  <2>2. Symbols /\ Rest = Finish
    BY <1>1, <1>3, <2>1, TopIs
  <2>3. /\ \/ todo' = Finish /\ UNCHANGED <<task, phase, dead>>
           \/ Throw
        /\ UNCHANGED <<cmds, rx, isXemu, tgt, stopped, breakpoint, polled, regs, cache>>
    BY <2>2, SymbolsDo
  <2>4. CASE todo' = Finish /\ UNCHANGED <<task, phase, dead>>
    <3>1. Place'
      BY <1>1, <2>1, <2>3, <2>4, Finishes
    <3>2. Beliefs'
      BY <1>1, <1>2, <2>3, <2>4, Carries
    <3>. QED BY <3>1, <3>2 DEF Good
  <2>5. CASE Throw
    <3>1. todo' = <<>> /\ task' = "none" /\ phase' = "events" /\ dead' = dead
      BY <1>1, <2>5, LaunchFails
    <3>2. Place'
      BY <2>1, <2>3, <3>1, Arrives
    <3>3. Beliefs'
      BY <1>1, <1>2, <2>3, <3>1, Carries
    <3>. QED BY <3>2, <3>3 DEF Good
  <2>. QED BY <2>3, <2>4, <2>5
<1>. QED BY <1>4, <1>5, <1>6 DEF Launching

LEMMA RunningStep ==
  ASSUME QuietInv, Turn, Running
  PROVE  Good'
<1>1. phase = "task" /\ task = "run" /\ dead = "no" /\ Alive /\ Believed /\ Known /\ ClientInv
  BY BeliefsNow DEF QuietInv, Good, Beliefs, Alive, Running, InTask
<1>2. task \notin {"next"} \cup Pages
  BY <1>1 DEF Pages
<1>3. Quiet /\ [Next]_vars /\ ~Side /\ lines' \in Lines /\ "keys" \in Commands /\ "count" \in Commands
  BY DEF Turn, Commands
<1>4. Finish \in Seq(Ops) /\ Do("count", Finish) \in Seq(Ops)
  BY FinishTop, LaunchTops DEF Top
<1>5. CASE Doing("keys", Do("count", Finish))
  <2>1. \/ todo' = First(Op("await", "keys"), Do("count", Finish)) /\ Asked("keys")' /\ Same
        \/ todo' = First(Op("await", "keys"), Do("count", Finish)) /\ Answered("keys")'
             /\ Processed("keys")
        \/ todo' = Do("count", Finish) /\ cmds' = <<>> /\ Same /\ Heard("keys") /\ Answered("keys")
    BY <1>1, <1>3, <1>4, <1>5, DoingStep
  <2>2. phase' = phase /\ task' = task
    BY <2>1 DEF Same, Processed
  <2>3. Heard("keys") => rx' = <<>>
    BY DEF Heard
  <2>4. Doing("keys", Do("count", Finish))' \/ Doing("count", Finish)'
    BY <2>1, <2>3 DEF Doing, Still
  <2>5. Running'
    BY <1>1, <2>2, <2>4 DEF Running, InTask
  <2>6. Beliefs'
    BY <1>1, <1>2, <2>1, Progresses
  <2>. QED BY <2>5, <2>6 DEF Good, Place
<1>6. CASE Doing("count", Finish)
  <2>1. \/ todo' = First(Op("await", "count"), Finish) /\ Asked("count")' /\ Same
        \/ todo' = First(Op("await", "count"), Finish) /\ Answered("count")' /\ Processed("count")
        \/ todo' = Finish /\ cmds' = <<>> /\ Same /\ Heard("count") /\ Answered("count")
    BY <1>1, <1>3, <1>4, <1>6, DoingStep
  <2>2. phase' = phase /\ task' = task
    BY <2>1 DEF Same, Processed
  <2>3. Heard("count") => rx' = <<>>
    BY DEF Heard
  <2>4. Place'
    <3>1. CASE todo' = Finish /\ cmds' = <<>> /\ Heard("count")
      BY <1>1, <2>2, <2>3, <3>1, Finishes
    <3>2. CASE todo' = First(Op("await", "count"), Finish) /\ (Asked("count")' \/ Answered("count")')
      <4>1. Doing("count", Finish)'
        BY <3>2 DEF Doing
      <4>. QED BY <1>1, <2>2, <4>1 DEF Running, InTask, Place
    <3>. QED BY <2>1, <3>1, <3>2
  <2>5. Beliefs'
    BY <1>1, <1>2, <2>1, Progresses
  <2>. QED BY <2>4, <2>5 DEF Good
<1>. QED BY <1>5, <1>6 DEF Running

LEMMA PausingStep ==
  ASSUME QuietInv, Turn, Pausing
  PROVE  Good'
<1>1. /\ phase = "task" /\ task = "pause" /\ dead = "no" /\ Alive /\ Known /\ ClientInv
      /\ breakpoint \in BOOLEAN /\ lines \in Lines
  BY BeliefsNow DEF QuietInv, Good, Beliefs, Alive, Pausing, InTask, ClientInv, TypeOK, Lines
<1>2. Quiet /\ [Next]_vars /\ ~Side /\ lines' \in Lines /\ "t1" \in Commands /\ "r" \in Commands
  BY DEF Turn, Commands
<1>3. PauseSet \in Seq(Ops) /\ PauseAsked \in Seq(Ops)
  BY PauseTops DEF Top
<1>4. ASSUME dead' = dead, task' = task, phase' = phase, Known' , Pausing' PROVE Good'
  <2>1. StopHolds'
    BY <1>4 DEF StopHolds
  <2>2. Alive' /\ NeedsStop'
    BY <1>1, <1>4 DEF Alive, NeedsStop, Pages
  <2>. QED BY <1>4, <2>1, <2>2, NextBeliefs DEF Good, Beliefs, Place
<1>5. CASE Doing("t1", PauseSet)
  <2>1. \/ todo' = First(Op("await", "t1"), PauseSet) /\ Asked("t1")' /\ Same
        \/ todo' = First(Op("await", "t1"), PauseSet) /\ Answered("t1")' /\ Processed("t1")
        \/ todo' = PauseSet /\ cmds' = <<>> /\ Same /\ Heard("t1") /\ Answered("t1")
    BY <1>1, <1>2, <1>3, <1>5, DoingStep
  <2>2. phase' = phase /\ task' = task /\ dead' = dead
    BY <2>1 DEF Same, Processed
  <2>3. Known'
    BY <1>1, <2>1, BeliefsProcessed, BeliefsStay DEF Same
  <2>4. Heard("t1") => rx' = <<>>
    BY DEF Heard
  <2>5. Answered("t1") /\ Same => ~tgt'.running
    BY DEF Answered, Same
  <2>6. Doing("t1", PauseSet)' \/ (~tgt'.running /\ Ready(PauseSet)')
    BY <2>1, <2>4, <2>5 DEF Doing, Ready, Still
  <2>7. Pausing'
    BY <1>1, <2>2, <2>6 DEF Pausing, InTask
  <2>. QED BY <1>4, <2>2, <2>3, <2>7
<1>6. CASE ~tgt.running /\ Ready(PauseSet)
  <2>1. Top(todo, Op("stopped", ""), Do("r", PauseAsked)) /\ cmds = <<>> /\ rx = <<>>
    BY <1>6, PauseTops DEF Ready, Still
  <2>2. Assign
    BY <1>1, <1>2, <2>1, TopIs
  <2>3. /\ todo' = Do("r", PauseAsked)
        /\ UNCHANGED <<cmds, rx, isXemu, tgt, phase, task, dead, regs, breakpoint>>
    BY <1>1, <2>1, <2>2, AssignDoes
  <2>4. Known'
    BY <1>1, <2>3 DEF Known
  <2>5. Pausing'
    BY <1>1, <1>6, <2>1, <2>3 DEF Pausing, InTask, Doing, Still
  <2>. QED BY <1>4, <2>3, <2>4, <2>5
<1>7. CASE ~tgt.running /\ Doing("r", PauseAsked)
  <2>1. \/ todo' = First(Op("await", "r"), PauseAsked) /\ Asked("r")' /\ Same
        \/ todo' = First(Op("await", "r"), PauseAsked) /\ Answered("r")' /\ Processed("r")
        \/ todo' = PauseAsked /\ cmds' = <<>> /\ Same /\ Heard("r") /\ Answered("r")
    BY <1>1, <1>2, <1>3, <1>7, DoingStep
  <2>2. phase' = phase /\ task' = task /\ dead' = dead
    BY <2>1 DEF Same, Processed
  <2>3. Known'
    BY <1>1, <2>1, BeliefsProcessed, BeliefsStay DEF Same
  <2>4. ~tgt'.running
    BY <1>7, <2>1 DEF Same, Processed
  <2>5. Heard("r") /\ Same => rx' = <<>> /\ RegsIn(lines', tgt'.pc)
    BY <1>7 DEF Heard, Same
  <2>6. RegsIn(lines', tgt'.pc) <=> RegsIn(lines, tgt.pc)'
    BY DEF RegsIn, FirstLine
  <2>7. Doing("r", PauseAsked)' \/ (Ready(PauseAsked)' /\ RegsIn(lines, tgt.pc)')
    BY <2>1, <2>5, <2>6 DEF Doing, Ready, Still
  <2>8. Pausing'
    BY <1>1, <2>2, <2>4, <2>7 DEF Pausing, InTask
  <2>. QED BY <1>4, <2>2, <2>3, <2>8
<1>8. CASE ~tgt.running /\ Ready(PauseAsked) /\ RegsIn(lines, tgt.pc)
  <2>1. Top(todo, Op("regs", "strict"), PauseKnown) /\ cmds = <<>> /\ rx = <<>>
    BY <1>8, PauseTops DEF Ready, Still
  <2>2. UpdateRegs /\ Rest = PauseKnown
    BY <1>1, <1>2, <2>1, TopIs
  <2>3. todo' = PauseKnown /\ regs' = tgt.pc /\ Steady /\ UNCHANGED <<stopped, polled, cache>>
    BY <1>1, <1>8, <2>2, RegsDo
  <2>4. Known'
    BY <1>1, <2>3 DEF Known, Steady
  <2>5. Pausing'
    BY <1>1, <1>8, <2>1, <2>3 DEF Pausing, InTask, Ready, Still, Standing, Steady
  <2>. QED BY <1>4, <2>3, <2>4, <2>5 DEF Steady
<1>9. CASE ~tgt.running /\ Ready(PauseKnown) /\ Standing
  <2>1. Top(todo, Op("forget", ""), Paused) /\ cmds = <<>> /\ rx = <<>>
    BY <1>9, PauseTops DEF Ready, Still
  <2>2. Assign
    BY <1>1, <1>2, <2>1, TopIs
  <2>3. /\ todo' = Paused /\ cache' = Empty
        /\ UNCHANGED <<cmds, rx, isXemu, tgt, phase, task, dead, regs, breakpoint>>
    BY <1>1, <2>1, <2>2, AssignDoes
  <2>4. Known'
    BY <1>1, <2>3 DEF Known
  <2>5. Pausing'
    BY <1>1, <1>9, <2>1, <2>3 DEF Pausing, InTask, Ready, Still, Standing
  <2>. QED BY <1>4, <2>3, <2>4, <2>5
<1>10. CASE ~tgt.running /\ Ready(Paused) /\ Standing
  <2>1. Top(todo, Op("notify", "pause"), Finish) /\ cmds = <<>> /\ rx = <<>>
    BY <1>10, PauseTops DEF Ready, Still
  <2>2. Notify /\ Rest = Finish
    BY <1>1, <1>2, <2>1, TopIs
  <2>3. todo' = Finish /\ Steady /\ UNCHANGED <<stopped, polled, regs, cache>>
    BY <2>2, NotifyDoes
  <2>4. Place'
    BY <1>1, <2>1, <2>3, Finishes DEF Steady
  <2>5. Believed
    BY <1>10 DEF Believed
  <2>6. Beliefs'
    BY <1>1, <2>3, <2>5, Carries DEF Steady, Pages
  <2>. QED BY <2>4, <2>6 DEF Good
<1>. QED BY <1>5, <1>6, <1>7, <1>8, <1>9, <1>10 DEF Pausing


LEMMA ContinuingStep ==
  ASSUME QuietInv, Turn, Continuing
  PROVE  Good'
<1>1. /\ phase = "task" /\ task = "cont" /\ dead = "no" /\ Alive /\ Known /\ ClientInv
      /\ breakpoint \in BOOLEAN
  BY BeliefsNow DEF QuietInv, Good, Beliefs, Alive, Continuing, InTask, ClientInv, TypeOK
<1>2. Quiet /\ [Next]_vars /\ ~Side /\ lines' \in Lines /\ "t0" \in Commands
  BY DEF Turn, Commands
<1>3. Resumed \in Seq(Ops)
  BY TaskTops DEF Top
<1>4. CASE Doing("t0", Resumed)
  <2>1. \/ todo' = First(Op("await", "t0"), Resumed) /\ Asked("t0")' /\ Same
        \/ todo' = First(Op("await", "t0"), Resumed) /\ Answered("t0")' /\ Processed("t0")
        \/ todo' = Resumed /\ cmds' = <<>> /\ Same /\ Heard("t0") /\ Answered("t0")
    BY <1>1, <1>2, <1>3, <1>4, DoingStep
  <2>2. phase' = phase /\ task' = task /\ dead' = dead
    BY <2>1 DEF Same, Processed
  <2>3. Known'
    BY <1>1, <2>1, BeliefsProcessed, BeliefsStay DEF Same
  <2>4. Heard("t0") => rx' = <<>>
    BY DEF Heard
  <2>5. Doing("t0", Resumed)' \/ Ready(Resumed)'
    BY <2>1, <2>4 DEF Doing, Ready, Still
  <2>6. Continuing'
    BY <1>1, <2>2, <2>5 DEF Continuing, InTask
  <2>7. StopHolds'
    BY <2>6 DEF StopHolds
  <2>8. Alive' /\ NeedsStop'
    BY <1>1, <2>2 DEF Alive, NeedsStop, Pages
  <2>. QED BY <2>3, <2>6, <2>7, <2>8, NextBeliefs DEF Good, Beliefs, Place
<1>5. CASE Ready(Resumed)
  <2>1. Top(todo, Op("resumed", ""), Finish) /\ cmds = <<>> /\ rx = <<>>
    BY <1>5, TaskTops DEF Ready, Still
  <2>2. Assign
    BY <1>1, <1>2, <2>1, TopIs
  <2>3. /\ todo' = Finish /\ stopped' = FALSE
        /\ UNCHANGED <<cmds, rx, isXemu, tgt, phase, task, dead, regs, breakpoint>>
    BY <1>1, <2>1, <2>2, AssignDoes
  <2>4. Place'
    BY <1>1, <2>1, <2>3, Finishes
  <2>5. Known' /\ Believed'
    BY <1>1, <2>3 DEF Known, Believed
  <2>6. Alive' /\ NeedsStop'
    BY <1>1, <2>3 DEF Alive, NeedsStop, Pages
  <2>. QED BY <2>4, <2>5, <2>6, NextBeliefs DEF Good, Beliefs
<1>. QED BY <1>4, <1>5 DEF Continuing

LEMMA PromptIn ==
  ASSUME NEW y \in Lines, Dotless(y), NEW r, r = Cat(y, Prompt)
  PROVE  \E i \in DOMAIN r : r[i] = Dot
<1>1. r \in Lines /\ Len(r) >= Len(y) + 1 /\ Len(y) \in Nat /\ r[Len(r)] = Dot
  BY LastPrompt
<1>2. \A q \in Lines, n \in Nat : Len(q) >= n + 1 => Len(q) \in DOMAIN q
  BY DEF Lines
<1>3. Len(r) \in DOMAIN r
  BY <1>1, <1>2
<1>. QED BY <1>1, <1>3

(***************************************************************************)
(* get_lines_until_prompt() on lines that end with the prompt.             *)
(***************************************************************************)
LEMMA ReadsReport ==
  ASSUME Alive, Quiet, [Next]_vars, ~Side, cmds = <<>>,
         NEW s, Top(todo, Op("getlines", ""), s),
         NEW y \in Lines, Dotless(y), rx = Cat(y, Prompt)
  PROVE  /\ todo' = s /\ Same /\ cmds' = <<>> /\ rx' = <<>>
         /\ Len(lines') >= Len(y) /\ \A i \in 1 .. Len(y) : lines'[i] = y[i]
<1>1. At("getlines") /\ Rest = s /\ (GetLines \/ Timeout)
  BY TopIs
<1>2. ~At("readevent")
  BY <1>1 DEF At
<1>3. \E i \in DOMAIN rx : rx[i] = Dot
  BY PromptIn
<1>4. ~Timeout
  <2>1. rx \in Lines
    BY LastPrompt
  <2>. QED BY <1>1, <1>2, <1>3, <2>1, TimesOut
<1>5. GetLines
  BY <1>1, <1>4
<1>6. /\ rx' = <<>> /\ Continue(Rest)
      /\ Len(lines') >= Len(y) /\ \A i \in 1 .. Len(y) : lines'[i] = y[i]
  BY <1>1, <1>5, Listens DEF Quiet
<1>7. UNCHANGED <<isXemu, tgt, stopped, breakpoint, polled, regs, cache, cmds>>
  BY <1>5 DEF GetLines, client
<1>8. todo' = s /\ Same /\ cmds' = <<>>
  BY <1>1, <1>6, <1>7 DEF Continue, Same
<1>. QED BY <1>6, <1>8

LEMMA SteppingStep ==
  ASSUME QuietInv, Turn, Stepping
  PROVE  Good'
<1>1. /\ phase = "task" /\ task = "next" /\ dead = "no" /\ Alive /\ Known /\ ClientInv
      /\ breakpoint \in BOOLEAN /\ lines \in Lines /\ stopped /\ Calm
  BY BeliefsNow DEF QuietInv, Good, Beliefs, Alive, Stepping, InTask, ClientInv, TypeOK, Lines,
                    NeedsStop
<1>2. Quiet /\ [Next]_vars /\ ~Side /\ lines' \in Lines /\ "step" \in Commands
  BY DEF Turn, Commands
<1>3. StepEchoed \in Seq(Ops)
  BY StepTops
<1>4. ASSUME dead' = dead, task' = task, phase' = phase, Known', stopped', Stepping' PROVE Good'
  <2>1. StopHolds'
    BY <1>4 DEF StopHolds
  <2>2. Alive' /\ NeedsStop'
    BY <1>1, <1>4 DEF Alive, NeedsStop, Pages
  <2>. QED BY <1>4, <2>1, <2>2, NextBeliefs DEF Good, Beliefs, Place
<1>5. StepEchoed' = IF isXemu' THEN First(Op("getlines", ""), StepAsked) ELSE StepAsked
  BY DEF StepEchoed
<1>6. isXemu' = isXemu => StepEchoed' = StepEchoed
  BY <1>5 DEF StepEchoed
<1>7. CASE Ready(StepOverAll)
  <2>1. Top(todo, Op("require", "stopped"), Do("step", StepEchoed)) /\ cmds = <<>> /\ rx = <<>>
    BY <1>7, StepTops DEF Ready, Still
  <2>2. Require /\ Rest = Do("step", StepEchoed) /\ Arg = "stopped"
    BY <1>1, <1>2, <2>1, TopIs
  <2>3. /\ todo' = Do("step", StepEchoed) /\ UNCHANGED <<task, phase, dead>>
        /\ UNCHANGED <<cmds, rx, isXemu, tgt, stopped, breakpoint, polled, regs, cache>>
    BY <1>1, <2>2, RequireDoes
  <2>4. StepEchoed' = StepEchoed
    BY <1>6, <2>3
  <2>5. Doing("step", StepEchoed)'
    BY <2>1, <2>3, <2>4 DEF Doing, Still
  <2>6. Known' /\ Calm' /\ stopped'
    BY <1>1, <2>3 DEF Known, Calm
  <2>7. Stepping'
    BY <1>1, <2>3, <2>5, <2>6 DEF Stepping, InTask
  <2>. QED BY <1>4, <2>3, <2>6, <2>7
<1>8. CASE Doing("step", StepEchoed)
  <2>. DEFINE s == StepEchoed
  <2>1. \/ todo' = First(Op("await", "step"), s) /\ Asked("step")' /\ Same
        \/ todo' = First(Op("await", "step"), s) /\ Answered("step")' /\ Processed("step")
        \/ todo' = s /\ cmds' = <<>> /\ Same /\ Heard("step") /\ Answered("step")
    BY <1>1, <1>2, <1>3, <1>8, DoingStep
  <2>2. UNCHANGED <<phase, task, dead, stopped, polled, isXemu>> /\ (tgt'.running <=> tgt.running)
    BY <2>1 DEF Same, Processed
  <2>3. Known'
    <3>1. Processed("step") => Known'
      BY <1>1, BeliefsProcessed
    <3>2. Same => Known'
      BY <1>1, BeliefsStay DEF Same
    <3>. HIDE DEF s
    <3>. QED BY <2>1, <3>1, <3>2
  <2>4. s' = s
    BY <1>6, <2>2
  <2>5. Calm' /\ stopped'
    BY <1>1, <2>2 DEF Calm
  <2>6. CASE todo' = First(Op("await", "step"), s) /\ (Asked("step")' \/ Answered("step")')
    <3>1. Doing("step", StepEchoed)'
      BY <2>4, <2>6 DEF Doing
    <3>2. Stepping'
      BY <1>1, <2>2, <2>5, <3>1 DEF Stepping, InTask
    <3>. QED BY <1>4, <2>2, <2>3, <2>5, <3>2
  <2>7. CASE todo' = s /\ cmds' = <<>> /\ Same /\ Heard("step")
    <3>1. CASE isXemu
      <4>1. PICK pc \in PCs : rx' = Behind(pc) /\ (~tgt.running => pc = tgt.pc)
        BY <2>7, <3>1 DEF Heard
      <4>2. Behind(pc) = <<Blank>> \o RegisterLines(pc) \o Prompt
        BY Zenon DEF Behind, Cat
      <4>3. (<<Blank>> \o RegisterLines(pc) \o Prompt)' = <<Blank>> \o RegisterLines(pc) \o Prompt
        <5>1. Prompt' = Prompt
          BY <2>2 DEF Prompt
        <5>. QED BY <5>1, Zenon
      <4>4. todo' = StepEchoed' /\ isXemu' /\ tgt' = tgt
        BY <2>4, <2>7, <3>1 DEF Same
      <4>. DEFINE g == <<Blank>> \o RegisterLines(pc) \o Prompt
      <4>5. rx' = g' /\ (~tgt'.running => pc = tgt'.pc)
        BY <4>1, <4>2, <4>3, <4>4
      <4>6. Stepping'
        BY <1>1, <2>2, <2>5, <2>7, <4>4, <4>5, Zenon DEF Stepping, InTask
      <4>. QED BY <1>4, <2>2, <2>3, <2>5, <4>6
    <3>2. CASE ~isXemu
      <4>1. PICK pc \in PCs : RegsIn(lines', pc) /\ (~tgt.running => pc = tgt.pc)
        BY <2>7, <3>2 DEF Heard
      <4>2. rx' = <<>>
        BY <2>7, <3>2 DEF Heard
      <4>3. s = StepAsked /\ tgt' = tgt
        BY <2>7, <3>2 DEF StepEchoed, Same
      <4>4. RegsIn(lines', pc) <=> RegsIn(lines, pc)'
        BY DEF RegsIn, FirstLine
      <4>5. Ready(StepAsked)'
        BY <2>7, <4>2, <4>3 DEF Ready, Still
      <4>6. Stepping'
        BY <1>1, <2>2, <2>5, <4>1, <4>3, <4>4, <4>5 DEF Stepping, InTask
      <4>. QED BY <1>4, <2>2, <2>3, <2>5, <4>6
    <3>. QED BY <3>1, <3>2
  <2>. QED BY <2>1, <2>6, <2>7
<1>9. CASE /\ isXemu /\ todo = StepEchoed /\ cmds = <<>>
           /\ \E pc \in PCs : /\ rx = <<Blank>> \o RegisterLines(pc) \o Prompt
                              /\ ~tgt.running => pc = tgt.pc
  <2>1. PICK pc \in PCs : /\ rx = <<Blank>> \o RegisterLines(pc) \o Prompt
                          /\ ~tgt.running => pc = tgt.pc
    BY <1>9
  <2>. DEFINE b == <<Blank>>
              y == Cat(b, RegisterLines(pc))
  <2>2. rx = Cat(y, Prompt)
    BY <2>1, Zenon DEF Cat
  <2>3. /\ y \in Lines /\ Dotless(y) /\ Len(y) = 4
        /\ y[1] = Blank /\ y[2] = Header /\ y[3] = Regs(pc)
    <3>1. b \in Lines /\ Dotless(b) /\ Len(b) = 1 /\ b[1] = Blank
      BY BlankLine, LineTuples
    <3>. HIDE DEF b
    <3>2. /\ y \in Lines /\ Dotless(y) /\ Len(y) = Len(b) + 3
          /\ \A i \in 1 .. Len(b) : y[i] = b[i]
          /\ y[Len(b) + 1] = Header /\ y[Len(b) + 2] = Regs(pc)
      BY <3>1, ThenRegisters, Zenon
    <3>. HIDE DEF y
    <3>. QED BY <3>1, <3>2
  <2>4. Top(todo, Op("getlines", ""), StepAsked)
    BY <1>9, StepTops
  <2>. HIDE DEF y
  <2>5. /\ todo' = StepAsked /\ Same /\ cmds' = <<>> /\ rx' = <<>>
        /\ Len(lines') >= Len(y) /\ \A i \in 1 .. Len(y) : lines'[i] = y[i]
    BY <1>1, <1>2, <1>9, <2>2, <2>3, <2>4, ReadsReport
  <2>6. RegsIn(lines', pc)
    <3>1. lines'[1] = Blank /\ lines'[2] = Header /\ lines'[3] = Regs(pc) /\ Len(lines') >= 4
      BY <2>3, <2>5
    <3>2. \A i \in 1 .. 1 : lines'[i] = Blank
      BY <3>1
    <3>3. lines'[1 + 1] = Header /\ lines'[1 + 2] = Regs(pc) /\ Len(lines') >= 1 + 2
      BY <1>2, <3>1 DEF Lines
    <3>. QED BY <1>2, <3>2, <3>3, RegsBehind
  <2>7. RegsIn(lines', pc) <=> RegsIn(lines, pc)'
    BY DEF RegsIn, FirstLine
  <2>8. UNCHANGED <<phase, task, dead, stopped, polled, tgt>> /\ Known'
    BY <1>1, <2>5, BeliefsStay DEF Same
  <2>9. Ready(StepAsked)' /\ Calm' /\ stopped'
    BY <1>1, <2>5, <2>8 DEF Ready, Still, Calm
  <2>10. Stepping'
    BY <1>1, <2>1, <2>6, <2>7, <2>8, <2>9 DEF Stepping, InTask
  <2>. QED BY <1>4, <2>8, <2>9, <2>10
<1>10. CASE /\ Ready(StepAsked)
            /\ \E pc \in PCs : RegsIn(lines, pc) /\ (~tgt.running => pc = tgt.pc)
  <2>1. PICK pc \in PCs : RegsIn(lines, pc) /\ (~tgt.running => pc = tgt.pc)
    BY <1>10
  <2>2. Top(todo, Op("regs", "retry"), StepKnown) /\ cmds = <<>> /\ rx = <<>>
    BY <1>10, StepTops DEF Ready, Still
  <2>3. UpdateRegs /\ Rest = StepKnown
    BY <1>1, <1>2, <2>2, TopIs
  <2>4. todo' = StepKnown /\ regs' = pc /\ Steady /\ UNCHANGED <<stopped, polled, cache>>
    BY <1>1, <2>1, <2>3, RegsDo
  <2>5. Known' /\ Calm' /\ stopped' /\ Ready(StepKnown)'
    BY <1>1, <2>2, <2>4 DEF Known, Calm, Steady, Ready, Still
  <2>6. polled' \/ Standing'
    BY <1>1, <2>1, <2>4 DEF Calm, Steady, Standing
  <2>7. Stepping'
    BY <1>1, <2>4, <2>5, <2>6 DEF Stepping, InTask, Steady
  <2>. QED BY <1>4, <2>4, <2>5, <2>7 DEF Steady
<1>11. CASE Ready(StepKnown) /\ (polled \/ Standing)
  <2>1. Top(todo, Op("forget", ""), Stepped) /\ cmds = <<>> /\ rx = <<>>
    BY <1>11, StepTops DEF Ready, Still
  <2>2. Assign
    BY <1>1, <1>2, <2>1, TopIs
  <2>3. /\ todo' = Stepped /\ cache' = Empty /\ UNCHANGED <<stopped, polled>>
        /\ UNCHANGED <<cmds, rx, isXemu, tgt, phase, task, dead, regs, breakpoint>>
    BY <1>1, <2>1, <2>2, AssignDoes
  <2>4. Known' /\ Calm' /\ stopped' /\ Ready(Stepped)' /\ (polled' \/ Standing')
    BY <1>1, <1>11, <2>1, <2>3 DEF Known, Calm, Standing, Ready, Still
  <2>5. Stepping'
    BY <1>1, <2>3, <2>4 DEF Stepping, InTask
  <2>. QED BY <1>4, <2>3, <2>4, <2>5
<1>12. CASE Ready(Stepped) /\ (polled \/ Standing)
  <2>1. Top(todo, Op("notify", "step"), Finish) /\ cmds = <<>> /\ rx = <<>>
    BY <1>12, StepTops DEF Ready, Still
  <2>2. Notify /\ Rest = Finish
    BY <1>1, <1>2, <2>1, TopIs
  <2>3. todo' = Finish /\ Steady /\ UNCHANGED <<stopped, polled, regs, cache>>
    BY <2>2, NotifyDoes
  <2>4. Place'
    BY <1>1, <2>1, <2>3, Finishes DEF Steady
  <2>5. Believed
    BY <1>12 DEF Believed
  <2>6. Beliefs'
    BY <1>1, <2>3, <2>5, Carries DEF Steady
  <2>. QED BY <2>4, <2>6 DEF Good
<1>. QED BY <1>7, <1>8, <1>9, <1>10, <1>11, <1>12 DEF Stepping

LEMMA SettingStep ==
  ASSUME QuietInv, Turn, Setting
  PROVE  Good'
<1>1. /\ phase = "task" /\ task = "setbp" /\ dead = "no" /\ Alive /\ Believed /\ ClientInv
      /\ breakpoint \in BOOLEAN
  BY BeliefsNow DEF QuietInv, Good, Beliefs, Alive, Setting, InTask, ClientInv, TypeOK
<1>2. Quiet /\ [Next]_vars /\ ~Side /\ lines' \in Lines /\ "b" \in Commands
  BY DEF Turn, Commands
<1>3. BpKnown \in Seq(Ops)
  BY TaskTops DEF Top
<1>4. "setbp" \notin {"next"} \cup Pages /\ "none" \notin {"next"} \cup Pages
  BY DEF Pages
<1>5. ASSUME dead' = dead, task' = task, Believed', Setting' PROVE Good'
  <2>1. ArmedIsKnown' /\ Alive' /\ NeedsStop'
    BY <1>1, <1>4, <1>5 DEF ArmedIsKnown, Alive, NeedsStop
  <2>. QED BY <1>5, <2>1, NextBeliefs DEF Good, Beliefs, Place
<1>6. CASE Ready(BpAll) /\ (tgt.armed => breakpoint)
  <2>1. Top(todo, Op("require", "symbols"), Do("b", BpKnown)) /\ cmds = <<>> /\ rx = <<>>
    BY <1>6, TaskTops DEF Ready, Still
  <2>2. Require /\ Rest = Do("b", BpKnown) /\ Arg = "symbols"
    BY <1>1, <1>2, <2>1, TopIs
  <2>3. /\ \/ todo' = Do("b", BpKnown) /\ UNCHANGED <<task, phase, dead>>
           \/ Throw
        /\ UNCHANGED <<cmds, rx, isXemu, tgt, stopped, breakpoint, polled, regs, cache>>
    BY <2>2, RequireDoes
  <2>4. CASE todo' = Do("b", BpKnown) /\ UNCHANGED <<task, phase, dead>>
    <3>1. Doing("b", BpKnown)'
      BY <2>1, <2>3, <2>4 DEF Doing, Still
    <3>2. Setting'
      BY <1>1, <2>4, <3>1 DEF Setting, InTask
    <3>. QED BY <1>1, <1>5, <2>3, <2>4, <3>2, BeliefsStay
  <2>5. CASE Throw
    <3>1. todo' = <<>> /\ task' = "none" /\ phase' = "events" /\ dead' = dead
      BY <1>1, <2>5, LaunchFails
    <3>2. Place'
      BY <2>1, <2>3, <3>1, Arrives
    <3>3. Known
      BY <1>6 DEF Known
    <3>4. Beliefs'
      BY <1>1, <1>4, <2>3, <3>1, <3>3, Carries
    <3>. QED BY <3>2, <3>4 DEF Good
  <2>. QED BY <2>3, <2>4, <2>5
<1>7. CASE Doing("b", BpKnown)
  <2>1. \/ todo' = First(Op("await", "b"), BpKnown) /\ Asked("b")' /\ Same
        \/ todo' = First(Op("await", "b"), BpKnown) /\ Answered("b")' /\ Processed("b")
        \/ todo' = BpKnown /\ cmds' = <<>> /\ Same /\ Heard("b") /\ Answered("b")
    BY <1>1, <1>2, <1>3, <1>7, DoingStep
  <2>2. phase' = phase /\ task' = task /\ dead' = dead
    BY <2>1 DEF Same, Processed
  <2>3. Believed'
    BY <1>1, <2>1, BeliefsProcessed, BeliefsStay DEF Same
  <2>4. Heard("b") => rx' = <<>>
    BY DEF Heard
  <2>5. Doing("b", BpKnown)' \/ Ready(BpKnown)'
    BY <2>1, <2>4 DEF Doing, Ready, Still
  <2>6. Setting'
    BY <1>1, <2>2, <2>5 DEF Setting, InTask
  <2>. QED BY <1>5, <2>2, <2>3, <2>6
<1>8. CASE Ready(BpKnown)
  <2>1. Top(todo, Op("bpset", ""), Finish) /\ cmds = <<>> /\ rx = <<>>
    BY <1>8, TaskTops DEF Ready, Still
  <2>2. Assign
    BY <1>1, <1>2, <2>1, TopIs
  <2>3. /\ todo' = Finish /\ breakpoint' = TRUE /\ UNCHANGED <<stopped, polled>>
        /\ UNCHANGED <<cmds, rx, isXemu, tgt, phase, task, dead, regs>>
    BY <1>1, <2>1, <2>2, AssignDoes
  <2>4. Place'
    BY <1>1, <2>1, <2>3, Finishes
  <2>5. Known' /\ Believed'
    BY <1>1, <2>3 DEF Known, Believed, Standing
  <2>6. Alive' /\ NeedsStop'
    BY <1>1, <1>4, <2>3 DEF Alive, NeedsStop
  <2>. QED BY <2>4, <2>5, <2>6, NextBeliefs DEF Good, Beliefs
<1>. QED BY <1>6, <1>7, <1>8 DEF Setting

LEMMA EvaluateDoes ==
  ASSUME Evaluate, NEW p \in Pages, Top(todo, Op("evaluate", p), Finish), todo = Evaluated(p)
  PROVE  /\ todo' = Do(p, Fetched(p)) \/ todo' = Finish
         /\ Steady /\ UNCHANGED <<stopped, polled, regs, cache, lines>>
<1>1. Arg = p /\ Rest = Finish
  BY OpFields DEF Top, Arg, Rest
<1>2. Fetch(p) \o todo = Do(p, Fetched(p))
  <2>1. Evaluated(p) \in Seq(Ops)
    BY TaskTops DEF Top
  <2>. QED BY <2>1, FetchCat DEF Fetched
<1>3. /\ \/ Continue(Fetch(p) \o todo)
         \/ todo' = Finish /\ UNCHANGED <<task, phase, dead>>
      /\ UNCHANGED <<target, lines, stopped, breakpoint, dbg, regs, cache, shown, leaving,
                     polled, client>>
  BY <1>1, Zenon DEF Evaluate
<1>4. (todo' = Do(p, Fetched(p)) \/ todo' = Finish) /\ UNCHANGED <<task, phase, dead>>
  BY <1>2, <1>3 DEF Continue
<1>. QED BY <1>3, <1>4 DEF Steady, target, client

LEMMA EvaluatingStep ==
  ASSUME QuietInv, Turn, NEW p \in Pages, Evaluating(p)
  PROVE  Good'
<1>1. /\ phase = "task" /\ task = p /\ dead = "no" /\ Alive /\ Believed /\ Known /\ ClientInv
      /\ breakpoint \in BOOLEAN /\ lines \in Lines /\ stopped
  <2>1. p \notin {"pause", "cont", "next", "setbp"}
    BY DEF Pages
  <2>. QED BY <2>1, BeliefsNow DEF QuietInv, Good, Beliefs, Alive, Evaluating, InTask, ClientInv,
                                   TypeOK, Lines, NeedsStop
<1>2. Quiet /\ [Next]_vars /\ ~Side /\ lines' \in Lines /\ p \in Commands
  BY DEF Turn, Commands
<1>3. Fetched(p) \in Seq(Ops)
  BY TaskTops DEF Top
<1>4. ASSUME UNCHANGED <<dead, task, phase, tgt, stopped, polled, breakpoint, regs>>, Evaluating(p)'
      PROVE  Good'
  <2>1. Beliefs'
    BY <1>1, <1>4, Carries
  <2>. QED BY <1>4, <2>1 DEF Good, Place
<1>5. CASE Ready(EvalAll(p))
  <2>1. Top(todo, Op("require", "stopped"), Evaluated(p)) /\ cmds = <<>> /\ rx = <<>>
    BY <1>5, TaskTops DEF Ready, Still
  <2>2. Require /\ Rest = Evaluated(p) /\ Arg = "stopped"
    BY <1>1, <1>2, <2>1, TopIs
  <2>3. /\ todo' = Evaluated(p) /\ UNCHANGED <<task, phase, dead>>
        /\ UNCHANGED <<cmds, rx, isXemu, tgt, stopped, breakpoint, polled, regs, cache>>
    BY <1>1, <2>2, RequireDoes
  <2>4. Evaluating(p)'
    BY <1>1, <2>1, <2>3 DEF Evaluating, InTask, Ready, Still
  <2>. QED BY <1>4, <2>3, <2>4
<1>6. CASE Ready(Evaluated(p))
  <2>1. Top(todo, Op("evaluate", p), Finish) /\ cmds = <<>> /\ rx = <<>>
    BY <1>6, TaskTops DEF Ready, Still
  <2>2. Evaluate
    BY <1>1, <1>2, <2>1, TopIs
  <2>3. /\ todo' = Do(p, Fetched(p)) \/ todo' = Finish
        /\ Steady /\ UNCHANGED <<stopped, polled, regs, cache, lines>>
    BY <1>6, <2>1, <2>2, EvaluateDoes DEF Ready
  <2>4. CASE todo' = Do(p, Fetched(p))
    <3>1. Doing(p, Fetched(p))'
      BY <2>1, <2>3, <2>4 DEF Doing, Still, Steady
    <3>2. Evaluating(p)'
      BY <1>1, <2>3, <3>1 DEF Evaluating, InTask, Steady
    <3>. QED BY <1>4, <2>3, <3>2 DEF Steady
  <2>5. CASE todo' = Finish
    <3>1. Place'
      BY <1>1, <2>1, <2>3, <2>5, Finishes DEF Steady, Pages
    <3>2. Beliefs'
      BY <1>1, <2>3, Carries DEF Steady
    <3>. QED BY <3>1, <3>2 DEF Good
  <2>. QED BY <2>3, <2>4, <2>5
<1>7. CASE Doing(p, Fetched(p))
  <2>1. \/ todo' = First(Op("await", p), Fetched(p)) /\ Asked(p)' /\ Same
        \/ todo' = First(Op("await", p), Fetched(p)) /\ Answered(p)' /\ Processed(p)
        \/ todo' = Fetched(p) /\ cmds' = <<>> /\ Same /\ Heard(p) /\ Answered(p)
    BY <1>1, <1>2, <1>3, <1>7, DoingStep
  <2>2. phase' = phase /\ task' = task
    BY <2>1 DEF Same, Processed
  <2>3. Heard(p) => rx' = <<>> /\ MemIn(lines')
    BY DEF Heard, Pages
  <2>4. MemIn(lines') <=> MemIn(lines)'
    BY DEF MemIn, FirstLine
  <2>5. Doing(p, Fetched(p))' \/ (Ready(Fetched(p))' /\ MemIn(lines)')
    BY <2>1, <2>3, <2>4 DEF Doing, Ready, Still
  <2>6. Evaluating(p)'
    BY <1>1, <2>2, <2>5 DEF Evaluating, InTask
  <2>7. p \notin {"t0", "!", "step", "b"}
    BY DEF Pages
  <2>8. Beliefs'
    BY <1>1, <2>1, <2>7, Progresses
  <2>. QED BY <2>6, <2>8 DEF Good, Place
<1>8. CASE Ready(Fetched(p)) /\ MemIn(lines)
  <2>1. Top(todo, Op("fill", p), Evaluated(p)) /\ cmds = <<>> /\ rx = <<>>
    BY <1>8, TaskTops DEF Ready, Still
  <2>2. Fill /\ Rest = Evaluated(p)
    BY <1>1, <1>2, <2>1, TopIs
  <2>3. todo' = Evaluated(p) /\ Steady /\ UNCHANGED <<stopped, polled, regs>>
    BY <1>1, <1>8, <2>2, FillDoes
  <2>4. Evaluating(p)'
    BY <1>1, <2>1, <2>3 DEF Evaluating, InTask, Ready, Still, Steady
  <2>. QED BY <1>4, <2>3, <2>4 DEF Steady
<1>. QED BY <1>5, <1>6, <1>7, <1>8 DEF Evaluating

(***************************************************************************)
(* Where the debugger may believe in a stop that is not over or not there  *)
(* yet, it is in the middle of something.                                  *)
(***************************************************************************)
Midway == todo # <<>> /\ Head(todo).do # "return"

LEMMA TopMidway ==
  ASSUME NEW d, NEW a, NEW s, Top(todo, Op(d, a), s), d # "return"
  PROVE  Midway
BY OpFields DEF Top, Midway

LEMMA DoingMidway ==
  ASSUME NEW c \in Commands, NEW s \in Seq(Ops), Doing(c, s)
  PROVE  Midway
<1>1. Top(todo, Op("send", c), First(Op("await", c), s)) \/ Top(todo, Op("await", c), s)
  BY DoTop DEF Doing
<1>. QED BY <1>1, TopMidway

LEMMA ActiveMidway == Pausing \/ Continuing \/ Stepping \/ Setting => Midway
<1>1. {"t1", "r", "t0", "step", "b"} \subseteq Commands
  BY DEF Commands
<1>2. ASSUME Pausing PROVE Midway
  <2>1. PauseSet \in Seq(Ops) /\ PauseAsked \in Seq(Ops)
    BY PauseTops DEF Top
  <2>2. Doing("t1", PauseSet) \/ Doing("r", PauseAsked) => Midway
    BY <1>1, <2>1, DoingMidway
  <2>3. todo \in {PauseSet, PauseAsked, PauseKnown, Paused} => Midway
    BY PauseTops, TopMidway
  <2>. QED BY <1>2, <2>2, <2>3 DEF Pausing, Ready
<1>3. ASSUME Continuing PROVE Midway
  <2>1. Resumed \in Seq(Ops)
    BY TaskTops DEF Top
  <2>2. Doing("t0", Resumed) => Midway
    BY <1>1, <2>1, DoingMidway
  <2>3. todo = Resumed => Midway
    BY TaskTops, TopMidway
  <2>. QED BY <1>3, <2>2, <2>3 DEF Continuing, Ready
<1>4. ASSUME Stepping PROVE Midway
  <2>1. StepEchoed \in Seq(Ops)
    BY StepTops
  <2>2. Doing("step", StepEchoed) => Midway
    BY <1>1, <2>1, DoingMidway
  <2>3. todo \in {StepOverAll, StepAsked, StepKnown, Stepped} => Midway
    BY StepTops, TopMidway
  <2>4. isXemu /\ todo = StepEchoed => Midway
    BY StepTops, TopMidway
  <2>. QED BY <1>4, <2>2, <2>3, <2>4 DEF Stepping, Ready
<1>5. ASSUME Setting PROVE Midway
  <2>1. BpKnown \in Seq(Ops)
    BY TaskTops DEF Top
  <2>2. Doing("b", BpKnown) => Midway
    BY <1>1, <2>1, DoingMidway
  <2>3. todo \in {BpAll, BpKnown} => Midway
    BY TaskTops, TopMidway
  <2>. QED BY <1>5, <2>2, <2>3 DEF Setting, Ready
<1>. QED BY <1>2, <1>3, <1>4, <1>5

LEMMA NotMidway ==
  ASSUME StopHolds, ArmedIsKnown, ~Midway
  PROVE  (phase \in {"task", "events", "poll"} => Believed) /\ Known
BY ActiveMidway DEF StopHolds, ArmedIsKnown, Believed, Known

LEMMA FinishingStep ==
  ASSUME QuietInv, Turn, Finishing
  PROVE  Good'
<1>1. phase = "task" /\ dead = "no" /\ Alive
  BY DEF QuietInv, Good, Beliefs, Alive, Finishing
<1>2. Top(todo, Op("return", ""), <<>>) /\ cmds = <<>> /\ rx = <<>>
  BY FinishTop DEF Finishing, Ready, Still
<1>3. Quiet /\ [Next]_vars /\ ~Side
  BY DEF Turn
<1>4. Return /\ Rest = <<>>
  BY <1>1, <1>2, <1>3, TopIs
<1>5. /\ todo' = <<>> /\ task' = "none" /\ phase' = "events"
      /\ UNCHANGED <<cmds, rx, isXemu, tgt, dead, stopped, breakpoint, polled, regs, cache>>
  BY <1>4, ReturnDoes
<1>6. ~Midway
  BY <1>1, <1>2, AtTop DEF Midway
<1>7. Believed /\ Known
  BY <1>1, <1>6, NotMidway DEF QuietInv, Good, Beliefs
<1>8. Place'
  BY <1>2, <1>5, Arrives
<1>9. Beliefs'
  BY <1>1, <1>5, <1>7, Carries DEF Pages
<1>. QED BY <1>8, <1>9 DEF Good

LEMMA LeavingStep ==
  ASSUME QuietInv, Turn, Leaving
  PROVE  Good'
<1>1. /\ phase = "reset" /\ todo = <<>> /\ dead = "no" /\ Alive /\ Known /\ NeedsStop
      /\ ClientInv /\ (Asked("!") \/ Answered("!"))
  BY BeliefsNow DEF QuietInv, Good, Beliefs, Alive, Leaving
<1>2. Quiet /\ [Next]_vars /\ ~Side /\ "!" \in Commands
  BY DEF Turn, Commands
<1>3. Process \/ ResetTarget
  <2>1. ~Hit
    BY <1>1, <1>2 DEF Hit, Quiet
  <2>2. ~TakeTask /\ ~NoTask /\ ~NoEvent /\ ~DoEvent /\ ~NoPoll /\ ~Poll /\ ~Joined
    BY <1>1 DEF TakeTask, NoTask, NoEvent, DoEvent, NoPoll, Poll, Joined, Idle
  <2>. QED BY <1>1, <1>2, <2>1, <2>2, IdleDispatch
<1>4. CASE Process
  <2>1. Asked("!")
    BY <1>1, <1>4 DEF Process, Answered
  <2>2. Answered("!")' /\ Processed("!")
    BY <1>1, <1>2, <1>4, <2>1, Answers DEF ClientInv
  <2>3. Leaving'
    BY <1>1, <2>2 DEF Leaving, Processed
  <2>4. StopHolds' /\ ArmedIsKnown'
    <3>1. Known'
      BY <1>1, <1>2, <2>2, BeliefsProcessed
    <3>2. phase' = "reset"
      BY <1>1, <2>2 DEF Processed
    <3>. QED BY <3>1, <3>2, NextBeliefs
  <2>5. Alive' /\ NeedsStop'
    BY <1>1, <2>2 DEF Alive, NeedsStop, Processed
  <2>. QED BY <2>3, <2>4, <2>5 DEF Good, Beliefs, Place
<1>5. CASE ResetTarget
  <2>1. Answered("!")
    BY <1>1, <1>2, <1>5 DEF ResetTarget, Asked, Quiet
  <2>2. PICK pc \in PCs : rx = Reply("!", pc)
    BY <2>1 DEF Answered
  <2>3. PICK y \in Lines : /\ Reply("!", pc) = Cat(y, Prompt) /\ Dotless(y)
                           /\ Len(y) \in Nat /\ Len(y) >= 1 /\ y[1] = Echo("!")
    BY <1>2, ReplyBegins
  <2>4. /\ rx \in Lines /\ Len(rx) >= Len(y) + 1 /\ Len(rx) \in Nat
        /\ \A i \in 1 .. Len(y) : rx[i] = y[i]
    BY <2>2, <2>3, LastPrompt
  <2>5. rx[1] = Echo("!")
    BY <2>3, <2>4
  <2>6. Head(rx) = Echo("!")
    BY <2>4, <2>5 DEF Lines
  <2>7. rx' = <<>> /\ phase' = "closed" /\ dead' = dead
    BY <1>2, <1>5, <2>6 DEF ResetTarget, Quiet
  <2>8. UNCHANGED <<tgt, cmds, todo, task, stopped, breakpoint>>
    BY <1>5 DEF ResetTarget
  <2>9. Between'
    BY <1>1, <2>1, <2>7, <2>8 DEF Between, Ready, Still, Answered
  <2>10. StopHolds' /\ ArmedIsKnown'
    BY <1>1, <2>7, <2>8, NextBeliefs DEF Known
  <2>11. Alive' /\ NeedsStop'
    BY <1>1, <2>7, <2>8 DEF Alive, NeedsStop
  <2>. QED BY <2>9, <2>10, <2>11 DEF Good, Beliefs, Place
<1>. QED BY <1>3, <1>4, <1>5

LEMMA TaskBegins ==
  ASSUME phase = "task", todo = <<>>, Still, Believed, Known, NeedsStop,
         task \in Requests \cup {"launch"}, TakeTask
  PROVE  Place' /\ UNCHANGED <<tgt, stopped, polled, breakpoint, regs, dead, task>>
<1>1. /\ todo' = Script(task) \o Finish
      /\ UNCHANGED <<isXemu, tgt, cmds, rx, phase, task, stopped, polled, breakpoint, regs, dead>>
  BY DEF TakeTask, Unchanged, Finish, target, client
<1>2. phase' = "task" /\ task' = task /\ Still'
  BY <1>1 DEF Still
<1>3. ASSUME task = "launch" PROVE Launching'
  <2>1. todo' = Load
    BY <1>1, <1>3, Scripts
  <2>. QED BY <1>2, <1>3, <2>1 DEF Launching, InTask, Ready
<1>4. ASSUME task = "run" PROVE Running'
  <2>1. todo' = Do("keys", Do("count", Finish))
    BY <1>1, <1>4, Scripts DEF Run
  <2>. QED BY <1>2, <1>4, <2>1 DEF Running, InTask, Doing
<1>5. ASSUME task = "pause" PROVE Pausing'
  <2>1. todo' = Do("t1", PauseSet)
    BY <1>1, <1>5, Scripts
  <2>. QED BY <1>2, <1>5, <2>1 DEF Pausing, InTask, Doing
<1>6. ASSUME task = "cont" PROVE Continuing'
  <2>1. todo' = Do("t0", Resumed)
    BY <1>1, <1>6, Scripts
  <2>. QED BY <1>2, <1>6, <2>1 DEF Continuing, InTask, Doing
<1>7. ASSUME task = "next" PROVE Stepping'
  <2>1. todo' = StepOverAll
    BY <1>1, <1>7, Scripts
  <2>2. StepOverAll' = StepOverAll
    BY <1>1 DEF StepOverAll, StepEchoed
  <2>3. Calm
    BY <1>7 DEF NeedsStop, Believed, Standing, Calm
  <2>4. Calm'
    BY <1>1, <2>3 DEF Calm
  <2>. QED BY <1>2, <1>7, <2>1, <2>2, <2>4 DEF Stepping, InTask, Ready
<1>8. ASSUME task = "setbp" PROVE Setting'
  <2>1. todo' = BpAll
    BY <1>1, <1>8, Scripts
  <2>. QED BY <1>1, <1>2, <1>8, <2>1 DEF Setting, InTask, Ready, Known
<1>9. ASSUME NEW p \in Pages, task = p PROVE Evaluating(p)'
  <2>1. todo' = EvalAll(p)
    BY <1>1, <1>9, Scripts
  <2>. QED BY <1>2, <1>9, <2>1 DEF Evaluating, InTask, Ready
<1>10. \/ task \in {"launch", "run", "pause", "cont", "next", "setbp"}
       \/ \E p \in Pages : task = p
  BY DEF Requests
<1>11. Place'
  <2>1. CASE task \in {"launch", "run", "pause", "cont", "next", "setbp"}
    BY <2>1, <1>3, <1>4, <1>5, <1>6, <1>7, <1>8 DEF Place
  <2>2. CASE \E p \in Pages : task = p
    BY <2>2, <1>9 DEF Place
  <2>. QED BY <1>10, <2>1, <2>2
<1>. QED BY <1>1, <1>11

LEMMA BetweenStep ==
  ASSUME QuietInv, Turn, Between
  PROVE  Good'
<1>1. /\ phase \in {"task", "exited", "closed"} /\ todo = <<>> /\ cmds = <<>> /\ rx = <<>>
      /\ Still /\ dead = "no" /\ Alive /\ NeedsStop /\ task \in Requests \cup {"launch", "none"}
  BY DEF QuietInv, Good, Beliefs, Alive, Between, Ready, Still, ClientInv, TypeOK
<1>2. Known /\ (phase = "task" => Believed)
  <2>1. ~Midway
    BY <1>1 DEF Midway
  <2>. QED BY <2>1, NotMidway DEF QuietInv, Good, Beliefs
<1>3. Quiet /\ [Next]_vars /\ ~Side
  BY DEF Turn
<1>4. TakeTask \/ NoTask \/ Joined
  <2>1. ~Hit /\ ~Process
    BY <1>1, <1>3 DEF Hit, Quiet, Process
  <2>2. ~NoEvent /\ ~DoEvent /\ ~NoPoll /\ ~Poll /\ ~ResetTarget
    BY <1>1 DEF NoEvent, DoEvent, NoPoll, Poll, ResetTarget, Idle
  <2>. QED BY <1>1, <1>3, <2>1, <2>2, IdleDispatch
<1>5. CASE TakeTask
  <2>1. phase = "task" /\ task # "none"
    BY <1>5 DEF TakeTask, Idle
  <2>2. Place' /\ UNCHANGED <<tgt, stopped, polled, breakpoint, regs, dead, task>>
    BY <1>1, <1>2, <1>5, <2>1, TaskBegins
  <2>3. Beliefs'
    BY <1>1, <1>2, <2>1, <2>2, Carries DEF NeedsStop
  <2>. QED BY <2>2, <2>3 DEF Good
<1>6. CASE NoTask
  <2>1. /\ phase = "task" /\ phase' = "events"
        /\ UNCHANGED <<todo, cmds, rx, tgt, stopped, polled, breakpoint, regs, dead, task>>
    BY <1>6 DEF NoTask, Idle, Unchanged, target
  <2>2. Place'
    BY <1>1, <2>1, Arrives
  <2>3. Beliefs'
    BY <1>1, <1>2, <2>1, Carries DEF NeedsStop
  <2>. QED BY <2>2, <2>3 DEF Good
<1>7. CASE Joined
  <2>1. UNCHANGED <<tgt, rx, todo, task, stopped, breakpoint, dead>>
    BY <1>7 DEF Joined
  <2>2. \/ phase' = "reset" /\ cmds' = Append(cmds, "!")
        \/ phase' = "closed" /\ cmds' = cmds
    BY <1>7 DEF Joined
  <2>3. Append(<<>>, "!") = <<"!">>
    OBVIOUS
  <2>4. Leaving' \/ Between'
    BY <1>1, <2>1, <2>2, <2>3 DEF Leaving, Between, Asked, Ready, Still
  <2>5. StopHolds' /\ ArmedIsKnown'
    BY <1>2, <2>1, <2>2, NextBeliefs DEF Known
  <2>6. Alive' /\ NeedsStop'
    BY <1>1, <2>1 DEF Alive, NeedsStop
  <2>. QED BY <2>4, <2>5, <2>6 DEF Good, Beliefs, Place
<1>. QED BY <1>4, <1>5, <1>6, <1>7

(***************************************************************************)
(* is_breakpoint_trigger_valid(): the instruction is fetched, and then the *)
(* target is resumed or the stop told.                                     *)
(***************************************************************************)
LEMMA VerdictDoes ==
  ASSUME Alive, Verdict, NEW a \in {"event", "poll"}, NEW s \in Seq(Ops), NEW all,
         all = First(Op("verdict", a), s), todo = all, Top(all, Op("verdict", a), s)
  PROVE  /\ Steady /\ regs' = regs
         /\ \/ /\ todo' = Do("code", First(Op("fill", "code"), all))
               /\ UNCHANGED <<stopped, polled>>
            \/ /\ todo' = IF a = "event" THEN Do("t0", s) ELSE s
               /\ UNCHANGED <<stopped, polled>>
            \/ /\ todo' = First(Op("notify", "breakpoint"), s) /\ stopped' = TRUE
               /\ a = "poll" => polled'
               /\ a = "event" => ~polled' /\ cache' = Empty
<1>1. Arg = a /\ Rest = s
  BY AtTop
<1>2. Fetch("code") \o todo = Do("code", First(Op("fill", "code"), all))
  <2>1. all \in Seq(Ops) /\ "code" \in Pages
    BY DEF Top, Pages
  <2>. QED BY <2>1, FetchCat
<1>3. (IF a = "event" THEN Execute("t0") ELSE <<>>) \o s = IF a = "event" THEN Do("t0", s) ELSE s
  <2>1. Execute("t0") \o s = Do("t0", s)
    <3>1. Cat(Execute("t0"), s) = Do("t0", s)
      BY ExecuteCat DEF Commands
    <3>. QED BY <3>1, Zenon DEF Cat
  <2>2. <<>> \o s = s
    BY ConcatEmptySeq
  <2>3. CASE a = "event"
    BY <2>1, <2>3, Zenon
  <2>4. CASE a # "event"
    BY <2>2, <2>4, Zenon
  <2>. QED BY <2>3, <2>4
<1>. DEFINE dropped == (IF a = "event" THEN Execute("t0") ELSE <<>>) \o s
            told == <<Op("notify", "breakpoint")>> \o s
            fetching == Fetch("code") \o todo
<1>4. \/ Continue(fetching) /\ UNCHANGED <<stopped, cache, polled>>
      \/ Continue(dropped) /\ UNCHANGED <<stopped, cache, polled>>
      \/ /\ cache' = IF a = "event" THEN Empty ELSE cache
         /\ stopped' = TRUE /\ polled' = (a = "poll")
         /\ Continue(told)
  BY <1>1, Zenon DEF Verdict
<1>5. told = First(Op("notify", "breakpoint"), s)
  BY Zenon DEF First
<1>6. UNCHANGED <<cmds, rx, isXemu, tgt, breakpoint, regs>>
  BY DEF Verdict, target, client
<1>. HIDE DEF dropped, told, fetching
<1>7. UNCHANGED <<task, phase, dead>> /\ todo' \in {fetching, dropped, told}
  BY <1>4 DEF Continue
<1>8. Steady /\ regs' = regs
  BY <1>6, <1>7 DEF Steady
<1>9. CASE Continue(fetching) /\ UNCHANGED <<stopped, cache, polled>>
  <2>1. todo' = Do("code", First(Op("fill", "code"), all))
    BY <1>2, <1>9 DEF Continue, fetching
  <2>. QED BY <1>8, <1>9, <2>1
<1>10. CASE Continue(dropped) /\ UNCHANGED <<stopped, cache, polled>>
  <2>1. todo' = IF a = "event" THEN Do("t0", s) ELSE s
    BY <1>3, <1>10 DEF Continue, dropped
  <2>. QED BY <1>8, <1>10, <2>1
<1>11. CASE /\ cache' = IF a = "event" THEN Empty ELSE cache
            /\ stopped' = TRUE /\ polled' = (a = "poll")
            /\ Continue(told)
  <2>1. todo' = First(Op("notify", "breakpoint"), s)
    BY <1>5, <1>11 DEF Continue
  <2>2. (a = "poll" => polled') /\ (a = "event" => ~polled')
    <3>1. a = "poll" => polled'
      BY <1>11, Zenon
    <3>2. a = "event" => ~polled'
      <4>1. "event" # "poll"
        OBVIOUS
      <4>. QED BY <1>11, <4>1, Zenon
    <3>. QED BY <3>1, <3>2
  <2>3. a = "event" => cache' = Empty
    BY <1>11
  <2>. QED BY <1>8, <1>11, <2>1, <2>2, <2>3
<1>. QED BY <1>4, <1>9, <1>10, <1>11

LEMMA LoopTurnsOver ==
  ASSUME LoopEnd, todo' = <<>>, cmds = <<>>, rx = <<>>, UNCHANGED <<cmds, rx>>
  PROVE  Place'
<1>1. phase' \in {"task", "exited"}
  BY DEF LoopEnd
<1>2. Between'
  BY <1>1 DEF Between, Ready, Still
<1>. QED BY <1>2 DEF Place

LEMMA PollingStep ==
  ASSUME QuietInv, Turn, Polling
  PROVE  Good'
<1>1. /\ phase = "poll" /\ dead = "no" /\ Alive /\ Believed /\ Known /\ ClientInv
      /\ breakpoint \in BOOLEAN /\ stopped \in BOOLEAN /\ lines \in Lines /\ NeedsStop
  BY BeliefsNow DEF QuietInv, Good, Beliefs, Alive, Polling, ClientInv, TypeOK, Lines
<1>2. Quiet /\ [Next]_vars /\ ~Side /\ lines' \in Lines /\ "r" \in Commands /\ "code" \in Commands
  BY DEF Turn, Commands, Pages
<1>3. PollAsked \in Seq(Ops) /\ PollFetched \in Seq(Ops) /\ PollOver \in Seq(Ops)
  BY PollTops, FinishTop DEF Top
<1>4. ASSUME UNCHANGED <<dead, task, tgt, stopped, polled, breakpoint, regs>> PROVE Beliefs'
  BY <1>1, <1>4, Carries DEF NeedsStop
<1>5. ASSUME UNCHANGED <<dead, task, tgt, breakpoint>>, stopped' = stopped, ~stopped PROVE Beliefs'
  <2>1. Believed' /\ Known' /\ Alive' /\ NeedsStop'
    BY <1>1, <1>5 DEF Believed, Known, Alive, NeedsStop
  <2>. QED BY <2>1, NextBeliefs DEF Beliefs
<1>6. ASSUME NEW c \in {"r", "code"}, Same \/ Processed(c) PROVE Beliefs'
  BY <1>1, <1>6, Progresses DEF NeedsStop
<1>7. Polling' => Place'
  BY DEF Place
<1>8. CASE Ready(<<>>)
  <2>1. todo = <<>> /\ cmds = <<>> /\ rx = <<>>
    BY <1>8 DEF Ready, Still
  <2>2. NoPoll \/ Poll
    <3>1. ~Hit /\ ~Process
      BY <1>1, <1>2, <2>1 DEF Hit, Quiet, Process
    <3>2. ~TakeTask /\ ~NoTask /\ ~NoEvent /\ ~DoEvent /\ ~Joined /\ ~ResetTarget
      BY <1>1 DEF TakeTask, NoTask, NoEvent, DoEvent, Joined, ResetTarget, Idle
    <3>. QED BY <1>1, <1>2, <2>1, <3>1, <3>2, IdleDispatch
  <2>3. CASE NoPoll
    <3>1. LoopEnd /\ UNCHANGED <<todo, cmds, rx, dead, task, tgt, stopped, polled, breakpoint, regs>>
      BY <2>3 DEF NoPoll, Unchanged, target
    <3>. QED BY <1>4, <2>1, <3>1, LoopTurnsOver DEF Good
  <2>4. CASE Poll
    <3>1. /\ ~stopped /\ todo' = Do("r", PollAsked)
          /\ UNCHANGED <<phase, cmds, rx, dead, task, tgt, stopped, polled, breakpoint, regs>>
      BY <2>4, PollIsAll DEF Poll, Idle, Unchanged, target
    <3>2. Doing("r", PollAsked)'
      BY <2>1, <3>1 DEF Doing, Still
    <3>3. Polling'
      BY <1>1, <3>1, <3>2 DEF Polling
    <3>. QED BY <1>4, <1>7, <3>1, <3>3 DEF Good
  <2>. QED BY <2>2, <2>3, <2>4
<1>9. CASE ~stopped /\ Doing("r", PollAsked)
  <2>1. \/ todo' = First(Op("await", "r"), PollAsked) /\ Asked("r")' /\ Same
        \/ todo' = First(Op("await", "r"), PollAsked) /\ Answered("r")' /\ Processed("r")
        \/ todo' = PollAsked /\ cmds' = <<>> /\ Same /\ Heard("r") /\ Answered("r")
    BY <1>1, <1>2, <1>3, <1>9, DoingStep
  <2>2. phase' = phase /\ stopped' = stopped
    BY <2>1 DEF Same, Processed
  <2>3. Heard("r") => rx' = <<>> /\ \E pc \in PCs : RegsIn(lines', pc)
    BY DEF Heard
  <2>4. \A pc : RegsIn(lines', pc) <=> RegsIn(lines, pc)'
    BY DEF RegsIn, FirstLine
  <2>5. Doing("r", PollAsked)' \/ (Ready(PollAsked)' /\ \E pc \in PCs : RegsIn(lines, pc)')
    BY <2>1, <2>3, <2>4 DEF Doing, Ready, Still
  <2>6. Polling'
    BY <1>1, <1>9, <2>2, <2>5 DEF Polling
  <2>. QED BY <1>6, <1>7, <2>1, <2>6 DEF Good
<1>10. CASE ~stopped /\ Ready(PollAsked) /\ \E pc \in PCs : RegsIn(lines, pc)
  <2>1. PICK pc \in PCs : RegsIn(lines, pc)
    BY <1>10
  <2>2. Top(todo, Op("regs", "strict"), PollJudged) /\ cmds = <<>> /\ rx = <<>>
    BY <1>10, PollTops DEF Ready, Still
  <2>3. UpdateRegs /\ Rest = PollJudged
    BY <1>1, <1>2, <2>2, TopIs
  <2>4. todo' = PollJudged /\ Steady /\ UNCHANGED <<stopped, polled, cache>>
    BY <1>1, <2>1, <2>3, RegsDo
  <2>5. Polling'
    BY <1>1, <1>10, <2>2, <2>4 DEF Polling, Ready, Still, Steady
  <2>. QED BY <1>5, <1>7, <1>10, <2>4, <2>5 DEF Good, Steady
<1>11. CASE ~stopped /\ Ready(PollJudged)
  <2>1. Top(todo, Op("verdict", "poll"), PollOver) /\ cmds = <<>> /\ rx = <<>> /\ todo = PollJudged
    BY <1>11, PollTops DEF Ready, Still
  <2>2. Verdict
    BY <1>1, <1>2, <2>1, TopIs
  <2>3. /\ Steady /\ regs' = regs
        /\ \/ todo' = Do("code", PollFetched) /\ UNCHANGED <<stopped, polled>>
           \/ todo' = PollOver /\ UNCHANGED <<stopped, polled>>
           \/ todo' = PollTold /\ stopped' = TRUE /\ polled'
    BY <1>1, <1>3, <2>1, <2>2, VerdictDoes DEF PollJudged, PollFetched, PollTold
  <2>4. UNCHANGED <<cmds, rx, phase, dead, task, tgt, breakpoint>>
    BY <2>3 DEF Steady
  <2>5. CASE todo' = Do("code", PollFetched) /\ UNCHANGED <<stopped, polled>>
    <3>1. Doing("code", PollFetched)'
      BY <2>1, <2>4, <2>5 DEF Doing, Still
    <3>2. Polling'
      BY <1>1, <1>11, <2>4, <2>5, <3>1 DEF Polling
    <3>. QED BY <1>4, <1>7, <2>3, <2>4, <2>5, <3>2 DEF Good
  <2>6. CASE todo' = PollOver /\ UNCHANGED <<stopped, polled>>
    <3>1. Polling'
      BY <1>1, <2>1, <2>4, <2>6 DEF Polling, Ready, Still
    <3>. QED BY <1>4, <1>7, <2>3, <2>4, <2>6, <3>1 DEF Good
  <2>7. CASE todo' = PollTold /\ stopped' = TRUE /\ polled'
    <3>1. Polling'
      BY <1>1, <2>1, <2>4, <2>7 DEF Polling, Ready, Still
    <3>2. Believed' /\ Known' /\ Alive' /\ NeedsStop'
      BY <1>1, <2>4, <2>7 DEF Believed, Known, Alive, NeedsStop
    <3>3. Beliefs'
      BY <3>2, NextBeliefs DEF Beliefs
    <3>. QED BY <1>7, <3>1, <3>3 DEF Good
  <2>. QED BY <2>3, <2>5, <2>6, <2>7
<1>12. CASE ~stopped /\ Doing("code", PollFetched)
  <2>1. \/ todo' = First(Op("await", "code"), PollFetched) /\ Asked("code")' /\ Same
        \/ todo' = First(Op("await", "code"), PollFetched) /\ Answered("code")' /\ Processed("code")
        \/ todo' = PollFetched /\ cmds' = <<>> /\ Same /\ Heard("code") /\ Answered("code")
    BY <1>1, <1>2, <1>3, <1>12, DoingStep
  <2>2. phase' = phase /\ stopped' = stopped
    BY <2>1 DEF Same, Processed
  <2>3. Heard("code") => rx' = <<>> /\ MemIn(lines')
    BY DEF Heard, Pages
  <2>4. MemIn(lines') <=> MemIn(lines)'
    BY DEF MemIn, FirstLine
  <2>5. Doing("code", PollFetched)' \/ (Ready(PollFetched)' /\ MemIn(lines)')
    BY <2>1, <2>3, <2>4 DEF Doing, Ready, Still
  <2>6. Polling'
    BY <1>1, <1>12, <2>2, <2>5 DEF Polling
  <2>. QED BY <1>6, <1>7, <2>1, <2>6 DEF Good
<1>13. CASE ~stopped /\ Ready(PollFetched) /\ MemIn(lines)
  <2>1. Top(todo, Op("fill", "code"), PollJudged) /\ cmds = <<>> /\ rx = <<>>
    BY <1>13, PollTops DEF Ready, Still
  <2>2. Fill /\ Rest = PollJudged
    BY <1>1, <1>2, <2>1, TopIs
  <2>3. todo' = PollJudged /\ Steady /\ UNCHANGED <<stopped, polled, regs>>
    BY <1>1, <1>13, <2>2, FillDoes
  <2>4. Polling'
    BY <1>1, <1>13, <2>1, <2>3 DEF Polling, Ready, Still, Steady
  <2>. QED BY <1>5, <1>7, <1>13, <2>3, <2>4 DEF Good, Steady
<1>14. CASE Ready(PollTold) /\ polled
  <2>1. Top(todo, Op("notify", "breakpoint"), PollOver) /\ cmds = <<>> /\ rx = <<>>
    BY <1>14, PollTops DEF Ready, Still
  <2>2. Notify /\ Rest = PollOver
    BY <1>1, <1>2, <2>1, TopIs
  <2>3. todo' = PollOver /\ Steady /\ UNCHANGED <<stopped, polled, regs, cache>>
    BY <2>2, NotifyDoes
  <2>4. Polling'
    BY <1>1, <2>1, <2>3 DEF Polling, Ready, Still, Steady
  <2>. QED BY <1>4, <1>7, <2>3, <2>4 DEF Good, Steady
<1>15. CASE Ready(PollOver)
  <2>1. Top(todo, Op("polldone", ""), <<>>) /\ cmds = <<>> /\ rx = <<>>
    BY <1>15, FinishTop DEF Ready, Still
  <2>2. PollDone /\ Rest = <<>>
    BY <1>1, <1>2, <2>1, TopIs
  <2>3. /\ LoopEnd /\ todo' = <<>>
        /\ UNCHANGED <<cmds, rx, dead, task, tgt, stopped, polled, breakpoint, regs>>
    BY <2>2 DEF PollDone, Unchanged, target
  <2>. QED BY <1>4, <2>1, <2>3, LoopTurnsOver DEF Good
<1>. QED BY <1>8, <1>9, <1>10, <1>11, <1>12, <1>13, <1>14, <1>15 DEF Polling

(***************************************************************************)
(* The report of a breakpoint.                                             *)
(***************************************************************************)
LEMMA LineTop ==
  ASSUME NEW a \in LinesOfTarget, NEW s \in Lines, NEW r, r = Cat(<<a>>, s)
  PROVE  r # <<>> /\ Head(r) = a /\ Tail(r) = s
<1>. DEFINE x == <<a>>
<1>1. x \in Lines /\ Len(x) = 1 /\ x[1] = a
  BY LineTuples
<1>2. r = Cat(x, s)
  OBVIOUS
<1>. HIDE DEF x
<1>3. /\ r \in Lines /\ Len(r) = 1 + Len(s) /\ Len(s) \in Nat
      /\ \A i \in 1 .. 1 : r[i] = x[i]
      /\ \A i \in 1 .. Len(s) : r[1 + i] = s[i]
  <2>1. /\ Cat(x, s) \in Lines /\ Len(Cat(x, s)) = Len(x) + Len(s)
        /\ \A i \in 1 .. Len(x) : Cat(x, s)[i] = x[i]
        /\ \A i \in 1 .. Len(s) : Cat(x, s)[Len(x) + i] = s[i]
    BY <1>1, JoinedCat
  <2>2. Len(s) \in Nat
    BY DEF Lines
  <2>. QED BY <1>1, <1>2, <2>1, <2>2, Zenon
<1>4. r # <<>> /\ Head(r) = a
  <2>1. r[1] = a
    BY <1>1, <1>3
  <2>2. \A q \in Lines : Len(q) >= 1 => q # <<>> /\ Head(q) = q[1]
    BY DEF Lines
  <2>3. Len(r) >= 1
    BY <1>3
  <2>. QED BY <1>3, <2>1, <2>2, <2>3
<1>5. \A q \in Lines : q # <<>> =>
        Tail(q) \in Lines /\ Len(Tail(q)) = Len(q) - 1 /\ \A i \in 1 .. Len(q) - 1 : Tail(q)[i] = q[i + 1]
  BY HeadTailProperties DEF Lines
<1>6. Tail(r) \in Lines /\ Len(Tail(r)) = Len(s) /\ \A i \in 1 .. Len(s) : Tail(r)[i] = r[i + 1]
  <2>1. Len(r) - 1 = Len(s)
    BY <1>3
  <2>. QED BY <1>3, <1>4, <1>5, <2>1
<1>7. \A i \in 1 .. Len(s) : Tail(r)[i] = s[i]
  <2>. SUFFICES ASSUME NEW i \in 1 .. Len(s) PROVE Tail(r)[i] = s[i]
    OBVIOUS
  <2>1. i + 1 = 1 + i
    OBVIOUS
  <2>. QED BY <1>3, <1>6, <2>1
<1>8. Tail(r) = s
  BY <1>6, <1>7, SeqEqual DEF Lines
<1>. QED BY <1>4, <1>8

LEMMA EventLines ==
  ASSUME NEW pc \in PCs, NEW r, r = Event(pc)
  PROVE  /\ isXemu => r # <<>> /\ Head(r) = Blank /\ Tail(r) = RegisterLines(pc)
         /\ ~isXemu => r # <<>> /\ Head(r) = Bang /\ Tail(r) = RegisterLines(pc) \o Prompt
         /\ Event(pc) \in Lines
<1>. DEFINE R == RegisterLines(pc)
            P == Prompt
<1>1. Blank \in LinesOfTarget /\ Bang \in LinesOfTarget
  BY LineTypes
<1>2. R \in Lines /\ P \in Lines
  BY RegisterLinesAre, PromptEnds
<1>. HIDE DEF R, P
<1>3. <<Blank>> \in Lines /\ <<Bang>> \in Lines
  BY <1>1, LineTuples
<1>4. Cat(<<Blank>>, R) \in Lines /\ Cat(R, P) \in Lines
  BY <1>2, <1>3, Cats DEF Lines
<1>5. ASSUME isXemu PROVE r = Cat(<<Blank>>, R)
  BY <1>5, Zenon DEF Event, Cat, R
<1>6. ASSUME ~isXemu PROVE r = Cat(<<Bang>>, Cat(R, P))
  <2>1. r = Cat(Cat(<<Bang>>, R), P)
    BY <1>6, Zenon DEF Event, Cat, R, P
  <2>. DEFINE b == <<Bang>>
  <2>2. b \in Lines
    BY <1>3
  <2>. HIDE DEF b
  <2>3. Cat(Cat(b, R), P) = Cat(b, Cat(R, P))
    BY <1>2, <2>2, Cats DEF Lines
  <2>. QED BY <2>1, <2>3, Zenon DEF b
<1>7. Cat(<<Bang>>, Cat(R, P)) \in Lines
  BY <1>3, <1>4, Cats DEF Lines
<1>8. isXemu => r # <<>> /\ Head(r) = Blank /\ Tail(r) = R
  BY <1>1, <1>2, <1>5, LineTop
<1>9. ~isXemu => r # <<>> /\ Head(r) = Bang /\ Tail(r) = Cat(R, P)
  BY <1>1, <1>4, <1>6, LineTop
<1>10. Cat(R, P) = R \o P
  BY Zenon DEF Cat
<1>11. Event(pc) \in Lines
  BY <1>4, <1>5, <1>6, <1>7
<1>. QED BY <1>8, <1>9, <1>10, <1>11 DEF R, P

LEMMA HitReports ==
  ASSUME rx = <<>>, tgt \in [running : BOOLEAN, armed : BOOLEAN, pc : PCs], Hit
  PROVE  /\ tgt.running /\ tgt.armed /\ ~tgt'.running /\ tgt'.armed /\ rx' = Event(tgt'.pc)
         /\ UNCHANGED <<cmds, isXemu, todo, phase, task, dead, stopped, breakpoint, polled, regs>>
<1>1. PICK pc \in PCs : tgt' = [tgt EXCEPT !.running = FALSE, !.pc = pc] /\ rx' = rx \o Event(pc)
  BY DEF Hit, PCs
<1>2. ~tgt'.running /\ tgt'.armed = tgt.armed /\ tgt'.pc = pc
  BY <1>1
<1>3. <<>> \o Event(pc) = Event(pc)
  BY EventLines, ConcatEmptySeq DEF Lines
<1>4. rx' = Event(tgt'.pc)
  BY <1>1, <1>2, <1>3
<1>5. /\ tgt.running /\ tgt.armed
      /\ UNCHANGED <<cmds, isXemu, todo, phase, task, dead, stopped, breakpoint, polled, regs>>
  BY DEF Hit, adapter, client
<1>. QED BY <1>2, <1>4, <1>5

LEMMA EventBegins ==
  ASSUME tgt.pc \in PCs, Reported, DoEvent
  PROVE  /\ todo' = EventAll
         /\ isXemu => rx' = RegisterLines(tgt.pc)
         /\ ~isXemu => rx' \in {RegisterLines(tgt.pc) \o Prompt,
                                <<Blank>> \o RegisterLines(tgt.pc) \o Prompt}
         /\ UNCHANGED <<cmds, isXemu, tgt, phase, task, dead, stopped, breakpoint, polled, regs>>
<1>. DEFINE pc == tgt.pc
            R == RegisterLines(pc)
            P == Prompt
<1>1. /\ isXemu => Head(rx) = Blank /\ Tail(rx) = R
      /\ ~isXemu => Head(rx) = Bang /\ Tail(rx) = R \o P
  BY EventLines DEF Reported
<1>2. Head(rx) \in {Bang, Blank}
  BY <1>1
<1>3. /\ todo' = EventAll
      /\ rx' \in IF Head(rx) = Bang THEN AfterBang(Tail(rx)) ELSE {Tail(rx)}
      /\ UNCHANGED <<task, phase, dead>>
  BY <1>2, EventIsAll, Zenon DEF DoEvent
<1>4. UNCHANGED <<cmds, isXemu, tgt, stopped, breakpoint, polled, regs>>
  BY DEF DoEvent, client
<1>5. isXemu => rx' = R
  BY <1>1, <1>3, Kinds
<1>6. ASSUME ~isXemu PROVE rx' \in {R \o P, <<Blank>> \o R \o P}
  <2>1. rx' \in AfterBang(R \o P)
    BY <1>1, <1>3, <1>6
  <2>2. AfterBang(R \o P) = {R \o P, <<Blank>> \o (R \o P)}
    BY Zenon DEF AfterBang
  <2>3. <<Blank>> \o (R \o P) = <<Blank>> \o R \o P
    <3>. DEFINE b == <<Blank>>
    <3>1. b \in Lines /\ R \in Lines /\ P \in Lines
      BY BlankLine, LineTuples, RegisterLinesAre, PromptEnds
    <3>. HIDE DEF R, P, b
    <3>2. Cat(Cat(b, R), P) = Cat(b, Cat(R, P))
      BY <3>1, Cats DEF Lines
    <3>. QED BY <3>2, Zenon DEF Cat, b
  <2>. QED BY <2>1, <2>2, <2>3, Zenon
<1>. QED BY <1>3, <1>4, <1>5, <1>6

LEMMA EventReadXemu ==
  ASSUME Alive, NEW pc \in PCs, rx = RegisterLines(pc), ReadEvent, NEW s, Rest = s,
         lines' \in Lines
  PROVE  todo' = s /\ Same /\ cmds' = cmds /\ rx' = <<>> /\ RegsIn(lines', pc)
<1>1. /\ rx \in Lines /\ Len(rx) = 3 /\ rx[1] = Header /\ rx[2] = Regs(pc) /\ rx[3] = Loc
  BY RegisterLinesAre
<1>2. lines' = SubSeq(rx, 1, 3) /\ rx' = SubSeq(rx, 4, Len(rx)) /\ Continue(Rest)
  BY <1>1 DEF ReadEvent
<1>3. \A q \in Lines : Len(q) = 3 =>
        /\ SubSeq(q, 4, Len(q)) = <<>>
        /\ Len(SubSeq(q, 1, 3)) = 3 /\ \A i \in 1 .. 3 : SubSeq(q, 1, 3)[i] = q[i]
  BY DEF Lines
<1>4. rx' = <<>> /\ Len(lines') = 3 /\ \A i \in 1 .. 3 : lines'[i] = rx[i]
  BY <1>1, <1>2, <1>3
<1>5. lines'[0 + 1] = Header /\ lines'[0 + 2] = Regs(pc) /\ Len(lines') >= 0 + 2
  BY <1>1, <1>4
<1>6. \A i \in 1 .. 0 : lines'[i] = Blank
  OBVIOUS
<1>7. RegsIn(lines', pc)
  BY <1>5, <1>6, RegsBehind
<1>8. UNCHANGED <<cmds, isXemu, tgt, stopped, breakpoint, polled, regs, cache>>
  BY DEF ReadEvent, client
<1>. QED BY <1>2, <1>4, <1>7, <1>8 DEF Continue, Same

(***************************************************************************)
(* The registers behind empty lines and in front of the prompt.            *)
(***************************************************************************)
LEMMA RegsRead ==
  ASSUME NEW n \in Nat, NEW y, NEW ls \in Lines, NEW pc, \A i \in 1 .. n : y[i] = Blank,
         y[n + 1] = Header, y[n + 2] = Regs(pc), Len(y) = n + 3,
         Len(ls) >= Len(y), \A i \in 1 .. Len(y) : ls[i] = y[i]
  PROVE  RegsIn(ls, pc)
<1>1. Len(ls) \in Nat
  BY DEF Lines
<1>2. \A i \in 1 .. n + 3 : ls[i] = y[i]
  OBVIOUS
<1>3. n + 1 \in 1 .. n + 3 /\ n + 2 \in 1 .. n + 3
  OBVIOUS
<1>4. ls[n + 1] = Header /\ ls[n + 2] = Regs(pc)
  BY <1>2, <1>3
<1>5. \A i \in 1 .. n : ls[i] = Blank
  BY <1>2
<1>6. Len(ls) >= n + 2
  BY <1>1
<1>. QED BY <1>4, <1>5, <1>6, RegsBehind

LEMMA EventReadHardware ==
  ASSUME Alive, Quiet, [Next]_vars, ~Side, cmds = <<>>, lines' \in Lines,
         NEW s, Top(todo, Op("getlines", ""), s), NEW pc \in PCs,
         NEW b \in Lines, Dotless(b), \A i \in 1 .. Len(b) : b[i] = Blank,
         NEW y, y = Cat(b, RegisterLines(pc)), rx = Cat(y, Prompt)
  PROVE  todo' = s /\ Same /\ cmds' = <<>> /\ rx' = <<>> /\ RegsIn(lines', pc)
<1>. DEFINE n == Len(b)
<1>1. /\ y \in Lines /\ Dotless(y) /\ Len(y) = n + 3 /\ n \in Nat
      /\ \A i \in 1 .. n : y[i] = b[i]
      /\ y[n + 1] = Header /\ y[n + 2] = Regs(pc)
  BY ThenRegisters, Zenon
<1>2. /\ todo' = s /\ Same /\ cmds' = <<>> /\ rx' = <<>>
      /\ Len(lines') >= Len(y) /\ \A i \in 1 .. Len(y) : lines'[i] = y[i]
  BY <1>1, ReadsReport
<1>3. \A i \in 1 .. n : y[i] = Blank
  BY <1>1
<1>4. RegsIn(lines', pc)
  BY <1>1, <1>2, <1>3, RegsRead
<1>. QED BY <1>2, <1>4

LEMMA EventFound ==
  ASSUME Alive, HandleBreakpoint, breakpoint, lines \in Lines, NEW pc, RegsIn(lines, pc),
         Rest = EventOver
  PROVE  todo' = EventJudged /\ regs' = pc /\ Steady /\ UNCHANGED <<stopped, polled, cache>>
<1>. DEFINE s == Told(lines)
<1>1. HasRegs(s) /\ s[2].val = pc /\ s # <<>> /\ Head(s) = Header
  BY RegsFound
<1>. DEFINE next == <<Op("verdict", "event")>> \o Rest
<1>2. regs' = s[2].val /\ Continue(next)
  BY <1>1, Zenon DEF HandleBreakpoint
<1>3. next = EventJudged
  BY Zenon DEF EventJudged, First
<1>4. UNCHANGED <<cmds, rx, isXemu, tgt, breakpoint, stopped, polled, cache>>
  BY DEF HandleBreakpoint, target, client
<1>. HIDE DEF s, next
<1>5. todo' = EventJudged /\ UNCHANGED <<task, phase, dead>>
  BY <1>2, <1>3 DEF Continue
<1>. QED BY <1>1, <1>2, <1>4, <1>5 DEF Steady

LEMMA ListeningStep ==
  ASSUME QuietInv, Turn, Listening
  PROVE  Good'
<1>1. /\ phase = "events" /\ dead = "no" /\ Alive /\ Believed /\ Known /\ ClientInv
      /\ breakpoint \in BOOLEAN /\ stopped \in BOOLEAN /\ lines \in Lines /\ NeedsStop
      /\ tgt \in [running : BOOLEAN, armed : BOOLEAN, pc : PCs] /\ tgt.pc \in PCs
  BY BeliefsNow DEF QuietInv, Good, Beliefs, Alive, Listening, ClientInv, TypeOK, Lines
<1>2. Quiet /\ [Next]_vars /\ ~Side /\ lines' \in Lines /\ "t0" \in Commands /\ "code" \in Commands
  BY DEF Turn, Commands, Pages
<1>3. /\ EventOver \in Seq(Ops) /\ EventFetched \in Seq(Ops)
      /\ EventHeard \in Seq(Ops) /\ EventJudged \in Seq(Ops)
  BY EventTops, FinishTop DEF Top
<1>4. ASSUME UNCHANGED <<dead, task, tgt, stopped, polled, breakpoint, regs>> PROVE Beliefs'
  BY <1>1, <1>4, Carries DEF NeedsStop
<1>5. ASSUME UNCHANGED <<dead, task, breakpoint>>, stopped' = stopped, polled' = polled,
             stopped => polled, tgt'.armed => tgt.armed
      PROVE  Beliefs'
  <2>1. Believed' /\ Known' /\ Alive' /\ NeedsStop'
    BY <1>1, <1>5 DEF Believed, Known, Alive, NeedsStop
  <2>. QED BY <2>1, NextBeliefs DEF Beliefs
<1>6. Listening' => Place'
  BY DEF Place
<1>7. CASE Ready(<<>>)
  <2>1. todo = <<>> /\ cmds = <<>> /\ rx = <<>>
    BY <1>7 DEF Ready, Still
  <2>2. Hit \/ NoEvent
    <3>1. ~Process /\ ~DoEvent
      BY <2>1 DEF DoEvent, Process
    <3>2. ~TakeTask /\ ~NoTask /\ ~NoPoll /\ ~Poll /\ ~Joined /\ ~ResetTarget
      BY <1>1 DEF TakeTask, NoTask, NoPoll, Poll, Joined, ResetTarget, Idle
    <3>. QED BY <1>1, <1>2, <2>1, <3>1, <3>2, IdleDispatch
  <2>3. CASE Hit
    <3>1. /\ tgt.running /\ tgt.armed /\ ~tgt'.running /\ tgt'.armed /\ rx' = Event(tgt'.pc)
          /\ UNCHANGED <<cmds, isXemu, todo, phase, task, dead, stopped, breakpoint, polled, regs>>
      BY <1>1, <2>1, <2>3, HitReports
    <3>2. breakpoint /\ (stopped => polled)
      BY <1>1, <3>1 DEF Known, Believed, Standing
    <3>3. Event(tgt'.pc) = Event(tgt.pc)'
      BY <3>1 DEF Event, Prompt
    <3>4. Unnoticed' /\ Reported'
      BY <3>1, <3>2, <3>3 DEF Unnoticed, Reported
    <3>5. Listening'
      BY <1>1, <2>1, <3>1, <3>4 DEF Listening
    <3>. QED BY <1>5, <1>6, <3>1, <3>2, <3>5 DEF Good
  <2>4. CASE NoEvent
    <3>1. /\ phase' = "poll"
          /\ UNCHANGED <<todo, cmds, rx, dead, task, tgt, stopped, polled, breakpoint, regs>>
      BY <2>4 DEF NoEvent, Unchanged, target
    <3>2. Polling'
      BY <2>1, <3>1 DEF Polling, Ready, Still
    <3>. QED BY <1>4, <3>1, <3>2 DEF Good, Place
  <2>. QED BY <2>2, <2>3, <2>4
<1>8. CASE todo = <<>> /\ cmds = <<>> /\ Unnoticed /\ Reported
  <2>1. DoEvent
    <3>1. ~Process /\ ~Hit
      BY <1>8 DEF Process, Hit, Unnoticed
    <3>2. ~TakeTask /\ ~NoTask /\ ~NoPoll /\ ~Poll /\ ~Joined /\ ~ResetTarget
      BY <1>1 DEF TakeTask, NoTask, NoPoll, Poll, Joined, ResetTarget, Idle
    <3>3. rx # <<>>
      BY <1>1, <1>8, EventLines DEF Reported
    <3>4. ~NoEvent
      BY <3>3 DEF NoEvent
    <3>. QED BY <1>1, <1>2, <1>8, <3>1, <3>2, <3>4, IdleDispatch
  <2>2. /\ todo' = EventAll
        /\ isXemu => rx' = RegisterLines(tgt.pc)
        /\ ~isXemu => rx' \in {RegisterLines(tgt.pc) \o Prompt,
                               <<Blank>> \o RegisterLines(tgt.pc) \o Prompt}
        /\ UNCHANGED <<cmds, isXemu, tgt, phase, task, dead, stopped, breakpoint, polled, regs>>
    BY <1>1, <1>8, <2>1, EventBegins
  <2>3. EventAll' = EventAll
    BY <2>2 DEF EventAll
  <2>4. Unnoticed'
    BY <1>8, <2>2 DEF Unnoticed
  <2>5. IF isXemu' THEN rx' = RegisterLines(tgt'.pc)
        ELSE rx' \in {RegisterLines(tgt'.pc) \o Prompt', <<Blank>> \o RegisterLines(tgt'.pc) \o Prompt'}
    <3>1. Prompt' = Prompt
      BY <2>2 DEF Prompt
    <3>2. tgt'.pc = tgt.pc
      BY <2>2
    <3>3. isXemu' = isXemu
      BY <2>2
    <3>4. CASE isXemu
      BY <2>2, <3>2, <3>3, <3>4, Zenon
    <3>5. CASE ~isXemu
      <4>1. RegisterLines(tgt'.pc) \o Prompt' = RegisterLines(tgt.pc) \o Prompt
        BY <3>1, <3>2, Zenon
      <4>2. <<Blank>> \o RegisterLines(tgt'.pc) \o Prompt'
              = <<Blank>> \o RegisterLines(tgt.pc) \o Prompt
        BY <3>1, <3>2, Zenon
      <4>3. \/ rx' = RegisterLines(tgt.pc) \o Prompt
            \/ rx' = <<Blank>> \o RegisterLines(tgt.pc) \o Prompt
        BY <2>2, <3>5, Zenon
      <4>4. rx' \in {RegisterLines(tgt'.pc) \o Prompt', <<Blank>> \o RegisterLines(tgt'.pc) \o Prompt'}
        BY <4>1, <4>2, <4>3, Zenon
      <4>. QED BY <3>3, <3>5, <4>4, Zenon
    <3>. QED BY <3>4, <3>5
  <2>6. phase' = "events" /\ cmds' = <<>> /\ todo' = EventAll'
    BY <1>1, <1>8, <2>2, <2>3
  <2>7. Listening'
    BY <2>4, <2>5, <2>6, Zenon DEF Listening
  <2>. QED BY <1>4, <1>6, <2>2, <2>7 DEF Good
<1>9. CASE /\ Unnoticed /\ cmds = <<>> /\ todo = EventAll
           /\ IF isXemu THEN rx = RegisterLines(tgt.pc)
              ELSE rx \in {RegisterLines(tgt.pc) \o Prompt, <<Blank>> \o RegisterLines(tgt.pc) \o Prompt}
  <2>. DEFINE pc == tgt.pc
  <2>1. todo' = EventHeard /\ Same /\ cmds' = <<>> /\ rx' = <<>> /\ RegsIn(lines', pc)
    <3>1. CASE isXemu
      <4>1. Top(todo, Op("readevent", ""), EventHeard) /\ rx = RegisterLines(pc)
        BY <1>9, <3>1, EventTops
      <4>2. At("readevent") /\ Rest = EventHeard /\ (ReadEvent \/ Timeout)
        BY <1>1, <1>2, <1>9, <4>1, TopIs
      <4>3. ~Timeout
        <5>1. Len(rx) = 3
          BY <1>1, <4>1, RegisterLinesAre
        <5>2. rx \in Lines
          BY <1>1, <4>1, RegisterLinesAre
        <5>. QED BY <4>2, <5>1, <5>2, TimesOut DEF Turn
      <4>. QED BY <1>1, <1>2, <1>9, <4>1, <4>2, <4>3, EventReadXemu
    <3>2. CASE ~isXemu
      <4>1. Top(todo, Op("getlines", ""), EventHeard)
        BY <1>9, <3>2, EventTops
      <4>2. CASE rx = RegisterLines(pc) \o Prompt
        <5>. DEFINE b == <<>>
                    y == Cat(b, RegisterLines(pc))
        <5>1. RegisterLines(pc) \in Seq(LinesOfTarget)
          BY <1>1, RegisterLinesAre DEF Lines
        <5>2. y = RegisterLines(pc)
          BY <5>1, ConcatEmptySeq, Zenon DEF Cat
        <5>3. rx = Cat(y, Prompt)
          BY <4>2, <5>2, Zenon DEF Cat
        <5>4. b \in Lines /\ Dotless(b) /\ \A i \in 1 .. Len(b) : b[i] = Blank
          BY DEF Lines, Dotless
        <5>. HIDE DEF b, y
        <5>5. y = Cat(b, RegisterLines(pc))
          BY DEF y
        <5>. QED BY <1>1, <1>2, <1>9, <4>1, <5>3, <5>4, <5>5, EventReadHardware
      <4>3. CASE rx = <<Blank>> \o RegisterLines(pc) \o Prompt
        <5>. DEFINE b == <<Blank>>
                    y == Cat(b, RegisterLines(pc))
        <5>3. rx = Cat(y, Prompt)
          BY <4>3, Zenon DEF Cat
        <5>4. b \in Lines /\ Dotless(b) /\ Len(b) = 1 /\ b[1] = Blank
          BY BlankLine, LineTuples
        <5>. HIDE DEF b, y
        <5>5. y = Cat(b, RegisterLines(pc))
          BY DEF y
        <5>6. \A i \in 1 .. Len(b) : b[i] = Blank
          BY <5>4
        <5>. QED BY <1>1, <1>2, <1>9, <4>1, <5>3, <5>4, <5>5, <5>6, EventReadHardware
      <4>. QED BY <1>9, <3>2, <4>2, <4>3, Zenon
    <3>. QED BY <3>1, <3>2
  <2>2. RegsIn(lines', pc) <=> RegsIn(lines, pc)'
    BY <2>1 DEF RegsIn, FirstLine, Same
  <2>3. Unnoticed' /\ Ready(EventHeard)' /\ phase' = "events"
    BY <1>1, <1>9, <2>1 DEF Unnoticed, Ready, Still, Same
  <2>4. RegsIn(lines, tgt.pc)'
    BY <2>1, <2>2
  <2>5. Listening'
    BY <2>3, <2>4 DEF Listening
  <2>. QED BY <1>4, <1>6, <2>1, <2>5 DEF Good, Same
<1>10. CASE Unnoticed /\ Ready(EventHeard) /\ RegsIn(lines, tgt.pc)
  <2>1. Top(todo, Op("event", ""), EventOver) /\ cmds = <<>> /\ rx = <<>>
    BY <1>10, EventTops DEF Ready, Still
  <2>2. HandleBreakpoint /\ Rest = EventOver
    BY <1>1, <1>2, <2>1, TopIs
  <2>3. todo' = EventJudged /\ regs' = tgt.pc /\ Steady /\ UNCHANGED <<stopped, polled, cache>>
    BY <1>1, <1>10, <2>2, EventFound DEF Unnoticed
  <2>4. Unnoticed' /\ Ready(EventJudged)' /\ phase' = "events" /\ regs' = tgt'.pc
    BY <1>1, <1>10, <2>1, <2>3 DEF Unnoticed, Ready, Still, Steady
  <2>5. Listening'
    BY <2>4 DEF Listening
  <2>. QED BY <1>5, <1>6, <1>10, <2>3, <2>5 DEF Good, Steady, Unnoticed
<1>11. CASE Unnoticed /\ regs = tgt.pc /\ Ready(EventJudged)
  <2>1. Top(todo, Op("verdict", "event"), EventOver) /\ cmds = <<>> /\ rx = <<>> /\ todo = EventJudged
    BY <1>11, EventTops DEF Ready, Still
  <2>2. Verdict
    BY <1>1, <1>2, <2>1, TopIs
  <2>3. /\ Steady /\ regs' = regs
        /\ \/ todo' = Do("code", EventFetched) /\ UNCHANGED <<stopped, polled>>
           \/ todo' = Do("t0", EventOver) /\ UNCHANGED <<stopped, polled>>
           \/ todo' = EventTold /\ stopped' = TRUE /\ ~polled' /\ cache' = Empty
    BY <1>1, <1>3, <2>1, <2>2, VerdictDoes DEF EventJudged, EventFetched, EventTold
  <2>4. UNCHANGED <<cmds, rx, phase, dead, task, tgt, breakpoint>>
    BY <2>3 DEF Steady
  <2>5. CASE todo' = Do("code", EventFetched) /\ UNCHANGED <<stopped, polled>>
    <3>1. Doing("code", EventFetched)' /\ Unnoticed'
      BY <1>11, <2>1, <2>4, <2>5 DEF Doing, Still, Unnoticed
    <3>2. Listening'
      BY <1>1, <1>11, <2>3, <2>4, <3>1 DEF Listening
    <3>. QED BY <1>4, <1>6, <2>3, <2>4, <2>5, <3>2 DEF Good
  <2>6. CASE todo' = Do("t0", EventOver) /\ UNCHANGED <<stopped, polled>>
    <3>1. Doing("t0", EventOver)' /\ (stopped' => polled')
      BY <1>11, <2>1, <2>4, <2>6 DEF Doing, Still, Unnoticed
    <3>2. Listening'
      BY <1>1, <2>4, <3>1 DEF Listening
    <3>. QED BY <1>4, <1>6, <2>3, <2>4, <2>6, <3>2 DEF Good
  <2>7. CASE todo' = EventTold /\ stopped' = TRUE /\ ~polled' /\ cache' = Empty
    <3>1. Standing' /\ Ready(EventTold)'
      BY <1>11, <2>1, <2>3, <2>4, <2>7 DEF Standing, Ready, Still, Unnoticed
    <3>2. Listening'
      BY <1>1, <2>4, <2>7, <3>1 DEF Listening
    <3>3. Believed' /\ Known' /\ Alive' /\ NeedsStop'
      BY <1>1, <2>4, <2>7, <3>1 DEF Believed, Known, Alive, NeedsStop
    <3>4. Beliefs'
      BY <3>3, NextBeliefs DEF Beliefs
    <3>. QED BY <1>6, <3>2, <3>4 DEF Good
  <2>. QED BY <2>3, <2>5, <2>6, <2>7
<1>12. CASE Unnoticed /\ regs = tgt.pc /\ Doing("code", EventFetched)
  <2>1. \/ todo' = First(Op("await", "code"), EventFetched) /\ Asked("code")' /\ Same
        \/ todo' = First(Op("await", "code"), EventFetched) /\ Answered("code")' /\ Processed("code")
        \/ todo' = EventFetched /\ cmds' = <<>> /\ Same /\ Heard("code") /\ Answered("code")
    BY <1>1, <1>2, <1>3, <1>12, DoingStep
  <2>2. UNCHANGED <<phase, task, dead, stopped, polled, breakpoint, regs>>
        /\ ~tgt'.running /\ tgt'.pc = tgt.pc /\ (tgt'.armed => tgt.armed)
    BY <1>12, <2>1 DEF Same, Processed, Unnoticed
  <2>3. Heard("code") => rx' = <<>> /\ MemIn(lines')
    BY DEF Heard, Pages
  <2>4. MemIn(lines') <=> MemIn(lines)'
    BY DEF MemIn, FirstLine
  <2>5. Doing("code", EventFetched)' \/ (Ready(EventFetched)' /\ MemIn(lines)')
    BY <2>1, <2>3, <2>4 DEF Doing, Ready, Still
  <2>6. Unnoticed' /\ regs' = tgt'.pc /\ (stopped => polled)
    BY <1>12, <2>2 DEF Unnoticed
  <2>7. Listening'
    BY <1>1, <2>2, <2>5, <2>6 DEF Listening
  <2>. QED BY <1>5, <1>6, <2>2, <2>6, <2>7 DEF Good
<1>13. CASE Unnoticed /\ regs = tgt.pc /\ Ready(EventFetched) /\ MemIn(lines)
  <2>1. Top(todo, Op("fill", "code"), EventJudged) /\ cmds = <<>> /\ rx = <<>>
    BY <1>13, EventTops DEF Ready, Still
  <2>2. Fill /\ Rest = EventJudged
    BY <1>1, <1>2, <2>1, TopIs
  <2>3. todo' = EventJudged /\ Steady /\ UNCHANGED <<stopped, polled, regs>>
    BY <1>1, <1>13, <2>2, FillDoes
  <2>4. Unnoticed' /\ regs' = tgt'.pc /\ Ready(EventJudged)' /\ phase' = "events"
    BY <1>1, <1>13, <2>1, <2>3 DEF Unnoticed, Ready, Still, Steady
  <2>5. Listening'
    BY <2>4 DEF Listening
  <2>. QED BY <1>4, <1>6, <2>3, <2>5 DEF Good, Steady
<1>14. CASE (stopped => polled) /\ Doing("t0", EventOver)
  <2>1. \/ todo' = First(Op("await", "t0"), EventOver) /\ Asked("t0")' /\ Same
        \/ todo' = First(Op("await", "t0"), EventOver) /\ Answered("t0")' /\ Processed("t0")
        \/ todo' = EventOver /\ cmds' = <<>> /\ Same /\ Heard("t0") /\ Answered("t0")
    BY <1>1, <1>2, <1>3, <1>14, DoingStep
  <2>2. UNCHANGED <<phase, task, dead, stopped, polled, breakpoint>> /\ (tgt'.armed => tgt.armed)
    BY <2>1 DEF Same, Processed
  <2>3. Heard("t0") => rx' = <<>>
    BY DEF Heard
  <2>4. Doing("t0", EventOver)' \/ Ready(EventOver)'
    BY <2>1, <2>3 DEF Doing, Ready, Still
  <2>5. Listening'
    BY <1>1, <1>14, <2>2, <2>4 DEF Listening
  <2>. QED BY <1>5, <1>6, <1>14, <2>2, <2>5 DEF Good
<1>15. CASE Ready(EventTold) /\ Standing
  <2>1. Top(todo, Op("notify", "breakpoint"), EventOver) /\ cmds = <<>> /\ rx = <<>>
    BY <1>15, EventTops DEF Ready, Still
  <2>2. Notify /\ Rest = EventOver
    BY <1>1, <1>2, <2>1, TopIs
  <2>3. todo' = EventOver /\ Steady /\ UNCHANGED <<stopped, polled, regs, cache>>
    BY <2>2, NotifyDoes
  <2>4. Listening'
    BY <1>1, <2>1, <2>3 DEF Listening, Ready, Still, Steady
  <2>. QED BY <1>4, <1>6, <2>3, <2>4 DEF Good, Steady
<1>16. CASE Ready(EventOver)
  <2>1. Top(todo, Op("eventdone", ""), <<>>) /\ cmds = <<>> /\ rx = <<>>
    BY <1>16, FinishTop DEF Ready, Still
  <2>2. EventDone /\ Rest = <<>>
    BY <1>1, <1>2, <2>1, TopIs
  <2>3. /\ phase' = "poll" /\ todo' = <<>>
        /\ UNCHANGED <<cmds, rx, dead, task, tgt, stopped, polled, breakpoint, regs>>
    BY <2>2 DEF EventDone, Unchanged, target
  <2>4. Polling'
    BY <2>1, <2>3 DEF Polling, Ready, Still
  <2>. QED BY <1>4, <2>3, <2>4 DEF Good, Place
<1>. QED BY <1>7, <1>8, <1>9, <1>10, <1>11, <1>12, <1>13, <1>14, <1>15, <1>16, Zenon DEF Listening

-----------------------------------------------------------------------------
(***************************************************************************)
(* The client's requests change nothing but what is to be done next.       *)
(***************************************************************************)
Aside == /\ UNCHANGED <<isXemu, tgt, cmds, rx, todo, lines, phase, stopped, breakpoint, polled,
                        regs, cache, dead>>
         /\ task' = task \/ task = "none"

LEMMA WordsStay ==
  ASSUME Aside
  PROVE  /\ Still => Still'
         /\ \A c : Asked(c) => Asked(c)'
         /\ \A c : Answered(c) => Answered(c)'
         /\ \A pc : RegsIn(lines, pc) => RegsIn(lines, pc)'
         /\ MemIn(lines) => MemIn(lines)'
         /\ Prompt' = Prompt /\ StepEchoed' = StepEchoed /\ StepOverAll' = StepOverAll
         /\ EventAll' = EventAll
<1>1. UNCHANGED <<isXemu, tgt, cmds, rx, lines>>
  BY DEF Aside
<1>2. (Still => Still') /\ \A c : Asked(c) => Asked(c)'
  BY <1>1 DEF Still, Asked
<1>3. Prompt' = Prompt
  BY <1>1 DEF Prompt
<1>4. ASSUME NEW c, NEW pc PROVE Reply(c, pc)' = Reply(c, pc)
  BY <1>1 DEF Reply, Prompt
<1>5. ASSUME NEW c, Answered(c) PROVE Answered(c)'
  <2>1. PICK pc \in PCs : rx = Reply(c, pc) /\ (~tgt.running => pc = tgt.pc)
    BY <1>5 DEF Answered
  <2>2. Reply(c, pc)' = Reply(c, pc)
    BY <1>4
  <2>3. rx' = Reply(c, pc)' /\ (~tgt'.running => pc = tgt'.pc)
    BY <1>1, <2>1, <2>2
  <2>4. cmds' = <<>> /\ (c = "t1" => ~tgt'.running)
    BY <1>1, <1>5 DEF Answered
  <2>. QED BY <2>3, <2>4, Zenon DEF Answered
<1>6. \A pc : RegsIn(lines, pc) => RegsIn(lines, pc)'
  BY <1>1 DEF RegsIn, FirstLine
<1>7. MemIn(lines) => MemIn(lines)'
  BY <1>1 DEF MemIn, FirstLine
<1>8. StepEchoed' = StepEchoed /\ EventAll' = EventAll
  BY <1>1 DEF StepEchoed, EventAll
<1>9. StepOverAll' = StepOverAll
  BY <1>8 DEF StepOverAll
<1>. QED BY <1>2, <1>3, <1>5, <1>6, <1>7, <1>8, <1>9

LEMMA TasksStay ==
  ASSUME Aside, Launching \/ Running \/ Pausing \/ Continuing \/ Setting
  PROVE  Launching' \/ Running' \/ Pausing' \/ Continuing' \/ Setting'
<1>1. /\ UNCHANGED <<tgt, todo, lines, phase, breakpoint, regs, cache>>
      /\ \A t : InTask(t) /\ t # "none" => InTask(t)'
  BY DEF Aside, InTask
<1>2. Launching => Launching'
  BY <1>1, WordsStay DEF Launching, Ready
<1>3. \A c, s : Doing(c, s) => Doing(c, s)'
  BY <1>1, WordsStay DEF Doing
<1>4. \A s : Ready(s) => Ready(s)'
  BY <1>1, WordsStay DEF Ready
<1>5. Running => Running'
  BY <1>1, <1>3 DEF Running
<1>6. Pausing => Pausing'
  <2>1. RegsIn(lines, tgt.pc) => RegsIn(lines, tgt.pc)'
    <3>1. \A pc : RegsIn(lines, pc) => RegsIn(lines', pc)
      BY <1>1
    <3>2. RegsIn(lines, tgt.pc)' <=> RegsIn(lines', tgt'.pc)
      BY DEF RegsIn, FirstLine
    <3>. QED BY <1>1, <3>1, <3>2
  <2>2. Standing => Standing'
    BY <1>1 DEF Standing
  <2>. QED BY <1>1, <1>3, <1>4, <2>1, <2>2 DEF Pausing
<1>7. Continuing => Continuing'
  BY <1>1, <1>3, <1>4 DEF Continuing
<1>8. Setting => Setting'
  BY <1>1, <1>3, <1>4 DEF Setting
<1>. QED BY <1>2, <1>5, <1>6, <1>7, <1>8

LEMMA SteppingStays ==
  ASSUME Aside, Stepping
  PROVE  Stepping'
<1>1. /\ UNCHANGED <<isXemu, tgt, cmds, rx, todo, lines, phase, polled, regs, cache>>
      /\ \A t : InTask(t) /\ t # "none" => InTask(t)'
  BY DEF Aside, InTask
<1>2. InTask("next")' /\ Calm'
  BY <1>1 DEF Stepping, Calm
<1>3. StepOverAll' = StepOverAll /\ StepEchoed' = StepEchoed /\ Prompt' = Prompt
  BY WordsStay
<1>4. Ready(StepOverAll) => Ready(StepOverAll)'
  BY <1>1, <1>3 DEF Ready, Still
<1>5. Doing("step", StepEchoed) => Doing("step", StepEchoed)'
  BY <1>1, <1>3, WordsStay DEF Doing
<1>6. ASSUME isXemu, todo = StepEchoed, cmds = <<>>,
             NEW pc \in PCs, rx = <<Blank>> \o RegisterLines(pc) \o Prompt, ~tgt.running => pc = tgt.pc
      PROVE  Stepping'
  <2>. DEFINE g == <<Blank>> \o RegisterLines(pc) \o Prompt
  <2>1. g' = g
    BY <1>3, Zenon
  <2>2. rx' = g' /\ isXemu' /\ todo' = StepEchoed' /\ cmds' = <<>> /\ (~tgt'.running => pc = tgt'.pc)
    BY <1>1, <1>3, <1>6, <2>1
  <2>. QED BY <1>2, <2>2, Zenon DEF Stepping
<1>7. ASSUME Ready(StepAsked), NEW pc \in PCs, RegsIn(lines, pc), ~tgt.running => pc = tgt.pc
      PROVE  Stepping'
  <2>1. Ready(StepAsked)' /\ RegsIn(lines, pc)' /\ (~tgt'.running => pc = tgt'.pc)
    BY <1>1, <1>7, WordsStay DEF Ready
  <2>. QED BY <1>2, <2>1, Zenon DEF Stepping
<1>8. Ready(StepKnown) /\ (polled \/ Standing) => Stepping'
  BY <1>1, <1>2 DEF Stepping, Ready, Still, Standing
<1>9. Ready(Stepped) /\ (polled \/ Standing) /\ cache = Empty => Stepping'
  BY <1>1, <1>2 DEF Stepping, Ready, Still, Standing
<1>10. Ready(StepOverAll) \/ Doing("step", StepEchoed) => Stepping'
  BY <1>2, <1>4, <1>5 DEF Stepping
<1>. QED BY <1>6, <1>7, <1>8, <1>9, <1>10 DEF Stepping

LEMMA OthersStay ==
  ASSUME Aside, (\E p \in Pages : Evaluating(p)) \/ Finishing \/ Between \/ Leaving
  PROVE  (\E p \in Pages : Evaluating(p)') \/ Finishing' \/ Between' \/ Leaving'
<1>1. /\ UNCHANGED <<todo, lines, phase>>
      /\ \A t : InTask(t) /\ t # "none" => InTask(t)'
      /\ task # "none" => task' # "none"
  BY DEF Aside, InTask
<1>2. \A c, s : Doing(c, s) => Doing(c, s)'
  BY <1>1, WordsStay DEF Doing
<1>3. \A s : Ready(s) => Ready(s)'
  BY <1>1, WordsStay DEF Ready
<1>4. ASSUME NEW p \in Pages, Evaluating(p) PROVE Evaluating(p)'
  BY <1>1, <1>2, <1>3, <1>4, WordsStay DEF Evaluating, Pages
<1>5. Finishing => Finishing'
  BY <1>1, <1>3 DEF Finishing
<1>6. Between => Between'
  BY <1>1, <1>3 DEF Between
<1>7. Leaving => Leaving'
  BY <1>1, WordsStay DEF Leaving
<1>. QED BY <1>4, <1>5, <1>6, <1>7

LEMMA ListeningStays ==
  ASSUME Aside, Listening
  PROVE  Listening'
<1>1. UNCHANGED <<isXemu, tgt, cmds, rx, todo, lines, phase, stopped, breakpoint, polled, regs, cache>>
  BY DEF Aside
<1>2. phase' = "events" /\ (Unnoticed => Unnoticed') /\ (Standing => Standing')
  BY <1>1 DEF Listening, Unnoticed, Standing
<1>3. \A c, s : Doing(c, s) => Doing(c, s)'
  BY <1>1, WordsStay DEF Doing
<1>4. \A s : Ready(s) => Ready(s)'
  BY <1>1, WordsStay DEF Ready
<1>5. EventAll' = EventAll /\ Prompt' = Prompt
  BY WordsStay
<1>6. Reported => Reported'
  BY <1>1, <1>5, Zenon DEF Reported, Event
<1>7. RegsIn(lines, tgt.pc) => RegsIn(lines, tgt.pc)'
  <2>1. RegsIn(lines, tgt.pc)' <=> RegsIn(lines', tgt'.pc)
    BY DEF RegsIn, FirstLine
  <2>. QED BY <1>1, <2>1
<1>8. CASE Ready(<<>>) \/ Ready(EventOver) \/ (Ready(EventTold) /\ Standing /\ cache = Empty)
  BY <1>1, <1>2, <1>4, <1>8 DEF Listening
<1>9. CASE todo = <<>> /\ cmds = <<>> /\ Unnoticed /\ Reported
  BY <1>1, <1>2, <1>6, <1>9 DEF Listening
<1>10. CASE /\ Unnoticed /\ cmds = <<>> /\ todo = EventAll
            /\ IF isXemu THEN rx = RegisterLines(tgt.pc)
               ELSE rx \in {RegisterLines(tgt.pc) \o Prompt, <<Blank>> \o RegisterLines(tgt.pc) \o Prompt}
  <2>. DEFINE a == RegisterLines(tgt.pc)
              b == RegisterLines(tgt.pc) \o Prompt
              c == <<Blank>> \o RegisterLines(tgt.pc) \o Prompt
  <2>1. a' = a /\ b' = b /\ c' = c
    <3>1. tgt' = tgt
      BY <1>1
    <3>. QED BY <1>5, <3>1, Zenon
  <2>2. (isXemu => rx = a) /\ (~isXemu => rx = b \/ rx = c)
    BY <1>10, Zenon
  <2>. HIDE DEF a, b, c
  <2>3. (isXemu' => rx' = a') /\ (~isXemu' => rx' = b' \/ rx' = c')
    BY <1>1, <2>1, <2>2
  <2>. USE DEF a, b, c
  <2>4. IF isXemu' THEN rx' = a' ELSE rx' \in {b', c'}
    BY <2>3, Zenon
  <2>5. Unnoticed' /\ cmds' = <<>> /\ todo' = EventAll'
    BY <1>1, <1>2, <1>5, <1>10
  <2>. QED BY <1>2, <2>4, <2>5, Zenon DEF Listening
<1>11. CASE Unnoticed /\ Ready(EventHeard) /\ RegsIn(lines, tgt.pc)
  BY <1>1, <1>2, <1>4, <1>7, <1>11 DEF Listening
<1>12. CASE /\ Unnoticed /\ regs = tgt.pc
            /\ \/ Ready(EventJudged) \/ Doing("code", EventFetched)
               \/ Ready(EventFetched) /\ MemIn(lines)
  <2>1. \/ Ready(EventJudged)' \/ Doing("code", EventFetched)'
        \/ Ready(EventFetched)' /\ MemIn(lines)'
    BY <1>3, <1>4, <1>12, WordsStay
  <2>2. Unnoticed' /\ regs' = tgt'.pc
    BY <1>1, <1>2, <1>12
  <2>. QED BY <1>2, <2>1, <2>2, Zenon DEF Listening
<1>13. CASE (stopped => polled) /\ Doing("t0", EventOver)
  BY <1>1, <1>2, <1>3, <1>13 DEF Listening
<1>. QED BY <1>8, <1>9, <1>10, <1>11, <1>12, <1>13, Zenon DEF Listening

LEMMA PollingStays ==
  ASSUME Aside, Polling
  PROVE  Polling'
<1>1. UNCHANGED <<todo, lines, phase, stopped, polled>>
  BY DEF Aside
<1>2. \A c, s : Doing(c, s) => Doing(c, s)'
  BY <1>1, WordsStay DEF Doing
<1>3. \A s : Ready(s) => Ready(s)'
  BY <1>1, WordsStay DEF Ready
<1>. QED BY <1>1, <1>2, <1>3, WordsStay DEF Polling

LEMMA SideStep ==
  ASSUME QuietInv, Side
  PROVE  Good'
<1>1. /\ ClientInv /\ Place /\ dead = "no" /\ StopHolds /\ ArmedIsKnown /\ NeedsStop
  BY DEF QuietInv, Good, Beliefs, Alive
<1>2. Aside
  <2>1. Request => Aside
    BY DEF Request, Aside, target
  <2>2. Disconnect => Aside
    BY DEF Disconnect, Aside, target, client
  <2>3. UNCHANGED vars => Aside
    BY DEF Aside, vars, target, adapter, client
  <2>. QED BY <2>1, <2>2, <2>3 DEF Side
<1>3. Place'
  <2>1. Launching \/ Running \/ Pausing \/ Continuing \/ Setting => Place'
    BY <1>2, TasksStay DEF Place
  <2>2. (\E p \in Pages : Evaluating(p)) \/ Finishing \/ Between \/ Leaving => Place'
    BY <1>2, OthersStay DEF Place
  <2>3. Stepping \/ Listening \/ Polling => Place'
    BY <1>2, SteppingStays, ListeningStays, PollingStays DEF Place
  <2>. QED BY <1>1, <2>1, <2>2, <2>3 DEF Place
<1>4. /\ UNCHANGED <<tgt, stopped, polled, breakpoint, regs, dead, phase>>
  BY <1>2 DEF Aside
<1>5. CASE task' = task
  <2>1. Aside /\ (Standing => Standing')
    BY <1>2, <1>4 DEF Standing
  <2>2. Pausing => Pausing'
    <3>1. ASSUME Pausing PROVE task = "pause" /\ (Launching' \/ Running' \/ Pausing' \/ Continuing' \/ Setting')
      BY <1>2, <3>1, TasksStay DEF Pausing, InTask
    <3>. QED BY <1>5, <3>1 DEF Launching, Running, Continuing, Setting, InTask
  <2>3. Continuing => Continuing'
    <3>1. ASSUME Continuing PROVE task = "cont" /\ (Launching' \/ Running' \/ Pausing' \/ Continuing' \/ Setting')
      BY <1>2, <3>1, TasksStay DEF Continuing, InTask
    <3>. QED BY <1>5, <3>1 DEF Launching, Running, Pausing, Setting, InTask
  <2>4. Setting => Setting'
    <3>1. ASSUME Setting PROVE task = "setbp" /\ (Launching' \/ Running' \/ Pausing' \/ Continuing' \/ Setting')
      BY <1>2, <3>1, TasksStay DEF Setting, InTask
    <3>. QED BY <1>5, <3>1 DEF Launching, Running, Pausing, Continuing, InTask
  <2>5. Stepping => Stepping'
    BY <1>2, SteppingStays
  <2>6. StopHolds'
    BY <1>1, <1>4, <2>1, <2>2, <2>3, <2>5 DEF StopHolds
  <2>7. ArmedIsKnown'
    BY <1>1, <1>4, <2>4 DEF ArmedIsKnown
  <2>8. Alive' /\ NeedsStop'
    BY <1>1, <1>4, <1>5 DEF Alive, NeedsStop
  <2>. QED BY <1>3, <2>6, <2>7, <2>8 DEF Good, Beliefs
<1>6. CASE task' # task
  <2>1. task = "none" /\ Request
    BY <1>2, <1>6 DEF Aside, Side, Disconnect, vars, adapter
  <2>2. Known /\ (phase \in {"task", "events", "poll"} => Believed)
    BY <1>1, <2>1, BeliefsNow
  <2>3. Known' /\ (phase' \in {"task", "events", "poll"} => Believed')
    BY <1>4, <2>2, BeliefsStay
  <2>4. StopHolds' /\ ArmedIsKnown'
    BY <2>3, NextBeliefs
  <2>5. task' \in {"next"} \cup Pages => shown
    BY <2>1 DEF Request
  <2>6. shown => stopped
    BY <1>1, <2>1 DEF ClientInv, Resuming
  <2>7. Alive' /\ NeedsStop'
    BY <1>1, <1>4, <2>5, <2>6 DEF Alive, NeedsStop
  <2>. QED BY <1>3, <2>4, <2>7 DEF Good, Beliefs
<1>. QED BY <1>5, <1>6

-----------------------------------------------------------------------------
(***************************************************************************)
(* The invariant holds.                                                    *)
(***************************************************************************)
LEMMA GoodInit == ASSUME Quiet, Init PROVE Good
<1>1. /\ cmds = <<>> /\ rx = <<>> /\ todo = <<>> /\ phase = "task" /\ task = "launch"
      /\ stopped = FALSE /\ dead = "no"
  BY DEF Init
<1>2. ~tgt.armed
  <2>1. PICK armed \in {FALSE, LeftoverBp} : tgt = [running |-> TRUE, armed |-> armed, pc |-> "away"]
    BY DEF Init
  <2>2. LeftoverBp \in BOOLEAN /\ ~LeftoverBp
    BY ConstantsAssumption DEF Quiet
  <2>3. armed = FALSE
    BY <2>2
  <2>. QED BY <2>1, <2>3
<1>3. Between
  BY <1>1 DEF Between, Ready, Still
<1>4. StopHolds /\ ArmedIsKnown /\ NeedsStop /\ Alive
  BY <1>1, <1>2 DEF StopHolds, ArmedIsKnown, NeedsStop, Alive, Pages
<1>. QED BY <1>3, <1>4 DEF Good, Beliefs, Place

LEMMA GoodNext == ASSUME Quiet, QuietInv, [Next]_vars PROVE QuietInv'
<1>1. ClientInv'
  BY NextInv DEF QuietInv
<1>2. CASE Side
  BY <1>1, <1>2, SideStep DEF QuietInv
<1>3. CASE ~Side
  <2>1. lines' \in Lines
    BY <1>1 DEF ClientInv, TypeOK, Lines
  <2>2. Turn
    BY <1>3, <2>1 DEF Turn
  <2>3. Good'
    BY <2>2, LaunchingStep, RunningStep, PausingStep, ContinuingStep, SteppingStep, SettingStep,
       EvaluatingStep, FinishingStep, ListeningStep, PollingStep, BetweenStep, LeavingStep
    DEF QuietInv, Good, Place
  <2>. QED BY <1>1, <2>3 DEF QuietInv
<1>. QED BY <1>2, <1>3

(***************************************************************************)
(* Where the main loop's thread is and what it believes, in every          *)
(* reachable state.                                                        *)
(***************************************************************************)
THEOREM QuietInvariant == ASSUME Quiet PROVE Spec => []QuietInv
<1>1. Init => QuietInv
  BY GoodInit, InitInv DEF QuietInv
<1>2. QuietInv /\ [Next]_vars => QuietInv'
  BY GoodNext
<1>. QED BY <1>1, <1>2, PTL DEF Spec

(***************************************************************************)
(* The debugger never brings the adapter down: no exception leaves a task  *)
(* other than set_target() and set_breakpoint(), no wait times out, no     *)
(* event or poll meets lines it cannot read, and the destructor finds the  *)
(* echo it waits for.                                                      *)
(***************************************************************************)
THEOREM DebuggerSurvives == ASSUME Quiet PROVE Spec => []Survives
<1>1. QuietInv => Survives
  BY DEF QuietInv, Good, Beliefs, Survives
<1>. QED BY <1>1, QuietInvariant, PTL

(***************************************************************************)
(* What is on top, and what is not, where nothing is told.                 *)
(***************************************************************************)
Busy == todo # <<>> /\ Head(todo).do # "notify"

LEMMA TopBusy ==
  ASSUME NEW d, NEW a, NEW s, Top(todo, Op(d, a), s), d # "notify"
  PROVE  Busy
BY OpFields DEF Top, Busy

LEMMA DoingBusy ==
  ASSUME NEW c \in Commands, NEW s \in Seq(Ops), Doing(c, s)
  PROVE  Busy
<1>1. Top(todo, Op("send", c), First(Op("await", c), s)) \/ Top(todo, Op("await", c), s)
  BY DoTop DEF Doing
<1>. QED BY <1>1, TopBusy

LEMMA TasksBusy ==
  ASSUME Launching \/ Running \/ Continuing \/ Setting \/ (\E p \in Pages : Evaluating(p)) \/ Finishing
  PROVE  Busy
<1>1. {"keys", "count", "t0", "b"} \cup Pages \subseteq Commands
  BY DEF Commands
<1>2. ASSUME Launching PROVE Busy
  <2>1. todo \in {Load, Loading, Loaded} => Busy
    BY LaunchTops, TopBusy
  <2>. QED BY <1>2, <2>1 DEF Launching, Ready
<1>3. ASSUME Running PROVE Busy
  <2>1. Finish \in Seq(Ops) /\ Do("count", Finish) \in Seq(Ops)
    BY FinishTop, LaunchTops DEF Top
  <2>. QED BY <1>1, <1>3, <2>1, DoingBusy DEF Running
<1>4. ASSUME Continuing PROVE Busy
  <2>1. Resumed \in Seq(Ops)
    BY TaskTops DEF Top
  <2>2. todo = Resumed => Busy
    BY TaskTops, TopBusy
  <2>. QED BY <1>1, <1>4, <2>1, <2>2, DoingBusy DEF Continuing, Ready
<1>5. ASSUME Setting PROVE Busy
  <2>1. BpKnown \in Seq(Ops)
    BY TaskTops DEF Top
  <2>2. todo \in {BpAll, BpKnown} => Busy
    BY TaskTops, TopBusy
  <2>. QED BY <1>1, <1>5, <2>1, <2>2, DoingBusy DEF Setting, Ready
<1>6. ASSUME NEW p \in Pages, Evaluating(p) PROVE Busy
  <2>1. Fetched(p) \in Seq(Ops) /\ p \in Commands
    BY <1>1, TaskTops DEF Top
  <2>2. todo \in {EvalAll(p), Evaluated(p), Fetched(p)} => Busy
    BY TaskTops, TopBusy
  <2>. QED BY <1>6, <2>1, <2>2, DoingBusy DEF Evaluating, Ready
<1>7. ASSUME Finishing PROVE Busy
  BY <1>7, FinishTop, TopBusy DEF Finishing, Ready
<1>. QED BY <1>2, <1>3, <1>4, <1>5, <1>6, <1>7

(***************************************************************************)
(* What is told of a stop is true: the client hears of it while the target *)
(* stands at the PC the debugger has read, with nothing in the cache that  *)
(* was read before, unless the stop was found by polling.                  *)
(***************************************************************************)
LEMMA PauseTells ==
  ASSUME Pausing, At("notify")
  PROVE  Standing /\ cache = Empty
<1>1. "t1" \in Commands /\ "r" \in Commands /\ PauseSet \in Seq(Ops) /\ PauseAsked \in Seq(Ops)
  BY PauseTops DEF Top, Commands
<1>2. ~Busy
  BY DEF At, Busy
<1>3. ~Doing("t1", PauseSet) /\ ~Doing("r", PauseAsked)
  BY <1>1, <1>2, DoingBusy
<1>4. todo \notin {PauseSet, PauseAsked, PauseKnown}
  BY <1>2, PauseTops, TopBusy
<1>. QED BY <1>3, <1>4 DEF Pausing, Ready

LEMMA StepTells ==
  ASSUME Stepping, At("notify")
  PROVE  (polled \/ Standing) /\ cache = Empty
<1>1. "step" \in Commands /\ StepEchoed \in Seq(Ops)
  BY StepTops DEF Top, Commands
<1>2. ~Busy
  BY DEF At, Busy
<1>3. ~Doing("step", StepEchoed)
  BY <1>1, <1>2, DoingBusy
<1>4. todo \notin {StepOverAll, StepAsked, StepKnown}
  BY <1>2, StepTops, TopBusy
<1>5. ~(isXemu /\ todo = StepEchoed)
  BY <1>2, StepTops, TopBusy
<1>. QED BY <1>3, <1>4, <1>5 DEF Stepping, Ready

LEMMA EventTells ==
  ASSUME Listening, At("notify")
  PROVE  Standing /\ cache = Empty
<1>1. /\ "t0" \in Commands /\ "code" \in Commands
      /\ EventOver \in Seq(Ops) /\ EventFetched \in Seq(Ops)
  BY EventTops, FinishTop DEF Top, Commands, Pages
<1>2. ~Busy /\ todo # <<>>
  BY DEF At, Busy
<1>3. ~Doing("t0", EventOver) /\ ~Doing("code", EventFetched)
  BY <1>1, <1>2, DoingBusy
<1>4. todo \notin {EventHeard, EventJudged, EventFetched, EventOver}
  BY <1>2, EventTops, FinishTop, TopBusy
<1>5. todo # EventAll
  <2>1. CASE isXemu
    BY <1>2, <2>1, EventTops, TopBusy
  <2>2. CASE ~isXemu
    BY <1>2, <2>2, EventTops, TopBusy
  <2>. QED BY <2>1, <2>2
<1>. QED BY <1>2, <1>3, <1>4, <1>5, Zenon DEF Listening, Ready

LEMMA PollTells ==
  ASSUME Polling, At("notify")
  PROVE  polled
<1>1. /\ "r" \in Commands /\ "code" \in Commands
      /\ PollAsked \in Seq(Ops) /\ PollFetched \in Seq(Ops)
  BY PollTops DEF Top, Commands, Pages
<1>2. ~Busy /\ todo # <<>>
  BY DEF At, Busy
<1>3. ~Doing("r", PollAsked) /\ ~Doing("code", PollFetched)
  BY <1>1, <1>2, DoingBusy
<1>4. todo \notin {PollJudged, PollAsked, PollFetched, PollOver}
  BY <1>2, PollTops, FinishTop, TopBusy
<1>. QED BY <1>2, <1>3, <1>4 DEF Polling, Ready

LEMMA Truth == QuietInv => TellsTheTruth
<1>. SUFFICES ASSUME QuietInv, At("notify"), ~polled
              PROVE  ~tgt.running /\ regs = tgt.pc /\ \A p \in Pages : cache[p] # "stale"
  BY DEF TellsTheTruth
<1>1. ~Busy /\ todo # <<>>
  BY DEF At, Busy
<1>2. ~Between /\ ~Leaving
  BY <1>1 DEF Between, Leaving, Ready
<1>3. Pausing \/ Stepping \/ Listening \/ Polling
  BY <1>1, <1>2, TasksBusy DEF QuietInv, Good, Place
<1>4. Standing /\ cache = Empty
  BY <1>3, PauseTells, StepTells, EventTells, PollTells
<1>. QED BY <1>4 DEF Standing, Empty

(***************************************************************************)
(* Every announced stop is one: the target stands where the debugger says, *)
(* and nothing it read before the stop will be shown.                      *)
(***************************************************************************)
THEOREM TruthIsTold == ASSUME Quiet PROVE Spec => []TellsTheTruth
<1>. QED BY Truth, QuietInvariant, PTL

(***************************************************************************)
(* Between its tasks, events and polls the debugger believes in a stop     *)
(* only while the target stands at the PC it has read.                     *)
(***************************************************************************)
THEOREM BeliefIsReal == ASSUME Quiet PROVE Spec => []StopIsReal
<1>1. ASSUME QuietInv, NEW p \in {"task", "events", "poll"}, Idle(p), stopped, ~polled
      PROVE  ~tgt.running /\ regs = tgt.pc
  <2>1. ~Midway /\ phase \in {"task", "events", "poll"}
    BY <1>1 DEF Midway, Idle
  <2>2. Believed
    BY <1>1, <2>1, NotMidway DEF QuietInv, Good, Beliefs
  <2>. QED BY <1>1, <2>2 DEF Believed, Standing
<1>2. QuietInv => StopIsReal
  BY <1>1, Zenon DEF StopIsReal
<1>. QED BY <1>2, QuietInvariant, PTL

(***************************************************************************)
(* Whenever the loop comes to look for a task, every command was answered  *)
(* and every line of every answer read.                                    *)
(***************************************************************************)
THEOREM RepliesStayPaired == ASSUME Quiet PROVE Spec => []RepliesAreConsumed
<1>1. ASSUME QuietInv, Idle("task") PROVE cmds = <<>> /\ rx = <<>>
  <2>1. todo = <<>> /\ phase = "task" /\ ~Busy /\ ~Midway
    BY <1>1 DEF Idle, Busy, Midway
  <2>2. ~Pausing /\ ~Stepping
    BY <2>1, ActiveMidway
  <2>3. ~Listening /\ ~Polling /\ ~Leaving
    BY <2>1 DEF Listening, Polling, Leaving
  <2>4. Between
    BY <1>1, <2>1, <2>2, <2>3, TasksBusy DEF QuietInv, Good, Place
  <2>. QED BY <2>4 DEF Between, Ready, Still
<1>2. QuietInv => RepliesAreConsumed
  BY <1>1 DEF RepliesAreConsumed
<1>. QED BY <1>2, QuietInvariant, PTL

(***************************************************************************)
(* One command at a time: while one is unanswered nothing has arrived.     *)
(***************************************************************************)
OneAtATime == cmds # <<>> => rx = <<>>

LEMMA DoingOne ==
  /\ Still => OneAtATime
  /\ \A c : Asked(c) \/ Answered(c) => OneAtATime
  /\ \A s : Ready(s) => OneAtATime
  /\ \A c, s : Doing(c, s) => OneAtATime
<1>1. Still => OneAtATime
  BY DEF Still, OneAtATime
<1>2. \A c : Asked(c) \/ Answered(c) => OneAtATime
  BY DEF Asked, Answered, OneAtATime
<1>3. \A s : Ready(s) => OneAtATime
  BY <1>1 DEF Ready
<1>4. \A c, s : Doing(c, s) => OneAtATime
  BY <1>1, <1>2 DEF Doing
<1>. QED BY <1>1, <1>2, <1>3, <1>4

LEMMA PlaceOne == Place => OneAtATime
<1>1. Launching \/ Running \/ Pausing \/ Continuing => OneAtATime
  BY DoingOne DEF Launching, Running, Pausing, Continuing
<1>2. ASSUME Stepping PROVE OneAtATime
  <2>1. cmds = <<>> => OneAtATime
    BY DEF OneAtATime
  <2>. QED BY <1>2, <2>1, DoingOne DEF Stepping
<1>3. Setting \/ (\E p \in Pages : Evaluating(p)) \/ Finishing \/ Between \/ Leaving => OneAtATime
  BY DoingOne DEF Setting, Evaluating, Finishing, Between, Leaving
<1>4. ASSUME Listening PROVE OneAtATime
  <2>1. cmds = <<>> => OneAtATime
    BY DEF OneAtATime
  <2>. QED BY <1>4, <2>1, DoingOne, Zenon DEF Listening
<1>5. Polling => OneAtATime
  BY DoingOne DEF Polling
<1>. QED BY <1>1, <1>2, <1>3, <1>4, <1>5 DEF Place

LEMMA TailShorter ==
  ASSUME NEW q \in Seq(Ops), q # <<>>
  PROVE  Tail(q) # q
<1>1. Len(q) \in Nat /\ Len(q) # 0
  BY EmptySeq
<1>2. Len(Tail(q)) = Len(q) - 1
  BY HeadTailProperties
<1>3. \A m, n \in Nat : m = n - 1 => m # n
  OBVIOUS
<1>4. Len(Tail(q)) \in Nat
  BY LenProperties, HeadTailProperties
<1>5. Len(Tail(q)) # Len(q)
  BY <1>1, <1>2, <1>3, <1>4, Zenon
<1>. QED BY <1>5, Zenon

LEMMA OnlyOwn ==
  ASSUME Quiet, QuietInv, Next, At("await"), rx' # rx, todo' = Rest, cmds # <<>>
  PROVE  FALSE
<1>1. rx = <<>> /\ todo # <<>> /\ todo \in Seq(Ops) /\ \A d : At(d) => d = "await"
  BY PlaceOne DEF QuietInv, Good, ClientInv, TypeOK, OneAtATime, At
<1>2. todo' # todo
  <2>1. Tail(todo) # todo
    BY <1>1, TailShorter
  <2>. QED BY <1>1, <2>1 DEF Rest
<1>3. ~Process
  BY <1>2 DEF Process
<1>4. ~Hit
  BY <1>1 DEF Hit, Quiet
<1>5. ~Send /\ ~GetLines /\ ~Timeout /\ ~ReadEvent
  BY <1>1 DEF Send, GetLines, Timeout, GivesUpAt, ReadEvent, Quiet
<1>6. ~Local
  BY DEF Local, UpdateRegs, HandleBreakpoint, Verdict, Fill, Require, Assign, Symbols, Notify,
         Evaluate, target
<1>7. ~Loop
  BY <1>1 DEF Loop, TakeTask, Return, NoTask, NoEvent, DoEvent, EventDone, NoPoll, Poll, PollDone,
              Joined, ResetTarget, Idle, Unchanged, target
<1>8. ~Request /\ ~Disconnect /\ ~Over
  BY DEF Request, Disconnect, Over, vars, target
<1>. QED BY <1>3, <1>4, <1>5, <1>6, <1>7, <1>8 DEF Next, Connection

(***************************************************************************)
(* What execute_command() takes for the reply to its command is that       *)
(* reply: when it returns, the target has nothing left to answer.          *)
(***************************************************************************)
THEOREM RepliesAreOwn == ASSUME Quiet PROVE Spec => ReplyIsOwn
<1>1. QuietInv /\ [Next]_vars => [At("await") /\ rx' # rx /\ todo' = Rest => cmds = <<>>]_vars
  BY OnlyOwn
<1>. QED BY <1>1, QuietInvariant, PTL DEF Spec, ReplyIsOwn

-----------------------------------------------------------------------------
(***************************************************************************)
(* The memory that an evaluation shows, under the same conditions, is the  *)
(* target's as it is at the stop, unless that was found by polling.        *)
(***************************************************************************)

(***************************************************************************)
(* Nothing that was read before the stop is in the cache, but in a task    *)
(* that empties it or resumes the target before it returns.  ReadIsClean   *)
(* speaks of the lines that are about to enter the cache.  Keys sent by    *)
(* run_target() age what was read, but a stop before that found nothing    *)
(* read: RunsFirst.  A request has no answer until its task returns or     *)
(* shows one.                                                              *)
(***************************************************************************)
Trusting == stopped /\ ~polled
Dues     == {"pause", "cont", "next"}
Due      == phase = "task" /\ task \in Dues /\ ~At("return")
Clean    == \A p \in Pages : cache[p] # "stale"

CacheIsClean == Trusting /\ phase \in {"task", "events", "poll"} => Clean \/ Due
RunsFirst    == Trusting /\ (~configured \/ task = "run") => cache = Empty
NeedsRun     == task \in Dues \cup Pages => configured
ReadIsClean  == Trusting /\ At("fill") => \A i \in DOMAIN lines : lines[i] # Mem("stale")

AnswerIsOpen == task # "none" /\ todo # Finish => answer = "none"

Fresh == CacheIsClean /\ RunsFirst /\ NeedsRun /\ ReadIsClean /\ AnswerIsOpen

LEMMA FreshInit == Init => Fresh
BY DEF Init, Fresh, CacheIsClean, RunsFirst, NeedsRun, ReadIsClean, AnswerIsOpen, Trusting, Dues, Pages

-----------------------------------------------------------------------------
(***************************************************************************)
(* The order of the operations of pause(), cont() and next(): only the     *)
(* announcement of a stop, or the end of it, is right before the return.   *)
(***************************************************************************)
Steps == {"send", "await", "getlines", "stopped", "resumed", "regs", "forget", "notify", "require"}
Lasts == {"notify", "resumed"}
Goes(s) == /\ s # <<>> /\ Head(s).do \in Steps
           /\ Tail(s) # <<>> /\ (Head(Tail(s)).do = "return" => Head(s).do \in Lasts)

LEMMA LastGoes ==
  ASSUME NEW s, NEW d \in Lasts, NEW a, Top(s, Op(d, a), Finish)
  PROVE  Goes(s)
<1>1. Finish # <<>>
  BY FinishTop DEF Top
<1>. QED BY <1>1, OpFields DEF Top, Goes, Steps, Lasts

GoesOn(t) == t # <<>> /\ Head(t).do # "return"

LEMMA TopGoesOn ==
  ASSUME NEW d, NEW a, NEW s, NEW t, Top(s, Op(d, a), t), d # "return"
  PROVE  GoesOn(s)
BY OpFields DEF Top, GoesOn

LEMMA TopGoes ==
  ASSUME NEW s, NEW d \in Steps, NEW a, NEW t, Top(s, Op(d, a), t), GoesOn(t)
  PROVE  Goes(s)
BY OpFields DEF Top, Goes, GoesOn

LEMMA DoGoesOn == ASSUME NEW c \in Commands, NEW s \in Seq(Ops) PROVE GoesOn(Do(c, s))
BY DoTop, TopGoesOn

LEMMA DoingGoes ==
  ASSUME NEW c \in Commands, NEW s \in Seq(Ops), Doing(c, s), GoesOn(s)
  PROVE  Goes(todo)
<1>1. /\ Top(Do(c, s), Op("send", c), First(Op("await", c), s))
      /\ Top(First(Op("await", c), s), Op("await", c), s)
  BY DoTop
<1>2. GoesOn(First(Op("await", c), s))
  BY <1>1, TopGoesOn
<1>3. Goes(Do(c, s)) /\ Goes(First(Op("await", c), s))
  BY <1>1, <1>2, TopGoes DEF Steps
<1>. QED BY <1>3 DEF Doing

LEMMA PausingGoes == Pausing => Goes(todo)
<1>1. "t1" \in Commands /\ "r" \in Commands /\ PauseSet \in Seq(Ops) /\ PauseAsked \in Seq(Ops)
  BY PauseTops DEF Top, Commands
<1>7. GoesOn(Paused) /\ GoesOn(PauseKnown) /\ GoesOn(PauseAsked) /\ GoesOn(PauseSet)
  BY PauseTops, TopGoesOn
<1>2. Doing("t1", PauseSet) => Goes(todo)
  BY <1>1, <1>7, DoingGoes
<1>3. Doing("r", PauseAsked) => Goes(todo)
  BY <1>1, <1>7, DoingGoes
<1>4. Goes(Paused)
  BY PauseTops, LastGoes DEF Lasts
<1>5. Goes(PauseKnown) /\ Goes(PauseAsked)
  BY <1>7, PauseTops, TopGoes DEF Steps
<1>6. Goes(PauseSet)
  <2>1. GoesOn(Do("r", PauseAsked))
    BY <1>1, DoGoesOn
  <2>. QED BY <2>1, PauseTops, TopGoes DEF Steps
<1>. QED BY <1>2, <1>3, <1>4, <1>5, <1>6 DEF Pausing, Ready

LEMMA ContinuingGoes == Continuing => Goes(todo)
<1>1. "t0" \in Commands /\ Resumed \in Seq(Ops)
  BY TaskTops DEF Top, Commands
<1>4. GoesOn(Resumed)
  BY TaskTops, TopGoesOn
<1>2. Doing("t0", Resumed) => Goes(todo)
  BY <1>1, <1>4, DoingGoes
<1>3. Goes(Resumed)
  BY TaskTops, LastGoes DEF Lasts
<1>. QED BY <1>2, <1>3 DEF Continuing, Ready

LEMMA SteppingGoes == Stepping => Goes(todo)
<1>1. "step" \in Commands /\ StepEchoed \in Seq(Ops)
  BY StepTops DEF Top, Commands
<1>7. GoesOn(Stepped) /\ GoesOn(StepKnown) /\ GoesOn(StepAsked)
  BY StepTops, TopGoesOn
<1>2. Goes(Stepped)
  BY StepTops, LastGoes DEF Lasts
<1>3. Goes(StepKnown) /\ Goes(StepAsked)
  BY <1>7, StepTops, TopGoes DEF Steps
<1>4. isXemu => Goes(StepEchoed)
  BY <1>7, StepTops, TopGoes DEF Steps
<1>5. Doing("step", StepEchoed) => Goes(todo)
  <2>1. isXemu => GoesOn(StepEchoed)
    BY StepTops, TopGoesOn
  <2>2. ~isXemu => StepEchoed = StepAsked
    BY DEF StepEchoed
  <2>. QED BY <1>1, <1>7, <2>1, <2>2, DoingGoes
<1>6. Goes(StepOverAll)
  <2>1. GoesOn(Do("step", StepEchoed))
    BY <1>1, DoGoesOn
  <2>. QED BY <2>1, StepTops, TopGoes DEF Steps
<1>. QED BY <1>2, <1>3, <1>4, <1>5, <1>6 DEF Stepping, Ready

LEMMA DueGoes ==
  ASSUME QuietInv, Due, todo # <<>>
  PROVE  Goes(todo)
<1>1. phase = "task" /\ task \in Dues /\ ~At("return") /\ Alive /\ Place
  BY DEF Due, QuietInv, Good, Beliefs
<1>2. ~Finishing
  <2>1. todo = Finish => At("return")
    <3>1. Finish # <<>> /\ Head(Finish) = Op("return", "") /\ Op("return", "").do = "return"
      BY FinishTop, OpFields DEF Top
    <3>. QED BY <1>1, <3>1, Zenon DEF At
  <2>. QED BY <1>1, <2>1 DEF Finishing, Ready
<1>3. ~Launching /\ ~Running /\ ~Setting /\ ~(\E p \in Pages : Evaluating(p))
  BY <1>1 DEF Launching, Running, Setting, Evaluating, InTask, Dues, Pages
<1>4. ~Listening /\ ~Polling /\ ~Between /\ ~Leaving
  BY <1>1 DEF Listening, Polling, Between, Leaving, Ready
<1>. QED BY <1>1, <1>2, <1>3, <1>4, PausingGoes, ContinuingGoes, SteppingGoes DEF Place

-----------------------------------------------------------------------------
(***************************************************************************)
(* Where operations are that make the debugger believe in a stop, put what *)
(* was read into the cache, or show it.                                    *)
(***************************************************************************)
LEMMA OnTop ==
  ASSUME NEW e, At(e), NEW d, NEW a, NEW s, NEW t, Top(s, Op(d, a), t), todo = s
  PROVE  e = d
BY OpFields DEF Top, At

LEMMA OnDoing ==
  ASSUME NEW e, At(e), NEW c \in Commands, NEW s \in Seq(Ops), Doing(c, s)
  PROVE  e \in {"send", "await"}
<1>1. /\ Top(Do(c, s), Op("send", c), First(Op("await", c), s))
      /\ Top(First(Op("await", c), s), Op("await", c), s)
  BY DoTop
<1>2. todo = Do(c, s) => e = "send"
  BY <1>1, OnTop
<1>3. todo = First(Op("await", c), s) => e = "await"
  BY <1>1, OnTop
<1>. QED BY <1>2, <1>3 DEF Doing

Stores == {"stopped", "fill", "evaluate"}

LEMMA FewStore ==
  ASSUME NEW e \in Stores, At(e)
  PROVE  ~Launching /\ ~Running /\ ~Continuing /\ ~Setting /\ ~Finishing
<1>1. e # "send" /\ e # "await" /\ e \notin {"getlines", "symbols", "resumed", "bpset", "require", "return"}
  BY DEF Stores
<1>2. {"keys", "count", "t0", "b"} \subseteq Commands
  BY DEF Commands
<1>3. ~Launching
  <2>1. todo \notin {Load, Loading, Loaded}
    BY <1>1, LaunchTops, OnTop
  <2>. QED BY <2>1 DEF Launching, Ready
<1>4. ~Running
  <2>1. Finish \in Seq(Ops) /\ Do("count", Finish) \in Seq(Ops)
    BY FinishTop, LaunchTops DEF Top
  <2>2. ~Doing("keys", Do("count", Finish)) /\ ~Doing("count", Finish)
    BY <1>1, <1>2, <2>1, OnDoing
  <2>. QED BY <2>2 DEF Running
<1>5. ~Continuing
  <2>1. todo # Resumed
    BY <1>1, TaskTops, OnTop
  <2>2. Resumed \in Seq(Ops)
    BY TaskTops DEF Top
  <2>3. ~Doing("t0", Resumed)
    BY <1>1, <1>2, <2>2, OnDoing
  <2>. QED BY <2>1, <2>3 DEF Continuing, Ready
<1>6. ~Setting
  <2>1. todo \notin {BpAll, BpKnown}
    BY <1>1, TaskTops, OnTop
  <2>2. BpKnown \in Seq(Ops)
    BY TaskTops DEF Top
  <2>3. ~Doing("b", BpKnown)
    BY <1>1, <1>2, <2>2, OnDoing
  <2>. QED BY <2>1, <2>3 DEF Setting, Ready
<1>7. ~Finishing
  BY <1>1, FinishTop, OnTop DEF Finishing, Ready
<1>. QED BY <1>3, <1>4, <1>5, <1>6, <1>7

LEMMA StepStoresNothing == ASSUME NEW e \in Stores, At(e) PROVE ~Stepping
<1>1. e \notin {"send", "await", "notify", "forget", "regs", "getlines", "require"}
  BY DEF Stores
<1>2. "step" \in Commands /\ StepEchoed \in Seq(Ops)
  BY StepTops DEF Top, Commands
<1>3. ~Doing("step", StepEchoed)
  BY <1>1, <1>2, OnDoing
<1>4. todo \notin {StepOverAll, StepAsked, StepKnown, Stepped}
  BY <1>1, StepTops, OnTop
<1>5. ~(isXemu /\ todo = StepEchoed)
  BY <1>1, StepTops, OnTop
<1>. QED BY <1>3, <1>4, <1>5 DEF Stepping, Ready

LEMMA PauseStores == ASSUME NEW e \in {"fill", "evaluate"}, At(e) PROVE ~Pausing
<1>0. e \notin {"send", "await", "stopped", "regs", "forget", "notify"}
  OBVIOUS
<1>1. "t1" \in Commands /\ "r" \in Commands /\ PauseSet \in Seq(Ops) /\ PauseAsked \in Seq(Ops)
  BY PauseTops DEF Top, Commands
<1>2. ~Doing("t1", PauseSet) /\ ~Doing("r", PauseAsked)
  BY <1>0, <1>1, OnDoing
<1>3. todo \notin {PauseSet, PauseAsked, PauseKnown, Paused}
  BY <1>0, PauseTops, OnTop
<1>. QED BY <1>2, <1>3 DEF Pausing, Ready

LEMMA EvaluateStores ==
  ASSUME NEW e, e = "stopped", At(e)
  PROVE  \A p \in Pages : ~Evaluating(p)
<1>. SUFFICES ASSUME NEW p \in Pages, Evaluating(p) PROVE FALSE
  OBVIOUS
<1>0. e \notin {"send", "await", "fill", "require", "evaluate"}
  OBVIOUS
<1>1. Fetched(p) \in Seq(Ops) /\ p \in Commands
  BY TaskTops DEF Top, Commands
<1>2. ~Doing(p, Fetched(p))
  BY <1>0, <1>1, OnDoing
<1>3. todo \notin {EvalAll(p), Evaluated(p), Fetched(p)}
  BY <1>0, TaskTops, OnTop
<1>. QED BY <1>2, <1>3 DEF Evaluating, Ready

LEMMA EventStores ==
  ASSUME NEW e \in Stores, At(e), Listening
  PROVE  e = "fill" /\ ~Trusting
<1>1. e \notin {"send", "await", "notify", "verdict", "event", "readevent", "getlines", "eventdone"}
  BY DEF Stores
<1>2. /\ "t0" \in Commands /\ "code" \in Commands /\ todo # <<>>
      /\ EventOver \in Seq(Ops) /\ EventFetched \in Seq(Ops)
  BY EventTops, FinishTop DEF Top, Commands, Pages, At
<1>3. ~Doing("t0", EventOver) /\ ~Doing("code", EventFetched)
  BY <1>1, <1>2, OnDoing
<1>4. todo \notin {EventHeard, EventJudged, EventTold, EventOver}
  BY <1>1, EventTops, FinishTop, OnTop
<1>5. todo # EventAll
  <2>1. CASE isXemu
    BY <1>1, <2>1, EventTops, OnTop
  <2>2. CASE ~isXemu
    BY <1>1, <2>2, EventTops, OnTop
  <2>. QED BY <2>1, <2>2
<1>6. todo = EventFetched => e = "fill"
  BY EventTops, OnTop
<1>7. Unnoticed /\ todo = EventFetched
  BY <1>2, <1>3, <1>4, <1>5, Zenon DEF Listening, Ready
<1>. QED BY <1>6, <1>7 DEF Unnoticed, Trusting

LEMMA PollStores ==
  ASSUME NEW e \in Stores, At(e), Polling
  PROVE  e = "fill" /\ ~Trusting
<1>1. e \notin {"send", "await", "notify", "verdict", "regs", "polldone"}
  BY DEF Stores
<1>2. /\ "r" \in Commands /\ "code" \in Commands /\ todo # <<>>
      /\ PollAsked \in Seq(Ops) /\ PollFetched \in Seq(Ops)
  BY PollTops DEF Top, Commands, Pages, At
<1>3. ~Doing("r", PollAsked) /\ ~Doing("code", PollFetched)
  BY <1>1, <1>2, OnDoing
<1>4. todo \notin {PollJudged, PollAsked, PollTold, PollOver}
  BY <1>1, PollTops, FinishTop, OnTop
<1>5. todo = PollFetched => e = "fill"
  BY PollTops, OnTop
<1>6. todo = PollFetched /\ ~stopped
  BY <1>2, <1>3, <1>4 DEF Polling, Ready
<1>. QED BY <1>5, <1>6 DEF Trusting

LEMMA Storing ==
  ASSUME QuietInv
  PROVE  /\ At("stopped") => phase = "task" /\ task = "pause"
         /\ At("fill") /\ Trusting => \E p \in Pages : Evaluating(p)
         /\ At("evaluate") => \E p \in Pages : Evaluating(p)
<1>1. Place
  BY DEF QuietInv, Good
<1>2. \A e \in Stores : At(e) => ~Between /\ ~Leaving
  BY DEF At, Between, Leaving, Ready
<1>3. ASSUME At("stopped") PROVE phase = "task" /\ task = "pause"
  <2>1. Pausing
    BY <1>1, <1>2, <1>3, FewStore, StepStoresNothing, EvaluateStores, EventStores, PollStores
    DEF Place, Stores
  <2>. QED BY <2>1 DEF Pausing, InTask
<1>4. ASSUME At("fill"), Trusting PROVE \E p \in Pages : Evaluating(p)
  BY <1>1, <1>2, <1>4, FewStore, StepStoresNothing, PauseStores, EventStores, PollStores
  DEF Place, Stores
<1>5. ASSUME At("evaluate") PROVE \E p \in Pages : Evaluating(p)
  BY <1>1, <1>2, <1>5, FewStore, StepStoresNothing, PauseStores, EventStores, PollStores
  DEF Place, Stores
<1>. QED BY <1>3, <1>4, <1>5

-----------------------------------------------------------------------------
(***************************************************************************)
(* While the target stands, the lines of a memory dump show its memory as  *)
(* it is.                                                                  *)
(***************************************************************************)
LEMMA CatWithout ==
  ASSUME NEW x \in Lines, NEW y \in Lines, NEW m,
         \A i \in 1 .. Len(x) : x[i] # m, \A i \in 1 .. Len(y) : y[i] # m
  PROVE  \A i \in 1 .. Len(Cat(x, y)) : Cat(x, y)[i] # m
<1>. DEFINE z == Cat(x, y)
            a == Len(x)
            b == Len(y)
<1>1. /\ z \in Lines /\ Len(z) = a + b /\ a \in Nat /\ b \in Nat
      /\ \A i \in 1 .. a : z[i] = x[i]
      /\ \A i \in 1 .. b : z[a + i] = y[i]
  <2>1. a \in Nat /\ b \in Nat
    BY DEF Lines
  <2>. QED BY <2>1, JoinedCat
<1>2. (\A i \in 1 .. a : x[i] # m) /\ (\A i \in 1 .. b : y[i] # m)
  OBVIOUS
<1>. HIDE DEF z, a, b
<1>3. ASSUME NEW i \in 1 .. Len(z) PROVE z[i] # m
  <2>1. CASE i \in 1 .. a
    BY <1>1, <1>2, <2>1
  <2>2. CASE i \notin 1 .. a
    <3>1. i - a \in 1 .. b /\ a + (i - a) = i
      BY <1>1, <1>3, <2>2
    <3>2. z[a + (i - a)] = y[i - a]
      BY <1>1, <3>1
    <3>3. y[i - a] # m
      BY <1>2, <3>1
    <3>. QED BY <3>1, <3>2, <3>3
  <2>. QED BY <2>1, <2>2
<1>. QED BY <1>3 DEF z

LEMMA Ages == /\ Mem("fresh") # Mem("stale") /\ Dot # Mem("stale") /\ Blank # Mem("stale")
              /\ \A c : Echo(c) # Mem("stale")
BY DEF Line, Mem, Dot, Blank, Echo

LEMMA ShowsNow ==
  ASSUME NEW p \in Pages, ~tgt.running, Answered(p)
  PROVE  rx \in Lines /\ \A i \in 1 .. Len(rx) : rx[i] # Mem("stale")
<1>1. PICK pc \in PCs : rx = Reply(p, pc)
  BY DEF Answered
<1>. DEFINE x == <<Echo(p), Mem("fresh")>>
<1>2. Reply(p, pc) = Cat(x, Prompt)
  <2>1. Reply(p, pc) = x \o Prompt
    BY DEF Reply, Pages
  <2>. QED BY <2>1, Zenon DEF Cat
<1>3. p \in Commands
  BY DEF Commands
<1>4. x \in Lines /\ Len(x) = 2 /\ x[1] = Echo(p) /\ x[2] = Mem("fresh")
  <2>1. Echo(p) \in LinesOfTarget /\ Mem("fresh") \in LinesOfTarget
    BY <1>3, EchoLines
  <2>. QED BY <2>1, LineTuples
<1>. HIDE DEF x
<1>5. \A i \in 1 .. Len(x) : x[i] # Mem("stale")
  BY <1>4, Ages
<1>6. \A i \in 1 .. Len(Prompt) : Prompt[i] # Mem("stale")
  <2>. DEFINE n == Len(Prompt)
              q == Prompt
              m == Mem("stale")
  <2>1. q \in Lines /\ n \in Nat /\ n >= 1 /\ q[n] = Dot /\ \A i \in 1 .. n - 1 : q[i] = Blank
    BY PromptEnds
  <2>2. Dot # m /\ Blank # m
    BY Ages
  <2>. HIDE DEF n, q, m
  <2>3. \A i \in 1 .. n : q[i] # m
    <3>. SUFFICES ASSUME NEW i \in 1 .. n PROVE q[i] # m
      OBVIOUS
    <3>1. i = n \/ i \in 1 .. n - 1
      BY <2>1
    <3>. QED BY <2>1, <2>2, <3>1
  <2>. QED BY <2>3 DEF n, q, m
<1>7. Cat(x, Prompt) \in Lines /\ \A i \in 1 .. Len(Cat(x, Prompt)) : Cat(x, Prompt)[i] # Mem("stale")
  <2>. DEFINE q == Prompt
              m == Mem("stale")
  <2>1. q \in Lines /\ \A i \in 1 .. Len(q) : q[i] # m
    BY <1>6, PromptEnds
  <2>2. x \in Lines /\ \A i \in 1 .. Len(x) : x[i] # m
    BY <1>4, <1>5
  <2>. HIDE DEF q, m
  <2>3. Cat(x, q) \in Lines
    BY <2>1, <2>2, JoinedCat
  <2>4. \A i \in 1 .. Len(Cat(x, q)) : Cat(x, q)[i] # m
    BY <2>1, <2>2, CatWithout
  <2>. QED BY <2>3, <2>4 DEF q, m
<1>. QED BY <1>1, <1>2, <1>7, Zenon

LEMMA GetsOnly ==
  ASSUME rx \in Lines, NEW m, \A i \in 1 .. Len(rx) : rx[i] # m, GetLines
  PROVE  Throw \/ \A i \in DOMAIN lines' : lines'[i] # m
<1>1. PICK k \in DOMAIN rx :
         \/ Throw \/ lines' = SubSeq(rx, 1, k - 1)
         \/ SubSeq(rx, 1, k - 1) # <<>> /\ lines' = Tail(SubSeq(rx, 1, k - 1))
  BY Zenon DEF GetLines
<1>. DEFINE got == SubSeq(rx, 1, k - 1)
<1>2. k \in 1 .. Len(rx) /\ Len(rx) \in Nat
  BY DEF Lines
<1>3. got \in Lines /\ Len(got) = k - 1 /\ \A i \in 1 .. k - 1 : got[i] = rx[i]
  BY <1>2 DEF Lines
<1>4. \A i \in DOMAIN got : got[i] # m
  BY <1>2, <1>3 DEF Lines
<1>5. got # <<>> => \A i \in DOMAIN Tail(got) : Tail(got)[i] # m
  <2>. HIDE DEF got
  <2>1. ASSUME got # <<>>, NEW i \in DOMAIN Tail(got) PROVE Tail(got)[i] # m
    BY <1>3, <1>4, <2>1 DEF Lines
  <2>. QED BY <2>1
<1>. QED BY <1>1, <1>4, <1>5, Zenon

-----------------------------------------------------------------------------
(***************************************************************************)
(* Who has asked what the target is about to process.                      *)
(***************************************************************************)
LEMMA DoingAsks ==
  ASSUME NEW c \in Commands, NEW s \in Seq(Ops), Doing(c, s), cmds # <<>>
  PROVE  Head(cmds) = c /\ ~At("return")
<1>1. todo = First(Op("await", c), s) /\ Asked(c)
  BY DEF Doing, Still, Answered
<1>2. Top(First(Op("await", c), s), Op("await", c), s)
  BY DoTop
<1>3. Head(cmds) = c
  BY <1>1 DEF Asked
<1>4. ~At("return")
  BY <1>1, <1>2, OnTop
<1>. QED BY <1>3, <1>4

LEMMA ReadyAsks == ASSUME cmds # <<>>, NEW s PROVE ~Ready(s)
BY DEF Ready, Still

LEMMA TasksAsk ==
  ASSUME Alive, cmds # <<>>, Launching \/ Running \/ Pausing \/ Continuing \/ Stepping \/ Setting
  PROVE  \/ Head(cmds) \in {"t0", "step"} /\ Due
         \/ Head(cmds) \in {"keys", "count"} /\ task = "run"
         \/ Head(cmds) \notin {"t0", "step", "keys", "count"}
<1>1. {"load", "keys", "count", "t1", "r", "t0", "step", "b"} \subseteq Commands
  BY DEF Commands
<1>2. /\ Do("count", Finish) \in Seq(Ops) /\ Finish \in Seq(Ops)
      /\ PauseSet \in Seq(Ops) /\ PauseAsked \in Seq(Ops) /\ StepEchoed \in Seq(Ops)
      /\ Resumed \in Seq(Ops) /\ BpKnown \in Seq(Ops)
  BY LaunchTops, FinishTop, PauseTops, StepTops, TaskTops DEF Top
<1>3. CASE Launching
  BY <1>3, ReadyAsks DEF Launching, Asked, Answered
<1>4. CASE Running
  <2>1. Head(cmds) \in {"keys", "count"}
    BY <1>1, <1>2, <1>4, DoingAsks DEF Running
  <2>. QED BY <1>4, <2>1 DEF Running, InTask
<1>5. CASE Pausing
  <2>1. Head(cmds) \in {"t1", "r"}
    BY <1>1, <1>2, <1>5, DoingAsks, ReadyAsks DEF Pausing
  <2>. QED BY <2>1
<1>6. CASE Continuing
  <2>1. Head(cmds) = "t0" /\ ~At("return")
    BY <1>1, <1>2, <1>6, DoingAsks, ReadyAsks DEF Continuing
  <2>. QED BY <1>6, <2>1 DEF Continuing, InTask, Due, Dues
<1>7. CASE Stepping
  <2>1. Head(cmds) = "step" /\ ~At("return")
    BY <1>1, <1>2, <1>7, DoingAsks, ReadyAsks DEF Stepping
  <2>. QED BY <1>7, <2>1 DEF Stepping, InTask, Due, Dues
<1>8. CASE Setting
  <2>1. Head(cmds) = "b"
    BY <1>1, <1>2, <1>8, DoingAsks, ReadyAsks DEF Setting
  <2>. QED BY <2>1
<1>. QED BY <1>3, <1>4, <1>5, <1>6, <1>7, <1>8

LEMMA LoopAsks ==
  ASSUME cmds # <<>>, (\E p \in Pages : Evaluating(p)) \/ Finishing \/ Listening \/ Polling \/ Between
  PROVE  \/ Head(cmds) = "t0" /\ ~Trusting
         \/ Head(cmds) \notin {"t0", "step", "keys", "count"}
<1>1. {"t0", "r"} \subseteq Commands /\ Pages \subseteq Commands /\ "code" \in Pages
  BY DEF Commands, Pages
<1>2. /\ EventOver \in Seq(Ops) /\ EventFetched \in Seq(Ops) /\ PollAsked \in Seq(Ops)
      /\ PollFetched \in Seq(Ops)
  BY EventTops, PollTops, FinishTop DEF Top
<1>3. CASE \E p \in Pages : Evaluating(p)
  <2>1. PICK p \in Pages : Evaluating(p)
    BY <1>3
  <2>2. Fetched(p) \in Seq(Ops) /\ p \in Commands
    BY <1>1, TaskTops DEF Top
  <2>3. Head(cmds) = p
    BY <2>1, <2>2, DoingAsks, ReadyAsks DEF Evaluating
  <2>. QED BY <2>3 DEF Pages
<1>4. CASE Finishing \/ Between
  BY <1>4, ReadyAsks DEF Finishing, Between
<1>5. CASE Listening
  <2>1. Doing("code", EventFetched) \/ (Doing("t0", EventOver) /\ ~Trusting)
    BY <1>5, ReadyAsks, Zenon DEF Listening, Trusting
  <2>2. \/ Head(cmds) = "code"
        \/ Head(cmds) = "t0" /\ ~Trusting
    BY <1>1, <1>2, <2>1, DoingAsks
  <2>. QED BY <2>2
<1>6. CASE Polling
  <2>1. Doing("r", PollAsked) \/ Doing("code", PollFetched)
    BY <1>6, ReadyAsks DEF Polling
  <2>2. Head(cmds) \in {"r", "code"}
    BY <1>1, <1>2, <2>1, DoingAsks
  <2>. QED BY <2>2
<1>. QED BY <1>3, <1>4, <1>5, <1>6

LEMMA Asking ==
  ASSUME QuietInv, cmds # <<>>, phase # "reset"
  PROVE  \/ Head(cmds) \in {"t0", "step"} /\ (Due \/ ~Trusting)
         \/ Head(cmds) \in {"keys", "count"} /\ task = "run"
         \/ Head(cmds) \notin {"t0", "step", "keys", "count"}
<1>1. Place /\ Alive /\ ~Leaving
  BY DEF QuietInv, Good, Beliefs, Leaving
<1>. QED BY <1>1, TasksAsk, LoopAsks DEF Place

(***************************************************************************)
(* What the target does to what was read.                                  *)
(***************************************************************************)
LEMMA Aging ==
  ASSUME QuietInv, Process
  PROVE  /\ cache' = cache \/ cache' = Aged
         /\ cache = Empty => cache' = Empty
         /\ phase # "reset" /\ Trusting /\ ~Due =>
              cache' = cache \/ (task = "run" /\ cache' = Aged)
<1>1. cmds # <<>> /\ cache' = IF Head(cmds) \in {"t0", "step", "keys", "count"} THEN Aged ELSE cache
  BY DEF Process
<1>2. cache = Empty => Aged = Empty
  BY DEF Aged, Empty
<1>3. phase # "reset" /\ Trusting /\ ~Due => cache' = cache \/ (task = "run" /\ cache' = Aged)
  BY <1>1, Asking
<1>. QED BY <1>1, <1>2, <1>3

-----------------------------------------------------------------------------
(***************************************************************************)
(* The client's requests.                                                  *)
(***************************************************************************)
LEMMA FreshSide == ASSUME Fresh, Side PROVE Fresh'
<1>1. UNCHANGED <<todo, lines, phase, stopped, polled, cache, dead>>
  <2>1. Request => UNCHANGED <<todo, lines, phase, stopped, polled, cache, dead>>
    BY DEF Request
  <2>2. Disconnect => UNCHANGED <<todo, lines, phase, stopped, polled, cache, dead>>
    BY DEF Disconnect
  <2>3. UNCHANGED vars => UNCHANGED <<todo, lines, phase, stopped, polled, cache, dead>>
    BY DEF vars, adapter
  <2>. QED BY <2>1, <2>2, <2>3 DEF Side
<1>2. /\ UNCHANGED <<Trusting, Clean>>
      /\ \A d : At(d)' <=> At(d)
  BY <1>1 DEF Trusting, Clean, At, Alive
<1>3. CASE Request
  <2>1. PICK t \in Requests :
          /\ t \in {"run", "setbp"} \/ configured
          /\ t = "run" => ~configured
          /\ task' = t
          /\ configured' = (configured \/ t = "run")
    BY <1>3, Zenon DEF Request
  <2>2. task = "none" /\ answer' = "none"
    BY <1>3 DEF Request
  <2>3. CacheIsClean'
    BY <1>1, <1>2, <2>2 DEF Fresh, CacheIsClean, Due, Dues
  <2>4. RunsFirst'
    BY <1>1, <1>2, <2>1 DEF Fresh, RunsFirst, Empty
  <2>5. NeedsRun'
    BY <2>1 DEF NeedsRun, Dues, Pages
  <2>6. ReadIsClean'
    BY <1>1, <1>2 DEF Fresh, ReadIsClean
  <2>7. AnswerIsOpen'
    BY <2>2 DEF AnswerIsOpen
  <2>. QED BY <2>3, <2>4, <2>5, <2>6, <2>7 DEF Fresh
<1>4. CASE Disconnect \/ UNCHANGED vars
  <2>1. UNCHANGED <<task, configured, answer>>
    BY <1>4 DEF Disconnect, vars, adapter, client
  <2>2. CacheIsClean'
    BY <1>1, <1>2, <2>1 DEF Fresh, CacheIsClean, Due
  <2>3. RunsFirst' /\ NeedsRun' /\ ReadIsClean'
    BY <1>1, <1>2, <2>1 DEF Fresh, RunsFirst, NeedsRun, ReadIsClean, Empty
  <2>4. AnswerIsOpen'
    BY <1>1, <2>1 DEF Fresh, AnswerIsOpen
  <2>. QED BY <2>2, <2>3, <2>4 DEF Fresh
<1>. QED BY <1>3, <1>4 DEF Side

(***************************************************************************)
(* What every step leaves alone.                                           *)
(***************************************************************************)
LEMMA Dies ==
  ASSUME QuietInv'
  PROVE  /\ ~Undefined
         /\ Throw => /\ phase = "task" /\ task \in {"launch", "setbp"}
                     /\ todo' = <<>> /\ task' = "none" /\ phase' = "events"
<1>1. dead' = "no"
  BY DEF QuietInv, Good, Beliefs, Alive
<1>. QED BY <1>1 DEF Undefined, Throw

LEMMA LocalTask ==
  ASSUME Send \/ GetLines \/ Timeout \/ ReadEvent \/ UpdateRegs \/ HandleBreakpoint \/ Verdict
           \/ Fill \/ Require \/ Assign \/ Symbols \/ Notify \/ Evaluate
  PROVE  configured' = configured /\ task' \in {task, "none"}
<1>1. Throw \/ Undefined \/ (\E s : Continue(s)) => task' \in {task, "none"}
  BY DEF Throw, Undefined, Continue
<1>2. Send \/ Assign \/ Notify => task' \in {task, "none"} /\ configured' = configured
  BY DEF Send, Assign, Notify, Continue, client
<1>3. GetLines => task' \in {task, "none"} /\ configured' = configured
  BY <1>1, Zenon DEF GetLines, client
<1>4. Timeout \/ ReadEvent \/ Require => task' \in {task, "none"} /\ configured' = configured
  BY <1>1 DEF Timeout, ReadEvent, Require, client
<1>5. UpdateRegs \/ Symbols => task' \in {task, "none"} /\ configured' = configured
  BY <1>1, Zenon DEF UpdateRegs, Symbols, client
<1>6. HandleBreakpoint => task' \in {task, "none"} /\ configured' = configured
  BY <1>1 DEF HandleBreakpoint, client
<1>7. Verdict => task' \in {task, "none"} /\ configured' = configured
  BY <1>1, Zenon DEF Verdict, client
<1>8. Fill => task' \in {task, "none"} /\ configured' = configured
  BY <1>1 DEF Fill, client
<1>9. Evaluate => task' \in {task, "none"} /\ configured' = configured
  BY <1>1, Zenon DEF Evaluate, client
<1>. QED BY <1>2, <1>3, <1>4, <1>5, <1>6, <1>7, <1>8, <1>9

LEMMA TurnTask ==
  ASSUME Turn
  PROVE  configured' = configured /\ task' \in {task, "none"}
<1>1. Process \/ Hit => configured' = configured /\ task' \in {task, "none"}
  BY DEF Process, Hit, client, adapter
<1>2. TakeTask \/ Return \/ NoTask \/ NoEvent \/ EventDone \/ NoPoll \/ Poll \/ PollDone
        => configured' = configured /\ task' \in {task, "none"}
  BY DEF TakeTask, Return, NoTask, NoEvent, EventDone, NoPoll, Poll, PollDone, Unchanged, client
<1>3. DoEvent \/ Joined \/ ResetTarget => configured' = configured /\ task' \in {task, "none"}
  BY DEF DoEvent, Joined, ResetTarget, Throw, client
<1>. QED BY <1>1, <1>2, <1>3, LocalTask DEF Turn, Next, Connection, Local, Loop, Side, Over

(***************************************************************************)
(* What a step makes of the belief in a stop, and of the cache.            *)
(***************************************************************************)
Kept == UNCHANGED <<stopped, polled, cache>>

LEMMA VerdictAges ==
  ASSUME TypeOK, Verdict
  PROVE  Kept \/ cache' = Empty \/ polled'
<1>1. Arg \in {"event", "poll"}
  <2>1. Head(todo) \in Ops /\ Head(todo).do = "verdict"
    BY DEF TypeOK, Verdict, At
  <2>. QED BY <2>1, ArgTypes DEF Arg
<1>2. \/ Kept
      \/ /\ cache' = IF Arg = "event" THEN Empty ELSE cache
         /\ polled' = (Arg = "poll")
  BY Zenon DEF Verdict, Kept
<1>. QED BY <1>1, <1>2

LEMMA AssignAges ==
  ASSUME Assign
  PROVE  \/ Kept \/ cache' = Empty \/ ~stopped'
         \/ At("stopped") /\ cache' = cache
<1>1. /\ stopped' = CASE At("stopped") -> TRUE [] At("resumed") -> FALSE [] OTHER -> stopped
      /\ polled' = IF At("stopped") THEN FALSE ELSE polled
      /\ cache' = IF At("forget") THEN Empty ELSE cache
  BY DEF Assign
<1>2. At("stopped") => ~At("resumed") /\ ~At("forget")
  BY DEF At
<1>3. CASE At("stopped")
  BY <1>1, <1>2, <1>3
<1>4. CASE At("forget")
  BY <1>1, <1>4
<1>5. CASE At("resumed") /\ ~At("stopped")
  BY <1>1, <1>5
<1>6. CASE ~At("stopped") /\ ~At("forget") /\ ~At("resumed")
  BY <1>1, <1>6 DEF Kept
<1>. QED BY <1>3, <1>4, <1>5, <1>6

LEMMA Effects ==
  ASSUME TypeOK, Turn
  PROVE  \/ Kept
         \/ (Process \/ Fill) /\ UNCHANGED <<stopped, polled>>
         \/ cache' = Empty \/ polled' \/ ~stopped'
         \/ At("stopped") /\ cache' = cache
<1>1. Process \/ Fill => UNCHANGED <<stopped, polled>>
  BY DEF Process, Fill
<1>2. Hit => Kept
  BY DEF Hit, adapter, Kept
<1>3. Send \/ GetLines \/ Timeout \/ ReadEvent => Kept
  BY DEF Send, GetLines, Timeout, ReadEvent, Kept
<1>4. UpdateRegs \/ HandleBreakpoint \/ Require \/ Symbols \/ Notify \/ Evaluate => Kept
  BY DEF UpdateRegs, HandleBreakpoint, Require, Symbols, Notify, Evaluate, Kept
<1>5. TakeTask \/ Return \/ NoTask \/ NoEvent \/ EventDone \/ NoPoll \/ Poll \/ PollDone => Kept
  BY DEF TakeTask, Return, NoTask, NoEvent, EventDone, NoPoll, Poll, PollDone, Unchanged, Kept
<1>6. DoEvent \/ Joined \/ ResetTarget => Kept
  BY DEF DoEvent, Joined, ResetTarget, Kept
<1>. QED BY <1>1, <1>2, <1>3, <1>4, <1>5, <1>6, VerdictAges, AssignAges
         DEF Turn, Next, Connection, Local, Loop, Side, Over

(***************************************************************************)
(* pause(), cont() and next() go on, and announce a stop with a clean      *)
(* cache.                                                                  *)
(***************************************************************************)
LEMMA GoingOn ==
  ASSUME Due, Goes(todo), Head(todo).do \notin Lasts, Continue(Rest)
  PROVE  Due'
<1>1. todo' # <<>> /\ Head(todo').do # "return" /\ UNCHANGED <<task, phase, dead>>
  BY DEF Goes, Continue, Rest
<1>. QED BY <1>1 DEF Due, At, Alive

LEMMA PushesOn ==
  ASSUME Due, NEW s, GoesOn(s), Continue(s)
  PROVE  Due'
BY DEF Due, GoesOn, Continue, At, Alive

LEMMA DueThrows == ASSUME Due, QuietInv' PROVE ~Throw
BY Dies DEF Due, Dues

LEMMA IdleTask ==
  ASSUME QuietInv, phase = "task", todo = <<>>
  PROVE  cmds = <<>>
<1>1. ~Busy /\ ~Midway
  BY DEF Busy, Midway
<1>2. ~Pausing /\ ~Stepping
  BY <1>1, ActiveMidway
<1>3. ~Listening /\ ~Polling /\ ~Leaving
  BY DEF Listening, Polling, Leaving
<1>4. Between
  BY <1>1, <1>2, <1>3, TasksBusy DEF QuietInv, Good, Place
<1>. QED BY <1>4 DEF Between, Ready, Still

LEMMA DueBegins ==
  ASSUME QuietInv, Turn, Due, todo = <<>>
  PROVE  Due'
<1>1. Alive /\ phase = "task" /\ task \in Dues /\ cmds = <<>> /\ Quiet /\ [Next]_vars /\ ~Side
  BY IdleTask DEF QuietInv, Good, Beliefs, Due, Turn
<1>2. TakeTask
  <2>1. ~Process /\ ~Hit
    BY <1>1 DEF Process, Hit, Quiet
  <2>2. ~NoTask /\ ~NoEvent /\ ~DoEvent /\ ~NoPoll /\ ~Poll /\ ~Joined /\ ~ResetTarget
    BY <1>1 DEF NoTask, NoEvent, DoEvent, NoPoll, Poll, Joined, ResetTarget, Idle, Dues
  <2>. QED BY <1>1, <2>1, <2>2, IdleDispatch
<1>3. todo' = Script(task) \o Finish /\ UNCHANGED <<task, phase, dead>>
  BY <1>2 DEF TakeTask, Unchanged, Finish
<1>4. todo' \in {Do("t1", PauseSet), Do("t0", Resumed), StepOverAll}
  BY <1>1, <1>3, Scripts DEF Dues
<1>5. GoesOn(Do("t1", PauseSet)) /\ GoesOn(Do("t0", Resumed)) /\ GoesOn(StepOverAll)
  <2>1. {"t1", "t0"} \subseteq Commands /\ PauseSet \in Seq(Ops) /\ Resumed \in Seq(Ops)
    BY PauseTops, TaskTops DEF Top, Commands
  <2>2. GoesOn(StepOverAll)
    BY StepTops, TopGoesOn
  <2>. QED BY <2>1, <2>2, DoGoesOn
<1>6. GoesOn(todo')
  BY <1>4, <1>5
<1>. QED BY <1>1, <1>3, <1>6 DEF GoesOn, Due, At, Alive

LEMMA ReadsOn ==
  ASSUME QuietInv', TypeOK, Due, Goes(todo), GetLines \/ Timeout
  PROVE  Due'
<1>1. ~Throw
  BY DueThrows
<1>2. todo # <<>> /\ GoesOn(<<Op("event", "")>> \o todo)
  <2>1. todo \in Seq(Ops) /\ Op("event", "") \in Ops
    BY OpTypes DEF TypeOK, Plain
  <2>2. Top(First(Op("event", ""), todo), Op("event", ""), todo)
    BY <2>1, FirstTop
  <2>3. GoesOn(First(Op("event", ""), todo))
    BY <2>2, TopGoesOn
  <2>. QED BY <2>3, Zenon DEF First, Goes
<1>3. GetLines
  BY <1>1 DEF Timeout
<1>4. Continue(Rest) \/ Continue(<<Op("event", "")>> \o todo)
  BY <1>1, <1>3, Zenon DEF GetLines
<1>5. Head(todo).do \notin Lasts
  BY <1>3 DEF GetLines, At, Lasts
<1>. QED BY <1>2, <1>4, <1>5, GoingOn, PushesOn

LEMMA RegsOn ==
  ASSUME QuietInv', TypeOK, Due, Goes(todo), UpdateRegs
  PROVE  Due'
<1>1. ~Throw
  BY DueThrows
<1>2. Rest \in Seq(Ops)
  BY DEF TypeOK, Goes, Rest
<1>3. Continue(Rest) \/ Continue(ReadRegs \o Rest)
  BY <1>1, Zenon DEF UpdateRegs
<1>4. GoesOn(ReadRegs \o Rest)
  <2>. DEFINE s == Rest
  <2>0. ReadRegs \o Rest = Cat(ReadRegs, s)
    BY Zenon DEF Cat
  <2>. HIDE DEF s
  <2>1. s \in Seq(Ops) /\ Op("regs", "strict") \in Ops
    BY <1>2, OpTypes DEF s
  <2>2. Cat(ReadRegs, s) = Do("r", First(Op("regs", "strict"), s))
    BY <2>1, ReadRegsCat
  <2>3. First(Op("regs", "strict"), s) \in Seq(Ops) /\ "r" \in Commands
    BY <2>1, FirstTop DEF Top, Commands
  <2>4. GoesOn(Do("r", First(Op("regs", "strict"), s)))
    BY <2>3, DoGoesOn
  <2>. QED BY <2>0, <2>2, <2>4
<1>5. Head(todo).do \notin Lasts
  BY DEF UpdateRegs, At, Lasts
<1>. QED BY <1>3, <1>4, <1>5, GoingOn, PushesOn

LEMMA DueStays ==
  ASSUME QuietInv, QuietInv', Turn, Due, Trusting'
  PROVE  Due' \/ Clean'
<1>1. CASE todo = <<>>
  BY <1>1, DueBegins
<1>2. CASE todo # <<>>
  <2>1. Goes(todo) /\ Alive /\ TypeOK /\ todo \in Seq(Ops) /\ Quiet /\ [Next]_vars /\ ~Side
    BY <1>2, DueGoes DEF QuietInv, Good, Beliefs, ClientInv, TypeOK, Turn
  <2>. DEFINE op == Head(todo)
              s == Tail(todo)
  <2>2. Top(todo, op, s) /\ op.do \in Steps
    BY <1>2, <2>1 DEF Top, Goes
  <2>3. \/ Process \/ Send \/ GetLines \/ Timeout \/ UpdateRegs \/ Require \/ Assign \/ Notify
    <3>. HIDE DEF op, s
    <3>1. op.do \notin {"readevent", "event", "verdict", "fill", "symbols", "evaluate",
                        "eventdone", "polldone", "return"}
      BY <2>2 DEF Steps
    <3>. QED BY <2>1, <2>2, <3>1, Dispatch
  <2>4. CASE Process
    BY <2>4 DEF Process, Due, At, Alive
  <2>5. CASE Send
    <3>1. Continue(Rest) /\ Head(todo).do \notin Lasts
      BY <2>5 DEF Send, At, Lasts
    <3>. QED BY <2>1, <3>1, GoingOn
  <2>6. CASE GetLines \/ Timeout
    BY <2>1, <2>6, ReadsOn
  <2>7. CASE UpdateRegs
    BY <2>1, <2>7, RegsOn
  <2>8. CASE Require
    <3>1. Continue(Rest) /\ Head(todo).do \notin Lasts
      BY <2>8, DueThrows DEF Require, At, Lasts
    <3>. QED BY <2>1, <3>1, GoingOn
  <2>9. CASE Assign
    <3>1. Continue(Rest) /\ Head(todo).do # "notify"
      BY <2>9 DEF Assign
    <3>2. At("resumed") => ~stopped'
      <4>1. At("resumed") => ~At("stopped")
        BY DEF At
      <4>2. stopped' = CASE At("stopped") -> TRUE [] At("resumed") -> FALSE [] OTHER -> stopped
        BY <2>9 DEF Assign
      <4>. QED BY <4>1, <4>2
    <3>3. Head(todo).do \notin Lasts
      BY <1>2, <2>1, <3>1, <3>2 DEF Trusting, Lasts, At
    <3>. QED BY <2>1, <3>1, <3>3, GoingOn
  <2>10. CASE Notify
    <3>1. At("notify") /\ polled' = polled /\ cache' = cache
      BY <2>10 DEF Notify
    <3>2. ~polled
      BY <3>1 DEF Trusting
    <3>3. Clean
      BY <3>1, <3>2, Truth DEF TellsTheTruth, Clean
    <3>. QED BY <3>1, <3>3 DEF Clean
  <2>. QED BY <2>3, <2>4, <2>5, <2>6, <2>7, <2>8, <2>9, <2>10
<1>. QED BY <1>1, <1>2

-----------------------------------------------------------------------------
(***************************************************************************)
(* The four parts, over a step of the loop's thread or the target.         *)
(***************************************************************************)
Settled == phase \in {"task", "events", "poll"}

LEMMA SettledBefore ==
  ASSUME QuietInv, Turn, Settled'
  PROVE  Settled
<1>. SUFFICES ASSUME ~Settled PROVE FALSE
  OBVIOUS
<1>1. todo = <<>> /\ Alive /\ Quiet /\ [Next]_vars /\ ~Side
  BY DEF QuietInv, Good, Beliefs, Place, Settled, Between, Leaving, Launching, Running, Pausing,
         Continuing, Stepping, Setting, Evaluating, Finishing, Listening, Polling, InTask, Ready, Turn
<1>2. ~TakeTask /\ ~NoTask /\ ~NoEvent /\ ~DoEvent /\ ~NoPoll /\ ~Poll /\ ~Hit
  BY DEF TakeTask, NoTask, NoEvent, DoEvent, NoPoll, Poll, Hit, Idle, Settled, Turn, Quiet
<1>3. Process \/ Joined \/ ResetTarget
  BY <1>1, <1>2, IdleDispatch
<1>. QED BY <1>3 DEF Process, Joined, ResetTarget, Settled

LEMMA PausesThere ==
  ASSUME QuietInv, Fresh, At("stopped")
  PROVE  Due /\ configured /\ task # "run"
<1>1. phase = "task" /\ task = "pause"
  BY Storing
<1>2. ~At("return")
  BY DEF At
<1>3. configured
  BY <1>1 DEF Fresh, NeedsRun, Dues
<1>. QED BY <1>1, <1>2, <1>3 DEF Due, Dues

LEMMA FillsThere ==
  ASSUME QuietInv, Fresh, At("fill"), Trusting
  PROVE  configured /\ task # "run"
<1>1. PICK p \in Pages : Evaluating(p)
  BY Storing
<1>2. task \in Pages
  BY <1>1 DEF Evaluating, InTask
<1>. QED BY <1>2 DEF Fresh, NeedsRun, Pages

LEMMA FillsClean ==
  ASSUME QuietInv, Fresh, Trusting, Clean, Fill
  PROVE  Clean'
<1>1. /\ lines \in Lines /\ cache \in [Pages -> {"absent", "fresh", "stale"}] /\ At("fill")
      /\ \A i \in DOMAIN lines : lines[i] # Mem("stale")
  BY DEF QuietInv, ClientInv, TypeOK, Lines, Fill, Fresh, ReadIsClean
<1>. DEFINE u == Unblanked(lines)
<1>2. \/ cache' = cache
      \/ u # <<>> /\ Head(u).kind = "mem" /\ cache' = [cache EXCEPT ![Arg] = Head(u).val]
  BY Zenon DEF Fill
<1>3. ASSUME u # <<>>, Head(u).kind = "mem" PROVE Head(u).val # "stale"
  <2>1. ~(\A i \in DOMAIN lines : lines[i] = Blank)
    BY <1>3 DEF Unblanked
  <2>2. PICK i \in DOMAIN lines : FirstLine(i, lines)
    BY <1>1, <2>1, FirstLineExists DEF Lines
  <2>3. Head(u) = lines[i]
    BY <1>1, <2>2, UnblankedFrom
  <2>4. lines[i] \in LinesOfTarget /\ lines[i] # Mem("stale")
    BY <1>1, <2>2 DEF Lines
  <2>5. \A l \in LinesOfTarget : l.kind = "mem" => l = Mem(l.val)
    <3>1. /\ \A pc : Regs(pc).kind = "regs"
          /\ \A a : Mem(a).val = a
          /\ \A c : Echo(c).kind \in {"blank", "echo"}
          /\ \A m \in {Blank, Bang, Dot, Header, Loc, Junk, Flags} : m.kind \notin {"regs", "mem"}
      BY DEF Line, Blank, Bang, Dot, Header, Loc, Junk, Flags, Regs, Mem, Echo
    <3>. QED BY <3>1 DEF LinesOfTarget
  <2>. QED BY <1>3, <2>3, <2>4, <2>5
<1>. HIDE DEF u
<1>. QED BY <1>1, <1>2, <1>3 DEF Clean

LEMMA CleanNext ==
  ASSUME QuietInv, QuietInv', Turn, Fresh
  PROVE  CacheIsClean'
<1>. SUFFICES ASSUME Trusting', Settled' PROVE Clean' \/ Due'
  BY DEF CacheIsClean, Settled
<1>1. Settled /\ TypeOK
  BY SettledBefore DEF QuietInv, ClientInv
<1>2. CASE Due
  BY <1>2, DueStays
<1>3. CASE ~Due /\ Trusting
  <2>1. Clean /\ phase # "reset" /\ (task = "run" => cache = Empty)
    BY <1>1, <1>3 DEF Fresh, CacheIsClean, RunsFirst, Settled
  <2>2. Empty = Empty' /\ (cache' = Empty => Clean') /\ (cache' = cache => Clean')
    BY <2>1 DEF Empty, Clean
  <2>3. Process => Clean'
    BY <1>3, <2>1, <2>2, Aging
  <2>4. Fill => Clean'
    BY <1>3, <2>1, FillsClean
  <2>. QED BY <1>1, <2>2, <2>3, <2>4, Effects DEF Kept, Trusting
<1>4. CASE ~Due /\ ~Trusting
  <2>1. cache' = Empty => Clean'
    BY DEF Empty, Clean
  <2>2. ~At("stopped")
    BY <1>4, PausesThere
  <2>. QED BY <1>1, <1>4, <2>1, <2>2, Effects DEF Kept, Trusting
<1>. QED BY <1>2, <1>3, <1>4

LEMMA RunsNext ==
  ASSUME QuietInv, Turn, Fresh
  PROVE  RunsFirst'
<1>. SUFFICES ASSUME Trusting', ~configured \/ task = "run" PROVE cache' = Empty
  BY TurnTask DEF RunsFirst, Empty
<1>1. TypeOK
  BY DEF QuietInv, ClientInv
<1>2. ~At("stopped")
  BY PausesThere
<1>3. Trusting => cache = Empty
  BY DEF Fresh, RunsFirst
<1>4. Process /\ Trusting => cache' = Empty
  BY <1>3, Aging
<1>5. ~(Fill /\ Trusting)
  BY FillsThere DEF Fill
<1>. QED BY <1>1, <1>2, <1>3, <1>4, <1>5, Effects DEF Kept, Trusting

LEMMA NeedsNext == ASSUME Turn, Fresh PROVE NeedsRun'
BY TurnTask DEF Fresh, NeedsRun, Dues, Pages

(***************************************************************************)
(* Where a step comes from that ends with a memory dump's lines about to   *)
(* enter the cache.                                                        *)
(***************************************************************************)
LEMMA PollEnds ==
  ASSUME QuietInv, phase # "task", PollDone
  PROVE  Rest = <<>>
<1>. DEFINE e == "polldone"
<1>1. At(e) /\ e \notin {"send", "await", "notify", "verdict", "event", "readevent", "getlines",
                         "eventdone", "regs", "fill"}
  BY DEF PollDone
<1>. HIDE DEF e
<1>2. todo # <<>> /\ Place
  BY <1>1 DEF At, QuietInv, Good
<1>3. ~Listening
  <2>1. /\ "t0" \in Commands /\ "code" \in Commands
        /\ EventOver \in Seq(Ops) /\ EventFetched \in Seq(Ops)
    BY EventTops, FinishTop DEF Top, Commands, Pages
  <2>2. ~Doing("t0", EventOver) /\ ~Doing("code", EventFetched)
    BY <1>1, <2>1, OnDoing
  <2>3. todo \notin {EventHeard, EventJudged, EventFetched, EventTold, EventOver}
    BY <1>1, EventTops, FinishTop, OnTop
  <2>4. todo # EventAll
    <3>1. CASE isXemu
      BY <1>1, <3>1, EventTops, OnTop
    <3>2. CASE ~isXemu
      BY <1>1, <3>2, EventTops, OnTop
    <3>. QED BY <3>1, <3>2
  <2>. QED BY <1>2, <2>2, <2>3, <2>4, Zenon DEF Listening, Ready
<1>4. Polling
  BY <1>2, <1>3 DEF Place, Launching, Running, Pausing, Continuing, Stepping, Setting, Evaluating,
                    Finishing, InTask, Between, Leaving, Ready
<1>5. todo = PollOver
  <2>1. /\ "r" \in Commands /\ "code" \in Commands
        /\ PollAsked \in Seq(Ops) /\ PollFetched \in Seq(Ops)
    BY PollTops DEF Top, Commands, Pages
  <2>2. ~Doing("r", PollAsked) /\ ~Doing("code", PollFetched)
    BY <1>1, <2>1, OnDoing
  <2>3. todo \notin {PollJudged, PollAsked, PollFetched, PollTold}
    BY <1>1, PollTops, OnTop
  <2>. QED BY <1>2, <1>4, <2>2, <2>3 DEF Polling, Ready
<1>. QED BY <1>5, FinishTop DEF Top, Rest

LEMMA EntersTask ==
  ASSUME QuietInv, QuietInv', Turn, phase # "task", phase' = "task"
  PROVE  todo' = <<>>
<1>1. NoPoll \/ PollDone
  <2>1. ~(\E s : Continue(s)) /\ ~Throw /\ ~Undefined
    BY Dies DEF Continue
  <2>2. ~Process /\ ~Hit
    BY DEF Process, Hit, adapter
  <2>3. ~Send /\ ~GetLines /\ ~Timeout /\ ~ReadEvent
    BY <2>1, Zenon DEF Send, GetLines, Timeout, ReadEvent
  <2>4. /\ ~UpdateRegs /\ ~HandleBreakpoint /\ ~Verdict /\ ~Fill /\ ~Require /\ ~Assign /\ ~Symbols
        /\ ~Notify
    BY <2>1, Zenon DEF UpdateRegs, HandleBreakpoint, Verdict, Fill, Require, Assign, Symbols, Notify
  <2>5. ~Evaluate
    <3>1. Evaluate => (\E s : Continue(s)) \/ phase' = phase
      BY Zenon DEF Evaluate
    <3>. QED BY <2>1, <3>1
  <2>6. ~TakeTask /\ ~Return /\ ~NoTask /\ ~NoEvent /\ ~DoEvent /\ ~EventDone /\ ~Poll
    BY <2>1 DEF TakeTask, Return, NoTask, NoEvent, DoEvent, EventDone, Poll
  <2>7. ~Joined /\ ~ResetTarget
    BY DEF Joined, ResetTarget
  <2>. QED BY <2>2, <2>3, <2>4, <2>5, <2>6, <2>7 DEF Turn, Next, Connection, Local, Loop, Side, Over
<1>2. NoPoll => todo' = <<>>
  BY DEF NoPoll, Idle
<1>3. PollDone => todo' = <<>>
  BY PollEnds DEF PollDone
<1>. QED BY <1>1, <1>2, <1>3

LEMMA EvaluationReads ==
  ASSUME QuietInv, QuietInv', Turn, NEW p \in Pages, Evaluating(p), Trusting', At("fill")'
  PROVE  \A i \in DOMAIN lines' : lines'[i] # Mem("stale")
<1>1. /\ phase = "task" /\ task = p /\ dead = "no" /\ Alive /\ Believed /\ ClientInv
      /\ lines \in Lines /\ stopped
  <2>1. p \notin {"pause", "cont", "next", "setbp"}
    BY DEF Pages
  <2>. QED BY <2>1, BeliefsNow DEF QuietInv, Good, Beliefs, Alive, Evaluating, InTask, ClientInv,
                                   TypeOK, Lines, NeedsStop
<1>2. Quiet /\ [Next]_vars /\ ~Side /\ p \in Commands /\ Fetched(p) \in Seq(Ops)
  BY TaskTops DEF Turn, Commands, Top
<1>. DEFINE f == "fill"
<1>3. todo' # <<>> /\ Head(todo').do = f /\ f \notin {"require", "evaluate", "send", "await", "return"}
  BY DEF At
<1>. HIDE DEF f
<1>4. \A d, a, s, t : Top(s, Op(d, a), t) /\ todo' = s => d = f
  BY <1>3, OpFields DEF Top
<1>5. ~Ready(EvalAll(p))
  <2>. SUFFICES ASSUME Ready(EvalAll(p)) PROVE FALSE
    OBVIOUS
  <2>1. Top(todo, Op("require", "stopped"), Evaluated(p)) /\ cmds = <<>>
    BY TaskTops DEF Ready, Still
  <2>2. Require /\ Rest = Evaluated(p) /\ Arg = "stopped"
    BY <1>1, <1>2, <2>1, TopIs
  <2>3. todo' = Evaluated(p)
    BY <1>1, <2>2, RequireDoes
  <2>. QED BY <1>3, <1>4, <2>3, TaskTops
<1>6. ~Ready(Evaluated(p))
  <2>. SUFFICES ASSUME Ready(Evaluated(p)) PROVE FALSE
    OBVIOUS
  <2>1. Top(todo, Op("evaluate", p), Finish) /\ cmds = <<>> /\ todo = Evaluated(p)
    BY TaskTops DEF Ready, Still
  <2>2. Evaluate
    BY <1>1, <1>2, <2>1, TopIs
  <2>3. todo' = Do(p, Fetched(p)) \/ todo' = Finish
    BY <2>1, <2>2, EvaluateDoes
  <2>4. Top(Do(p, Fetched(p)), Op("send", p), First(Op("await", p), Fetched(p)))
    BY <1>2, DoTop
  <2>. QED BY <1>3, <1>4, <2>3, <2>4, FinishTop
<1>7. ~(Ready(Fetched(p)) /\ MemIn(lines))
  <2>. SUFFICES ASSUME Ready(Fetched(p)), MemIn(lines) PROVE FALSE
    OBVIOUS
  <2>1. Top(todo, Op("fill", p), Evaluated(p)) /\ cmds = <<>>
    BY TaskTops DEF Ready, Still
  <2>2. Fill /\ Rest = Evaluated(p)
    BY <1>1, <1>2, <2>1, TopIs
  <2>3. todo' = Evaluated(p)
    BY <1>1, <2>2, FillDoes
  <2>. QED BY <1>3, <1>4, <2>3, TaskTops
<1>8. Top(First(Op("await", p), Fetched(p)), Op("await", p), Fetched(p))
  BY <1>2, DoTop
<1>9. ~(todo = Do(p, Fetched(p)) /\ Still)
  <2>. SUFFICES ASSUME todo = Do(p, Fetched(p)), Still PROVE FALSE
    OBVIOUS
  <2>1. Top(todo, Op("send", p), First(Op("await", p), Fetched(p))) /\ cmds = <<>>
    BY <1>2, DoTop DEF Still
  <2>2. Send
    BY <1>1, <1>2, <2>1, TopIs
  <2>3. todo' = First(Op("await", p), Fetched(p))
    BY <2>1, <2>2, Sends
  <2>. QED BY <1>3, <1>4, <1>8, <2>3
<1>10. todo = First(Op("await", p), Fetched(p)) /\ (Asked(p) \/ Answered(p))
  BY <1>5, <1>6, <1>7, <1>9 DEF Evaluating, Doing
<1>11. Top(todo, Op("await", p), Fetched(p)) /\ At("await")
  BY <1>1, <1>8, <1>10, AtTop
<1>12. GetLines /\ Answered(p)
  <2>1. Process \/ GetLines
    BY <1>1, <1>2, <1>10, <1>11, Dispatch, OpFields, Waits
  <2>2. ~Process
    BY <1>3, <1>4, <1>8, <1>10 DEF Process
  <2>. QED BY <1>2, <1>10, <1>11, <2>1, <2>2, Waits
<1>13. ~tgt.running
  BY <1>1, <1>12 DEF Trusting, GetLines, Believed, Standing
<1>14. ~Throw
  BY <1>1, Dies DEF Pages
<1>. DEFINE m == Mem("stale")
<1>15. rx \in Lines /\ \A i \in 1 .. Len(rx) : rx[i] # m
  BY <1>12, <1>13, ShowsNow
<1>. HIDE DEF m
<1>16. Throw \/ \A i \in DOMAIN lines' : lines'[i] # m
  BY <1>12, <1>15, GetsOnly
<1>. QED BY <1>14, <1>16 DEF m

FillsEvaluate == At("fill") /\ Trusting => \E p \in Pages : Evaluating(p)

LEMMA StoringNext == QuietInv' => FillsEvaluate'
<1>1. QuietInv => FillsEvaluate
  BY Storing DEF FillsEvaluate
<1>. QED BY <1>1, PTL

LEMMA ReadsNext ==
  ASSUME QuietInv, QuietInv', Turn, Fresh
  PROVE  ReadIsClean'
<1>. SUFFICES ASSUME Trusting', At("fill")'
              PROVE  \A i \in DOMAIN lines' : lines'[i] # Mem("stale")
  BY DEF ReadIsClean, Mem, Line
<1>1. PICK p \in Pages : Evaluating(p)'
  BY StoringNext DEF FillsEvaluate
<1>2. phase' = "task" /\ task' = p /\ p # "none" /\ todo' # <<>>
  BY <1>1 DEF Evaluating, InTask, Pages, At
<1>3. task = p
  BY <1>2, TurnTask
<1>4. phase = "task"
  BY <1>2, EntersTask
<1>5. Evaluating(p) \/ Finishing \/ Between
  BY <1>3, <1>4 DEF QuietInv, Good, Place, Launching, Running, Pausing, Continuing, Stepping, Setting,
     Evaluating, Listening, Polling, Leaving, InTask, Pages
<1>6. ~Finishing
  <2>. SUFFICES ASSUME Finishing PROVE FALSE
    OBVIOUS
  <2>1. Top(todo, Op("return", ""), <<>>) /\ cmds = <<>>
    BY FinishTop DEF Finishing, Ready, Still
  <2>2. Return
    BY <2>1, TopIs DEF QuietInv, Good, Beliefs, Turn
  <2>. QED BY <1>2, <2>2 DEF Return
<1>7. ~Between
  <2>. SUFFICES ASSUME Between PROVE FALSE
    OBVIOUS
  <2>1. todo = <<>> /\ cmds = <<>> /\ Alive /\ [Next]_vars /\ ~Side /\ Quiet
    BY DEF Between, Ready, Still, QuietInv, Good, Beliefs, Turn
  <2>2. TakeTask
    <3>1. ~Process /\ ~Hit
      BY <1>4, <2>1 DEF Process, Hit, Quiet
    <3>2. ~NoTask /\ ~NoEvent /\ ~DoEvent /\ ~NoPoll /\ ~Poll /\ ~Joined /\ ~ResetTarget
      BY <1>2, <1>3, <1>4 DEF NoTask, NoEvent, DoEvent, NoPoll, Poll, Joined, ResetTarget, Idle
    <3>. QED BY <2>1, <3>1, <3>2, IdleDispatch
  <2>3. todo' = EvalAll(p)
    BY <1>3, <2>2, Scripts DEF TakeTask, Finish
  <2>4. Head(todo').do = "require"
    <3>1. Top(EvalAll(p), Op("require", "stopped"), Evaluated(p))
      BY TaskTops
    <3>2. Head(EvalAll(p)) = Op("require", "stopped")
      BY <3>1 DEF Top
    <3>. QED BY <2>3, <3>2, OpFields
  <2>. QED BY <2>4 DEF At
<1>. QED BY <1>3, <1>5, <1>6, <1>7, EvaluationReads

(***************************************************************************)
(* A value is shown as the last of its task, with the connection at rest.  *)
(***************************************************************************)
LEMMA ShowsLast ==
  ASSUME QuietInv, At("evaluate")
  PROVE  /\ Rest = Finish
         /\ \E p \in Pages : Evaluating(p) /\ todo = Evaluated(p) /\ Still
<1>1. PICK p \in Pages : Evaluating(p)
  BY Storing
<1>2. Fetched(p) \in Seq(Ops) /\ p \in Commands
  BY TaskTops DEF Top, Commands
<1>. DEFINE e == "evaluate"
<1>3. At(e) /\ e \notin {"send", "await", "require", "fill"}
  OBVIOUS
<1>. HIDE DEF e
<1>4. ~Doing(p, Fetched(p))
  BY <1>2, <1>3, OnDoing
<1>5. todo \notin {EvalAll(p), Fetched(p)}
  BY <1>3, TaskTops, OnTop
<1>6. todo = Evaluated(p) /\ Still
  BY <1>1, <1>4, <1>5 DEF Evaluating, Ready
<1>7. Rest = Finish
  BY <1>6, TaskTops DEF Top, Rest
<1>. QED BY <1>1, <1>6, <1>7

LEMMA AnswerNext ==
  ASSUME QuietInv, QuietInv', Turn, Fresh
  PROVE  AnswerIsOpen'
<1>. SUFFICES ASSUME task' # "none", todo' # Finish PROVE answer' = "none"
  BY DEF AnswerIsOpen, Finish, Op
<1>1. task' = task /\ task # "none" /\ (todo # Finish => answer = "none")
  BY TurnTask DEF Fresh, AnswerIsOpen
<1>2. ~Throw /\ ~Undefined
  BY Dies, <1>1
<1>3. CASE todo = Finish
  <2>1. Top(todo, Op("return", ""), <<>>) /\ Alive /\ Quiet /\ [Next]_vars /\ ~Side
    BY <1>3, FinishTop DEF QuietInv, Good, Beliefs, Turn
  <2>. DEFINE op == Op("return", "")
              e == op.do
  <2>2. e = "return" /\ Top(todo, op, <<>>)
    BY <2>1, OpFields
  <2>3. Process \/ Return
    <3>. HIDE DEF op
    <3>. QED BY <2>1, <2>2, Dispatch
  <2>. QED BY <1>1, <1>3, <2>3 DEF Process, Return
<1>4. CASE todo # Finish
  <2>1. (\E s : Continue(s)) => answer' = answer
    BY DEF Continue
  <2>2. Process \/ Hit => answer' = answer
    BY DEF Process, Hit, adapter
  <2>3. Send \/ GetLines \/ Timeout \/ ReadEvent => answer' = answer
    BY <1>2, <2>1, Zenon DEF Send, GetLines, Timeout, ReadEvent
  <2>4. UpdateRegs \/ HandleBreakpoint \/ Verdict \/ Fill \/ Require \/ Assign \/ Symbols \/ Notify
          => answer' = answer
    BY <1>2, <2>1, Zenon DEF UpdateRegs, HandleBreakpoint, Verdict, Fill, Require, Assign, Symbols, Notify
  <2>5. ~Return
    BY <1>1 DEF Return
  <2>6. TakeTask \/ NoTask \/ NoEvent \/ EventDone \/ NoPoll \/ Poll \/ PollDone => answer' = answer
    BY DEF TakeTask, NoTask, NoEvent, EventDone, NoPoll, Poll, PollDone
  <2>7. DoEvent \/ Joined \/ ResetTarget => answer' = answer
    BY <1>2 DEF DoEvent, Joined, ResetTarget
  <2>8. Evaluate => answer' = answer
    <3>. SUFFICES ASSUME Evaluate PROVE answer' = answer
      OBVIOUS
    <3>1. At("evaluate")
      BY DEF Evaluate
    <3>2. todo' # Rest
      BY <3>1, ShowsLast
    <3>. QED BY <2>1, <3>2, Zenon DEF Evaluate
  <2>. QED BY <1>1, <1>4, <2>2, <2>3, <2>4, <2>5, <2>6, <2>7, <2>8
       DEF Turn, Next, Connection, Local, Loop, Side, Over
<1>. QED BY <1>3, <1>4

-----------------------------------------------------------------------------
(***************************************************************************)
(* The invariant holds, and what is shown is present.                      *)
(***************************************************************************)
LEMMA FreshNext == ASSUME Quiet, QuietInv, Fresh, [Next]_vars PROVE Fresh'
<1>1. QuietInv'
  BY GoodNext
<1>2. CASE Side
  BY <1>2, FreshSide
<1>3. CASE ~Side
  <2>1. lines' \in Lines
    BY <1>1 DEF QuietInv, ClientInv, TypeOK, Lines
  <2>2. Turn
    BY <1>3, <2>1 DEF Turn
  <2>. QED BY <1>1, <2>2, CleanNext, RunsNext, NeedsNext, ReadsNext, AnswerNext DEF Fresh
<1>. QED BY <1>2, <1>3

(***************************************************************************)
(* What is in the cache, and about to enter it, in every reachable state.  *)
(***************************************************************************)
THEOREM MemoryInvariant == ASSUME Quiet PROVE Spec => [](QuietInv /\ Fresh)
<1>1. Init => QuietInv /\ Fresh
  BY GoodInit, InitInv, FreshInit DEF QuietInv
<1>2. QuietInv /\ Fresh /\ [Next]_vars => QuietInv' /\ Fresh'
  BY GoodNext, FreshNext
<1>. QED BY <1>1, <1>2, PTL DEF Spec

LEMMA ShowsPresent ==
  ASSUME Quiet, QuietInv, Fresh, Next, At("evaluate"), answer' = "stale"
  PROVE  polled \/ UNCHANGED vars
<1>1. CASE ~Side
  <2>1. PICK p \in Pages : Evaluating(p) /\ todo = Evaluated(p) /\ Still
    BY ShowsLast
  <2>2. Top(todo, Op("evaluate", p), Finish) /\ cmds = <<>> /\ Alive
    BY <2>1, TaskTops DEF Still, QuietInv, Good, Beliefs
  <2>3. Evaluate /\ Arg = p
    BY <1>1, <2>2, TopIs
  <2>4. task = p /\ phase = "task" /\ task # "none" /\ task \notin Dues
    BY <2>1 DEF Evaluating, InTask, Pages, Dues
  <2>5. answer = "none"
    <3>1. todo # Finish
      <4>1. At("return") => FALSE
        BY DEF At
      <4>. QED BY <2>2, <4>1, FinishTop, OpFields DEF Top, At
    <3>. QED BY <2>4, <3>1 DEF Fresh, AnswerIsOpen
  <2>6. answer' # answer
    BY <2>5
  <2>7. answer' = IF dbg THEN cache[p] ELSE "empty"
    BY <2>3, <2>6, Zenon DEF Evaluate, Continue
  <2>8. cache[p] = "stale"
    BY <2>7
  <2>9. ~Clean /\ ~Due
    BY <2>1, <2>4, <2>8 DEF Clean, Due
  <2>10. stopped
    BY <2>4 DEF QuietInv, Good, Beliefs, NeedsStop
  <2>. QED BY <2>4, <2>9, <2>10 DEF Fresh, CacheIsClean, Trusting
<1>2. CASE Side
  <2>1. task # "none"
    <3>1. PICK p \in Pages : Evaluating(p)
      BY ShowsLast
    <3>. QED BY <3>1 DEF Evaluating, InTask, Pages
  <2>. QED BY <1>2, <2>1 DEF Side, Request, Disconnect
<1>. QED BY <1>1, <1>2

(***************************************************************************)
(* An evaluation shows the target's memory as it is: no line read before   *)
(* the stop is shown, unless the stop was found by polling.                *)
(***************************************************************************)
THEOREM EvaluationIsPresent == ASSUME Quiet PROVE Spec => EvaluatesPresent
<1>1. QuietInv /\ Fresh /\ [Next]_vars => [At("evaluate") /\ answer' = "stale" => polled]_vars
  BY ShowsPresent
<1>. QED BY <1>1, MemoryInvariant, PTL DEF Spec, EvaluatesPresent
==============================================================================
