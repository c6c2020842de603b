--------------------------- MODULE DapSession_proofs ---------------------------
(***************************************************************************)
(* What is proved of the adapter as the client sees it, for any number of  *)
(* requests, however many are sent ahead, and any number of stops and of   *)
(* what is counted in excuses.                                             *)
(***************************************************************************)
EXTENDS DapSession, SequenceTheorems, TLAPS

-----------------------------------------------------------------------------
(***************************************************************************)
(* Messages, debuggers and answers.                                        *)
(***************************************************************************)
Debuggers == [stopped : BOOLEAN, bp : Lines \cup {NoLine}, symbols : BOOLEAN]

LEMMA MessageTypes ==
  ASSUME NEW m \in Messages
  PROVE  /\ m.kind \in Kinds /\ m.arg \in Args(m.kind)
         /\ m.kind = "setBreakpoints" => m.arg \in Seq(Lines)
         /\ m.kind \in Requests => Errors(m.kind) = 0
<1>1. m.kind \in Kinds /\ m.arg \in Args(m.kind)
  BY DEF Messages
<1>2. m.kind = "setBreakpoints" => m.arg \in Seq(Lines)
  BY <1>1, SessionAssumption DEF Args
<1>3. m.kind \in Requests => Errors(m.kind) = 0
  BY DEF Errors, Malformed, Requests
<1>. QED BY <1>1, <1>2, <1>3

LEMMA FirstMessage == [kind |-> "initialize", arg |-> "good"] \in Messages
<1>1. "good" \in Args("initialize")
  BY DEF Args
<1>2. [kind |-> "initialize", arg |-> "good"]
        \in [kind : {"initialize"}, arg : Args("initialize")]
  BY <1>1
<1>. QED BY <1>2, SessionAssumption DEF Messages

LEMMA DebuggerTypes ==
  /\ Fresh \in Debuggers /\ NoDebugger \notin Debuggers /\ Fresh # NoDebugger
  /\ NoReply \in Replies
  /\ TypeOK => debugger \in Debuggers \cup {NoDebugger}
  /\ TypeOK /\ HasDebugger => debugger \in Debuggers
<1>1. "no debugger" \notin Lines \cup {NoLine}
  BY SessionAssumption DEF NoLine
<1>2. NoDebugger \notin Debuggers
  <2>1. NoDebugger.bp = "no debugger"
    BY DEF NoDebugger
  <2>. QED BY <1>1, <2>1 DEF Debuggers
<1>3. Fresh \in Debuggers
  BY DEF Fresh, Debuggers
<1>4. NoReply \in Replies
  BY DEF NoReply, Replies
<1>5. TypeOK => debugger \in Debuggers \cup {NoDebugger}
  BY DEF TypeOK, Debuggers
<1>. QED BY <1>2, <1>3, <1>4, <1>5 DEF HasDebugger

-----------------------------------------------------------------------------
(***************************************************************************)
(* Where the dispatch thread, the main loop and main() can be at the same  *)
(* time.  This holds whatever the client sends and whatever fails.         *)
(***************************************************************************)
Handles(place, kinds) == at = place => msg.kind \in kinds

Places ==
  /\ Handles("construct", {"launch"}) /\ Handles("replace", {"launch"})
  /\ Handles("destroy", {"disconnect"}) /\ Handles("lines", {"setBreakpoints"})
  /\ Handles("task", {"launch", "setBreakpoints", "configurationDone", "pause", "continue",
                      "next", "evaluate"})
  /\ Handles("event", {"pause", "next"})
  /\ at = "event" <=> loop \in {"pause", "step"}
  /\ at = "task" /\ msg.kind = "setBreakpoints" => reply.left # <<>> /\ debugger.bp = NoLine
  /\ at \in {"lines", "task", "event", "destroy"} => HasDebugger

LoopRuns ==
  /\ HasDebugger <=> loop # "none"
  /\ loop \in Stops => debugger.stopped

MainWaits ==
  /\ main = "run" <=> promise # "destroyed"
  /\ ~open => main \in {"joining", "gone", "exited"}
  /\ closed => main \notin {"run", "closing"}
  /\ main \in {"gone", "exited"} => at = "ended"

Structure == TypeOK /\ Places /\ LoopRuns /\ MainWaits

-----------------------------------------------------------------------------
(***************************************************************************)
(* Types.                                                                  *)
(***************************************************************************)
Ats      == {"take", "handle", "construct", "replace", "destroy", "lines", "task", "event",
             "answer", "sent", "ended"}
Mains    == {"run", "closing", "closed", "joining", "gone", "exited"}
Promises == {"unset", "set", "destroyed"}
Fates    == {"no", "terminate", "undefined"}

SessionTypes  == /\ {closable, open, receiving, closed, asleep} \subseteq BOOLEAN
                 /\ incoming \in Seq(Messages) /\ inbox \in Seq(Messages)
DispatchTypes == at \in Ats /\ msg \in Messages /\ reply \in Replies
AdapterTypes  == /\ debugger \in Debuggers \cup {NoDebugger}
                 /\ loop \in {"none", "idle"} \cup Stops
                 /\ promise \in Promises /\ main \in Mains /\ fate \in Fates
ClientTypes   == /\ asked \subseteq Kinds /\ known \subseteq Kinds
                 /\ view \in {"running", "stopped"} /\ verified \in Lines \cup {NoLine}
                 /\ overtaken \in BOOLEAN
                 /\ requests \in 0 .. MaxRequests /\ excuses \in 0 .. MaxExcuses
                 /\ hits \in 0 .. MaxHits

LEMMA Types == TypeOK <=> SessionTypes /\ DispatchTypes /\ AdapterTypes /\ ClientTypes
BY DEF TypeOK, SessionTypes, DispatchTypes, AdapterTypes, ClientTypes, Ats, Mains, Promises,
       Fates, Debuggers

LEMMA TypesNext ==
  TypeOK' <=> SessionTypes' /\ DispatchTypes' /\ AdapterTypes' /\ ClientTypes'
BY DEF TypeOK, SessionTypes, DispatchTypes, AdapterTypes, ClientTypes, Ats, Mains, Promises,
       Fates, Debuggers

LEMMA PromiseTypes ==
  ASSUME AdapterTypes, NEW n \in Nat, SetPromise(n)
  PROVE  promise' \in Promises /\ fate' \in Fates
BY DEF AdapterTypes, SetPromise, Promises, Fates

LEMMA ErrorsTypes == \A k : Errors(k) \in Nat /\ SendErrors \in Nat
BY DEF Errors, SendErrors

(***************************************************************************)
(* What a step leaves alone keeps its types.                               *)
(***************************************************************************)
LEMMA Unchanged ==
  /\ SessionTypes /\ UNCHANGED <<stream, channel>> => SessionTypes'
  /\ DispatchTypes /\ UNCHANGED dispatch => DispatchTypes'
  /\ AdapterTypes /\ UNCHANGED adapter => AdapterTypes'
  /\ ClientTypes /\ UNCHANGED <<client, hits>> => ClientTypes'
<1>1. SessionTypes /\ UNCHANGED <<stream, channel>> => SessionTypes'
  BY DEF SessionTypes, stream, channel
<1>2. DispatchTypes /\ UNCHANGED dispatch => DispatchTypes'
  BY DEF DispatchTypes, dispatch
<1>3. AdapterTypes /\ UNCHANGED adapter => AdapterTypes'
  BY DEF AdapterTypes, adapter
<1>4. ClientTypes /\ UNCHANGED <<client, hits>> => ClientTypes'
  BY DEF ClientTypes, client
<1>. QED BY <1>1, <1>2, <1>3, <1>4

LEMMA GoesOn ==
  ASSUME DispatchTypes, UNCHANGED msg, at' \in Ats, reply' \in Replies
  PROVE  DispatchTypes'
BY DEF DispatchTypes

LEMMA Refusal ==
  ASSUME DispatchTypes
  PROVE  /\ [reply EXCEPT !.ok = FALSE] \in Replies
         /\ \A left \in Seq(Lines) : [reply EXCEPT !.left = left] \in Replies
         /\ \A left \in Seq(Lines), line \in Lines :
              [reply EXCEPT !.left = left, !.verified = line] \in Replies
<1>1. reply \in Replies
  BY DEF DispatchTypes
<1>2. FALSE \in BOOLEAN
  OBVIOUS
<1>3. [reply EXCEPT !.ok = FALSE] \in Replies
  BY <1>1, <1>2 DEF Replies
<1>4. \A left \in Seq(Lines) : [reply EXCEPT !.left = left] \in Replies
  BY <1>1 DEF Replies
<1>5. \A left \in Seq(Lines), line \in Lines :
        [reply EXCEPT !.left = left, !.verified = line] \in Replies
  BY <1>1 DEF Replies
<1>. QED BY <1>3, <1>4, <1>5

LEMMA AskTypes ==
  ASSUME TypeOK, Ask
  PROVE  TypeOK'
<1>1. PICK m \in Messages :
        /\ Harmless(m) \/ excuses < MaxExcuses
        /\ excuses' = IF Harmless(m) THEN excuses ELSE excuses + 1
        /\ incoming' = Append(incoming, m)
        /\ asked' = asked \cup {m.kind}
        /\ view' = IF m.kind \in {"continue", "next"} THEN "running" ELSE view
  BY DEF Ask
<1>2. /\ UNCHANGED <<closable, open, receiving, channel, dispatch, adapter, known, verified,
                     overtaken, hits>>
      /\ requests < MaxRequests /\ requests' = requests + 1
  BY DEF Ask
<1>3. SessionTypes'
  <2>1. incoming' \in Seq(Messages)
    BY <1>1, Types DEF SessionTypes
  <2>. QED BY <1>2, <2>1, Types DEF SessionTypes, channel
<1>4. DispatchTypes' /\ AdapterTypes'
  BY <1>2, Types, Unchanged
<1>5. ClientTypes'
  <2>1. excuses' \in 0 .. MaxExcuses
    <3>1. excuses \in 0 .. MaxExcuses /\ MaxExcuses \in Nat
      BY Types, SessionAssumption DEF ClientTypes
    <3>2. CASE Harmless(m)
      BY <1>1, <3>1, <3>2
    <3>3. CASE ~Harmless(m)
      BY <1>1, <3>1, <3>3
    <3>. QED BY <3>2, <3>3
  <2>2. requests' \in 0 .. MaxRequests
    <3>1. requests \in 0 .. MaxRequests /\ MaxRequests \in Nat
      BY Types, SessionAssumption DEF ClientTypes
    <3>. QED BY <1>2, <3>1
  <2>3. asked' \subseteq Kinds
    BY <1>1, MessageTypes, Types DEF ClientTypes
  <2>4. view' \in {"running", "stopped"}
    BY <1>1, Types DEF ClientTypes
  <2>5. overtaken' \in BOOLEAN
    BY <1>2, Types DEF ClientTypes
  <2>. QED BY <1>2, <2>1, <2>2, <2>3, <2>4, <2>5, Types DEF ClientTypes
<1>. QED BY <1>3, <1>4, <1>5, TypesNext

LEMMA ReceiveTypes ==
  ASSUME TypeOK, Receive \/ ReceivingEnds
  PROVE  TypeOK'
<1>1. CASE Receive
  <2>1. PICK m \in Messages :
          /\ Read(m)
          /\ SetPromise(Errors(m.kind))
          /\ IF Errors(m.kind) = 0 THEN Put(m) ELSE UNCHANGED channel
    BY <1>1 DEF Receive
  <2>2. UNCHANGED <<dispatch, debugger, loop, main, client, hits>>
    BY <1>1 DEF Receive
  <2>3. incoming' \in Seq(Messages) /\ inbox' \in Seq(Messages)
    <3>1. incoming \in Seq(Messages) /\ inbox \in Seq(Messages)
      BY Types DEF SessionTypes
    <3>2. incoming # <<>> /\ incoming' = Tail(incoming)
      BY <2>1 DEF Read
    <3>3. inbox' = Append(inbox, m) \/ inbox' = inbox
      BY <2>1, Zenon DEF Put, channel
    <3>. QED BY <3>1, <3>2, <3>3, HeadTailProperties
  <2>4. asleep' \in BOOLEAN
    <3>1. CASE UNCHANGED channel
      BY <3>1, Types DEF channel, SessionTypes
    <3>2. CASE Put(m)
      BY <3>2, Zenon DEF Put
    <3>. QED BY <2>1, <3>1, <3>2
  <2>5. UNCHANGED <<closable, open, receiving, closed>>
    BY <2>1 DEF Read, Put, channel
  <2>6. SessionTypes'
    BY <2>3, <2>4, <2>5, Types DEF SessionTypes
  <2>7. AdapterTypes'
    <3>1. promise' \in Promises /\ fate' \in Fates
      BY <2>1, PromiseTypes, ErrorsTypes, Types
    <3>. QED BY <2>2, <3>1, Types DEF AdapterTypes
  <2>. QED BY <2>2, <2>6, <2>7, Types, TypesNext, Unchanged
<1>2. CASE ReceivingEnds
  <2>1. /\ UNCHANGED <<channel, dispatch, adapter, client, hits, closable, open, incoming>>
        /\ receiving' = FALSE
    BY <1>2 DEF ReceivingEnds, StopReceiving
  <2>2. SessionTypes'
    BY <2>1, Types DEF SessionTypes, channel
  <2>. QED BY <2>1, <2>2, Types, TypesNext, Unchanged
<1>. QED BY <1>1, <1>2

LEMMA TakeTypes ==
  ASSUME TypeOK, Wait \/ TakeMessage \/ DispatchEnds
  PROVE  TypeOK'
<1>1. CASE Wait
  <2>1. UNCHANGED <<stream, dispatch, adapter, client, hits, inbox, closed>> /\ asleep' = TRUE
    BY <1>1 DEF Wait, Sleep
  <2>2. SessionTypes'
    BY <2>1, Types DEF SessionTypes, stream
  <2>. QED BY <2>1, <2>2, Types, TypesNext, Unchanged
<1>2. CASE TakeMessage
  <2>1. /\ UNCHANGED <<stream, adapter, client, hits, closed, asleep>>
        /\ inbox # <<>> /\ inbox' = Tail(inbox)
        /\ msg' = Head(inbox) /\ at' = "handle" /\ reply' = NoReply
    BY <1>2 DEF TakeMessage, Take
  <2>2. inbox' \in Seq(Messages) /\ msg' \in Messages
    BY <2>1, Types, HeadTailProperties DEF SessionTypes
  <2>3. SessionTypes'
    BY <2>1, <2>2, Types DEF SessionTypes, stream
  <2>4. DispatchTypes'
    BY <2>1, <2>2, DebuggerTypes DEF DispatchTypes, Ats
  <2>. QED BY <2>1, <2>3, <2>4, Types, TypesNext, Unchanged
<1>3. CASE DispatchEnds
  <2>1. UNCHANGED <<stream, channel, msg, reply, adapter, client, hits>> /\ at' = "ended"
    BY <1>3 DEF DispatchEnds, TakeNothing
  <2>2. DispatchTypes'
    BY <2>1, Types DEF DispatchTypes, Ats
  <2>. QED BY <2>1, <2>2, Types, TypesNext, Unchanged
<1>. QED BY <1>1, <1>2, <1>3

LEMMA HandleTypes ==
  ASSUME TypeOK, AnswerAtOnce \/ HandlerThrows \/ UseDebugger \/ Construct \/ NextLine
  PROVE  TypeOK'
<1>1. CASE HandlerThrows
  <2>1. /\ UNCHANGED <<stream, channel, dispatch, debugger, loop, promise, main, client, hits>>
        /\ fate' \in Fates
    BY <1>1 DEF HandlerThrows, Die, Fates
  <2>2. AdapterTypes'
    BY <2>1, Types DEF AdapterTypes
  <2>. QED BY <2>1, <2>2, Types, TypesNext, Unchanged
<1>2. CASE AnswerAtOnce \/ UseDebugger \/ Construct \/ NextLine
  <2>1. OnlyDispatch /\ at' \in Ats
    BY <1>2 DEF AnswerAtOnce, UseDebugger, Construct, NextLine, Goto, Refuse, Ats
  <2>2. reply' \in Replies
    <3>1. reply \in Replies /\ reply.left \in Seq(Lines) /\ msg \in Messages
      BY Types DEF DispatchTypes, Replies
    <3>2. CASE AnswerAtOnce \/ Construct
      BY <3>1, <3>2, Refusal, Types DEF AnswerAtOnce, Construct, Goto, Refuse
    <3>3. CASE UseDebugger
      BY <3>1, <3>3, Refusal, MessageTypes, Types DEF UseDebugger, Goto, Handling
    <3>4. CASE NextLine
      <4>1. CASE reply' = reply
        BY <3>1, <4>1
      <4>2. CASE reply.left # <<>> /\ reply' = [reply EXCEPT !.left = Tail(@)]
        <5>1. Tail(reply.left) \in Seq(Lines)
          BY <3>1, <4>2, HeadTailProperties
        <5>. QED BY <3>1, <4>2, <5>1 DEF Replies
      <4>. QED BY <3>4, <4>1, <4>2 DEF NextLine, Goto
    <3>. QED BY <1>2, <3>2, <3>3, <3>4
  <2>. QED BY <2>1, <2>2, Types, TypesNext, Unchanged, GoesOn DEF OnlyDispatch
<1>. QED BY <1>1, <1>2

LEMMA OwnTypes ==
  ASSUME TypeOK, Replace \/ Destroy
  PROVE  TypeOK'
<1>1. CASE Replace
  <2>1. /\ UNCHANGED <<stream, channel, msg, promise, main, fate, client, hits>>
        /\ debugger' = Fresh /\ loop' = "idle" /\ at' \in Ats
        /\ reply' = reply \/ reply' = [reply EXCEPT !.ok = FALSE]
    BY <1>1 DEF Replace, Goto, Refuse, Ats
  <2>2. DispatchTypes'
    BY <2>1, Refusal, Types DEF DispatchTypes
  <2>3. AdapterTypes'
    BY <2>1, Types, DebuggerTypes DEF AdapterTypes
  <2>. QED BY <2>1, <2>2, <2>3, Types, TypesNext, Unchanged
<1>2. CASE Destroy
  <2>1. /\ UNCHANGED <<stream, channel, msg, reply, promise, main, fate, client, hits>>
        /\ debugger' = NoDebugger /\ loop' = "none" /\ at' \in Ats
    BY <1>2 DEF Destroy, Goto, Ats
  <2>2. DispatchTypes'
    BY <2>1, Types DEF DispatchTypes
  <2>3. AdapterTypes'
    BY <2>1, Types DEF AdapterTypes
  <2>. QED BY <2>1, <2>2, <2>3, Types, TypesNext, Unchanged
<1>. QED BY <1>1, <1>2

(***************************************************************************)
(* A task changes at most the debugger, the loop, the answer and where the *)
(* dispatch thread goes.                                                   *)
(***************************************************************************)
LEMMA Changes ==
  ASSUME NEW d \in Debuggers
  PROVE  /\ \A b \in BOOLEAN : [d EXCEPT !.stopped = b] \in Debuggers
         /\ [d EXCEPT !.symbols = TRUE] \in Debuggers
         /\ \A line \in Lines : [d EXCEPT !.bp = line] \in Debuggers
<1>1. \A b \in BOOLEAN : [d EXCEPT !.stopped = b] \in Debuggers
  BY DEF Debuggers
<1>2. [d EXCEPT !.symbols = TRUE] \in Debuggers
  BY DEF Debuggers
<1>3. \A line \in Lines : [d EXCEPT !.bp = line] \in Debuggers
  BY DEF Debuggers
<1>. QED BY <1>1, <1>2, <1>3

LEMMA TaskTypes ==
  ASSUME Structure, Tasks
  PROVE  TypeOK' /\ debugger' \in Debuggers
<1>1. TypeOK /\ SessionTypes /\ DispatchTypes /\ AdapterTypes /\ ClientTypes
  BY Types DEF Structure
<1>2. at = "task" /\ loop = "idle" /\ HasDebugger /\ debugger \in Debuggers
  <2>1. at = "task" /\ loop = "idle"
    BY DEF Tasks, SetTarget, SetBreakpoint, RunTarget, Pause, Continue, NextStep, Evaluate, Task
  <2>. QED BY <1>1, <2>1, DebuggerTypes DEF Structure, Places
<1>3. UNCHANGED <<stream, channel, msg, promise, main, client, hits>>
  BY DEF Tasks, SetTarget, SetBreakpoint, RunTarget, Pause, Continue, NextStep, Evaluate,
         OnlyLoop
<1>4. at' \in Ats /\ fate' \in Fates /\ loop' \in {"none", "idle"} \cup Stops
  BY <1>1, <1>2 DEF Tasks, SetTarget, SetBreakpoint, RunTarget, Pause, Continue, NextStep,
         Evaluate, Goto, Refuse, Ats, Fates, Stops, AdapterTypes
<1>5. reply' \in Replies /\ debugger' \in Debuggers
  <2>1. CASE SetTarget
    <3>1. reply' = reply \/ reply' = [reply EXCEPT !.ok = FALSE]
      BY <2>1 DEF SetTarget, Goto, Refuse
    <3>2. debugger' = debugger \/ debugger' = [debugger EXCEPT !.symbols = TRUE]
      BY <2>1 DEF SetTarget
    <3>. QED BY <1>1, <1>2, <3>1, <3>2, Refusal, Changes DEF DispatchTypes
  <2>2. CASE SetBreakpoint
    <3>1. msg.kind = "setBreakpoints"
      BY <2>2 DEF SetBreakpoint, Task
    <3>2. reply.left \in Seq(Lines) /\ reply.left # <<>>
      <4>1. reply.left # <<>>
        BY <1>2, <3>1 DEF Structure, Places
      <4>. QED BY <1>1, <4>1 DEF DispatchTypes, Replies
    <3>3. Head(reply.left) \in Lines /\ Tail(reply.left) \in Seq(Lines)
      BY <3>2, HeadTailProperties
    <3>4. \/ reply' = [reply EXCEPT !.left = Tail(@), !.verified = Head(reply.left)]
          \/ reply' = [reply EXCEPT !.left = Tail(@)]
      BY <2>2 DEF SetBreakpoint
    <3>5. debugger' = debugger \/ debugger' = [debugger EXCEPT !.bp = Head(reply.left)]
      BY <2>2 DEF SetBreakpoint
    <3>6. reply' \in Replies
      BY <1>1, <3>3, <3>4, Refusal
    <3>. QED BY <1>2, <3>3, <3>5, <3>6, Changes
  <2>3. CASE RunTarget \/ NextStep \/ Evaluate
    BY <1>1, <1>2, <2>3 DEF RunTarget, NextStep, Evaluate, Goto, DispatchTypes
  <2>4. CASE Pause \/ Continue
    <3>1. reply' = reply /\ \E b \in BOOLEAN : debugger' = [debugger EXCEPT !.stopped = b]
      BY <2>4 DEF Pause, Continue, Goto
    <3>. QED BY <1>1, <1>2, <3>1, Changes DEF DispatchTypes
  <2>. QED BY <2>1, <2>2, <2>3, <2>4 DEF Tasks
<1>6. DispatchTypes' /\ AdapterTypes'
  BY <1>1, <1>3, <1>4, <1>5 DEF DispatchTypes, AdapterTypes
<1>. QED BY <1>1, <1>3, <1>5, <1>6, TypesNext, Unchanged

LEMMA LoopTypes ==
  ASSUME TypeOK, Detect \/ SendStopped \/ TargetFails
  PROVE  TypeOK'
<1>. USE Types
<1>1. CASE Detect
  <2>1. /\ UNCHANGED <<stream, channel, dispatch, promise, main, fate, asked, known, view,
                       verified, overtaken, requests>>
        /\ hits < MaxHits /\ hits' = hits + 1 /\ loop' = "breakpoint" /\ debugger.bp \in Lines
        /\ debugger' = [debugger EXCEPT !.stopped = TRUE]
        /\ excuses' = excuses \/ (excuses < MaxExcuses /\ excuses' = excuses + 1)
    BY <1>1 DEF Detect
  <2>2. debugger' \in Debuggers
    <3>1. debugger # NoDebugger
      <4>1. NoDebugger.bp = "no debugger" /\ "no debugger" \notin Lines
        BY SessionAssumption DEF NoDebugger
      <4>. QED BY <2>1, <4>1
    <3>. QED BY <2>1, <3>1, Changes, DebuggerTypes DEF HasDebugger
  <2>3. AdapterTypes'
    BY <2>1, <2>2 DEF AdapterTypes, Stops
  <2>4. hits' \in 0 .. MaxHits
    <3>1. hits \in 0 .. MaxHits /\ MaxHits \in Nat
      BY SessionAssumption DEF ClientTypes
    <3>. QED BY <2>1, <3>1
  <2>5. excuses' \in 0 .. MaxExcuses
    <3>1. excuses \in 0 .. MaxExcuses /\ MaxExcuses \in Nat
      BY SessionAssumption DEF ClientTypes
    <3>. QED BY <2>1, <3>1
  <2>6. ClientTypes'
    BY <2>1, <2>4, <2>5 DEF ClientTypes
  <2>. QED BY <2>1, <2>3, <2>6, TypesNext, Unchanged
<1>2. CASE SendStopped
  <2>1. /\ UNCHANGED <<stream, channel, msg, reply, debugger, main, asked, known, verified,
                       requests, excuses, hits>>
        /\ loop' = "idle" /\ at' = IF at = "event" THEN "answer" ELSE at
        /\ \/ main = "gone" /\ fate' = "undefined" /\ UNCHANGED <<promise, view, overtaken>>
           \/ SetPromise(SendErrors) /\ view' = IF open THEN "stopped" ELSE view
    BY <1>2 DEF SendStopped
  <2>2. DispatchTypes'
    BY <2>1 DEF DispatchTypes, Ats
  <2>3. AdapterTypes'
    <3>1. promise' \in Promises /\ fate' \in Fates
      BY <2>1, PromiseTypes, ErrorsTypes DEF AdapterTypes, Fates
    <3>. QED BY <2>1, <3>1 DEF AdapterTypes
  <2>4. ClientTypes'
    <3>1. overtaken' \in BOOLEAN
      <4>1. CASE main = "gone"
        BY <1>2, <4>1 DEF SendStopped, ClientTypes
      <4>2. CASE main # "gone"
        BY <1>2, <4>2, Zenon DEF SendStopped
      <4>. QED BY <4>1, <4>2
    <3>2. view' \in {"running", "stopped"}
      BY <2>1 DEF ClientTypes
    <3>. QED BY <2>1, <3>1, <3>2 DEF ClientTypes
  <2>. QED BY <2>1, <2>2, <2>3, <2>4, TypesNext, Unchanged
<1>3. CASE TargetFails
  <2>1. /\ UNCHANGED <<stream, channel, dispatch, debugger, loop, promise, main, asked, known,
                       view, verified, overtaken, requests, hits>>
        /\ excuses < MaxExcuses /\ excuses' = excuses + 1 /\ fate' = "terminate"
    BY <1>3 DEF TargetFails
  <2>2. excuses' \in 0 .. MaxExcuses
    <3>1. excuses \in 0 .. MaxExcuses /\ MaxExcuses \in Nat
      BY SessionAssumption DEF ClientTypes
    <3>. QED BY <2>1, <3>1
  <2>3. AdapterTypes' /\ ClientTypes'
    BY <2>1, <2>2 DEF AdapterTypes, ClientTypes, Fates
  <2>. QED BY <2>1, <2>3, TypesNext, Unchanged
<1>. QED BY <1>1, <1>2, <1>3

LEMMA AnswerTypes ==
  ASSUME TypeOK, Respond \/ ResponseSent
  PROVE  TypeOK'
<1>. USE Types
<1>1. /\ UNCHANGED <<stream, channel, msg, reply, debugger, loop, main, asked, overtaken,
                     requests, excuses, hits>>
      /\ at' \in Ats
      /\ \E n \in Nat : SetPromise(n)
  <2>1. CASE Respond
    BY <2>1, ErrorsTypes DEF Respond, Goto, Ats
  <2>2. CASE ResponseSent
    BY <2>2, ErrorsTypes DEF ResponseSent, Goto, Ats, client
  <2>. QED BY <2>1, <2>2
<1>2. DispatchTypes'
  BY <1>1 DEF DispatchTypes
<1>3. AdapterTypes'
  <2>1. promise' \in Promises /\ fate' \in Fates
    BY <1>1, PromiseTypes
  <2>. QED BY <1>1, <2>1 DEF AdapterTypes
<1>4. ClientTypes'
  <2>1. CASE Respond
    <3>1. known' \subseteq Kinds
      <4>1. msg.kind \in Kinds
        BY MessageTypes DEF DispatchTypes
      <4>. QED BY <2>1, <4>1 DEF Respond, ClientTypes
    <3>2. verified' \in Lines \cup {NoLine}
      <4>1. reply.verified \in Lines \cup {NoLine}
        BY DEF DispatchTypes, Replies
      <4>. QED BY <2>1, <4>1 DEF Respond, ClientTypes
    <3>3. view' \in {"running", "stopped"}
      BY <2>1 DEF Respond, ClientTypes
    <3>. QED BY <1>1, <3>1, <3>2, <3>3 DEF ClientTypes
  <2>2. CASE ResponseSent
    BY <2>2 DEF ResponseSent, client, ClientTypes
  <2>. QED BY <2>1, <2>2
<1>. QED BY <1>1, <1>2, <1>3, <1>4, TypesNext, Unchanged

LEMMA MainTypes ==
  ASSUME TypeOK, Main
  PROVE  TypeOK'
<1>. USE Types
<1>1. UNCHANGED <<dispatch, client, hits, closable, incoming, inbox, receiving, fate>>
  BY DEF Main, RunReturns, CloseInbox, CloseReaderAndWriter, Joined, Exit, MainGoes, stream,
         channel, CloseChannel, CloseStreams
<1>2. SessionTypes'
  <2>1. open' \in BOOLEAN
    <3>1. CASE CloseReaderAndWriter
      BY <3>1, Zenon DEF CloseReaderAndWriter, CloseStreams
    <3>2. CASE ~CloseReaderAndWriter
      BY <3>2 DEF Main, RunReturns, CloseInbox, Joined, Exit, stream, SessionTypes
    <3>. QED BY <3>1, <3>2
  <2>2. closed' \in BOOLEAN /\ asleep' \in BOOLEAN
    BY DEF Main, RunReturns, CloseInbox, CloseReaderAndWriter, Joined, Exit, channel,
           CloseChannel, SessionTypes
  <2>. QED BY <1>1, <2>1, <2>2 DEF SessionTypes
<1>3. AdapterTypes'
  BY <1>1 DEF Main, RunReturns, CloseInbox, CloseReaderAndWriter, Joined, Exit, MainGoes,
              AdapterTypes, Promises, Mains
<1>. QED BY <1>1, <1>2, <1>3, TypesNext, Unchanged

LEMMA InitTypes == Init => TypeOK
<1>. SUFFICES ASSUME Init PROVE TypeOK
  OBVIOUS
<1>1. SessionTypes
  <2>1. {closable, open, receiving, closed, asleep} \subseteq BOOLEAN
    <3>1. closable \in BOOLEAN
      BY Zenon DEF Init, SessionInit
    <3>2. open \in BOOLEAN /\ receiving \in BOOLEAN /\ closed \in BOOLEAN /\ asleep \in BOOLEAN
      BY Zenon DEF Init, SessionInit
    <3>. QED BY <3>1, <3>2, Zenon
  <2>2. incoming \in Seq(Messages) /\ inbox \in Seq(Messages)
    BY DEF Init, SessionInit
  <2>. QED BY <2>1, <2>2 DEF SessionTypes
<1>2. DispatchTypes
  BY FirstMessage, DebuggerTypes DEF Init, DispatchTypes, Ats
<1>3. AdapterTypes
  BY DEF Init, AdapterTypes, Promises, Mains, Fates
<1>4. ClientTypes
  <2>1. overtaken \in BOOLEAN
    BY Zenon DEF Init
  <2>2. requests \in 0 .. MaxRequests /\ excuses \in 0 .. MaxExcuses /\ hits \in 0 .. MaxHits
    <3>1. {MaxRequests, MaxExcuses, MaxHits} \subseteq Nat
      BY SessionAssumption
    <3>. QED BY <3>1 DEF Init
  <2>3. /\ asked \subseteq Kinds /\ known \subseteq Kinds
        /\ view \in {"running", "stopped"} /\ verified \in Lines \cup {NoLine}
    BY DEF Init
  <2>. QED BY <2>1, <2>2, <2>3 DEF ClientTypes
<1>. QED BY <1>1, <1>2, <1>3, <1>4, Types

-----------------------------------------------------------------------------
(***************************************************************************)
(* The threads stay where they may be together.                            *)
(***************************************************************************)
LEMMA InitStructure == Init => Structure
<1>. SUFFICES ASSUME Init PROVE Structure
  OBVIOUS
<1>1. TypeOK
  BY InitTypes
<1>2. Places /\ LoopRuns
  BY DEF Init, Places, LoopRuns, Handles, HasDebugger, Stops
<1>3. MainWaits
  <2>1. open /\ ~closed
    BY DEF Init, SessionInit
  <2>. QED BY <2>1 DEF Init, MainWaits
<1>. QED BY <1>1, <1>2, <1>3 DEF Structure

LEMMA Stay ==
  /\ Places /\ UNCHANGED <<dispatch, debugger, loop>> => Places'
  /\ LoopRuns /\ UNCHANGED <<debugger, loop>> => LoopRuns'
  /\ MainWaits /\ UNCHANGED <<main, open, closed, at>>
       /\ (promise = "destroyed" <=> promise' = "destroyed") => MainWaits'
<1>1. Places /\ UNCHANGED <<dispatch, debugger, loop>> => Places'
  BY DEF Places, Handles, HasDebugger, dispatch
<1>2. LoopRuns /\ UNCHANGED <<debugger, loop>> => LoopRuns'
  BY DEF LoopRuns, HasDebugger
<1>3. MainWaits /\ UNCHANGED <<main, open, closed, at>>
        /\ (promise = "destroyed" <=> promise' = "destroyed") => MainWaits'
  BY DEF MainWaits
<1>. QED BY <1>1, <1>2, <1>3

LEMMA PromiseStays ==
  ASSUME NEW n, SetPromise(n)
  PROVE  promise = "destroyed" <=> promise' = "destroyed"
BY DEF SetPromise

LEMMA EndedWaits ==    \* a thread that has not ended may move while main() waits
  ASSUME MainWaits, at # "ended", UNCHANGED <<main, promise, open, closed>>
  PROVE  MainWaits'
BY DEF MainWaits

LEMMA StepStructure ==
  ASSUME Structure, Next
  PROVE  Structure'
<1>. TypeOK /\ Places /\ LoopRuns /\ MainWaits
  BY DEF Structure
<1>1. CASE Ask
  <2>1. UNCHANGED <<dispatch, debugger, loop, main, promise, open, closed, at>>
    BY <1>1 DEF Ask, dispatch, adapter, channel
  <2>. QED BY <1>1, <2>1, Stay, AskTypes DEF Structure
<1>2. CASE Receive
  <2>1. UNCHANGED <<dispatch, debugger, loop, main, open, closed, at>>
    BY <1>2 DEF Receive, Read, Put, dispatch, channel
  <2>2. promise = "destroyed" <=> promise' = "destroyed"
    BY <1>2, PromiseStays DEF Receive
  <2>. QED BY <1>2, <2>1, <2>2, Stay, ReceiveTypes DEF Structure
<1>3. CASE ReceivingEnds
  <2>1. UNCHANGED <<dispatch, debugger, loop, main, promise, open, closed, at>>
    BY <1>3 DEF ReceivingEnds, StopReceiving, dispatch, channel, adapter
  <2>. QED BY <1>3, <2>1, Stay, ReceiveTypes DEF Structure
<1>4. CASE Wait
  <2>1. UNCHANGED <<dispatch, debugger, loop, main, promise, open, closed, at>>
    BY <1>4 DEF Wait, Sleep, dispatch, stream, adapter
  <2>. QED BY <1>4, <2>1, Stay, TakeTypes DEF Structure
<1>5. CASE TakeMessage \/ DispatchEnds
  <2>1. /\ UNCHANGED <<debugger, loop, main, promise, open, closed>>
        /\ at = "take" /\ at' \in {"handle", "ended"}
    BY <1>5 DEF TakeMessage, DispatchEnds, Take, TakeNothing, stream, channel, adapter
  <2>2. Places' /\ LoopRuns'
    BY <2>1 DEF Places, LoopRuns, Handles, HasDebugger
  <2>3. MainWaits'
    BY <2>1, EndedWaits
  <2>. QED BY <1>5, <2>2, <2>3, TakeTypes DEF Structure
<1>6. CASE AnswerAtOnce \/ UseDebugger \/ Construct \/ NextLine
  <2>1. /\ UNCHANGED <<debugger, loop, main, promise, open, closed, msg>>
        /\ at \in {"handle", "construct", "lines"}
    BY <1>6 DEF AnswerAtOnce, UseDebugger, Construct, NextLine, OnlyDispatch, Handling, stream,
                channel, adapter
  <2>2. LoopRuns' /\ MainWaits'
    BY <2>1, Stay, EndedWaits
  <2>3. Places'
    <3>1. at # "event" /\ loop \notin {"pause", "step"}
      BY <2>1 DEF Places
    <3>2. CASE AnswerAtOnce
      BY <2>1, <3>1, <3>2 DEF AnswerAtOnce, Places, Handles, HasDebugger, Goto, Refuse
    <3>3. CASE UseDebugger
      BY <2>1, <3>1, <3>3 DEF UseDebugger, Handling, Places, Handles, HasDebugger, Goto
    <3>4. CASE Construct
      BY <2>1, <3>1, <3>4 DEF Construct, Places, Handles, HasDebugger, Goto, Refuse
    <3>5. CASE NextLine
      BY <2>1, <3>1, <3>5 DEF NextLine, Places, Handles, HasDebugger, Goto
    <3>. QED BY <1>6, <3>2, <3>3, <3>4, <3>5
  <2>. QED BY <1>6, <2>2, <2>3, HandleTypes DEF Structure
<1>7. CASE HandlerThrows
  <2>1. UNCHANGED <<dispatch, debugger, loop, main, promise, open, closed, at>>
    BY <1>7 DEF HandlerThrows, Die, dispatch, stream, channel
  <2>. QED BY <1>7, <2>1, Stay, HandleTypes DEF Structure
<1>8. CASE Replace
  <2>1. /\ UNCHANGED <<main, promise, open, closed, msg>> /\ at = "replace"
        /\ debugger' = Fresh /\ loop' = "idle" /\ at' \in {"answer", "task"}
    BY <1>8 DEF Replace, Goto, Refuse, stream, channel
  <2>2. msg.kind = "launch"
    BY <2>1 DEF Places, Handles
  <2>3. Places' /\ LoopRuns'
    BY <2>1, <2>2, DebuggerTypes DEF Places, LoopRuns, Handles, HasDebugger, Stops
  <2>. QED BY <1>8, <2>1, <2>3, EndedWaits, OwnTypes DEF Structure
<1>9. CASE Destroy
  <2>1. /\ UNCHANGED <<main, promise, open, closed, msg>> /\ at = "destroy"
        /\ debugger' = NoDebugger /\ loop' = "none" /\ at' = "answer"
    BY <1>9 DEF Destroy, Goto, stream, channel
  <2>2. Places' /\ LoopRuns'
    BY <2>1 DEF Places, LoopRuns, Handles, HasDebugger, Stops
  <2>. QED BY <1>9, <2>1, <2>2, EndedWaits, OwnTypes DEF Structure
<1>10. CASE Tasks
  <2>1. /\ UNCHANGED <<main, promise, open, closed, msg>> /\ at = "task" /\ loop = "idle"
    BY <1>10 DEF Tasks, SetTarget, SetBreakpoint, RunTarget, Pause, Continue, NextStep, Evaluate,
                 Task, OnlyLoop, stream, channel
  <2>2. HasDebugger /\ debugger \in Debuggers
    BY <2>1, DebuggerTypes DEF Places
  <2>3. HasDebugger'
    <3>1. debugger' \in Debuggers
      BY <1>10, TaskTypes
    <3>. QED BY <3>1, DebuggerTypes DEF HasDebugger
  <2>4. Places' /\ LoopRuns'
    <3>1. CASE SetTarget
      BY <2>1, <2>2, <2>3, <3>1 DEF SetTarget, Task, Places, LoopRuns, Handles, Goto, Refuse, Stops
    <3>2. CASE SetBreakpoint
      BY <2>1, <2>2, <2>3, <3>2 DEF SetBreakpoint, Task, Places, LoopRuns, Handles, Stops
    <3>3. CASE RunTarget
      BY <2>1, <2>2, <2>3, <3>3 DEF RunTarget, Task, Places, LoopRuns, Handles, Goto, Stops
    <3>4. CASE Pause
      <4>1. debugger'.stopped = TRUE
        BY <2>2, <3>4 DEF Pause, Debuggers
      <4>. QED BY <2>1, <2>2, <2>3, <3>4, <4>1 DEF Pause, Task, Places, LoopRuns, Handles, Goto, Stops
    <3>5. CASE Continue
      BY <2>1, <2>2, <2>3, <3>5 DEF Continue, Task, Places, LoopRuns, Handles, Goto, Stops
    <3>6. CASE NextStep
      BY <2>1, <2>2, <2>3, <3>6 DEF NextStep, Task, Places, LoopRuns, Handles, HasDebugger, Goto, Stops
    <3>7. CASE Evaluate
      BY <2>1, <2>2, <2>3, <3>7 DEF Evaluate, Task, Places, LoopRuns, Handles, HasDebugger, Goto, Stops
    <3>. QED BY <1>10, <3>1, <3>2, <3>3, <3>4, <3>5, <3>6, <3>7 DEF Tasks
  <2>. QED BY <1>10, <2>1, <2>4, EndedWaits, TaskTypes DEF Structure
<1>11. CASE Detect
  <2>1. /\ UNCHANGED <<main, promise, open, closed, dispatch, at>> /\ loop = "idle"
        /\ debugger' = [debugger EXCEPT !.stopped = TRUE] /\ debugger.bp \in Lines
        /\ loop' = "breakpoint"
    BY <1>11 DEF Detect, stream, channel, dispatch
  <2>2. debugger \in Debuggers /\ HasDebugger
    BY <2>1, DebuggerTypes DEF LoopRuns
  <2>3. debugger' \in Debuggers /\ debugger'.stopped = TRUE /\ debugger'.bp = debugger.bp
    BY <2>1, <2>2 DEF Debuggers
  <2>4. HasDebugger'
    BY <2>3, DebuggerTypes DEF HasDebugger
  <2>5. Places'
    BY <2>1, <2>3, <2>4 DEF Places, Handles, dispatch
  <2>6. LoopRuns'
    BY <2>1, <2>3, <2>4 DEF LoopRuns
  <2>. QED BY <1>11, <2>1, <2>5, <2>6, Stay, LoopTypes DEF Structure
<1>12. CASE SendStopped
  <2>1. /\ UNCHANGED <<main, open, closed, msg, reply, debugger>> /\ loop \in Stops
        /\ loop' = "idle" /\ at' = IF at = "event" THEN "answer" ELSE at
        /\ promise = "destroyed" <=> promise' = "destroyed"
    BY <1>12, PromiseStays DEF SendStopped, stream, channel
  <2>2. Places' /\ LoopRuns'
    BY <2>1 DEF Places, LoopRuns, Handles, HasDebugger, Stops
  <2>3. MainWaits'
    BY <2>1 DEF MainWaits
  <2>. QED BY <1>12, <2>2, <2>3, LoopTypes DEF Structure
<1>13. CASE TargetFails
  <2>1. UNCHANGED <<dispatch, debugger, loop, main, promise, open, closed, at>>
    BY <1>13 DEF TargetFails, dispatch, stream, channel
  <2>. QED BY <1>13, <2>1, Stay, LoopTypes DEF Structure
<1>14. CASE Respond \/ ResponseSent
  <2>1. /\ UNCHANGED <<debugger, loop, main, open, closed>>
        /\ at \in {"answer", "sent"} /\ at' \in {"sent", "take"}
        /\ promise = "destroyed" <=> promise' = "destroyed"
    BY <1>14, PromiseStays DEF Respond, ResponseSent, Goto, stream, channel
  <2>2. Places' /\ LoopRuns'
    BY <2>1 DEF Places, LoopRuns, Handles, HasDebugger
  <2>3. MainWaits'
    BY <2>1 DEF MainWaits
  <2>. QED BY <1>14, <2>2, <2>3, AnswerTypes DEF Structure
<1>15. CASE RunReturns \/ CloseInbox \/ CloseReaderAndWriter \/ Joined
  <2>1. UNCHANGED <<dispatch, debugger, loop>>
    BY <1>15 DEF RunReturns, CloseInbox, CloseReaderAndWriter, Joined, MainGoes
  <2>2. MainWaits'
    BY <1>15 DEF RunReturns, CloseInbox, CloseReaderAndWriter, Joined, MainGoes, MainIs, dispatch,
                 CloseChannel, CloseStreams, stream, channel, MainWaits
  <2>. QED BY <1>15, <2>1, <2>2, Stay, MainTypes DEF Structure, Main
<1>16. CASE Exit
  <2>1. at = "ended" /\ main = "gone"
    BY <1>16 DEF Exit, MainIs, MainWaits
  <2>2. Places' /\ LoopRuns'
    BY <1>16, <2>1 DEF Exit, dispatch, Places, LoopRuns, Handles, HasDebugger, Stops
  <2>3. MainWaits'
    BY <1>16, <2>1 DEF Exit, dispatch, stream, channel, MainWaits
  <2>. QED BY <1>16, <2>2, <2>3, MainTypes DEF Structure, Main
<1>. QED BY <1>1, <1>2, <1>3, <1>4, <1>5, <1>6, <1>7, <1>8, <1>9, <1>10, <1>11, <1>12, <1>13,
            <1>14, <1>15, <1>16 DEF Next, Receiving, Dispatching, Main

LEMMA StructureHolds == Spec => []Structure
<1>1. Structure /\ [Next]_vars => Structure'
  <2>. SUFFICES ASSUME Structure, [Next]_vars PROVE Structure'
    OBVIOUS
  <2>1. CASE Next
    BY <2>1, StepStructure
  <2>2. CASE UNCHANGED vars
    <3>1. UNCHANGED <<stream, channel, dispatch, adapter, client, hits, debugger, loop, main,
                      open, closed, at, promise>>
      BY <2>2 DEF vars, stream, channel, dispatch, adapter
    <3>2. TypeOK'
      BY <3>1, Types, TypesNext, Unchanged DEF Structure
    <3>. QED BY <3>1, <3>2, Stay DEF Structure
  <2>. QED BY <2>1, <2>2
<1>. QED BY InitStructure, <1>1, PTL DEF Spec

(***************************************************************************)
(* Every variable keeps its type, whatever the client sends and whatever   *)
(* fails: no handler reads a message, an answer or a debugger it has not.  *)
(***************************************************************************)
THEOREM TypeCorrect == Spec => []TypeOK
<1>1. Structure => TypeOK
  BY DEF Structure
<1>. QED BY <1>1, StructureHolds, PTL

-----------------------------------------------------------------------------
(***************************************************************************)
(* The dispatch thread sleeps in Chan::take() only while the channel is    *)
(* open and empty: put() and close() wake it, and nothing but Chan changes *)
(* the channel.                                                            *)
(***************************************************************************)
LEMMA StepSleeps ==
  ASSUME TypeOK, SleepsWhenIdle, [Next]_vars
  PROVE  SleepsWhenIdle'
<1>1. CASE UNCHANGED channel
  BY <1>1 DEF SleepsWhenIdle, channel
<1>2. CASE Receive
  <2>1. PICK m \in Messages : IF Errors(m.kind) = 0 THEN Put(m) ELSE UNCHANGED channel
    BY <1>2 DEF Receive
  <2>2. Put(m) => SleepsWhenIdle'
    <3>. SUFFICES ASSUME Put(m), asleep' PROVE FALSE
      BY DEF SleepsWhenIdle
    <3>1. asleep /\ ~(inbox = <<>> /\ ~closed)
      BY Zenon DEF Put
    <3>. QED BY <3>1 DEF SleepsWhenIdle
  <2>. QED BY <1>1, <2>1, <2>2
<1>3. CASE Wait
  <2>1. inbox = <<>> /\ ~closed /\ inbox' = inbox /\ closed' = closed
    BY <1>3 DEF Wait, Sleep
  <2>. QED BY <2>1 DEF SleepsWhenIdle
<1>4. CASE TakeMessage
  <2>1. ~asleep /\ asleep' = asleep
    BY <1>4 DEF TakeMessage, Take
  <2>. QED BY <2>1 DEF SleepsWhenIdle
<1>5. CASE CloseInbox
  <2>1. asleep' = FALSE
    BY <1>5 DEF CloseInbox, CloseChannel
  <2>. QED BY <2>1 DEF SleepsWhenIdle
<1>6. \/ Receive \/ Wait \/ TakeMessage \/ CloseInbox
      \/ UNCHANGED channel
  BY DEF Next, Receiving, Dispatching, Tasks, Main, vars, Ask, ReceivingEnds, DispatchEnds,
         TakeNothing, AnswerAtOnce, HandlerThrows, Die, UseDebugger, Construct, Replace, Destroy,
         NextLine, Respond, ResponseSent, OnlyDispatch, OnlyLoop, SetTarget, SetBreakpoint,
         RunTarget, Pause, Continue, NextStep, Evaluate, Detect, SendStopped, TargetFails,
         RunReturns, CloseReaderAndWriter, Joined, Exit
<1>. QED BY <1>1, <1>2, <1>3, <1>4, <1>5, <1>6

(***************************************************************************)
(* No wake-up of the dispatch thread is lost.                              *)
(***************************************************************************)
THEOREM NoWakeUpIsLost == Spec => []SleepsWhenIdle
<1>1. Init => SleepsWhenIdle
  BY DEF Init, SessionInit, SleepsWhenIdle
<1>2. TypeOK /\ SleepsWhenIdle /\ [Next]_vars => SleepsWhenIdle'
  BY StepSleeps
<1>. QED BY <1>1, <1>2, TypeCorrect, PTL DEF Spec

-----------------------------------------------------------------------------
(***************************************************************************)
(* Stops are told.  The client of a stopped debugger knows of the stop,    *)
(* has asked to resume and waits, or was told before the answer to its     *)
(* Continue.  Continue is answered with the debugger stopped only when the *)
(* stop overtook the answer.                                               *)
(***************************************************************************)
Resumes == {"continue", "next"}

ResumeAsked ==
  \/ \E i \in DOMAIN inbox : inbox[i].kind \in Resumes
  \/ \E i \in DOMAIN incoming : incoming[i].kind \in Resumes
  \/ at \in {"handle", "task"} /\ msg.kind \in Resumes

StopsAreTold ==
  Alive /\ open /\ ~overtaken /\ debugger.stopped /\ loop \notin Stops =>
    view = "stopped" \/ ResumeAsked

OvertakenIsKnown ==
  Alive /\ at = "answer" /\ msg.kind = "continue" /\ debugger.stopped /\ loop \notin Stops =>
    overtaken

Told == StopsAreTold /\ OvertakenIsKnown

LEMMA ToldStays ==
  ASSUME Told, Alive, UNCHANGED <<open, debugger, loop, view, overtaken>>,
         ResumeAsked => ResumeAsked', at' = "answer" /\ msg'.kind = "continue" => at = "answer" /\ msg = msg'
  PROVE  Told'
BY DEF Told, StopsAreTold, OvertakenIsKnown

LEMMA Ends ==
  /\ ~Alive' => Told'
  /\ ~debugger'.stopped \/ loop' \in Stops => Told'
BY DEF Told, StopsAreTold, OvertakenIsKnown

LEMMA StepTold ==
  ASSUME Structure, Told, Next
  PROVE  Told'
<1>. TypeOK /\ SessionTypes /\ DispatchTypes /\ AdapterTypes /\ Places /\ LoopRuns /\ MainWaits
  BY Types DEF Structure
<1>. Alive
  BY DEF Next, Ask, Receiving, Receive, ReceivingEnds, Dispatching, Wait, TakeMessage,
         DispatchEnds, AnswerAtOnce, HandlerThrows, UseDebugger, Handling, Construct, Replace,
         Destroy, NextLine, Respond, ResponseSent, Tasks, SetTarget, SetBreakpoint, RunTarget,
         Pause, Continue, NextStep, Evaluate, Task, Detect, SendStopped, TargetFails, Main,
         RunReturns, CloseInbox, CloseReaderAndWriter, Joined, Exit, MainIs
<1>1. CASE Ask
  <2>1. PICK m \in Messages :
          /\ incoming' = Append(incoming, m)
          /\ view' = IF m.kind \in {"continue", "next"} THEN "running" ELSE view
    BY <1>1 DEF Ask
  <2>2. UNCHANGED <<open, inbox, at, msg, debugger, loop, fate, main, overtaken>>
    BY <1>1 DEF Ask, channel, dispatch, adapter
  <2>3. /\ incoming \in Seq(Messages) /\ incoming'[Len(incoming) + 1] = m
        /\ DOMAIN incoming' = 1 .. Len(incoming) + 1
        /\ \A i \in DOMAIN incoming : i \in DOMAIN incoming' /\ incoming'[i] = incoming[i]
    BY <2>1 DEF SessionTypes
  <2>4. CASE m.kind \in Resumes
    <3>1. ResumeAsked'
      <4>1. Len(incoming) + 1 \in DOMAIN incoming' /\ incoming'[Len(incoming) + 1].kind \in Resumes
        BY <2>3, <2>4
      <4>. QED BY <4>1 DEF ResumeAsked
    <3>. QED BY <2>2, <3>1 DEF Told, StopsAreTold, OvertakenIsKnown, Alive
  <2>5. CASE m.kind \notin Resumes
    <3>1. ResumeAsked => ResumeAsked'
      BY <2>2, <2>3 DEF ResumeAsked
    <3>2. view' = view
      BY <2>1, <2>5 DEF Resumes
    <3>. QED BY <2>2, <3>1, <3>2, ToldStays
  <2>. QED BY <2>4, <2>5
<1>2. CASE Receive
  <2>1. PICK m \in Messages :
          /\ incoming # <<>> /\ m = Head(incoming) /\ incoming' = Tail(incoming)
          /\ IF Errors(m.kind) = 0 THEN Put(m) ELSE UNCHANGED channel
    BY <1>2 DEF Receive, Read
  <2>2. UNCHANGED <<open, at, msg, debugger, loop, view, overtaken>>
    BY <1>2 DEF Receive, Read, dispatch, client
  <2>3. /\ incoming \in Seq(Messages) /\ inbox \in Seq(Messages)
        /\ \A i \in DOMAIN incoming :
             i # 1 => i - 1 \in DOMAIN incoming' /\ incoming'[i - 1] = incoming[i]
        /\ m = incoming[1]
    BY <2>1 DEF SessionTypes
  <2>4. \A i \in DOMAIN inbox : i \in DOMAIN inbox' /\ inbox'[i] = inbox[i]
    <3>1. inbox' = Append(inbox, m) \/ inbox' = inbox
      BY <2>1, Zenon DEF Put, channel
    <3>. QED BY <2>3, <3>1
  <2>5. m.kind \in Resumes => \E i \in DOMAIN inbox' : inbox'[i].kind \in Resumes
    <3>. SUFFICES ASSUME m.kind \in Resumes PROVE \E i \in DOMAIN inbox' : inbox'[i].kind \in Resumes
      OBVIOUS
    <3>1. Errors(m.kind) = 0
      BY MessageTypes DEF Resumes, Requests
    <3>2. inbox' = Append(inbox, m)
      BY <2>1, <3>1, Zenon DEF Put
    <3>3. Len(inbox) + 1 \in DOMAIN inbox' /\ inbox'[Len(inbox) + 1] = m
      BY <2>3, <3>2
    <3>. QED BY <3>3
  <2>6. ResumeAsked => ResumeAsked'
    BY <2>2, <2>3, <2>4, <2>5 DEF ResumeAsked
  <2>. QED BY <2>2, <2>6, ToldStays
<1>3. CASE ReceivingEnds \/ Wait
  <2>1. UNCHANGED <<open, incoming, inbox, at, msg, debugger, loop, view, overtaken>>
    BY <1>3 DEF ReceivingEnds, StopReceiving, Wait, Sleep, stream, channel, dispatch, adapter, client
  <2>. QED BY <2>1, ToldStays DEF ResumeAsked
<1>4. CASE TakeMessage
  <2>1. /\ UNCHANGED <<open, incoming, debugger, loop, view, overtaken>>
        /\ at = "take" /\ at' = "handle"
        /\ inbox # <<>> /\ msg' = Head(inbox) /\ inbox' = Tail(inbox)
    BY <1>4 DEF TakeMessage, Take, stream, adapter, client
  <2>2. /\ inbox \in Seq(Messages) /\ msg' = inbox[1]
        /\ \A i \in DOMAIN inbox : i # 1 => i - 1 \in DOMAIN inbox' /\ inbox'[i - 1] = inbox[i]
    BY <2>1 DEF SessionTypes
  <2>3. ResumeAsked => ResumeAsked'
    BY <2>1, <2>2 DEF ResumeAsked
  <2>. QED BY <2>1, <2>3, ToldStays
<1>5. CASE DispatchEnds
  <2>1. /\ UNCHANGED <<open, incoming, inbox, msg, debugger, loop, view, overtaken>>
        /\ at = "take" /\ at' = "ended"
    BY <1>5 DEF DispatchEnds, TakeNothing, stream, channel, adapter, client
  <2>. QED BY <2>1, ToldStays DEF ResumeAsked
<1>6. CASE AnswerAtOnce \/ UseDebugger \/ Construct \/ NextLine
  <2>1. UNCHANGED <<open, incoming, inbox, msg, debugger, loop, view, overtaken>>
    BY <1>6 DEF AnswerAtOnce, UseDebugger, Construct, NextLine, OnlyDispatch, stream, channel,
                adapter, client
  <2>2. ResumeAsked => ResumeAsked'
    <3>1. CASE at \in {"handle", "task"} /\ msg.kind \in Resumes
      <4>1. at' = "task"
        BY <1>6, <3>1 DEF AnswerAtOnce, UseDebugger, Construct, NextLine, Handling, Goto, Refuse,
                          Resumes
      <4>. QED BY <2>1, <3>1, <4>1 DEF ResumeAsked
    <3>2. CASE ~(at \in {"handle", "task"} /\ msg.kind \in Resumes)
      BY <2>1, <3>2 DEF ResumeAsked
    <3>. QED BY <3>1, <3>2
  <2>3. at' = "answer" => msg.kind # "continue"
    BY <1>6 DEF AnswerAtOnce, UseDebugger, Construct, NextLine, Handling, Goto, Refuse,
                      Places, Handles
  <2>. QED BY <2>1, <2>2, <2>3, ToldStays
<1>7. CASE HandlerThrows \/ TargetFails
  <2>1. ~Alive'
    BY <1>7 DEF HandlerThrows, Die, TargetFails, Alive
  <2>. QED BY <2>1, Ends
<1>8. CASE Replace \/ Destroy
  <2>1. ~debugger'.stopped
    <3>1. debugger' \in {Fresh, NoDebugger}
      BY <1>8 DEF Replace, Destroy
    <3>2. Fresh.stopped = FALSE /\ NoDebugger.stopped = FALSE
      BY DEF Fresh, NoDebugger
    <3>. QED BY <3>1, <3>2
  <2>. QED BY <2>1, Ends
<1>9. CASE Tasks
  <2>1. /\ UNCHANGED <<open, incoming, inbox, msg, view, overtaken>> /\ at = "task"
        /\ debugger \in Debuggers
    <3>1. UNCHANGED <<open, incoming, inbox, msg, view, overtaken>> /\ at = "task"
      BY <1>9 DEF Tasks, SetTarget, SetBreakpoint, RunTarget, Pause, Continue, NextStep, Evaluate,
                  Task, OnlyLoop, stream, channel, client
    <3>. QED BY <3>1, DebuggerTypes DEF Places
  <2>2. CASE SetTarget \/ SetBreakpoint \/ RunTarget \/ Evaluate
    <3>1. msg.kind \notin Resumes
      BY <2>2 DEF SetTarget, SetBreakpoint, RunTarget, Evaluate, Task, Resumes
    <3>2. debugger'.stopped = debugger.stopped /\ loop' = loop
      BY <2>1, <2>2 DEF SetTarget, SetBreakpoint, RunTarget, Evaluate, Debuggers
    <3>3. ResumeAsked => ResumeAsked'
      BY <2>1, <3>1 DEF ResumeAsked
    <3>. QED BY <2>1, <3>1, <3>2, <3>3 DEF Told, StopsAreTold, OvertakenIsKnown, Resumes
  <2>3. CASE Pause
    BY <2>3, Ends DEF Pause, Stops
  <2>4. CASE Continue
    <3>1. ~debugger'.stopped
      BY <2>1, <2>4 DEF Continue, Debuggers
    <3>. QED BY <3>1, Ends
  <2>5. CASE NextStep
    <3>1. ~Alive' \/ loop' \in Stops
      BY <2>5 DEF NextStep, Alive, Stops
    <3>. QED BY <3>1, Ends
  <2>. QED BY <1>9, <2>2, <2>3, <2>4, <2>5 DEF Tasks
<1>10. CASE Detect
  BY <1>10, Ends DEF Detect, Stops
<1>11. CASE SendStopped
  <2>1. CASE main = "gone"
    <3>1. ~Alive'
      BY <1>11, <2>1 DEF SendStopped, Alive
    <3>. QED BY <3>1, Ends
  <2>2. CASE main # "gone"
    <3>1. /\ UNCHANGED <<open, msg>> /\ loop \in Stops
          /\ view' = IF open THEN "stopped" ELSE view
          /\ at' = IF at = "event" THEN "answer" ELSE at
      BY <1>11, <2>2 DEF SendStopped, stream
    <3>2. at' = "answer" /\ msg'.kind = "continue" => at = "answer" /\ loop = "breakpoint"
      BY <3>1 DEF Places, Handles, Stops
    <3>3. overtaken' <=> loop = "breakpoint" /\ at = "answer" /\ msg.kind = "continue"
      BY <1>11, <2>2, Zenon DEF SendStopped
    <3>. QED BY <3>1, <3>2, <3>3 DEF Told, StopsAreTold, OvertakenIsKnown
  <2>. QED BY <2>1, <2>2
<1>12. CASE Respond
  <2>1. /\ UNCHANGED <<open, incoming, inbox, msg, debugger, loop, overtaken>>
        /\ at = "answer" /\ at' = "sent"
    BY <1>12 DEF Respond, Goto, stream, channel
  <2>2. ResumeAsked => ResumeAsked'
    BY <2>1 DEF ResumeAsked
  <2>3. CASE msg.kind = "continue"
    <3>1. debugger.stopped /\ loop \notin Stops => overtaken
      BY <2>1, <2>3 DEF Told, OvertakenIsKnown
    <3>. QED BY <2>1, <3>1 DEF Told, StopsAreTold, OvertakenIsKnown
  <2>4. CASE msg.kind # "continue"
    <3>1. view' = view
      BY <1>12, <2>4 DEF Respond
    <3>. QED BY <2>1, <2>2, <3>1, ToldStays
  <2>. QED BY <2>3, <2>4
<1>13. CASE ResponseSent
  <2>1. /\ UNCHANGED <<open, incoming, inbox, msg, debugger, loop, view, overtaken>>
        /\ at = "sent" /\ at' = "take"
    BY <1>13 DEF ResponseSent, Goto, stream, channel, client
  <2>. QED BY <2>1, ToldStays DEF ResumeAsked
<1>14. CASE RunReturns \/ CloseInbox \/ Joined
  <2>1. UNCHANGED <<open, incoming, inbox, at, msg, debugger, loop, view, overtaken>>
    BY <1>14 DEF RunReturns, CloseInbox, CloseChannel, Joined, MainGoes, stream, channel,
                 dispatch, client
  <2>. QED BY <2>1, ToldStays DEF ResumeAsked
<1>15. CASE CloseReaderAndWriter
  <2>1. UNCHANGED <<incoming, inbox, at, msg, debugger, loop, view, overtaken>>
    BY <1>15 DEF CloseReaderAndWriter, CloseStreams, MainGoes, channel, dispatch, client
  <2>2. open' => open
    BY <1>15, Zenon DEF CloseReaderAndWriter, CloseStreams
  <2>3. ResumeAsked => ResumeAsked'
    BY <2>1 DEF ResumeAsked
  <2>. QED BY <2>1, <2>2, <2>3 DEF Told, StopsAreTold, OvertakenIsKnown
<1>16. CASE Exit
  <2>1. ~Alive'
    BY <1>16 DEF Exit, Alive
  <2>. QED BY <2>1, Ends
<1>. QED BY <1>1, <1>2, <1>3, <1>4, <1>5, <1>6, <1>7, <1>8, <1>9, <1>10, <1>11, <1>12, <1>13,
            <1>14, <1>15, <1>16 DEF Next, Receiving, Dispatching, Main

(***************************************************************************)
(* A client that waits knows of every stop of the debugger, unless the     *)
(* event overtook the answer to its Continue: handle_debugger_stopped()    *)
(* runs for each stop, also for one while a request is being answered.     *)
(***************************************************************************)
THEOREM EveryStopIsTold == Spec => []StopIsTold
<1>1. Init => Told
  <2>. SUFFICES ASSUME Init PROVE ~debugger.stopped
    BY DEF Told, StopsAreTold, OvertakenIsKnown
  <2>. QED BY DEF Init, NoDebugger
<1>2. Structure /\ Told /\ [Next]_vars => Told'
  <2>. SUFFICES ASSUME Structure, Told, UNCHANGED vars PROVE Told'
    BY StepTold
  <2>1. UNCHANGED <<incoming, open, inbox, at, msg, debugger, loop, main, fate, view, overtaken>>
    BY DEF vars, stream, channel, dispatch, adapter, client
  <2>. QED BY <2>1 DEF Told, StopsAreTold, OvertakenIsKnown, ResumeAsked, Alive
<1>3. Told => StopIsTold
  <2>. SUFFICES ASSUME Told, Quiet, debugger.stopped, ~overtaken PROVE view = "stopped"
    BY DEF StopIsTold
  <2>1. Alive /\ open /\ loop \notin Stops /\ at = "take" /\ inbox = <<>> /\ incoming = <<>>
    BY DEF Quiet, Stops
  <2>2. ~ResumeAsked
    BY <2>1 DEF ResumeAsked
  <2>. QED BY <2>1, <2>2 DEF Told, StopsAreTold
<1>. QED BY <1>1, <1>2, <1>3, StructureHolds, PTL DEF Spec

-----------------------------------------------------------------------------
(***************************************************************************)
(* The requests that are not answered yet, in the order they were sent:    *)
(* the one that is handled, those in the channel and those not received.   *)
(***************************************************************************)
Current == IF at \in {"take", "ended"} THEN <<>> ELSE <<msg>>
Queue   == Current \o inbox \o incoming

LEMMA MovesAlong ==
  ASSUME NEW S, NEW s \in Seq(S), NEW t \in Seq(S), t # <<>>
  PROVE  Append(s, Head(t)) \o Tail(t) = s \o t
<1>1. /\ Head(t) \in S /\ Tail(t) \in Seq(S) /\ Len(Tail(t)) = Len(t) - 1
      /\ \A i \in 1 .. Len(t) - 1 : Tail(t)[i] = t[i + 1]
      /\ Len(t) \in Nat /\ Len(s) \in Nat
  BY HeadTailProperties
<1>2. /\ Append(s, Head(t)) \in Seq(S) /\ Len(Append(s, Head(t))) = Len(s) + 1
      /\ \A i \in 1 .. Len(s) + 1 :
           Append(s, Head(t))[i] = IF i = Len(s) + 1 THEN Head(t) ELSE s[i]
  BY <1>1
<1>3. /\ Append(s, Head(t)) \o Tail(t) \in Seq(S)
      /\ Len(Append(s, Head(t)) \o Tail(t)) = Len(s) + Len(t)
      /\ \A i \in 1 .. Len(s) + Len(t) : (Append(s, Head(t)) \o Tail(t))[i] =
           IF i <= Len(s) + 1 THEN Append(s, Head(t))[i] ELSE Tail(t)[i - (Len(s) + 1)]
  BY <1>1, <1>2, ConcatProperties
<1>4. /\ s \o t \in Seq(S) /\ Len(s \o t) = Len(s) + Len(t)
      /\ \A i \in 1 .. Len(s) + Len(t) : (s \o t)[i] = IF i <= Len(s) THEN s[i] ELSE t[i - Len(s)]
  BY ConcatProperties
<1>5. \A i \in 1 .. Len(s) + Len(t) : (Append(s, Head(t)) \o Tail(t))[i] = (s \o t)[i]
  <2>. SUFFICES ASSUME NEW i \in 1 .. Len(s) + Len(t)
                PROVE  (Append(s, Head(t)) \o Tail(t))[i] = (s \o t)[i]
    OBVIOUS
  <2>1. CASE i <= Len(s)
    BY <1>1, <1>2, <1>3, <1>4, <2>1
  <2>2. CASE i = Len(s) + 1
    BY <1>1, <1>2, <1>3, <1>4, <2>2
  <2>3. CASE i > Len(s) + 1
    <3>1. i - (Len(s) + 1) \in 1 .. Len(t) - 1
      BY <1>1, <2>3
    <3>2. Tail(t)[i - (Len(s) + 1)] = t[i - (Len(s) + 1) + 1]
      BY <1>1, <3>1
    <3>. QED BY <1>1, <1>3, <1>4, <2>3, <3>2
  <2>. QED BY <1>1, <2>1, <2>2, <2>3
<1>. QED BY <1>3, <1>4, <1>5, SeqEqual

LEMMA AppendsBehind ==
  ASSUME NEW S, NEW s \in Seq(S), NEW t \in Seq(S), NEW e \in S
  PROVE  s \o Append(t, e) = Append(s \o t, e)
<1>1. Append(t, e) = t \o <<e>> /\ Append(s \o t, e) = (s \o t) \o <<e>>
  <2>1. s \o t \in Seq(S)
    BY ConcatProperties
  <2>. QED BY <2>1, AppendIsConcat
<1>2. <<e>> \in Seq(S)
  OBVIOUS
<1>. QED BY <1>1, <1>2, ConcatAssociative

LEMMA FirstLeaves ==
  ASSUME NEW S, NEW s \in Seq(S), NEW e \in S
  PROVE  /\ <<e>> \o s \in Seq(S) /\ <<e>> \o s # <<>>
         /\ (<<e>> \o s)[1] = e /\ Tail(<<e>> \o s) = s
<1>1. /\ <<e>> \in Seq(S) /\ Len(<<e>>) = 1 /\ <<e>>[1] = e
  OBVIOUS
<1>2. /\ <<e>> \o s \in Seq(S) /\ Len(<<e>> \o s) = Len(s) + 1 /\ Len(s) \in Nat
      /\ \A i \in 1 .. Len(s) + 1 : (<<e>> \o s)[i] = IF i <= 1 THEN <<e>>[i] ELSE s[i - 1]
  BY <1>1, ConcatProperties
<1>3. (<<e>> \o s)[1] = e /\ <<e>> \o s # <<>>
  BY <1>1, <1>2
<1>4. /\ Tail(<<e>> \o s) \in Seq(S) /\ Len(Tail(<<e>> \o s)) = Len(s)
      /\ \A i \in 1 .. Len(s) : Tail(<<e>> \o s)[i] = (<<e>> \o s)[i + 1]
  BY <1>2, <1>3, HeadTailProperties
<1>5. \A i \in 1 .. Len(s) : Tail(<<e>> \o s)[i] = s[i]
  BY <1>2, <1>4
<1>6. Tail(<<e>> \o s) = s
  BY <1>4, <1>5, SeqEqual
<1>. QED BY <1>2, <1>3, <1>6

LEMMA QueueTypes ==
  ASSUME SessionTypes, DispatchTypes
  PROVE  /\ Current \in Seq(Messages) /\ Current \o inbox \in Seq(Messages)
         /\ Queue \in Seq(Messages)
<1>1. Current \in Seq(Messages)
  BY DEF DispatchTypes, Current
<1>2. Current \o inbox \in Seq(Messages)
  BY <1>1, ConcatProperties DEF SessionTypes
<1>3. Queue \in Seq(Messages)
  BY <1>2, ConcatProperties DEF SessionTypes, Queue
<1>. QED BY <1>1, <1>2, <1>3

LEMMA QueueEnds ==
  ASSUME SessionTypes, DispatchTypes
  PROVE  /\ at \notin {"take", "ended"} => Queue # <<>> /\ 1 \in DOMAIN Queue /\ Queue[1] = msg
         /\ Queue = <<>> <=> at \in {"take", "ended"} /\ inbox = <<>> /\ incoming = <<>>
         /\ incoming # <<>> => \E i \in DOMAIN Queue : Queue[i] = Head(incoming)
<1>. /\ Current \in Seq(Messages) /\ Current \o inbox \in Seq(Messages)
     /\ inbox \in Seq(Messages) /\ incoming \in Seq(Messages) /\ Queue \in Seq(Messages)
  BY QueueTypes DEF SessionTypes
<1>1. Queue = <<>> <=> Current = <<>> /\ inbox = <<>> /\ incoming = <<>>
  <2>1. Queue = <<>> <=> Current \o inbox = <<>> /\ incoming = <<>>
    BY ConcatEqualIffEmpty DEF Queue
  <2>2. Current \o inbox = <<>> <=> Current = <<>> /\ inbox = <<>>
    BY ConcatEqualIffEmpty
  <2>. QED BY <2>1, <2>2
<1>2. Current = <<>> <=> at \in {"take", "ended"}
  BY DEF Current
<1>3. ASSUME at \notin {"take", "ended"}
      PROVE  Queue # <<>> /\ 1 \in DOMAIN Queue /\ Queue[1] = msg
  <2>1. Current = <<msg>> /\ Len(Current) = 1 /\ Current[1] = msg
    BY <1>3 DEF Current
  <2>2. /\ Len(Current \o inbox) = 1 + Len(inbox) /\ Len(inbox) \in Nat
        /\ (Current \o inbox)[1] = Current[1]
    BY <2>1, ConcatProperties
  <2>3. /\ Len(Queue) = Len(Current \o inbox) + Len(incoming) /\ Len(incoming) \in Nat
        /\ Queue[1] = (Current \o inbox)[1]
    <3>1. /\ Len(Queue) = Len(Current \o inbox) + Len(incoming) /\ Len(incoming) \in Nat
          /\ \A i \in 1 .. Len(Current \o inbox) + Len(incoming) :
               Queue[i] = IF i <= Len(Current \o inbox) THEN (Current \o inbox)[i]
                          ELSE incoming[i - Len(Current \o inbox)]
      BY ConcatProperties DEF Queue
    <3>2. 1 <= Len(Current \o inbox) /\ 1 \in 1 .. Len(Current \o inbox) + Len(incoming)
      BY <2>1, <2>2, <3>1
    <3>. QED BY <3>1, <3>2
  <2>. QED BY <2>1, <2>2, <2>3
<1>4. ASSUME incoming # <<>>
      PROVE  \E i \in DOMAIN Queue : Queue[i] = Head(incoming)
  <2>. DEFINE n == Len(Current \o inbox)
  <2>1. n \in Nat /\ Len(incoming) \in Nat /\ Len(incoming) > 0 /\ Head(incoming) = incoming[1]
    BY <1>4
  <2>2. Len(Queue) = n + Len(incoming) /\ Queue[n + 1] = incoming[n + 1 - n]
    BY <2>1, ConcatProperties DEF Queue
  <2>3. n + 1 \in DOMAIN Queue /\ Queue[n + 1] = Head(incoming)
    BY <2>1, <2>2
  <2>. QED BY <2>3
<1>. QED BY <1>1, <1>2, <1>3, <1>4

(***************************************************************************)
(* How the queue changes: the client appends to it, and the answer that    *)
(* was sent leaves it.  To receive and to take a request only moves it.    *)
(***************************************************************************)
LEMMA AskedLast ==
  ASSUME SessionTypes, DispatchTypes, NEW m \in Messages,
         incoming' = Append(incoming, m), UNCHANGED <<at, msg, inbox>>
  PROVE  Queue' = Append(Queue, m)
<1>1. Current' = Current
  BY DEF Current
<1>2. Queue' = (Current \o inbox) \o Append(incoming, m)
  BY <1>1 DEF Queue
<1>3. Current \o inbox \in Seq(Messages) /\ incoming \in Seq(Messages)
  BY QueueTypes DEF SessionTypes
<1>4. (Current \o inbox) \o Append(incoming, m) = Append((Current \o inbox) \o incoming, m)
  BY <1>3, AppendsBehind
<1>. QED BY <1>2, <1>4 DEF Queue

LEMMA ReceivedInOrder ==
  ASSUME SessionTypes, DispatchTypes, incoming # <<>>, UNCHANGED <<at, msg>>,
         incoming' = Tail(incoming), inbox' = Append(inbox, Head(incoming))
  PROVE  Queue' = Queue
<1>1. Head(incoming) \in Messages
  BY HeadTailProperties DEF SessionTypes
<1>2. Current' = Current
  BY DEF Current
<1>3. Queue' = (Current \o Append(inbox, Head(incoming))) \o Tail(incoming)
  BY <1>2 DEF Queue
<1>4. Current \o Append(inbox, Head(incoming)) = Append(Current \o inbox, Head(incoming))
  BY <1>1, QueueTypes, AppendsBehind DEF SessionTypes
<1>. QED BY <1>3, <1>4, QueueTypes, MovesAlong DEF Queue, SessionTypes

LEMMA TakenInOrder ==
  ASSUME SessionTypes, DispatchTypes, inbox # <<>>, at = "take", at' = "handle",
         msg' = Head(inbox), inbox' = Tail(inbox), UNCHANGED incoming
  PROVE  Queue' = Queue
<1>1. Head(inbox) \in Messages /\ Tail(inbox) \in Seq(Messages) /\ inbox \in Seq(Messages)
  BY HeadTailProperties DEF SessionTypes
<1>2. Current = <<>> /\ Current' = <<Head(inbox)>>
  BY DEF Current
<1>3. <<>> \in Seq(Messages) /\ Append(<<>>, Head(inbox)) = <<Head(inbox)>>
  BY <1>1
<1>4. <<Head(inbox)>> \o Tail(inbox) = <<>> \o inbox
  BY <1>1, <1>3, MovesAlong
<1>. QED BY <1>2, <1>4 DEF Queue

LEMMA AnsweredLeaves ==
  ASSUME SessionTypes, DispatchTypes, at \notin {"take", "ended"}, at' = "take",
         UNCHANGED <<inbox, incoming>>
  PROVE  Queue' = Tail(Queue)
<1>1. msg \in Messages /\ inbox \in Seq(Messages) /\ incoming \in Seq(Messages)
  BY DEF DispatchTypes, SessionTypes
<1>2. Current = <<msg>> /\ Current' = <<>>
  BY DEF Current
<1>3. <<>> \o inbox = inbox /\ inbox \o incoming \in Seq(Messages)
  BY <1>1, ConcatEmptySeq, ConcatProperties
<1>4. Queue' = inbox \o incoming
  BY <1>2, <1>3 DEF Queue
<1>5. Queue = <<msg>> \o (inbox \o incoming)
  BY <1>1, <1>2, ConcatAssociative DEF Queue
<1>. QED BY <1>1, <1>3, <1>4, <1>5, FirstLeaves

LEMMA QueueStays ==
  ASSUME UNCHANGED <<inbox, incoming, msg>>, at \in {"take", "ended"} <=> at' \in {"take", "ended"}
  PROVE  Queue' = Queue
BY DEF Queue, Current

-----------------------------------------------------------------------------
(***************************************************************************)
(* What is known of the requests in the queue while nothing was an excuse: *)
(* the client keeps to the protocol, its user types no fatal expression,   *)
(* the target does not fail and is not taken for stopped while it runs.    *)
(***************************************************************************)
OnlyRequests ==
  \A i \in DOMAIN Queue : /\ Queue[i].kind \in Requests /\ Queue[i].kind \in asked
                          /\ Queue[i].arg = "bad" => Queue[i].kind \in {"launch", "variables"}

(***************************************************************************)
(* Nothing follows Disconnect, the exit promise is set when it has been    *)
(* answered, and by then there is no debugger that could stop.             *)
(***************************************************************************)
DisconnectIsLast ==
  /\ "disconnect" \in asked /\ Queue # <<>> => Queue[Len(Queue)].kind = "disconnect"
  /\ \A i \in DOMAIN Queue : Queue[i].kind = "disconnect" => i = Len(Queue)
  /\ at \in {"answer", "sent"} /\ msg.kind = "disconnect" => ~HasDebugger
  /\ at = "sent" /\ msg.kind = "disconnect" => "disconnect" \in known
  /\ "disconnect" \in known => /\ ~HasDebugger /\ "disconnect" \in asked
                               /\ Queue = <<>> \/ (at = "sent" /\ msg.kind = "disconnect")
  /\ promise # "unset" => "disconnect" \in known /\ Queue = <<>>

DisconnectSucceeds == msg.kind = "disconnect" => reply.ok = TRUE

(***************************************************************************)
(* The debugger comes with the only Launch and stays until Disconnect.     *)
(***************************************************************************)
LaunchDue ==
  \/ "launch" \notin asked
  \/ \E i \in DOMAIN Queue : Queue[i].kind = "launch"
       /\ (i = 1 => at \in {"take", "handle", "construct", "replace"})

LaunchIsFirst ==
  /\ \A i, j \in DOMAIN Queue : Queue[i].kind = "launch" /\ Queue[j].kind = "launch" => i = j
  /\ "launch" \in known => "launch" \in asked /\ ("disconnect" \notin asked => HasDebugger)
  /\ at \in {"answer", "sent"} /\ msg.kind = "launch" => HasDebugger \/ reply.ok = FALSE
  /\ LaunchDue => ~HasDebugger /\ verified = NoLine /\ "launch" \notin known

(***************************************************************************)
(* No breakpoint was reported as verified but the one that is set.         *)
(***************************************************************************)
BreakpointIsKnown ==
  /\ HasDebugger => verified \in {NoLine, debugger.bp}
  /\ at \in {"handle", "lines", "task", "answer"} /\ msg.kind = "setBreakpoints" =>
       reply.verified \in {NoLine, debugger.bp}

(***************************************************************************)
(* What needs a debugger or a stopped one will find it: a request that the *)
(* dispatch thread has not executed yet is due.                            *)
(***************************************************************************)
Due(i) == i \in DOMAIN Queue /\ (i = 1 => at \notin {"event", "answer", "sent"})

PauseHasDebugger == \A i \in DOMAIN Queue : Due(i) /\ Queue[i].kind = "pause" => HasDebugger

StopLasts ==
  \A i \in DOMAIN Queue : Due(i) /\ Queue[i].kind \in NeedsStop => debugger.stopped = TRUE

ContinueIsAlone ==
  \A i \in DOMAIN Queue : Due(i) /\ Queue[i].kind = "continue" =>
    /\ i = 1 /\ view = "running" /\ loop \notin Stops
    /\ \A j \in DOMAIN Queue : Queue[j].kind \in NeedsStop => j = 1

StopIsReal ==
  view = "stopped" /\ "disconnect" \notin asked => debugger.stopped = TRUE /\ loop # "breakpoint"

Obedient == /\ fate = "no" /\ OnlyRequests /\ DisconnectIsLast /\ DisconnectSucceeds
            /\ LaunchIsFirst /\ BreakpointIsKnown
            /\ PauseHasDebugger /\ StopLasts /\ ContinueIsAlone /\ StopIsReal

-----------------------------------------------------------------------------
(***************************************************************************)
(* A step while the client is obedient and nothing has failed: no request  *)
(* overtakes another, and the adapter survives it.                         *)
(***************************************************************************)
ObedientStep == Structure /\ Obedient /\ Next /\ excuses = 0 /\ excuses' = 0

LEMMA Parts ==
  ASSUME Structure
  PROVE  /\ SessionTypes /\ DispatchTypes /\ AdapterTypes /\ ClientTypes
         /\ Places /\ LoopRuns /\ MainWaits
         /\ HasDebugger => debugger \in Debuggers
         /\ Queue \in Seq(Messages) /\ Len(Queue) \in Nat /\ DOMAIN Queue = 1 .. Len(Queue)
         /\ at \notin {"take", "ended"} => Queue # <<>> /\ 1 \in DOMAIN Queue /\ Queue[1] = msg
         /\ Queue = <<>> <=> at \in {"take", "ended"} /\ inbox = <<>> /\ incoming = <<>>
         /\ incoming # <<>> => \E i \in DOMAIN Queue : Queue[i] = Head(incoming)
BY Types, DebuggerTypes, QueueTypes, QueueEnds DEF Structure

LEMMA Serves ==
  ASSUME Structure, Obedient
  PROVE  /\ Queue # <<>> \/ HasDebugger => promise = "unset"
         /\ promise = "unset" => main = "run" /\ open /\ SendErrors = 0
<1>1. Queue # <<>> \/ HasDebugger => promise = "unset"
  BY DEF Obedient, DisconnectIsLast
<1>2. promise = "unset" => main = "run" /\ open
  BY Parts DEF MainWaits
<1>. QED BY <1>1, <1>2 DEF SendErrors

LEMMA NeedsAreMet ==    \* of the request that is handled
  ASSUME Structure, Obedient, at \notin {"take", "ended", "event", "answer", "sent"}
  PROVE  /\ msg.kind \in Requests /\ msg.kind \in asked
         /\ msg.arg = "bad" => msg.kind \in {"launch", "variables"}
         /\ msg.kind = "pause" => HasDebugger
         /\ msg.kind \in NeedsStop => debugger.stopped = TRUE /\ HasDebugger
<1>1. 1 \in DOMAIN Queue /\ Queue[1] = msg /\ Due(1)
  BY Parts DEF Due
<1>2. NoDebugger.stopped = FALSE
  BY DEF NoDebugger
<1>. QED BY <1>1, <1>2 DEF Obedient, OnlyRequests, PauseHasDebugger, StopLasts, HasDebugger

LEMMA ReceivesRequests ==
  ASSUME Structure, Obedient, Receive
  PROVE  /\ Queue' = Queue /\ UNCHANGED <<promise, fate, closable, open, receiving, closed>>
         /\ UNCHANGED <<dispatch, debugger, loop, main, client, hits>>
<1>1. PICK m \in Messages :
        /\ Read(m) /\ SetPromise(Errors(m.kind))
        /\ IF Errors(m.kind) = 0 THEN Put(m) ELSE UNCHANGED channel
  BY DEF Receive
<1>2. incoming # <<>> /\ m = Head(incoming) /\ incoming' = Tail(incoming)
  BY <1>1 DEF Read
<1>3. Errors(m.kind) = 0
  <2>1. m.kind \in Requests
    BY <1>2, Parts DEF Obedient, OnlyRequests
  <2>. QED BY <2>1, MessageTypes
<1>4. inbox' = Append(inbox, m) /\ UNCHANGED closed
  BY <1>1, <1>3, Zenon DEF Put
<1>5. UNCHANGED <<dispatch, debugger, loop, main, client, hits>>
  BY DEF Receive
<1>6. Queue' = Queue
  BY <1>2, <1>4, <1>5, Parts, ReceivedInOrder DEF dispatch
<1>7. UNCHANGED <<promise, fate>>
  BY <1>1, <1>3 DEF SetPromise
<1>. QED BY <1>1, <1>4, <1>5, <1>6, <1>7 DEF Read

LEMMA NothingThrows ==
  ASSUME ObedientStep
  PROVE  ~HandlerThrows /\ ~TargetFails
<1>. Structure /\ Obedient
  BY DEF ObedientStep
<1>1. ~HandlerThrows
  <2>. SUFFICES ASSUME HandlerThrows PROVE FALSE
    OBVIOUS
  <2>1. at = "handle"
    BY DEF HandlerThrows, Handling
  <2>. QED BY <2>1, NeedsAreMet DEF HandlerThrows, Handling, NeedsStop
<1>2. ~TargetFails
  <2>. SUFFICES ASSUME TargetFails PROVE FALSE
    OBVIOUS
  <2>1. excuses' = excuses + 1
    BY DEF TargetFails
  <2>. QED BY <2>1 DEF ObedientStep
<1>. QED BY <1>1, <1>2

LEMMA DetectsRunning ==
  ASSUME ObedientStep, Detect
  PROVE  ~debugger.stopped
<1>. SUFFICES ASSUME debugger.stopped PROVE FALSE
  OBVIOUS
<1>1. excuses' = excuses + 1
  BY DEF Detect
<1>. QED BY <1>1 DEF ObedientStep

LEMMA Announces ==
  ASSUME Structure, Obedient, SendStopped
  PROVE  /\ open /\ UNCHANGED <<promise, fate>> /\ view' = "stopped" /\ loop \in Stops
         /\ loop' = "idle" /\ at' = IF at = "event" THEN "answer" ELSE at
         /\ UNCHANGED <<stream, channel, msg, reply, debugger, main, asked, known, verified,
                        requests, excuses, hits>>
<1>1. /\ loop \in Stops /\ loop' = "idle" /\ at' = IF at = "event" THEN "answer" ELSE at
      /\ UNCHANGED <<stream, channel, msg, reply, debugger, main, asked, known, verified,
                        requests, excuses, hits>>
  BY DEF SendStopped
<1>2. HasDebugger
  BY <1>1, Parts DEF LoopRuns, Stops
<1>3. promise = "unset" /\ main = "run" /\ open /\ SendErrors = 0
  BY <1>2, Serves
<1>4. SetPromise(0) /\ view' = "stopped"
  BY <1>3 DEF SendStopped
<1>5. UNCHANGED <<promise, fate>>
  BY <1>4 DEF SetPromise
<1>. QED BY <1>1, <1>3, <1>4, <1>5

LEMMA Answers ==
  ASSUME Structure, Obedient, Respond
  PROVE  /\ UNCHANGED <<promise, fate>> /\ at = "answer" /\ at' = "sent"
         /\ known' = IF reply.ok THEN known \cup {msg.kind} ELSE known
         /\ verified' = IF msg.kind = "setBreakpoints" /\ reply.ok
                        THEN reply.verified ELSE verified
         /\ view' = IF msg.kind = "continue" THEN "running" ELSE view
         /\ UNCHANGED <<stream, channel, msg, reply, debugger, loop, main, asked, overtaken,
                        requests, excuses, hits>>
<1>1. at = "answer"
  BY DEF Respond
<1>2. open /\ SendErrors = 0
  BY <1>1, Parts, Serves
<1>3. SetPromise(0)
  BY <1>2 DEF Respond
<1>4. UNCHANGED <<promise, fate>>
  BY <1>3 DEF SetPromise
<1>. QED BY <1>1, <1>2, <1>4 DEF Respond, Goto

LEMMA Leaves ==
  ASSUME Structure, Obedient, ResponseSent
  PROVE  /\ at = "sent" /\ at' = "take" /\ Queue' = Tail(Queue) /\ Queue # <<>>
         /\ fate' = fate /\ promise = "unset"
         /\ promise' = IF msg.kind = "disconnect" THEN "set" ELSE promise
         /\ UNCHANGED <<stream, channel, msg, reply, debugger, loop, main, client, hits>>
<1>1. /\ at = "sent" /\ at' = "take"
      /\ UNCHANGED <<stream, channel, msg, reply, debugger, loop, main, client, hits>>
  BY DEF ResponseSent, Goto
<1>2. Queue # <<>> /\ promise = "unset" /\ SendErrors = 0
  BY <1>1, Parts, Serves
<1>3. Queue' = Tail(Queue)
  BY <1>1, Parts, AnsweredLeaves DEF stream, channel
<1>4. SetPromise(IF msg.kind = "disconnect" THEN 1 ELSE 0)
  BY <1>2 DEF ResponseSent
<1>5. fate' = fate /\ promise' = IF msg.kind = "disconnect" THEN "set" ELSE promise
  BY <1>2, <1>4 DEF SetPromise
<1>. QED BY <1>1, <1>2, <1>3, <1>5

AsksFor(m) ==
  /\ m \in Messages /\ Legal(m) /\ (m.arg = "bad" => m.kind # "evaluate")
  /\ Queue' = Append(Queue, m) /\ asked' = asked \cup {m.kind}
  /\ view' = IF m.kind \in {"continue", "next"} THEN "running" ELSE view
  /\ UNCHANGED <<at, msg, reply, debugger, loop, promise, main, fate, known, verified>>

LEMMA Asks ==
  ASSUME ObedientStep, Ask
  PROVE  \E m : AsksFor(m)
<1>. Structure /\ excuses = 0 /\ excuses' = 0
  BY DEF ObedientStep
<1>1. PICK m \in Messages :
        /\ excuses' = IF Harmless(m) THEN excuses ELSE excuses + 1
        /\ incoming' = Append(incoming, m) /\ asked' = asked \cup {m.kind}
        /\ view' = IF m.kind \in {"continue", "next"} THEN "running" ELSE view
  BY DEF Ask
<1>2. Legal(m) /\ (m.arg = "bad" => m.kind # "evaluate")
  BY <1>1 DEF Harmless
<1>3. UNCHANGED <<inbox, at, msg, reply, debugger, loop, promise, main, fate, known, verified>>
  BY DEF Ask, channel, dispatch, adapter
<1>4. Queue' = Append(Queue, m)
  BY <1>1, <1>3, Parts, AskedLast
<1>. QED BY <1>1, <1>2, <1>3, <1>4 DEF AsksFor

LEMMA Survives ==
  ASSUME ObedientStep
  PROVE  fate' = "no"
<1>. Structure /\ Obedient /\ Next /\ fate = "no"
  BY DEF ObedientStep, Obedient
<1>1. CASE Receive
  BY <1>1, ReceivesRequests
<1>2. CASE SendStopped
  BY <1>2, Announces
<1>3. CASE Respond
  BY <1>3, Answers
<1>4. CASE ResponseSent
  BY <1>4, Leaves
<1>5. CASE NextStep
  <2>1. at = "task" /\ msg.kind = "next"
    BY <1>5 DEF NextStep, Task
  <2>2. debugger.stopped = TRUE
    BY <2>1, NeedsAreMet DEF NeedsStop
  <2>. QED BY <1>5, <2>2 DEF NextStep
<1>6. CASE Evaluate
  <2>1. at = "task" /\ msg.kind = "evaluate"
    BY <1>6 DEF Evaluate, Task
  <2>2. debugger.stopped = TRUE /\ msg.arg # "bad"
    BY <2>1, NeedsAreMet DEF NeedsStop
  <2>3. msg.arg = "good"
    <3>1. msg.arg \in Args("evaluate")
      BY <2>1, Parts, MessageTypes DEF DispatchTypes
    <3>. QED BY <2>2, <3>1 DEF Args
  <2>. QED BY <1>6, <2>2, <2>3 DEF Evaluate
<1>7. CASE HandlerThrows \/ TargetFails
  BY <1>7, NothingThrows
<1>8. CASE \/ Ask \/ ReceivingEnds \/ Wait \/ TakeMessage \/ DispatchEnds \/ AnswerAtOnce
           \/ UseDebugger \/ Construct \/ Replace \/ Destroy \/ NextLine \/ SetTarget
           \/ SetBreakpoint \/ RunTarget \/ Pause \/ Continue \/ Detect \/ Main
  BY <1>8 DEF Ask, ReceivingEnds, Wait, TakeMessage, DispatchEnds, AnswerAtOnce, UseDebugger,
              OnlyDispatch, Construct, Replace, Destroy, NextLine, SetTarget, SetBreakpoint,
              RunTarget, Pause, Continue, Detect, Main, RunReturns, CloseInbox,
              CloseReaderAndWriter, Joined, Exit, adapter
<1>. QED BY <1>1, <1>2, <1>3, <1>4, <1>5, <1>6, <1>7, <1>8
         DEF Next, Receiving, Dispatching, Tasks

(***************************************************************************)
(* The other steps move requests at most, and the one that is handled      *)
(* comes nearer to its answer.                                             *)
(***************************************************************************)
LEMMA Progress ==
  ASSUME ObedientStep, ~Ask, ~ResponseSent
  PROVE  /\ Queue' = Queue /\ asked' = asked
         /\ at \in {"event", "answer", "sent"} => at' \in {"event", "answer", "sent"}
         /\ at' \in {"take", "handle", "construct", "replace"} =>
              at \in {"take", "handle", "construct", "replace"}
         /\ at' # "handle" => msg' = msg
<1>. Structure /\ Obedient /\ Next
  BY DEF ObedientStep
<1>1. CASE Receive
  BY <1>1, ReceivesRequests DEF dispatch, client
<1>2. CASE TakeMessage
  <2>1. /\ inbox # <<>> /\ at = "take" /\ at' = "handle" /\ msg' = Head(inbox)
        /\ inbox' = Tail(inbox) /\ UNCHANGED <<incoming, asked>>
    BY <1>2 DEF TakeMessage, Take, stream, client
  <2>. QED BY <2>1, Parts, TakenInOrder
<1>3. CASE \/ ReceivingEnds \/ Wait \/ DispatchEnds \/ AnswerAtOnce \/ UseDebugger \/ Construct
           \/ Replace \/ Destroy \/ NextLine
  <2>1. /\ UNCHANGED <<inbox, incoming, msg, asked>>
        /\ at \in {"take", "ended"} <=> at' \in {"take", "ended"}
        /\ at \in {"event", "answer", "sent"} => at' \in {"event", "answer", "sent"}
        /\ at' \in {"take", "handle", "construct", "replace"} =>
             at \in {"take", "handle", "construct", "replace"}
    BY <1>3 DEF ReceivingEnds, StopReceiving, Wait, Sleep, DispatchEnds, TakeNothing,
                AnswerAtOnce, UseDebugger, Construct, Replace, Destroy, NextLine, OnlyDispatch,
                Handling, Goto, Refuse, stream, channel, dispatch, adapter, client
  <2>. QED BY <2>1, QueueStays
<1>4. CASE Tasks
  <2>1. /\ UNCHANGED <<inbox, incoming, msg, asked>> /\ at = "task"
        /\ at' \in {"answer", "lines", "event", "task"}
    BY <1>4 DEF Tasks, SetTarget, SetBreakpoint, RunTarget, Pause, Continue, NextStep, Evaluate,
                Task, OnlyLoop, Goto, Refuse, stream, channel, client
  <2>. QED BY <2>1, QueueStays
<1>5. CASE Detect \/ Main
  <2>1. UNCHANGED <<inbox, incoming, at, msg, asked>>
    BY <1>5 DEF Detect, Main, RunReturns, CloseInbox, CloseChannel, CloseReaderAndWriter,
                CloseStreams, Joined, Exit, MainGoes, stream, channel, dispatch, client
  <2>. QED BY <2>1, QueueStays
<1>6. CASE SendStopped
  <2>1. /\ UNCHANGED <<inbox, incoming, msg, asked>> /\ at' = IF at = "event" THEN "answer" ELSE at
    BY <1>6, Announces DEF stream, channel
  <2>2. at \in {"take", "ended"} <=> at' \in {"take", "ended"}
    BY <2>1
  <2>. QED BY <2>1, <2>2, QueueStays
<1>7. CASE Respond
  <2>1. UNCHANGED <<inbox, incoming, msg, asked>> /\ at = "answer" /\ at' = "sent"
    BY <1>7, Answers DEF stream, channel
  <2>2. at \in {"take", "ended"} <=> at' \in {"take", "ended"}
    BY <2>1
  <2>. QED BY <2>1, <2>2, QueueStays
<1>. QED BY <1>1, <1>2, <1>3, <1>4, <1>5, <1>6, <1>7, NothingThrows
         DEF Next, Receiving, Dispatching

(***************************************************************************)
(* Who changes what.                                                       *)
(***************************************************************************)
LEMMA Changers ==
  ASSUME ObedientStep
  PROVE  /\ Respond \/ UNCHANGED <<known, verified>>
         /\ Respond \/ SendStopped \/ Ask \/ UNCHANGED view
         /\ Main \/ ResponseSent \/ UNCHANGED promise
         /\ Replace \/ Destroy \/ Exit \/ Tasks \/ Detect \/ UNCHANGED debugger
         /\ Replace \/ Destroy \/ Exit \/ Pause \/ NextStep \/ Detect \/ SendStopped
              \/ UNCHANGED loop
<1>. Structure /\ Obedient /\ Next
  BY DEF ObedientStep
<1>1. CASE Receive
  BY <1>1, ReceivesRequests DEF client
<1>2. CASE SendStopped
  BY <1>2, Announces
<1>3. CASE Respond
  BY <1>3, Answers
<1>4. CASE ResponseSent
  BY <1>4, Leaves DEF client
<1>5. CASE Ask \/ ReceivingEnds \/ Wait \/ TakeMessage \/ DispatchEnds \/ AnswerAtOnce
           \/ UseDebugger \/ Construct \/ NextLine
  BY <1>5 DEF Ask, ReceivingEnds, Wait, TakeMessage, DispatchEnds, AnswerAtOnce, UseDebugger,
              OnlyDispatch, Construct, NextLine, adapter, client
<1>6. CASE Replace \/ Destroy \/ Detect \/ Main
  BY <1>6 DEF Replace, Destroy, Detect, Main, RunReturns, CloseInbox, CloseReaderAndWriter,
              Joined, Exit, MainGoes, client
<1>7. CASE Tasks
  BY <1>7 DEF Tasks, SetTarget, SetBreakpoint, RunTarget, Pause, Continue, NextStep, Evaluate,
              OnlyLoop, client
<1>. QED BY <1>1, <1>2, <1>3, <1>4, <1>5, <1>6, <1>7, NothingThrows
         DEF Next, Receiving, Dispatching

LEMMA AfterAsk ==
  ASSUME Structure, NEW m, AsksFor(m)
  PROVE  /\ Len(Queue') = Len(Queue) + 1 /\ DOMAIN Queue' = 1 .. Len(Queue) + 1
         /\ Queue'[Len(Queue) + 1] = m /\ Queue' # <<>>
         /\ \A i \in DOMAIN Queue : i \in DOMAIN Queue' /\ Queue'[i] = Queue[i]
         /\ \A i \in DOMAIN Queue' : i \in DOMAIN Queue \/ i = Len(Queue) + 1
<1>1. Queue \in Seq(Messages) /\ m \in Messages /\ Queue' = Append(Queue, m)
  BY Parts DEF AsksFor
<1>. QED BY <1>1, AppendProperties

LEMMA AfterSent ==
  ASSUME Structure, Obedient, ResponseSent
  PROVE  /\ Len(Queue') = Len(Queue) - 1 /\ DOMAIN Queue' = 1 .. Len(Queue) - 1
         /\ Queue' # <<>> <=> Len(Queue) # 1
         /\ \A i \in DOMAIN Queue' : i + 1 \in DOMAIN Queue /\ Queue'[i] = Queue[i + 1]
<1>1. Queue \in Seq(Messages) /\ Queue # <<>> /\ Queue' = Tail(Queue)
  BY Parts, Leaves
<1>2. /\ Len(Queue) \in Nat /\ Len(Queue) > 0 /\ DOMAIN Queue = 1 .. Len(Queue)
      /\ Tail(Queue) \in Seq(Messages) /\ Len(Tail(Queue)) = Len(Queue) - 1
      /\ \A i \in 1 .. Len(Tail(Queue)) : Tail(Queue)[i] = Queue[i + 1]
  BY <1>1, HeadTailProperties
<1>3. DOMAIN Queue' = 1 .. Len(Queue) - 1 /\ Len(Queue') = Len(Queue) - 1
  BY <1>1, <1>2
<1>4. Queue' # <<>> <=> Len(Queue) # 1
  <2>1. Queue' \in Seq(Messages)
    BY <1>1, <1>2
  <2>2. Queue' = <<>> <=> Len(Queue') = 0
    BY <2>1
  <2>. QED BY <1>2, <1>3, <2>2
<1>5. \A i \in DOMAIN Queue' : i + 1 \in DOMAIN Queue /\ Queue'[i] = Queue[i + 1]
  BY <1>1, <1>2, <1>3
<1>. QED BY <1>3, <1>4, <1>5

LEMMA StepOnlyRequests ==
  ASSUME ObedientStep
  PROVE  OnlyRequests'
<1>. Structure /\ Obedient /\ OnlyRequests
  BY DEF ObedientStep, Obedient
<1>1. CASE Ask
  <2>1. PICK m : AsksFor(m)
    BY <1>1, Asks
  <2>2. m.kind \in Requests /\ (m.arg = "bad" => m.kind \in {"launch", "variables"})
    BY <2>1 DEF AsksFor, Legal
  <2>. QED BY <2>1, <2>2, AfterAsk DEF AsksFor, OnlyRequests
<1>2. CASE ResponseSent
  BY <1>2, AfterSent, Leaves DEF OnlyRequests, client
<1>3. CASE ~Ask /\ ~ResponseSent
  BY <1>3, Progress DEF OnlyRequests
<1>. QED BY <1>1, <1>2, <1>3

LEMMA StepSucceeds ==
  ASSUME ObedientStep
  PROVE  DisconnectSucceeds'
<1>. Structure /\ Obedient /\ DisconnectSucceeds /\ Next
  BY DEF ObedientStep, Obedient
<1>. DispatchTypes /\ Places
  BY Parts
<1>1. CASE TakeMessage
  <2>1. reply' = NoReply
    BY <1>1 DEF TakeMessage
  <2>. QED BY <2>1 DEF DisconnectSucceeds, NoReply
<1>2. CASE AnswerAtOnce \/ UseDebugger \/ Construct \/ Replace \/ NextLine
  <2>1. msg' = msg
    BY <1>2 DEF AnswerAtOnce, UseDebugger, Construct, Replace, NextLine, OnlyDispatch
  <2>2. msg.kind = "disconnect" => reply' = reply
    BY <1>2 DEF AnswerAtOnce, UseDebugger, Construct, Replace, NextLine, Handling, Goto, Refuse,
                Places, Handles
  <2>. QED BY <2>1, <2>2 DEF DisconnectSucceeds
<1>3. CASE Tasks
  <2>1. msg' = msg /\ msg.kind # "disconnect"
    BY <1>3 DEF Tasks, SetTarget, SetBreakpoint, RunTarget, Pause, Continue, NextStep, Evaluate,
                Task, OnlyLoop
  <2>. QED BY <2>1 DEF DisconnectSucceeds
<1>4. CASE SendStopped \/ Respond \/ ResponseSent
  BY <1>4, Announces, Answers, Leaves DEF DisconnectSucceeds
<1>5. CASE Ask \/ Receive \/ ReceivingEnds \/ Wait \/ DispatchEnds \/ Destroy \/ Detect \/ Main
  <2>1. UNCHANGED <<msg, reply>>
    BY <1>5 DEF Ask, Receive, ReceivingEnds, Wait, DispatchEnds, Destroy, Goto, Detect, Main,
                RunReturns, CloseInbox, CloseReaderAndWriter, Joined, Exit, MainGoes, dispatch
  <2>. QED BY <2>1 DEF DisconnectSucceeds
<1>. QED BY <1>1, <1>2, <1>3, <1>4, <1>5, NothingThrows DEF Next, Receiving, Dispatching

(***************************************************************************)
(* No step but Replace brings a debugger, none but Destroy and Exit takes  *)
(* it away.                                                                *)
(***************************************************************************)
LEMMA Owners ==
  ASSUME ObedientStep
  PROVE  /\ HasDebugger' => HasDebugger \/ Replace
         /\ HasDebugger => HasDebugger' \/ (Destroy /\ at = "destroy")
         /\ ~Exit \/ ~HasDebugger
<1>. Structure /\ Obedient /\ Next
  BY DEF ObedientStep
<1>1. Tasks => HasDebugger /\ HasDebugger'
  <2>1. Tasks => at = "task"
    BY DEF Tasks, SetTarget, SetBreakpoint, RunTarget, Pause, Continue, NextStep, Evaluate, Task
  <2>2. Tasks => debugger' \in Debuggers
    BY TaskTypes
  <2>. QED BY <2>1, <2>2, Parts, DebuggerTypes DEF Places, HasDebugger
<1>2. Detect => HasDebugger /\ HasDebugger'
  <2>. SUFFICES ASSUME Detect PROVE HasDebugger /\ HasDebugger'
    OBVIOUS
  <2>1. HasDebugger /\ debugger \in Debuggers
    BY Parts DEF Detect, LoopRuns
  <2>2. debugger' \in Debuggers
    BY <2>1, Changes DEF Detect
  <2>. QED BY <2>1, <2>2, DebuggerTypes DEF HasDebugger
<1>3. Exit => ~HasDebugger
  <2>. SUFFICES ASSUME Exit PROVE ~HasDebugger
    OBVIOUS
  <2>1. main = "gone"
    BY DEF Exit, MainIs
  <2>. QED BY <2>1, Serves
<1>4. Replace => HasDebugger'
  BY DebuggerTypes DEF Replace, HasDebugger
<1>5. Destroy => at = "destroy" /\ ~HasDebugger'
  BY DEF Destroy, HasDebugger
<1>6. Exit => ~HasDebugger'
  BY DEF Exit, HasDebugger
<1>7. UNCHANGED debugger => (HasDebugger' <=> HasDebugger)
  BY DEF HasDebugger
<1>. QED BY <1>1, <1>2, <1>3, <1>4, <1>5, <1>6, <1>7, Changers

LEMMA SentStays ==
  ASSUME ObedientStep, ~Ask, ~ResponseSent, ~Respond
  PROVE  at' = "sent" <=> at = "sent"
<1>. Structure /\ Obedient /\ Next
  BY DEF ObedientStep
<1>1. CASE SendStopped
  BY <1>1, Announces
<1>2. CASE Receive \/ ReceivingEnds \/ Wait \/ Detect \/ Main
  <2>1. at' = at
    BY <1>2 DEF Receive, ReceivingEnds, Wait, Detect, Main, RunReturns, CloseInbox,
                CloseReaderAndWriter, Joined, Exit, MainGoes, dispatch
  <2>. QED BY <2>1
<1>3. CASE \/ TakeMessage \/ DispatchEnds \/ AnswerAtOnce \/ UseDebugger \/ Construct
           \/ Replace \/ Destroy \/ NextLine
  BY <1>3 DEF TakeMessage, DispatchEnds, AnswerAtOnce, UseDebugger, Construct, Replace, Destroy,
              NextLine, Handling, Goto, Refuse
<1>4. CASE Tasks
  BY <1>4 DEF Tasks, SetTarget, SetBreakpoint, RunTarget, Pause, Continue, NextStep, Evaluate,
              Task, Goto, Refuse
<1>. QED BY <1>1, <1>2, <1>3, <1>4, NothingThrows DEF Next, Receiving, Dispatching

LEMMA DestroysFirst ==    \* Disconnect is answered when the debugger is gone
  ASSUME ObedientStep, ~Ask, ~ResponseSent, ~Respond,
         at' \in {"answer", "sent"}, msg'.kind = "disconnect"
  PROVE  ~HasDebugger'
<1>. /\ Structure /\ Obedient /\ Next /\ DisconnectIsLast /\ Places
     /\ msg' = msg /\ msg.kind = "disconnect"
  BY Parts, Progress DEF ObedientStep, Obedient
<1>1. CASE at \in {"answer", "sent"}
  <2>1. ~HasDebugger
    BY <1>1 DEF DisconnectIsLast
  <2>2. ~Replace
    BY <1>1 DEF Replace
  <2>. QED BY <2>1, <2>2, Owners
<1>2. CASE at \notin {"answer", "sent"}
  <2>1. CASE AnswerAtOnce
    <3>1. ~HasDebugger /\ debugger' = debugger
      BY <1>2, <2>1 DEF AnswerAtOnce, Handling, OnlyDispatch, adapter
    <3>. QED BY <3>1 DEF HasDebugger
  <2>2. CASE Destroy
    BY <2>2 DEF Destroy, HasDebugger
  <2>3. CASE \/ Receive \/ ReceivingEnds \/ Wait \/ Detect \/ Main
    <3>1. at' = at
      BY <2>3 DEF Receive, ReceivingEnds, Wait, Detect, Main, RunReturns, CloseInbox,
                  CloseReaderAndWriter, Joined, Exit, MainGoes, dispatch
    <3>. QED BY <1>2, <3>1
  <2>4. CASE \/ TakeMessage \/ DispatchEnds \/ UseDebugger \/ Construct \/ Replace \/ NextLine
    BY <2>4 DEF TakeMessage, DispatchEnds, UseDebugger, Construct, Replace, NextLine, Handling,
                Goto, Refuse, Places, Handles
  <2>5. CASE Tasks
    BY <2>5 DEF Tasks, SetTarget, SetBreakpoint, RunTarget, Pause, Continue, NextStep, Evaluate,
                Task
  <2>6. CASE SendStopped
    <3>1. at = "event"
      BY <1>2, <2>6, Announces
    <3>. QED BY <3>1 DEF Places, Handles
  <2>. QED BY <2>1, <2>2, <2>3, <2>4, <2>5, <2>6, NothingThrows DEF Next, Receiving, Dispatching
<1>. QED BY <1>1, <1>2

LEMMA StepDisconnect ==
  ASSUME ObedientStep
  PROVE  DisconnectIsLast'
<1>. Structure /\ Obedient /\ OnlyRequests /\ DisconnectIsLast /\ DisconnectSucceeds /\ Next
  BY DEF ObedientStep, Obedient
<1>. Len(Queue) \in Nat /\ DOMAIN Queue = 1 .. Len(Queue)
  BY Parts
<1>1. CASE Ask
  <2>1. PICK m : AsksFor(m)
    BY <1>1, Asks
  <2>2. /\ "disconnect" \notin asked /\ "disconnect" \notin known /\ promise = "unset"
        /\ asked' = asked \cup {m.kind} /\ UNCHANGED <<at, msg, known, debugger, promise>>
    BY <2>1 DEF AsksFor, Legal, DisconnectIsLast
  <2>3. \A i \in DOMAIN Queue : Queue[i].kind # "disconnect"
    BY <2>2 DEF OnlyRequests
  <2>4. /\ Len(Queue') = Len(Queue) + 1 /\ Queue'[Len(Queue) + 1] = m
        /\ \A i \in DOMAIN Queue : Queue'[i] = Queue[i]
        /\ \A i \in DOMAIN Queue' : i \in DOMAIN Queue \/ i = Len(Queue) + 1
    BY <2>1, AfterAsk
  <2>5. "disconnect" \in asked' => Queue'[Len(Queue')].kind = "disconnect"
    BY <2>2, <2>4
  <2>6. \A i \in DOMAIN Queue' : Queue'[i].kind = "disconnect" => i = Len(Queue')
    BY <2>3, <2>4
  <2>. QED BY <2>2, <2>5, <2>6 DEF DisconnectIsLast, HasDebugger
<1>2. CASE ResponseSent
  <2>1. /\ at = "sent" /\ at' = "take" /\ Queue # <<>> /\ promise = "unset"
        /\ promise' = IF msg.kind = "disconnect" THEN "set" ELSE promise
        /\ UNCHANGED <<debugger, asked, known>>
    BY <1>2, Leaves DEF client
  <2>2. Queue[1] = msg /\ 1 \in DOMAIN Queue
    BY <2>1, Parts
  <2>3. /\ Len(Queue') = Len(Queue) - 1 /\ DOMAIN Queue' = 1 .. Len(Queue) - 1
        /\ Queue' # <<>> <=> Len(Queue) # 1
        /\ \A i \in DOMAIN Queue' : i + 1 \in DOMAIN Queue /\ Queue'[i] = Queue[i + 1]
    BY <1>2, AfterSent
  <2>4. "disconnect" \in asked' /\ Queue' # <<>> => Queue'[Len(Queue')].kind = "disconnect"
    <3>. SUFFICES ASSUME "disconnect" \in asked, Queue' # <<>>
                  PROVE  Queue'[Len(Queue')].kind = "disconnect"
      BY <2>1
    <3>1. Len(Queue') \in DOMAIN Queue' /\ Len(Queue') + 1 = Len(Queue)
      BY <2>2, <2>3
    <3>2. Queue[Len(Queue)].kind = "disconnect"
      BY <2>1 DEF DisconnectIsLast
    <3>. QED BY <2>3, <3>1, <3>2
  <2>5. \A i \in DOMAIN Queue' : Queue'[i].kind = "disconnect" => i = Len(Queue')
    <3>. SUFFICES ASSUME NEW i \in DOMAIN Queue', Queue'[i].kind = "disconnect"
                  PROVE  i = Len(Queue')
      OBVIOUS
    <3>1. i + 1 \in DOMAIN Queue /\ Queue[i + 1].kind = "disconnect"
      BY <2>3
    <3>2. i + 1 = Len(Queue)
      BY <3>1 DEF DisconnectIsLast
    <3>. QED BY <2>3, <3>2
  <2>6. msg.kind = "disconnect" => Queue' = <<>>
    <3>1. msg.kind = "disconnect" => 1 = Len(Queue)
      BY <2>2 DEF DisconnectIsLast
    <3>. QED BY <2>3, <3>1
  <2>7. "disconnect" \in known <=> msg.kind = "disconnect"
    BY <2>1 DEF DisconnectIsLast
  <2>8. "disconnect" \in known' =>
          ~HasDebugger' /\ "disconnect" \in asked' /\ Queue' = <<>>
    BY <2>1, <2>6, <2>7 DEF DisconnectIsLast, HasDebugger
  <2>9. promise' # "unset" => "disconnect" \in known' /\ Queue' = <<>>
    BY <2>1, <2>6, <2>7
  <2>. QED BY <2>1, <2>4, <2>5, <2>8, <2>9 DEF DisconnectIsLast
<1>3. CASE Respond
  <2>1. /\ Queue' = Queue /\ UNCHANGED <<asked, debugger, promise, msg>>
        /\ at = "answer" /\ at' = "sent"
        /\ known' = IF reply.ok THEN known \cup {msg.kind} ELSE known
    <3>1. ~Ask /\ ~ResponseSent
      BY <1>3 DEF Respond, ResponseSent, Ask, dispatch, Goto
    <3>. QED BY <1>3, <3>1, Answers, Progress
  <2>2. Queue # <<>> /\ 1 \in DOMAIN Queue /\ Queue[1] = msg
    BY <2>1, Parts
  <2>3. "disconnect" \notin known /\ promise = "unset"
    BY <2>1, <2>2 DEF DisconnectIsLast
  <2>4. msg.kind = "disconnect" => "disconnect" \in known'
    BY <2>1 DEF DisconnectSucceeds
  <2>5. msg.kind = "disconnect" => ~HasDebugger' /\ "disconnect" \in asked'
    BY <2>1, <2>2 DEF DisconnectIsLast, OnlyRequests, HasDebugger
  <2>6. "disconnect" \in known' => msg.kind = "disconnect"
    BY <2>1, <2>3
  <2>7. /\ "disconnect" \in asked' /\ Queue' # <<>> => Queue'[Len(Queue')].kind = "disconnect"
        /\ \A i \in DOMAIN Queue' : Queue'[i].kind = "disconnect" => i = Len(Queue')
    BY <2>1 DEF DisconnectIsLast
  <2>. QED BY <2>1, <2>3, <2>4, <2>5, <2>6, <2>7 DEF DisconnectIsLast
<1>4. CASE ~Ask /\ ~ResponseSent /\ ~Respond
  <2>1. /\ Queue' = Queue /\ asked' = asked /\ known' = known
        /\ at' # "handle" => msg' = msg
    BY <1>4, Progress, Changers
  <2>2. /\ "disconnect" \in asked' /\ Queue' # <<>> => Queue'[Len(Queue')].kind = "disconnect"
        /\ \A i \in DOMAIN Queue' : Queue'[i].kind = "disconnect" => i = Len(Queue')
    BY <2>1 DEF DisconnectIsLast
  <2>3. at' = "sent" <=> at = "sent"
    BY <1>4, SentStays
  <2>4. promise' # "unset" => promise # "unset"
    BY <1>4, Changers DEF Main, RunReturns, CloseInbox, CloseReaderAndWriter, Joined, Exit
  <2>5. at' \in {"answer", "sent"} /\ msg'.kind = "disconnect" => ~HasDebugger'
    BY <1>4, <2>1, DestroysFirst DEF DisconnectIsLast
  <2>6. "disconnect" \in known => ~HasDebugger'
    <3>. SUFFICES ASSUME "disconnect" \in known, HasDebugger' PROVE FALSE
      OBVIOUS
    <3>1. ~HasDebugger /\ (Queue = <<>> \/ at = "sent")
      BY DEF DisconnectIsLast
    <3>2. at = "replace"
      BY <3>1, Owners DEF Replace
    <3>. QED BY <3>1, <3>2, Parts
  <2>. QED BY <2>1, <2>2, <2>3, <2>4, <2>5, <2>6 DEF DisconnectIsLast
<1>. QED BY <1>1, <1>2, <1>3, <1>4

LEMMA LaunchWasDue ==
  ASSUME ObedientStep, LaunchDue'
  PROVE  LaunchDue
<1>. Structure /\ Obedient
  BY DEF ObedientStep
<1>1. CASE Ask
  <2>1. PICK m : AsksFor(m)
    BY <1>1, Asks
  <2>2. asked' = asked \cup {m.kind} /\ at' = at /\ m.kind = "launch" => "launch" \notin asked
    BY <2>1 DEF AsksFor, Legal
  <2>3. /\ \A i \in DOMAIN Queue : Queue'[i] = Queue[i]
        /\ \A i \in DOMAIN Queue' : i \in DOMAIN Queue \/ Queue'[i] = m
    BY <2>1, AfterAsk
  <2>. QED BY <2>1, <2>2, <2>3 DEF LaunchDue, AsksFor
<1>2. CASE ResponseSent
  <2>1. asked' = asked
    BY <1>2, Leaves DEF client
  <2>2. \A i \in DOMAIN Queue' : /\ i + 1 \in DOMAIN Queue /\ i + 1 # 1
                                 /\ Queue'[i] = Queue[i + 1]
    BY <1>2, AfterSent, Parts
  <2>. QED BY <2>1, <2>2 DEF LaunchDue
<1>3. CASE ~Ask /\ ~ResponseSent
  BY <1>3, Progress DEF LaunchDue
<1>. QED BY <1>1, <1>2, <1>3

LEMMA StepLaunch ==
  ASSUME ObedientStep
  PROVE  LaunchIsFirst'
<1>. /\ Structure /\ Obedient /\ OnlyRequests /\ DisconnectIsLast /\ LaunchIsFirst
     /\ BreakpointIsKnown /\ Next
  BY DEF ObedientStep, Obedient
<1>. DispatchTypes /\ AdapterTypes /\ Places
  BY Parts
<1>1. \A i, j \in DOMAIN Queue' : Queue'[i].kind = "launch" /\ Queue'[j].kind = "launch" => i = j
  <2>1. CASE Ask
    <3>1. PICK m : AsksFor(m)
      BY <2>1, Asks
    <3>2. m.kind = "launch" => \A i \in DOMAIN Queue : Queue[i].kind # "launch"
      BY <3>1 DEF AsksFor, Legal, OnlyRequests
    <3>3. /\ Queue'[Len(Queue) + 1] = m
          /\ \A i \in DOMAIN Queue : Queue'[i] = Queue[i]
          /\ \A i \in DOMAIN Queue' : i \in DOMAIN Queue \/ i = Len(Queue) + 1
      BY <3>1, AfterAsk
    <3>. QED BY <3>2, <3>3 DEF LaunchIsFirst
  <2>2. CASE ResponseSent
    <3>1. \A i \in DOMAIN Queue' : i + 1 \in DOMAIN Queue /\ Queue'[i] = Queue[i + 1]
      BY <2>2, AfterSent
    <3>2. DOMAIN Queue' \subseteq Nat
      BY <2>2, AfterSent, Parts
    <3>. SUFFICES ASSUME NEW i \in DOMAIN Queue', NEW j \in DOMAIN Queue',
                         Queue'[i].kind = "launch", Queue'[j].kind = "launch"
                  PROVE  i = j
      OBVIOUS
    <3>3. i + 1 = j + 1
      BY <3>1 DEF LaunchIsFirst
    <3>. QED BY <3>2, <3>3
  <2>3. CASE ~Ask /\ ~ResponseSent
    BY <2>3, Progress DEF LaunchIsFirst
  <2>. QED BY <2>1, <2>2, <2>3
<1>2. "launch" \in known' => "launch" \in asked' /\ ("disconnect" \notin asked' => HasDebugger')
  <2>. SUFFICES ASSUME "launch" \in known'
                PROVE  "launch" \in asked' /\ ("disconnect" \notin asked' => HasDebugger')
    OBVIOUS
  <2>1. asked \subseteq asked'
    BY Asks, Leaves, Progress DEF AsksFor, client
  <2>2. "launch" \in asked /\ ("disconnect" \notin asked => HasDebugger)
    <3>1. CASE "launch" \in known
      BY <3>1 DEF LaunchIsFirst
    <3>2. CASE "launch" \notin known
      <4>1. Respond
        BY <3>2, Changers
      <4>2. at = "answer" /\ msg.kind = "launch" /\ reply.ok
        BY <3>2, <4>1, Answers
      <4>3. "launch" \in asked
        BY <4>2, Parts DEF OnlyRequests
      <4>. QED BY <4>2, <4>3 DEF LaunchIsFirst
    <3>. QED BY <3>1, <3>2
  <2>3. Destroy => "disconnect" \in asked
    BY Parts DEF Destroy, Places, Handles, OnlyRequests
  <2>. QED BY <2>1, <2>2, <2>3, Owners
<1>3. at' \in {"answer", "sent"} /\ msg'.kind = "launch" => HasDebugger' \/ reply'.ok = FALSE
  <2>. SUFFICES ASSUME at' \in {"answer", "sent"}, msg'.kind = "launch"
                PROVE  HasDebugger' \/ reply'.ok = FALSE
    OBVIOUS
  <2>1. CASE AnswerAtOnce \/ UseDebugger \/ Construct \/ Replace \/ NextLine
    <3>1. msg' = msg /\ (reply' = [reply EXCEPT !.ok = FALSE])
      BY <2>1 DEF AnswerAtOnce, UseDebugger, Construct, Replace, NextLine, OnlyDispatch,
                  Handling, Goto, Refuse, Places, Handles
    <3>. QED BY <3>1 DEF DispatchTypes, Replies
  <2>2. CASE Tasks
    <3>1. debugger' \in Debuggers
      BY <2>2, TaskTypes
    <3>. QED BY <3>1, DebuggerTypes DEF HasDebugger
  <2>3. CASE Destroy
    BY <2>3 DEF Destroy, Places, Handles
  <2>4. CASE TakeMessage \/ DispatchEnds \/ ResponseSent
    BY <2>4 DEF TakeMessage, DispatchEnds, ResponseSent, Goto
  <2>5. CASE Ask \/ Receive \/ ReceivingEnds \/ Wait \/ Detect \/ Main \/ Respond
    <3>1. msg' = msg /\ reply' = reply /\ at \in {"answer", "sent"}
      BY <2>5 DEF Ask, Receive, ReceivingEnds, Wait, Detect, Main, RunReturns, CloseInbox,
                  CloseReaderAndWriter, Joined, Exit, MainGoes, Respond, Goto, dispatch
    <3>2. HasDebugger => HasDebugger'
      BY <3>1, Owners
    <3>. QED BY <3>1, <3>2 DEF LaunchIsFirst
  <2>6. CASE SendStopped
    <3>1. HasDebugger /\ debugger' = debugger
      BY <2>6, Announces, Parts DEF LoopRuns, Stops
    <3>. QED BY <3>1 DEF HasDebugger
  <2>. QED BY <2>1, <2>2, <2>3, <2>4, <2>5, <2>6, NothingThrows
           DEF Next, Receiving, Dispatching
<1>4. LaunchDue' => ~HasDebugger' /\ verified' = NoLine /\ "launch" \notin known'
  <2>. SUFFICES ASSUME LaunchDue' PROVE ~HasDebugger' /\ verified' = NoLine /\ "launch" \notin known'
    OBVIOUS
  <2>1. LaunchDue /\ ~HasDebugger /\ verified = NoLine /\ "launch" \notin known
    BY LaunchWasDue DEF LaunchIsFirst
  <2>2. ~Replace
    <3>. SUFFICES ASSUME Replace PROVE FALSE
      OBVIOUS
    <3>1. at = "replace" /\ at' \in {"answer", "task"}
      BY DEF Replace, Goto, Refuse
    <3>2. Queue' = Queue /\ asked' = asked
      <4>1. ~Ask /\ ~ResponseSent
        BY <3>1 DEF Ask, ResponseSent, dispatch
      <4>. QED BY <4>1, Progress
    <3>3. 1 \in DOMAIN Queue /\ Queue[1].kind = "launch" /\ "launch" \in asked
      BY <3>1, Parts DEF Places, Handles, OnlyRequests
    <3>. QED BY <3>1, <3>2, <3>3 DEF LaunchDue, LaunchIsFirst
  <2>3. CASE Respond
    <3>1. /\ at = "answer" /\ at' = "sent" /\ Queue' = Queue /\ asked' = asked
          /\ known' = IF reply.ok THEN known \cup {msg.kind} ELSE known
          /\ verified' = IF msg.kind = "setBreakpoints" /\ reply.ok
                         THEN reply.verified ELSE verified
      <4>1. ~Ask /\ ~ResponseSent
        BY <2>3 DEF Respond, ResponseSent, Ask, dispatch, Goto
      <4>. QED BY <2>3, <4>1, Answers, Progress
    <3>2. 1 \in DOMAIN Queue /\ Queue[1] = msg /\ msg.kind \in asked
      BY <3>1, Parts DEF OnlyRequests
    <3>3. msg.kind # "launch"
      BY <3>1, <3>2 DEF LaunchDue, LaunchIsFirst
    <3>4. msg.kind = "setBreakpoints" => reply.verified = NoLine
      <4>1. debugger.bp = "no debugger" /\ "no debugger" \notin Lines \cup {NoLine}
        <5>1. debugger = NoDebugger /\ NoDebugger.bp = "no debugger"
          BY <2>1 DEF HasDebugger, NoDebugger
        <5>. QED BY <5>1, SessionAssumption DEF NoLine
      <4>2. reply.verified \in Lines \cup {NoLine}
        BY DEF DispatchTypes, Replies
      <4>. QED BY <3>1, <4>1, <4>2 DEF BreakpointIsKnown
    <3>. QED BY <2>1, <2>2, <3>1, <3>3, <3>4, Owners
  <2>4. CASE ~Respond
    BY <2>1, <2>2, <2>4, Owners, Changers
  <2>. QED BY <2>3, <2>4
<1>. QED BY <1>1, <1>2, <1>3, <1>4 DEF LaunchIsFirst

LEMMA Fields ==
  ASSUME ObedientStep
  PROVE  /\ Replace \/ Destroy \/ Exit \/ SetBreakpoint \/ debugger'.bp = debugger.bp
         /\ \/ Replace \/ Destroy \/ Exit \/ Continue \/ debugger'.stopped = debugger.stopped
            \/ (Pause \/ Detect) /\ debugger'.stopped = TRUE
<1>. Structure /\ Obedient /\ Next
  BY DEF ObedientStep
<1>1. CASE Tasks
  <2>1. at = "task"
    BY <1>1 DEF Tasks, SetTarget, SetBreakpoint, RunTarget, Pause, Continue, NextStep, Evaluate,
                Task
  <2>2. debugger \in Debuggers
    BY <2>1, Parts DEF Places
  <2>3. CASE SetTarget
    BY <2>2, <2>3 DEF SetTarget, Debuggers
  <2>4. CASE SetBreakpoint
    BY <2>2, <2>4 DEF SetBreakpoint, Debuggers
  <2>5. CASE RunTarget \/ NextStep \/ Evaluate
    BY <2>5 DEF RunTarget, NextStep, Evaluate
  <2>6. CASE Pause
    BY <2>2, <2>6 DEF Pause, Debuggers
  <2>7. CASE Continue
    BY <2>2, <2>7 DEF Continue, Debuggers
  <2>. QED BY <1>1, <2>3, <2>4, <2>5, <2>6, <2>7 DEF Tasks
<1>2. CASE Detect
  <2>1. debugger \in Debuggers
    BY <1>2, Parts DEF Detect, LoopRuns
  <2>. QED BY <1>2, <2>1 DEF Detect, Debuggers
<1>. QED BY <1>1, <1>2, Changers

LEMMA ReplacesNothing ==
  ASSUME ObedientStep, Replace
  PROVE  ~HasDebugger /\ verified = NoLine
<1>. Structure /\ Obedient /\ LaunchIsFirst
  BY DEF ObedientStep, Obedient
<1>1. at = "replace"
  BY DEF Replace
<1>2. 1 \in DOMAIN Queue /\ Queue[1].kind = "launch"
  BY <1>1, Parts DEF Places, Handles
<1>3. LaunchDue
  BY <1>1, <1>2 DEF LaunchDue
<1>. QED BY <1>3 DEF LaunchIsFirst

LEMMA StepBreakpoints ==
  ASSUME ObedientStep
  PROVE  BreakpointIsKnown'
<1>. Structure /\ Obedient /\ BreakpointIsKnown /\ Next
  BY DEF ObedientStep, Obedient
<1>. DispatchTypes /\ Places
  BY Parts
<1>1. CASE SetBreakpoint
  <2>1. /\ at = "task" /\ msg.kind = "setBreakpoints" /\ msg' = msg /\ at' = "lines"
    BY <1>1 DEF SetBreakpoint, Task, OnlyLoop
  <2>2. HasDebugger /\ debugger \in Debuggers /\ debugger.bp = NoLine
    BY <2>1, Parts DEF Places
  <2>3. verified' = NoLine /\ reply.verified = NoLine
    <3>1. verified' = verified
      BY <1>1 DEF SetBreakpoint, OnlyLoop, client
    <3>. QED BY <2>1, <2>2, <3>1 DEF BreakpointIsKnown
  <2>4. reply'.verified \in {NoLine, debugger'.bp}
    <3>1. CASE /\ debugger' = [debugger EXCEPT !.bp = Head(reply.left)]
               /\ reply' = [reply EXCEPT !.left = Tail(@), !.verified = Head(reply.left)]
      BY <2>2, <3>1 DEF DispatchTypes, Replies, Debuggers
    <3>2. CASE reply' = [reply EXCEPT !.left = Tail(@)]
      BY <2>3, <3>2 DEF DispatchTypes, Replies
    <3>. QED BY <1>1, <3>1, <3>2 DEF SetBreakpoint
  <2>. QED BY <2>3, <2>4 DEF BreakpointIsKnown
<1>2. CASE ~SetBreakpoint
  <2>1. HasDebugger' => verified' \in {NoLine, debugger'.bp}
    <3>. SUFFICES ASSUME HasDebugger' PROVE verified' \in {NoLine, debugger'.bp}
      OBVIOUS
    <3>1. CASE Replace
      <4>1. verified' = NoLine
        BY <3>1, ReplacesNothing DEF Replace, client
      <4>. QED BY <4>1
    <3>2. CASE ~Replace
      <4>1. HasDebugger /\ ~Destroy /\ ~Exit
        BY <3>2, Owners DEF Destroy, HasDebugger
      <4>2. debugger'.bp = debugger.bp
        BY <1>2, <3>2, <4>1, Fields
      <4>3. CASE Respond
        <5>1. /\ at = "answer"
              /\ \/ verified' = verified
                 \/ msg.kind = "setBreakpoints" /\ verified' = reply.verified
          BY <4>3, Answers
        <5>. QED BY <4>1, <4>2, <5>1 DEF BreakpointIsKnown
      <4>4. CASE ~Respond
        BY <4>1, <4>2, <4>4, Changers DEF BreakpointIsKnown
      <4>. QED BY <4>3, <4>4
    <3>. QED BY <3>1, <3>2
  <2>2. at' \in {"handle", "lines", "task", "answer"} /\ msg'.kind = "setBreakpoints" =>
          reply'.verified \in {NoLine, debugger'.bp}
    <3>. SUFFICES ASSUME at' \in {"handle", "lines", "task", "answer"},
                         msg'.kind = "setBreakpoints"
                  PROVE  reply'.verified \in {NoLine, debugger'.bp}
      OBVIOUS
    <3>1. CASE TakeMessage
      <4>1. reply'.verified = NoLine
        BY <3>1 DEF TakeMessage, NoReply
      <4>. QED BY <4>1
    <3>2. CASE ~TakeMessage
      <4>1. /\ msg' = msg /\ at \in {"handle", "lines", "task", "answer"}
            /\ reply'.verified = reply.verified
        <5>1. CASE AnswerAtOnce \/ UseDebugger \/ Construct \/ NextLine \/ Replace \/ Destroy
          <6>1. msg' = msg /\ at \in {"handle", "lines", "task", "answer"}
            BY <5>1 DEF AnswerAtOnce, UseDebugger, Construct, NextLine, Replace, Destroy,
                        OnlyDispatch, Handling, Places, Handles
          <6>2. reply' = reply \/ (\E l : reply' = [reply EXCEPT !.left = l])
                  \/ reply' = [reply EXCEPT !.ok = FALSE]
            BY <5>1 DEF AnswerAtOnce, UseDebugger, Construct, NextLine, Replace, Destroy,
                        Goto, Refuse
          <6>. QED BY <6>1, <6>2 DEF DispatchTypes, Replies
        <5>2. CASE Tasks
          BY <1>2, <5>2 DEF Tasks, SetTarget, RunTarget, Pause, Continue, NextStep,
                            Evaluate, Task, OnlyLoop
        <5>3. CASE DispatchEnds \/ ResponseSent \/ Respond
          BY <5>3 DEF DispatchEnds, ResponseSent, Respond, Goto
        <5>4. CASE Ask \/ Receive \/ ReceivingEnds \/ Wait \/ Detect \/ Main
          BY <5>4 DEF Ask, Receive, ReceivingEnds, Wait, Detect, Main, RunReturns, CloseInbox,
                      CloseReaderAndWriter, Joined, Exit, MainGoes, dispatch
        <5>5. CASE SendStopped
          <6>1. msg' = msg /\ reply' = reply /\ at' = IF at = "event" THEN "answer" ELSE at
            BY <5>5, Announces
          <6>. QED BY <6>1 DEF Places, Handles
        <5>. QED BY <3>2, <5>1, <5>2, <5>3, <5>4, <5>5, NothingThrows
                 DEF Next, Receiving, Dispatching
      <4>2. ~Replace /\ ~Destroy
        BY <4>1 DEF Replace, Destroy
      <4>3. ~Exit
        <5>1. Exit => at = "ended"
          BY Parts DEF Exit, MainIs, MainWaits
        <5>. QED BY <4>1, <5>1
      <4>4. debugger'.bp = debugger.bp
        BY <1>2, <4>2, <4>3, Fields
      <4>. QED BY <4>1, <4>4 DEF BreakpointIsKnown
    <3>. QED BY <3>1, <3>2
  <2>. QED BY <2>1, <2>2 DEF BreakpointIsKnown
<1>. QED BY <1>1, <1>2

LEMMA DueBefore ==
  ASSUME ObedientStep, ~Ask, NEW i \in DOMAIN Queue', Due(i)'
  PROVE  \E j \in DOMAIN Queue :
           /\ Due(j) /\ Queue[j] = Queue'[i]
           /\ IF ResponseSent THEN j = i + 1 ELSE j = i /\ (i = 1 => at' \notin {"event", "answer", "sent"})
<1>. Structure /\ Obedient
  BY DEF ObedientStep
<1>1. CASE ResponseSent
  <2>1. i + 1 \in DOMAIN Queue /\ Queue'[i] = Queue[i + 1] /\ i + 1 # 1
    BY <1>1, AfterSent, Parts
  <2>2. Due(i + 1)
    BY <2>1 DEF Due
  <2>. QED BY <1>1, <2>1, <2>2
<1>2. CASE ~ResponseSent
  BY <1>2, Progress DEF Due
<1>. QED BY <1>1, <1>2

LEMMA DestroyIsLast ==
  ASSUME ObedientStep, Destroy
  PROVE  "disconnect" \in asked /\ \A i \in DOMAIN Queue' : ~Due(i)'
<1>. Structure /\ Obedient /\ OnlyRequests /\ DisconnectIsLast
  BY DEF ObedientStep, Obedient
<1>1. at = "destroy" /\ at' = "answer"
  BY DEF Destroy, Goto
<1>2. 1 \in DOMAIN Queue /\ Queue[1].kind = "disconnect"
  BY <1>1, Parts DEF Places, Handles
<1>3. Queue' = Queue
  <2>1. ~Ask /\ ~ResponseSent
    BY <1>1 DEF Ask, ResponseSent, dispatch
  <2>. QED BY <2>1, Progress
<1>4. DOMAIN Queue = 1 .. 1
  BY <1>2, Parts DEF DisconnectIsLast
<1>5. "disconnect" \in asked
  BY <1>2 DEF OnlyRequests
<1>. QED BY <1>1, <1>3, <1>4, <1>5 DEF Due

LEMMA ContinuesAlone ==
  ASSUME ObedientStep, Continue
  PROVE  /\ Due(1) /\ 1 \in DOMAIN Queue /\ Queue[1].kind = "continue"
         /\ at' = "answer" /\ Queue' = Queue
<1>. Structure /\ Obedient
  BY DEF ObedientStep
<1>1. at = "task" /\ msg.kind = "continue" /\ at' = "answer"
  BY DEF Continue, Task, Goto
<1>2. 1 \in DOMAIN Queue /\ Queue[1].kind = "continue"
  BY <1>1, Parts
<1>3. ~Ask /\ ~ResponseSent
  BY <1>1 DEF Ask, ResponseSent, dispatch
<1>. QED BY <1>1, <1>2, <1>3, Progress DEF Due

LEMMA StepPause ==
  ASSUME ObedientStep
  PROVE  PauseHasDebugger'
<1>. Structure /\ Obedient /\ LaunchIsFirst /\ PauseHasDebugger
  BY DEF ObedientStep, Obedient
<1>. SUFFICES ASSUME NEW i \in DOMAIN Queue', Due(i)', Queue'[i].kind = "pause"
              PROVE  HasDebugger'
  BY DEF PauseHasDebugger
<1>1. CASE Ask
  <2>1. PICK m : AsksFor(m)
    BY <1>1, Asks
  <2>2. at' = at /\ (HasDebugger' <=> HasDebugger)
    BY <2>1 DEF AsksFor, HasDebugger
  <2>3. CASE i \in DOMAIN Queue
    <3>1. Due(i) /\ Queue[i].kind = "pause"
      BY <2>1, <2>2, <2>3, AfterAsk DEF Due
    <3>. QED BY <2>2, <2>3, <3>1 DEF PauseHasDebugger
  <2>4. CASE i \notin DOMAIN Queue
    <3>1. m.kind = "pause"
      BY <2>1, <2>4, AfterAsk
    <3>2. "launch" \in known /\ "disconnect" \notin asked
      BY <2>1, <3>1 DEF AsksFor, Legal
    <3>. QED BY <2>2, <3>2 DEF LaunchIsFirst
  <2>. QED BY <2>3, <2>4
<1>2. CASE ~Ask
  <2>1. HasDebugger
    BY <1>2, DueBefore DEF PauseHasDebugger
  <2>. QED BY <2>1, Owners, DestroyIsLast
<1>. QED BY <1>1, <1>2

LEMMA StepStop ==
  ASSUME ObedientStep
  PROVE  StopLasts'
<1>. Structure /\ Obedient /\ StopLasts /\ StopIsReal /\ ContinueIsAlone
  BY DEF ObedientStep, Obedient
<1>. SUFFICES ASSUME NEW i \in DOMAIN Queue', Due(i)', Queue'[i].kind \in NeedsStop
              PROVE  debugger'.stopped = TRUE
  BY DEF StopLasts
<1>1. CASE Ask
  <2>1. PICK m : AsksFor(m)
    BY <1>1, Asks
  <2>2. at' = at /\ debugger' = debugger
    BY <2>1 DEF AsksFor
  <2>3. CASE i \in DOMAIN Queue
    <3>1. Due(i) /\ Queue[i].kind \in NeedsStop
      BY <2>1, <2>2, <2>3, AfterAsk DEF Due
    <3>. QED BY <2>2, <2>3, <3>1 DEF StopLasts
  <2>4. CASE i \notin DOMAIN Queue
    <3>1. m.kind \in NeedsStop
      BY <2>1, <2>4, AfterAsk
    <3>2. view = "stopped" /\ "disconnect" \notin asked
      BY <2>1, <3>1 DEF AsksFor, Legal
    <3>. QED BY <2>2, <3>2 DEF StopIsReal
  <2>. QED BY <2>3, <2>4
<1>2. CASE ~Ask
  <2>1. PICK j \in DOMAIN Queue :
          /\ Due(j) /\ Queue[j] = Queue'[i]
          /\ ~ResponseSent => j = i /\ (i = 1 => at' \notin {"event", "answer", "sent"})
    BY <1>2, DueBefore
  <2>2. debugger.stopped = TRUE /\ HasDebugger
    <3>1. debugger.stopped = TRUE
      BY <2>1 DEF StopLasts
    <3>2. NoDebugger.stopped = FALSE
      BY DEF NoDebugger
    <3>. QED BY <3>1, <3>2 DEF HasDebugger
  <2>3. ~Replace /\ ~Destroy /\ ~Exit
    BY <2>2, ReplacesNothing, DestroyIsLast, Owners
  <2>4. ~Continue
    <3>. SUFFICES ASSUME Continue PROVE FALSE
      OBVIOUS
    <3>1. at' = "answer" /\ Due(1) /\ 1 \in DOMAIN Queue /\ Queue[1].kind = "continue"
      BY ContinuesAlone
    <3>2. j = 1
      BY <2>1, <3>1 DEF ContinueIsAlone
    <3>3. ~ResponseSent
      BY <3>1 DEF ResponseSent, Goto
    <3>. QED BY <2>1, <3>1, <3>2, <3>3
  <2>. QED BY <2>2, <2>3, <2>4, Fields
<1>. QED BY <1>1, <1>2

LEMMA StepContinue ==
  ASSUME ObedientStep
  PROVE  ContinueIsAlone'
<1>. /\ Structure /\ Obedient /\ StopLasts /\ StopIsReal /\ ContinueIsAlone /\ Next
     /\ Len(Queue) \in Nat /\ DOMAIN Queue = 1 .. Len(Queue)
  BY Parts DEF ObedientStep, Obedient
<1>. SUFFICES ASSUME NEW i \in DOMAIN Queue', Due(i)', Queue'[i].kind = "continue"
              PROVE  /\ i = 1 /\ view' = "running" /\ loop' \notin Stops
                     /\ \A j \in DOMAIN Queue' : Queue'[j].kind \in NeedsStop => j = 1
  BY DEF ContinueIsAlone
<1>1. CASE Ask
  <2>1. PICK m : AsksFor(m)
    BY <1>1, Asks
  <2>2. /\ at' = at /\ loop' = loop /\ Legal(m)
        /\ view' = IF m.kind \in {"continue", "next"} THEN "running" ELSE view
    BY <2>1 DEF AsksFor
  <2>3. /\ Queue'[Len(Queue) + 1] = m
        /\ \A j \in DOMAIN Queue : Queue'[j] = Queue[j]
        /\ \A j \in DOMAIN Queue' : j \in DOMAIN Queue \/ j = Len(Queue) + 1
    BY <2>1, AfterAsk
  <2>4. CASE i \in DOMAIN Queue
    <3>1. Due(i) /\ Queue[i].kind = "continue"
      BY <2>2, <2>3, <2>4 DEF Due
    <3>2. /\ i = 1 /\ view = "running" /\ loop \notin Stops
          /\ \A j \in DOMAIN Queue : Queue[j].kind \in NeedsStop => j = 1
      BY <2>4, <3>1 DEF ContinueIsAlone
    <3>3. m.kind \notin NeedsStop
      BY <2>2, <3>2 DEF Legal
    <3>. QED BY <2>2, <2>3, <3>2, <3>3
  <2>5. CASE i \notin DOMAIN Queue
    <3>1. m.kind = "continue" /\ i = Len(Queue) + 1
      BY <2>3, <2>5
    <3>2. Queue = <<>> /\ at \in {"take", "ended"}
      <4>1. Backlog = 0
        BY <2>2, <3>1 DEF Legal
      <4>2. Len(inbox) \in Nat /\ Len(incoming) \in Nat
        BY Parts DEF SessionTypes
      <4>3. at \in {"take", "ended"} /\ Len(inbox) = 0 /\ Len(incoming) = 0
        BY <4>1, <4>2 DEF Backlog
      <4>4. inbox = <<>> /\ incoming = <<>>
        BY <4>3, Parts DEF SessionTypes
      <4>. QED BY <4>3, <4>4, Parts
    <3>3. view = "stopped" /\ "disconnect" \notin asked
      BY <2>2, <3>1 DEF Legal, NeedsStop
    <3>4. loop \notin Stops
      BY <3>2, <3>3, Parts DEF StopIsReal, Places, Stops
    <3>5. Len(Queue) = 0
      BY <3>2
    <3>. QED BY <2>2, <2>3, <3>1, <3>4, <3>5
  <2>. QED BY <2>4, <2>5
<1>2. CASE ResponseSent
  <2>1. \E j \in DOMAIN Queue : Due(j) /\ Queue[j].kind = "continue" /\ j = i + 1
    BY <1>2, DueBefore DEF ResponseSent, Ask, dispatch, Goto
  <2>2. i + 1 = 1
    BY <2>1 DEF ContinueIsAlone
  <2>3. i \in Nat /\ i # 0
    BY <1>2, AfterSent
  <2>. QED BY <2>2, <2>3
<1>3. CASE ~Ask /\ ~ResponseSent
  <2>1. Due(i) /\ Queue' = Queue /\ i \in DOMAIN Queue /\ Queue[i].kind = "continue"
    BY <1>3, DueBefore, Progress
  <2>2. /\ i = 1 /\ view = "running" /\ loop \notin Stops
        /\ \A j \in DOMAIN Queue : Queue[j].kind \in NeedsStop => j = 1
    BY <2>1 DEF ContinueIsAlone
  <2>3. debugger.stopped = TRUE
    BY <2>1 DEF StopLasts, NeedsStop
  <2>4. ~SendStopped /\ ~Detect
    BY <2>2, <2>3, DetectsRunning DEF SendStopped
  <2>5. ~Pause /\ ~NextStep
    BY <2>1, <2>2, Parts DEF Pause, NextStep, Task
  <2>6. view' = "running"
    BY <1>3, <2>2, <2>4, Answers, Changers
  <2>7. loop' \notin Stops
    <3>1. Replace \/ Destroy \/ Exit => loop' \in {"idle", "none"}
      BY DEF Replace, Destroy, Exit
    <3>. QED BY <2>2, <2>4, <2>5, <3>1, Changers DEF Stops
  <2>. QED BY <2>1, <2>2, <2>6, <2>7
<1>. QED BY <1>1, <1>2, <1>3

LEMMA StepReal ==
  ASSUME ObedientStep
  PROVE  StopIsReal'
<1>. /\ Structure /\ Obedient /\ StopIsReal /\ ContinueIsAlone /\ Next
  BY DEF ObedientStep, Obedient
<1>. SUFFICES ASSUME view' = "stopped", "disconnect" \notin asked'
              PROVE  debugger'.stopped = TRUE /\ loop' # "breakpoint"
  BY DEF StopIsReal
<1>1. CASE Ask
  <2>1. PICK m : AsksFor(m)
    BY <1>1, Asks
  <2>2. view = "stopped" /\ "disconnect" \notin asked
    BY <2>1 DEF AsksFor
  <2>. QED BY <2>1, <2>2 DEF AsksFor, StopIsReal
<1>2. CASE SendStopped
  <2>1. loop \in Stops /\ loop' = "idle" /\ debugger' = debugger
    BY <1>2, Announces
  <2>2. HasDebugger /\ debugger.stopped
    BY <2>1, Parts DEF LoopRuns, Stops
  <2>3. debugger.stopped = TRUE
    BY <2>2, Parts DEF Debuggers
  <2>. QED BY <2>1, <2>3
<1>3. CASE ~Ask /\ ~SendStopped
  <2>1. view = "stopped" /\ "disconnect" \notin asked
    <3>1. asked' = asked
      BY <1>3, Progress, Leaves DEF client
    <3>. QED BY <1>3, <3>1, Changers, Answers
  <2>2. debugger.stopped = TRUE /\ loop # "breakpoint"
    BY <2>1 DEF StopIsReal
  <2>3. HasDebugger
    <3>1. NoDebugger.stopped = FALSE
      BY DEF NoDebugger
    <3>. QED BY <2>2, <3>1 DEF HasDebugger
  <2>4. ~Replace /\ ~Destroy /\ ~Exit
    BY <2>1, <2>3, ReplacesNothing, DestroyIsLast, Owners
  <2>5. ~Continue
    BY <2>1, ContinuesAlone DEF ContinueIsAlone
  <2>6. ~Detect
    BY <2>2, DetectsRunning
  <2>7. debugger'.stopped = TRUE
    BY <2>2, <2>4, <2>5, Fields
  <2>8. Pause \/ NextStep => loop' # "breakpoint"
    <3>1. NextStep => fate' = "no"
      BY Survives
    <3>. QED BY <2>2, <3>1 DEF Pause, NextStep
  <2>. QED BY <1>3, <2>2, <2>4, <2>6, <2>7, <2>8, Changers
<1>. QED BY <1>1, <1>2, <1>3

-----------------------------------------------------------------------------
(***************************************************************************)
(* As long as there is no excuse.                                          *)
(***************************************************************************)
WithoutExcuse == excuses = 0 => Obedient

LEMMA ExcusesAreKept ==
  ASSUME TypeOK, Next, excuses' = 0
  PROVE  excuses = 0
<1>1. excuses \in Nat
  BY Types DEF ClientTypes
<1>2. CASE Ask
  <2>1. excuses' = excuses \/ excuses' = excuses + 1
    BY <1>2 DEF Ask
  <2>. QED BY <1>1, <2>1
<1>3. CASE TargetFails \/ Detect
  <2>1. excuses' = excuses \/ excuses' = excuses + 1
    BY <1>3 DEF TargetFails, Detect
  <2>. QED BY <1>1, <2>1
<1>4. CASE ~Ask /\ ~TargetFails /\ ~Detect
  <2>1. excuses' = excuses
    BY <1>4 DEF Next, Receiving, Receive, ReceivingEnds, Dispatching, Wait, TakeMessage,
         DispatchEnds, AnswerAtOnce, HandlerThrows, Die, UseDebugger, OnlyDispatch, Construct,
         Replace, Destroy, NextLine, Respond, ResponseSent, Tasks, SetTarget, SetBreakpoint,
         RunTarget, Pause, Continue, NextStep, Evaluate, OnlyLoop, SendStopped, Main,
         RunReturns, CloseInbox, CloseReaderAndWriter, Joined, Exit, MainGoes, client
  <2>. QED BY <2>1
<1>. QED BY <1>2, <1>3, <1>4

LEMMA InitObedient == Init => Obedient
<1>. SUFFICES ASSUME Init PROVE Obedient
  OBVIOUS
<1>1. /\ Queue = <<>> /\ at = "take" /\ msg.kind = "initialize"
  <2>1. at = "take" /\ inbox = <<>> /\ incoming = <<>>
    BY DEF Init, SessionInit
  <2>2. SessionTypes /\ DispatchTypes
    BY InitTypes, Types
  <2>. QED BY <2>1, <2>2, QueueEnds DEF Init
<1>2. DOMAIN Queue = {}
  BY <1>1
<1>3. OnlyRequests /\ PauseHasDebugger /\ StopLasts /\ ContinueIsAlone
  BY <1>2 DEF OnlyRequests, PauseHasDebugger, StopLasts, ContinueIsAlone
<1>4. ~HasDebugger /\ asked = {} /\ known = {} /\ verified = NoLine /\ view = "running"
  BY DEF Init, HasDebugger
<1>5. DisconnectIsLast /\ DisconnectSucceeds
  BY <1>1, <1>2, <1>4 DEF Init, DisconnectIsLast, DisconnectSucceeds
<1>6. LaunchIsFirst /\ BreakpointIsKnown /\ StopIsReal
  BY <1>1, <1>2, <1>4 DEF LaunchIsFirst, BreakpointIsKnown, StopIsReal
<1>7. fate = "no"
  BY DEF Init
<1>. QED BY <1>3, <1>5, <1>6, <1>7 DEF Obedient

LEMMA StepObedient ==
  ASSUME Structure, WithoutExcuse, [Next]_vars
  PROVE  WithoutExcuse'
<1>. SUFFICES ASSUME excuses' = 0 PROVE Obedient'
  BY DEF WithoutExcuse
<1>1. CASE Next
  <2>1. excuses = 0
    BY <1>1, ExcusesAreKept DEF Structure
  <2>2. ObedientStep
    BY <1>1, <2>1 DEF ObedientStep, WithoutExcuse
  <2>. QED BY <2>2, Survives, StepOnlyRequests, StepDisconnect, StepSucceeds, StepLaunch,
              StepBreakpoints, StepPause, StepStop, StepContinue, StepReal DEF Obedient
<1>2. CASE UNCHANGED vars
  <2>1. UNCHANGED <<incoming, inbox, at, msg, reply, debugger, loop, promise, fate, asked, known,
                    view, verified, excuses>>
    BY <1>2 DEF vars, stream, channel, dispatch, adapter, client
  <2>2. Obedient
    BY <2>1 DEF WithoutExcuse
  <2>3. Queue' = Queue /\ (HasDebugger' <=> HasDebugger) /\ (LaunchDue' <=> LaunchDue)
    BY <2>1, QueueStays DEF HasDebugger, LaunchDue
  <2>4. \A i : Due(i)' <=> Due(i)
    BY <2>1, <2>3 DEF Due
  <2>5. OnlyRequests' /\ DisconnectIsLast' /\ DisconnectSucceeds'
    BY <2>1, <2>2, <2>3 DEF Obedient, OnlyRequests, DisconnectIsLast, DisconnectSucceeds
  <2>6. LaunchIsFirst' /\ BreakpointIsKnown'
    BY <2>1, <2>2, <2>3 DEF Obedient, LaunchIsFirst, BreakpointIsKnown
  <2>7. PauseHasDebugger' /\ StopLasts' /\ ContinueIsAlone' /\ StopIsReal'
    BY <2>1, <2>2, <2>3, <2>4 DEF Obedient, PauseHasDebugger, StopLasts, ContinueIsAlone, StopIsReal
  <2>. QED BY <2>1, <2>2, <2>5, <2>6, <2>7 DEF Obedient
<1>. QED BY <1>1, <1>2

LEMMA ObedientHolds == Spec => [](Structure /\ WithoutExcuse)
<1>1. Init => WithoutExcuse
  BY InitObedient DEF WithoutExcuse
<1>2. Structure /\ WithoutExcuse /\ [Next]_vars => WithoutExcuse'
  BY StepObedient
<1>. QED BY <1>1, <1>2, StructureHolds, PTL DEF Spec

(***************************************************************************)
(* While the client keeps to the protocol and the target does not fail, no *)
(* handler throws, finds no debugger or finds it running, the exit promise *)
(* is set once, and nothing is sent after the session is gone: the adapter *)
(* dies of nothing else, however many requests are sent ahead of their     *)
(* answers and whenever the program stops.                                 *)
(***************************************************************************)
THEOREM AdapterSurvives == Spec => []DiesForAReason
<1>1. Structure /\ WithoutExcuse => DiesForAReason
  <2>. SUFFICES ASSUME Structure, WithoutExcuse, fate # "no" PROVE excuses > 0
    BY DEF DiesForAReason
  <2>1. excuses # 0
    BY DEF WithoutExcuse, Obedient
  <2>2. excuses \in Nat
    BY Types DEF Structure, ClientTypes
  <2>. QED BY <2>1, <2>2
<1>. QED BY <1>1, ObedientHolds, PTL

(***************************************************************************)
(* The line SetBreakpoints reported as verified is the one the debugger    *)
(* stops at, until the client asks for something else.                     *)
(***************************************************************************)
THEOREM VerifiedBreakpointIsSet == Spec => []VerifiedIsSet
<1>1. Structure /\ WithoutExcuse => VerifiedIsSet
  BY DEF WithoutExcuse, Obedient, BreakpointIsKnown, VerifiedIsSet
<1>. QED BY <1>1, ObedientHolds, PTL

(***************************************************************************)
(* No stop is reported once Disconnect has been answered: its handler has  *)
(* destroyed the debugger before.                                          *)
(***************************************************************************)
THEOREM NothingAfterDisconnect == Spec => SilentAfterDisconnect
<1>1. Structure /\ WithoutExcuse /\ [Next]_vars =>
        [SendStopped => excuses > 0 \/ "disconnect" \notin known]_vars
  <2>. SUFFICES ASSUME Structure, WithoutExcuse, SendStopped, ~(excuses > 0)
                PROVE  "disconnect" \notin known
    OBVIOUS
  <2>1. excuses = 0
    BY Types DEF Structure, ClientTypes
  <2>2. Obedient
    BY <2>1 DEF WithoutExcuse
  <2>3. HasDebugger
    BY Parts DEF SendStopped, LoopRuns, Stops
  <2>. QED BY <2>2, <2>3 DEF Obedient, DisconnectIsLast
<1>. QED BY <1>1, ObedientHolds, PTL DEF Spec, SilentAfterDisconnect
=============================================================================
