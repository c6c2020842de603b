------------------------------ MODULE DapSession -------------------------------
(***************************************************************************)
(* The adapter as the client sees it (m65_dap_session.cpp, main.cpp): its  *)
(* request handlers on cppdap's session, with the debugger they own.       *)
(*                                                                         *)
(* Five parties take steps: the client; the receive thread; the dispatch   *)
(* thread, which runs one handler at a time; the debugger's main loop; and *)
(* main(), which waits for the exit promise and then destroys everything.  *)
(* The debugger is what M65Debugger says of it in detail: tasks that       *)
(* succeed or throw, and stops of its own while it runs.                   *)
(***************************************************************************)
EXTENDS Session

CONSTANTS Kinds,        \* the kinds of messages the client sends
          Lines,        \* lines of the program's source
          BreakpointLists, \* the lists of lines the client asks for
          MaxRequests,  \* bound: messages the client sends
          MaxPipelined, \* bound: messages sent and not answered
          MaxExcuses,   \* bound: what is counted in excuses
          MaxHits       \* bound: stops at the breakpoint

Requests == {"initialize", "launch", "configurationDone", "setBreakpoints", "pause",
             "continue", "next", "evaluate", "stackTrace", "variables", "threads", "scopes",
             "source", "disconnect"}

NoLine == "none"      \* no breakpoint

ASSUME SessionAssumption ==
  /\ Kinds \subseteq Requests \cup Malformed \cup {"response"} /\ "initialize" \in Kinds
  /\ {NoLine, "no debugger"} \cap Lines = {} /\ BreakpointLists \subseteq Seq(Lines)
  /\ {MaxRequests, MaxPipelined, MaxExcuses, MaxHits} \subseteq Nat

VARIABLES
  at,        \* dispatch thread: what it does next
  msg,       \* dispatch thread: the message it handles
  reply,     \* dispatch thread: [ok, verified], what it is going to answer
  debugger,  \* debugger_: [stopped, bp, symbols], or NoDebugger
  loop,      \* the debugger's main loop: "none", "idle", or the event it sends
  promise,   \* exit_promise_: "unset", "set" or "destroyed"
  main,      \* main(): how far the destruction has come
  fate,      \* "no", "terminate" (uncaught exception) or "undefined"
  asked,     \* client: kinds of the requests it sent
  known,     \* client: kinds of the requests answered with success
  view,      \* client: the debuggee is "running" or "stopped"
  verified,  \* client: the line whose breakpoint was verified
  overtaken, \* history: a stop was told before the response to Continue
  requests,
  excuses,   \* mistakes of the client, fatal expressions of its user, failures of the
             \* target or the file system, running targets taken for stopped
  hits

dispatch == <<at, msg, reply>>
adapter  == <<debugger, loop, promise, main, fate>>
client   == <<asked, known, view, verified, overtaken, requests, excuses>>
vars     == <<stream, channel, dispatch, adapter, client, hits>>

NoDebugger == [stopped |-> FALSE, bp |-> "no debugger", symbols |-> FALSE]
Fresh      == [stopped |-> FALSE, bp |-> NoLine, symbols |-> FALSE]
HasDebugger == debugger # NoDebugger

Alive   == fate = "no" /\ main # "exited"

Args(kind) == CASE kind = "setBreakpoints" -> BreakpointLists
                [] kind \in {"launch", "scopes", "source", "variables", "evaluate"} -> {"good", "bad"}
                [] OTHER -> {"good"}
Messages == UNION {[kind : {k}, arg : Args(k)] : k \in Kinds}

-----------------------------------------------------------------------------
(***************************************************************************)
(* exit_promise_.set_value(), n times.                                     *)
(***************************************************************************)
SetPromise(n) ==
  \/ n = 0 /\ UNCHANGED <<promise, fate>>
  \/ n = 1 /\ promise = "unset" /\ promise' = "set" /\ UNCHANGED fate
  \/ n > 1 /\ promise = "unset" /\ promise' = "set" /\ fate' = "terminate"
  \/ n > 0 /\ promise = "set" /\ fate' = "terminate" /\ UNCHANGED promise
  \/ n > 0 /\ promise = "destroyed" /\ fate' = "undefined" /\ UNCHANGED promise

(***************************************************************************)
(* Session::send(): what is written before the streams are closed arrives; *)
(* after that sending is an error.                                         *)
(***************************************************************************)
SendErrors == IF open THEN 0 ELSE 1

-----------------------------------------------------------------------------
(***************************************************************************)
(* The client.  It keeps to the protocol or makes a mistake: initialize    *)
(* and launch come once and first, what needs a stopped debuggee is asked  *)
(* by a client that was told of a stop, the program is resumed when no     *)
(* answer is awaited, and nothing comes after Disconnect.                  *)
(*                                                                         *)
(* An expression whose type is in upper case or whose count is 0 is none   *)
(* of its mistakes: its user may type it, the debugger's patterns accept   *)
(* it, and evaluating it throws (:239) or takes a character from an empty  *)
(* string (:288).                                                          *)
(***************************************************************************)
Backlog == Len(incoming) + Len(inbox) + (IF at \in {"take", "ended"} THEN 0 ELSE 1)

NeedsStop == {"continue", "next", "evaluate", "stackTrace", "variables", "scopes", "source"}

Legal(m) ==
  /\ m.kind \in Requests
  /\ m.arg = "bad" => m.kind \in {"launch", "variables", "evaluate"}
  /\ "disconnect" \notin asked
  /\ IF m.kind = "initialize" THEN asked = {} ELSE "initialize" \in known
  /\ m.kind \in {"launch", "configurationDone"} => m.kind \notin asked
  /\ m.kind \in {"setBreakpoints", "configurationDone"} => "launch" \in asked
  /\ m.kind = "pause" => "launch" \in known
  /\ m.kind \in NeedsStop => view = "stopped"
  /\ m.kind \in {"continue", "next"} => Backlog = 0

Harmless(m) == Legal(m) /\ ~(m.kind = "evaluate" /\ m.arg = "bad")

Ask ==
  /\ Alive /\ requests < MaxRequests /\ Backlog < MaxPipelined
  /\ \E m \in Messages :
       /\ Harmless(m) \/ excuses < MaxExcuses
       /\ excuses' = IF Harmless(m) THEN excuses ELSE excuses + 1
       /\ incoming' = Append(incoming, m)
       /\ asked' = asked \cup {m.kind}
       /\ view' = IF m.kind \in {"continue", "next"} THEN "running" ELSE view
  /\ requests' = requests + 1
  /\ UNCHANGED <<closable, open, receiving, channel, dispatch, adapter, known, verified,
                 overtaken, hits>>

-----------------------------------------------------------------------------
(***************************************************************************)
(* The receive thread: a request goes to the dispatch thread, anything     *)
(* else to the error handler.                                              *)
(***************************************************************************)
Receive ==
  /\ Alive
  /\ \E m \in Messages :
       /\ Read(m)
       /\ SetPromise(Errors(m.kind))
       /\ IF Errors(m.kind) = 0 THEN Put(m) ELSE UNCHANGED channel
  /\ UNCHANGED <<dispatch, debugger, loop, main, client, hits>>

ReceivingEnds ==
  /\ Alive /\ StopReceiving
  /\ UNCHANGED <<channel, dispatch, adapter, client, hits>>

-----------------------------------------------------------------------------
(***************************************************************************)
(* The dispatch thread.                                                    *)
(***************************************************************************)
NoReply == [ok |-> TRUE, verified |-> NoLine, left |-> <<>>]

Wait ==
  /\ Alive /\ at = "take"
  /\ Sleep
  /\ UNCHANGED <<stream, dispatch, adapter, client, hits>>

TakeMessage ==
  /\ Alive /\ at = "take"
  /\ Take(Head(inbox))
  /\ msg' = Head(inbox) /\ at' = "handle" /\ reply' = NoReply
  /\ UNCHANGED <<stream, adapter, client, hits>>

DispatchEnds ==
  /\ Alive /\ at = "take"
  /\ TakeNothing
  /\ at' = "ended"
  /\ UNCHANGED <<stream, msg, reply, adapter, client, hits>>

Handling(kinds) == Alive /\ at = "handle" /\ msg.kind \in kinds
OnlyDispatch == UNCHANGED <<stream, channel, msg, adapter, client, hits>>

Goto(place)  == at' = place /\ UNCHANGED reply
Refuse       == at' = "answer" /\ reply' = [reply EXCEPT !.ok = FALSE]
Die(how)     == fate' = how /\ UNCHANGED <<stream, channel, dispatch, debugger, loop, promise,
                                          main, client, hits>>

(***************************************************************************)
(* Handlers that answer at once, with success or an error.                 *)
(***************************************************************************)
AnswerAtOnce ==
  /\ \/ Handling({"initialize", "threads"}) /\ Goto("answer")
     \/ Handling({"scopes", "source"}) /\ msg.arg = "good" /\ Goto("answer")
     \/ Handling({"variables"}) /\ (msg.arg = "bad" \/ HasDebugger) /\ Goto("answer")
     \/ Handling({"stackTrace"}) /\ HasDebugger /\ Goto("answer")
     \/ Handling({"disconnect"}) /\ ~HasDebugger /\ Goto("answer")
     \/ /\ Handling({"configurationDone", "setBreakpoints", "stackTrace", "evaluate"})
        /\ ~HasDebugger
        /\ Refuse
     \/ Handling({"launch"}) /\ msg.arg = "bad" /\ Refuse
  /\ OnlyDispatch

(***************************************************************************)
(* An exception leaves the dispatch thread; so does nothing the compiler   *)
(* promises anything about when there is no debugger.                      *)
(***************************************************************************)
HandlerThrows ==
  \/ Handling({"scopes", "source"}) /\ msg.arg = "bad" /\ Die("terminate")
  \/ Handling({"pause", "continue", "next"}) /\ ~HasDebugger /\ Die("undefined")
  \/ Handling({"variables"}) /\ msg.arg = "good" /\ ~HasDebugger /\ Die("undefined")

(***************************************************************************)
(* Handlers that use the debugger.                                         *)
(***************************************************************************)
UseDebugger ==
  /\ \/ Handling({"launch"}) /\ msg.arg = "good" /\ Goto("construct")
     \/ Handling({"disconnect"}) /\ HasDebugger /\ Goto("destroy")
     \/ /\ Handling({"configurationDone", "pause", "continue", "next", "evaluate"})
        /\ HasDebugger
        /\ Goto("task")
     \/ /\ Handling({"setBreakpoints"}) /\ HasDebugger
        /\ at' = "lines" /\ reply' = [reply EXCEPT !.left = msg.arg]
  /\ OnlyDispatch

(***************************************************************************)
(* Launch: a new debugger is connected, replaces the one before, whose     *)
(* destructor waits for its main loop, and then gets its program.          *)
(***************************************************************************)
Construct ==
  /\ Alive /\ at = "construct"
  /\ Refuse \/ Goto("replace")
  /\ OnlyDispatch

Replace ==
  /\ Alive /\ at = "replace" /\ loop \in {"none", "idle"}
  /\ debugger' = Fresh /\ loop' = "idle"
  /\ Refuse \/ Goto("task")        \* no such program, or set_target()
  /\ UNCHANGED <<stream, channel, msg, promise, main, fate, client, hits>>

DestroyAtOnce ==    \* mutant: the destructor does not wait for the main loop
  /\ Alive /\ at = "destroy"
  /\ debugger' = NoDebugger
  /\ Goto("answer")
  /\ UNCHANGED <<stream, channel, msg, loop, promise, main, fate, client, hits>>

DestroyPartly ==    \* mutant: the members outlive the destructor
  /\ Alive /\ at = "destroy" /\ loop = "idle"
  /\ debugger' = [debugger EXCEPT !.bp = "no debugger"] /\ loop' = "none"
  /\ Goto("answer")
  /\ UNCHANGED <<stream, channel, msg, promise, main, fate, client, hits>>

Destroy ==
  /\ Alive /\ at = "destroy" /\ loop = "idle"
  /\ debugger' = NoDebugger /\ loop' = "none"
  /\ Goto("answer")
  /\ UNCHANGED <<stream, channel, msg, promise, main, fate, client, hits>>

(***************************************************************************)
(* SetBreakpoints asks for one line after the other: none is set while one *)
(* is.                                                                     *)
(***************************************************************************)
NextLine ==
  /\ Alive /\ at = "lines"
  /\ \/ reply.left = <<>> /\ Goto("answer")
     \/ /\ reply.left # <<>> /\ debugger.bp # NoLine
        /\ at' = "lines" /\ reply' = [reply EXCEPT !.left = Tail(@)]
     \/ reply.left # <<>> /\ debugger.bp = NoLine /\ Goto("task")
  /\ OnlyDispatch

-----------------------------------------------------------------------------
(***************************************************************************)
(* The debugger's main loop executes the task while the dispatch thread    *)
(* waits.  A stop is announced before the task returns.                    *)
(***************************************************************************)
OnlyLoop == UNCHANGED <<stream, channel, msg, promise, main, client, hits>>
Task(kinds) == Alive /\ at = "task" /\ loop = "idle" /\ msg.kind \in kinds

SetTarget ==
  /\ Task({"launch"})
  /\ \/ debugger' = [debugger EXCEPT !.symbols = TRUE] /\ Goto("answer")
     \/ Refuse /\ UNCHANGED debugger
  /\ UNCHANGED <<loop, fate>> /\ OnlyLoop

SetBreakpointUncaught ==    \* mutant: an exception leaves the result verified
  /\ Task({"setBreakpoints"})
  /\ \/ debugger.symbols /\ debugger' = [debugger EXCEPT !.bp = Head(reply.left)]
     \/ UNCHANGED debugger
  /\ reply' = [reply EXCEPT !.left = Tail(@), !.verified = Head(reply.left)]
  /\ at' = "lines"
  /\ UNCHANGED <<loop, fate>> /\ OnlyLoop

SetBreakpoint ==
  /\ Task({"setBreakpoints"})
  /\ \/ /\ debugger.symbols
        /\ debugger' = [debugger EXCEPT !.bp = Head(reply.left)]
        /\ reply' = [reply EXCEPT !.left = Tail(@), !.verified = Head(reply.left)]
     \/ /\ reply' = [reply EXCEPT !.left = Tail(@)]
        /\ UNCHANGED debugger
  /\ at' = "lines"
  /\ UNCHANGED <<loop, fate>> /\ OnlyLoop

RunTarget ==
  /\ Task({"configurationDone"})
  /\ Goto("answer")
  /\ UNCHANGED <<debugger, loop, fate>> /\ OnlyLoop

PauseUntold ==    \* mutant: the handler of stops is not called
  /\ Task({"pause"})
  /\ debugger' = [debugger EXCEPT !.stopped = TRUE]
  /\ Goto("answer")
  /\ UNCHANGED <<loop, fate>> /\ OnlyLoop

Pause ==
  /\ Task({"pause"})
  /\ debugger' = [debugger EXCEPT !.stopped = TRUE]
  /\ loop' = "pause" /\ Goto("event")
  /\ UNCHANGED fate /\ OnlyLoop

Continue ==
  /\ Task({"continue"})
  /\ debugger' = [debugger EXCEPT !.stopped = FALSE]
  /\ Goto("answer")
  /\ UNCHANGED <<loop, fate>> /\ OnlyLoop

NextStep ==
  /\ Task({"next"})
  /\ IF debugger.stopped
     THEN loop' = "step" /\ Goto("event") /\ UNCHANGED fate
     ELSE fate' = "terminate" /\ UNCHANGED <<at, reply, loop>>
  /\ UNCHANGED debugger /\ OnlyLoop

Evaluate ==
  /\ Task({"evaluate"})
  /\ IF debugger.stopped /\ (msg.arg = "good" \/ ~debugger.symbols)
     THEN Goto("answer") /\ UNCHANGED fate
     ELSE /\ fate' \in {"terminate"} \cup (IF debugger.stopped THEN {"undefined"} ELSE {})
          /\ UNCHANGED <<at, reply>>
  /\ UNCHANGED <<debugger, loop>> /\ OnlyLoop

(***************************************************************************)
(* The target fails: a task whose handler catches nothing, the main loop   *)
(* between tasks or the destructor's reset throws.  Or the file system     *)
(* does, when the handler of Launch asks it for the program.               *)
(***************************************************************************)
TargetFails ==
  /\ Alive
  /\ (HasDebugger /\ loop = "idle") \/ (at = "replace" /\ loop = "none")
  /\ excuses < MaxExcuses /\ excuses' = excuses + 1
  /\ ~(at = "task" /\ msg.kind \in {"launch", "setBreakpoints"})
  /\ fate' = "terminate"
  /\ UNCHANGED <<stream, channel, dispatch, debugger, loop, promise, main, asked, known, view,
                 verified, overtaken, requests, hits>>

(***************************************************************************)
(* Between tasks the debugger finds that its breakpoint was hit.  It hears *)
(* of that once more when it had taken a running target for stopped, which *)
(* its polling may (M65Debugger's StopsAreStops).                          *)
(***************************************************************************)
Detect ==
  /\ Alive /\ loop = "idle" /\ hits < MaxHits
  /\ debugger.bp \in Lines
  /\ debugger.stopped => excuses < MaxExcuses
  /\ excuses' = IF debugger.stopped THEN excuses + 1 ELSE excuses
  /\ debugger' = [debugger EXCEPT !.stopped = TRUE]
  /\ loop' = "breakpoint"
  /\ hits' = hits + 1
  /\ UNCHANGED <<stream, channel, dispatch, promise, main, fate, asked, known, view, verified,
                 overtaken, requests>>

(***************************************************************************)
(* handle_debugger_stopped(), on a thread of its own the loop waits for.   *)
(***************************************************************************)
Stops == {"breakpoint", "pause", "step"}

SendStopped ==
  /\ Alive /\ loop \in Stops
  /\ IF main = "gone"
     THEN fate' = "undefined" /\ UNCHANGED <<promise, view, overtaken>>
     ELSE /\ SetPromise(SendErrors)
          /\ view' = IF open THEN "stopped" ELSE view
          /\ overtaken' = (loop = "breakpoint" /\ at = "answer" /\ msg.kind = "continue")
  /\ loop' = "idle"
  /\ at' = IF at = "event" THEN "answer" ELSE at
  /\ UNCHANGED <<stream, channel, msg, reply, debugger, main, asked, known, verified,
                 requests, excuses, hits>>

-----------------------------------------------------------------------------
(***************************************************************************)
(* The dispatch thread answers, and calls the handler for answers sent:    *)
(* the initialized event follows the answer to Initialize, the exit        *)
(* promise is set after the answer to Disconnect.                          *)
(***************************************************************************)
Respond ==
  /\ Alive /\ at = "answer"
  /\ SetPromise(SendErrors)
  /\ IF open
     THEN /\ known' = IF reply.ok THEN known \cup {msg.kind} ELSE known
          /\ verified' = IF msg.kind = "setBreakpoints" /\ reply.ok
                         THEN reply.verified ELSE verified
          /\ view' = IF msg.kind = "continue" THEN "running" ELSE view
     ELSE UNCHANGED <<known, verified, view>>
  /\ Goto("sent")
  /\ UNCHANGED <<stream, channel, msg, debugger, loop, main, asked, overtaken, requests,
                 excuses, hits>>

ResponseSentOfLaunch ==    \* mutant: a refused Launch ends the adapter too
  /\ Alive /\ at = "sent"
  /\ SetPromise(CASE msg.kind = "initialize" -> SendErrors
                  [] msg.kind = "disconnect" \/ (msg.kind = "launch" /\ ~reply.ok) -> 1
                  [] OTHER -> 0)
  /\ Goto("take")
  /\ UNCHANGED <<stream, channel, msg, debugger, loop, main, client, hits>>

ResponseSent ==
  /\ Alive /\ at = "sent"
  /\ SetPromise(CASE msg.kind = "initialize" -> SendErrors
                  [] msg.kind = "disconnect" -> 1
                  [] OTHER -> 0)
  /\ Goto("take")
  /\ UNCHANGED <<stream, channel, msg, debugger, loop, main, client, hits>>

-----------------------------------------------------------------------------
(***************************************************************************)
(* main(): run() returns when the promise is set; the members of           *)
(* M65DapSession are destroyed in the reverse order of their declaration:  *)
(* the promise, the session, the debugger.                                 *)
(***************************************************************************)
MainIs(place) == Alive /\ main = place
MainGoes(place) == main' = place /\ UNCHANGED <<dispatch, debugger, client, hits>>

RunReturns == /\ MainIs("run") /\ promise = "set"
              /\ promise' = "destroyed" /\ MainGoes("closing")
              /\ UNCHANGED <<stream, channel, loop, fate>>

CloseInbox == /\ MainIs("closing")
              /\ CloseChannel /\ MainGoes("closed")
              /\ UNCHANGED <<stream, loop, promise, fate>>

CloseReaderAndWriter == /\ MainIs("closed")
                        /\ CloseStreams /\ MainGoes("joining")
                        /\ UNCHANGED <<channel, loop, promise, fate>>

Joined == /\ MainIs("joining") /\ ~receiving /\ at = "ended"
          /\ MainGoes("gone")
          /\ UNCHANGED <<stream, channel, loop, promise, fate>>

Exit == /\ MainIs("gone") /\ loop \in {"none", "idle"}
        /\ main' = "exited" /\ loop' = "none" /\ debugger' = NoDebugger
        /\ UNCHANGED <<stream, channel, dispatch, promise, fate, client, hits>>

-----------------------------------------------------------------------------

Init ==
  /\ SessionInit
  /\ at = "take" /\ msg = [kind |-> "initialize", arg |-> "good"] /\ reply = NoReply
  /\ debugger = NoDebugger /\ loop = "none"
  /\ promise = "unset" /\ main = "run" /\ fate = "no"
  /\ asked = {} /\ known = {} /\ view = "running" /\ verified = NoLine
  /\ overtaken = FALSE /\ requests = 0 /\ excuses = 0 /\ hits = 0

Receiving   == Receive \/ ReceivingEnds
Dispatching == Wait \/ TakeMessage \/ DispatchEnds \/ AnswerAtOnce \/ HandlerThrows
                 \/ UseDebugger \/ Construct \/ Replace \/ Destroy \/ NextLine \/ Respond
                 \/ ResponseSent
Tasks       == SetTarget \/ SetBreakpoint \/ RunTarget \/ Pause \/ Continue \/ NextStep
                 \/ Evaluate
Main        == RunReturns \/ CloseInbox \/ CloseReaderAndWriter \/ Joined \/ Exit

Next == Ask \/ Receiving \/ Dispatching \/ Tasks \/ Detect \/ SendStopped \/ TargetFails
          \/ Main

(***************************************************************************)
(* Every thread is scheduled; the main loop looks for a task in each of    *)
(* its rounds and finishes each of them.                                   *)
(***************************************************************************)
Spec == Init /\ [][Next]_vars
FairSpec == Spec /\ WF_vars(Receiving) /\ WF_vars(Dispatching) /\ SF_vars(Tasks)
                 /\ WF_vars(SendStopped) /\ WF_vars(Main)

-----------------------------------------------------------------------------
(***************************************************************************)
(* Types.                                                                  *)
(***************************************************************************)
Replies == [ok : BOOLEAN, verified : Lines \cup {NoLine}, left : Seq(Lines)]

TypeOK ==
  /\ {closable, open, receiving, closed, asleep, overtaken} \subseteq BOOLEAN
  /\ incoming \in Seq(Messages) /\ inbox \in Seq(Messages)
  /\ at \in {"take", "handle", "construct", "replace", "destroy", "lines", "task", "event",
             "answer", "sent", "ended"}
  /\ msg \in Messages /\ reply \in Replies
  /\ debugger \in [stopped : BOOLEAN, bp : Lines \cup {NoLine}, symbols : BOOLEAN]
                     \cup {NoDebugger}
  /\ loop \in {"none", "idle"} \cup Stops
  /\ promise \in {"unset", "set", "destroyed"}
  /\ main \in {"run", "closing", "closed", "joining", "gone", "exited"}
  /\ fate \in {"no", "terminate", "undefined"}
  /\ asked \subseteq Kinds /\ known \subseteq Kinds
  /\ view \in {"running", "stopped"} /\ verified \in Lines \cup {NoLine}
  /\ requests \in 0 .. MaxRequests /\ excuses \in 0 .. MaxExcuses /\ hits \in 0 .. MaxHits

(***************************************************************************)
(* The adapter dies of nothing but what `excuses' counts: without that the *)
(* exit promise is set once, no handler misses its debugger, next() and    *)
(* evaluate_expression() find it stopped, and nothing is sent through a    *)
(* session that is gone.                                                   *)
(***************************************************************************)
DiesForAReason == fate # "no" => excuses > 0

(***************************************************************************)
(* A breakpoint the client was told is verified is the one the debugger    *)
(* has set.                                                                *)
(***************************************************************************)
VerifiedIsSet ==
  HasDebugger /\ verified # NoLine /\ excuses = 0 => debugger.bp = verified

(***************************************************************************)
(* A client that waits knows of every stop, unless it was told of it just  *)
(* before the answer to its Continue.                                      *)
(***************************************************************************)
Quiet == Alive /\ at = "take" /\ incoming = <<>> /\ inbox = <<>> /\ loop = "idle" /\ open
StopIsTold == Quiet /\ debugger.stopped /\ ~overtaken => view = "stopped"

(***************************************************************************)
(* Once the client has the answer to Disconnect the debugger says nothing. *)
(***************************************************************************)
SilentAfterDisconnect ==
  [][SendStopped => excuses > 0 \/ "disconnect" \notin known]_vars

(***************************************************************************)
(* What was received in time is answered, or the adapter is gone; also what*)
(* was left in the channel when it was closed.                             *)
(***************************************************************************)
Busy == at # "ended" /\ (inbox # <<>> \/ at # "take")
BacklogIsWorkedOff == Busy ~> ~Busy \/ ~Alive

(***************************************************************************)
(* The adapter ends after Disconnect when its streams can be closed.       *)
(***************************************************************************)
EndsIfClosable == closable /\ "disconnect" \in known ~> ~Alive

(***************************************************************************)
(* The adapter ends after Disconnect.                                      *)
(***************************************************************************)
EndsAfterDisconnect == "disconnect" \in known ~> ~Alive

(***************************************************************************)
(* SetBreakpoints leaves no other breakpoint than those it asks for.       *)
(***************************************************************************)
ReplacesBreakpoints ==
  Alive /\ at = "answer" /\ msg.kind = "setBreakpoints" /\ reply.ok =>
    debugger.bp \in {msg.arg[i] : i \in DOMAIN msg.arg} \cup {NoLine}
=============================================================================
