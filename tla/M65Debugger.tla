---------------------------- MODULE M65Debugger -----------------------------
(***************************************************************************)
(* The debugger's main loop and its line protocol with the target's serial *)
(* monitor (m65_debugger.cpp).                                             *)
(*                                                                         *)
(* Three parties take steps:                                               *)
(*   - the client: the DAP request handlers, which run one at a time on    *)
(*     the session's dispatch thread and block in run_task();              *)
(*   - the main loop thread, which executes the task, then looks for a     *)
(*     breakpoint event, then, after a second without tasks, polls the PC; *)
(*   - the target, which answers commands in the order it receives them    *)
(*     and reports a breakpoint when it runs into it.                      *)
(*                                                                         *)
(* The call stack of the main loop thread is `todo', a sequence of         *)
(* operations of which the first is executed next: a function that reads   *)
(* or writes the connection is a few operations, so that the target can    *)
(* act between any two of them, and execute_command() calls handle_        *)
(* breakpoint() by putting it in front of itself.                          *)
(*                                                                         *)
(* What the target has sent and the main loop has not consumed is `rx', a  *)
(* sequence of lines; the chunks in which it arrives show only where a     *)
(* prompt or a `!' is consumed (see MonitorLines).  A program counter is   *)
(* `hit', the address at which the breakpoint is expected to stop, or      *)
(* `away'.                                                                 *)
(***************************************************************************)
EXTENDS Naturals, Sequences

CONSTANTS SplitPrompts,      \* a chunk may end inside a Xemu prompt
          BpKind,            \* instruction at the breakpoint: "plain" or "jsr"
          LeftoverBp,        \* an earlier session may have left one armed
          Overtaking,        \* an event may be sent while a command is on its way
          Late,              \* a line may arrive after the debugger gave up on it
          ResetOnDisconnect, \* reset_on_disconnect_
          MaxRequests,       \* bound: requests the client makes after launch
          MaxHits            \* bound: times the target runs into a breakpoint

ASSUME ConstantsAssumption ==
  /\ {SplitPrompts, LeftoverBp, Overtaking, Late, ResetOnDisconnect} \subseteq BOOLEAN
  /\ BpKind \in {"plain", "jsr"}
  /\ {MaxRequests, MaxHits} \subseteq Nat

PCs   == {"hit", "away"}
Pages == {"code", "data"}   \* the cache line of the breakpoint, and another one

VARIABLES
  isXemu,       \* is_xemu_
  tgt,          \* target: [running, armed, pc]
  cmds,         \* commands written and not yet processed by the target
  rx,           \* lines sent by the target and not yet consumed
  todo,         \* call stack of the main loop thread
  lines,        \* lines returned by the last get_lines_until_prompt()
  phase,        \* what the main loop does: "task", "events", "poll", ...
  task,         \* debugger_tasks_: the one task queued or executing
  stopped,      \* stopped_
  breakpoint,   \* breakpoint_.has_value()
  dbg,          \* dbg_data_ is set
  regs,         \* current_registers_.pc
  cache,        \* memory_cache_: "absent", "fresh" or "stale" per page
  dead,         \* "no", "terminate" (uncaught exception) or "undefined"
  shown,        \* client: the last it heard is that the target stopped
  answer,       \* client: the outcome of the last request
  configured,   \* client: ConfigurationDone was requested
  leaving,      \* client: Disconnect was requested
  polled,       \* history: the stop was found by check_breakpoint_by_pc()
  requests, hits

target  == <<tgt, cmds, rx, hits>>
adapter == <<todo, lines, phase, task, stopped, breakpoint, dbg, regs, cache, dead,
             shown, answer, leaving, polled>>
client  == <<isXemu, configured, requests>>
vars    == <<target, adapter, client>>

INSTANCE MonitorLines WITH IsXemu <- isXemu

-----------------------------------------------------------------------------
(***************************************************************************)
(* Commands and the lines that answer them.                                *)
(***************************************************************************)
Commands == {"t0", "t1", "r", "step", "b", "load", "keys", "count", "!"} \cup Pages
LinesOfTarget == {Blank, Bang, Dot, Header, Loc, Junk, Flags}
                   \cup {Regs(pc) : pc \in PCs} \cup {Mem(a) : a \in {"fresh", "stale"}}
                   \cup {Echo(c) : c \in Commands}

-----------------------------------------------------------------------------
(***************************************************************************)
(* The target.                                                             *)
(***************************************************************************)
Aged == [p \in Pages |-> IF cache[p] = "fresh" THEN "stale" ELSE cache[p]]

Reply(c, pc) ==
  CASE c = "r"      -> <<Echo(c), Blank>> \o RegisterLines(pc) \o Prompt
    [] c = "step"   -> <<Blank>> \o (IF isXemu THEN Prompt ELSE <<>>)
                         \o <<Blank>> \o RegisterLines(pc) \o Prompt
    [] c \in Pages  -> <<Echo(c), Mem(IF tgt.running THEN "stale" ELSE "fresh")>> \o Prompt
    [] OTHER        -> <<Echo(c)>> \o Prompt

(***************************************************************************)
(* The target processes the next command.  While it runs it may be         *)
(* anywhere.                                                               *)
(***************************************************************************)
Process ==
  /\ cmds # <<>>
  /\ \E pc \in PCs :
       LET c == Head(cmds) IN
       /\ ~tgt.running /\ c # "step" => pc = tgt.pc
       /\ cmds' = Tail(cmds)
       /\ rx' = rx \o Reply(c, pc)
       /\ tgt' = [running |-> CASE c \in {"t0", "!"} -> TRUE
                                [] c = "t1" -> FALSE
                                [] OTHER -> tgt.running,
                  armed   |-> c = "b" \/ (tgt.armed /\ c # "!"),
                  pc      |-> IF tgt.running /\ c # "t1" THEN tgt.pc ELSE pc]
       /\ cache' = IF c \in {"t0", "step", "keys", "count"} THEN Aged ELSE cache
  /\ UNCHANGED <<todo, lines, phase, task, stopped, breakpoint, dbg, regs, dead, shown,
                 answer, leaving, polled, hits, client>>

(***************************************************************************)
(* The target runs into the breakpoint, halts and reports it.  At a jump   *)
(* to a subroutine the monitor may report a place that is not the          *)
(* subroutine's.                                                           *)
(***************************************************************************)
Hit ==
  /\ tgt.running /\ tgt.armed
  /\ hits < MaxHits
  /\ Overtaking \/ (phase = "events" /\ todo = <<>>)
  /\ \E pc \in IF BpKind = "jsr" THEN PCs ELSE {"hit"} :
       /\ tgt' = [tgt EXCEPT !.running = FALSE, !.pc = pc]
       /\ rx' = rx \o Event(pc)
  /\ hits' = hits + 1
  /\ UNCHANGED <<cmds, adapter, client>>

-----------------------------------------------------------------------------
(***************************************************************************)
(* Operations of the main loop thread.                                     *)
(***************************************************************************)
Op(do, arg) == [do |-> do, arg |-> arg]

ExecuteResent(c) ==    \* mutant: a short write is repeated from the start
  <<Op("send", c), Op("send", c), Op("await", c)>>

Execute(c) == <<Op("send", c), Op("await", c)>>         \* execute_command()
Fetch(p)   == Execute(p) \o <<Op("fill", p)>>           \* get_memory_bytes()
ReadRegs   == Execute("r") \o <<Op("regs", "strict")>>  \* update_registers()

SetTarget == <<Op("send", "load"), Op("getlines", ""), Op("symbols", "")>>
RunTarget == Execute("keys") \o Execute("count")        \* at most nine keys
Evaluation(p) == <<Op("require", "stopped"), Op("evaluate", p)>>
SetBreakpoint == <<Op("require", "symbols")>> \o Execute("b") \o <<Op("bpset", "")>>

PauseAndKeep ==    \* mutant: pause() does not invalidate the cache
  Execute("t1") \o <<Op("stopped", "")>> \o ReadRegs \o <<Op("notify", "pause")>>

Pause == Execute("t1") \o <<Op("stopped", "")>> \o ReadRegs
           \o <<Op("forget", ""), Op("notify", "pause")>>

ContAndGo ==    \* mutant: cont() does not wait for the reply
  <<Op("send", "t0"), Op("resumed", "")>>

Cont == Execute("t0") \o <<Op("resumed", "")>>

NextAndKeep ==    \* mutant: next() does not refresh the cache
  <<Op("require", "stopped")>> \o Execute("step")
    \o (IF isXemu THEN <<Op("getlines", "")>> ELSE <<>>)
    \o <<Op("regs", "retry"), Op("notify", "step")>>

StepOver == <<Op("require", "stopped")>> \o Execute("step")
              \o (IF isXemu THEN <<Op("getlines", "")>> ELSE <<>>)
              \o <<Op("regs", "retry"), Op("forget", ""), Op("notify", "step")>>

Script(t) ==
  CASE t = "launch" -> SetTarget
    [] t = "run"    -> RunTarget
    [] t = "pause"  -> Pause
    [] t = "cont"   -> Cont
    [] t = "next"   -> StepOver
    [] t = "setbp"  -> SetBreakpoint
    [] t \in Pages  -> Evaluation(t)

Requests == {"run", "pause", "cont", "next", "setbp"} \cup Pages
Alive == dead = "no"
At(do) == Alive /\ todo # <<>> /\ Head(todo).do = do
Arg    == Head(todo).arg
Rest   == Tail(todo)

(***************************************************************************)
(* An exception leaves everything on the stack.  A task hands it to the    *)
(* request handler: set_target() and set_breakpoint() are called in a try  *)
(* block, the other handlers let it leave the dispatch thread.  Outside of *)
(* a task it leaves the main loop's thread.                                *)
(***************************************************************************)
Throw ==
  IF phase = "task" /\ task \in {"launch", "setbp"}
  THEN /\ todo' = <<>> /\ task' = "none" /\ answer' = "error" /\ phase' = "events"
       /\ UNCHANGED dead
  ELSE /\ dead' = "terminate"
       /\ UNCHANGED <<todo, task, answer, phase>>

Undefined == /\ dead' = "undefined"
             /\ UNCHANGED <<todo, task, answer, phase>>

Continue(ops) == /\ todo' = ops
                 /\ UNCHANGED <<task, answer, phase, dead>>

Send ==
  /\ At("send")
  /\ cmds' = Append(cmds, Arg)
  /\ Continue(Rest)
  /\ UNCHANGED <<tgt, rx, hits, lines, stopped, breakpoint, dbg, regs, cache, shown,
                 leaving, polled, client>>

(***************************************************************************)
(* get_lines_until_prompt(), called by itself or by execute_command(c),    *)
(* which takes lines that do not begin with the command's echo for an      *)
(* event and then waits for the reply again.                               *)
(***************************************************************************)
FirstPrompt(k) == rx[k] = Dot /\ \A i \in 1 .. k - 1 : rx[i] # Dot

GetLines ==
  /\ At("getlines") \/ At("await")
  /\ \E k \in DOMAIN rx :
       LET got == SubSeq(rx, 1, k - 1) IN
       /\ FirstPrompt(k)
       /\ rx' \in AfterPrompt(From(rx, k + 1))
       /\ \/ /\ At("getlines")
             /\ lines' = got
             /\ Continue(Rest)
          \/ /\ At("await") /\ got = <<>>
             /\ Throw
             /\ UNCHANGED lines
          \/ /\ At("await") /\ got # <<>> /\ Head(got) = Echo(Arg)
             /\ lines' = Tail(got)
             /\ Continue(Rest)
          \/ /\ At("await") /\ got # <<>> /\ Head(got) # Echo(Arg)
             /\ lines' = got
             /\ Continue(<<Op("event", "")>> \o todo)
  /\ UNCHANGED <<tgt, cmds, hits, stopped, breakpoint, dbg, regs, cache, shown, leaving,
                 polled, client>>

(***************************************************************************)
(* A second passes and the next line, the k-th, has not arrived: the lines *)
(* in front of it are lost with the exception.  Unless lines may be late,  *)
(* this happens only when everything that was sent is read and every       *)
(* command is answered.                                                    *)
(***************************************************************************)
GivesUpAt(k) ==
  /\ Late \/ (cmds = <<>> /\ k = Len(rx) + 1)
  /\ rx' = From(rx, k)

TimeoutOfEvents ==    \* mutant: get_lines_until_prompt() waits for ever
  /\ At("readevent")
  /\ \E k \in 1 .. Len(rx) + 1 : k <= 3 /\ GivesUpAt(k)
  /\ Throw
  /\ lines' = <<>>
  /\ UNCHANGED <<tgt, cmds, hits, stopped, breakpoint, dbg, regs, cache, shown, leaving,
                 polled, client>>

Timeout ==
  /\ At("getlines") \/ At("await") \/ At("readevent")
  /\ \E k \in 1 .. Len(rx) + 1 :
       /\ IF At("readevent") THEN k <= 3 ELSE \A i \in 1 .. k - 1 : rx[i] # Dot
       /\ GivesUpAt(k)
  /\ Throw
  /\ lines' = <<>>
  /\ UNCHANGED <<tgt, cmds, hits, stopped, breakpoint, dbg, regs, cache, shown, leaving,
                 polled, client>>

(***************************************************************************)
(* do_event_processing() on Xemu: the three lines behind the empty one.    *)
(***************************************************************************)
ReadEvent ==
  /\ At("readevent")
  /\ Len(rx) >= 3
  /\ IF rx[1] = Header /\ rx[3] = Loc
     THEN /\ lines' = SubSeq(rx, 1, 3)
          /\ rx' = SubSeq(rx, 4, Len(rx))
          /\ Continue(Rest)
     ELSE /\ Throw
          /\ UNCHANGED <<lines, rx>>
  /\ UNCHANGED <<tgt, cmds, hits, stopped, breakpoint, dbg, regs, cache, shown, leaving,
                 polled, client>>

(***************************************************************************)
(* Empty lines are skipped wherever lines are looked at.  They stand in    *)
(* front of what matters or behind it.                                     *)
(***************************************************************************)
FirstLine(i, ls) == ls[i] # Blank /\ \A j \in 1 .. i - 1 : ls[j] = Blank

Unblanked(ls) ==
  IF \A i \in DOMAIN ls : ls[i] = Blank THEN <<>>
  ELSE From(ls, CHOOSE i \in DOMAIN ls : FirstLine(i, ls))

(***************************************************************************)
(* update_registers(lines): the registers are on the line that follows the *)
(* header.  A breakpoint's report may begin with a `!'.                    *)
(***************************************************************************)
HasRegs(s) == Len(s) >= 2 /\ s[1] = Header /\ s[2].kind = "regs"

Told(ls) == LET s == Unblanked(ls)
            IN  IF s # <<>> /\ Head(s) = Bang THEN Unblanked(Tail(s)) ELSE s

UpdateRegs ==
  /\ At("regs")
  /\ LET s == Unblanked(lines) IN
     \/ /\ HasRegs(s)
        /\ regs' = s[2].val
        /\ Continue(Rest)
     \/ /\ ~HasRegs(s) /\ Arg = "retry"
        /\ Continue(ReadRegs \o Rest)
        /\ UNCHANGED regs
     \/ /\ ~HasRegs(s) /\ Arg = "strict"
        /\ Throw
        /\ UNCHANGED regs
  /\ lines' = <<>>
  /\ UNCHANGED <<target, stopped, breakpoint, dbg, cache, shown, leaving, polled, client>>

(***************************************************************************)
(* handle_breakpoint(lines), up to the look at the breakpoint's            *)
(* instruction.  Lines that are all empty, and a breakpoint that is not    *)
(* set, are undefined behaviour.                                           *)
(***************************************************************************)
HandleBreakpoint ==
  /\ At("event")
  /\ LET s == Told(lines) IN
     \/ /\ s = <<>>
        /\ Undefined
        /\ UNCHANGED regs
     \/ /\ s # <<>> /\ Head(s) # Header
        /\ Throw
        /\ UNCHANGED regs
     \/ /\ s # <<>> /\ Head(s) = Header /\ ~HasRegs(s)
        /\ Continue(Execute("t0") \o Rest)
        /\ UNCHANGED regs
     \/ /\ HasRegs(s)
        /\ regs' = s[2].val
        /\ IF breakpoint THEN Continue(<<Op("verdict", "event")>> \o Rest) ELSE Undefined
  /\ lines' = <<>>
  /\ UNCHANGED <<target, stopped, breakpoint, dbg, cache, shown, leaving, polled, client>>

(***************************************************************************)
(* is_breakpoint_trigger_valid() for handle_breakpoint() ("event") and for *)
(* check_breakpoint_by_pc() ("poll"), and what they make of it.            *)
(***************************************************************************)
TriggerValid == BpKind = "plain" \/ regs = "hit"

Empty == [p \in Pages |-> "absent"]

VerdictUntold ==    \* mutant: the debugger does not note that it is stopped
  /\ At("verdict")
  /\ \/ /\ cache["code"] = "absent"
        /\ Continue(Fetch("code") \o todo)
        /\ UNCHANGED cache
     \/ /\ cache["code"] # "absent" /\ ~TriggerValid
        /\ Continue((IF Arg = "event" THEN Execute("t0") ELSE <<>>) \o Rest)
        /\ UNCHANGED cache
     \/ /\ cache["code"] # "absent" /\ TriggerValid
        /\ cache' = IF Arg = "event" THEN Empty ELSE cache
        /\ Continue(<<Op("notify", "breakpoint")>> \o Rest)
  /\ UNCHANGED <<target, lines, stopped, breakpoint, dbg, regs, shown, leaving, polled, client>>

Verdict ==
  /\ At("verdict")
  /\ \/ /\ cache["code"] = "absent"
        /\ Continue(Fetch("code") \o todo)
        /\ UNCHANGED <<stopped, cache, polled>>
     \/ /\ cache["code"] # "absent" /\ ~TriggerValid
        /\ Continue((IF Arg = "event" THEN Execute("t0") ELSE <<>>) \o Rest)
        /\ UNCHANGED <<stopped, cache, polled>>
     \/ /\ cache["code"] # "absent" /\ TriggerValid
        /\ cache' = IF Arg = "event" THEN Empty ELSE cache
        /\ stopped' = TRUE
        /\ polled' = (Arg = "poll")
        /\ Continue(<<Op("notify", "breakpoint")>> \o Rest)
  /\ UNCHANGED <<target, lines, breakpoint, dbg, regs, shown, leaving, client>>

(***************************************************************************)
(* The end of get_memory_bytes(): the lines are those of a memory dump.    *)
(***************************************************************************)
Fill ==
  /\ At("fill")
  /\ LET s == Unblanked(lines) IN
     IF s # <<>> /\ Head(s).kind = "mem"
     THEN /\ cache' = [cache EXCEPT ![Arg] = Head(s).val]
          /\ Continue(Rest)
     ELSE /\ Throw
          /\ UNCHANGED cache
  /\ lines' = <<>>
  /\ UNCHANGED <<target, stopped, breakpoint, dbg, regs, shown, leaving, polled, client>>

(***************************************************************************)
(* The steps of a task that do not read or write the connection.  Whether  *)
(* the symbols have a place for the line the client asks for is open here. *)
(***************************************************************************)
Require ==
  /\ At("require")
  /\ \/ /\ CASE Arg = "stopped" -> stopped [] Arg = "symbols" -> dbg
        /\ Continue(Rest)
     \/ /\ Arg = "stopped" => ~stopped
        /\ Throw
  /\ UNCHANGED <<target, lines, stopped, breakpoint, dbg, regs, cache, shown, leaving,
                 polled, client>>

AssignButResume ==    \* mutant: cont() leaves stopped_ set
  /\ Alive /\ todo # <<>>
  /\ Head(todo).do \in {"stopped", "resumed", "bpset", "forget"}
  /\ stopped' = (At("stopped") \/ stopped)
  /\ polled' = IF At("stopped") THEN FALSE ELSE polled
  /\ breakpoint' = (At("bpset") \/ breakpoint)
  /\ cache' = IF At("forget") THEN Empty ELSE cache
  /\ lines' = <<>>
  /\ Continue(Rest)
  /\ UNCHANGED <<target, dbg, regs, shown, leaving, client>>

Assign ==
  /\ Alive /\ todo # <<>>
  /\ Head(todo).do \in {"stopped", "resumed", "bpset", "forget"}
  /\ stopped' = CASE At("stopped") -> TRUE [] At("resumed") -> FALSE [] OTHER -> stopped
  /\ polled' = IF At("stopped") THEN FALSE ELSE polled
  /\ breakpoint' = (At("bpset") \/ breakpoint)
  /\ cache' = IF At("forget") THEN Empty ELSE cache
  /\ lines' = <<>>
  /\ Continue(Rest)
  /\ UNCHANGED <<target, dbg, regs, shown, leaving, client>>

Symbols ==
  /\ At("symbols")
  /\ \/ dbg' = TRUE /\ Continue(Rest)
     \/ Throw /\ UNCHANGED dbg            \* no .dbg file, or not well formed
  /\ lines' = <<>>
  /\ UNCHANGED <<target, stopped, breakpoint, regs, cache, shown, leaving, polled, client>>

Notify ==
  /\ At("notify")
  /\ shown' = TRUE
  /\ Continue(Rest)
  /\ UNCHANGED <<target, lines, stopped, breakpoint, dbg, regs, cache, leaving, polled,
                 client>>

EvaluateUnread ==    \* mutant: a line that is not cached is not fetched
  /\ At("evaluate")
  /\ answer' = IF dbg THEN cache[Arg] ELSE "empty"
  /\ todo' = Rest
  /\ UNCHANGED <<task, phase, dead>>
  /\ UNCHANGED <<target, lines, stopped, breakpoint, dbg, regs, cache, shown, leaving,
                 polled, client>>

Evaluate ==
  /\ At("evaluate")
  /\ \/ /\ cache[Arg] = "absent" /\ dbg
        /\ Continue(Fetch(Arg) \o todo)
     \/ /\ cache[Arg] # "absent" \/ ~dbg
        /\ answer' = IF dbg THEN cache[Arg] ELSE "empty"
        /\ todo' = Rest
        /\ UNCHANGED <<task, phase, dead>>
  /\ UNCHANGED <<target, lines, stopped, breakpoint, dbg, regs, cache, shown, leaving,
                 polled, client>>

-----------------------------------------------------------------------------
(***************************************************************************)
(* main_loop(): the task, an event if a line is there, a poll if a second  *)
(* went by, the exit signal.                                               *)
(***************************************************************************)
Idle(p) == Alive /\ phase = p /\ todo = <<>>

Unchanged == UNCHANGED <<target, lines, stopped, breakpoint, dbg, regs, cache, dead, shown,
                         leaving, polled, client>>

(***************************************************************************)
(* The task is popped and executed with the queue's mutex held; what it    *)
(* returns or throws is the request's answer.  To the client the target    *)
(* runs from the answer to Continue on.                                    *)
(***************************************************************************)
TakeTask ==
  /\ Idle("task") /\ task # "none"
  /\ todo' = Script(task) \o <<Op("return", "")>>
  /\ UNCHANGED <<task, answer, phase>>
  /\ Unchanged

Return ==
  /\ At("return")
  /\ todo' = Rest
  /\ answer' = IF answer = "none" THEN "done" ELSE answer
  /\ task' = "none"
  /\ phase' = "events"
  /\ shown' = (shown /\ task # "cont")
  /\ UNCHANGED <<target, lines, stopped, breakpoint, dbg, regs, cache, dead, leaving,
                 polled, client>>

NoTask ==
  /\ Idle("task") /\ task = "none"
  /\ phase' = "events"
  /\ UNCHANGED <<todo, task, answer>>
  /\ Unchanged

NoEvent ==
  /\ Idle("events") /\ rx = <<>>
  /\ phase' = "poll"
  /\ UNCHANGED <<todo, task, answer>>
  /\ Unchanged

DoEvent ==
  /\ Idle("events") /\ rx # <<>>
  /\ IF Head(rx) \in {Bang, Blank}
     THEN /\ todo' = <<IF isXemu THEN Op("readevent", "") ELSE Op("getlines", ""),
                       Op("event", ""), Op("eventdone", "")>>
          /\ rx' \in IF Head(rx) = Bang THEN AfterBang(Tail(rx)) ELSE {Tail(rx)}
          /\ UNCHANGED <<task, answer, phase, dead>>
     ELSE /\ Throw
          /\ UNCHANGED rx
  /\ UNCHANGED <<tgt, cmds, hits, lines, stopped, breakpoint, dbg, regs, cache, shown,
                 leaving, polled, client>>

EventDone ==
  /\ At("eventdone")
  /\ todo' = Rest
  /\ phase' = "poll"
  /\ UNCHANGED <<task, answer>>
  /\ Unchanged

LoopEnd == phase' = IF leaving THEN "exited" ELSE "task"

NoPoll ==
  /\ Idle("poll")
  /\ LoopEnd
  /\ UNCHANGED <<todo, task, answer>>
  /\ Unchanged

PollWhenStopped ==    \* mutant: the check for stopped_ is the wrong way round
  /\ Idle("poll") /\ breakpoint /\ stopped
  /\ todo' = ReadRegs \o <<Op("verdict", "poll"), Op("polldone", "")>>
  /\ UNCHANGED <<task, answer, phase>>
  /\ Unchanged

Poll ==
  /\ Idle("poll") /\ breakpoint /\ ~stopped
  /\ todo' = ReadRegs \o <<Op("verdict", "poll"), Op("polldone", "")>>
  /\ UNCHANGED <<task, answer, phase>>
  /\ Unchanged

PollDone ==
  /\ At("polldone")
  /\ todo' = Rest
  /\ LoopEnd
  /\ UNCHANGED <<task, answer>>
  /\ Unchanged

-----------------------------------------------------------------------------
(***************************************************************************)
(* The client, through the request handlers.  ConfigurationDone, which     *)
(* runs the program, comes once and before everything but SetBreakpoints;  *)
(* evaluating, stepping and continuing are for a client that believes the  *)
(* target is stopped.  The handler of SetBreakpoints calls                 *)
(* set_breakpoint() only while none is set.                                *)
(***************************************************************************)
Request ==
  /\ Alive /\ task = "none" /\ ~leaving /\ requests < MaxRequests
  /\ \E t \in Requests :
       /\ t \in {"cont", "next"} \cup Pages => shown
       /\ t \in {"run", "setbp"} \/ configured
       /\ t = "run" => ~configured
       /\ t = "setbp" => ~breakpoint
       /\ task' = t
       /\ shown' = (shown /\ t # "next")
       /\ configured' = (configured \/ t = "run")
  /\ answer' = "none"
  /\ requests' = requests + 1
  /\ UNCHANGED <<isXemu, target, todo, lines, phase, stopped, breakpoint, dbg, regs, cache, dead,
                 leaving, polled>>

(***************************************************************************)
(* ~M65Debugger(): signal the loop, join it, reset the target.             *)
(***************************************************************************)
Disconnect ==
  /\ Alive /\ task = "none" /\ ~leaving
  /\ leaving' = TRUE
  /\ UNCHANGED <<target, todo, lines, phase, task, stopped, breakpoint, dbg, regs, cache,
                 dead, shown, answer, polled, client>>

Joined ==
  /\ Idle("exited")
  /\ IF ResetOnDisconnect /\ ~isXemu
     THEN cmds' = Append(cmds, "!") /\ phase' = "reset"
     ELSE phase' = "closed" /\ UNCHANGED cmds
  /\ UNCHANGED <<tgt, rx, hits, todo, lines, task, stopped, breakpoint, dbg, regs, cache,
                 dead, shown, answer, leaving, polled, client>>

(***************************************************************************)
(* reset_target(): the first bytes that come back must be the echo, more   *)
(* must follow, and the target must answer sync_connection() (the module   *)
(* SyncConnection) when it is up again.  An exception leaves the           *)
(* destructor.                                                             *)
(***************************************************************************)
ResetTarget ==
  /\ Idle("reset")
  /\ \/ /\ rx # <<>> /\ Head(rx) = Echo("!")
        /\ rx' = <<>> /\ phase' = "closed"
        /\ UNCHANGED dead
     \/ /\ Late \/ (rx # <<>> /\ Head(rx) # Echo("!"))
        /\ dead' = "terminate"
        /\ UNCHANGED <<rx, phase>>
  /\ UNCHANGED <<tgt, cmds, hits, todo, lines, task, stopped, breakpoint, dbg, regs, cache,
                 shown, answer, leaving, polled, client>>

Over == (~Alive \/ phase = "closed") /\ UNCHANGED vars

-----------------------------------------------------------------------------

Init ==
  /\ isXemu \in BOOLEAN
  /\ \E armed \in {FALSE, LeftoverBp} : tgt = [running |-> TRUE, armed |-> armed, pc |-> "away"]
  /\ cmds = <<>> /\ rx = <<>> /\ todo = <<>> /\ lines = <<>>
  /\ phase = "task" /\ task = "launch"
  /\ stopped = FALSE /\ breakpoint = FALSE /\ dbg = FALSE
  /\ regs = "away" /\ cache = Empty /\ dead = "no"
  /\ shown = FALSE /\ answer = "none" /\ leaving = FALSE /\ polled = FALSE
  /\ configured = FALSE /\ requests = 0 /\ hits = 0

Connection == Send \/ GetLines \/ Timeout \/ ReadEvent
Local      == UpdateRegs \/ HandleBreakpoint \/ Verdict \/ Fill \/ Require \/ Assign
                \/ Symbols \/ Notify \/ Evaluate
Loop       == TakeTask \/ Return \/ NoTask \/ NoEvent \/ DoEvent \/ EventDone \/ NoPoll
                \/ Poll \/ PollDone \/ Joined \/ ResetTarget

Next == Process \/ Hit \/ Connection \/ Local \/ Loop \/ Request \/ Disconnect \/ Over

(***************************************************************************)
(* The target answers what it is sent, the main loop's thread runs, and    *)
(* again and again a second goes by in which the poll is due.              *)
(***************************************************************************)
Spec == Init /\ [][Next]_vars
FairSpec == Spec /\ WF_vars(Process) /\ WF_vars(Connection \/ Local \/ Loop) /\ SF_vars(Poll)

-----------------------------------------------------------------------------
(***************************************************************************)
(* Types.                                                                  *)
(***************************************************************************)
Plain == {"getlines", "readevent", "event", "stopped", "resumed", "bpset", "forget",
          "symbols", "return", "eventdone", "polldone"}
Ops == [do : {"send", "await"}, arg : Commands] \cup [do : {"fill", "evaluate"}, arg : Pages]
         \cup [do : {"regs"}, arg : {"strict", "retry"}]
         \cup [do : {"verdict"}, arg : {"event", "poll"}]
         \cup [do : {"require"}, arg : {"stopped", "symbols"}]
         \cup [do : {"notify"}, arg : {"pause", "step", "breakpoint"}]
         \cup [do : Plain, arg : {""}]

TypeOK ==
  /\ isXemu \in BOOLEAN
  /\ tgt \in [running : BOOLEAN, armed : BOOLEAN, pc : PCs]
  /\ cmds \in Seq(Commands)
  /\ rx \in Seq(LinesOfTarget) /\ lines \in Seq(LinesOfTarget)
  /\ todo \in Seq(Ops)
  /\ phase \in {"task", "events", "poll", "exited", "reset", "closed"}
  /\ task \in Requests \cup {"launch", "none"}
  /\ {stopped, breakpoint, dbg, shown, leaving, polled, configured} \subseteq BOOLEAN
  /\ regs \in PCs
  /\ cache \in [Pages -> {"absent", "fresh", "stale"}]
  /\ dead \in {"no", "terminate", "undefined"}
  /\ answer \in {"none", "done", "error", "empty", "fresh", "stale"}
  /\ requests \in 0 .. MaxRequests /\ hits \in 0 .. MaxHits

(***************************************************************************)
(* Between its tasks the debugger believes the target to be stopped only   *)
(* when it is, at the PC the debugger shows, unless the stop was found by  *)
(* polling.                                                                *)
(***************************************************************************)
StopIsReal ==
  (\E p \in {"task", "events", "poll"} : Idle(p)) /\ stopped /\ ~polled =>
    ~tgt.running /\ regs = tgt.pc

(***************************************************************************)
(* When the client is told of a stop, the target stands still, the PC is   *)
(* its PC, and no memory read before the stop will be shown, so that the   *)
(* stack trace and the evaluations the client asks for next are right.     *)
(***************************************************************************)
TellsTheTruth ==
  At("notify") /\ ~polled =>
    /\ ~tgt.running /\ regs = tgt.pc
    /\ \A p \in Pages : cache[p] # "stale"

(***************************************************************************)
(* An evaluation shows the target's memory as it is, unless the stop was   *)
(* found by polling.                                                       *)
(***************************************************************************)
EvaluatesPresent == [][At("evaluate") /\ answer' = "stale" => polled]_vars

(***************************************************************************)
(* What the client was told last is what the debugger believes: a request  *)
(* that is only allowed while the target is stopped is never refused to a  *)
(* client that waits for the stop.                                         *)
(***************************************************************************)
ClientAgrees == Alive /\ shown /\ task = "none" => stopped

(***************************************************************************)
(* Why they agree: a stop is announced only behind the operation that sets *)
(* or requires stopped_, and only cont() resets it, as its last operation. *)
(***************************************************************************)
ReturnsLast(s) == \A i \in DOMAIN s : s[i].do = "return" => i = Len(s)

ResumesLast(s, t) ==
  \A i \in DOMAIN s : s[i].do = "resumed" =>
     t = "cont" /\ i = Len(s) - 1 /\ s[Len(s)].do = "return"

IsStop(op) == op.do = "stopped" \/ op = Op("require", "stopped")
NotifiesStops(s) ==
  \A i \in DOMAIN s : s[i].do = "notify" => \E j \in 1 .. i - 1 : IsStop(s[j])

Resuming  == task = "cont" /\ todo = <<Op("return", "")>>
ClientInv ==
  /\ TypeOK
  /\ ReturnsLast(todo) /\ ResumesLast(todo, task)
  /\ stopped \/ NotifiesStops(todo)
  /\ shown => stopped \/ Resuming

(***************************************************************************)
(* Commands and replies stay paired: between tasks no command is           *)
(* unanswered and no line of a reply is left to be taken for something     *)
(* else, unless a task failed and its error was swallowed.                 *)
(***************************************************************************)
IsReplyLine(l) == l.kind \in {"echo", "mem"}
RepliesAreConsumed ==
  Idle("task") /\ answer # "error" => cmds = <<>> /\ \A i \in DOMAIN rx : ~IsReplyLine(rx[i])

(***************************************************************************)
(* The lines execute_command() accepts as the reply to its command are     *)
(* that command's: the target has answered everything by then.             *)
(***************************************************************************)
ReplyIsOwn == [][At("await") /\ rx' # rx /\ todo' = Rest => cmds = <<>>]_vars

(***************************************************************************)
(* The debugger does not bring the adapter down.                           *)
(***************************************************************************)
Survives == Alive

(***************************************************************************)
(* A stop is announced only when the target has stopped, however it was    *)
(* found.                                                                  *)
(***************************************************************************)
StopsAreStops == At("notify") => ~tgt.running

(***************************************************************************)
(* Every request is answered, or the adapter is gone.                      *)
(***************************************************************************)
RequestsAreAnswered == task # "none" ~> task = "none" \/ ~Alive

(***************************************************************************)
(* A target that stands at the breakpoint is noticed, also when its report *)
(* was lost, unless it is resumed before.                                  *)
(***************************************************************************)
AtBreakpoint == ~tgt.running /\ tgt.armed /\ tgt.pc = "hit" /\ breakpoint
BreakpointIsNoticed == AtBreakpoint ~> stopped \/ tgt.running \/ ~Alive \/ leaving
=============================================================================
