---------------------------- MODULE SyncConnection -----------------------------
(***************************************************************************)
(* How the debugger gets in step with a target of which it knows nothing:  *)
(* the constructor, sync_connection(), reset_target() and initialize() of  *)
(* m65_debugger.cpp over the connections of unix_*.cpp.                    *)
(*                                                                         *)
(* Of a target that answers, it is unknown what the last session left it   *)
(* in: it may wait for the bytes of a load command, and a breakpoint may   *)
(* be set.  What it writes takes any time to arrive; it is prompt if that  *)
(* is less than the 100 ms for which a flush reads.  Answers are sequences *)
(* of lines; a call of read_line() is one step.                            *)
(***************************************************************************)
EXTENDS Naturals, SequencesExt

CONSTANT Retries     \* bound: attempts of sync_connection(), ten in the code

ASSUME RetriesAssumption == Retries \in Nat \ {0}

VARIABLES
  isXemu,      \* is_xemu_
  resetOnRun,  \* the argument of initialize()
  blocking,    \* ::read() blocks: a serial port on Linux, whose attributes are never set
  alive,       \* the target is there
  prompt,      \* what it writes arrives before a flush is over
  loading,     \* bytes the load command still waits for: "none", "few" or "many"
  stray,       \* a breakpoint of an earlier session: "none", "set" or "hit"
  air,         \* lines written by the target that have not arrived
  conn,        \* lines that have, and have not been read from the connection
  buffer,      \* buffer_
  pc,          \* where the constructor is
  retries,     \* sync_connection(): retries
  firstTry,    \* sync_connection(): first_try
  again,       \* this is the sync_connection() of reset_target()
  lines        \* get_lines_until_prompt(): lines

INSTANCE MonitorLines WITH IsXemu <- isXemu, SplitPrompts <- TRUE

setting == <<isXemu, resetOnRun, blocking, alive, prompt>>
target  == <<loading, stray>>
wire    == <<air, conn, buffer>>
control == <<pc, retries, firstTry, again, lines>>
vars    == <<setting, target, wire, control>>

Ident == Line("ident", "")    \* MEGA65 Serial Monitor
At    == Line("at", "")       \* the line of a reset that begins with @

\* The echo of attempt n's command, which is numbered on hardware: ?n.
Probe(n) == [kind |-> "probe", attempt |-> IF isXemu THEN 0 ELSE n]

Init ==
  /\ isXemu \in BOOLEAN /\ resetOnRun \in BOOLEAN /\ alive \in BOOLEAN /\ prompt \in BOOLEAN
  /\ blocking \in BOOLEAN /\ (isXemu => ~blocking)
  /\ loading \in {"none", "few", "many"} /\ stray \in {"none", "set"}
  /\ air \in {<<>>, <<Junk>>} /\ (~alive \/ isXemu => air = <<>>)
  /\ conn = <<>> /\ buffer = <<>>
  /\ pc = IF isXemu THEN "ask" ELSE "open"
  /\ retries = Retries /\ firstTry = TRUE /\ again = FALSE /\ lines = <<>>

-----------------------------------------------------------------------------
(***************************************************************************)
(* The target.  A load command takes what it waits for from whatever is    *)
(* written; what is left of a line is not a command it knows, or an empty  *)
(* line, which steps.                                                      *)
(***************************************************************************)
Step == <<Blank>> \o RegisterLines("hit") \o Prompt

Reset0    == <<Bang, At, Blank, Ident, Junk>> \o Prompt
Resume0   == <<Echo("t0")>> \o Prompt
Answer(l) == <<l, Ident, Junk>> \o Prompt

Write(reply) ==
  /\ UNCHANGED stray
  /\ \/ ~alive /\ UNCHANGED <<loading, air>>
     \/ alive /\ loading = "none" /\ air' = air \o reply /\ UNCHANGED loading
     \/ alive /\ loading = "many" /\ UNCHANGED <<loading, air>>
     \/ alive /\ loading = "few" /\ air' \in {air \o Prompt, air \o Prompt \o Step}
        /\ loading' = "none"

WriteDummy == /\ loading' = "none"
              /\ air' = IF alive /\ loading # "none" THEN air \o Prompt ELSE air
              /\ UNCHANGED stray

Ended == pc \in {"running", "failed", "undefined"}

Hit == /\ ~Ended /\ stray = "set" /\ alive /\ loading = "none"
       /\ stray' = "hit"
       /\ air' = air \o Event("hit")
       /\ UNCHANGED <<setting, loading, conn, buffer, control>>

Arrive == /\ ~Ended /\ air # <<>>
          /\ conn' = Append(conn, Head(air))
          /\ air' = Tail(air)
          /\ UNCHANGED <<setting, target, buffer, control>>

-----------------------------------------------------------------------------
(***************************************************************************)
(* read_line(), which takes all that has arrived when it needs more.  The  *)
(* prompt of the hardware takes along what arrived with it, if only the    *)
(* beginning of a line; that of Xemu may come without its line end.        *)
(***************************************************************************)
Fill == /\ pc \in {"echo", "lines", "t0"} /\ buffer = <<>> /\ conn # <<>>
        /\ buffer' = conn /\ conn' = <<>>
        /\ UNCHANGED <<setting, target, air, control>>

FirstLine == Head(buffer)

Deliver ==
  /\ buffer # <<>>
  /\ IF FirstLine # Dot
       THEN buffer' = Tail(buffer) /\ UNCHANGED conn
       ELSE IF isXemu
         THEN /\ \/ buffer' = Tail(buffer)
                 \/ Tail(buffer) = <<>> /\ ~prompt /\ buffer' = <<Blank>>
              /\ UNCHANGED conn
         ELSE /\ buffer' = <<>>
              /\ \/ UNCHANGED conn
                 \/ conn # <<>> /\ \E cut \in CutOff(Head(conn)) : conn' = cut \o Tail(conn)
  /\ UNCHANGED air

TimedOut == /\ buffer = <<>> /\ conn = <<>> /\ ~blocking
            /\ (prompt => air = <<>>)

(***************************************************************************)
(* flush_rx_buffers() leaves buffer_ alone if nothing more has arrived.    *)
(***************************************************************************)
Flush == /\ (prompt => air = <<>>)
         /\ (blocking => conn # <<>>)
         /\ buffer' = IF conn = <<>> THEN buffer ELSE <<>>
         /\ conn' = <<>>
         /\ UNCHANGED air

-----------------------------------------------------------------------------
(* The constructor opens the connection, or throws; a serial port is flushed. *)
Open == /\ pc = "open"
        /\ \/ alive /\ pc' = "ask" /\ Flush
           \/ ~alive /\ pc' = "failed" /\ UNCHANGED wire
        /\ UNCHANGED <<setting, target, retries, firstTry, again, lines>>

AskAlike ==    \* mutant: the attempts are not numbered
  /\ pc = "ask" /\ retries > 0
  /\ retries' = retries - 1
  /\ Write(Answer(Probe(0)))
  /\ pc' = "echo"
  /\ UNCHANGED <<setting, conn, buffer, firstTry, again, lines>>

Ask == /\ pc = "ask" /\ retries > 0
       /\ retries' = retries - 1
       /\ Write(Answer(Probe(retries')))
       /\ pc' = "echo"
       /\ UNCHANGED <<setting, conn, buffer, firstTry, again, lines>>

GiveUp == /\ pc = "ask" /\ retries = 0
          /\ pc' = "failed"
          /\ UNCHANGED <<setting, target, wire, retries, firstTry, again, lines>>

TakeAnyEcho ==    \* mutant: the first line is not compared with the command
  /\ pc = "echo"
  /\ Deliver
  /\ pc' = "lines"
  /\ lines' = <<>>
  /\ UNCHANGED <<setting, target, retries, firstTry, again>>

TakeEcho ==
  /\ pc = "echo"
  /\ Deliver
  /\ pc' = IF FirstLine = Probe(retries) THEN "lines" ELSE "flush"
  /\ lines' = <<>>
  /\ UNCHANGED <<setting, target, retries, firstTry, again>>

MissEchoPatiently ==    \* mutant: nothing is done about a load command that hangs
  /\ pc = "echo" /\ TimedOut
  /\ pc' = "flush"
  /\ UNCHANGED <<setting, target, wire, retries, firstTry, again, lines>>

MissEcho == /\ pc = "echo" /\ TimedOut
            /\ pc' = "flush"
            /\ firstTry' = FALSE
            /\ IF firstTry THEN WriteDummy ELSE UNCHANGED <<target, air>>
            /\ UNCHANGED <<setting, conn, buffer, retries, again, lines>>

TakeLine ==
  /\ pc = "lines" /\ Deliver /\ FirstLine # Dot
  /\ lines' = Append(lines, FirstLine)
  /\ UNCHANGED <<setting, target, pc, retries, firstTry, again>>

(***************************************************************************)
(* The first line of an answer says who gave it; an answer without one is  *)
(* front() of an empty vector.                                             *)
(***************************************************************************)
Synced == IF resetOnRun /\ ~isXemu THEN (IF again THEN "running" ELSE "reset") ELSE "resume"

TakePrompt == /\ pc = "lines" /\ Deliver /\ FirstLine = Dot
              /\ pc' = IF lines = <<>> THEN "undefined"
                       ELSE IF Head(lines) = Ident THEN Synced ELSE "flush"
              /\ lines' = <<>>
              /\ UNCHANGED <<setting, target, retries, firstTry, again>>

MissPrompt == /\ pc = "lines" /\ TimedOut
              /\ pc' = "flush"
              /\ lines' = <<>>
              /\ UNCHANGED <<setting, target, wire, retries, firstTry, again>>

FlushAndRetry == /\ pc = "flush" /\ Flush
                 /\ pc' = "ask"
                 /\ UNCHANGED <<setting, target, retries, firstTry, again, lines>>

-----------------------------------------------------------------------------
(***************************************************************************)
(* reset_target() reads past buffer_.  The byte that it waits ten seconds  *)
(* for is the line end of the @ that it has just read.                     *)
(***************************************************************************)
Reset == /\ pc = "reset"
         /\ Write(Reset0)
         /\ pc' = "bang"
         /\ UNCHANGED <<setting, conn, buffer, retries, firstTry, again, lines>>

Rebooting == /\ pc = "bang" /\ Len(conn) >= 2
             /\ IF conn[1] = Bang /\ conn[2] = At
                  THEN conn' = <<Blank>> \o SubSeq(conn, 3, Len(conn)) /\ pc' = "reboot"
                  ELSE conn' = conn /\ pc' = "failed"
             /\ UNCHANGED <<setting, target, air, buffer, retries, firstTry, again, lines>>

NotRebooting == /\ pc = "bang" /\ Len(conn) < 2 /\ ~blocking /\ (prompt => air = <<>>)
                /\ pc' = "failed"
                /\ UNCHANGED <<setting, target, wire, retries, firstTry, again, lines>>

SyncAgain == /\ pc = "reboot" /\ Flush
             /\ pc' = "ask"
             /\ retries' = Retries /\ firstTry' = TRUE /\ again' = TRUE
             /\ UNCHANGED <<setting, target, lines>>

-----------------------------------------------------------------------------
(***************************************************************************)
(* initialize(): execute_command("t0\n").  Lines that do not begin with    *)
(* the echo are taken for a breakpoint, but none has been set.             *)
(***************************************************************************)
Resume == /\ pc = "resume"
          /\ Write(Resume0)
          /\ pc' = "t0"
          /\ UNCHANGED <<setting, conn, buffer, retries, firstTry, again, lines>>

FirstOf(i, I) == i \in I /\ \A j \in I : i <= j

\* Empty lines are erased, then a `!' in front.
Said   == {i \in DOMAIN lines : lines[i] # Blank}
Report == {i \in Said : FirstOf(i, Said) => lines[i] # Bang}

\* What is left is registers, which update_registers() takes, or nothing at all.
IsReport == \A i \in Report : FirstOf(i, Report) => lines[i] = Header

Resumed == CASE lines = <<>>              -> "failed"
             [] Head(lines) = Echo("t0")  -> "running"
             [] OTHER                     -> IF IsReport THEN "undefined" ELSE "failed"

TakeResumeLine ==
  /\ pc = "t0" /\ Deliver
  /\ IF FirstLine = Dot THEN pc' = Resumed /\ lines' = <<>>
                ELSE lines' = Append(lines, FirstLine) /\ UNCHANGED pc
  /\ UNCHANGED <<setting, target, retries, firstTry, again>>

NoResume == /\ pc = "t0" /\ TimedOut
            /\ pc' = "failed"
            /\ UNCHANGED <<setting, target, wire, retries, firstTry, again, lines>>

-----------------------------------------------------------------------------
Go == \/ Open \/ Ask \/ GiveUp \/ Fill \/ TakePrompt \/ FlushAndRetry
      \/ TakeEcho \/ TakeLine \/ TakeResumeLine
      \/ MissEcho \/ MissPrompt \/ NoResume
      \/ Reset \/ Rebooting \/ NotRebooting \/ SyncAgain \/ Resume

Next == Go \/ Hit \/ Arrive

\* The constructor's thread runs and its clocks run out; what is written arrives.
Spec == Init /\ [][Next]_vars /\ WF_vars(Go) /\ WF_vars(Arrive)

-----------------------------------------------------------------------------
(***************************************************************************)
(* No late answer is taken for that of the current attempt, be the target  *)
(* prompt or the attempts numbered, as those of the hardware are: nothing  *)
(* is outstanding when the main loop starts, where M65Debugger begins.     *)
(***************************************************************************)
InStep == pc = "running" /\ (isXemu => prompt) /\ stray # "hit" => air \o conn \o buffer = <<>>

(***************************************************************************)
(* front() of no lines is never called, and an event is taken for one of   *)
(* ours only if a breakpoint was left by an earlier session.               *)
(***************************************************************************)
AnswersHaveLines == pc = "undefined" => stray = "hit"

(***************************************************************************)
(* The attempts come to an end, and connect to a target that is there and  *)
(* prompt whatever state it is in, but with a breakpoint.                  *)
(***************************************************************************)
Connects == /\ ~blocking => <>Ended
            /\ alive /\ prompt /\ stray = "none" /\ ~blocking => <>(pc = "running")
================================================================================
