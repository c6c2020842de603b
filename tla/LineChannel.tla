---------------------------- MODULE LineChannel -----------------------------
(***************************************************************************)
(* What the debugger may expect of read_line(): the target's lines, one at *)
(* a time and in order, whatever the chunks in which their bytes arrive,   *)
(* but for what the end of a prompt or of a `!' may take along or leave    *)
(* behind.  M65Debugger reads the same channel, several lines at a time.   *)
(***************************************************************************)
EXTENDS SequencesExt

CONSTANT NoLine     \* nothing was read yet

VARIABLES isXemu,   \* is_xemu_
          rx,       \* lines sent and not yet consumed
          line      \* the last line read

INSTANCE MonitorLines WITH IsXemu <- isXemu, SplitPrompts <- TRUE

Init == isXemu \in BOOLEAN /\ rx = <<>> /\ line = NoLine

Arrive == /\ IsStrictPrefix(rx, rx')
          /\ UNCHANGED <<isXemu, line>>

Remaining(l, rest) ==
  CASE l = Dot  -> AfterPrompt(rest)
    [] l = Bang -> AfterBang(rest)
    [] OTHER    -> {rest}

Deliver == /\ rx # <<>>
           /\ line' = Head(rx)
           /\ rx' \in Remaining(Head(rx), Tail(rx))
           /\ UNCHANGED isXemu

Next == Arrive \/ Deliver

Spec == Init /\ [][Next]_<<isXemu, rx, line>>
=============================================================================
