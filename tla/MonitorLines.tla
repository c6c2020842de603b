---------------------------- MODULE MonitorLines ----------------------------
(***************************************************************************)
(* The lines of the target's serial monitor: the MEGA65's own and that of  *)
(* the Xemu emulator.                                                      *)
(***************************************************************************)
EXTENDS Naturals, Sequences

CONSTANTS IsXemu,        \* is_xemu_
          SplitPrompts   \* a chunk may end inside a Xemu prompt

Line(kind, val) == [kind |-> kind, val |-> val]

Blank    == Line("blank", "")
Bang     == Line("bang", "")
Dot      == Line("dot", "")      \* the prompt
Header   == Line("header", "")   \* PC   A  X  Y  Z ...
Regs(pc) == Line("regs", pc)
Loc      == Line("loc", "")      \* ,0777....
Mem(age) == Line("mem", age)
Echo(c)  == IF c = "step" THEN Blank ELSE Line("echo", c)
Junk     == Line("junk", "")     \* the end of a line whose beginning was lost
Flags    == Line("flags", "")    \* the same of a line of registers, as in E....C

Prompt == IF IsXemu THEN <<Dot>> ELSE <<Blank, Dot>>

RegisterLines(pc) == <<Header, Regs(pc), Loc>>

\* The report of a breakpoint.
Event(pc) == IF IsXemu THEN <<Blank>> \o RegisterLines(pc)
                       ELSE <<Bang>> \o RegisterLines(pc) \o Prompt

(***************************************************************************)
(* What is left of line l, of which at least the first character was lost. *)
(* The registers of the hardware contain dots, and a line that begins with *)
(* one is a prompt to read_line().                                         *)
(***************************************************************************)
CutOff(l) ==
  {<<Blank>>}
    \cup (IF l.kind \in {"regs", "flags"} THEN {<<Flags>>, <<Dot, Flags>>} ELSE {})
    \cup (IF l.kind \in {"header", "loc", "mem", "echo", "probe", "junk", "ident"} THEN {<<Junk>>} ELSE {})

(***************************************************************************)
(* What remains to be read once the prompt in front of rest was consumed.  *)
(* On hardware read_line() throws away whatever arrived together with the  *)
(* prompt, which may end in the middle of a line.  On Xemu it takes the    *)
(* line end along, but only if that has arrived.                           *)
(***************************************************************************)
From(rest, j) == SubSeq(rest, j, Len(rest))

AfterPrompt(rest) ==
  IF IsXemu
  THEN {rest} \cup (IF SplitPrompts THEN {<<Blank>> \o rest} ELSE {})
  ELSE {From(rest, j) : j \in 1 .. Len(rest) + 1}
         \cup UNION {{cut \o From(rest, j + 1) : cut \in CutOff(rest[j])} :
                        j \in {i \in 1 .. Len(rest) : rest[i] # Dot}}

(***************************************************************************)
(* What remains to be read once the `!' in front of rest was consumed: its *)
(* line end, if that arrived later, is an empty line.                      *)
(***************************************************************************)
AfterBang(rest) == {rest, <<Blank>> \o rest}
=============================================================================
