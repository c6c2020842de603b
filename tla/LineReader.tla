----------------------------- MODULE LineReader -----------------------------
(***************************************************************************)
(* read_line() of m65_debugger.cpp: it cuts the bytes that arrive from the *)
(* target into lines.                                                      *)
(*                                                                         *)
(* The target writes whole messages into a stream, which the connection's  *)
(* read() hands out in chunks of any length.  buffer_ outlives a call, so  *)
(* that calls need not be told apart: a call that times out has read a few *)
(* chunks and returned nothing.                                            *)
(*                                                                         *)
(* Bytes are CR, LF, the two that matter at the beginning of a line, "."   *)
(* and "!", and one to three pieces of text per line.                      *)
(***************************************************************************)
EXTENDS Naturals, SequencesExt

CONSTANTS MaxMessages,  \* bound: messages the target sends
          NoLine        \* nothing was read yet

ASSUME ReaderAssumption == MaxMessages \in Nat

VARIABLES isXemu,   \* is_xemu_
          stream,   \* bytes sent and not yet read from the connection
          buffer,   \* buffer_
          line,     \* what read_line() returned last
          messages

vars == <<isXemu, stream, buffer, line, messages>>

INSTANCE MonitorLines WITH IsXemu <- isXemu, SplitPrompts <- TRUE

CR == "\r"
LF == "\n"

LineSet == {Blank, Bang, Dot, Header, Loc, Flags,
            Regs("hit"), Mem("fresh"), Echo("r"), Echo("code")}

Text(l) ==
  CASE l = Blank         -> <<>>
    [] l = Bang          -> <<"!">>
    [] l = Dot           -> <<".">>
    [] l = Header        -> <<"PC", "A">>
    [] l = Regs("hit")   -> <<"2058", ".", "E">>
    [] l = Flags         -> <<"E">>
    [] l = Loc           -> <<",", "0777">>
    [] l = Mem("fresh")  -> <<":", "00">>
    [] l = Echo("r")     -> <<"r">>
    [] l = Echo("code")  -> <<"m", "2000">>

(***************************************************************************)
(* What the target writes: Xemu ends the lines of a memory dump with a     *)
(* line feed alone, the hardware ends a prompt with nothing.               *)
(***************************************************************************)
Eol(l) == CASE l = Dot /\ ~isXemu        -> <<>>
            [] l.kind = "mem" /\ isXemu  -> <<LF>>
            [] OTHER                     -> <<CR, LF>>

Bytes(l) == Text(l) \o Eol(l)

Registers      == Bytes(Header) \o Bytes(Regs("hit")) \o Bytes(Loc)
PromptBytes    == IF isXemu THEN Bytes(Dot) ELSE Bytes(Blank) \o Bytes(Dot)
RegistersReply == Bytes(Echo("r")) \o Bytes(Blank) \o Registers \o PromptBytes
MemoryReply    == Bytes(Echo("code")) \o Bytes(Mem("fresh")) \o PromptBytes
Report         == IF isXemu THEN Bytes(Blank) \o Registers
                            ELSE Bytes(Bang) \o Registers \o PromptBytes
Messages       == {RegistersReply, MemoryReply, Report}

Send ==
  /\ messages < MaxMessages
  /\ \E m \in Messages : stream' = stream \o m
  /\ messages' = messages + 1
  /\ UNCHANGED <<isXemu, buffer, line>>

-----------------------------------------------------------------------------
(***************************************************************************)
(* read_line().                                                            *)
(***************************************************************************)
HasEol   == Contains(buffer, LF)
IsAtMark == buffer # <<>> /\ Head(buffer) \in {".", "!"}

\* conn_->read(1024, 0)
ReadChunk ==
  /\ ~HasEol /\ ~IsAtMark
  /\ \E n \in 1 .. Len(stream) :
       /\ buffer' = buffer \o SubSeq(stream, 1, n)
       /\ stream' = SubSeq(stream, n + 1, Len(stream))
  /\ UNCHANGED <<isXemu, line, messages>>

ReturnMarkAtOnce ==    \* mutant: looks for a mark before it looks for an eol
  /\ IsAtMark
  /\ line' = IF Head(buffer) = "." THEN Dot ELSE Bang
  /\ buffer' = <<>>
  /\ UNCHANGED <<isXemu, stream, messages>>

\* A mark of which the eol has not arrived is a line; erase(0) takes it all.
ReturnMark ==
  /\ ~HasEol /\ IsAtMark
  /\ line' = IF Head(buffer) = "." THEN Dot ELSE Bang
  /\ buffer' = <<>>
  /\ UNCHANGED <<isXemu, stream, messages>>

IsPrompt == IF isXemu THEN IsPrefix(<<".", CR, LF>>, buffer) ELSE Head(buffer) = "."

ReturnPrompt ==
  /\ HasEol /\ IsPrompt
  /\ line' = Dot
  /\ buffer' = IF isXemu THEN SubSeq(buffer, 4, Len(buffer)) ELSE <<>>
  /\ UNCHANGED <<isXemu, stream, messages>>

\* The line a text is; a text nobody sent is the end of one that was.
ParsedWithCR(text) ==    \* mutant: the carriage return stays
  IF \E l \in LineSet : Text(l) = text THEN CHOOSE l \in LineSet : Text(l) = text ELSE Junk

Parsed(text) ==
  LET t == IF text # <<>> /\ Last(text) = CR THEN Front(text) ELSE text
  IN  IF \E l \in LineSet : Text(l) = t THEN CHOOSE l \in LineSet : Text(l) = t ELSE Junk

FirstEol(bytes) ==
  CHOOSE i \in DOMAIN bytes : bytes[i] = LF /\ \A j \in 1 .. i - 1 : bytes[j] # LF

ReturnLineButEol ==    \* mutant: leaves the line feed in the buffer
  /\ HasEol /\ ~IsPrompt
  /\ line' = Parsed(SubSeq(buffer, 1, FirstEol(buffer) - 1))
  /\ buffer' = SubSeq(buffer, FirstEol(buffer), Len(buffer))
  /\ UNCHANGED <<isXemu, stream, messages>>

ReturnLine ==
  /\ HasEol /\ ~IsPrompt
  /\ line' = Parsed(SubSeq(buffer, 1, FirstEol(buffer) - 1))
  /\ buffer' = SubSeq(buffer, FirstEol(buffer) + 1, Len(buffer))
  /\ UNCHANGED <<isXemu, stream, messages>>

-----------------------------------------------------------------------------

Init == isXemu \in BOOLEAN /\ stream = <<>> /\ buffer = <<>> /\ line = NoLine /\ messages = 0

ReadLine == ReadChunk \/ ReturnMark \/ ReturnPrompt \/ ReturnLine

Done == messages = MaxMessages /\ stream = <<>> /\ buffer = <<>> /\ UNCHANGED vars

Next == Send \/ ReadLine \/ Done

\* read_line() is called again and again: main_loop() never stops looking.
Spec == Init /\ [][Next]_vars /\ WF_vars(ReadLine)

-----------------------------------------------------------------------------
(***************************************************************************)
(* Types.  Only on hardware a line may come out that was not sent.         *)
(***************************************************************************)
AllBytes == UNION {Range(m) : m \in Messages}

TypeOK ==
  /\ isXemu \in BOOLEAN
  /\ {stream, buffer} \subseteq Seq(AllBytes)
  /\ line \in LineSet \cup {NoLine} \cup (IF isXemu THEN {} ELSE {Junk})
  /\ messages \in 0 .. MaxMessages

(***************************************************************************)
(* read_line() implements the channel of lines that the debugger is        *)
(* modelled with: no line is lost, torn, made up or reordered but by the   *)
(* end of a prompt or a `!'.                                               *)
(***************************************************************************)
Unread(bytes) ==
  LET from[i \in 1 .. Len(bytes) + 1] ==
        IF i > Len(bytes) THEN <<>>
        ELSE IF bytes[i] = "." /\ ~isXemu THEN <<Dot>> \o from[i + 1]
        ELSE LET n == FirstEol(SubSeq(bytes, i, Len(bytes)))
             IN  <<Parsed(SubSeq(bytes, i, i + n - 2))>> \o from[i + n]
  IN  from[1]

Channel == INSTANCE LineChannel WITH rx <- Unread(buffer \o stream)

ReadsLines == Channel!Spec

(***************************************************************************)
(* On hardware the last line read is a prompt, whatever was thrown away    *)
(* before it: who waits for a prompt gets one.                             *)
(***************************************************************************)
PromptComesLast ==
  ~isXemu /\ stream = <<>> /\ buffer = <<>> => line \in {Dot, NoLine}

(***************************************************************************)
(* What is sent is read: no chunk leaves something in the buffer that is   *)
(* never recognised.                                                       *)
(***************************************************************************)
EverythingIsRead == <>[](stream = <<>> /\ buffer = <<>>)
=============================================================================
