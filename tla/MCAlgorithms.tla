------------------------------ MODULE MCAlgorithms -----------------------------
(***************************************************************************)
(* Questions for the algorithms of the adapter and of cppdap, each asked   *)
(* once, and what the answers have in common with a definition that does   *)
(* not follow the code.                                                    *)
(***************************************************************************)
EXTENDS ContentStream, Protocol, Evaluation, DebuggerData, MonitorCommands

VARIABLES question, answer
vars == <<question, answer>>

Pending == [is |-> "pending"]
About(subject) == question.about = subject
Answered(subject) == About(subject) /\ answer # Pending

-----------------------------------------------------------------------------
(***************************************************************************)
(* Two messages with noise in front of them, the stream cut anywhere.      *)
(* Bodies have one or two digits in their length and look like headers.    *)
(***************************************************************************)
Noises == {<<>>, <<"x">>, <<"C">>, <<"C", "C", "L">>, <<"lf", "x", "lf", "C", "L">>}
Bodies == {<<"x">>, <<"C", "L", ":", " ", "2", "cr", "lf", "cr", "lf", "x", "x">>}

Stream(parts) == FlattenSeq([i \in DOMAIN parts |-> parts[i].noise \o Write(parts[i].body)])

AskStream ==
  \E parts \in [1 .. 2 -> [noise : Noises, body : Bodies]] :
    \E cut \in 0 .. Len(Stream(parts)) :
      question = [about |-> "stream", parts |-> parts, cut |-> cut]

AnswerStream ==
  /\ About("stream")
  /\ answer' = [is |-> "messages",
                messages |-> ReadAll(Reader(SubSeq(Stream(question.parts), 1, question.cut)))]

(***************************************************************************)
(* Messages arrive whole, in order and at once: those are read of which    *)
(* the last byte has come, whatever they contain, whatever is before them  *)
(* and without a byte of what follows (ContentReader::read()).             *)
(***************************************************************************)
Whole(n)  == Len(Stream(SubSeq(question.parts, 1, n))) <= question.cut
Count     == Cardinality({n \in DOMAIN question.parts : Whole(n)})
MessagesAreRead ==
  Answered("stream") =>
    answer.messages = [n \in 1 .. Count |-> question.parts[n].body]

-----------------------------------------------------------------------------
(***************************************************************************)
(* A value of type T: with all optionals down to a depth, or without any.  *)
(***************************************************************************)
RECURSIVE Sample(_, _)
SampleFields(fields, depth) == Object([n \in DOMAIN fields |-> Sample(fields[n], depth)])
Sample(T, depth) ==
  CASE T.is \in {"boolean", "integer", "string"} -> [is |-> T.is]
    [] T.is = "any"      -> [is |-> "null"]
    [] T.is = "array"    -> List(<<Sample(T.of, depth), Sample(T.of, depth)>>)
    [] T.is = "struct"   -> SampleFields(Parts[T.name], IF depth = 0 THEN 0 ELSE depth - 1)
    [] T.is = "optional" -> IF depth = 0 THEN Absent ELSE Sample(T.of, depth)

(***************************************************************************)
(* The JSON of value v with one thing wrong or missing, and what is to be  *)
(* made of it: the damage is to reach up to the next optional around it.   *)
(***************************************************************************)
Damage(json, value) == [json |-> json, value |-> value]
Wrong(T) == IF T.is = "struct" THEN [is |-> "boolean"]
            ELSE Object([x |-> Object(NoFields)])

RECURSIVE Damages(_, _)

DamagedFields(fields, v) ==
  UNION {{Damage(Encode([v EXCEPT !.fields[n] = d.json]),
                 IF d.value = Bad THEN Bad ELSE [v EXCEPT !.fields[n] = d.value])
            : d \in Damages(fields[n], v.fields[n])} : n \in DOMAIN fields}

Damages(T, v) ==
  {Damage(Absent, IF T.is = "optional" THEN Absent ELSE Bad)} \cup
  CASE T.is = "array" ->
         {Damage(Wrong(T), Bad)} \cup
         UNION {{Damage(List([Encode(v).elements EXCEPT ![i] = d.json]),
                        IF d.value = Bad THEN Bad ELSE List([v.elements EXCEPT ![i] = d.value]))
                   : d \in {e \in Damages(T.of, v.elements[i]) : e.json # Absent}}
                     : i \in DOMAIN v.elements}
    [] T.is = "struct"   -> DamagedFields(Parts[T.name], v) \cup
                              (IF Parts[T.name] = NoFields THEN {} ELSE {Damage(Wrong(T), Bad)})
    [] T.is = "optional" -> IF v = Absent THEN {Damage(Wrong(T.of), Absent)}
                            ELSE {Damage(d.json, IF d.value = Bad THEN Absent ELSE d.value)
                                    : d \in Damages(T.of, v)}
    [] OTHER             -> {Damage(Wrong(T), Bad)}

Envelope(command, arguments) ==
  [type |-> Text("request"), seq |-> integer, command |-> Text(command),
   arguments |-> arguments]

DamagedMessages(command, v) ==
  LET m      == Encode(Object(Envelope(command, v)))
      fields == Handled[command]
      lost   == IF fields = NoFields THEN v ELSE Bad
      Of(d)  == Damage([m EXCEPT !.fields.arguments = d.json], d.value)
  IN {Damage(m, v), Damage([is |-> "boolean"], Bad)}
       \cup {Damage(Encode([m EXCEPT !.fields[n] = j]), Bad)
               : n \in {"type", "seq", "command"}, j \in {Absent, List(<<>>)}}
       \cup {Damage([m EXCEPT !.fields[n] = Text("unknown")], Bad) : n \in {"type", "command"}}
       \cup {Damage(Encode([m EXCEPT !.fields.arguments = Absent]), lost)}
       \cup {Of(d) : d \in DamagedFields(fields, v)}

AskMessage ==
  \E command \in DOMAIN Handled, depth \in 0 .. 2 :
    \E d \in DamagedMessages(command, SampleFields(Handled[command], depth)) :
      question = [about |-> "message", command |-> command, sent |-> d.json, meant |-> d.value]

AnswerMessage ==
  /\ About("message")
  /\ answer' = ProcessMessage(question.sent)

AskReport ==
  \E name \in DOMAIN Sent, depth \in 0 .. 2 :
    question = [about |-> "report", name |-> name, meant |-> SampleFields(Sent[name], depth)]

AnswerReport ==
  /\ About("report")
  /\ answer' = DecodeFields(Sent[question.name], Encode(question.meant))

(***************************************************************************)
(* A handler gets what the client means: a request is turned down only     *)
(* when something required is wrong or missing, and something optional     *)
(* that is wrong costs itself and nothing around it.  What the adapter     *)
(* sends can be read back (processRequest(), Deserializer).                *)
(***************************************************************************)
DamageIsContained ==
  /\ Answered("message") =>
       answer = IF question.meant = Bad THEN Bad
                ELSE [is |-> "call", command |-> question.command, args |-> question.meant]
  /\ Answered("report") => answer = question.meant

-----------------------------------------------------------------------------
(***************************************************************************)
(* Expressions, at addresses in the middle and close to the end of a line; *)
(* of two labels with one name the first counts.                           *)
(***************************************************************************)
Background(a) == ((a * 7) + (a \div 256)) % 256
Memory == [a \in 0 .. 131071 |-> Background(a)]

File(p) == [is |-> "file", path |-> p]
Labels  == [files |-> <<File("a")>>, segments |-> <<>>,
           labels |-> <<[name |-> "a", address |-> 300], [name |-> "b", address |-> 511],
                        [name |-> "a", address |-> 301]>>]
Meant  == [a |-> 300, b |-> 511]

Names == [is : {"address"}, at : {300, 508, 511}] \cup [is : {"label"}, text : {"a", "b", "c"}]

AskExpression ==
  \E e \in [form : {"direct", "indirect", "text"}, name : Names,
            type : {"none", "b", "w", "q", "B", "W", "Q"}, count : {0, 1, 2, 3, 256, 300}] :
    question = [about |-> "expression", expression |-> e]

AnswerExpression ==
  /\ About("expression")
  /\ answer' \in Evaluate(Memory, Load(Labels), question.expression)

(***************************************************************************)
(* What an evaluation shows is what is in memory: as many elements as were *)
(* asked for, 256 at most, each with its least significant byte first in   *)
(* memory -- as long as it shows anything and does not leave the line of   *)
(* the cache (evaluate_expression(), MemoryCache::read()).                 *)
(***************************************************************************)
Bytes(e)   == CASE e.type = "w" -> 2 [] e.type = "q" -> 4 [] OTHER -> 1
Fits(a, n) == a \div LineBytes = (a + n - 1) \div LineBytes

EvaluatesAsWritten ==
  Answered("expression") /\ answer.is = "result" /\ answer # NoResult =>
    LET e     == question.expression
        at    == IF e.name.is = "address" THEN e.name.at ELSE Meant[e.name.text]
        size  == Bytes(e)
        n     == Len(answer.elements)
    IN /\ answer.address = at
       /\ n = Min({256, e.count}) /\ \A i \in 1 .. n : Len(answer.elements[i]) = size
       /\ Fits(at, n * size) =>
            \A i \in 1 .. n :
              Reverse(answer.elements[i]) = SubSeq([k \in 1 .. n * size |-> Memory[at + k - 1]],
                                                  (i - 1) * size + 1, i * size)

-----------------------------------------------------------------------------
(***************************************************************************)
(* An instruction at the breakpoint, at the end of which the program       *)
(* counter is somewhere.                                                   *)
(***************************************************************************)
Operands == {<<0, 32>>, <<253, 255>>, <<255, 255>>, <<0, 128>>, <<255, 127>>, <<16, 0>>}
Code(c)  == [a \in 0 .. 131071 |->
               CASE a = c.at     -> c.opcode
                 [] a = c.at + 1 -> c.operand[1]
                 [] a = c.at + 2 -> c.operand[2]
                 [] OTHER        -> Background(a)]

Word(memory, a)  == memory[a] + 256 * memory[(a + 1) % WordRange]
Signed(operand)  == operand[1] + 256 * (IF operand[2] < 128 THEN operand[2]
                                                            ELSE operand[2] - 256)

(***************************************************************************)
(* Where the processor goes: JSR and BSR name their target, the place      *)
(* where it is stored or its distance from the end of the opcode's word.   *)
(* Addresses have 16 bits: behind the last one follows the first.          *)
(***************************************************************************)
Named(c)    == c.operand[1] + 256 * c.operand[2]
Place(c)    == Named(c) + IF c.opcode = 35 THEN c.x ELSE 0
Distance(c) == c.at + 2 + Signed(c.operand)

Target(c) ==
  CASE c.opcode = 32         -> Named(c)
    [] c.opcode \in {34, 35} -> Word(Code(c), Place(c) % WordRange)
    [] c.opcode = 99         -> Distance(c) % WordRange
    [] OTHER                 -> 0      \* no call

(* Over an end of the address space. *)
LeavesMemory(c) == c.opcode = 99 /\ Distance(c) \notin 0 .. WordRange - 1

AskCall ==
  \E c \in [at : {8192, 8444, 65000}, opcode : {32, 34, 35, 99, 96}, operand : Operands,
             x : {0, 1}] :
    \E pc \in {Target(c), (Target(c) + 1) % WordRange, c.at + 3} :
      question = [about |-> "call", code |-> c, pc |-> pc]

AnswerCall ==
  /\ About("call")
  /\ LET c == question.code
     IN answer' = [is |-> "trigger",
                   valid |-> TriggerIsValid(Code(c), c.at, question.pc, c.x)]

(***************************************************************************)
(* A breakpoint at a subroutine call is confirmed exactly if the program   *)
(* counter is where the processor goes, except that a BSR over an end of   *)
(* the address space is never confirmed, because calculate_address() does  *)
(* not stay within 16 bits.  This is so as long as the two bytes of an     *)
(* indirect target are in one line of the cache, at addresses of 16 bits   *)
(* (is_breakpoint_trigger_valid()).                                        *)
(***************************************************************************)
CallsAreFollowed ==
  Answered("call") =>
    LET c == question.code
    IN (c.opcode \in {34, 35} => Place(c) < WordRange /\ Fits(Place(c), 2)) =>
         (answer.valid <=> c.opcode = 96 \/ (question.pc = Target(c) /\ ~LeavesMemory(c)))

-----------------------------------------------------------------------------
(***************************************************************************)
(* Symbols: two pieces of code, in one block or in two, of two files which *)
(* may be the same; and documents with a part that is broken or empty.     *)
(***************************************************************************)
Addresses == 0 .. 3
Intervals == {i \in [start : Addresses, end : Addresses] : i.start <= i.end}
LineSpans == {l \in [line1 : 1 .. 3, line2 : 1 .. 3] : l.line1 <= l.line2}
Piece(i, l, file) == [is |-> "piece", start |-> i.start, end |-> i.end, file |-> file,
                      line1 |-> l.line1, line2 |-> l.line2]

Apart(i, j) == i.end < j.start \/ j.end < i.start
SomeLabels == <<[name |-> "end", address |-> 3]>>

Layouts(d, e) == {<< <<<<d, e>>>> >>, << <<<<d>>, <<e>>>> >>, << <<<<d>>>>, <<<<e>>>> >>}
Spoilings(d, e) == {<< <<NoList>> >>, << <<<<d>>>>, <<<<>>, <<e>>>> >>}
Documents(d, e) ==
  [files : {<<File("a"), File("b")>>, <<File("a"), File("a")>>, NoList, <<>>},
   segments : Layouts(d, e) \cup Spoilings(d, e), labels : {SomeLabels, <<>>}]

AskSymbols ==
  \E i, j \in Intervals, l \in LineSpans, m \in {[line1 |-> 2, line2 |-> 2], [line1 |-> 1, line2 |-> 3]} :
    \E doc \in Documents(Piece(i, l, 1), Piece(j, m, 2)), line \in 1 .. 3 :
      /\ Apart(i, j)
      /\ question = [about |-> "symbols", doc |-> doc, line |-> line,
                     pieces |-> {Piece(i, l, 1), Piece(j, m, 2)}]

AnswerSymbols ==
  /\ About("symbols")
  /\ LET data == Load(question.doc)
         set  == BreakpointAt(data, "a", question.line)
     IN answer' = CASE ~Parses(question.doc) -> [is |-> "fails"]
                    [] Parses(question.doc) /\ set = None -> None
                    [] OTHER -> [is |-> "breakpoint", set |-> set,
                                 shown |-> [a \in Addresses |-> SourcePosition(data, a)]]

(***************************************************************************)
(* A breakpoint is set at the first address of a piece of code that takes  *)
(* in the line asked for, and the first line of this piece is what the     *)
(* client is told and what it is shown wherever the program stops in the   *)
(* piece; there is none only if no piece of the file takes in the line.    *)
(* No two pieces of code share an address (set_breakpoint(),               *)
(* eval_breakpoint_line(), get_current_source_position()).                 *)
(***************************************************************************)
TakesIn(piece) == /\ question.doc.files[piece.file].path = "a"
                 /\ piece.line1 <= question.line /\ question.line <= piece.line2


-----------------------------------------------------------------------------
(***************************************************************************)
(* Memory dumps of which a line is lost, empty, garbled or repeated.       *)
(***************************************************************************)
Spoilt(rows, i, how) ==
  CASE how = "lost"     -> SubSeq(rows, 1, i - 1) \o SubSeq(rows, i + 1, Len(rows))
    [] how = "repeated" -> SubSeq(rows, 1, i) \o SubSeq(rows, i, Len(rows))
    [] how = "fine"     -> rows
    [] OTHER            -> [rows EXCEPT ![i] = [is |-> how]]

AskMemory ==
  \E count \in {1, 5, 15, 16, 17, 250, 256, 257, 300}, i \in 1 .. DumpRows,
     how \in {"fine", "lost", "empty", "garbled", "repeated"} :
    question = [about |-> "memory", count |-> count, row |-> i, how |-> how]

AnswerMemory ==
  /\ About("memory")
  /\ LET got  == Got(4096, <<>>, question.count)
         rows == Dump(4096, Asked(got))
     IN answer' = GetMemoryBytes(got, IF question.row \in DOMAIN rows
                                      THEN Spoilt(rows, question.row, question.how) ELSE rows)

AskProgram ==
  \E size \in {2, 3, 4, 65536, 65537}, lo, hi \in {0, 1, 127, 128, 255} :
    question = [about |-> "program", size |-> size, lo |-> lo, hi |-> hi]

AnswerProgram == About("program") /\ answer' = Upload(question.size, question.lo, question.hi)

AskKeys == \E n \in 0 .. 28 : question = [about |-> "keys", keys |-> [i \in 1 .. n |-> i]]

AnswerKeys ==
  /\ About("keys")
  /\ answer' = [is |-> "commands", commands |-> KeyCommands(question.keys)]

(***************************************************************************)
(* Whatever happens to a memory dump on its way, bytes that are returned   *)
(* are those asked for (get_memory_bytes()).  A program is loaded where    *)
(* its header says if both bytes of the address are less than 128          *)
(* (upload_prg_file()).  Keys are stored in order, at most nine at a time, *)
(* and their number goes with them (simulate_keypresses()).                *)
(***************************************************************************)
CommandsMeanWhatWasAsked ==
  /\ Answered("memory") /\ answer.is = "bytes" =>
       answer.bytes = [i \in 1 .. question.count |-> 4096 + i - 1]
  /\ Answered("program") /\ answer.is = "load" /\ question.lo < 128 /\ question.hi < 128 =>
       /\ answer.from = question.lo + 256 * question.hi
       /\ answer.to - answer.from = question.size - 2
  /\ Answered("keys") =>
       /\ FlattenSeq([i \in DOMAIN answer.commands |-> answer.commands[i].store]) = question.keys
       /\ \A i \in DOMAIN answer.commands :
            answer.commands[i].count = Len(answer.commands[i].store)
              /\ answer.commands[i].count \in 1 .. 9

-----------------------------------------------------------------------------
Init ==
  /\ AskStream \/ AskMessage \/ AskReport \/ AskExpression \/ AskCall \/ AskSymbols
       \/ AskMemory \/ AskProgram \/ AskKeys
  /\ answer = Pending

Answers == AnswerStream \/ AnswerMessage \/ AnswerReport \/ AnswerExpression \/ AnswerCall
             \/ AnswerSymbols \/ AnswerMemory \/ AnswerProgram \/ AnswerKeys

Next == answer = Pending /\ Answers /\ UNCHANGED question

Spec == Init /\ [][Next]_vars
=============================================================================
