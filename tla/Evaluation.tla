------------------------------- MODULE Evaluation ------------------------------
(***************************************************************************)
(* What M65Debugger computes from bytes of the target's memory: the value  *)
(* of an expression (evaluate_expression()) and the address a subroutine   *)
(* call at the breakpoint goes to (is_breakpoint_trigger_valid()).  The    *)
(* bytes come through the memory cache.                                    *)
(*                                                                         *)
(* Memory is a function from addresses to bytes, a number is the sequence  *)
(* of its bytes as they are written, the most significant one first.       *)
(***************************************************************************)
EXTENDS DebuggerData

LineBytes   == 256      \* bytes of a line of the cache
MaxElements == 256      \* elements an evaluation returns at most
WordRange   == 65536    \* addresses of a word

(***************************************************************************)
(* MemoryCache::read(): past the end of the line it starts over.           *)
(***************************************************************************)
InLineOf(a, k) == ((a \div LineBytes) * LineBytes) + (k % LineBytes)

ReadBytes(memory, a, n) == [i \in 1 .. n |-> memory[InLineOf(a, a + i - 1)]]

ToWord(bytes) == bytes[1] + 256 * bytes[2]

-----------------------------------------------------------------------------
(***************************************************************************)
(* An expression: written plainly or in parentheses, around a hexadecimal  *)
(* address or a name; with an index, which nothing looks at, a type and a  *)
(* number of elements.  "text" is what neither expression matches.         *)
(***************************************************************************)
Result(a, elements) == [is |-> "result", address |-> a, elements |-> elements]
NoResult == Result(-1, <<>>)

Size(type) == CASE type \in {"none", "b"} -> 1
                [] type = "w"             -> 2
                [] type = "q"             -> 4

BigEndian(bytes, i, n) == [k \in 1 .. n |-> bytes[(i - 1) * n + k]]    \* mutant

LittleEndian(bytes, i, n) == [k \in 1 .. n |-> bytes[i * n + 1 - k]]

Evaluated(memory, a, size, count) ==
  LET bytes == ReadBytes(memory, a, size * count)
  IN IF count = 0 THEN [is |-> "undefined"]      \* pop_back() of an empty string
     ELSE Result(a, [i \in 1 .. count |-> LittleEndian(bytes, i, size)])

(***************************************************************************)
(* label is a view of a string that is gone when it is looked up: its      *)
(* bytes are there still, or what has overwritten them, which names        *)
(* nothing.                                                                *)
(***************************************************************************)
Overwritten == [is |-> "label", text |-> "overwritten"]

AddressOf(data, name) ==
  LET entry == GetLabelInfo(data, name.text)
  IN CASE name.is = "address"                 -> name.at
       [] name.is = "label" /\ entry = None   -> -1
       [] name.is = "label" /\ entry # None   -> entry.address

(***************************************************************************)
(* What evaluate_expression() may do with expression e.                    *)
(***************************************************************************)
Matches(e) == e.form = "direct" \/ (e.form = "indirect" /\ e.name.is = "label")

Evaluate(memory, data, e) ==
  CASE ~Matches(e)                                -> {NoResult}
    [] Matches(e) /\ e.type \in {"B", "W", "Q"} -> {[is |-> "logic_error"]}
    [] OTHER ->
         {IF AddressOf(data, name) = -1 THEN NoResult
          ELSE Evaluated(memory, AddressOf(data, name), Size(e.type),
                         IF e.count > MaxElements THEN MaxElements ELSE e.count)
            : name \in {e.name, Overwritten}}

-----------------------------------------------------------------------------
(***************************************************************************)
(* The table of opcodes (opcodes.h), and where an instruction goes.        *)
(***************************************************************************)
Mode(opcode) == CASE opcode = 32 -> "Absolute"             \* JSR $nnnn
                  [] opcode = 34 -> "AbsoluteIndirect"     \* JSR ($nnnn)
                  [] opcode = 35 -> "AbsoluteIndirectX"    \* JSR ($nnnn,X)
                  [] opcode = 99 -> "RelativeWord"         \* BSR $nnnn
                  [] OTHER       -> "none"

RelativeUnsigned(pc, word) == pc + word    \* mutant: an offset is never negative

Relative(pc, word) == pc + IF word >= WordRange \div 2 THEN word - WordRange ELSE word

CalculateAddress(memory, word, mode, x, pc) ==
  CASE mode = "Absolute"          -> word
    [] mode = "AbsoluteIndirect"  -> ToWord(ReadBytes(memory, word, 2))
    [] mode = "AbsoluteIndirectX" -> ToWord(ReadBytes(memory, word + x, 2))
    [] mode = "RelativeWord"      -> Relative(pc, word)

(***************************************************************************)
(* The monitor stops behind the instruction at the breakpoint, so that a   *)
(* call is confirmed when the program counter is at its target.            *)
(***************************************************************************)
TriggerIsValid(memory, breakpoint, pc, x) ==
  LET code == ReadBytes(memory, breakpoint, 5)
      mode == Mode(code[1])
  IN mode = "none"
       \/ pc = CalculateAddress(memory, ToWord(SubSeq(code, 2, 3)), mode, x, breakpoint + 2)
=============================================================================
