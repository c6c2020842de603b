----------------------------- MODULE Evaluation_proofs -----------------------------
(***************************************************************************)
(* What is proved of expressions, subroutine calls and debug symbols, for  *)
(* every content of the memory and every document of debug symbols.        *)
(***************************************************************************)
EXTENDS Evaluation, WellFoundedInduction, TLAPS

Byte   == 0 .. 255
Memory == [Nat -> Byte]

(***************************************************************************)
(* The n bytes from address a are in one line of the cache.                *)
(***************************************************************************)
Fits(a, n) == a \div LineBytes = (a + n - 1) \div LineBytes

-----------------------------------------------------------------------------
(***************************************************************************)
(* What is read, read over the end of a line included.                     *)
(***************************************************************************)
LEMMA Wrapped ==
  ASSUME NEW a \in Nat, NEW k \in Nat
  PROVE  /\ InLineOf(a, k) \in Nat
         /\ a \div LineBytes = k \div LineBytes => InLineOf(a, k) = k
<1>. DEFINE p == a \div LineBytes  q == k \div LineBytes  r == k % LineBytes
<1>1. p \in Nat /\ q \in Nat /\ r \in Nat /\ r = k - 256 * q
  BY DEF LineBytes
<1>2. InLineOf(a, k) = p * 256 + r
  BY DEF InLineOf, LineBytes
<1>. HIDE DEF p, q, r
<1>3. InLineOf(a, k) \in Nat /\ (p = q => InLineOf(a, k) = k)
  BY <1>1, <1>2
<1>. QED BY <1>3 DEF p, q

LEMMA BytesRead ==
  ASSUME NEW memory \in Memory, NEW a \in Nat, NEW n \in Nat
  PROVE  ReadBytes(memory, a, n) \in Seq(Byte) /\ Len(ReadBytes(memory, a, n)) = n
<1>1. ASSUME NEW i \in 1 .. n
      PROVE  memory[InLineOf(a, a + i - 1)] \in Byte
  <2>1. a + i - 1 \in Nat
    OBVIOUS
  <2>2. InLineOf(a, a + i - 1) \in Nat
    BY <2>1, Wrapped
  <2>. QED BY <2>2 DEF Memory
<1>. QED BY <1>1 DEF ReadBytes

\* Within a line it is what the target's memory has there.
LEMMA WithinALine ==
  ASSUME NEW memory, NEW a \in Nat, NEW n \in Nat, Fits(a, n), NEW i \in 1 .. n
  PROVE  ReadBytes(memory, a, n)[i] = memory[a + i - 1]
<1>1. a + i - 1 \in Nat
  OBVIOUS
<1>2. a \div LineBytes = (a + i - 1) \div LineBytes
  BY DEF Fits, LineBytes
<1>3. InLineOf(a, a + i - 1) = a + i - 1
  BY <1>1, <1>2, Wrapped
<1>. QED BY <1>3 DEF ReadBytes

-----------------------------------------------------------------------------
(***************************************************************************)
(* Where a call goes, as the processor reads it from memory.  Addresses    *)
(* have 16 bits: behind the last one follows the first.                    *)
(***************************************************************************)
Calls    == {32, 34, 35, 99}
Indirect == {34, 35}
Address  == {a \in Nat : a < WordRange}

WordAt(memory, a) == memory[a] + 256 * memory[(a + 1) % WordRange]

Operand(memory, at) == WordAt(memory, (at + 1) % WordRange)

\* The place where an indirect call finds its target.
Place(memory, at, x) == Operand(memory, at) + IF memory[at] = 35 THEN x ELSE 0

Signed(word) == IF word < 32768 THEN word ELSE word - 65536

Distance(memory, at) == at + 2 + Signed(Operand(memory, at))

Target(memory, at, x) ==
  CASE memory[at] = 32       -> Operand(memory, at)
    [] memory[at] \in Indirect -> WordAt(memory, Place(memory, at, x) % WordRange)
    [] memory[at] = 99       -> Distance(memory, at) % WordRange

\* A BSR over an end of the address space.
LeavesMemory(memory, at) == memory[at] = 99 /\ Distance(memory, at) \notin Address

LEMMA Next16 ==
  ASSUME NEW a \in Nat, a + 1 < WordRange
  PROVE  (a + 1) % WordRange = a + 1 /\ a % WordRange = a
BY DEF WordRange

LEMMA InSpace ==
  ASSUME NEW a \in Nat, a < WordRange, Fits(a, 3)
  PROVE  a + 2 < WordRange
BY DEF Fits, LineBytes, WordRange

LEMMA Modulo ==
  ASSUME NEW d \in Int, NEW pc \in Nat, pc < WordRange
  PROVE  pc = d <=> pc = d % WordRange /\ d \in Address
<1>1. d \in Nat /\ d < WordRange => d % WordRange = d
  BY DEF WordRange
<1>2. pc = d => d \in Nat /\ d < WordRange
  OBVIOUS
<1>. QED BY <1>1, <1>2 DEF Address

LEMMA WordRead ==
  ASSUME NEW memory \in Memory, NEW a \in Nat, a < WordRange, Fits(a, 2)
  PROVE  ToWord(ReadBytes(memory, a, 2)) = WordAt(memory, a)
<1>1. ReadBytes(memory, a, 2)[1] = memory[a + 1 - 1] /\ ReadBytes(memory, a, 2)[2] = memory[a + 2 - 1]
  BY WithinALine
<1>2. a + 1 - 1 = a /\ a + 2 - 1 = a + 1
  OBVIOUS
<1>3. a + 1 < WordRange
  BY DEF Fits, LineBytes, WordRange
<1>. QED BY <1>1, <1>2, <1>3, Next16 DEF ToWord, WordAt

LEMMA CodeRead ==
  ASSUME NEW memory \in Memory, NEW at \in Nat, at < WordRange, Fits(at, 3)
  PROVE  LET code == ReadBytes(memory, at, 5)
         IN  code[1] = memory[at] /\ ToWord(SubSeq(code, 2, 3)) = Operand(memory, at)
<1>. DEFINE code == ReadBytes(memory, at, 5)
<1>0. at + 2 < WordRange
  BY InSpace DEF WordRange
<1>1. \A i \in 1 .. 3 : code[i] = ReadBytes(memory, at, 3)[i]
  BY DEF ReadBytes
<1>2. \A i \in 1 .. 3 : ReadBytes(memory, at, 3)[i] = memory[at + i - 1]
  BY WithinALine
<1>3. code \in Seq(Byte) /\ Len(code) = 5
  BY BytesRead
<1>. HIDE DEF code
<1>4. code[1] = memory[at + 1 - 1] /\ code[2] = memory[at + 2 - 1] /\ code[3] = memory[at + 3 - 1]
  BY <1>1, <1>2
<1>5. at + 1 - 1 = at /\ at + 2 - 1 = at + 1 /\ at + 3 - 1 = at + 1 + 1
  BY <1>0
<1>8. (at + 1) % WordRange = at + 1 /\ (at + 1 + 1) % WordRange = at + 1 + 1
  BY <1>0, Next16
<1>6. code[1] = memory[at] /\ code[2] = memory[at + 1] /\ code[3] = memory[at + 1 + 1]
  BY <1>4, <1>5
<1>7. SubSeq(code, 2, 3)[1] = code[2] /\ SubSeq(code, 2, 3)[2] = code[3]
  BY <1>3
<1>. QED BY <1>6, <1>7, <1>8 DEF ToWord, Operand, WordAt, code

(***************************************************************************)
(* A breakpoint at a subroutine call is confirmed exactly if the program   *)
(* counter is where the processor goes, except that a BSR over an end of   *)
(* the address space is never confirmed, and a breakpoint at any other     *)
(* instruction always; wherever the code is and whatever the memory holds, *)
(* as long as the instruction and the two bytes of an indirect target are  *)
(* each in one line of the cache, at addresses of 16 bits                  *)
(* (is_breakpoint_trigger_valid(), calculate_address()).                   *)
(***************************************************************************)
THEOREM CallsAreConfirmed ==
  ASSUME NEW memory \in Memory, NEW at \in Address, NEW pc \in Address, NEW x \in Byte,
         Fits(at, 3),
         memory[at] \in Indirect =>
           Place(memory, at, x) < WordRange /\ Fits(Place(memory, at, x), 2)
  PROVE  TriggerIsValid(memory, at, pc, x)
           <=> (memory[at] \in Calls => pc = Target(memory, at, x) /\ ~LeavesMemory(memory, at))
<1>. DEFINE code == ReadBytes(memory, at, 5)  word == Operand(memory, at)  opcode == memory[at]
<1>a. at \in Nat /\ at < WordRange /\ pc \in Nat /\ pc < WordRange
  BY DEF Address
<1>0. at + 2 < WordRange
  BY <1>a, InSpace
<1>1. code[1] = opcode /\ ToWord(SubSeq(code, 2, 3)) = word
  BY <1>a, CodeRead
<1>2. word \in Nat /\ word < WordRange /\ opcode \in Byte
  <2>1. memory[at] \in Byte /\ memory[at + 1] \in Byte /\ memory[at + 1 + 1] \in Byte
    BY <1>a DEF Memory
  <2>2. word = memory[at + 1] + 256 * memory[at + 1 + 1]
    BY <1>a, <1>0, Next16 DEF Operand, WordAt, WordRange
  <2>3. \A p, q \in Byte : p + 256 * q \in Nat /\ p + 256 * q < WordRange
    BY DEF Byte, WordRange
  <2>4. /\ memory[at + 1] + 256 * memory[at + 1 + 1] \in Nat
        /\ memory[at + 1] + 256 * memory[at + 1 + 1] < WordRange
    BY <2>1, <2>3
  <2>. QED BY <2>1, <2>2, <2>4
<1>3. TriggerIsValid(memory, at, pc, x)
        <=> Mode(opcode) = "none" \/ pc = CalculateAddress(memory, word, Mode(opcode), x, at + 2)
  BY <1>1 DEF TriggerIsValid
<1>4. CASE opcode \notin Calls
  BY <1>3, <1>4 DEF Calls, Mode
<1>9. opcode # 99 => ~LeavesMemory(memory, at)
  BY DEF LeavesMemory
<1>5. CASE opcode = 32
  <2>1. Mode(opcode) = "Absolute" /\ opcode \in Calls /\ opcode # 99
    BY <1>5 DEF Mode, Calls
  <2>2. CalculateAddress(memory, word, "Absolute", x, at + 2) = word
    BY DEF CalculateAddress
  <2>3. Target(memory, at, x) = word
    BY <1>5 DEF Target, Indirect
  <2>. QED BY <1>3, <1>9, <2>1, <2>2, <2>3
<1>6. CASE opcode = 34
  <2>1. /\ Mode(opcode) = "AbsoluteIndirect" /\ opcode \in Calls /\ opcode \in Indirect
        /\ opcode # 32 /\ opcode # 99
    BY <1>6 DEF Mode, Calls, Indirect
  <2>2. Place(memory, at, x) = word /\ word % WordRange = word
    BY <1>2, <1>6 DEF Place, WordRange
  <2>3. CalculateAddress(memory, word, "AbsoluteIndirect", x, at + 2) = ToWord(ReadBytes(memory, word, 2))
    BY DEF CalculateAddress
  <2>4. ToWord(ReadBytes(memory, word, 2)) = WordAt(memory, word)
    BY <1>2, <2>1, <2>2, WordRead
  <2>5. Target(memory, at, x) = WordAt(memory, word)
    BY <1>6, <2>1, <2>2 DEF Target
  <2>. QED BY <1>3, <1>9, <2>1, <2>3, <2>4, <2>5
<1>7. CASE opcode = 35
  <2>. DEFINE place == word + x
  <2>1. /\ Mode(opcode) = "AbsoluteIndirectX" /\ opcode \in Calls /\ opcode \in Indirect
        /\ opcode # 32 /\ opcode # 99
    BY <1>7 DEF Mode, Calls, Indirect
  <2>2. Place(memory, at, x) = place /\ place \in Nat
    BY <1>2, <1>7 DEF Place, Byte
  <2>3. CalculateAddress(memory, word, "AbsoluteIndirectX", x, at + 2) = ToWord(ReadBytes(memory, place, 2))
    BY DEF CalculateAddress
  <2>. HIDE DEF place
  <2>6. place < WordRange /\ Fits(place, 2) /\ place % WordRange = place
    BY <2>1, <2>2 DEF WordRange
  <2>4. ToWord(ReadBytes(memory, place, 2)) = WordAt(memory, place)
    BY <2>2, <2>6, WordRead
  <2>5. Target(memory, at, x) = WordAt(memory, place)
    BY <1>7, <2>1, <2>2, <2>6 DEF Target
  <2>. QED BY <1>3, <1>9, <2>1, <2>3, <2>4, <2>5
<1>8. CASE opcode = 99
  <2>. DEFINE distance == Distance(memory, at)
  <2>1. Mode(opcode) = "RelativeWord" /\ opcode \in Calls /\ opcode \notin Indirect /\ opcode # 32
    BY <1>8 DEF Mode, Calls, Indirect
  <2>2. CalculateAddress(memory, word, "RelativeWord", x, at + 2) = Relative(at + 2, word)
    BY DEF CalculateAddress
  <2>3. Relative(at + 2, word) = distance /\ distance \in Int
    BY <1>a, <1>2 DEF Distance, Relative, Signed, WordRange
  <2>4. Target(memory, at, x) = distance % WordRange
    BY <1>8, <2>1 DEF Target
  <2>5. LeavesMemory(memory, at) <=> distance \notin Address
    BY <1>8 DEF LeavesMemory
  <2>. HIDE DEF distance
  <2>6. pc = distance <=> pc = distance % WordRange /\ distance \in Address
    BY <1>a, <2>3, Modulo
  <2>. QED BY <1>3, <2>1, <2>2, <2>3, <2>4, <2>5, <2>6
<1>. QED BY <1>4, <1>5, <1>6, <1>7, <1>8 DEF Calls

-----------------------------------------------------------------------------
(***************************************************************************)
(* The first of a list that is looked for.                                 *)
(***************************************************************************)
LEMMA NatMin ==
  ASSUME NEW S \in SUBSET Nat, S # {}
  PROVE  Min(S) \in S /\ \A y \in S : Min(S) <= y
<1>1. PICK x \in S : \A y \in S : ~(<<y, x>> \in OpToRel(<, Nat))
  BY NatLessThanWellFounded, WFMin
<1>2. \A y \in S : ~(y < x)
  BY <1>1 DEF OpToRel
<1>3. \A y \in S : x <= y
  BY <1>2
<1>. QED BY <1>3 DEF Min

-----------------------------------------------------------------------------
(***************************************************************************)
(* Expressions.                                                            *)
(***************************************************************************)
Labels(texts)      == Seq([name : texts, address : Nat])
Names(texts)       == [is : {"address"}, at : Nat] \cup [is : {"label"}, text : texts]
Expressions(texts) == [form : {"direct", "indirect", "text"}, name : Names(texts),
                       type : {"none", "b", "w", "q", "B", "W", "Q"}, count : Nat]

\* The address that is written, or that of the first label with the name.
Means(data, name, a) ==
  \/ name.is = "address" /\ a = name.at
  \/ /\ name.is = "label"
     /\ \E i \in DOMAIN data.labels :
          /\ data.labels[i].name = name.text /\ data.labels[i].address = a
          /\ \A j \in 1 .. i - 1 : data.labels[j].name # name.text

\* The elements are the memory from a on, each written with its last byte first.
Shows(elements, memory, a, size) ==
  \A i \in DOMAIN elements :
    /\ Len(elements[i]) = size
    /\ \A k \in 1 .. size : elements[i][size + 1 - k] = memory[a + (i - 1) * size + k - 1]

LEMMA LabelTyped ==
  ASSUME NEW texts, NEW labels \in Labels(texts), NEW i \in DOMAIN labels
  PROVE  labels[i].address \in Nat
<1>. DEFINE R == [name : texts, address : Nat]
<1>1. labels \in Seq(R)
  BY DEF Labels
<1>2. ASSUME NEW l \in R
      PROVE  l.address \in Nat
  OBVIOUS
<1>. HIDE DEF R
<1>3. labels[i] \in R
  BY <1>1
<1>. QED BY <1>2, <1>3

LEMMA LabelFound ==
  ASSUME NEW texts, NEW data, data.labels \in Labels(texts),
         NEW text, GetLabelInfo(data, text) # None
  PROVE  \E i \in DOMAIN data.labels :
           /\ GetLabelInfo(data, text) = data.labels[i] /\ data.labels[i].name = text
           /\ \A j \in 1 .. i - 1 : data.labels[j].name # text
<1>. DEFINE I == {i \in DOMAIN data.labels : data.labels[i].name = text}
<1>1. I # {} /\ I \subseteq Nat /\ GetLabelInfo(data, text) = data.labels[Min(I)]
  <2>1. \E i \in DOMAIN data.labels : data.labels[i].name = text
    BY DEF GetLabelInfo, First, Some
  <2>2. GetLabelInfo(data, text) = data.labels[Min(I)]
    BY <2>1 DEF GetLabelInfo, First, Some
  <2>3. DOMAIN data.labels \subseteq Nat
    BY DEF Labels
  <2>. QED BY <2>1, <2>2, <2>3
<1>2. Min(I) \in I /\ \A j \in I : Min(I) <= j
  <2>. HIDE DEF I
  <2>. QED BY <1>1, NatMin
<1>3. DOMAIN data.labels = 1 .. Len(data.labels) /\ Len(data.labels) \in Nat
  BY DEF Labels
<1>. DEFINE i == Min(I)
<1>4. i \in DOMAIN data.labels /\ data.labels[i].name = text
  BY <1>2
<1>5. ASSUME NEW j \in 1 .. i - 1
      PROVE  data.labels[j].name # text
  <2>1. j \in DOMAIN data.labels /\ ~(i <= j)
    <3>. HIDE DEF i
    <3>. QED BY <1>3, <1>4
  <2>2. j \notin I
    BY <1>2, <2>1
  <2>. QED BY <2>1, <2>2
<1>. QED BY <1>1, <1>4, <1>5

IsRead(result, memory, a, size, count) ==
  /\ result.address = a
  /\ Len(result.elements) = count
  /\ Fits(a, size * count) => Shows(result.elements, memory, a, size)

LEMMA ElementsRead ==
  ASSUME NEW memory \in Memory, NEW a \in Nat, NEW size \in {1, 2, 4},
         NEW count \in Nat, count # 0
  PROVE  IsRead(Evaluated(memory, a, size, count), memory, a, size, count)
<1>. DEFINE n == size * count  bytes == ReadBytes(memory, a, n)
            elements == [i \in 1 .. count |-> LittleEndian(bytes, i, size)]
<1>1. n \in Nat
  OBVIOUS
<1>2. bytes \in Seq(Byte) /\ Len(bytes) = n
  BY <1>1, BytesRead
<1>3. Evaluated(memory, a, size, count) = [is |-> "result", address |-> a, elements |-> elements]
  BY DEF Evaluated, Result
<1>4. Fits(a, n) => \A j \in 1 .. n : bytes[j] = memory[a + j - 1]
  BY <1>1, WithinALine
<1>5. ASSUME NEW i \in 1 .. count, NEW k \in 1 .. size
      PROVE  /\ i * size + 1 - k \in 1 .. n
             /\ i * size + 1 - (size + 1 - k) = (i - 1) * size + k /\ (i - 1) * size + k \in 1 .. n
             /\ a + ((i - 1) * size + k) - 1 = a + (i - 1) * size + k - 1
  <2>1. CASE size = 1
    BY <2>1
  <2>2. CASE size = 2
    BY <2>2
  <2>3. CASE size = 4
    BY <2>3
  <2>. QED BY <2>1, <2>2, <2>3
<1>. HIDE DEF n, bytes
<1>6. ASSUME NEW i \in 1 .. count
      PROVE  /\ LittleEndian(bytes, i, size) \in Seq(Byte)
             /\ Len(LittleEndian(bytes, i, size)) = size
             /\ \A k \in 1 .. size : LittleEndian(bytes, i, size)[k] = bytes[i * size + 1 - k]
  <2>1. ASSUME NEW k \in 1 .. size
        PROVE  bytes[i * size + 1 - k] \in Byte
    <3>. DEFINE h == i * size + 1 - k
    <3>1. h \in 1 .. n
      BY <1>5
    <3>. HIDE DEF h
    <3>2. bytes[h] \in Byte
      BY <1>2, <3>1
    <3>. QED BY <3>2 DEF h
  <2>2. size \in Nat
    OBVIOUS
  <2>. QED BY <2>1, <2>2 DEF LittleEndian
<1>7. /\ elements \in Seq(Seq(Byte)) /\ Len(elements) = count
      /\ \A i \in 1 .. count : elements[i] = LittleEndian(bytes, i, size)
  BY <1>6
<1>. HIDE DEF elements
<1>8. ASSUME Fits(a, n), NEW i \in 1 .. count
      PROVE  /\ Len(elements[i]) = size
             /\ \A k \in 1 .. size : elements[i][size + 1 - k] = memory[a + (i - 1) * size + k - 1]
  <2>1. Len(elements[i]) = size
    BY <1>6, <1>7
  <2>2. ASSUME NEW k \in 1 .. size
        PROVE  elements[i][size + 1 - k] = memory[a + (i - 1) * size + k - 1]
    <3>. DEFINE h == size + 1 - k  j == (i - 1) * size + k
    <3>1. h \in 1 .. size
      OBVIOUS
    <3>2. i * size + 1 - h = j /\ j \in 1 .. n /\ a + j - 1 = a + (i - 1) * size + k - 1
      BY <1>5
    <3>. HIDE DEF h, j
    <3>3. elements[i][h] = bytes[i * size + 1 - h]
      BY <1>6, <1>7, <3>1
    <3>4. bytes[j] = memory[a + j - 1]
      BY <1>4, <1>8, <3>2
    <3>. QED BY <3>2, <3>3, <3>4 DEF h
  <2>. QED BY <2>1, <2>2
<1>9. DOMAIN elements = 1 .. count
  BY <1>7
<1>10. Fits(a, n) => Shows(elements, memory, a, size)
  BY <1>8, <1>9 DEF Shows
<1>. QED BY <1>3, <1>7, <1>10 DEF IsRead, n

(***************************************************************************)
(* What an evaluation shows is what is in memory, for every memory, every  *)
(* expression and every list of labels: the address is that of the         *)
(* expression, there are as many elements as were asked for, 256 at most,  *)
(* and each is the bytes that are there, the least significant first --    *)
(* as long as anything is shown and what is shown does not leave the line  *)
(* of the cache (evaluate_expression(), MemoryCache::read()).              *)
(***************************************************************************)
THEOREM EvaluationShowsMemory ==
  ASSUME NEW memory \in Memory, NEW texts, NEW data, data.labels \in Labels(texts),
         \A i \in DOMAIN data.labels : data.labels[i].name # Overwritten.text,
         NEW e \in Expressions(texts), NEW r \in Evaluate(memory, data, e),
         r.is = "result", r # NoResult
  PROVE  /\ Means(data, e.name, r.address)
         /\ Len(r.elements) = IF e.count > 256 THEN 256 ELSE e.count
         /\ Fits(r.address, Size(e.type) * Len(r.elements)) =>
              Shows(r.elements, memory, r.address, Size(e.type))
<1>. DEFINE count == IF e.count > MaxElements THEN MaxElements ELSE e.count
            size == Size(e.type)
<1>1. Matches(e) /\ e.type \notin {"B", "W", "Q"}
  <2>1. Matches(e)
    BY DEF Evaluate
  <2>2. CASE e.type \in {"B", "W", "Q"}
    <3>1. r = [is |-> "logic_error"]
      BY <2>1, <2>2 DEF Evaluate
    <3>. QED BY <3>1
  <2>. QED BY <2>1, <2>2
<1>2. PICK name \in {e.name, Overwritten} :
        r = IF AddressOf(data, name) = -1 THEN NoResult
            ELSE Evaluated(memory, AddressOf(data, name), size, count)
  BY <1>1 DEF Evaluate
<1>3. AddressOf(data, name) # -1 /\ r = Evaluated(memory, AddressOf(data, name), size, count)
  BY <1>2
<1>4. size \in {1, 2, 4}
  <2>1. e.type \in {"none", "b", "w", "q"}
    BY <1>1 DEF Expressions
  <2>. QED BY <2>1 DEF Size
<1>5. count \in Nat /\ count = IF e.count > 256 THEN 256 ELSE e.count
  BY DEF Expressions, MaxElements
<1>6. count # 0
  BY <1>3 DEF Evaluated
<1>7. Means(data, e.name, AddressOf(data, name)) /\ AddressOf(data, name) \in Nat
  <2>1. e.name \in Names(texts)
    BY DEF Expressions
  <2>2. CASE name.is = "address"
    <3>1. name = e.name
      BY <2>2 DEF Overwritten
    <3>2. AddressOf(data, name) = name.at
      BY <2>2 DEF AddressOf
    <3>3. name.at \in Nat
      BY <2>1, <2>2, <3>1 DEF Names
    <3>. QED BY <2>2, <3>1, <3>2, <3>3 DEF Means
  <2>3. CASE name.is = "label"
    <3>. DEFINE entry == GetLabelInfo(data, name.text)
    <3>1. entry # None /\ AddressOf(data, name) = entry.address
      BY <1>3, <2>3 DEF AddressOf
    <3>2. PICK i \in DOMAIN data.labels :
            /\ entry = data.labels[i] /\ data.labels[i].name = name.text
            /\ \A j \in 1 .. i - 1 : data.labels[j].name # name.text
      BY <3>1, LabelFound
    <3>3. name = e.name
      BY <3>2
    <3>4. data.labels[i].address \in Nat
      BY LabelTyped
    <3>. QED BY <2>3, <3>1, <3>2, <3>3, <3>4 DEF Means
  <2>4. name.is \in {"address", "label"}
    BY <2>1 DEF Names, Overwritten
  <2>. QED BY <2>2, <2>3, <2>4
<1>. DEFINE at == AddressOf(data, name)
<1>. HIDE DEF at, count, size
<1>8. /\ r.address = at /\ Len(r.elements) = count
      /\ Fits(at, size * count) => Shows(r.elements, memory, at, size)
  <2>1. r = Evaluated(memory, at, size, count) /\ at \in Nat /\ count \in Nat /\ count # 0
    BY <1>3, <1>5, <1>6, <1>7 DEF at
  <2>2. IsRead(Evaluated(memory, at, size, count), memory, at, size, count)
    BY <1>4, <2>1, ElementsRead
  <2>. QED BY <2>1, <2>2 DEF IsRead
<1>. QED BY <1>5, <1>7, <1>8 DEF at, size


-----------------------------------------------------------------------------
(***************************************************************************)
(* Debug symbols.                                                          *)
(***************************************************************************)
Addresses == 0 .. MaxInt
Entries   == [is : {"piece"}, start : Addresses, end : Addresses, file : Int,
              line1 : Int, line2 : Int]
Blocks    == [entries : Seq(Entries), min : Int, max : Int]

Files(paths) == Seq([is : {"file"}, path : paths])

\* The documents without a row that cannot be parsed.
Documents(paths, texts) ==
  [files : Files(paths), segments : Seq(Seq(Seq(Entries))), labels : Labels(texts)]

\* No address is in two pieces of code that differ.
Disjoint(doc) ==
  \A s, s2 \in DOMAIN doc.segments :
  \A b \in DOMAIN doc.segments[s], b2 \in DOMAIN doc.segments[s2] :
  \A i \in DOMAIN doc.segments[s][b], i2 \in DOMAIN doc.segments[s2][b2] :
  \A a \in Addresses :
    Covers(doc.segments[s][b][i], a) /\ Covers(doc.segments[s2][b2][i2], a) =>
      doc.segments[s][b][i] = doc.segments[s2][b2][i2]

\* An entry of a block that is searched for an address.
IsEntry(entry, block)  == \E i \in DOMAIN block.entries : entry = block.entries[i]
IsBlockOf(block, data) == \E s \in DOMAIN data.segments :
                          \E b \in DOMAIN data.segments[s] : block = data.segments[s][b]
IsEntryOf(entry, data) == \E block \in Blocks : IsBlockOf(block, data) /\ IsEntry(entry, block)

LEMMA LeastPosition ==
  ASSUME NEW R, NEW list \in Seq(R), NEW P \in SUBSET DOMAIN list, P # {}
  PROVE  Min(P) \in P /\ Min(P) \in DOMAIN list /\ list[Min(P)] \in R
<1>1. P \in SUBSET Nat
  OBVIOUS
<1>2. Min(P) \in P
  BY <1>1, NatMin
<1>. DEFINE m == Min(P)
<1>3. m \in P /\ m \in DOMAIN list
  BY <1>2
<1>. HIDE DEF m
<1>4. list[m] \in R
  BY <1>3
<1>. QED BY <1>3, <1>4 DEF m

LEMMA BlockEntryIs ==
  ASSUME NEW data, data.segments \in Seq(Seq(Blocks)), NEW a \in Int,
         NEW block \in Blocks, IsBlockOf(block, data), InRange(block, a),
         NEW entry, IsEntry(entry, block), Covers(entry, a)
  PROVE  IsEntryOf(GetBlockEntry(data, a), data) /\ Covers(GetBlockEntry(data, a), a)
<1>. DEFINE segs == data.segments
            Cov(e) == Covers(e, a)
            Has(b) == InRange(b, a) /\ \E i \in DOMAIN b.entries : Cov(b.entries[i])
            HasB(s) == \E b \in DOMAIN s : Has(s[b])
            S == {s \in DOMAIN segs : HasB(segs[s])}
            seg == segs[Min(S)]
            B == {b \in DOMAIN seg : Has(seg[b])}
            blk == seg[Min(B)]
            I == {i \in DOMAIN blk.entries : Cov(blk.entries[i])}
<1>1. S # {} /\ S \in SUBSET DOMAIN segs
  <2>1. Has(block)
    BY DEF IsEntry
  <2>2. PICK s \in DOMAIN segs : \E b \in DOMAIN segs[s] : block = segs[s][b]
    BY DEF IsBlockOf
  <2>3. s \in S
    BY <2>1, <2>2
  <2>. QED BY <2>3
<1>2. Min(S) \in S /\ seg \in Seq(Blocks)
  <2>. HIDE DEF S
  <2>. QED BY <1>1, LeastPosition
<1>3. B # {} /\ B \in SUBSET DOMAIN seg
  <2>1. HasB(seg)
    BY <1>2
  <2>. HIDE DEF seg
  <2>. QED BY <2>1
<1>4. Min(B) \in B /\ blk \in Blocks
  <2>. HIDE DEF seg, B
  <2>. QED BY <1>2, <1>3, LeastPosition
<1>5. I # {} /\ I \in SUBSET DOMAIN blk.entries
  <2>1. Has(blk)
    BY <1>4
  <2>. HIDE DEF blk
  <2>. QED BY <2>1
<1>6. Min(I) \in I
  <2>1. blk.entries \in Seq(Entries)
    <3>. HIDE DEF blk
    <3>. QED BY <1>4 DEF Blocks
  <2>. HIDE DEF I, blk
  <2>. QED BY <1>5, <2>1, LeastPosition
<1>7. GetBlockEntry(data, a) = blk.entries[Min(I)]
  BY <1>1, <1>3, <1>5 DEF GetBlockEntry, FirstEntry, First, Some, Covers, InRange
<1>. QED BY <1>2, <1>4, <1>6, <1>7 DEF IsEntryOf, IsBlockOf, IsEntry

LEMMA LineEntryIs ==
  ASSUME NEW data, data.segments \in Seq(Seq(Blocks)), NEW path, NEW line \in Int,
         EvalBreakpointLine(data, path, line) # None
  PROVE  /\ ~(GetFileIndex(data, path) < 0)
         /\ IsEntryOf(EvalBreakpointLine(data, path, line), data)
         /\ Spans(EvalBreakpointLine(data, path, line), GetFileIndex(data, path), line)
<1>. DEFINE file == GetFileIndex(data, path)
            segs == data.segments
            IsBlock(b) == TRUE
            Has(b) == IsBlock(b) /\ \E i \in DOMAIN b.entries : Spans(b.entries[i], file, line)
            HasB(s) == \E b \in DOMAIN s : Has(s[b])
            S == {s \in DOMAIN segs : HasB(segs[s])}
            seg == segs[Min(S)]
            B == {b \in DOMAIN seg : Has(seg[b])}
            blk == seg[Min(B)]
            I == {i \in DOMAIN blk.entries : Spans(blk.entries[i], file, line)}
<1>1. ~(file < 0) /\ S # {} /\ S \in SUBSET DOMAIN segs
  BY DEF EvalBreakpointLine, FirstEntry, First, Some, Spans
<1>2. Min(S) \in S /\ seg \in Seq(Blocks)
  <2>. HIDE DEF S
  <2>. QED BY <1>1, LeastPosition
<1>3. B # {} /\ B \in SUBSET DOMAIN seg
  <2>1. HasB(seg)
    BY <1>2
  <2>. HIDE DEF seg
  <2>. QED BY <2>1
<1>4. Min(B) \in B /\ blk \in Blocks
  <2>. HIDE DEF seg, B
  <2>. QED BY <1>2, <1>3, LeastPosition
<1>5. I # {} /\ I \in SUBSET DOMAIN blk.entries
  <2>1. Has(blk)
    BY <1>4
  <2>. HIDE DEF blk
  <2>. QED BY <2>1
<1>6. Min(I) \in I
  <2>1. blk.entries \in Seq(Entries)
    <3>. HIDE DEF blk
    <3>. QED BY <1>4 DEF Blocks
  <2>. HIDE DEF I, blk
  <2>. QED BY <1>5, <2>1, LeastPosition
<1>7. EvalBreakpointLine(data, path, line) = blk.entries[Min(I)]
  BY <1>1, <1>3, <1>5 DEF EvalBreakpointLine, FirstEntry, First, Some, Spans
<1>. QED BY <1>1, <1>2, <1>4, <1>6, <1>7 DEF IsEntryOf, IsBlockOf, IsEntry

(***************************************************************************)
(* A block's least and greatest address take in all of its entries.        *)
(***************************************************************************)
LEMMA Bounds ==
  ASSUME NEW rows \in Seq(Entries)
  PROVE  /\ ParseBlock(rows) \in Blocks /\ ParseBlock(rows).entries = rows
         /\ \A i \in DOMAIN rows, a \in Addresses :
              Covers(rows[i], a) => InRange(ParseBlock(rows), a)
<1>. DEFINE S == Starts(rows) \cup {MaxInt}
            E == Ends(rows) \cup {-1}
            N == {MaxInt - e : e \in E}
<1>1. \A e \in Rows(rows) : e \in Entries
  BY DEF Rows, ToSet
<1>0. MaxInt \in Nat
  BY SMT DEF MaxInt
<1>2. S \in SUBSET Nat /\ MaxInt \in S
  <2>1. ASSUME NEW e \in Rows(rows)
        PROVE  e.start \in Nat
    BY <1>1 DEF Entries, Addresses
  <2>. QED BY <1>0, <2>1 DEF Starts
<1>3. Min(S) \in S /\ \A y \in S : Min(S) <= y
  <2>. HIDE DEF S
  <2>. QED BY <1>2, NatMin
<1>4. \A e \in E : e \in Int /\ e <= MaxInt
  <2>1. ASSUME NEW e \in Rows(rows)
        PROVE  e.end \in Int /\ e.end <= MaxInt
    BY <1>0, <1>1 DEF Entries, Addresses
  <2>2. -1 \in Int /\ -1 <= MaxInt
    BY <1>0
  <2>. QED BY <2>1, <2>2 DEF Ends
<1>5. N \in SUBSET Nat /\ N # {}
  <2>1. -1 \in E
    OBVIOUS
  <2>. HIDE DEF E
  <2>. QED BY <1>0, <1>4, <2>1
<1>6. Min(N) \in N /\ \A y \in N : Min(N) <= y
  <2>. HIDE DEF N
  <2>. QED BY <1>5, NatMin
<1>7. PICK top \in E : Min(N) = MaxInt - top
  BY <1>6
<1>8. \A e \in E : e <= top
  <2>. TAKE e \in E
  <2>1. MaxInt - e \in N
    OBVIOUS
  <2>2. MaxInt - top <= MaxInt - e
    BY <1>6, <1>7, <2>1
  <2>3. top \in Int /\ e \in Int /\ MaxInt \in Int
    BY <1>0, <1>4
  <2>. HIDE DEF E
  <2>. QED BY <2>2, <2>3
<1>9. Max(E) \in E /\ \A e \in E : e <= Max(E)
  <2>. HIDE DEF E
  <2>. QED BY <1>8 DEF Max
<1>10. ParseBlock(rows) = [entries |-> rows, min |-> Min(S), max |-> Max(E)]
  BY DEF ParseBlock
<1>11. Min(S) \in Int /\ Max(E) \in Int
  BY <1>2, <1>3, <1>4, <1>9
<1>12. ASSUME NEW i \in DOMAIN rows, NEW a \in Addresses, Covers(rows[i], a)
       PROVE  Min(S) <= a /\ a <= Max(E)
  <2>1. rows[i] \in Rows(rows) /\ rows[i] \in Entries
    BY DEF Rows, ToSet
  <2>2. rows[i].start \in S /\ rows[i].end \in E
    BY <2>1 DEF Starts, Ends
  <2>3. rows[i].start \in Int /\ rows[i].end \in Int /\ a \in Int
    BY <2>1 DEF Entries, Addresses
  <2>4. Min(S) <= rows[i].start /\ rows[i].end <= Max(E)
    BY <1>3, <1>9, <2>2
  <2>5. rows[i].start <= a /\ a <= rows[i].end
    BY <1>12 DEF Covers
  <2>. HIDE DEF S, E
  <2>. QED BY <1>11, <2>3, <2>4, <2>5
<1>. HIDE DEF S, E
<1>13. ParseBlock(rows) \in Blocks /\ ParseBlock(rows).entries = rows
  BY <1>10, <1>11 DEF Blocks
<1>. QED BY <1>10, <1>12, <1>13 DEF InRange

LEMMA Loaded ==
  ASSUME NEW paths, NEW texts, NEW doc \in Documents(paths, texts)
  PROVE  /\ Load(doc).segments \in Seq(Seq(Blocks))
         /\ DOMAIN Load(doc).segments = DOMAIN doc.segments
         /\ \A s \in DOMAIN doc.segments :
              /\ DOMAIN Load(doc).segments[s] = DOMAIN doc.segments[s]
              /\ \A b \in DOMAIN doc.segments[s] :
                   /\ doc.segments[s][b] \in Seq(Entries)
                   /\ Load(doc).segments[s][b] = ParseBlock(doc.segments[s][b])
<1>. DEFINE segments == doc.segments
            Loads(segment) == [b \in DOMAIN segment |-> ParseBlock(segment[b])]
            loaded == [s \in DOMAIN segments |-> Loads(segments[s])]
<1>1. segments \in Seq(Seq(Seq(Entries))) /\ Load(doc).segments = loaded
  BY DEF Documents, Load
<1>2. ASSUME NEW segment \in Seq(Seq(Entries))
      PROVE  /\ Loads(segment) \in Seq(Blocks)
             /\ DOMAIN Loads(segment) = DOMAIN segment
             /\ \A b \in DOMAIN segment :
                  segment[b] \in Seq(Entries) /\ Loads(segment)[b] = ParseBlock(segment[b])
  <2>1. \A b \in DOMAIN segment : segment[b] \in Seq(Entries)
    OBVIOUS
  <2>2. \A b \in DOMAIN segment : ParseBlock(segment[b]) \in Blocks
    BY <2>1, Bounds
  <2>. QED BY <2>1, <2>2
<1>. HIDE DEF segments, Loads
<1>3. \A s \in DOMAIN segments : segments[s] \in Seq(Seq(Entries))
  BY <1>1
<1>4. \A s \in DOMAIN segments : Loads(segments[s]) \in Seq(Blocks)
  BY <1>2, <1>3
<1>5. loaded \in Seq(Seq(Blocks)) /\ DOMAIN loaded = DOMAIN segments
  <2>. DEFINE R == Seq(Blocks)  R0 == Seq(Seq(Entries))
  <2>1. segments \in Seq(R0) /\ \A s \in DOMAIN segments : Loads(segments[s]) \in R
    BY <1>1, <1>4
  <2>. HIDE DEF R, R0
  <2>2. loaded \in Seq(R) /\ DOMAIN loaded = DOMAIN segments
    BY <2>1
  <2>. QED BY <2>2 DEF R
<1>6. \A s \in DOMAIN segments : loaded[s] = Loads(segments[s])
  OBVIOUS
<1>. HIDE DEF loaded
<1>7. ASSUME NEW s \in DOMAIN segments
      PROVE  /\ DOMAIN loaded[s] = DOMAIN segments[s]
             /\ \A b \in DOMAIN segments[s] :
                  segments[s][b] \in Seq(Entries) /\ loaded[s][b] = ParseBlock(segments[s][b])
  BY <1>2, <1>3, <1>6
<1>. QED BY <1>1, <1>5, <1>7 DEF segments

LEMMA FileFound ==
  ASSUME NEW paths, NEW data, data.files \in Files(paths), NEW path,
         ~(GetFileIndex(data, path) < 0)
  PROVE  /\ GetFileIndex(data, path) \in DOMAIN data.files
         /\ data.files[GetFileIndex(data, path)].path = path
<1>. DEFINE I == {i \in DOMAIN data.files : data.files[i].path = path}
<1>1. I # {} /\ GetFileIndex(data, path) = Min(I) /\ I \in SUBSET DOMAIN data.files
  BY DEF GetFileIndex, Files
<1>2. Min(I) \in I
  <2>1. data.files \in Seq([is : {"file"}, path : paths])
    BY DEF Files
  <2>. HIDE DEF I
  <2>. QED BY <1>1, <2>1, LeastPosition
<1>. QED BY <1>1, <1>2

(***************************************************************************)
(* A breakpoint is set at the first address of a piece of code of the file *)
(* that was named, of which the lines take in the one that was asked for,  *)
(* and its first line is what the client is told and what it is shown      *)
(* wherever the program stops in the piece.  This is so for every document *)
(* that can be loaded and in which no address is in two different pieces,  *)
(* however they are distributed over segments and blocks                   *)
(* (set_breakpoint(), get_current_source_position()).                      *)
(***************************************************************************)
THEOREM BreakpointsAreFound ==
  ASSUME NEW paths, NEW texts, NEW doc \in Documents(paths, texts), Parses(doc), Disjoint(doc),
         NEW path, NEW line \in Int, EvalBreakpointLine(Load(doc), path, line) # None
  PROVE  LET piece == EvalBreakpointLine(Load(doc), path, line)
             set   == BreakpointAt(Load(doc), path, line)
         IN  /\ piece.file \in DOMAIN doc.files /\ doc.files[piece.file].path = path
             /\ piece.line1 <= line /\ line <= piece.line2
             /\ set = [path |-> path, line |-> piece.line1, pc |-> piece.start]
             /\ \A a \in Addresses : Covers(piece, a) =>
                  SourcePosition(Load(doc), a) = [path |-> set.path, line |-> set.line]
<1>. DEFINE data == Load(doc)
            file == GetFileIndex(data, path)
            entry == EvalBreakpointLine(data, path, line)
            set == BreakpointAt(data, path, line)
<1>1. /\ data.segments \in Seq(Seq(Blocks))
      /\ DOMAIN data.segments = DOMAIN doc.segments
      /\ \A s \in DOMAIN doc.segments :
           /\ DOMAIN data.segments[s] = DOMAIN doc.segments[s]
           /\ \A b \in DOMAIN doc.segments[s] :
                /\ doc.segments[s][b] \in Seq(Entries)
                /\ data.segments[s][b] = ParseBlock(doc.segments[s][b])
  BY Loaded
<1>2. data.files = doc.files /\ doc.files \in Files(paths)
  BY DEF Load, Documents
<1>3. entry # None
  OBVIOUS
<1>. HIDE DEF data
<1>4. ~(file < 0) /\ IsEntryOf(entry, data) /\ Spans(entry, file, line)
  BY <1>1, <1>3, LineEntryIs
<1>5. file \in DOMAIN doc.files /\ doc.files[file].path = path
  BY <1>2, <1>4, FileFound
<1>. HIDE DEF file, entry
<1>6. entry.file = file /\ entry.line1 <= line /\ line <= entry.line2
  BY <1>4 DEF Spans
<1>7. ASSUME NEW block, IsBlockOf(block, data), NEW f, IsEntry(f, block)
      PROVE  \E s \in DOMAIN doc.segments : \E b \in DOMAIN doc.segments[s] :
             \E i \in DOMAIN doc.segments[s][b] :
               /\ f = doc.segments[s][b][i]
               /\ \A a \in Addresses : Covers(f, a) => InRange(block, a)
  <2>1. PICK s \in DOMAIN data.segments :
          \E b \in DOMAIN data.segments[s] : block = data.segments[s][b]
    BY <1>7 DEF IsBlockOf
  <2>2. PICK b \in DOMAIN data.segments[s] : block = data.segments[s][b]
    BY <2>1
  <2>3. s \in DOMAIN doc.segments /\ b \in DOMAIN doc.segments[s]
    BY <1>1
  <2>. DEFINE rows == doc.segments[s][b]
  <2>4. rows \in Seq(Entries) /\ block = ParseBlock(rows)
    BY <1>1, <2>2, <2>3
  <2>. HIDE DEF rows
  <2>5. /\ block.entries = rows
        /\ \A i \in DOMAIN rows, a \in Addresses : Covers(rows[i], a) => InRange(block, a)
    BY <2>4, Bounds
  <2>6. PICK i \in DOMAIN rows : f = rows[i]
    BY <1>7, <2>5 DEF IsEntry
  <2>. QED BY <2>3, <2>5, <2>6 DEF rows
<1>8. ASSUME NEW f, IsEntryOf(f, data), NEW g, IsEntryOf(g, data),
             NEW a \in Addresses, Covers(f, a), Covers(g, a)
      PROVE  f = g
  <2>1. ASSUME NEW h, IsEntryOf(h, data)
        PROVE  \E s \in DOMAIN doc.segments : \E b \in DOMAIN doc.segments[s] :
               \E i \in DOMAIN doc.segments[s][b] : h = doc.segments[s][b][i]
    BY <1>7, <2>1 DEF IsEntryOf
  <2>. QED BY <1>8, <2>1 DEF Disjoint
<1>9. ASSUME NEW a \in Addresses, Covers(entry, a)
      PROVE  GetBlockEntry(data, a) = entry
  <2>1. PICK block \in Blocks : IsBlockOf(block, data) /\ IsEntry(entry, block)
    BY <1>4 DEF IsEntryOf
  <2>2. a \in Int /\ InRange(block, a)
    BY <1>7, <1>9, <2>1 DEF Addresses
  <2>3. IsEntryOf(GetBlockEntry(data, a), data) /\ Covers(GetBlockEntry(data, a), a)
    BY <1>1, <1>9, <2>1, <2>2, BlockEntryIs
  <2>. QED BY <1>4, <1>8, <1>9, <2>3
<1>10. set = [path |-> path, line |-> entry.line1, pc |-> entry.start]
  BY <1>3 DEF BreakpointAt, entry
<1>. HIDE DEF set
<1>11. ASSUME NEW a \in Addresses, Covers(entry, a)
       PROVE  SourcePosition(data, a) = [path |-> set.path, line |-> set.line]
  <2>1. SourcePosition(data, a) = [path |-> data.files[entry.file].path, line |-> entry.line1]
    BY <1>3, <1>9, <1>11 DEF SourcePosition
  <2>2. data.files[entry.file].path = path
    BY <1>2, <1>5, <1>6
  <2>. QED BY <1>10, <2>1, <2>2
<1>. QED BY <1>5, <1>6, <1>10, <1>11 DEF data, file, entry, set
================================================================================
