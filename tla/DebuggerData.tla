------------------------------ MODULE DebuggerData -----------------------------
(***************************************************************************)
(* The debug symbols (c64_debugger_data.cpp): the files, blocks of code    *)
(* and labels of a .dbg file, and the searches in them.                    *)
(*                                                                         *)
(* A document is the rows of its lists: a file's path; [start, end, file,  *)
(* line1, line2] of a piece of code; [name, address] of a label.  A row    *)
(* that cannot be parsed is Broken; a list that is missing or announces    *)
(* other columns is NoList; one without a row is an element without text.  *)
(***************************************************************************)
EXTENDS Integers, Sequences, SequencesExt, FiniteSetsExt

Broken == [is |-> "broken"]
NoList == <<Broken>>

Rows(list) == ToSet(list)

(***************************************************************************)
(* parse_block(): with the entries go the least and the greatest address.  *)
(***************************************************************************)
MaxInt == 2147483647
Starts(rows) == {e.start : e \in Rows(rows)}
Ends(rows)   == {e.end : e \in Rows(rows)}


ParseBlock(rows) ==
  [entries |-> rows, min |-> Min(Starts(rows) \cup {MaxInt}), max |-> Max(Ends(rows) \cup {-1})]

(***************************************************************************)
(* The constructor returns only if all parts of the document are parsed.   *)
(* GetText() of an element without text is null, which makes the stream    *)
(* throw, or end the program, as the standard library has it: no list can  *)
(* be empty, though a document may have no segment and a segment no block. *)
(***************************************************************************)
ParsesList(list) == list # <<>> /\ Broken \notin Rows(list)

Parses(doc) ==
  /\ ParsesList(doc.files)
  /\ \A s \in Rows(doc.segments) : \A b \in Rows(s) : ParsesList(b)
  /\ ParsesList(doc.labels)

Load(doc) ==
  [files    |-> doc.files,      \* in the order of their index
   segments |-> [s \in DOMAIN doc.segments |->
                   [b \in DOMAIN doc.segments[s] |-> ParseBlock(doc.segments[s][b])]],
   labels   |-> doc.labels]

-----------------------------------------------------------------------------
None == [is |-> "none"]

Some(list, Test(_))  == \E i \in DOMAIN list : Test(list[i])
First(list, Test(_)) == IF Some(list, Test) THEN list[Min({i \in DOMAIN list : Test(list[i])})]
                        ELSE None

(***************************************************************************)
(* The loops over segments, blocks and entries: the first entry that is    *)
(* looked for, in the first block with one that the loop does not skip.    *)
(***************************************************************************)
FirstEntry(segments, IsIn(_), Test(_)) ==
  LET Has(b)      == IsIn(b) /\ Some(b.entries, Test)
      HasBlock(s) == Some(s, Has)
  IN IF Some(segments, HasBlock)
     THEN First(First(First(segments, HasBlock), Has).entries, Test) ELSE None

(***************************************************************************)
(* get_block_entry(): an entry that covers an address, in a block whose    *)
(* addresses range over it.                                                *)
(***************************************************************************)
InRange(block, a) == block.min <= a /\ a <= block.max
Covers(entry, a)  == entry.start <= a /\ a <= entry.end

GetBlockEntry(data, a) ==
  LET IsIn(block)    == InRange(block, a)
      Reaches(entry) == Covers(entry, a)
  IN FirstEntry(data.segments, IsIn, Reaches)

(***************************************************************************)
(* get_file_index(): the first file that is the one asked for, or -1.      *)
(***************************************************************************)
GetFileIndex(data, path) ==
  LET found == {i \in DOMAIN data.files : data.files[i].path = path}
  IN IF found = {} THEN -1 ELSE Min(found)

Spans(entry, file, line) == entry.file = file /\ entry.line1 <= line /\ line <= entry.line2

EvalBreakpointLine(data, path, line) ==
  LET file           == GetFileIndex(data, path)
      IsBlock(block) == TRUE
      IsAt(entry)    == Spans(entry, file, line)
  IN IF file < 0 THEN None ELSE FirstEntry(data.segments, IsBlock, IsAt)

-----------------------------------------------------------------------------
(***************************************************************************)
(* What M65Debugger makes of an entry: the breakpoint it sets, and what it *)
(* shows the client of a program counter.  Both have the entry's first     *)
(* line, whichever of its lines was asked for.                             *)
(***************************************************************************)
BreakpointAt(data, path, line) ==
  LET entry == EvalBreakpointLine(data, path, line)
  IN IF entry = None THEN None
     ELSE [path |-> path, line |-> entry.line1, pc |-> entry.start]

SourcePosition(data, pc) ==
  LET entry == GetBlockEntry(data, pc)
  IN IF entry = None THEN [path |-> "", line |-> 0]
     ELSE [path |-> data.files[entry.file].path, line |-> entry.line1]

-----------------------------------------------------------------------------
GetLabelInfo(data, label) == LET Named(l) == l.name = label IN First(data.labels, Named)
=============================================================================
