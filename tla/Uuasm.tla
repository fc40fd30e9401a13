------------------------------- MODULE Uuasm -------------------------------
(***************************************************************************)
(* The assembler of ussr_uuasm.c: a text of directives, labels and         *)
(* instructions becomes a bytecode program in one pass, with the jumps to  *)
(* labels patched at the end.                                              *)
(*                                                                         *)
(* A line is what uuasm_tokenize makes of it: a record whose k says which  *)
(* branch of the loop takes it.  A "word" is a line of one token without a *)
(* colon, an "odd" line one no branch accepts.                             *)
(***************************************************************************)
EXTENDS Integers, Sequences, SequencesExt, FiniteSets

CONSTANT MaxCode            \* USSR_BC_MAX_CODE

Empty == [code |-> <<>>, constants |-> <<>>, strings |-> <<>>, functions |-> <<>>,
          labels |-> <<>>, fixups |-> <<>>, header |-> FALSE, ok |-> TRUE]
Failed(p) == [p EXCEPT !.ok = FALSE]
When(guard, p, q) == IF guard THEN q ELSE Failed(p)

uuasm_add_label(p, name) ==
  When(p.header /\ ~\E i \in DOMAIN p.labels : p.labels[i].name = name, p,
       [p EXCEPT !.labels = Append(@, [name |-> name, address |-> Len(p.code)])])

uuasm_find_label(p, name) ==
  LET at == SelectInSeq(p.labels, LAMBDA l : l.name = name)
  IN IF at = 0 THEN Len(p.code) ELSE p.labels[at].address

(* The index a directive names must be the next free one of its pool.      *)
uuasm_parse_constant(p, line) ==
  When(p.header /\ line.index = Len(p.constants) /\ Len(p.constants) < MaxCode, p,
       [p EXCEPT !.constants = Append(@, line.value)])
uuasm_add_string_at(p, line) ==
  When(p.header /\ line.index = Len(p.strings) /\ Len(p.strings) < MaxCode, p,
       [p EXCEPT !.strings = Append(@, line.text)])
uuasm_parse_function(p, line) ==
  When(p.header /\ ~\E i \in DOMAIN p.functions : p.functions[i].name = line.name, p,
       [p EXCEPT !.functions = Append(@, [name |-> line.name, entry |-> line.entry])])

Jumps == {"JMP", "JMP_TRUE", "JMP_FALSE"}
Room(p) == p.header /\ Len(p.code) < MaxCode
uuasm_add_fixup(p, line) ==
  When(Room(p) /\ line.opcode \in Jumps, p,
       [p EXCEPT !.code = Append(@, [opcode |-> line.opcode, immediate |-> 0]),
                 !.fixups = Append(@, [instruction |-> Len(p.code) + 1, name |-> line.label])])
Instruction(p, line) ==
  When(Room(p), p,
       [p EXCEPT !.code = Append(@, [opcode |-> line.opcode, immediate |-> line.immediate])])

Line(p, line) ==
  IF ~p.ok THEN p ELSE
  CASE line.k = "label" -> uuasm_add_label(p, line.name)
    [] line.k = "word" -> p                  \* neither a label nor anything else
    [] line.k = "const" -> uuasm_parse_constant(p, line)
    [] line.k = "string" -> uuasm_add_string_at(p, line)
    [] line.k = "function" -> uuasm_parse_function(p, line)
    [] line.k = "header" -> When(~p.header, p, [p EXCEPT !.header = TRUE])
    [] line.k = "jump" -> uuasm_add_fixup(p, line)
    [] line.k = "instruction" -> Instruction(p, line)
    [] OTHER -> Failed(p)

PatchJumps(p) ==
  When(\A i \in DOMAIN p.fixups : uuasm_find_label(p, p.fixups[i].name) < Len(p.code), p,
       [p EXCEPT !.code = FoldLeft(
          LAMBDA c, f : [c EXCEPT ![f.instruction].immediate = uuasm_find_label(p, f.name)],
          p.code, p.fixups)])
ResolveEntries(p) ==
  When(\A i \in DOMAIN p.functions : uuasm_find_label(p, p.functions[i].entry) < Len(p.code), p,
       [p EXCEPT !.functions =
          [i \in DOMAIN @ |-> [name |-> @[i].name, entry |-> uuasm_find_label(p, @[i].entry)]]])
EndsWithHalt(p) == When(p.code # <<>> /\ Last(p.code).opcode = "HALT", p, p)

ussr_uuasm_assemble(lines) ==
  LET p == FoldLeft(Line, Empty, lines) IN
  IF ~p.ok \/ ~p.header THEN Failed(p)
  ELSE LET q == PatchJumps(p) IN
       IF ~q.ok THEN q
       ELSE LET f == ResolveEntries(q) IN IF ~f.ok THEN f ELSE EndsWithHalt(f)
-----------------------------------------------------------------------------
(* What the text means, read off the lines themselves.                     *)

Emits(line) == line.k \in {"instruction", "jump"}
Address(lines, i) == Cardinality({j \in 1..(i - 1) : Emits(lines[j])})
LabelsOf(lines, name) == {i \in DOMAIN lines : lines[i].k = "label" /\ lines[i].name = name}
Defined(lines, name) ==
  \E i \in LabelsOf(lines, name) : \E j \in DOMAIN lines : j > i /\ Emits(lines[j])
Target(lines, name) == Address(lines, CHOOSE i \in LabelsOf(lines, name) : TRUE)
Entries(lines, k) == SelectSeq(lines, LAMBDA l : l.k = k)
Numbered(lines, k) == LET e == Entries(lines, k) IN \A i \in DOMAIN e : e[i].index = i - 1

\* A text is good when it starts with its only header, every name is defined
\* once, every jump and entry has somewhere to go and the last instruction
\* stops the machine.
WellFormed(lines) ==
  LET real == SelectSeq(lines, LAMBDA l : l.k # "word")
      code == SelectSeq(lines, Emits)
      NamesOnce(k) == \A i, j \in DOMAIN real :
                        real[i].k = k /\ real[j].k = k /\ real[i].name = real[j].name => i = j
  IN /\ real # <<>> /\ real[1].k = "header" /\ Len(Entries(lines, "header")) = 1
     /\ Entries(lines, "odd") = <<>>
     /\ NamesOnce("label") /\ NamesOnce("function")
     /\ Numbered(lines, "const") /\ Numbered(lines, "string")
     /\ \A i \in DOMAIN real : real[i].k = "jump" =>
          real[i].opcode \in Jumps /\ Defined(lines, real[i].label)
     /\ \A i \in DOMAIN real : real[i].k = "function" => Defined(lines, real[i].entry)
     /\ code # <<>> /\ Last(code).opcode = "HALT"
     /\ Len(code) <= MaxCode /\ Len(Entries(lines, "const")) <= MaxCode
     /\ Len(Entries(lines, "string")) <= MaxCode

Meant(lines) ==
  LET code == SelectSeq(lines, Emits)
      functions == Entries(lines, "function")
  IN [code |-> [i \in DOMAIN code |->
        [opcode |-> code[i].opcode,
         immediate |-> IF code[i].k = "jump" THEN Target(lines, code[i].label)
                       ELSE code[i].immediate]],
      entries |-> [i \in DOMAIN functions |-> Target(lines, functions[i].entry)],
      constants |-> [i \in DOMAIN Entries(lines, "const") |-> Entries(lines, "const")[i].value],
      strings |-> [i \in DOMAIN Entries(lines, "string") |-> Entries(lines, "string")[i].text]]

Assembled(p) == [code |-> p.code, constants |-> p.constants, strings |-> p.strings,
                 entries |-> [i \in DOMAIN p.functions |-> p.functions[i].entry]]
=============================================================================
