------------------------------- MODULE RuFile -------------------------------
(***************************************************************************)
(* Compiled programs on disk: ussr_ru_write_file stores a bytecode program *)
(* as a stream of integers and strings, ussr_ru_read_file checks the       *)
(* stream and builds the program again (ussr_ru.c).                        *)
(*                                                                         *)
(* A file is a sequence of items: W bytes wide integers, tags and strings  *)
(* with a length before them.  The reader asks for one item after another, *)
(* so an item of another kind than the one asked for stands for the bytes  *)
(* being read at the wrong place.  The checksum is modelled by the items   *)
(* it was computed from: it matches exactly the stream it was made for.    *)
(***************************************************************************)
EXTENDS Integers, Sequences, SequencesExt, FiniteSets

CONSTANT MaxSyntaxDepth     \* RU_MAX_SYNTAX_DEPTH, 64 in the code

NullString == "NULL"        \* a missing name

Num(w, n) == [kind |-> "num", w |-> w, n |-> n, s |-> ""]
Tag(t) == [kind |-> "tag", w |-> 1, n |-> 0, s |-> t]
Str(s) == [kind |-> "str", w |-> IF s = NullString THEN 4 ELSE 5, n |-> 0, s |-> s]
Flag(b) == Num(1, IF b THEN 1 ELSE 0)

-----------------------------------------------------------------------------
(* The writer.  <<>> stands for a part that cannot be stored.              *)

Refused == <<>>
Joined(parts) == IF \E i \in DOMAIN parts : parts[i] = Refused
                   THEN Refused ELSE FlattenSeq(parts)
Mapped(s, Put(_)) == [i \in DOMAIN s |-> Put(s[i])]
Counted(w, s, Put(_)) == Joined(<<<<Num(w, Len(s))>>>> \o Mapped(s, Put))

ru_put_constant(v) ==
  CASE v.t = "null" -> <<Tag("null")>>
    [] v.t \in {"integer", "real"} -> <<Tag(v.t), Num(8, v.n)>>
    [] v.t = "boolean" -> <<Tag("boolean"), Num(1, v.n)>>
    [] v.t = "string" -> <<Tag("string"), Str(v.s)>>
    [] OTHER -> Refused

RECURSIVE ru_put_expression(_, _)
ru_put_expression(e, depth) ==
  IF depth > MaxSyntaxDepth THEN Refused ELSE
  CASE e.k = "value" -> Joined(<<<<Tag("value")>>, ru_put_constant(e.v)>>)
    [] e.k = "variable" -> <<Tag("variable"), Str(e.name)>>
    [] e.k = "binary" -> Joined(<<<<Tag("binary"), Num(1, e.op)>>,
                                  ru_put_expression(e.l, depth + 1),
                                  ru_put_expression(e.r, depth + 1)>>)
    [] e.k = "unary" -> Joined(<<<<Tag("unary"), Num(1, e.op)>>,
                                 ru_put_expression(e.l, depth + 1)>>)

RECURSIVE ru_put_block(_, _)
ru_put_node(a, depth) ==
  Joined(<<<<Tag(a.k), Flag(a.assignment)>>,
           CASE a.k = "value" -> ru_put_constant(a.v)
             [] a.k \in {"expression", "lookup"} -> ru_put_expression(a.e, depth)
             [] a.k = "uno" -> <<Str(a.text)>>
             [] a.k \in {"block", "advanced"} -> ru_put_block(a.list, depth + 1)>>)

ru_put_block(list, depth) ==
  IF depth > MaxSyntaxDepth THEN Refused ELSE
  Counted(4, list, LAMBDA c :
    Joined(<<<<Str(c.path), Str(c.name), Str(c.return_name)>>,
             Counted(1, c.arguments, LAMBDA a : ru_put_node(a, depth))>>))

(* Only a variable's name and a block go with a call site: the values the  *)
(* other arguments had are computed into registers by the code.            *)
ru_put_site(site) ==
  Joined(<<<<Num(4, site.instruction), Str(site.command.name),
             Str(site.command.return_name)>>,
           Counted(1, site.command.arguments, LAMBDA a :
             CASE a.k \in {"block", "advanced"} ->
                    Joined(<<<<Tag(a.k), Flag(a.assignment)>>, ru_put_block(a.list, 1)>>)
               [] a.k = "expression" /\ a.e.k = "variable" ->
                    <<Tag("variable"), Flag(a.assignment), Str(a.e.name)>>
               [] OTHER -> <<Tag("value"), Flag(a.assignment)>>)>>)

Width(items) == FoldLeft(LAMBDA n, x : n + x.w, 0, items)
Names(s) == Counted(4, s, LAMBDA x : <<Str(x)>>)

ru_put_function(f) ==
  Joined(<<<<Str(f.name), Str(f.return_name), Num(4, f.entry)>>,
           Names(f.parameters), Names(f.locals)>>)

(* The file is a record of its header, its payload and its checksum.       *)
ussr_ru_write_file(p) ==
  LET payload == Joined(
        <<Counted(4, p.code, LAMBDA i : <<Tag(i.opcode), Num(3, i.b), Num(4, i.immediate)>>),
          Counted(4, p.constants, ru_put_constant),
          Names(p.strings),
          Counted(4, p.functions, ru_put_function),
          Counted(4, p.oop_sites, ru_put_site),
          Counted(4, p.scan_sites, ru_put_site)>>)
  IN [written |-> payload # Refused, version |-> 3, abi |-> 3,
      length |-> Width(payload), items |-> payload, crc |-> payload]

-----------------------------------------------------------------------------
(* The reader.  A result says whether the part was read, what it was and   *)
(* where the next one starts.                                              *)

Got(v, at) == [ok |-> TRUE, v |-> v, at |-> at]
Bad == [ok |-> FALSE, v |-> 0, at |-> 0]

Get(f, at, kind) == IF at <= Len(f) /\ f[at].kind = kind THEN Got(f[at], at + 1) ELSE Bad
GetNumber(f, at) ==
  LET r == Get(f, at, "num") IN IF r.ok THEN Got(r.v.n, r.at) ELSE Bad
GetTag(f, at) ==
  LET r == Get(f, at, "tag") IN IF r.ok THEN Got(r.v.s, r.at) ELSE Bad
GetFlag(f, at) ==
  LET r == GetNumber(f, at)
  IN IF r.ok /\ r.v <= 1 THEN Got(r.v = 1, r.at) ELSE Bad

(* A count of records, each at least minSize bytes, must fit.              *)
ru_get_count(f, at, minSize) ==
  LET r == GetNumber(f, at)
  IN IF r.ok /\ r.v * minSize <= Width(SubSeq(f, r.at, Len(f))) THEN r ELSE Bad

ru_get_string(f, at, nullable) ==
  LET r == Get(f, at, "str")
  IN IF r.ok /\ (nullable \/ r.v.s # NullString) THEN Got(r.v.s, r.at) ELSE Bad

(* n parts of one kind, each read by Part where the one before it ended.   *)
Many(at, n, Part(_)) ==
  FoldLeft(LAMBDA acc, i :
             IF ~acc.ok THEN acc
             ELSE LET r == Part(acc.at)
                  IN IF r.ok THEN Got(Append(acc.v, r.v), r.at) ELSE Bad,
           Got(<<>>, at), [i \in 1..n |-> i])
Then(r, Rest(_, _)) == IF r.ok THEN Rest(r.v, r.at) ELSE Bad
Made(r, Build(_)) == IF r.ok THEN Got(Build(r.v), r.at) ELSE Bad
CountedBy(f, at, minSize, Part(_)) ==
  Then(ru_get_count(f, at, minSize), LAMBDA n, a : Many(a, n, Part))

OpCodes == {"LOAD_CONST", "LOAD_VAR", "JMP", "CALL", "OOP", "SCAN", "HALT"}
ru_known_opcode(op) == op \in OpCodes

Constant(t, n, s) == [t |-> t, n |-> n, s |-> s]
ru_get_constant(f, at) ==
  Then(GetTag(f, at), LAMBDA t, a :
    CASE t = "null" -> Got(Constant("null", 0, ""), a)
      [] t \in {"integer", "real"} -> Made(GetNumber(f, a), LAMBDA n : Constant(t, n, ""))
      [] t = "boolean" -> Made(GetFlag(f, a), LAMBDA b : Constant(t, IF b THEN 1 ELSE 0, ""))
      [] t = "string" -> Made(ru_get_string(f, a, FALSE), LAMBDA s : Constant(t, 0, s))
      [] OTHER -> Bad)

LastOperator == 17          \* USSR_OP_BITWISE_OR

RECURSIVE ru_get_expression(_, _, _)
ru_get_expression(f, at, depth) ==
  IF depth > MaxSyntaxDepth THEN Bad ELSE
  Then(GetTag(f, at), LAMBDA t, a :
    CASE t = "value" ->
           Made(ru_get_constant(f, a), LAMBDA v : [k |-> "value", v |-> v])
      [] t = "variable" ->
           Made(ru_get_string(f, a, FALSE), LAMBDA s : [k |-> "variable", name |-> s])
      [] t = "binary" ->
           Then(GetNumber(f, a), LAMBDA op, b :
             IF op > LastOperator THEN Bad ELSE
             Then(ru_get_expression(f, b, depth + 1), LAMBDA l, c :
               Made(ru_get_expression(f, c, depth + 1), LAMBDA r :
                 [k |-> "binary", op |-> op, l |-> l, r |-> r])))
      [] t = "unary" ->
           Then(GetNumber(f, a), LAMBDA op, b :
             IF op > LastOperator THEN Bad ELSE
             Made(ru_get_expression(f, b, depth + 1), LAMBDA l :
               [k |-> "unary", op |-> op, l |-> l]))
      [] OTHER -> Bad)

RECURSIVE ru_get_block(_, _, _)
ru_get_node(f, at, depth) ==
  Then(GetTag(f, at), LAMBDA k, a :
    Then(GetFlag(f, a), LAMBDA asg, b :
      CASE k = "value" -> Made(ru_get_constant(f, b), LAMBDA v :
                            [k |-> k, assignment |-> asg, v |-> v])
        [] k \in {"expression", "lookup"} ->
             Then(ru_get_expression(f, b, depth), LAMBDA e, c :
               IF k = "lookup" /\ e.k # "variable" THEN Bad
               ELSE Got([k |-> k, assignment |-> asg, e |-> e], c))
        [] k = "uno" -> Made(ru_get_string(f, b, FALSE), LAMBDA s :
                          [k |-> k, assignment |-> asg, text |-> s])
        [] k \in {"block", "advanced"} ->
             Made(ru_get_block(f, b, depth + 1), LAMBDA l :
               [k |-> k, assignment |-> asg, list |-> l])
        [] OTHER -> Bad))

MinCommand == 13            \* path, name, return name, number of arguments

ru_get_command(f, at, depth) ==
  Then(ru_get_string(f, at, TRUE), LAMBDA path, a :
    Then(ru_get_string(f, a, FALSE), LAMBDA name, b :
      Then(ru_get_string(f, b, TRUE), LAMBDA ret, c :
        Then(GetNumber(f, c), LAMBDA n, d :
          Made(Many(d, n, LAMBDA x : ru_get_node(f, x, depth)), LAMBDA args :
            [path |-> path, name |-> name, return_name |-> ret,
             arguments |-> args])))))

ru_get_block(f, at, depth) ==
  IF depth > MaxSyntaxDepth THEN Bad
  ELSE CountedBy(f, at, MinCommand, LAMBDA x : ru_get_command(f, x, depth))

NoValue == Constant("null", 0, "")

ru_get_site_argument(f, at) ==
  Then(GetTag(f, at), LAMBDA k, a :
    Then(GetFlag(f, a), LAMBDA asg, b :
      CASE k \in {"block", "advanced"} ->
             Made(ru_get_block(f, b, 1), LAMBDA l :
               [k |-> k, assignment |-> asg, list |-> l])
        [] k = "variable" ->
             Made(ru_get_string(f, b, FALSE), LAMBDA s :
               [k |-> "expression", assignment |-> asg,
                e |-> [k |-> "variable", name |-> s]])
        [] k = "value" -> Got([k |-> "value", assignment |-> asg, v |-> NoValue], b)
        [] OTHER -> Bad))

ru_get_site(f, at) ==
  Then(GetNumber(f, at), LAMBDA i, a :
    Then(ru_get_string(f, a, TRUE), LAMBDA name, b :
      Then(ru_get_string(f, b, TRUE), LAMBDA ret, c :
        Then(GetNumber(f, c), LAMBDA n, d :
          Made(Many(d, n, LAMBDA x : ru_get_site_argument(f, x)), LAMBDA args :
            [instruction |-> i,
             command |-> [path |-> NullString, name |-> name,
                          return_name |-> ret, arguments |-> args]])))))

PointsAt(code, site, opcode) ==
  site.instruction < Len(code) /\ code[site.instruction + 1].opcode = opcode
ru_read_sites(f, at, code, opcode) ==
  Then(CountedBy(f, at, MinCommand, LAMBDA x : ru_get_site(f, x)), LAMBDA s, a :
    IF \A i \in DOMAIN s : PointsAt(code, s[i], opcode) THEN Got(s, a) ELSE Bad)

ru_get_instruction(f, at) ==
  Then(GetTag(f, at), LAMBDA op, a :
    IF ~ru_known_opcode(op) THEN Bad ELSE
    Then(GetNumber(f, a), LAMBDA scope, b :
      Made(GetNumber(f, b), LAMBDA imm :
        [opcode |-> op, b |-> scope, immediate |-> imm])))

StringsAt(f, at, nullable) ==
  CountedBy(f, at, 4, LAMBDA x : ru_get_string(f, x, nullable))

ru_get_function(f, at, codeCount) ==
  Then(ru_get_string(f, at, FALSE), LAMBDA name, a :
    Then(ru_get_string(f, a, TRUE), LAMBDA ret, b :
      Then(GetNumber(f, b), LAMBDA entry, c :
        IF entry >= codeCount THEN Bad ELSE
        Then(StringsAt(f, c, FALSE), LAMBDA ps, d :
          Then(StringsAt(f, d, FALSE), LAMBDA ls, e :
            IF Len(ls) < Len(ps) + 1 THEN Bad
            ELSE Got([name |-> name, return_name |-> ret, entry |-> entry,
                      parameters |-> ps, locals |-> ls], e))))))

GlobalScope == 2            \* USSR_VAR_GLOBAL
OperandInside(ins, code, constants, strings, functions) ==
  CASE ins.opcode = "JMP" -> ins.immediate < Len(code)
    [] ins.opcode = "LOAD_CONST" -> ins.immediate < Len(constants)
    [] ins.opcode = "CALL" -> ins.immediate < Len(functions)
    [] ins.opcode \in {"LOAD_VAR", "OOP", "SCAN"} ->
         /\ ins.opcode = "LOAD_VAR" => ins.b <= GlobalScope
         /\ ins.immediate < Len(strings)
         /\ strings[ins.immediate + 1] # NullString
    [] OTHER -> TRUE

ru_parse(f) ==
  Then(CountedBy(f, 1, 8, LAMBDA x : ru_get_instruction(f, x)), LAMBDA code, a :
    IF code = <<>> \/ Last(code).opcode # "HALT" THEN Bad ELSE
    Then(CountedBy(f, a, 1, LAMBDA x : ru_get_constant(f, x)), LAMBDA constants, b :
      Then(StringsAt(f, b, TRUE), LAMBDA strings, c :
        Then(CountedBy(f, c, 16, LAMBDA x : ru_get_function(f, x, Len(code))), LAMBDA functions, d :
          IF ~\A i \in DOMAIN code :
                OperandInside(code[i], code, constants, strings, functions) THEN Bad ELSE
          Then(ru_read_sites(f, d, code, "OOP"), LAMBDA oop, e :
            Then(ru_read_sites(f, e, code, "SCAN"), LAMBDA scan, g :
              IF g # Len(f) + 1 THEN Bad
              ELSE Got([code |-> code, constants |-> constants, strings |-> strings,
                        functions |-> functions, oop_sites |-> oop, scan_sites |-> scan], g)))))))

ussr_ru_read_file(file) ==
  IF /\ file.version = 3 /\ file.abi = 3
     /\ file.length = Width(file.items)
     /\ file.crc = file.items
    THEN ru_parse(file.items)
    ELSE Bad
-----------------------------------------------------------------------------
(* What the two promise together. *)

\* The program as the machine needs it back: what the call sites computed
\* into registers is not part of it.
AsStored(p) ==
  LET arg(a) == IF a.k \in {"block", "advanced"} \/ (a.k = "expression" /\ a.e.k = "variable")
                  THEN a ELSE [k |-> "value", assignment |-> a.assignment, v |-> NoValue]
      site(s) == [s EXCEPT !.command.path = NullString,
                           !.command.arguments = Mapped(@, arg)]
  IN [p EXCEPT !.oop_sites = Mapped(@, site), !.scan_sites = Mapped(@, site)]

\* The machine indexes its pools without looking, so a program it is given
\* has every operand in its pool, a site on every command it runs on the host
\* and a last instruction that stops it.
Runnable(p) ==
  /\ p.code # <<>> /\ Last(p.code).opcode = "HALT"
  /\ \A i \in DOMAIN p.code : LET x == p.code[i] IN
       /\ x.opcode \in OpCodes
       /\ x.opcode = "JMP" => x.immediate + 1 \in DOMAIN p.code
       /\ x.opcode = "LOAD_CONST" => x.immediate + 1 \in DOMAIN p.constants
       /\ x.opcode = "CALL" => x.immediate + 1 \in DOMAIN p.functions
       /\ x.opcode = "LOAD_VAR" => x.b \in 0..GlobalScope
       /\ x.opcode \in {"LOAD_VAR", "OOP", "SCAN"} =>
            x.immediate + 1 \in DOMAIN p.strings /\ p.strings[x.immediate + 1] # NullString
  /\ \A i \in DOMAIN p.functions :
       /\ p.functions[i].entry + 1 \in DOMAIN p.code
       /\ Len(p.functions[i].locals) > Len(p.functions[i].parameters)
  /\ \A i \in DOMAIN p.oop_sites : PointsAt(p.code, p.oop_sites[i], "OOP")
  /\ \A i \in DOMAIN p.scan_sites : PointsAt(p.code, p.scan_sites[i], "SCAN")
=============================================================================
