---------------------------- MODULE UssrCompiler ----------------------------
(***************************************************************************)
(* The compiler from parsed commands to VM instructions                    *)
(* (src/src/ussr_bytecode.c), a pure function of the program.              *)
(*                                                                         *)
(* A command is [n |-> name, r |-> return variable, a |-> arguments]; an   *)
(* argument is an expression, a '?' lookup or a block, with the '!' mark   *)
(* in b.  Instruction addresses count from 0 as in the program.  The       *)
(* constant and string pools are left out: an instruction carries the      *)
(* value, the name or the target itself.  Patching is by placeholder: a    *)
(* BRK, CNT or END instruction becomes a JMP once its construct is laid    *)
(* out.  ERR stands for a compile error anywhere in the code.              *)
(***************************************************************************)
EXTENDS UssrValues, SequencesExt

CONSTANT RegCount               \* USSR_BC_MAX_REGS (32 in the program)

ASSUME RegCountAssumption == RegCount \in Nat /\ RegCount >= 5

RETURN_REG == RegCount - 1

Ins0(op, a, b, c) == [op |-> op, a |-> a, b |-> b, c |-> c,
                      to |-> 0, x |-> "", v |-> ussr_null, q |-> <<>>]
Op(op, a, b, c)   == Ins0(op, a, b, c)
LoadConst(a, v)   == [Ins0("LOAD_CONST", a, 0, 0) EXCEPT !.v = v]
Named(op, a, x)   == [Ins0(op, a, 0, 0) EXCEPT !.x = x]
Jump(op, a, to)   == [Ins0(op, a, 0, 0) EXCEPT !.to = to]
Bad               == <<Ins0("ERR", 0, 0, 0)>>

\* Mutant: a patch one instruction too far.
PatchPastTarget(code, mark, to) ==
    [i \in DOMAIN code |-> IF code[i].op = mark THEN Jump("JMP", 0, to + 1) ELSE code[i]]

bc_patch(code, mark, to) ==
    [i \in DOMAIN code |-> IF code[i].op = mark THEN Jump("JMP", 0, to) ELSE code[i]]

Has(code, op) == \E i \in DOMAIN code : code[i].op = op

\* The code of n parts laid out one after the other from address base.
Lay(n, base, F(_, _)) ==
    FoldLeft(LAMBDA acc, k : acc \o F(k, base + Len(acc)), <<>>, [k \in 1..n |-> k])

IsBlock(a)   == a.k = "blk"
IsVar(a)     == a.k = "exp" /\ a.e.k = "var"
Count(c)     == Len(c.a)
Controls     == {"@", "if", "elif", "else", "choose", "option", "default", "for",
                 "while", "break", "continue", "return", "do", "loop", "method",
                 "each", "map", "filter"}

bc_is_definition(c) ==
    /\ Count(c) > 0
    /\ IsBlock(c.a[Count(c)])
    /\ c.n \notin Controls

Body(d)   == d.a[Count(d)].c
Params(d) == [i \in 1..(Count(d) - 1) |-> d.a[i].e.x]

Blocks(c) == SelectSeq(c.a, IsBlock)

(***************************************************************************)
(* Declarations: the functions in order of appearance, nested ones after   *)
(* their parent, and the names declared global outside definitions.        *)
(***************************************************************************)
RECURSIVE bc_collect_functions(_)
bc_collect_functions(cs) ==
    FlattenSeq([i \in DOMAIN cs |->
        IF bc_is_definition(cs[i])
        THEN <<cs[i]>> \o bc_collect_functions(Body(cs[i]))
        ELSE FlattenSeq([j \in DOMAIN Blocks(cs[i]) |->
                            bc_collect_functions(Blocks(cs[i])[j].c)])])

RECURSIVE bc_collect_globals(_)
bc_collect_globals(cs) ==
    UNION {CASE bc_is_definition(cs[i]) -> {}
             [] cs[i].n = "global" ->
                  {cs[i].a[j].e.x : j \in DOMAIN cs[i].a}
             [] OTHER -> UNION {bc_collect_globals(Blocks(cs[i])[j].c) :
                                j \in DOMAIN Blocks(cs[i])}
           : i \in DOMAIN cs}

bc_find_function(fns, name) == \E i \in DOMAIN fns : fns[i].n = name

\* The table's index of the function called name.
FunctionIndex(fns, name) == CHOOSE i \in DOMAIN fns : fns[i].n = name

(***************************************************************************)
(* Expressions and arguments, into register dst.                           *)
(***************************************************************************)
RECURSIVE bc_fold(_)
bc_fold(e) ==
    CASE e.k = "val" -> IF e.v.t = "null" THEN Err ELSE e.v
      [] e.k = "neg" -> Negate(bc_fold(e.l))
      [] e.k = "bin" /\ e.op \notin {"LAND", "LOR"} ->
           LET l == bc_fold(e.l)
               r == bc_fold(e.r)
           IN  IF l = Err \/ r = Err THEN Err ELSE vm_fold_binary(e.op, l, r)
      [] OTHER -> Err

ShortJump == [LAND |-> "JMP_FALSE", LOR |-> "JMP_TRUE"]

RECURSIVE bc_compile_expression(_, _, _)
RECURSIVE bc_compile_expression_short(_, _, _)

\* && and || leave the operand that decided in dst.
bc_compile_expression_short(e, dst, base) ==
    IF e.k = "bin" /\ e.op \in DOMAIN ShortJump
    THEN LET l == bc_compile_expression_short(e.l, dst, base)
             r == bc_compile_expression_short(e.r, dst, base + Len(l) + 1)
         IN  l \o <<Jump(ShortJump[e.op], dst, base + Len(l) + 1 + Len(r))>> \o r
    ELSE bc_compile_expression(e, dst, base)

bc_compile_expression(e, dst, base) ==
    IF dst >= RETURN_REG THEN Bad
    ELSE CASE e.k \in {"bin", "neg"} /\ bc_fold(e) # Err -> <<LoadConst(dst, bc_fold(e))>>
           [] e.k = "val" -> <<LoadConst(dst, e.v)>>
           [] e.k = "var" -> <<Named("LOAD_VAR", dst, e.x)>>
           [] e.k = "neg" -> bc_compile_expression(e.l, dst, base)
                                \o <<Op("NEG", dst, dst, 0)>>
           [] e.k = "bin" ->
                IF dst + 2 >= RETURN_REG THEN Bad
                ELSE IF e.op \in DOMAIN ShortJump
                     THEN bc_compile_expression_short(e, dst, base)
                     ELSE LET l == bc_compile_expression(e.l, dst + 1, base)
                              r == bc_compile_expression(e.r, dst + 2, base + Len(l))
                          IN  l \o r \o <<Op(e.op, dst, dst + 1, dst + 2)>>

bc_compile_argument(a, dst, base) ==
    CASE a.k = "exp"  -> bc_compile_expression_short(a.e, dst, base)
      [] a.k = "look" -> <<Named("LOAD_HASH", dst, a.e.x)>>
      [] a.k = "blk"  -> Bad

\* Arguments from..from+n-1 into registers 0, 1, ...
Arguments(c, from, n, base) ==
    Lay(n, base, LAMBDA k, b : bc_compile_argument(c.a[from + k - 1], k - 1, b))

bc_store_result(name, reg, hash) ==
    <<Named(IF hash THEN "STORE_HASH" ELSE "STORE_VAR", reg, name)>>

bc_store_boolean(name, p) ==
    <<LoadConst(0, ussr_boolean(p))>> \o bc_store_result(name, 0, FALSE)

AnyBang(c) == \E i \in DOMAIN c.a : c.a[i].b

(***************************************************************************)
(* Commands.  x is the context: whether a loop (or choose) encloses the    *)
(* command, the function being compiled (0 at the top level) and the       *)
(* function table.                                                         *)
(***************************************************************************)
InLoop(x) == [x EXCEPT !.loop = TRUE]

RECURSIVE bc_compile_until(_, _, _, _, _)
RECURSIVE bc_compile_command(_, _, _, _)

bc_compile_list(cs, base, x) == bc_compile_until(cs, 1, Len(cs) + 1, base, x)

CompileIf(c, base, x) ==
    IF Count(c) \notin {2, 3} \/ \E i \in 2..Count(c) : ~IsBlock(c.a[i]) THEN Bad
    ELSE LET cond == bc_compile_argument(c.a[1], 0, base)
             at   == base + Len(cond) + 1
             yes  == bc_compile_list(c.a[2].c, at, x)
             mid  == at + Len(yes) + 1
             no   == IF Count(c) = 3 THEN bc_compile_list(c.a[3].c, mid, x) ELSE <<>>
         IN  cond \o
             (IF Count(c) = 3
              THEN <<Jump("JMP_FALSE", 0, mid)>> \o yes
                      \o <<Jump("JMP", 0, mid + Len(no))>> \o no
              ELSE <<Jump("JMP_FALSE", 0, at + Len(yes))>> \o yes)
             \o bc_store_boolean(c.r, TRUE)

CompileWhile(c, base, x) ==
    IF Count(c) # 2 \/ ~IsBlock(c.a[2]) THEN Bad
    ELSE LET cond == bc_compile_argument(c.a[1], 0, base)
             body == bc_compile_list(c.a[2].c, base + Len(cond) + 1, InLoop(x))
             end  == base + Len(cond) + 1 + Len(body) + 1
         IN  cond \o <<Jump("JMP_FALSE", 0, end)>>
                \o bc_patch(bc_patch(body, "CNT", base), "BRK", end)
                \o <<Jump("JMP", 0, base)>>
                \o bc_store_boolean(c.r, TRUE)

\* do and the loop command after it are one construct; continue goes to
\* the condition.
CompileDo(cs, i, base, x) ==
    IF \/ Count(cs[i]) # 2 \/ ~IsBlock(cs[i].a[2])
       \/ i = Len(cs) \/ cs[i + 1].n # "loop" \/ Count(cs[i + 1]) # 1
    THEN Bad
    ELSE LET body == bc_compile_list(cs[i].a[2].c, base, InLoop(x))
             test == base + Len(body)
             cond == bc_compile_argument(cs[i + 1].a[1], 0, test)
             end  == test + Len(cond) + 2
         IN  bc_patch(bc_patch(body, "CNT", test), "BRK", end) \o cond
                \o <<Jump("JMP_FALSE", 0, end), Jump("JMP", 0, base)>>
                \o bc_store_boolean(cs[i].r, TRUE)

\* The commands of a for body, one by one: only do/loop is paired here.
RECURSIVE ForBody(_, _, _, _)
ForBody(cs, i, base, x) ==
    IF i > Len(cs) THEN <<>>
    ELSE LET code == IF cs[i].n = "loop" THEN Bad ELSE bc_compile_command(cs, i, base, x)
         IN  code \o ForBody(cs, IF cs[i].n = "do" THEN i + 2 ELSE i + 1,
                             base + Len(code), x)

\* initializer, condition, body, iterator; continue goes to the iterator.
CompileFor(c, base, x) ==
    IF Count(c) # 2 \/ ~IsBlock(c.a[2]) \/ Len(c.a[2].c) < 2 THEN Bad
    ELSE LET cs   == c.a[2].c
             init == bc_compile_command(cs, 1, base, x)
             test == base + Len(init)
             cond == bc_compile_argument(c.a[1], 0, test)
             body == ForBody(cs, 3, test + Len(cond) + 1, InLoop(x))
             step == test + Len(cond) + 1 + Len(body)
             iter == bc_compile_command(cs, 2, step, InLoop(x))
             end  == step + Len(iter) + 1
         IN  init \o cond \o <<Jump("JMP_FALSE", 0, end)>>
                \o bc_patch(bc_patch(body \o iter, "CNT", step), "BRK", end)
                \o <<Jump("JMP", 0, test)>>
                \o bc_store_boolean(c.r, TRUE)

CompileJumpOut(c, base, x) ==
    IF ~x.loop \/ Count(c) > 1 THEN Bad
    ELSE (IF Count(c) = 1
          THEN bc_compile_argument(c.a[1], 0, base) \o bc_store_result(c.r, 0, c.a[1].b)
          ELSE bc_store_boolean(c.r, TRUE))
         \o <<Op(IF c.n = "break" THEN "BRK" ELSE "CNT", 0, 0, 0)>>

CompileReturn(c, base, x) ==
    IF x.fn = 0 \/ Count(c) # 1 THEN Bad
    ELSE bc_compile_argument(c.a[1], 0, base)
            \o bc_store_result(x.fns[x.fn].r, 0, c.a[1].b)
            \o <<Op("RET", 0, 0, 0)>>

CompileCall(c, base, x) ==
    LET f == FunctionIndex(x.fns, c.n)
    IN  IF Count(c) # Count(x.fns[f]) - 1 \/ Count(c) >= RETURN_REG THEN Bad
        ELSE Arguments(c, 1, Count(c), base)
                \o <<[Op("CALL", 0, Count(c), RETURN_REG) EXCEPT !.to = f]>>
                \o bc_store_result(c.r, RETURN_REG, FALSE)

CompileVectorSet(c, base) ==     \* set(vector): index value
    <<Named("LOAD_VAR", 0, c.r)>>
        \o bc_compile_argument(c.a[1], 1, base + 1)
        \o bc_compile_argument(c.a[2], 2,
               base + 1 + Len(bc_compile_argument(c.a[1], 1, base + 1)))
        \o <<Op("VECTOR_SET", 0, 1, 2)>>

CompileVectorGet(c, base) ==     \* get(vector): index destination
    IF ~IsVar(c.a[2]) THEN Bad
    ELSE <<Named("LOAD_VAR", 0, c.r)>> \o bc_compile_argument(c.a[1], 1, base + 1)
            \o <<Op("VECTOR_GET", 2, 0, 1), Named("STORE_VAR", 2, c.a[2].e.x)>>

CompileSet(c, base) ==
    IF Count(c) # 1 THEN Bad
    ELSE bc_compile_argument(c.a[1], 0, base) \o bc_store_result(c.r, 0, c.a[1].b)

CompilePrint(c, base) ==
    IF Count(c) # 1 THEN Bad
    ELSE bc_compile_argument(c.a[1], 0, base) \o <<Op("PRINT", 0, 0, 0)>>
            \o bc_store_result(c.r, 0, c.a[1].b)

ArithmeticCommand == [add |-> "ADD", sub |-> "SUB", mul |-> "MUL",
                      div |-> "DIV", mod |-> "MOD"]

CompileArithmetic(c, base) ==
    IF Count(c) # 2 THEN Bad
    ELSE Arguments(c, 1, 2, base) \o <<Op(ArithmeticCommand[c.n], 2, 0, 1)>>
            \o bc_store_result(c.r, 2, AnyBang(c))

CompileConcat(c, base) ==
    IF Count(c) < 2 \/ Count(c) >= RETURN_REG THEN Bad
    ELSE Arguments(c, 1, Count(c), base)
            \o <<Op("CONCAT", RETURN_REG - 1, 0, Count(c))>>
            \o bc_store_result(c.r, RETURN_REG - 1, AnyBang(c))

CompileGet(c) ==                 \* get(a): b means b = a
    IF Count(c) # 1 \/ ~IsVar(c.a[1]) THEN Bad
    ELSE <<Named("LOAD_VAR", 0, c.r), Named("STORE_VAR", 0, c.a[1].e.x)>>

CompileScan(c) ==                \* the destinations travel with the instruction
    IF Count(c) < 2 \/ \E i \in 2..Count(c) : ~IsVar(c.a[i]) THEN Bad
    ELSE <<[Op("SCAN", RETURN_REG, Count(c) - 1, 0)
              EXCEPT !.v = c.a[1].e.v, !.q = [i \in 1..(Count(c) - 1) |-> c.a[i + 1].e.x]]>>
            \o bc_store_result(c.r, RETURN_REG, FALSE)

CompileTemplate(c, base) ==
    IF Count(c) < 2 \/ \E i \in 2..Count(c) : IsBlock(c.a[i]) THEN Bad
    ELSE Arguments(c, 2, Count(c) - 1, base)
            \o <<[Op("TEMPLATE", RETURN_REG, Count(c) - 1, 0) EXCEPT !.v = c.a[1].e.v]>>
            \o bc_store_result(c.r, RETURN_REG, FALSE)

CompileEval(c, base) ==
    IF Count(c) # 1 THEN Bad
    ELSE bc_compile_argument(c.a[1], 0, base) \o <<Named("EVAL", RETURN_REG, c.r)>>
            \o bc_store_result(c.r, RETURN_REG, FALSE)

\* Everything else is a builtin or a host command: the values go into
\* registers, the blocks stay with the command.
CompileOop(c, base) ==
    IF Count(c) >= RETURN_REG THEN Bad
    ELSE Lay(Count(c), base, LAMBDA k, b :
                IF IsBlock(c.a[k]) THEN <<>> ELSE bc_compile_argument(c.a[k], k - 1, b))
            \o <<[Named("OOP", RETURN_REG - 1, c.n) EXCEPT !.b = Count(c), !.q = <<c>>]>>
            \o bc_store_result(c.r, RETURN_REG - 1, AnyBang(c))

bc_compile_command(cs, i, base, x) ==
    LET c == cs[i]
    IN  CASE bc_is_definition(c) \/ c.n = "global" -> <<>>
          [] c.n = "if"       -> CompileIf(c, base, x)
          [] c.n = "do"       -> CompileDo(cs, i, base, x)
          [] c.n = "for"      -> CompileFor(c, base, x)
          [] c.n = "while"    -> CompileWhile(c, base, x)
          [] c.n \in {"break", "continue"} -> CompileJumpOut(c, base, x)
          [] c.n = "return"   -> CompileReturn(c, base, x)
          [] OTHER ->
             IF bc_find_function(x.fns, c.n) THEN CompileCall(c, base, x)
             ELSE CASE c.n = "set"      -> IF Count(c) = 2 THEN CompileVectorSet(c, base)
                                            ELSE CompileSet(c, base)
                    [] c.n = "print"    -> CompilePrint(c, base)
                    [] c.n \in DOMAIN ArithmeticCommand -> CompileArithmetic(c, base)
                    [] c.n = "concat"   -> CompileConcat(c, base)
                    [] c.n = "get"      -> IF Count(c) = 2 THEN CompileVectorGet(c, base)
                                            ELSE CompileGet(c)
                    [] c.n = "scan"     -> CompileScan(c)
                    [] c.n = "template" -> CompileTemplate(c, base)
                    [] c.n = "eval"     -> CompileEval(c, base)
                    [] OTHER -> CompileOop(c, base)

(***************************************************************************)
(* Lists, with the constructs that span several commands.  A flat chain    *)
(* or a choose takes the rest of its list.                                 *)
(***************************************************************************)
IfLabels     == {"elif", "else"}
ChooseLabels == {"option", "default"}

\* Positions i.. of cs that carry one of the labels.
LabelsAfter(cs, i, labels) ==
    SetToSortSeq({j \in (i + 1)..Len(cs) : cs[j].n \in labels}, <)

\* The end of the part that starts at position ps[k].
PartEnd(cs, ps, k) == IF k < Len(ps) THEN ps[k + 1] ELSE Len(cs) + 1

\* One branch: its condition unless it is the else, TRUE into the result
\* variable, the body, a jump to the end of the chain.
Branch(cond, ret, base, F(_)) ==
    LET at   == base + Len(cond) + (IF cond = <<>> THEN 0 ELSE 1)
        mark == bc_store_boolean(ret, TRUE)
        body == mark \o F(at + Len(mark))
    IN  cond
        \o (IF cond = <<>> THEN <<>> ELSE <<Jump("JMP_FALSE", 0, at + Len(body) + 1)>>)
        \o body \o <<Op("END", 0, 0, 0)>>

Chain(first, base, branches) ==
    bc_patch(bc_store_boolean(first.r, FALSE) \o branches, "END",
             base + 2 + Len(branches))

\* if(v): cond / elif: cond / else: with the commands between them.
bc_compile_conditional_chain(cs, i, base, x) ==
    LET ps == <<i>> \o LabelsAfter(cs, i, IfLabels)
        Part(k, b) ==
            LET c == cs[ps[k]]
            IN  IF Count(c) # (IF c.n = "else" THEN 0 ELSE 1) THEN Bad
                ELSE Branch(IF c.n = "else" THEN <<>> ELSE bc_compile_argument(c.a[1], 0, b),
                            cs[i].r, b,
                            LAMBDA at : bc_compile_until(cs, ps[k] + 1, PartEnd(cs, ps, k), at, x))
    IN  Chain(cs[i], base, Lay(Len(ps), base + 2, Part))

\* if/elif/else siblings that carry their blocks; nothing follows an else.
BlockChainEnd(cs, i) ==
    CHOOSE j \in (i + 1)..(Len(cs) + 1) :
        /\ j = Len(cs) + 1 \/ cs[j].n \notin IfLabels
        /\ \A k \in (i + 1)..(j - 1) : cs[k].n \in IfLabels

bc_compile_block_chain(cs, i, base, x) ==
    LET n == BlockChainEnd(cs, i) - i
        Part(k, b) ==
            LET c    == cs[i + k - 1]
                last == Count(c)
            IN  IF \/ Count(c) # (IF c.n = "else" THEN 1 ELSE 2)
                   \/ ~IsBlock(c.a[last])
                   \/ c.n = "else" /\ k < n
                THEN Bad
                ELSE Branch(IF c.n = "else" THEN <<>> ELSE bc_compile_argument(c.a[1], 0, b),
                            cs[i].r, b, LAMBDA at : bc_compile_list(c.a[last].c, at, x))
    IN  Chain(cs[i], base, Lay(n, base + 2, Part))

\* choose: the options are compared in order, the bodies fall through;
\* break leaves the choose, continue belongs to the enclosing loop.
bc_compile_choose(cs, i, base, x) ==
    LET ps   == LabelsAfter(cs, i, ChooseLabels)
        head == bc_store_boolean(cs[i].r, FALSE)
                    \o bc_compile_argument(cs[i].a[1], 0, base + 2)
        Test(k, b, to) ==
            IF cs[ps[k]].n = "default" THEN <<>>
            ELSE bc_compile_argument(cs[ps[k]].a[1], 1, b)
                    \o <<Op("EQ", 2, 0, 1), Jump("JMP_TRUE", 2, to)>>
        tests == Lay(Len(ps), base + Len(head), LAMBDA k, b : Test(k, b, 0))
        start == base + Len(head) + Len(tests) + 1
        Part(k, b) == bc_store_boolean(cs[i].r, TRUE)
                        \o bc_compile_until(cs, ps[k] + 1, PartEnd(cs, ps, k), b + 2, InLoop(x))
        BodyAt(k) == start + Len(Lay(k - 1, start, Part))
        bodies == Lay(Len(ps), start, Part)
        end    == start + Len(bodies)
        dflt   == {k \in DOMAIN ps : cs[ps[k]].n = "default"}
        miss   == IF dflt = {} THEN end ELSE BodyAt(CHOOSE k \in dflt : TRUE)
    IN  IF \/ ps = <<>> \/ ps[1] # i + 1
           \/ Cardinality(dflt) > 1
           \/ \E k \in DOMAIN ps : Count(cs[ps[k]]) # (IF k \in dflt THEN 0 ELSE 1)
           \/ Has(bodies, "CNT") /\ ~x.loop
        THEN Bad
        ELSE head
             \o Lay(Len(ps), base + Len(head), LAMBDA k, b : Test(k, b, BodyAt(k)))
             \o <<Jump("JMP", 0, miss)>>
             \o bc_patch(bodies, "BRK", end)

bc_compile_until(cs, i, stop, base, x) ==
    IF i = stop \/ i > Len(cs) THEN <<>>
    ELSE LET c == cs[i]
             Rest(code, next) == code \o bc_compile_until(cs, next, stop, base + Len(code), x)
         IN  CASE c.n = "if" /\ Count(c) = 1 ->
                    bc_compile_conditional_chain(cs, i, base, x)
               [] /\ c.n = "if" /\ Count(c) = 2 /\ IsBlock(c.a[2])
                  /\ i < Len(cs) /\ cs[i + 1].n \in IfLabels ->
                    Rest(bc_compile_block_chain(cs, i, base, x), BlockChainEnd(cs, i))
               [] c.n = "choose" /\ Count(c) = 1 -> bc_compile_choose(cs, i, base, x)
               [] c.n \in IfLabels \cup ChooseLabels \cup {"loop"} -> Bad
               [] OTHER ->
                    Rest(bc_compile_command(cs, i, base, x),
                         IF c.n = "do" THEN i + 2 ELSE i + 1)

(***************************************************************************)
(* Functions and the whole program.                                        *)
(***************************************************************************)
\* Names in order of first appearance.
Distinct(s) ==
    FoldLeft(LAMBDA acc, n : IF \E i \in DOMAIN acc : acc[i] = n THEN acc ELSE Append(acc, n),
             <<>>, s)

\* The locals of a function: parameters, return variable and every name
\* its code stores, except names declared global in it or at the top.
bc_function_locals(d, code, globals) ==
    LET hidden == globals \cup bc_collect_globals(Body(d))
        Names(op, F(_)) == FlattenSeq([k \in DOMAIN code |->
                              IF code[k].op = op THEN F(code[k]) ELSE <<>>])
        stored == Names("STORE_VAR", LAMBDA i : <<i.x>>) \o Names("SCAN", LAMBDA i : i.q)
        own    == IF "*" \in hidden THEN <<>>
                  ELSE SelectSeq(stored, LAMBDA n : n \notin hidden)
    IN  Distinct(Params(d) \o <<d.r>> \o own)

\* Variable accesses become local slots or global: b = 1 or 2, slot in c.
ResolveLocals(code, locals) ==
    [k \in DOMAIN code |->
        IF code[k].op \notin {"LOAD_VAR", "STORE_VAR"} THEN code[k]
        ELSE LET at == {s \in DOMAIN locals : locals[s] = code[k].x}
             IN  IF at = {} THEN [code[k] EXCEPT !.b = 2]
                 ELSE [code[k] EXCEPT !.b = 1, !.c = CHOOSE s \in at : TRUE]]

\* A function's own code: its body, then the fall-through return.
FunctionCode(fns, f, base) ==
    bc_compile_list(Body(fns[f]), base, [loop |-> FALSE, fn |-> f, fns |-> fns])
        \o <<LoadConst(RETURN_REG, ussr_null), Op("RET", 0, 0, 0)>>

bc_compile_functions(fns, base, globals) ==
    Lay(Len(fns), base, LAMBDA f, b :
        LET code == FunctionCode(fns, f, b)
        IN  ResolveLocals(code, bc_function_locals(fns[f], code, globals)))

FunctionTable(fns, globals) ==
    [f \in DOMAIN fns |->
        LET entry == 1 + Len(Lay(f - 1, 1, LAMBDA g, b : FunctionCode(fns, g, b)))
        IN  [name |-> fns[f].n, params |-> Params(fns[f]), ret |-> fns[f].r, entry |-> entry,
             locals |-> bc_function_locals(fns[f], FunctionCode(fns, f, entry), globals)]]

DeclaredTwice(fns) == \E i, j \in DOMAIN fns : i # j /\ fns[i].n = fns[j].n

BadGlobal(fns) ==
    \E f \in DOMAIN fns :
        bc_collect_globals(Body(fns[f])) \cap ({fns[f].r} \cup ToSet(Params(fns[f]))) # {}

\* Jump over the functions, the functions, the top level, HALT.
uuasm_compile_source(source) ==
    LET globals == bc_collect_globals(source)
        fns     == bc_collect_functions(source)
        bodies  == bc_compile_functions(fns, 1, globals)
        main    == bc_compile_list(source, 1 + Len(bodies),
                                   [loop |-> FALSE, fn |-> 0, fns |-> fns])
        code    == <<Jump("JMP", 0, 1 + Len(bodies))>> \o bodies \o main
                       \o <<Op("HALT", 0, 0, 0)>>
    IN  IF DeclaredTwice(fns) \/ BadGlobal(fns) \/ Has(bodies \o main, "ERR")
        THEN [ok |-> FALSE, code |-> <<>>, fns |-> <<>>]
        ELSE [ok |-> TRUE, code |-> code, fns |-> FunctionTable(fns, globals)]
=============================================================================
