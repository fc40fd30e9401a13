------------------------------ MODULE UssrTree ------------------------------
(***************************************************************************)
(* The tree-walking interpreter that src/src/ussr.c keeps and exports      *)
(* (ussr_execute_program, ussr_execute_command), a function of the         *)
(* program.  The machine reaches it for "@" blocks and a few builtins.     *)
(*                                                                         *)
(* A state s is the scope (vars), the hash, the definitions met so far,    *)
(* the output, the files written, and how the last command ended           *)
(* (st: ok, brk, cnt, ret, err).  Loops are cut off after MaxLoop turns.   *)
(***************************************************************************)
EXTENDS UssrCompiler, TLC

CONSTANTS MaxLoop,              \* USSR_MAX_LOOP_ITERATIONS
          TreeParse(_),         \* the commands of a text; yyparse
          Installed,            \* the host commands PATH leads to
          Child(_, _)           \* one of them on an input: its output and status

ASSUME MaxLoopAssumption == MaxLoop \in Nat

Fresh == [vars |-> [x \in {} |-> ussr_null], hash |-> [x \in {} |-> ussr_null],
          defs |-> <<>>, out |-> <<>>, files |-> <<>>, st |-> "ok"]

Good(s)       == s.st = "ok"
Stop(s, how)  == [s EXCEPT !.st = how]
Failed(s)     == Stop(s, "err")
Put(s, x, v)  == [s EXCEPT !.vars = (x :> v) @@ @]
PutHash(s, x, v) == [s EXCEPT !.hash = (x :> v) @@ @]

(***************************************************************************)
(* Expressions.                                                            *)
(***************************************************************************)
ussr_values_equal(a, b) ==
    IF vm_numeric(a) /\ vm_numeric(b) THEN Num(a) * Den(b) = Num(b) * Den(a) ELSE a = b

ussr_value_truthy(v) ==
    CASE v.t = "null" -> FALSE
      [] v.t \in {"bool", "int", "real"} -> v.v[1] # 0
      [] OTHER -> v.v # <<>>

EvaluateArithmetic(op, l, r) ==
    IF ~vm_numeric(l) \/ ~vm_numeric(r) THEN Err
    ELSE IF IsInt(l) /\ IsInt(r) THEN IntArithmetic(op, Num(l), Num(r))
    ELSE RealArithmetic(op, l, r)

\* Two integers divide to an integer, towards zero; MIN / -1 wraps.
EvaluateDivision(l, r) ==
    IF ~vm_numeric(l) \/ ~vm_numeric(r) \/ Num(r) = 0 THEN Err
    ELSE IF IsInt(l) /\ IsInt(r)
         THEN LET q == Abs(Num(l)) \div Abs(Num(r))
              IN  ussr_integer(IF (Num(l) < 0) = (Num(r) < 0) THEN q ELSE -q)
         ELSE RealArithmetic("DIV", l, r)

EvaluateModulo(l, r) ==
    IF ~IsInt(l) \/ ~IsInt(r) \/ Num(r) = 0 THEN Err
    ELSE ussr_integer(ussr_int_mod(Num(l), Num(r)))

EvaluateLogic(op, l, r) ==
    ussr_boolean(IF op = "LAND" THEN ussr_value_truthy(l) /\ ussr_value_truthy(r)
                                ELSE ussr_value_truthy(l) \/ ussr_value_truthy(r))

\* Both shifts are of the unsigned bits.
EvaluateShift(op, l, r) ==
    IF ~IsInt(l) \/ ~IsInt(r) \/ Num(r) \notin 0..(Width - 1) THEN Err
    ELSE ussr_integer(IF op = "SHL" THEN Bits(Num(l)) * 2 ^ Num(r)
                                    ELSE Bits(Num(l)) \div 2 ^ Num(r))

EvaluateBits(op, l, r) ==
    IF IsInt(l) /\ IsInt(r) THEN BitOperation(op, Num(l), Num(r)) ELSE Err

EvaluateOrder(op, l, r) ==
    IF vm_numeric(l) /\ vm_numeric(r) THEN ussr_boolean(Compare(op, l, r)) ELSE Err

EvaluateBinary(op, l, r) ==
    CASE op \in {"ADD", "SUB", "MUL"} -> EvaluateArithmetic(op, l, r)
      [] op = "DIV"                   -> EvaluateDivision(l, r)
      [] op = "MOD"                   -> EvaluateModulo(l, r)
      [] op \in {"LAND", "LOR"}       -> EvaluateLogic(op, l, r)
      [] op \in Shift                 -> EvaluateShift(op, l, r)
      [] op \in Bitwise2              -> EvaluateBits(op, l, r)
      [] op \in Comparison            -> EvaluateOrder(op, l, r)
      [] op \in {"EQ", "NE"}          -> ussr_boolean(ussr_values_equal(l, r) = (op = "EQ"))

RECURSIVE ussr_expression_evaluate(_, _)
ussr_expression_evaluate(s, e) ==
    CASE e.k = "val" -> e.v
      [] e.k = "var" -> IF e.x \in DOMAIN s.vars THEN s.vars[e.x] ELSE Err
      [] e.k = "neg" -> Negate(ussr_expression_evaluate(s, e.l))
      [] e.k = "bin" ->
           LET l == ussr_expression_evaluate(s, e.l)
               r == ussr_expression_evaluate(s, e.r)
           IN  CASE l = Err -> Err
                 [] e.op = "LAND" /\ ~ussr_value_truthy(l) -> ussr_boolean(FALSE)
                 [] e.op = "LOR" /\ ussr_value_truthy(l)   -> ussr_boolean(TRUE)
                 [] OTHER -> IF r = Err THEN Err ELSE EvaluateBinary(e.op, l, r)

ussr_argument_evaluate(s, a) ==
    CASE a.k = "exp"  -> ussr_expression_evaluate(s, a.e)
      [] a.k = "look" -> IF a.e.x \in DOMAIN s.hash THEN s.hash[a.e.x] ELSE Err
      [] a.k = "blk"  -> Err

Values(s, as) == [i \in DOMAIN as |-> ussr_argument_evaluate(s, as[i])]
AnErr(vs)     == \E i \in DOMAIN vs : vs[i] = Err

(***************************************************************************)
(* Definitions: a table that grows as they are met.  A call binds the      *)
(* parameters in the caller's own scope and puts it back afterwards.       *)
(***************************************************************************)
NotDefinitions == {"if", "elif", "else", "while", "break", "continue", "return"}

ussr_command_is_definition(c) ==
    /\ Count(c) > 0
    /\ IsBlock(c.a[Count(c)])
    /\ c.n \notin NotDefinitions

ussr_find_definition(s, name) == {i \in DOMAIN s.defs : s.defs[i].n = name}

ussr_define_command(s, c) ==
    IF \/ ussr_find_definition(s, c.n) # {}
       \/ \E i \in 1..(Count(c) - 1) : ~IsVar(c.a[i])
    THEN Failed(s)
    ELSE [s EXCEPT !.defs = <<c>> \o @]

RECURSIVE ussr_execute_list(_, _, _)
RECURSIVE ussr_execute_while(_, _, _, _)
RECURSIVE ussr_execute_do_loop(_, _, _, _)

\* A slip the properties are tried against: nothing is put back.
RestoreNothing(s, names, old) == s

\* The variables of names as they were in old.
Restore(s, names, old) ==
    [s EXCEPT !.vars = [x \in (DOMAIN @ \ names) \cup (DOMAIN old \cap names) |->
                            IF x \in names THEN old[x] ELSE @[x]]]

ussr_execute_user_definition(s, c) ==
    LET d    == s.defs[Min(ussr_find_definition(s, c.n))]
        vs   == Values(s, c.a)
        saved == ToSet(Params(d)) \cup {d.r}
        bound == FoldLeft(LAMBDA t, i : Put(t, Params(d)[i], vs[i]), s, [i \in DOMAIN vs |-> i])
        ran   == ussr_execute_list(Body(d), 1, bound)
        result == IF d.r \in DOMAIN ran.vars THEN ran.vars[d.r] ELSE ussr_null
        back   == Restore(ran, saved, s.vars)
    IN  IF Count(c) # Count(d) - 1 \/ AnErr(vs) THEN Failed(s)
        ELSE IF ran.st \in {"ok", "ret"} THEN Put(Stop(back, "ok"), c.r, result)
        ELSE back

(***************************************************************************)
(* Commands.                                                               *)
(***************************************************************************)
ussr_execute_if(s, c) ==
    LET v   == ussr_argument_evaluate(s, c.a[1])
        yes == ussr_value_truthy(v)
        t   == IF yes \/ Count(c) = 3
               THEN ussr_execute_list(c.a[IF yes THEN 2 ELSE 3].c, 1, s) ELSE s
    IN  IF Count(c) \notin {2, 3} \/ v = Err \/ v.t \notin {"null", "bool", "int", "real", "str"}
        THEN Failed(s)
        ELSE IF Good(t) THEN Put(t, c.r, ussr_boolean(yes)) ELSE t

ussr_execute_while(s, c, n, limit) ==
    LET v == ussr_argument_evaluate(s, c.a[1])
        t == ussr_execute_list(c.a[2].c, 1, s)
    IN  CASE v = Err -> Failed(s)
          [] v # Err /\ ~ussr_value_truthy(v) -> Put(s, c.r, ussr_boolean(TRUE))
          [] OTHER ->
               IF n = limit THEN Failed(s)
               ELSE CASE t.st = "brk" -> Put(Stop(t, "ok"), c.r, ussr_boolean(TRUE))
                      [] t.st \in {"ok", "cnt"} -> ussr_execute_while(Stop(t, "ok"), c, n + 1, limit)
                      [] OTHER -> t

ussr_execute_do_loop(s, c, n, limit) ==        \* do(r): [block] condition
    LET t == ussr_execute_list(c.a[1].c, 1, s)
        u == Stop(t, "ok")
        v == ussr_argument_evaluate(u, c.a[2])
        done(w) == Put(w, c.r, ussr_boolean(TRUE))
    IN  IF Count(c) # 2 \/ ~IsBlock(c.a[1]) \/ n = limit THEN Failed(s)
        ELSE CASE t.st = "brk" -> done(u)
               [] t.st \in {"ok", "cnt"} ->
                    IF v = Err THEN Failed(u)
                    ELSE IF ussr_value_truthy(v) THEN ussr_execute_do_loop(u, c, n + 1, limit)
                    ELSE done(u)
               [] OTHER -> t

Leaving == [break |-> "brk", continue |-> "cnt", return |-> "ret"]

ExecuteLeave(s, c) ==
    IF Count(c) # 1 \/ ussr_argument_evaluate(s, c.a[1]) = Err THEN Failed(s)
    ELSE LET v == ussr_argument_evaluate(s, c.a[1])
             t == Put(s, c.r, v)
         IN  Stop(IF c.a[1].b THEN PutHash(t, c.r, v) ELSE t, Leaving[c.n])

ExecuteGet(s, c) ==
    IF Count(c) # 1 \/ ~IsVar(c.a[1]) \/ c.r \notin DOMAIN s.vars THEN Failed(s)
    ELSE Put(s, c.a[1].e.x, s.vars[c.r])

\* After the command, its marked argument is evaluated again and its value
\* stored in the hash.
StoreMarked(s, c) ==
    LET marked == {i \in DOMAIN c.a : c.a[i].b}
        v      == ussr_argument_evaluate(s, c.a[Min(marked)])
    IN  IF ~Good(s) \/ marked = {} THEN s
        ELSE IF v = Err THEN Failed(s) ELSE PutHash(s, c.r, v)

ussr_execute_eval(s, c) ==
    LET v == ussr_argument_evaluate(s, c.a[1])
        cs == IF v.t = "str" THEN TreeParse(v.v) ELSE <<>>
        t  == ussr_execute_list(cs, 1, s)
    IN  IF Count(c) # 1 \/ v = Err \/ cs = <<>> \/ ~Good(t) THEN Failed(IF cs = <<>> THEN s ELSE t)
        ELSE Put(t, c.r, IF c.r \in DOMAIN t.vars THEN t.vars[c.r] ELSE ussr_null)

ExecuteAdd(s, c) ==
    LET vs == Values(s, c.a)
    IN  IF Count(c) # 2 \/ AnErr(vs) THEN Err ELSE EvaluateArithmetic("ADD", vs[1], vs[2])

ExecuteConcat(s, c) ==
    LET vs == Values(s, c.a)
    IN  IF Count(c) < 2 \/ \E i \in DOMAIN vs : vs[i].t # "str" THEN Err
        ELSE ussr_string(FlattenSeq([i \in DOMAIN vs |-> vs[i].v]))

\* The value of a command that has one.
CommandValue(s, c) ==
    CASE c.n \in {"set", "print"} ->
           IF Count(c) = 1 THEN ussr_argument_evaluate(s, c.a[1]) ELSE Err
      [] c.n = "add"    -> ExecuteAdd(s, c)
      [] c.n = "concat" -> ExecuteConcat(s, c)

\* A host command: its exit status.
ussr_execute_external(s, c) ==
    IF AnErr(Values(s, c.a)) \/ c.n \notin Installed THEN Failed(s)
    ELSE Put(s, c.r, ussr_integer(Child(c.n, <<>>).status))

\* The same with its output kept and input given; ok is false when there is
\* no such command.
ussr_execute_external_io(name, input) ==
    IF name \in Installed THEN [ok |-> TRUE, r |-> Child(name, input)]
    ELSE [ok |-> FALSE, r |-> [output |-> <<>>, status |-> 0]]

(***************************************************************************)
(* "@": controls over a list of host commands.  chain pipes them together  *)
(* (once), capture and file take what came out, reverse turns the list.    *)
(* x carries the pipe, the last status and the targets.                    *)
(***************************************************************************)
ControlNames == {"chain", "file", "filter", "reverse"}

RECURSIVE RunChain(_, _, _)
RunChain(s, x, k) ==
    IF k > Len(x.target) THEN [s |-> s, x |-> [x EXCEPT !.chained = TRUE]]
    ELSE LET c  == x.target[k]
             io == ussr_execute_external_io(c.n, x.pipe)
         IN  IF c.n \in ControlNames \/ AnErr(Values(s, c.a)) \/ ~io.ok
             THEN [s |-> Failed(s), x |-> x]
             ELSE RunChain(Put(s, c.r, ussr_integer(io.r.status)),
                           [x EXCEPT !.pipe = io.r.output, !.status = io.r.status], k + 1)

Control(s, x, c) ==
    CASE c.n = "chain" /\ ~x.chained /\ Count(c) = 0 -> RunChain(s, x, 1)
      [] c.n = "capture" /\ x.chained /\ Count(c) = 0 ->
           [s |-> Put(s, c.r, ussr_string(x.pipe)), x |-> x]
      [] c.n = "file" /\ x.chained /\ Count(c) = 1 /\ ussr_argument_evaluate(s, c.a[1]).t = "str" ->
           [s |-> [s EXCEPT !.files = Append(@, x.pipe)], x |-> x]
      [] c.n = "reverse" -> [s |-> s, x |-> [x EXCEPT !.target = Reverse(@)]]
      [] OTHER -> [s |-> Failed(s), x |-> x]

ussr_execute_advanced_control(s, c) ==
    LET start == [s |-> s, x |-> [pipe |-> <<>>, status |-> 0, chained |-> FALSE,
                                  target |-> c.a[2].c]]
        end   == FoldLeft(LAMBDA p, k : IF Good(p.s) THEN Control(p.s, p.x, k) ELSE p,
                          start, c.a[1].c)
    IN  IF Count(c) # 2 \/ ~IsBlock(c.a[1]) \/ ~IsBlock(c.a[2]) THEN Failed(s)
        ELSE IF ~Good(end.s) \/ ~end.x.chained THEN Failed(end.s)
        ELSE Put(end.s, c.r, ussr_integer(end.x.status))

SchedulerCommands == {"async", "await", "process", "load", "sleep", "yield", "gc"}

ussr_execute_command(s, c) ==
    CASE c.n \in SchedulerCommands -> Failed(s)
      [] c.n = "@"     -> ussr_execute_advanced_control(s, c)
      [] c.n = "if"    -> ussr_execute_if(s, c)
      [] c.n = "while" -> IF Count(c) # 2 \/ ~IsBlock(c.a[2]) THEN Failed(s)
                          ELSE ussr_execute_while(s, c, 0, MaxLoop)
      [] c.n = "do"    -> ussr_execute_do_loop(s, c, 0, MaxLoop)
      [] c.n \in DOMAIN Leaving -> ExecuteLeave(s, c)
      [] c.n = "get"   -> ExecuteGet(s, c)
      [] OTHER ->
           IF Cardinality({i \in DOMAIN c.a : c.a[i].b}) > 1 THEN Failed(s)
           ELSE StoreMarked(
             CASE c.n = "eval" -> ussr_execute_eval(s, c)
               [] c.n \in {"set", "print", "add", "concat"} ->
                    LET v == CommandValue(s, c)
                        t == IF c.n = "print" THEN [s EXCEPT !.out = Append(@, v)] ELSE s
                    IN  IF v = Err THEN Failed(s) ELSE Put(t, c.r, v)
               [] OTHER -> IF ussr_find_definition(s, c.n) # {}
                           THEN ussr_execute_user_definition(s, c)
                           ELSE ussr_execute_external(s, c), c)

ussr_execute_list(cs, i, s) ==
    IF i > Len(cs) \/ ~Good(s) THEN s
    ELSE ussr_execute_list(cs, i + 1,
            IF ussr_command_is_definition(cs[i]) THEN ussr_define_command(s, cs[i])
            ELSE ussr_execute_command(s, cs[i]))

ussr_execute_program(cs) == ussr_execute_list(cs, 1, Fresh)

\* A "@" block met by the machine, over the variables it can see.
TreeBlock(vars, c) == ussr_execute_advanced_control([Fresh EXCEPT !.vars = vars], c)
=============================================================================
