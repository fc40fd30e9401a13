---------------------------- MODULE UssrMeaning -----------------------------
(***************************************************************************)
(* What a USSR program means, stated directly on its commands: no code, no *)
(* registers, no jumps, no patching.  The compiler and the machine are     *)
(* checked against it.                                                     *)
(*                                                                         *)
(* A state s holds the variables of the call that runs (loc, Unset where   *)
(* unassigned), the globals g, the hash h, the output, the unread input,   *)
(* how the last command ended (st: ok, brk, cnt, ret, err) and the fuel    *)
(* left: a program that runs out of loop iterations and calls is cut off   *)
(* as an error.                                                            *)
(***************************************************************************)
EXTENDS UssrVm

Start(in, fuel) == [loc |-> Empty, g |-> Empty, h |-> Empty, out |-> <<>>,
                    in |-> in, st |-> "ok", fuel |-> fuel]

Ok(s)        == s.st = "ok"
Ends(s, how) == [s EXCEPT !.st = how]
Burn(s)      == IF s.fuel = 0 THEN Ends(s, "err") ELSE [s EXCEPT !.fuel = @ - 1]

Lookup(s, x) ==
    IF x \in DOMAIN s.loc THEN NullIfUnset(s.loc[x])
    ELSE NullIfUnset(ussr_scope_lookup(s.g, x))

Assign(s, x, v) ==
    IF v = Err THEN Ends(s, "err")
    ELSE IF x \in DOMAIN s.loc THEN [s EXCEPT !.loc[x] = v]
    ELSE [s EXCEPT !.g = ussr_scope_set(@, x, v)]

\* The result of a command: into its variable or, marked '!', the hash.
Result(s, x, v, bang) ==
    IF bang /\ v # Err THEN [s EXCEPT !.h = ussr_scope_set(@, x, v)] ELSE Assign(s, x, v)

(***************************************************************************)
(* Expressions.                                                            *)
(***************************************************************************)
RECURSIVE Value(_, _)
Value(s, e) ==
    CASE e.k = "val" -> e.v
      [] e.k = "var" -> Lookup(s, e.x)
      [] e.k = "neg" -> LET v == Value(s, e.l) IN IF v = Err THEN Err ELSE Negate(v)
      [] e.k = "bin" ->
           LET l == Value(s, e.l)
           IN  IF l = Err THEN Err
               ELSE IF e.op = "LAND" /\ ~vm_truthy(l) THEN l
               ELSE IF e.op = "LOR" /\ vm_truthy(l) THEN l
               ELSE LET r == Value(s, e.r)
                    IN  IF r = Err \/ e.op \in {"LAND", "LOR"} THEN r
                        ELSE vm_binary(e.op, l, r)

Argument(s, a) ==
    CASE a.k = "exp" -> Value(s, a.e)
      [] a.k = "look" /\ a.e.x \in DOMAIN s.h -> s.h[a.e.x]
      [] OTHER -> Err

ArgumentValues(s, as) == [i \in DOMAIN as |-> Argument(s, as[i])]

AnyErr(vs) == \E i \in DOMAIN vs : vs[i] = Err

(***************************************************************************)
(* The variables of a function: its parameters, its return variable and    *)
(* every name a command of its own body assigns, unless declared global.   *)
(***************************************************************************)
Silent == {"elif", "else", "option", "default", "loop", "global"}

RECURSIVE AssignedIn(_)
AssignedIn(cs) ==
    UNION {LET c == cs[i]
               inner == UNION {AssignedIn(Blocks(c)[j].c) : j \in DOMAIN Blocks(c)}
           IN  CASE bc_is_definition(c) -> {}
                 [] c.n \in Silent \cup {"return"} -> inner
                 [] c.n = "get" -> {Last(c.a).e.x}
                 [] c.n = "scan" -> {c.r} \cup {c.a[j].e.x : j \in 2..Count(c)}
                 [] OTHER -> inner \cup (IF AnyBang(c) THEN {} ELSE {c.r})
           : i \in DOMAIN cs}

Own(d, globals0) ==
    LET hidden == globals0 \cup bc_collect_globals(Body(d))
    IN  ToSet(Params(d)) \cup {d.r}
            \cup (IF "*" \in hidden THEN {} ELSE AssignedIn(Body(d)) \ hidden)

(***************************************************************************)
(* Commands.  P is the program: its functions, its globals, the function   *)
(* that runs (or none) and how deep the calls are.                         *)
(***************************************************************************)
Program(cs) == [fns |-> bc_collect_functions(cs), globals |-> bc_collect_globals(cs),
                ret |-> "", depth |-> 0]

RECURSIVE Run(_, _, _, _, _)
RECURSIVE Loop(_, _, _, _, _)
RECURSIVE Whole(_, _)

Block(P, a, s) == Run(P, a.c, 1, Len(a.c) + 1, s)

\* The body of a loop has run: carry on, leave, or pass on what ended it.
AfterBody(s) == IF s.st = "cnt" THEN Ends(s, "ok") ELSE s

\* While the test holds: the commands of b from position from, then the
\* step command of a for.
Loop(P, test, b, from, s) ==
    LET v == Argument(s, test)
    IN  IF ~Ok(s) THEN s
        ELSE IF v = Err THEN Ends(s, "err")
        ELSE IF ~vm_truthy(v) THEN s
        ELSE LET t == AfterBody(Run(P, b, from, Len(b) + 1, Burn(s)))
                 u == IF Ok(t) /\ from = 3 THEN AfterBody(Run(P, b, 2, 3, t)) ELSE t
             IN  IF u.st = "brk" THEN Ends(u, "ok") ELSE Loop(P, test, b, from, u)

True(s, x) == IF Ok(s) THEN Assign(s, x, ussr_boolean(TRUE)) ELSE s

Apply(P, d, vs, s) ==
    LET own == [x \in Own(d, P.globals) |->
                  LET at == {i \in DOMAIN Params(d) : Params(d)[i] = x}
                  IN  IF at = {} THEN Unset ELSE vs[Max(at)]]
        t   == Burn([s EXCEPT !.loc = own])
        u   == IF Ok(t) THEN Run([P EXCEPT !.ret = d.r, !.depth = @ + 1],
                                 Body(d), 1, Len(Body(d)) + 1, t) ELSE t
    IN  IF P.depth = MaxCalls \/ AnyErr(vs) THEN [v |-> Err, s |-> Ends(s, "err")]
        ELSE [v |-> Lookup(u, d.r),
              s |-> [u EXCEPT !.loc = s.loc, !.st = IF @ = "err" THEN "err" ELSE "ok"]]

Function(P, name) == P.fns[FunctionIndex(P.fns, name)]

Evaluated(P, c, v, s) ==         \* eval: the text is a program in this scope
    LET cs == IF v.t = "str" THEN Parse(v.v) ELSE <<>>
        t  == Whole(cs, s)
    IN  IF cs = <<>> \/ ~Compile(cs).ok THEN Ends(s, "err")
        ELSE IF Ok(t) THEN Assign(t, c.r, Lookup(t, c.r)) ELSE t

Tried(P, c, vs, s) ==            \* try: the call's failure is its result
    LET name == NameText(vs[1].v)
    IN  IF vs[1].t # "str" \/ ~bc_find_function(P.fns, name)
           \/ Len(vs) # Count(Function(P, name))
        THEN Ends(s, "err")
        ELSE LET t == Apply([P EXCEPT !.depth = 0], Function(P, name), Tail(vs), s).s
             IN  Result([t EXCEPT !.st = "ok"], c.r,
                        ussr_integer(IF Ok(t) THEN 0 ELSE 1), AnyBang(c))

Scanned(c, s) ==
    LET format == c.a[1].e.v.v
        values == vm_scan_execute(format, Head(s.in))
        t      == [s EXCEPT !.in = IF @ = <<>> THEN <<>> ELSE Tail(@)]
    IN  IF Len(format) # Count(c) - 1 THEN Ends(s, "err")
        ELSE IF s.in = <<>> \/ AnyErr(values) THEN Ends(t, "err")
        ELSE True(FoldLeft(LAMBDA u, i : Assign(u, c.a[i + 1].e.x, values[i]), t,
                           [i \in DOMAIN values |-> i]), c.r)

Filled(c, vs, s) ==
    LET format == c.a[1].e.v.v
        good   == {n \in 0..Min({Len(format), Len(vs)}) :
                     \A i \in 1..n : vm_template_type(vs[i]) = format[i]}
        t      == [s EXCEPT !.out = @ \o SubSeq(vs, 1, Max(good))]
    IN  IF Max(good) = Len(format) /\ Len(vs) = Len(format) THEN True(t, c.r)
        ELSE Ends(t, "err")

Joined(vs) == IF \E i \in DOMAIN vs : vs[i].t # "str" THEN Err
              ELSE ussr_string(FlattenSeq([i \in DOMAIN vs |-> vs[i].v]))

\* A command that is not a control construct.
Simple(P, c, s) ==
    LET vs == ArgumentValues(s, c.a)
    IN  CASE c.n = "scan" -> Scanned(c, s)
          [] c.n = "get" /\ Count(c) = 1 -> Assign(s, c.a[1].e.x, Lookup(s, c.r))
          [] c.n \in {"get", "set"} /\ Count(c) = 2 -> Ends(s, "err")
          [] AnyErr(vs) -> Ends(s, "err")
          [] bc_find_function(P.fns, c.n) ->
               LET done == Apply(P, Function(P, c.n), vs, s)
               IN  IF Ok(done.s) THEN Assign(done.s, c.r, done.v) ELSE done.s
          [] c.n = "set"      -> Result(s, c.r, vs[1], AnyBang(c))
          [] c.n = "print"    -> Result([s EXCEPT !.out = Append(@, vs[1])], c.r, vs[1], AnyBang(c))
          [] c.n \in DOMAIN ArithmeticCommand ->
               Result(s, c.r, vm_binary(ArithmeticCommand[c.n], vs[1], vs[2]), AnyBang(c))
          [] c.n = "concat"   -> Result(s, c.r, Joined(vs), AnyBang(c))
          [] c.n = "template" -> Filled(c, Tail(vs), s)
          [] c.n = "eval"     -> Evaluated(P, c, vs[1], s)
          [] c.n = "try"      -> Tried(P, c, vs, s)
          [] c.n = "len"      -> Result(s, c.r, ussr_integer(Len(vs[1].v)), AnyBang(c))
          [] c.n = "host"     -> Result(s, c.r, ussr_integer(0), AnyBang(c))
          [] OTHER            -> Ends(s, "err")

LeaveWith(P, c, s) ==            \* break, continue, return
    LET v   == IF Count(c) = 0 THEN ussr_boolean(TRUE) ELSE Argument(s, c.a[1])
        x   == IF c.n = "return" THEN P.ret ELSE c.r
        t   == Result(s, x, v, AnyBang(c))
    IN  IF Ok(t) THEN Ends(t, CASE c.n = "break" -> "brk" [] c.n = "continue" -> "cnt"
                                [] c.n = "return" -> "ret") ELSE t

Command(P, cs, i, s) ==
    LET c == cs[i]
    IN  CASE bc_is_definition(c) \/ c.n = "global" -> s
          [] c.n = "if" ->
               LET v == Argument(s, c.a[1])
                   t == IF vm_truthy(v) THEN Block(P, c.a[2], s)
                        ELSE IF Count(c) = 3 THEN Block(P, c.a[3], s) ELSE s
               IN  IF v = Err THEN Ends(s, "err") ELSE True(t, c.r)
          [] c.n = "while" -> True(Loop(P, c.a[1], c.a[2].c, 1, s), c.r)
          [] c.n = "do" ->         \* the body once, then as a while
               LET t == AfterBody(Block(P, c.a[2], Burn(s)))
               IN  True(IF t.st = "brk" THEN Ends(t, "ok")
                        ELSE Loop(P, cs[i + 1].a[1], c.a[2].c, 1, t), c.r)
          [] c.n = "for" ->        \* initializer, step, body
               True(Loop(P, c.a[1], c.a[2].c, 3, Run(P, c.a[2].c, 1, 2, s)), c.r)
          [] c.n \in {"break", "continue", "return"} -> LeaveWith(P, c, s)
          [] OTHER -> Simple(P, c, s)

\* The first part of a chain whose condition holds; an error ends it.
RECURSIVE FirstPart(_, _, _, _)
FirstPart(cs, ps, k, s) ==
    IF k > Len(ps) THEN 0
    ELSE IF cs[ps[k]].n = "else" THEN k
    ELSE LET v == Argument(s, cs[ps[k]].a[1])
         IN  IF v = Err THEN -1 ELSE IF vm_truthy(v) THEN k ELSE FirstPart(cs, ps, k + 1, s)

Chained(P, cs, i, ps, F(_, _), s) ==
    LET t == Assign(s, cs[i].r, ussr_boolean(FALSE))
        k == FirstPart(cs, ps, 1, t)
    IN  IF k = -1 THEN Ends(t, "err")
        ELSE IF k = 0 THEN t ELSE F(k, True(t, cs[i].r))

\* choose: from the option that matches, or the default, to the end or a
\* break; every part entered marks the result.
RECURSIVE Option(_, _, _, _, _)
Option(cs, ps, k, v, s) ==
    IF k > Len(ps) THEN 0
    ELSE IF cs[ps[k]].n = "default" THEN Option(cs, ps, k + 1, v, s)
    ELSE LET w == Argument(s, cs[ps[k]].a[1])
         IN  IF w = Err THEN -1 ELSE IF vm_equal(v, w) THEN k ELSE Option(cs, ps, k + 1, v, s)

RECURSIVE Fall(_, _, _, _, _, _)
Fall(P, cs, i, ps, k, s) ==
    IF k > Len(ps) \/ ~Ok(s) THEN s
    ELSE Fall(P, cs, i, ps, k + 1,
              Run(P, cs, ps[k] + 1, PartEnd(cs, ps, k), True(s, cs[i].r)))

Chosen(P, cs, i, s) ==
    LET ps   == LabelsAfter(cs, i, ChooseLabels)
        t    == Assign(s, cs[i].r, ussr_boolean(FALSE))
        v    == Argument(t, cs[i].a[1])
        k    == Option(cs, ps, 1, v, t)
        dflt == {j \in DOMAIN ps : cs[ps[j]].n = "default"}
        from == IF k # 0 THEN k ELSE IF dflt = {} THEN Len(ps) + 1 ELSE Min(dflt)
        u    == Fall(P, cs, i, ps, from, t)
    IN  IF v = Err \/ k = -1 THEN Ends(t, "err")
        ELSE IF u.st = "brk" THEN Ends(u, "ok") ELSE u

\* Commands i..stop-1 of cs.
Run(P, cs, i, stop, s) ==
    IF i >= stop \/ ~Ok(s) THEN s
    ELSE LET c == cs[i]
         IN  CASE c.n = "if" /\ Count(c) = 1 ->
                    LET ps == <<i>> \o LabelsAfter(cs, i, IfLabels)
                    IN  Chained(P, cs, i, ps,
                          LAMBDA k, t : Run(P, cs, ps[k] + 1, PartEnd(cs, ps, k), t), s)
               [] /\ c.n = "if" /\ Count(c) = 2 /\ i < Len(cs) /\ cs[i + 1].n \in IfLabels ->
                    LET end == BlockChainEnd(cs, i)
                        ps  == [k \in 1..(end - i) |-> i + k - 1]
                    IN  Run(P, cs, end, stop,
                          Chained(P, cs, i, ps,
                            LAMBDA k, t : Block(P, Last(cs[ps[k]].a), t), s))
               [] c.n = "choose" -> Chosen(P, cs, i, s)
               [] OTHER -> Run(P, cs, IF c.n = "do" THEN i + 2 ELSE i + 1, stop,
                               Command(P, cs, i, s))

\* A whole program in the scope of s.
Whole(cs, s) == Run(Program(cs), cs, 1, Len(cs) + 1, s)

Meaning(cs, in, fuel) ==
    LET P == Program(cs)
        s == Start(in, fuel)
    IN  IF bc_find_function(P.fns, "init")
        THEN Apply(P, Function(P, "init"),
                   <<ussr_integer(0), [t |-> "vec", v |-> <<>>]>>, s).s
        ELSE Whole(cs, s)
=============================================================================
