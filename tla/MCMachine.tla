----------------------------- MODULE MCMachine ------------------------------
(***************************************************************************)
(* The machine and its data: programs run to their end, the B+ tree under  *)
(* puts and deletes, and the counted heap under the commands that share    *)
(* objects.  part says which of the three a behaviour is about; the others *)
(* stay as they began.  The programs are families that put every construct *)
(* of the language into every other one that matters.                      *)
(***************************************************************************)
EXTENDS UssrMeaning, UssrTree, BTree, UssrHeap

CONSTANTS Fuel,                 \* loop iterations and calls of a program
          Parts,                \* which of the three are looked at
          Reference(_, _, _),   \* what a program means
          Walk(_)               \* what the tree interpreter makes of it

\* Building blocks of programs.
I(n)          == [k |-> "val", v |-> ussr_integer(n)]
S(p)          == [k |-> "val", v |-> ussr_string(<<p>>)]
V(x)          == [k |-> "var", x |-> x]
B(op, l, r)   == [k |-> "bin", op |-> op, l |-> l, r |-> r]
Neg(l)        == [k |-> "neg", l |-> l]
E(e)          == [k |-> "exp", e |-> e, b |-> FALSE]
Bang(e)       == [k |-> "exp", e |-> e, b |-> TRUE]
Look(x)       == [k |-> "look", e |-> V(x), b |-> FALSE]
Blk(cs)       == [k |-> "blk", c |-> cs, b |-> FALSE]
C(n, r, a)    == [n |-> n, r |-> r, a |-> a]
Set(x, e)     == C("set", x, <<E(e)>>)
Show(e)       == C("print", "_", <<E(e)>>)
True1         == [k |-> "val", v |-> ussr_boolean(TRUE)]
Null1         == [k |-> "val", v |-> ussr_null]
Inc(x)        == Set(x, B("ADD", V(x), I(1)))

P(cs)         == [cs |-> cs, in |-> <<>>]

(***************************************************************************)
(* Expressions: every operator on every pair of leaves, nested logic, the  *)
(* register limit.                                                         *)
(***************************************************************************)
Leaves == {I(-2), I(3), I(0), S(100), True1, Null1, V("x"), V("u"), B("DIV", I(1), I(2))}

Expressions ==
    {B(op, l, r) : op \in BinaryOps, l \in Leaves, r \in Leaves}
    \cup {B(op, B(o, V("x"), r), l) : op \in {"LAND", "LOR", "SUB"},
            o \in {"LAND", "LOR", "DIV", "LT"}, r \in {I(0), I(3)}, l \in {V("x"), S(100)}}
    \cup {B(op, l, B(o, r, V("u"))) : op \in {"LAND", "LOR", "SUB"},
            o \in {"LAND", "LOR", "ADD", "EQ"}, r \in {I(0), I(3)}, l \in {V("x"), I(0)}}
    \cup {Neg(l) : l \in Leaves}
    \cup {B("ADD", V("x"), B("ADD", V("x"), B("ADD", V("x"), l))) : l \in {I(1), Neg(V("x"))}}

ExpressionPrograms ==
    {P(<<Set("x", I(3)), Show(e), Set("y", e)>>) : e \in Expressions}

(***************************************************************************)
(* Loops: each kind with every pair of statements in its body.             *)
(***************************************************************************)
Cond(n) == B("EQ", V("i"), I(n))

Statements ==
    {Show(V("i")), C("break", "b", <<>>), C("break", "b", <<E(V("i"))>>),
     C("continue", "b", <<Bang(V("i"))>>),
     C("if", "c", <<E(Cond(1)), Blk(<<C("break", "_", <<>>)>>)>>),
     C("if", "c", <<E(Cond(1)), Blk(<<C("continue", "_", <<>>)>>), Blk(<<Show(I(5))>>)>>),
     C("while", "w", <<E(B("LT", V("j"), I(2))), Blk(<<Inc("j"),
            C("if", "_", <<E(Cond(1)), Blk(<<C("continue", "_", <<>>)>>)>>),
            C("break", "_", <<>>)>>)>>),
     C("div", "d", <<E(I(1)), E(B("SUB", V("i"), I(1)))>>)}

Chosen3(s, o) == <<C("choose", "k", <<E(V("i"))>>), C("option", "_", <<E(I(1))>>), s,
                   C("option", "_", <<E(I(2))>>), Show(I(6)), C("default", "_", <<>>), o>>

Bodies ==
    {<<s, t>> : s, t \in Statements}
    \cup {Chosen3(s, t) : s, t \in Statements}
    \cup {<<C("if", "c", <<E(Cond(1)), Blk(<<s>>)>>),
            C("elif", "_", <<E(Cond(2)), Blk(<<t>>)>>),
            C("else", "_", <<Blk(<<Show(I(4))>>)>>), Show(V("c"))>> : s, t \in Statements}
    \cup {<<C("if", "c", <<E(Cond(1))>>), s, C("elif", "_", <<E(Cond(2))>>), t,
            C("else", "_", <<>>), Show(I(4))>> : s, t \in Statements}

Test == E(B("LT", V("i"), I(3)))

\* A for body is compiled command by command: no chains directly in it.
LoopPrograms ==
    {P(<<Set("i", I(0)), C("while", "r", <<Test, Blk(<<Inc("i")>> \o b)>>), Show(V("r"))>>)
        : b \in Bodies}
    \cup {P(<<Set("i", I(0)), C("do", "r", <<E(I(0)), Blk(<<Inc("i")>> \o b)>>),
              C("loop", "_", <<Test>>), Show(V("i"))>>) : b \in Bodies}
    \cup {P(<<C("for", "r", <<Test, Blk(<<Set("i", I(0)), Inc("i"), s, t>>)>>), Show(V("i"))>>)
            : s, t \in Statements}
    \cup {P(<<Set("i", I(1))>> \o Chosen3(s, t)) : s, t \in Statements}
    \cup {P(<<Set("i", I(1)), C("while", "_", <<E(True1), Blk(<<s>>)>>)>>) : s \in Statements}

(***************************************************************************)
(* Functions: parameters, locals, globals, the hash, recursion, nested     *)
(* definitions, returns out of loops, eval and try.                        *)
(***************************************************************************)
Def(f, ret, ps, body) == C(f, ret, [i \in DOMAIN ps |-> E(V(ps[i]))] \o <<Blk(body)>>)

TEXT(n) == E(S(n))

FunctionStatements ==
    {Set("x", V("p")), Set("p", B("ADD", V("p"), V("x"))), Set("r", V("x")),
     C("return", "_", <<E(V("p"))>>), C("return", "_", <<Bang(V("p"))>>),
     C("global", "_", <<E(V("x"))>>), C("global", "_", <<E(V("*"))>>),
     C("set", "p", <<Bang(V("x"))>>), Set("x", B("MOD", V("p"), V("x"))),
     C("if", "_", <<E(B("GT", V("p"), I(0))),
            Blk(<<C("f", "x", <<E(B("SUB", V("p"), I(1)))>>)>>)>>),
     C("while", "_", <<E(True1), Blk(<<C("return", "_", <<E(V("x"))>>)>>)>>),
     C("eval", "x", <<TEXT(101)>>), C("eval", "x", <<TEXT(102)>>),
     C("g", "y", <<>>), C("f", "y", <<E(V("p"))>>), C("get", "p", <<E(V("x"))>>),
     C("try", "y", <<TEXT(103)>>), C("scan", "_", <<TEXT(INT), E(V("x"))>>)}

G(body) == Def("g", "z", <<>>, body)

Callee == {<<Set("x", B("ADD", V("x"), I(1)))>>, <<C("global", "_", <<E(V("x"))>>), Inc("x")>>,
           <<C("mod", "x", <<E(I(1)), E(I(0))>>)>>, <<C("eval", "z", <<TEXT(102)>>)>>}

FunctionPrograms ==
    {[cs |-> <<Def("f", "r", <<"p">>, <<s, t>>), G(c), Set("x", I(2)), C("f", "y", <<E(I(1))>>),
               Show(V("x")), Show(V("y")), C("try", "e", <<TEXT(104), E(V("x"))>>),
               Show(V("e")), Show(V("x"))>>,
      in |-> <<<<4, 100>>>>] : s, t \in FunctionStatements, c \in Callee}
    \cup {P(<<Def("f", "r", <<"p">>, <<Def("h", "q", <<"x">>, <<s>>), t>>), G(<<>>),
              C("h", "y", <<E(I(2))>>), Show(V("y"))>>) : s, t \in FunctionStatements}
    \cup {P(<<Def("init", "r", <<"p", "x">>, <<s, t>>), Show(I(1))>>) : s, t \in FunctionStatements}

\* Programs that must not compile, and the odd builtin.
OddPrograms ==
    {P(<<s>>) : s \in Statements \cup FunctionStatements}
    \cup {P(<<Def("f", "r", <<>>, <<>>), Def("f", "r", <<>>, <<>>)>>),
          P(<<Def("init", "r", <<>>, <<>>)>>),
          P(<<C("global", "_", <<E(V("x"))>>), Def("f", "r", <<>>, <<Inc("x")>>),
              Set("x", I(1)), C("f", "_", <<>>), Show(V("x"))>>),
          P(<<C("set", "k", <<Bang(I(3))>>), C("print", "_", <<Look("k")>>),
              C("add", "k", <<Look("k"), Bang(I(1))>>), C("print", "_", <<Look("q")>>)>>),
          P(<<C("concat", "s", <<E(S(100)), E(S(101)), E(S(100))>>), Show(V("s")),
              C("len", "n", <<E(V("s"))>>), Show(V("n")), C("concat", "s", <<E(V("s")), E(I(1))>>)>>),
          P(<<C("host", "s", <<E(I(1))>>), Show(V("s")), C("absent", "s", <<>>)>>),
          P(<<C("@", "s", <<Blk(<<C("capture", "t", <<>>)>>), Blk(<<>>)>>)>>),
          P(<<C("set", "v", <<E(I(0)), E(I(1))>>)>>), P(<<C("get", "v", <<E(I(0)), E(V("x"))>>)>>)}
    \cup {P(<<C("template", "t", <<E([k |-> "val", v |-> ussr_string(<<INT, STR>>)]), E(l), E(r)>>),
              Show(V("t"))>>) : l, r \in {I(1), S(100), True1}}
    \cup {[cs |-> <<C("scan", "t", <<E([k |-> "val", v |-> ussr_string(<<INT, BOOL>>)]),
                                       E(V("x")), E(V("y"))>>), Show(V("y"))>>,
           in |-> in] : in \in {<<>>, <<<<1>>>>, <<<<5, 1>>>>, <<<<5, 2>>>>, <<<<100, 0, 3>>>>}}

(***************************************************************************)
(* Programs the two interpreters must agree on: no division or right shift, *)
(* logic on booleans only, no undefined variable, valued break, continue    *)
(* and return, functions that assign their result first and then only it   *)
(* and their parameter.                                                    *)
(***************************************************************************)
PlainLeaves == {I(-2), I(3), S(100), True1, V("x")}

PlainExpressions ==
    {B(op, l, r) : op \in BinaryOps \ {"DIV", "SHR", "LAND", "LOR"},
                   l \in PlainLeaves, r \in PlainLeaves}
    \cup {B(op, B(o, V("x"), l), B("EQ", V("x"), r)) : op \in {"LAND", "LOR"},
                   o \in {"LT", "EQ", "GE"}, l \in PlainLeaves, r \in PlainLeaves}

PlainStatements ==
    {Show(V("i")), C("break", "b", <<E(V("i"))>>), C("continue", "b", <<E(V("i"))>>),
     C("if", "c", <<E(Cond(1)), Blk(<<C("break", "_", <<E(I(0))>>)>>)>>),
     C("if", "c", <<E(Cond(1)), Blk(<<C("continue", "_", <<E(I(0))>>)>>), Blk(<<Show(I(5))>>)>>),
     C("while", "w", <<E(B("LT", V("j"), I(2))), Blk(<<Inc("j"),
            C("if", "_", <<E(Cond(1)), Blk(<<C("continue", "_", <<E(I(0))>>)>>)>>),
            C("break", "_", <<E(I(0))>>)>>)>>),
     C("f", "i", <<E(V("i"))>>)}

PlainBodies ==
    {Set("r", V("p")), Set("p", B("SUB", V("p"), I(1))), C("return", "r", <<E(B("ADD", V("p"), I(1)))>>),
     C("if", "_", <<E(B("GT", V("p"), I(1))), Blk(<<C("f", "r", <<E(B("SUB", V("p"), I(1)))>>),
                                                    C("return", "r", <<E(V("r"))>>)>>)>>),
     C("add", "r", <<E(V("p")), E(I(2))>>), C("if", "_", <<E(B("GT", V("p"), I(0))), Blk(<<Show(V("p"))>>)>>)}

PlainPrograms ==
    {P(<<Set("x", I(3)), Show(e)>>) : e \in PlainExpressions}
    \cup {P(<<Def("f", "r", <<"p">>, <<Set("r", B("ADD", V("p"), I(1)))>>),
              Set("i", I(0)), Set("j", I(0)),
              C("while", "r", <<Test, Blk(<<Inc("i"), s, t>>)>>), Show(V("i")), Show(V("r"))>>)
            : s, t \in PlainStatements}
    \cup {P(<<Def("f", "r", <<"p">>, <<Set("r", I(0)), s, t>>), Set("p", I(7)), Set("r", I(6)),
              C("f", "y", <<E(I(2))>>), Show(V("y")), Show(V("p")), Show(V("r"))>>)
            : s, t \in PlainBodies}

MCChild(name, text) == [output |-> Append(text, 100), status |-> 0]

MCSources == PlainPrograms \cup ExpressionPrograms \cup LoopPrograms \cup FunctionPrograms \cup OddPrograms

\* 101 assigns where it is evaluated, 102 defines and calls a function.
MCParse(text) ==
    CASE text = <<101>> -> <<Set("x", I(3)), Set("n", V("p"))>>
      [] text = <<102>> -> <<Def("k", "x", <<"x">>, <<Set("m", V("x")),
                                C("div", "x", <<E(I(1)), E(V("x"))>>)>>),
                             C("k", "x", <<E(V("x"))>>)>>
      [] OTHER -> <<>>

MCNameText(text) == CASE text = <<103>> -> "g" [] text = <<104>> -> "f" [] OTHER -> "none"

----------------------------------------------------------------------------
(* The three parts. *)

VARIABLE part

MCKeys   == {[s |-> FALSE, v |-> i] : i \in 1..5} \cup {[s |-> TRUE, v |-> 0]}
MCFields == [Node |-> <<"any", "Node">>]

objects == <<heap, slots, releasing, types, inCall, drifted>>
all == <<vars, treeVars, objects, part>>

AtRest == /\ source = [cs |-> <<>>, in |-> <<>>] /\ status = "rest"
          /\ vm = vm_init([ok |-> FALSE, code |-> <<>>, fns |-> <<>>], 0)
          /\ outer = <<>> /\ locals = <<>> /\ globals = Empty /\ hash = Empty /\ out = <<>> /\ input = <<>>

MachineInit == /\ TreeInit /\ HeapInit /\ part \in Parts
               /\ \/ part = "program" /\ Init
                  \/ part # "program" /\ AtRest

MachineNext == \/ part = "program" /\ Next /\ UNCHANGED <<treeVars, objects, part>>
               \/ part = "tree" /\ TreeNext /\ UNCHANGED <<vars, objects, part>>
               \/ part = "heap" /\ HeapNext /\ UNCHANGED <<vars, treeVars, part>>

MachineSpec == MachineInit /\ [][MachineNext]_all

(***************************************************************************)
(* Properties.                                                             *)
(***************************************************************************)
\* Every program does what it means: it ends well exactly when its meaning
\* does, and then and on an error it has printed the same values and left
\* the same variables and hash (ussr_bytecode.c and vm_execute together;
\* a program cut off by a limit only has to end with an error).
MeansWhatItSays ==
    status \in {"done", "error"} =>
        LET m == Reference(source.cs, source.in, Fuel)
        IN  /\ (status = "error") = (m.st = "err")
            /\ \/ m.st = "err" /\ m.fuel = 0
               \/ out = m.out /\ globals = m.g /\ hash = m.h

\* The two interpreters agree: a program of the part of the language they
\* share prints the same values and ends the same way when ussr_execute_program
\* walks it as when it is compiled and run; a call leaves its caller's
\* variables alone in both.
WalkerAgrees ==
    status \in {"done", "error"} /\ source \in PlainPrograms =>
        LET t == Walk(source.cs)
        IN  (status = "error") = (t.st # "ok") /\ out = t.out

RECURSIVE Frames(_)
Frames(os) == IF os = <<>> THEN 0 ELSE Len(Last(os).m.frames) + Frames(Front(os))

\* While a machine runs, the stack of locals is exactly the calls that are
\* open in it and in the machines that wait for it: the unwinding of try
\* (main.c 1484) and of RET keep them in step, so that no call can see or
\* write another call's variables.
LocalsAreOpenCalls ==
    status = "run" => Len(locals) = Len(vm.frames) + Frames(outer)

\* While a behaviour is about the tree, every command answers as the map that the
\* puts and deletes so far ask for would (btree.c).
TreesAnswer == part = "tree" => AnswersAgree

\* And no node is lost, shared, too full or too empty, whatever bt_insert has split
\* and bt_fix borrowed or merged.
TreesKeepShape == part = "tree" => ShapeKept
=============================================================================
