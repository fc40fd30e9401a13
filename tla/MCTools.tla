------------------------------- MODULE MCTools -------------------------------
(***************************************************************************)
(* The tools around the machine: the preprocessor reading small sets of    *)
(* files; the package manager between a publisher, two servers and a user; *)
(* and a bench on which pure algorithms are each given one bounded input   *)
(* and compared with what they are meant to compute.  tool says which of   *)
(* the three a behaviour is about.                                         *)
(***************************************************************************)
EXTENDS UssrPp, Ural

CONSTANTS MaxSyntaxDepth, MaxFields, MaxCode, MaxAliasDepth, ArenaUnits, MinUnits, SmallPart, MaxResponse, Gap,
          MaxRows, DefaultSize
VARIABLES tool, job, answer     \* job lies on the bench, answer came out

StructTypes == [P |-> <<[name |-> "x", type |-> "number"], [name |-> "y", type |-> "any"]>>,
                Q |-> <<[name |-> "p", type |-> "P"]>>]

Regex == INSTANCE UssrRegex
Ru    == INSTANCE RuFile
Uno   == INSTANCE UnoText
Asm   == INSTANCE Uuasm
Scope == INSTANCE ScopeWarnings
B     == INSTANCE Bench

-----------------------------------------------------------------------------
(* Files for the preprocessor. *)
T(toks) == [k |-> "text", toks |-> toks]
D(m) == [k |-> "define", macro |-> m]
I(f) == [k |-> "include", file |-> f]
O == [k |-> "once"]
Branch(n, items) == [name |-> n, items |-> items]
C(bs, else) == [k |-> "chain", branches |-> bs, else |-> else]
DX == D(Macro("X", FALSE, <<>>, <<"Y", "z">>))
DXX == D(Macro("X", FALSE, <<>>, <<"X">>))
DY == D(Macro("Y", FALSE, <<>>, <<"w">>))
DF == D(Macro("F", TRUE, <<"p">>, <<"p", "+", "p">>))
TX == T(<<"X", "str X">>)
TF == T(<<"F", "(", "X", ")", "Y">>)
Leafs == {DX, DY, I("lib"), TX}
Libs == {<<O, TX>>, <<TX, DX>>, <<I("main")>>, <<C(<<Branch("__MAIN__", <<TX>>)>>, <<O, DY>>), TF>>,
         <<O, DF, I("none")>>, <<DXX>>}
Mains == {<<a, C(<<Branch(n1, <<b>>), Branch(n2, <<c>>)>>, <<C(<<Branch("Y", <<d>>)>>, <<>>)>>), TF, I("lib")>> :
            a \in {DX, DF, I("lib")}, n1 \in {"X", "__MAIN__"}, n2 \in {"X", "Y"}, b, c, d \in Leafs}
MCSources == [main : Mains, lib : Libs]

-----------------------------------------------------------------------------
(* Patterns: loops of every kind around characters, alternatives and loops,*)
(* alone, followed by b and preceded by a, on all texts of a and b.        *)
Chr(c) == [k |-> "chr", c |-> c]
La == Chr(97)
Lb == Chr(98)
Nothing == [k |-> "empty"]
Alt(l, r) == [k |-> "alt", l |-> l, r |-> r]
Cat(l, r) == [k |-> "cat", l |-> l, r |-> r]
G(l) == [k |-> "group", g |-> 1, l |-> l]
Rep(l, n, m, z) == [k |-> "rep", l |-> l, n |-> n, m |-> m, lazy |-> z]
Bodies == {La} \cup {G(Alt(x, y)) : x, y \in {La, Lb, Nothing}}
               \cup {G(Cat(x, y)) : x, y \in {La, Lb}}
               \cup {G(Rep(x, n, m, z)) : x \in {La}, n \in 0..1, m \in {-1, 1}, z \in BOOLEAN}
Counts == {<<0, -1>>, <<2, -1>>, <<0, 2>>, <<1, 3>>, <<0, 0>>}
Loops == {Rep(x, c[1], c[2], z) : x \in Bodies, c \in Counts, z \in BOOLEAN}
\* A loop without a limit whose body would rather match nothing stops after
\* one empty round in this matcher, in a backtracking one it goes on.
LazyRounds(l) == /\ l.m < 0 /\ l.l.k = "group"
                 /\ \/ l.l.l.k = "rep" /\ l.l.l.lazy /\ l.l.l.n = 0
                    \/ l.l.l.k = "alt" /\ l.l.l.l = Nothing
Patterns == UNION {{l, Cat(l, Lb), Cat(La, l)} : l \in {x \in Loops : ~LazyRounds(x)}}
Texts == UNION {[1..n -> {97, 98}] : n \in 0..3}
Bytes == UNION {[1..n -> {97, 129, 160, 195, 224, 237, 240, 244}] : n \in 1..4}
DecodeJobs == [k : {"decode"}, t : Bytes]
RegexJobs == [k : {"regex"}, p : Patterns, t : Texts]

-----------------------------------------------------------------------------
(* Programs for the bytecode file: every operand also just out of range,   *)
(* blocks nested up to and past the limit.                                 *)
Ins(o, b, imm) == [opcode |-> o, b |-> b, immediate |-> imm]
Code(o, b, imm) == <<Ins(o, b, imm), Ins("OOP", 0, 0), Ins("HALT", 0, 0)>>
Value(t, n, s) == [t |-> t, n |-> n, s |-> s]
Command(name, args) == [path |-> "NULL", name |-> name, return_name |-> "NULL", arguments |-> args]
Expr(e) == [k |-> "expression", assignment |-> FALSE, e |-> e]
Var(n) == [k |-> "variable", name |-> n]
Lit == [k |-> "value", v |-> Value("integer", 7, "")]
Bin(l, r) == [k |-> "binary", op |-> 17, l |-> l, r |-> r]
Neg(l) == [k |-> "unary", op |-> 1, l |-> l]
Given(v) == [k |-> "value", assignment |-> TRUE, v |-> v]
Block(k, list) == [k |-> k, assignment |-> FALSE, list |-> list]
Arguments == {Expr(Bin(Var("v"), Lit)), Expr(Neg(Bin(Lit, Var("v")))), Given(Value("boolean", 1, "")),
              Given(Value("struct", 0, "")), [k |-> "uno", assignment |-> FALSE, text |-> "u"],
              [k |-> "lookup", assignment |-> FALSE, e |-> Var("v")]}
SiteArguments == {<<Expr(Var("v")), Given(Value("string", 0, "s"))>>}
  \cup {<<Block("advanced", <<Command("c", <<a>>), Command("d", <<>>)>>)>> : a \in Arguments}
  \cup {<<Block("block", <<Command("c", <<Block("advanced", <<Command("d", <<a>>)>>)>>)>>)>> :
          a \in Arguments}
Site(at, args) == [instruction |-> at, command |-> Command("cmd", args)]
Function(entry, locals) == [name |-> "f", return_name |-> "r", entry |-> entry,
                            parameters |-> <<"p">>, locals |-> locals]
Programs ==
  {[code |-> Code(c[1], c[2], c[3]), constants |-> ks, strings |-> ss,
    functions |-> <<Function(e[1], e[2])>>, oop_sites |-> <<Site(at, args)>>, scan_sites |-> <<>>] :
     c \in {<<"JMP", 0, 2>>, <<"JMP", 0, 3>>, <<"LOAD_CONST", 0, 0>>, <<"LOAD_CONST", 0, 1>>,
            <<"LOAD_VAR", 2, 1>>, <<"LOAD_VAR", 3, 0>>, <<"LOAD_VAR", 0, 2>>, <<"CALL", 0, 1>>,
            <<"CALL", 0, 0>>, <<"NEWER", 0, 0>>},
     ks \in {<<Value("real", 5, "")>>, <<Value("null", 0, "")>>}, ss \in {<<"a", "NULL">>, <<"a", "b">>},
     e \in {<<2, <<"p", "r">>>>, <<3, <<"p", "r">>>>, <<2, <<"p">>>>},
     at \in {1, 2}, args \in SiteArguments}
Sound == {p \in Programs : Ru!Runnable(p)}
FileJobs == [k : {"file"}, program : Programs, damage : {"none"}]
       \cup [k : {"file"}, program : Sound, damage : {"cut", "longer", "changed", "renamed"}]

(* What can have become of the file since it was written.                  *)
Damaged(file, how) ==
  CASE how = "none" -> file
    [] how = "cut" -> [file EXCEPT !.items = SubSeq(@, 1, Len(@) - 1)]
    [] how = "longer" -> [file EXCEPT !.items = Append(@, Ru!Num(4, 0))]
    [] how = "changed" -> [file EXCEPT !.items[1] = Ru!Num(4, 2)]
    [] how = "renamed" -> [file EXCEPT !.version = 2]

-----------------------------------------------------------------------------
(* Values for UNO text. *)
Scalars == {[t |-> "null"], [t |-> "boolean", n |-> 0], [t |-> "integer", n |-> -3],
            [t |-> "real", n |-> 20], [t |-> "real", n |-> 10000000], [t |-> "string", s |-> "s"],
            [t |-> "string", s |-> "tick"]}
Vectors(items) == {[t |-> "vector", items |-> i] : i \in {<<>>} \cup {<<x, y>> : x, y \in items}}
Structs(items) == {[t |-> "struct", type |-> "P", fields |-> <<[t |-> "integer", n |-> 1], y>>] : y \in items}
Trees(items) == {[t |-> "btree", pairs |-> <<<<[t |-> "integer", n |-> 1], x>>, <<[t |-> "string", s |-> "s"], x>>>>] :
                   x \in items}
Flat == Scalars \cup Vectors(Scalars) \cup Structs(Scalars) \cup Trees(Scalars)
Deep == Flat \cup Vectors(Structs(Scalars)) \cup Structs(Vectors({[t |-> "null"]}) \cup Trees(Scalars))
             \cup {[t |-> "struct", type |-> "Q", fields |-> <<p>>] : p \in Structs(Scalars) \cup {[t |-> "null"]}}
UnoJobs == [k : {"uno"}, v : Deep, drop : 0..4]

-----------------------------------------------------------------------------
(* Assembler texts: up to four lines, a line HALT and a label at the end. *)
AsmLines == {[k |-> "header"], [k |-> "word"], [k |-> "odd"],
             [k |-> "label", name |-> "l"], [k |-> "label", name |-> "m"],
             [k |-> "jump", opcode |-> "JMP", label |-> "l"], [k |-> "jump", opcode |-> "JMP_TRUE", label |-> "m"],
             [k |-> "jump", opcode |-> "ADD", label |-> "l"],
             [k |-> "instruction", opcode |-> "ADD", immediate |-> 4],
             [k |-> "const", index |-> 0, value |-> 5], [k |-> "const", index |-> 1, value |-> 6],
             [k |-> "string", index |-> 0, text |-> "s"],
             [k |-> "function", name |-> "f", entry |-> "l"], [k |-> "function", name |-> "f", entry |-> "m"]}
AsmEnds == {<<[k |-> "instruction", opcode |-> "HALT", immediate |-> 0]>>,
            <<[k |-> "instruction", opcode |-> "HALT", immediate |-> 0], [k |-> "label", name |-> "m"]>>, <<>>}
AsmJobs == {[k |-> "asm", lines |-> <<h>> \o ls \o e] :
              h \in {[k |-> "header"], [k |-> "word"]}, ls \in UNION {[1..n -> AsmLines] : n \in 0..3}, e \in AsmEnds}

-----------------------------------------------------------------------------
(* Code whose scopes are looked at: two functions of two instructions and  *)
(* one instruction outside.                                                *)
Access(o, n, s, by) == [op |-> o, name |-> n, scope |-> s, targets |-> {}, by |-> by]
Accesses == {Access(o, n, s, "set") : o \in {"LOAD", "STORE"}, n \in {"a", "b"}, s \in {"by_name", "local"}}
            \cup {Access("STORE", "a", "local", "if"), Access("LOAD", "a", "global", "set")}
            \cup {[op |-> "SCAN", name |-> "fmt", scope |-> "by_name", targets |-> {"a"}, by |-> "scan"]}
ScopeFunctions == {<<[first |-> 1, last |-> 2, locals |-> {"a"}, parameters |-> {}, return_name |-> "r"],
                     [first |-> 3, last |-> 4, locals |-> {"a", "b"}, parameters |-> ps, return_name |-> "b"]>> :
                     ps \in {{}, {"b"}}}
TopLevel == {Access("LOAD", "a", "by_name", "set"), Access("LOAD", "b", "by_name", "set"),
             Access("STORE", "b", "by_name", "set")}
ScopeJobs == {[k |-> "scope", code |-> <<w, x, y, z, top>>, functions |-> fs] :
                w, x, y \in Accesses, z \in {a \in Accesses : a.op # "STORE"}, top \in TopLevel, fs \in ScopeFunctions}
Variables == {"a", "b", "fmt"}

-----------------------------------------------------------------------------
(* Package a depends on b; b depends on nothing, and in version 2 on a, so *)
(* that there can be a cycle.                                              *)
MCListing == <<<<"meta", "b", 1>>, <<"arch", "a", 2>>, <<"arch", "b", 1>>, <<"meta", "a", 2>>,
               <<"arch", "b", 2>>, <<"meta", "a", 1>>, <<"meta", "b", 2>>, <<"arch", "a", 1>>>>
MCServers == <<"s1", "s2">>
MCDeps(p, v) == IF p = "a" THEN <<"b">> ELSE IF v = 2 THEN <<"a">> ELSE <<>>
MCFilesOf(p, v) == IF v = 1 THEN {"box", "f1"} ELSE {"box", "f2"}
MCDirsOf(p, v) == IF p = "b" THEN {"dir"} ELSE {}

-----------------------------------------------------------------------------
None == [k |-> "none"]

NoSource == /\ source = [main |-> <<>>, lib |-> <<>>] /\ open = <<>> /\ conds = <<>> /\ active = TRUE
           /\ defs = <<>> /\ once = {} /\ out = <<>> /\ line = 0 /\ status = "none"

(* The package manager later: the user has installed a, and b with it, and *)
(* the publisher has changed, packed and uploaded one of them.             *)
Installed(p) == [v |-> 1, rev |-> 1, files |-> FilesOf(p, 1)]
First(f) == IF f[3] = 1 THEN 1 ELSE 0
Packed(p, v) == [f \in FileIds |-> IF f[2] = p /\ f[3] = v THEN 2 ELSE First(f)]
Listed(files) == {Row(f[2], f[3], files[f], files[f], Home) : f \in {f \in FileIds : files[f] # 0}}
UpdatesInit ==
  /\ tool = "updates" /\ NoSource /\ job = None
  /\ \E p \in Packages, v \in Versions :
        /\ work = [q \in Packages |-> IF q = p THEN [v |-> v, rev |-> 2] ELSE [v |-> 1, rev |-> 1]]
        /\ repo = Packed(p, v) /\ index = Listed(repo)
  /\ pub = Idle /\ edits = 1 /\ published = 2
  /\ served = [s \in ServerSet |->
                  IF s = Home THEN [files |-> repo, index |-> index]
                  ELSE [files |-> [f \in FileIds |-> First(f)], index |-> {Row(q, 1, 1, 1, s) : q \in Packages}]]
  /\ trusted = {Home} /\ seeded = TRUE
  /\ db = [p \in Packages |-> Installed(p)]
  /\ dest = [p \in Packages |-> Whole(p, 1, 1)]
  /\ backups = {} /\ frames = <<>> /\ op = [k |-> "idle", p |-> ""]
  /\ torn = {} /\ stuck = {} /\ commands = 0 /\ faults = 0 /\ crashed = FALSE

(* From the first command on there are fewer of them, and one fault. *)
EarlyCommands == 2
EarlyFaults   == 1
Early == commands' <= EarlyCommands /\ faults' <= EarlyFaults

StartInit ==
        /\ UralInit
        /\ \/ tool = "preprocessor" /\ PpInit /\ job = None
           \/ tool = "packages" /\ NoSource /\ job = None
           \/ /\ tool = "bench" /\ NoSource
              /\ \/ job \in RegexJobs
                 \/ job \in DecodeJobs
                 \/ job \in FileJobs
                 \/ job \in UnoJobs
                 \/ job \in AsmJobs
                 \/ job \in ScopeJobs
                 \/ job \in B!KeyJobs \cup B!BindJobs \cup B!AliasJobs \cup B!HeapJobs \cup B!SortJobs
                 \/ job \in B!HttpJobs \cup B!LineJobs \cup B!LayoutJobs
                 \/ job \in B!AnswerJobs \cup B!AskJobs \cup B!HistoryJobs \cup B!ManifestJobs
Init == answer = None /\ (StartInit \/ UpdatesInit)

Does(k) == job.k = k /\ answer = None /\ UNCHANGED <<ppVars, uralVars, tool, job>>
Answer(v) == answer' = [k |-> job.k, v |-> v]

Search == Does("regex") /\ Answer(Regex!ussr_regex_search(job.p, {}, 1, job.t, 0))
Character == Does("decode") /\ Answer(Regex!re_decode(job.t, 1))

Reload ==
  /\ Does("file")
  /\ LET file == Ru!ussr_ru_write_file(job.program)
     IN Answer(IF file.written THEN Ru!ussr_ru_read_file(Damaged(file, job.damage)) ELSE Ru!Bad)

(* Token number drop is lost from the text, none when drop is 0.           *)
TextOf(v, drop) ==
  LET text == Uno!uno_encode_value(v)
  IN IF drop \in DOMAIN text THEN RemoveAt(text, drop) ELSE text
Decode == Does("uno") /\ Answer(Uno!ussr_uno_decode(TextOf(job.v, job.drop)))

Assemble == Does("asm") /\ Answer(Asm!ussr_uuasm_assemble(job.lines))

Warn == Does("scope") /\ Answer(Scope!bc_scope_warnings(job.code, job.functions, Variables))

Console == Does("console") /\ Answer(B!DoConsole(job))
Name    == Does("chord") /\ Answer(B!DoChord(job))
Bind    == Does("bind") /\ Answer(B!DoBind(job))
Expand  == Does("alias") /\ Answer(B!DoAlias(job))
UseHeap == Does("heap") /\ Answer(B!DoHeap(job))
Sort    == Does("sort") /\ Answer(B!DoSort(job))
Fetch   == Does("http") /\ Answer(B!DoHttp(job))
Address == Does("lines") /\ Answer(B!DoLines(job))
LayOut  == Does("layout") /\ Answer(B!DoLayout(job))
Ask     == Does("ask") /\ Answer(B!DoAsk(job))
Listen  == Does("answer") /\ Answer(B!DoAnswer(job))
Recall  == Does("history") /\ Answer(B!DoHistory(job))
Declare == Does("manifest") /\ Answer(B!DoManifest(job))

Next == \/ tool = "preprocessor" /\ PpNext /\ UNCHANGED <<uralVars, tool, job, answer>>
        \/ tool = "packages" /\ UralNext /\ Early /\ UNCHANGED <<ppVars, tool, job, answer>>
        \/ tool = "updates" /\ UralNext /\ UNCHANGED <<ppVars, tool, job, answer>>
        \/ Search \/ Character \/ Reload \/ Decode \/ Assemble \/ Warn
        \/ Console \/ Name \/ Bind \/ Expand \/ UseHeap \/ Sort \/ Fetch \/ Address \/ LayOut
        \/ Listen \/ Ask \/ Recall \/ Declare
Spec == Init /\ [][Next]_<<ppVars, uralVars, tool, job, answer>>

-----------------------------------------------------------------------------
\* A search finds the leftmost match a backtracking matcher would find, with
\* the same groups (regex.c, re_add_thread and the copies of re_repeat).
SearchRight == answer.k = "regex" => answer.v = Regex!Matches(job.p, {}, 1, job.t, 0)

(* The table of well-formed UTF-8, surrogates included as they are here.   *)
Tails(t, n) == Len(t) > n /\ \A i \in 2..n + 1 : t[i] \in 128..191
StartsWell(t) ==
  \/ t[1] < 128
  \/ t[1] \in 194..223 /\ Tails(t, 1)
  \/ t[1] \in 224..239 /\ Tails(t, 2) /\ (t[1] = 224 => t[2] >= 160)
  \/ t[1] \in 240..244 /\ Tails(t, 3) /\ (t[1] = 240 => t[2] >= 144) /\ (t[1] = 244 => t[2] <= 143)

\* A character is decoded exactly where a well-formed sequence begins, which is
\* the one its value is written as; any other byte stands for itself (regex.c).
DecodeRight ==
  answer.k = "decode" =>
    LET valid == {n \in 1..Len(job.t) : /\ answer.v.c < Regex!RE_BAD_BYTE
                                        /\ SubSeq(job.t, 1, n) = B!Ai!Utf8(answer.v.c)}
    IN  IF valid = {} THEN answer.v = [c |-> Regex!RE_BAD_BYTE + job.t[1], size |-> 1] /\ ~StartsWell(job.t)
        ELSE answer.v.size \in valid

\* What was compiled is read back as it was, block by block, and nothing the
\* machine could not run is read at all: not a damaged file, not an operand
\* outside its pool, not a site on another instruction (ussr_ru.c).
Storable(p) == Ru!ussr_ru_write_file(p).written
FileRight ==
  answer.k = "file" =>
    LET p == job.program IN
    /\ answer.v.ok <=> Storable(p) /\ job.damage = "none" /\ Ru!Runnable(p)
    /\ answer.v.ok => answer.v.v = Ru!AsStored(p)

\* A value written as text is read back as it was; text that lost a token is
\* refused or read as a value that itself goes through text unchanged (uno.c).
UnoRight ==
  answer.k = "uno" =>
    LET whole == job.drop \notin DOMAIN Uno!uno_encode_value(job.v) IN
    /\ whole => /\ answer.v.ok <=> Uno!Writable(job.v)
                /\ answer.v.ok => answer.v.v = Uno!InText(job.v)
    /\ answer.v.ok => Uno!ussr_uno_decode(Uno!uno_encode_value(answer.v.v)).v = answer.v.v

\* An assembled text is accepted exactly when it is well formed, and then has
\* the code, entries and pools its lines describe (ussr_uuasm.c).
AsmRight ==
  answer.k = "asm" =>
    /\ answer.v.ok <=> Asm!WellFormed(job.lines)
    /\ answer.v.ok => Asm!Assembled(answer.v) = Asm!Meant(job.lines)

\* The compiler warns of a variable exactly when its scope is suspect, in each
\* function as if it were alone (ussr_bytecode.c, bc_scope_warnings).
WarnRight ==
  answer.k = "scope" => answer.v = Scope!WarningsMeant(job.code, job.functions, Variables)

\* Key chords, aliases, the heap, sorting, HTTP replies and layouts come out
\* as the predicates of Bench say (keybind.c, alias.c, libc.c, ryazan.c,
\* petersburg.c), so do answers of the prompt command, the history file and
\* package manifests (ai.c, history.c, ural_manifest.c).
ToolsRight ==
  LET v == answer.v IN
  /\ answer.k \in {"console", "chord"} => B!KeyRight(job, v)
  /\ answer.k = "bind" => B!BindRight(job, v)
  /\ answer.k = "alias" => B!AliasRight(job, v)
  /\ answer.k = "heap" => B!HeapRight(job, v)
  /\ answer.k = "sort" => B!SortRight(job, v)
  /\ answer.k = "http" => B!HttpRight(job, v)
  /\ answer.k = "lines" => B!LinesRight(job, v)
  /\ answer.k = "layout" => B!LayoutRight(job, v)
  /\ answer.k = "answer" => B!AnswerRight(job, v)
  /\ answer.k = "ask" => B!AskRight(job, v)
  /\ answer.k = "history" => B!HistoryRight(job, v)
  /\ answer.k = "manifest" => B!ManifestRight(job, v)

\* The pure algorithms compute what they are meant to: the matcher what a
\* backtracking search finds, the bytecode file the program that was stored
\* and nothing that cannot run, UNO text the value it came from, the assembler
\* the program its lines describe, the compiler's warnings the suspect names.
AlgorithmsRight ==
  /\ SearchRight /\ DecodeRight /\ FileRight /\ UnoRight /\ AsmRight /\ WarnRight
  /\ ToolsRight
=============================================================================
