-------------------------------- MODULE Bench --------------------------------
(***************************************************************************)
(* Bounded inputs for the smaller algorithms of the interpreter and its    *)
(* libraries (key chords, aliases, the C library, HTTP, window layout) and *)
(* what each of them is meant to answer.                                   *)
(***************************************************************************)
EXTENDS Integers, Sequences, FiniteSets

CONSTANTS MaxAliasDepth, ArenaUnits, MinUnits, SmallPart, MaxResponse, Gap, MaxRows, DefaultSize

Reserved == {"if"}
Components == {"a", "b", "1"}

Repl   == INSTANCE Repl
Lib    == INSTANCE CLibrary
Http   == INSTANCE RyazanHttp
Layout == INSTANCE PetersburgLayout
Ai     == INSTANCE AiClient
Man    == INSTANCE UralManifest

Upto(n, S) == UNION {[1..i -> S] : i \in 0..n}

-----------------------------------------------------------------------------
(* Key chords: every code of a console, every chord of up to three words.  *)
KeyWords == {Repl!KeyWord(t, 0) : t \in {"ctrl", "alt", "shift", "word"}}
            \cup {Repl!KeyWord("", k) : k \in {97, 99, 109, 115, 104, 49, Repl!F(1), Repl!F(5), Repl!F(12), Repl!F(13)}}
KeyJobs == [k : {"console"}, prefix : {0, 224}, code : 0..140] \cup [k : {"chord"}, words : Upto(3, KeyWords)]
CtrlA == {<<Repl!KeyWord("ctrl", 0), Repl!KeyWord("", 97)>>, <<Repl!KeyWord("", 99), Repl!KeyWord("", 97)>>}
AltF1 == {<<Repl!KeyWord("alt", 0), Repl!KeyWord("", Repl!F(1))>>}
BindJobs == [k : {"bind"}, sets : Upto(3, (CtrlA \cup AltF1) \X {"one", "two", Repl!Unbound})]

DoConsole(j) == Repl!keybind_decode(Repl!ussr_keybind_getch_sequence(j.prefix, j.code))
DoChord(j) == Repl!ussr_keybind_parse(j.words)

RECURSIVE BindAll(_, _)
BindAll(table, sets) ==
  IF sets = <<>> THEN table ELSE BindAll(Repl!ussr_keybind_set(table, Head(sets)[1], Head(sets)[2]), Tail(sets))
DoBind(j) == BindAll(<<>>, j.sets)

(* What terminals send for a chord: xterm, and rxvt's other last bytes.    *)
Modifiers(c) == 1 + (IF "shift" \in c.mods THEN 1 ELSE 0) + (IF "alt" \in c.mods THEN 2 ELSE 0)
                  + (IF "ctrl" \in c.mods THEN 4 ELSE 0)
Encodings(c) ==
  LET f == c.key - Repl!F(0)
      alt == IF "alt" \in c.mods THEN <<27>> ELSE <<>>
      letter == alt \o <<IF "ctrl" \in c.mods THEN c.key - 96 ELSE c.key>>
      number == Repl!Decimal(Repl!Tilde[f])
      digit == 48 + Modifiers(c)
      rxvt == CASE "ctrl" \in c.mods /\ "shift" \in c.mods -> 64 [] "ctrl" \in c.mods -> 94
                [] "shift" \in c.mods -> 36 [] OTHER -> 126
  IN  IF f < 1 THEN {letter}
      ELSE {alt \o <<27, 91>> \o number \o <<rxvt>>, <<27, 91>> \o number \o <<59, digit, 126>>}
           \cup (IF f <= 4 THEN {<<27, 91, 49, 59, digit, 79 + f>>} ELSE {})
           \cup (IF f <= 4 /\ c.mods = {} THEN {<<27, 79, 79 + f>>} ELSE {})
           \cup (IF f <= 5 /\ c.mods = {} THEN {<<27, 91, 91, 64 + f>>} ELSE {})

\* A chord that can be bound is recognised in the bytes every terminal sends
\* for it, never in Backspace, Tab or Enter, and can be given by the name it is
\* listed under; a console key comes through the terminal's bytes as itself (keybind.c).
KeyRight(j, v) ==
  /\ j.k = "console" => v = Repl!keybind_getch_decode(j.prefix, j.code)
  /\ (j.k = "chord" /\ v # Repl!NoChord) =>
       /\ Repl!ussr_keybind_parse(Repl!ussr_keybind_name(v)) = v
       /\ \A s \in Encodings(v) : Repl!keybind_decode(s) = v
       /\ \A byte \in {8, 9, 10, 13} : Repl!keybind_decode(<<byte>>) # v

LastLine(sets, spellings) ==
  LET given == {i \in DOMAIN sets : sets[i][1] \in spellings}
  IN  IF given = {} THEN Repl!Unbound ELSE sets[CHOOSE i \in given : \A j \in given : j <= i][2]

\* A key runs the line its chord was last bound to, however the chord was
\* spelled and whether a terminal or a console reports the key (keybind.c).
BindRight(j, table) ==
  LET Runs(chord, prefix, code, line) ==
        /\ Repl!ussr_keybind_match_getch(table, prefix, code) = line
        /\ \A s \in Encodings(chord) : Repl!ussr_keybind_match_sequence(table, s) = line
  IN  /\ Runs(Repl!Chord({"ctrl"}, 97), 1, 1, LastLine(j.sets, CtrlA))
      /\ Runs(Repl!Chord({"alt"}, Repl!F(1)), 0, 104, LastLine(j.sets, AltF1))

-----------------------------------------------------------------------------
(* Aliases: three times an alias is set or removed, then a line is expanded*)
Settings == {"a", "b", "if"} \X {<<>>, <<"b">>, <<"a", "y">>, <<"c", "x">>} \cup {<<"c", <<"d">>>>}
Cmd(name, path, args) == [name |-> name, path |-> path, arguments |-> args]
InBlock == Repl!Block(<<Cmd("a", FALSE, <<Repl!Word("v")>>), Cmd("b", FALSE, <<>>)>>)
AliasJobs == [k : {"alias"}, sets : [1..3 -> Settings],
              line : {Cmd(n, p, as) : n \in {"a", "b"}, p \in BOOLEAN,
                        as \in {<<>>, <<Repl!Word("w")>>, <<InBlock>>, <<InBlock, Repl!Word("w")>>}}]

RECURSIVE SetAll(_, _)
SetAll(table, sets) ==
  IF sets = <<>> THEN table ELSE SetAll(Repl!ussr_alias_set(table, Head(sets)[1], Head(sets)[2]), Tail(sets))
DoAlias(j) == Repl!ussr_alias_expand(SetAll(<<>>, j.sets), <<j.line>>)

(* An alias stands for the words it was last given.                        *)
Meaning(sets, name) ==
  LET given == {i \in DOMAIN sets : sets[i][1] = name}
  IN  IF given = {} \/ name \in Reserved THEN <<>>
      ELSE sets[CHOOSE i \in given : \A j \in given : j <= i][2]
(* The names a command goes through: each used once, at most so many.      *)
Chains(sets, name) ==
  {c \in UNION {[1..n -> {"a", "b", "c", "d"}] : n \in 1..MaxAliasDepth + 1} :
     /\ c[1] = name
     /\ \A i \in 1..Len(c) - 1 : Meaning(sets, c[i]) # <<>> /\ Head(Meaning(sets, c[i])) = c[i + 1]
     /\ \A i, j \in 1..Len(c) - 1 : c[i] = c[j] => i = j}
Longest(sets, name) ==
  CHOOSE c \in Chains(sets, name) : \A d \in Chains(sets, name) : Len(d) <= Len(c)
RECURSIVE Given(_, _)
Given(sets, c) ==       \* the words the chain puts before the arguments
  IF Len(c) < 2 THEN <<>> ELSE Given(sets, Tail(c)) \o Tail(Meaning(sets, c[1]))
RECURSIVE Expanded(_, _)
Expanded(sets, c) ==
  LET inner == [i \in DOMAIN c.arguments |->
                  IF c.arguments[i].k = "word" THEN c.arguments[i]
                  ELSE Repl!Block([j \in DOMAIN c.arguments[i].list |-> Expanded(sets, c.arguments[i].list[j])])]
      keeps == c.path \/ (inner # <<>> /\ inner[Len(inner)].k = "block")
      chain == Longest(sets, c.name)
      before == Given(sets, chain)
  IN  IF keeps THEN Cmd(c.name, c.path, inner)
      ELSE Cmd(chain[Len(chain)], c.path, [i \in DOMAIN before |-> Repl!Word(before[i])] \o inner)

\* A line is expanded by the aliases as they were last set, each once, the
\* words of the first one nearest to its arguments, in blocks as outside, and
\* never a path or a command that takes a block (alias.c).
AliasRight(j, v) == v = <<Expanded(j.sets, j.line)>>

-----------------------------------------------------------------------------
(* The heap: allocate so many units, free or enlarge the n-th live block.  *)
HeapOps == {<<"malloc", n>> : n \in {1, 3, 5}} \cup {<<"free", i>> : i \in 1..3}
           \cup {<<"realloc", i>> : i \in 1..2}
HeapJobs == [k : {"heap"}, ops : Upto(5, HeapOps)]

RECURSIVE UseHeap(_, _, _)
UseHeap(h, live, ops) ==
  IF ops = <<>> THEN [h |-> h, live |-> live]
  ELSE LET i == Head(ops)[2]
           m == Lib!malloc(h, i)
           r == Lib!realloc(h, live[i].b, live[i].n + 2)
       IN CASE Head(ops)[1] = "malloc" /\ m.b < 0 -> UseHeap(h, live, Tail(ops))
            [] Head(ops)[1] = "malloc" /\ m.b >= 0 -> UseHeap(m.h, Append(live, [b |-> m.b, n |-> i]), Tail(ops))
            [] i \notin DOMAIN live /\ Head(ops)[1] # "malloc" -> UseHeap(h, live, Tail(ops))
            [] i \in DOMAIN live /\ Head(ops)[1] = "free" ->
                 UseHeap(Lib!free(h, live[i].b), [j \in 1..Len(live) - 1 |-> live[IF j < i THEN j ELSE j + 1]], Tail(ops))
            [] i \in DOMAIN live /\ Head(ops)[1] = "realloc" ->
                 IF r.b < 0 THEN UseHeap(h, live, Tail(ops))
                 ELSE UseHeap(r.h, [live EXCEPT ![i] = [b |-> r.b, n |-> @.n + 2]], Tail(ops))
DoHeap(j) == UseHeap(Lib!heap_init, <<>>, j.ops)

RECURSIVE Walk(_, _)
Walk(h, at) == IF at >= ArenaUnits THEN <<>>
               ELSE <<at>> \o Walk(h, IF h.head[at].size < 1 THEN ArenaUnits ELSE at + h.head[at].size)

\* After any calls the blocks fill the arena, each with one size at both ends,
\* no two free ones side by side; the list holds the free ones, once each, and
\* what is in use is what was handed out, as large as asked (moscow libc.c).
HeapRight(j, v) ==
  LET h == v.h
      walk == Walk(h, 0)
      starts == {walk[i] : i \in DOMAIN walk}
      free == {b \in starts : ~h.head[b].used}
      End(b) == b + h.head[b].size
  IN  /\ End(walk[Len(walk)]) = ArenaUnits
      /\ \A b \in starts : h.foot[End(b)] = h.head[b] /\ h.head[b].size >= MinUnits
      /\ \A b \in free : End(b) \notin free
      /\ {h.free[i] : i \in DOMAIN h.free} = free /\ Len(h.free) = Cardinality(free)
      /\ {v.live[i].b : i \in DOMAIN v.live} = starts \ free /\ Len(v.live) = Cardinality(starts \ free)
      /\ \A i \in DOMAIN v.live : h.head[v.live[i].b].size >= v.live[i].n
      /\ h.used = Layout!Sum(LAMBDA b : h.head[b].size, starts \ free)

(* Arrays counted from 0. *)
SortJobs == [k : {"sort"}, a : UNION {[0..n - 1 -> 1..3] : n \in 0..6}]
Length(a) == Cardinality(DOMAIN a)
DoSort(j) == Lib!qsort(j.a, 0, Length(j.a))
Times(a, x) == Cardinality({i \in DOMAIN a : a[i] = x})

\* Sorting orders what it was given, and a search of the result finds exactly
\* what is there (usa libc.c).
SortRight(j, v) ==
  /\ \A x \in 1..3 : Times(v, x) = Times(j.a, x)
  /\ \A i \in DOMAIN v : i > 0 => v[i - 1] <= v[i]
  /\ \A x \in 0..4 : LET at == Lib!bsearch(v, Length(v), x)
                     IN  IF Times(v, x) = 0 THEN at = -1 ELSE at \in DOMAIN v /\ v[at] = x

-----------------------------------------------------------------------------
(* Replies of an HTTP server, cut off after so many bytes and arriving in  *)
(* pieces of one size.                                                     *)
Reply(valid, status, length, encoding) ==
  [valid |-> valid, status |-> status, length |-> length, encoding |-> encoding]
Datas == {<<1>>, <<Http!LF, 3>>, <<0, Http!CR, Http!LF>>}
Eol(strict) == IF strict THEN <<Http!CR, Http!LF>> ELSE <<Http!LF>>
RECURSIVE Encoded(_, _)
Encoded(parts, strict) ==
  IF parts = <<>> THEN <<0>> \o Eol(strict)
  ELSE <<0, Len(parts[1])>> \o (IF strict THEN <<>> ELSE <<Http!Ext>>) \o Eol(strict) \o parts[1] \o Eol(strict)
       \o Encoded(Tail(parts), strict)
RECURSIVE Joined(_)
Joined(parts) == IF parts = <<>> THEN <<>> ELSE Head(parts) \o Joined(Tail(parts))

(* head and body sent, how much of it must arrive, and the body meant.     *)
Answers ==
  {[head |-> Reply(TRUE, 200, Http!Unknown, "chunked"), sent |-> Encoded(ps, s) \o rest,
    needed |-> Len(Encoded(ps, s)), body |-> Joined(ps)] : ps \in Upto(2, Datas), s \in BOOLEAN, rest \in {<<>>, <<Http!CR, Http!LF>>}}
  \cup {[head |-> Reply(TRUE, 200, Len(d), "none"), sent |-> d, needed |-> Len(d), body |-> d] : d \in Upto(2, {0, Http!LF})}
  \cup {[head |-> Reply(TRUE, 200, Http!Unknown, e), sent |-> d, needed |-> -1, body |-> d] : d \in Upto(2, {0, Http!LF}), e \in {"none", "gzip"}}
  \cup {[head |-> Reply(TRUE, s, Http!Unknown, "none"), sent |-> <<>>, needed |-> 0, body |-> <<>>] : s \in {204, 304}}
  \cup {[head |-> h, sent |-> <<1, 3>>, needed |-> 99, body |-> <<>>] :       \* never right
          h \in {Reply(FALSE, 200, 1, "none"), Reply(TRUE, 200, Http!Unknown, "chunked"), Reply(TRUE, 200, 5, "none")}}
  \cup {[head |-> Reply(TRUE, 200, Http!Unknown, "chunked"), sent |-> b, needed |-> 99, body |-> <<>>] :
          b \in {<<Http!Ext, Http!LF>>, <<1, Http!LF, 3, 3, Http!LF, 0, Http!LF>>, <<9, 9, 9, Http!LF>>}}

Url(scheme, host, port, rest) == [scheme |-> scheme, host |-> host, port |-> port, rest |-> rest]
GoodUrl == Url("https", "name", Http!Unknown, "/")
Urls == {Url(s, h, p, r) : s \in {"http", "https", "ftp"}, h \in {"name", "empty", "user@host"},
                           p \in {Http!Unknown, 0, 443, 65535, 65536}, r \in {"", "/", "#"}}
Fails == {"none", "method", "headers", "no tls", "socket", "connect", "session", "handshake"}
SimpleReply == [head |-> Reply(TRUE, 200, 1, "none"), sent |-> <<7>>, needed |-> 1, body |-> <<7>>]
HttpJobs ==
  [k : {"http"}, url : {GoodUrl}, fails : {"none"}, tries : {<<2, 1>>}, reply : Answers, cut : 0..20,
   step : {1, 2, 5, 99}, end : {"closed", "timeout", "broken"}]
  \cup [k : {"http"}, url : Urls, fails : Fails, tries : {<<2, 1>>}, reply : {SimpleReply}, cut : {9}, step : {9}, end : {"closed"}]
  \cup [k : {"http"}, url : {GoodUrl, Url("http", "name", Http!Unknown, "")}, fails : {"none"}, tries : Upto(4, {-1, 0, 1, 2}),
        reply : {SimpleReply}, cut : {9}, step : {9}, end : {"closed"}]

Stream(j) == LET all == <<50, 51>> \o j.reply.sent
             IN  Http!Take(all, IF j.cut < Len(all) THEN j.cut ELSE Len(all))
RECURSIVE Pieces(_, _)
Pieces(s, n) == IF s = <<>> THEN <<>> ELSE IF Len(s) <= n THEN <<s>>
                ELSE <<Http!Take(s, n)>> \o Pieces(Http!Drop(s, n), n)
DoHttp(j) == Http!ryazan_http_request(j.url, j.fails, j.tries, j.reply.head, Pieces(Stream(j), j.step), j.end)

(* The request went out: two bytes sent before any failure, over TLS then  *)
(* flushed.                                                                *)
Went(j) ==
  \E n \in 0..Len(j.tries) :
    /\ \A i \in 1..n : j.tries[i] >= 0
    /\ Layout!Sum(LAMBDA i : j.tries[i], 1..n) >= 2
    /\ \/ j.url.scheme = "http"
       \/ \E m \in n + 1..Len(j.tries) : j.tries[m] > 0 /\ \A i \in n + 1..m : j.tries[i] >= 0
GoodRequest(j) ==
  /\ j.url.scheme \in {"http", "https"} /\ j.url.host = "name"
  /\ j.url.port = Http!Unknown \/ (j.url.port \in 1..65535 /\ j.url.rest # "#")
  /\ j.fails \in {"none"} \cup (IF j.url.scheme = "http" THEN {"no tls", "session", "handshake"} ELSE {})
  /\ Went(j)

\* A reply is handed out exactly when it arrived whole, as the server meant
\* it, however it was cut into pieces, and waits for nothing once it has; a
\* reply without any length ends when the server closes (ryazan.c).
HttpRight(j, v) ==
  LET got == Len(Stream(j)) - Http!HeadSize
      whole == IF j.reply.needed < 0 THEN got >= 0 /\ j.end = "closed" ELSE got >= j.reply.needed
  IN  /\ v.r.ok <=> GoodRequest(j) /\ whole
      /\ v.r.ok => v.r.body = Http!Take(j.reply.body, IF j.reply.needed < 0 THEN got ELSE Len(j.reply.body))

(* The header lines of a request. *)
Names == {"user-agent", "accept", "content-length", "x"}
LineJobs == [k : {"lines"}, method : {"GET", "PUT"}, body : BOOLEAN, given : Upto(2, Names)]
DoLines(j) == Http!Request(j.method, j.given, j.body)

\* Every request names its agent, what it accepts and the length of its body,
\* and repeats nothing the caller gave once (ryazan.c).
LinesRight(j, v) ==
  /\ \A n \in {"user-agent", "accept"} : \E i \in DOMAIN v : v[i] = n
  /\ (j.body \/ j.method = "PUT") => \E i \in DOMAIN v : v[i] = "content-length"
  /\ \A i, k \in DOMAIN v : (v[i] = v[k] /\ i # k) => Cardinality({n \in DOMAIN j.given : j.given[n] = v[i]}) > 1

-----------------------------------------------------------------------------
(* Windows of up to four widgets. *)
Widgets == {Layout!Fresh(TRUE, 9), Layout!Fresh(FALSE, 10), Layout!petersburg_pack(Layout!Fresh(FALSE, 7), TRUE)}
           \cup {Layout!petersburg_grid(Layout!Fresh(FALSE, 3 * r + 5), r, c, c = r) : r \in 0..2, c \in 0..1}
Windows == [width : {61}, height : {70, 150}, margin : {0, 16}]
LayoutJobs == [k : {"layout"}, window : Windows, widgets : Upto(4, Widgets)]
DoLayout(j) == Layout!petersburg_layout(j.window, j.widgets)

\* Widgets lie in the window and not over one another (petersburg.c).
LayoutRight(j, v) == Layout!LaidOut(j.window, j.widgets, v)

-----------------------------------------------------------------------------
(* JSON: trees of values, written with or without space and with           *)
(* characters as they are or escaped.  Strings are sequences of codes.     *)
StrV(s) == [k |-> "str", s |-> s]
NumV == [k |-> "num"]
ObjV(m) == [k |-> "obj", m |-> m]
ArrV(v) == [k |-> "arr", v |-> v]
None == [k |-> "none"]

EscapedCode(c) ==
  LET u == <<92, 117>> IN
  IF c < 65536 THEN u \o Ai!HexText(c)
  ELSE u \o Ai!HexText(55296 + ((c - 65536) \div 1024)) \o u \o Ai!HexText(56320 + ((c - 65536) % 1024))
Utf8Of(c) == CASE c = 233 -> <<195, 169>> [] c = 8364 -> <<226, 130, 172>> [] c = 128512 -> <<240, 159, 152, 128>>
               [] OTHER -> <<c>>
RawCode(c) == IF c < 128 THEN Ai!JsonByte(c) ELSE Utf8Of(c)
RECURSIVE Glue(_, _), Rendered(_, _, _)
Glue(parts, sep) == IF parts = <<>> THEN <<>> ELSE IF Len(parts) = 1 THEN parts[1]
                    ELSE parts[1] \o sep \o Glue(Tail(parts), sep)
Rendered(v, sp, esc) ==
  LET gap == IF sp THEN <<32, 10>> ELSE <<>>
      Text(s) == <<34>> \o Glue([i \in DOMAIN s |-> IF esc THEN EscapedCode(s[i]) ELSE RawCode(s[i])], <<>>) \o <<34>>
      comma == gap \o <<44>> \o gap
  IN CASE v.k = "str" -> Text(v.s)
       [] v.k = "num" -> <<45, 55>>
       [] v.k = "arr" -> <<91>> \o gap \o Glue([i \in DOMAIN v.v |-> Rendered(v.v[i], sp, esc)], comma) \o gap \o <<93>>
       [] v.k = "obj" -> <<123>> \o gap \o
            Glue([i \in DOMAIN v.m |-> <<34>> \o v.m[i][1] \o <<34>> \o gap \o <<58>> \o gap \o Rendered(v.m[i][2], sp, esc)], comma)
            \o gap \o <<125>>

Strings == Upto(2, {97, 34, 92, 10, 1, 233, 8364, 128512})
FewStrings == {<<>>, <<97>>, <<34, 92>>, <<128512, 93>>}
Noise == {NumV, StrV(<<34, 125>>), ArrV(<<ObjV(<<<<Ai!Content, NumV>>>>), StrV(<<44>>), ArrV(<<>>)>>)}
TextBlock(s) == ObjV(<<<<Ai!Text, StrV(s)>>>>)
SomeBlocks == {TextBlock(s) : s \in FewStrings} \cup {ObjV(<<>>), ObjV(<<<<Ai!Role, ArrV(<<NumV>>)>>, <<Ai!Text, StrV(<<92>>)>>>>)}
Mains == {<<Ai!Content, ArrV(bs)>> : bs \in Upto(2, SomeBlocks)} \cup {<<Ai!Content, ArrV(<<TextBlock(s)>>)>> : s \in Strings}
         \cup {<<Ai!Offered, ArrV(<<ObjV(<<<<Ai!Role, n>>, <<Ai!Message, ObjV(<<<<Ai!Content, v>>>>)>>>>), NumV>>)>> :
                 n \in Noise, v \in {StrV(s) : s \in FewStrings} \cup {NumV}}
         \cup {<<Ai!Offered, ArrV(<<>>)>>, <<Ai!Error, ObjV(<<<<Ai!Message, StrV(<<97>>)>>>>)>>, <<Ai!Error, NumV>>}
Documents == {ObjV(<<m>>) : m \in Mains} \cup {ObjV(<<<<Ai!Role, n>>, m>>) : n \in Noise, m \in Mains}
             \cup {ObjV(<<m, <<Ai!Error, ObjV(<<<<Ai!Message, StrV(<<97>>)>>>>)>>>>) : m \in Mains}
AnswerJobs == [k : {"answer"}, tree : Documents, anthropic : BOOLEAN, sp : BOOLEAN, esc : BOOLEAN]
DoAnswer(j) == Ai!ai_parse_answer(Rendered(j.tree, j.sp, j.esc), j.anthropic)

Get(v, key) == IF v.k # "obj" \/ ~\E i \in DOMAIN v.m : v.m[i][1] = key THEN None
               ELSE v.m[CHOOSE i \in DOMAIN v.m : v.m[i][1] = key /\ \A h \in 1..i - 1 : v.m[h][1] # key][2]
Nth(v, i) == IF v.k # "arr" \/ i \notin DOMAIN v.v THEN None ELSE v.v[i]
Bytes(v) == Glue([i \in DOMAIN v.s |-> Utf8Of(v.s[i])], <<>>)
TextsOf(v) == IF v.k # "arr" THEN <<>> ELSE SelectSeq([i \in DOMAIN v.v |-> Get(v.v[i], Ai!Text)], LAMBDA x : x.k = "str")
MeantAnswer(v, anthropic) ==
  LET texts == TextsOf(Get(v, Ai!Content))
      said == Get(Get(Nth(Get(v, Ai!Offered), 1), Ai!Message), Ai!Content)
  IN  IF Get(Get(v, Ai!Error), Ai!Message) # None THEN Ai!Sorry("provider")
      ELSE IF anthropic
      THEN IF texts = <<>> THEN Ai!Sorry("no answer") ELSE Ai!Said(Glue([i \in DOMAIN texts |-> Bytes(texts[i])], <<>>))
      ELSE IF said.k = "str" THEN Ai!Said(Bytes(said)) ELSE Ai!Sorry("no answer")

\* The answer found in a reply is the text its structure says, in UTF-8,
\* whatever else is in it and however it is spaced and escaped (ai.c).
AnswerRight(j, v) == v = MeantAnswer(j.tree, j.anthropic)

(* Settings of the prompt command. *)
Question == <<34, 97, 10, 92, 1>>
AskJobs == [k : {"ask"}, reply : {[ok |-> o, status |-> 500, text |-> <<>>] : o \in BOOLEAN},
            e : [provider : {"", "claude", "openai", "other"}, url : {"default", "http", "https", "file"}, model : BOOLEAN,
                 key : BOOLEAN, tokens : {"unset", "bad", "set"}, timeout : {"unset", "bad"}, curl : BOOLEAN, path : BOOLEAN,
                 tls : BOOLEAN, system : {<<>>, <<34>>}]]
DoAsk(j) == Ai!ussr_ai_prompt(j.e, Question, j.reply)

(* What curl reads from a quoted value in its configuration, from p on.    *)
Unescaped(c) == CASE c = 110 -> 10 [] c = 114 -> 13 [] c = 116 -> 9 [] c = 118 -> 11 [] OTHER -> c
RECURSIVE CurlReads(_, _)
CurlReads(t, p) ==
  CASE p > Len(t) \/ t[p] = 34 -> <<>>
    [] t[p] = 92 -> <<Unescaped(t[p + 1])>> \o CurlReads(t, p + 2)
    [] OTHER -> <<t[p]>> \o CurlReads(t, p + 1)

TurnAt(b, n) == Ai!json_at(b, Ai!Path(b, <<Ai!Messages>>), n)
TurnText(b, n) == Ai!json_string(b, Ai!json_get(b, TurnAt(b, n), Ai!Content)).s

\* A question is sent only with settings that make sense, without a key only
\* to a server of one's own, and the request is one JSON value in which the
\* model reads the question and the system text as they were given (ai.c).
AskRight(j, v) ==
  LET e == j.e
      b == IF v.out.way = "curl" THEN CurlReads(v.out.body, 2) ELSE v.out.body
      n == IF e.provider = "openai" /\ e.system # <<>> THEN 1 ELSE 0
  IN  /\ v.out.way # "none" <=>
           /\ e.provider # "other" /\ (e.model \/ e.provider # "openai") /\ (e.key \/ e.url # "default")
           /\ e.tokens # "bad" /\ e.timeout # "bad"
           /\ e.curl \/ e.path \/ e.url = "http" \/ (e.tls /\ e.url # "file")
      /\ v.out.way # "none" =>
           /\ v.out.way = "native" => e.url # "file" /\ (e.url = "http" \/ e.tls)
           /\ Ai!json_skip(b, 1) = Len(b) + 1
           /\ TurnText(b, n) = Question
           /\ TurnAt(b, n + 1) = 0
           /\ e.system # <<>> =>
                (IF n = 1 THEN TurnText(b, 0) ELSE Ai!json_string(b, Ai!Path(b, <<Ai!System>>)).s) = e.system
      /\ ~v.r.ok

-----------------------------------------------------------------------------
(* Two REPLs start and take lines. *)
HistoryOps == {<<r, l>> : r \in 1..2, l \in {<<>>, <<1>>, <<2>>}}        \* no line: r starts
HistoryJobs ==
  {j \in [k : {"history"}, ops : Upto(4, HistoryOps), size : {-1, 1, 0}, file : {<<>>, <<1, 13, 10, 10, 2, 10>>}] :
     \A a, b \in DOMAIN j.ops : (j.ops[a] = j.ops[b] /\ j.ops[a][2] = <<>>) => a = b}
RECURSIVE UseHistory(_, _, _, _)
UseHistory(repls, file, given, j) ==
  IF j.ops = <<>> THEN [file |-> file, given |-> given]
  ELSE LET r == Head(j.ops)[1]
           l == Head(j.ops)[2]
           loaded == Repl!ussr_history_load(repls[r], file, j.size, "unset", TRUE)
           added == Repl!ussr_history_append(repls[r], file, l)
           rest == [j EXCEPT !.ops = Tail(@)]
       IN  IF l = <<>> THEN UseHistory([repls EXCEPT ![r] = loaded.repl], loaded.file, Append(given, loaded.entries), rest)
           ELSE UseHistory([repls EXCEPT ![r] = added.repl], added.file, Append(given, <<>>), rest)
DoHistory(j) == UseHistory(<<Repl!Off, Repl!Off>>, j.file, <<>>, j)

LastOf(s) == IF s = <<>> THEN <<>> ELSE s[Len(s)]
LastN(s, n) == SubSeq(s, IF Len(s) > n THEN Len(s) - n + 1 ELSE 1, Len(s))
(* All lines kept after the first n operations: not the one a REPL had last*)
RECURSIVE LogOf(_, _)
LogOf(j, n) ==
  IF n = 0 THEN Repl!LinesFrom(j.file, 1)
  ELSE LET before == LogOf(j, n - 1)
           mine == {i \in 1..n - 1 : j.ops[i][1] = j.ops[n][1] /\ (j.ops[i][2] = <<>> \/ \E h \in 1..i : j.ops[h] = <<j.ops[i][1], <<>>>>)}
           prev == CHOOSE i \in mine : \A h \in mine : h <= i
           seen == IF j.ops[prev][2] = <<>> THEN LastOf(LogOf(j, prev)) ELSE j.ops[prev][2]
       IN  IF j.ops[n][2] = <<>> \/ mine = {} THEN before
           ELSE IF seen = j.ops[n][2] THEN before ELSE Append(before, j.ops[n][2])

\* A REPL is given the last lines entered in any REPL, repeats left out, and
\* keeping the file short loses none of them (history.c).
HistoryRight(j, v) ==
  LET size == IF j.size < 0 THEN DefaultSize ELSE j.size
      left == Repl!LinesFrom(v.file, 1)
      log == LogOf(j, Len(j.ops))
  IN  IF size = 0 THEN v.file = j.file /\ \A n \in DOMAIN v.given : v.given[n] = <<>>
      ELSE /\ Len(left) <= Len(log) /\ left = LastN(log, Len(left))
           /\ LastN(left, size) = LastN(log, size)
           /\ \A n \in DOMAIN j.ops : j.ops[n][2] = <<>> => v.given[n] = LastN(LogOf(j, n), size)

-----------------------------------------------------------------------------
(* Manifests: fields in any order, one token lost.                         *)
FieldPool == {<<"name", <<Man!Str("a")>>>>, <<"name", <<Man!Str("A/")>>>>, <<"version", <<Man!Str("1")>>>>,
              <<"dependencies", <<Man!Sign("["), Man!Sign("]")>>>>,
              <<"dependencies", <<Man!Sign("["), Man!Str("a"), Man!Sign(","), Man!Str("b"), Man!Sign("]")>>>>,
              <<"dependencies", <<Man!Sign("["), Man!Str("A/"), Man!Sign("]")>>>>,
              <<"license", <<Man!Str("x")>>>>, <<"size", <<Man!Ident("big")>>>>,
              <<"tags", <<Man!Sign("["), Man!Sign("["), Man!Str("}"), Man!Sign("]"), Man!Sign("]")>>>>}
ManifestJobs == [k : {"manifest"}, fields : Upto(3, FieldPool), quoted : {TRUE}, more : {FALSE}, drop : 0..9]
                \cup [k : {"manifest"}, fields : [1..4 -> FieldPool], quoted : {FALSE}, more : BOOLEAN, drop : {0}]
Tokens(fields, quoted, more) ==
  LET tick == IF quoted THEN <<Man!Sign("'")>> ELSE <<>>
      one(i) == <<Man!Ident(fields[i][1]), Man!Sign("=")>> \o fields[i][2]
  IN  tick \o <<Man!Ident("Package"), Man!Sign("{")>> \o Glue([i \in DOMAIN fields |-> one(i)], <<Man!Sign(",")>>)
      \o <<Man!Sign("}")>> \o tick \o (IF more THEN <<Man!Ident("x")>> ELSE <<>>)
Without(s, d) == IF d \notin DOMAIN s THEN s ELSE SubSeq(s, 1, d - 1) \o SubSeq(s, d + 1, Len(s))
DoManifest(j) == Man!ural_manifest_parse(Without(Tokens(j.fields, j.quoted, j.more), j.drop))

\* A manifest is accepted exactly when it has the fields a package needs, none
\* twice, and names that are safe as parts of a path, and then says what was
\* written; one that lost a bracket, a sign or a field's name is never read as
\* another package (ural_manifest.c).
ManifestRight(j, v) ==
  LET names == [i \in DOMAIN j.fields |-> j.fields[i][1]]
      Values(f) == SelectSeq(f[2], LAMBDA t : t.k = "string")
      known == {i \in DOMAIN names : names[i] \in Man!Fields}
      lost == Man!At(Tokens(j.fields, j.quoted, j.more), j.drop).k
      good == /\ Man!Required \subseteq {names[i] : i \in DOMAIN names}
              /\ \A a, b \in known : names[a] = names[b] => a = b
              /\ \A a \in known : \A n \in DOMAIN Values(j.fields[a]) :
                   names[a] # "license" => Values(j.fields[a])[n].t \in Components
  IN  /\ j.drop = 0 => (v.ok <=> good /\ ~j.more)
      /\ v.ok => /\ {v.m["name"][1], v.m["version"][1]} \subseteq Components
                 /\ lost # "string" => \A i \in known : v.m[names[i]] = [n \in DOMAIN Values(j.fields[i]) |-> Values(j.fields[i])[n].t]
=============================================================================
