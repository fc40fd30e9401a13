----------------------------- MODULE UssrRegex ------------------------------
(***************************************************************************)
(* The regular expressions of the re* commands (regex.c): a pattern becomes*)
(* instructions with relative jumps, and a search runs all threads of them *)
(* in step, one character at a time, in order of priority.                 *)
(*                                                                         *)
(* A pattern is the tree that its text denotes; a text is a sequence of    *)
(* characters and a position counts the characters before it.              *)
(***************************************************************************)
EXTENDS Integers, SequencesExt, FiniteSetsExt

NL     == 10
NoSpan == -1

(***************************************************************************)
(* Patterns.  k: chr, any, class, bol, eol, wordb, group (g its number, 0  *)
(* when it does not capture), cat, alt, rep (n to m times, m = -1 for no   *)
(* limit).  A class is a set of ranges.                                    *)
(***************************************************************************)
Inst(op, x, y) == [op |-> op, x |-> x, y |-> y]

re_lower(c)     == IF c \in 65..90 THEN c + 32 ELSE c
re_is_word(c)   == c \in (48..57) \cup (65..90) \cup (97..122) \cup {95}

\* A decoded character: its value and the bytes it takes.  A byte that does not
\* begin a valid sequence stands for itself, above all characters.
RE_BAD_BYTE == 1114112
re_decode(bytes, at) ==
    LET c     == bytes[at]
        need  == CASE c \in 194..223 -> 1 [] c \in 224..239 -> 2 [] c \in 240..244 -> 3 [] OTHER -> 0
        bits  == CASE need = 1 -> c % 32 [] need = 2 -> c % 16 [] OTHER -> c % 8
        value == FoldLeft(LAMBDA v, i : v * 64 + (bytes[at + i] % 64), bits, [i \in 1..need |-> i])
        bad   == [c |-> RE_BAD_BYTE + c, size |-> 1]
    IN  IF c < 128 THEN [c |-> c, size |-> 1]
        ELSE IF need = 0 \/ Len(bytes) - at < need THEN bad
        ELSE IF \E i \in 1..need : bytes[at + i] \div 64 # 2 THEN bad
        ELSE IF \/ need = 2 /\ value < 2048
                \/ need = 3 /\ value \notin 65536..1114111 THEN bad
        ELSE [c |-> value, size |-> need + 1]

(***************************************************************************)
(* Making code.                                                            *)
(***************************************************************************)
Copies(code, n) == FlattenSeq([i \in 1..n |-> code])

Split(lazy, on, off) == Inst("split", IF lazy THEN off ELSE on, IF lazy THEN on ELSE off)

\* Mutant: the copies that may be skipped each skip only themselves.
RepeatSkipsOne(code, n, m, lazy) ==
    LET size == Len(code)
        Optional(k) == FlattenSeq([i \in 1..k |-> <<Split(lazy, 1, size + 1)>> \o code])
    IN  CASE n = 0 /\ m = 0 -> <<>>
          [] m < 0 /\ n = 0 -> <<Split(lazy, 1, size + 2)>> \o code \o <<Inst("jmp", -(size + 1), 0)>>
          [] m < 0 /\ n > 0 -> Copies(code, n) \o <<Split(lazy, -size, 1)>>
          [] OTHER -> Copies(code, n) \o Optional(m - n)

\* n copies, the last one looping when there is no limit, else m - n more of
\* which each can skip all that are left.
re_repeat(code, n, m, lazy) ==
    LET size == Len(code)
        Optional(k) == FlattenSeq([i \in 1..k |-> <<Split(lazy, 1, (k - i + 1) * (size + 1))>> \o code])
    IN  CASE n = 0 /\ m = 0 -> <<>>
          [] m < 0 /\ n = 0 -> <<Split(lazy, 1, size + 2)>> \o code \o <<Inst("jmp", -(size + 1), 0)>>
          [] m < 0 /\ n > 0 -> Copies(code, n) \o <<Split(lazy, -size, 1)>>
          [] OTHER -> Copies(code, n) \o Optional(m - n)

\* f: the flags i, m and s.
RECURSIVE re_parse_alternatives(_, _)
re_parse_alternatives(p, f) ==
    CASE p.k = "chr"   -> <<IF "i" \in f THEN Inst("chari", re_lower(p.c), 0) ELSE Inst("char", p.c, 0)>>
      [] p.k = "any"   -> <<Inst(IF "s" \in f THEN "anynl" ELSE "any", 0, 0)>>
      [] p.k = "class" -> <<Inst(IF "i" \in f THEN "classi" ELSE "class", p.set, p.neg)>>
      [] p.k = "bol"   -> <<Inst(IF "m" \in f THEN "mbol" ELSE "bol", 0, 0)>>
      [] p.k = "eol"   -> <<Inst(IF "m" \in f THEN "meol" ELSE "eol", 0, 0)>>
      [] p.k = "wordb" -> <<Inst("wordb", 0, 0)>>
      [] p.k = "group" -> LET c == re_parse_alternatives(p.l, f)
                          IN  IF p.g = 0 THEN c
                              ELSE <<Inst("save", 2 * p.g, 0)>> \o c \o <<Inst("save", 2 * p.g + 1, 0)>>
      [] p.k = "cat"   -> re_parse_alternatives(p.l, f) \o re_parse_alternatives(p.r, f)
      [] p.k = "rep"   -> re_repeat(re_parse_alternatives(p.l, f), p.n, p.m, p.lazy)
      [] p.k = "alt"   -> LET a == re_parse_alternatives(p.l, f)
                              b == re_parse_alternatives(p.r, f)
                          IN  <<Inst("split", 1, Len(a) + 2)>> \o a \o <<Inst("jmp", Len(b) + 1, 0)>> \o b
      [] p.k = "empty" -> <<>>

ussr_regex_compile(p, f) == Append(re_parse_alternatives(p, f), Inst("match", 0, 0))

(***************************************************************************)
(* Running.  A list of threads: ts, each a pc and its saved positions, and *)
(* the instructions that some thread has been at for this position.        *)
(***************************************************************************)
NoThreads == [ts |-> <<>>, marks |-> {}]

re_word_at(text, at) == at < Len(text) /\ re_is_word(text[at + 1])

Passes(op, text, at) ==
    CASE op = "bol"   -> at = 0
      [] op = "eol"   -> at = Len(text)
      [] op = "mbol"  -> at = 0 \/ text[at] = NL
      [] op = "meol"  -> at = Len(text) \/ text[at + 1] = NL
      [] op = "wordb" -> (at > 0 /\ re_is_word(text[at])) # re_word_at(text, at)

\* pc and all it leads to without taking a character, in priority order.
RECURSIVE re_add_thread(_, _, _, _, _, _)
re_add_thread(code, list, pc, saves, text, at) ==
    LET in   == code[pc]
        seen == [list EXCEPT !.marks = @ \cup {pc}]
    IN  IF pc \in list.marks THEN list
        ELSE CASE in.op = "jmp"   -> re_add_thread(code, seen, pc + in.x, saves, text, at)
               [] in.op = "split" -> re_add_thread(code, re_add_thread(code, seen, pc + in.x, saves, text, at),
                                                   pc + in.y, saves, text, at)
               [] in.op = "save"  -> re_add_thread(code, seen, pc + 1, [saves EXCEPT ![in.x] = at], text, at)
               [] in.op \in {"bol", "eol", "mbol", "meol", "wordb"} ->
                    IF Passes(in.op, text, at) THEN re_add_thread(code, seen, pc + 1, saves, text, at) ELSE seen
               [] OTHER -> [seen EXCEPT !.ts = Append(@, [pc |-> pc, saves |-> saves])]

re_class_has(set, c) == \E r \in set : c \in r[1]..r[2]

Takes(in, c) ==
    CASE in.op = "char"   -> c = in.x
      [] in.op = "chari"  -> re_lower(c) = in.x
      [] in.op = "any"    -> c # NL
      [] in.op = "anynl"  -> TRUE
      [] in.op = "class"  -> re_class_has(in.x, c) # in.y
      [] in.op = "classi" -> (\/ re_class_has(in.x, c)
                              \/ c \in 97..122 /\ re_class_has(in.x, c - 32)
                              \/ c \in 65..90 /\ re_class_has(in.x, c + 32)) # in.y
      [] OTHER -> FALSE

\* The threads of a list in order, up to the first one that has matched.
RECURSIVE RunThreads(_, _, _, _, _)
RunThreads(code, ts, next, text, at) ==
    IF ts = <<>> THEN [next |-> next, spans |-> <<>>]
    ELSE LET th == Head(ts)
             in == code[th.pc]
             go == IF at < Len(text) /\ Takes(in, text[at + 1])
                   THEN re_add_thread(code, next, th.pc + 1, th.saves, text, at + 1) ELSE next
         IN  IF in.op = "match" THEN [next |-> next, spans |-> [th.saves EXCEPT ![1] = at]]
             ELSE RunThreads(code, Tail(ts), go, text, at)

\* A match could start at every position, after all that started before it.
RECURSIVE SearchAt(_, _, _, _, _, _)
SearchAt(code, slots, list, text, at, spans) ==
    LET fresh == [s \in slots |-> IF s = 0 THEN at ELSE NoSpan]
        now   == IF spans # <<>> THEN list ELSE re_add_thread(code, list, 1, fresh, text, at)
        ran   == RunThreads(code, now.ts, NoThreads, text, at)
        found == IF ran.spans = <<>> THEN spans ELSE ran.spans
    IN  IF now.ts = <<>> /\ (spans # <<>> \/ at >= Len(text)) THEN spans
        ELSE IF at >= Len(text) THEN found
        ELSE SearchAt(code, slots, ran.next, text, at + 1, found)

\* <<>> for no match, else slot -> position: 0 and 1 the match, 2g and 2g + 1 group g.
ussr_regex_search(p, f, groups, text, from) ==
    IF from > Len(text) THEN <<>>
    ELSE SearchAt(ussr_regex_compile(p, f), 0..(2 * groups + 1), NoThreads, text, from, <<>>)

(***************************************************************************)
(* What a pattern means: all ways to match it at position i, the preferred *)
(* ones first, each with its end e and the groups it saved.  A round of a  *)
(* loop that takes nothing does not lead to another one.                   *)
(***************************************************************************)
Then(rs, F(_)) == FlattenSeq([j \in DOMAIN rs |-> F(rs[j])])

Choose(lazy, more, stop) == IF lazy THEN stop \o more ELSE more \o stop

RECURSIVE Ways(_, _, _, _, _)
RECURSIVE Rounds(_, _, _, _, _)
RECURSIVE Times(_, _, _, _, _, _)
Ways(p, f, text, i, s) ==
    LET here  == <<[e |-> i, s |-> s]>>
        c     == text[i + 1]
        Fold(x) == IF "i" \in f THEN re_lower(x) ELSE x
        One(b) == IF i < Len(text) /\ b THEN <<[e |-> i + 1, s |-> s]>> ELSE <<>>
        If(b) == IF b THEN here ELSE <<>>
    IN  CASE p.k = "empty" -> here
          [] p.k = "chr"   -> One(Fold(c) = Fold(p.c))
          [] p.k = "any"   -> One("s" \in f \/ c # NL)
          [] p.k = "class" -> One((\E x \in {c, Fold(c)} \cup (IF "i" \in f /\ c \in 97..122 THEN {c - 32} ELSE {}) :
                                      \E r \in p.set : x \in r[1]..r[2]) # p.neg)
          [] p.k = "bol"   -> If(i = 0 \/ ("m" \in f /\ text[i] = NL))
          [] p.k = "eol"   -> If(i = Len(text) \/ ("m" \in f /\ c = NL))
          [] p.k = "wordb" -> If(Cardinality({j \in {i, i + 1} : j \in DOMAIN text /\ re_is_word(text[j])}) = 1)
          [] p.k = "alt"   -> Ways(p.l, f, text, i, s) \o Ways(p.r, f, text, i, s)
          [] p.k = "cat"   -> Then(Ways(p.l, f, text, i, s), LAMBDA r : Ways(p.r, f, text, r.e, r.s))
          [] p.k = "group" ->
               IF p.g = 0 THEN Ways(p.l, f, text, i, s)
               ELSE Then(Ways(p.l, f, text, i, [s EXCEPT ![2 * p.g] = i]),
                         LAMBDA r : <<[r EXCEPT !.s[2 * p.g + 1] = r.e]>>)
          [] p.k = "rep"   -> IF p.m < 0 /\ p.n = 0 THEN Rounds(p, f, text, i, s)
                              ELSE Times(p, f, text, i, s, 0)
Rounds(p, f, text, i, s) ==
    Choose(p.lazy,
           Then(SelectSeq(Ways(p.l, f, text, i, s), LAMBDA r : r.e > i),
                LAMBDA r : Rounds(p, f, text, r.e, r.s)),
           <<[e |-> i, s |-> s]>>)
Times(p, f, text, i, s, done) ==
    LET more == Then(Ways(p.l, f, text, i, s),
                     LAMBDA r : IF p.m < 0 /\ done + 1 = p.n
                                THEN IF r.e > i THEN Rounds(p, f, text, r.e, r.s) ELSE <<r>>
                                ELSE Times(p, f, text, r.e, r.s, done + 1))
    IN  IF done < p.n THEN more
        ELSE IF done = p.m THEN <<[e |-> i, s |-> s]>>
        ELSE Choose(p.lazy, more, <<[e |-> i, s |-> s]>>)

\* The leftmost match, and of those at that place the preferred one.
Matches(p, f, groups, text, from) ==
    LET At(i)  == Ways(p, f, text, i, [s \in 0..(2 * groups + 1) |-> IF s = 0 THEN i ELSE NoSpan])
        starts == {i \in from..Len(text) : At(i) # <<>>}
        first  == At(Min(starts))[1]
    IN  IF starts = {} THEN <<>> ELSE [first.s EXCEPT ![1] = first.e]
=============================================================================
