------------------------------- MODULE UssrPp -------------------------------
(***************************************************************************)
(* The preprocessor (pp.c): a script's lines are read one after the other, *)
(* directives are obeyed, and the others are expanded and kept, each with  *)
(* the place it came from.                                                 *)
(*                                                                         *)
(* A line is a record; the words of a text or of a macro's body are        *)
(* tokens: identifiers, punctuation, and strings, which no name equals.    *)
(***************************************************************************)
EXTENDS Integers, SequencesExt, FiniteSetsExt

CONSTANTS
    Sources,      \* the programs to read: each a function from files to lists of items
    MaxIncludes,  \* USSR_PP_MAX_INCLUDE_DEPTH
    MaxExpand     \* 64 in the code

VARIABLES
    source,  \* what the files hold
    open,    \* files being read: name, lines left, line number to come back to
    conds,   \* open conditionals: active, an else was seen, a branch was taken
    active,  \* lines are kept
    defs,    \* macros, the newest first
    once,    \* files that are read once
    out,     \* lines kept: tokens, file and number
    line,    \* number of the current line
    status   \* start, run, ok or failed

ppVars == <<source, open, conds, active, defs, once, out, line, status>>

(***************************************************************************)
(* What a file holds: a list of items, of which a chain has branches, each *)
(* with a name that is tested and a list of items, and at last an else.    *)
(***************************************************************************)
RECURSIVE LinesOf(_)
LinesOf(items) ==
    FlattenSeq([i \in DOMAIN items |->
        LET it == items[i] IN
        IF it.k # "chain" THEN <<it>>
        ELSE FlattenSeq([b \in DOMAIN it.branches |->
                 <<[k |-> IF b = 1 THEN "if" ELSE "elif", name |-> it.branches[b].name]>>
                 \o LinesOf(it.branches[b].items)])
             \o (IF it.else = <<>> THEN <<>> ELSE <<[k |-> "else"]>> \o LinesOf(it.else))
             \o <<[k |-> "endif"]>>])

PpInit ==
    /\ source \in Sources
    /\ open = <<>> /\ conds = <<>> /\ active = TRUE /\ defs = <<>> /\ once = {}
    /\ out = <<>> /\ line = 0 /\ status = "start"

(***************************************************************************)
(* Macros.                                                                 *)
(***************************************************************************)
Macro(name, fn, params, body) == [name |-> name, fn |-> fn, params |-> params, body |-> body]

\* A macro with parameters has its whole signature for a name.
pp_find_define(ds, name) == SelectSeq(ds, LAMBDA d : d.name = name /\ ~d.fn)
pp_find_function_define(ds, name) == SelectSeq(ds, LAMBDA d : d.name = name /\ d.fn)

pp_define(ds, d) ==
    LET same == {i \in DOMAIN ds : ds[i].name = d.name /\ ds[i].fn = d.fn /\ ds[i].params = d.params}
    IN  IF same # {} THEN [ds EXCEPT ![Min(same)].body = d.body] ELSE <<d>> \o ds

pp_is_defined(ds, depth, name) ==
    IF name = "__MAIN__" /\ pp_find_define(ds, name) = <<>> THEN depth = 1
    ELSE pp_find_define(ds, name) # <<>>

\* From the bracket at i: the arguments, and the place behind; rest = 0 when it does
\* not end.  Commas inside brackets and braces do not separate.
RECURSIVE ArgumentsFrom(_, _, _, _, _, _)
ArgumentsFrom(toks, i, parens, braces, args, arg) ==
    LET t    == toks[i]
        More(p, b) == ArgumentsFrom(toks, i + 1, p, b, args, Append(arg, t))
    IN  IF i > Len(toks) THEN [args |-> <<>>, rest |-> 0]
        ELSE CASE t = "(" -> More(parens + 1, braces)
               [] t = ")" /\ parens > 0 -> More(parens - 1, braces)
               [] t = ")" /\ parens = 0 ->
                    IF braces # 0 THEN [args |-> <<>>, rest |-> 0]
                    ELSE [args |-> IF arg # <<>> \/ args # <<>> THEN Append(args, arg) ELSE <<>>, rest |-> i + 1]
               [] t = "{" -> More(parens, braces + 1)
               [] t = "}" /\ braces > 0 -> More(parens, braces - 1)
               [] t = "," /\ parens = 0 /\ braces = 0 ->
                    ArgumentsFrom(toks, i + 1, 0, 0, Append(args, arg), <<>>)
               [] OTHER -> More(parens, braces)
pp_extract_macro_arguments(toks, i) == ArgumentsFrom(toks, i + 1, 0, 0, <<>>, <<>>)

pp_substitute_macro(d, args) ==
    FlattenSeq([i \in DOMAIN d.body |->
        LET n == {j \in DOMAIN d.params : d.params[j] = d.body[i]}
        IN  IF n = {} THEN <<d.body[i]>> ELSE args[Min(n)]])

Failed == [ok |-> FALSE, toks |-> <<>>]

\* The tokens in turn; what a macro stands for is expanded by itself.
RECURSIVE pp_expand_text_depth(_, _, _)
pp_expand_text_depth(ds, toks, depth) ==
    LET name   == Head(toks)
        fn     == pp_find_function_define(ds, name)
        obj    == pp_find_define(ds, name)
        call   == Len(toks) > 1 /\ toks[2] = "(" /\ fn # <<>>
        found  == pp_extract_macro_arguments(toks, 2)
        inner  == IF call THEN pp_expand_text_depth(ds, pp_substitute_macro(fn[1], found.args), depth + 1)
                  ELSE IF obj # <<>> THEN pp_expand_text_depth(ds, obj[1].body, depth + 1)
                  ELSE [ok |-> TRUE, toks |-> <<name>>]
        rest   == pp_expand_text_depth(ds, IF call THEN SubSeq(toks, found.rest, Len(toks)) ELSE Tail(toks), depth)
    IN  IF depth > MaxExpand THEN Failed
        ELSE IF toks = <<>> THEN [ok |-> TRUE, toks |-> <<>>]
        ELSE IF call /\ (found.rest = 0 \/ Len(found.args) # Len(fn[1].params)) THEN Failed
        ELSE IF ~inner.ok \/ ~rest.ok THEN Failed
        ELSE [ok |-> TRUE, toks |-> inner.toks \o rest.toks]

(***************************************************************************)
(* Reading.                                                                *)
(***************************************************************************)
Here    == Last(open)
TheLine == Head(Here.rest)
Reading(k) == status = "run" /\ Here.rest # <<>> /\ TheLine.k = k

\* The line is done with.
NextLine == open' = [open EXCEPT ![Len(open)].rest = Tail(@)] /\ line' = line + 1

\* An error closes all files and ends the run.
Fail == /\ status' = "failed" /\ open' = <<>>
        /\ UNCHANGED <<conds, active, defs, once, out, line>>

\* Opening a file: read already, too deep, being read, not there.
ussr_pp_process_file(f, here, back) ==
    IF f \in once THEN open' = here /\ line' = back /\ UNCHANGED status
    ELSE IF Len(here) >= MaxIncludes \/ (\E i \in DOMAIN here : here[i].file = f) \/ f \notin DOMAIN source
    THEN status' = "failed" /\ open' = <<>> /\ line' = back
    ELSE open' = Append(here, [file |-> f, rest |-> LinesOf(source[f]), saved |-> back]) /\ line' = 0 /\ status' = "run"

Start ==
    /\ status = "start"
    /\ ussr_pp_process_file("main", <<>>, line)
    /\ UNCHANGED <<source, conds, active, defs, once, out>>

pp_process_include ==
    /\ Reading("include")
    /\ LET here == [open EXCEPT ![Len(open)].rest = Tail(@)]
       IN  IF active THEN ussr_pp_process_file(TheLine.file, here, line + 1)
           ELSE NextLine /\ UNCHANGED status
    /\ UNCHANGED <<source, conds, active, defs, once, out>>

\* A definition counts in branches that are skipped, too.
pp_parse_define ==
    /\ Reading("define")
    /\ defs' = pp_define(defs, TheLine.macro)
    /\ NextLine
    /\ UNCHANGED <<source, conds, active, once, out, status>>

pp_condition_push ==
    LET on == active /\ pp_is_defined(defs, Len(open), TheLine.name) IN
    /\ Reading("if")
    /\ IF Len(conds) >= MaxIncludes THEN Fail
       ELSE /\ conds' = Append(conds, [active |-> on, else |-> FALSE, taken |-> on])
            /\ active' = on
            /\ NextLine /\ UNCHANGED <<defs, once, out, status>>
    /\ UNCHANGED source

Parent == Len(conds) = 1 \/ conds[Len(conds) - 1].active

\* Mutant: a branch is taken when its own condition holds.
ElifAlone ==
    LET on == Parent /\ pp_is_defined(defs, Len(open), TheLine.name) IN
    /\ Reading("elif")
    /\ conds' = [conds EXCEPT ![Len(conds)].active = on]
    /\ active' = on
    /\ NextLine /\ UNCHANGED <<source, defs, once, out, status>>

pp_condition_elif ==
    LET on == Parent /\ ~Last(conds).taken /\ pp_is_defined(defs, Len(open), TheLine.name) IN
    /\ Reading("elif")
    /\ IF conds = <<>> \/ Last(conds).else THEN Fail
       ELSE /\ conds' = [conds EXCEPT ![Len(conds)].active = on, ![Len(conds)].taken = @ \/ on]
            /\ active' = on
            /\ NextLine /\ UNCHANGED <<defs, once, out, status>>
    /\ UNCHANGED source

pp_condition_else ==
    LET on == Parent /\ ~Last(conds).taken IN
    /\ Reading("else")
    /\ IF conds = <<>> \/ Last(conds).else THEN Fail
       ELSE /\ conds' = [conds EXCEPT ![Len(conds)] = [active |-> on, else |-> TRUE, taken |-> TRUE]]
            /\ active' = on
            /\ NextLine /\ UNCHANGED <<defs, once, out, status>>
    /\ UNCHANGED source

pp_condition_pop ==
    /\ Reading("endif")
    /\ IF conds = <<>> THEN Fail
       ELSE /\ conds' = Front(conds)
            /\ active' = (Len(conds) = 1 \/ conds[Len(conds) - 1].active)
            /\ NextLine /\ UNCHANGED <<defs, once, out, status>>
    /\ UNCHANGED source

Once ==
    /\ Reading("once")
    /\ once' = IF active THEN once \cup {Here.file} ELSE once
    /\ NextLine
    /\ UNCHANGED <<source, conds, active, defs, out, status>>

\* A line of text; the output's map records the file and the number.
pp_process_line_body ==
    LET ex == pp_expand_text_depth(defs, TheLine.toks, 0) IN
    /\ Reading("text")
    /\ IF active /\ ~ex.ok THEN Fail
       ELSE /\ out' = IF active THEN Append(out, [toks |-> ex.toks, file |-> Here.file, line |-> line + 1]) ELSE out
            /\ NextLine /\ UNCHANGED <<conds, active, defs, once, status>>
    /\ UNCHANGED source

\* The end of a file: back to the line that included it.
EndOfFile ==
    /\ status = "run" /\ Here.rest = <<>>
    /\ open' = Front(open)
    /\ line' = Here.saved
    /\ status' = IF Len(open) > 1 THEN "run" ELSE IF conds # <<>> THEN "failed" ELSE "ok"
    /\ UNCHANGED <<source, conds, active, defs, once, out>>

PpNext == \/ Start \/ pp_process_include \/ pp_parse_define \/ pp_condition_push \/ pp_condition_elif
          \/ pp_condition_else \/ pp_condition_pop \/ Once \/ pp_process_line_body \/ EndOfFile

(***************************************************************************)
(* What the files mean, by their structure.  st: defs, once, kept lines    *)
(* and ok.  A text is rewritten at its first macro until there is none.    *)
(***************************************************************************)
RECURSIVE Rewrite(_, _, _)
Rewrite(ds, toks, fuel) ==
    LET Obj(i) == pp_find_define(ds, toks[i]) # <<>>
        Call(i) == i < Len(toks) /\ toks[i + 1] = "(" /\ pp_find_function_define(ds, toks[i]) # <<>>
        hits  == {i \in DOMAIN toks : Obj(i) \/ Call(i)}
        at    == Min(hits)
        close == Min({j \in (at + 2)..Len(toks) : toks[j] = ")"})
        fn    == pp_find_function_define(ds, toks[at])[1]
        inner == SubSeq(toks, at + 2, close - 1)
        args  == IF inner = <<>> THEN 0 ELSE 1 + Len(SelectSeq(inner, LAMBDA t : t = ","))
        new   == IF Call(at) THEN FlattenSeq([i \in DOMAIN fn.body |->
                                     IF fn.params # <<>> /\ fn.body[i] = fn.params[1] THEN inner ELSE <<fn.body[i]>>])
                 ELSE pp_find_define(ds, toks[at])[1].body
        last  == IF Call(at) THEN close ELSE at
    IN  IF hits = {} THEN [ok |-> TRUE, toks |-> toks]
        ELSE IF fuel = 0 THEN Failed
        ELSE IF Call(at) /\ args # Len(fn.params) THEN Failed
        ELSE Rewrite(ds, SubSeq(toks, 1, at - 1) \o new \o SubSeq(toks, last + 1, Len(toks)), fuel - 1)

\* Definitions made in a list that is skipped.
RECURSIVE Skipped(_, _)
Skipped(ds, items) ==
    FoldLeft(LAMBDA d, it : IF it.k = "define" THEN pp_define(d, it.macro)
                            ELSE IF it.k # "chain" THEN d
                            ELSE Skipped(FoldLeft(LAMBDA e, b : Skipped(e, b.items), d, it.branches), it.else),
             ds, items)

RECURSIVE Meaning(_, _, _, _, _)
RECURSIVE Chain(_, _, _, _, _, _, _)
Meaning(src, file, path, items, st) ==
    LET it   == Head(items)
        n    == st.n + 1
        sub  == Meaning(src, it.file, Append(path, it.file), src[it.file], [st EXCEPT !.n = 0])
        text == Rewrite(st.defs, it.toks, 20)
        next == CASE it.k = "text"   -> IF ~text.ok THEN [st EXCEPT !.ok = FALSE]
                                        ELSE [st EXCEPT !.n = n, !.out = Append(@, [toks |-> text.toks, file |-> file, line |-> n])]
                  [] it.k = "define" -> [st EXCEPT !.n = n, !.defs = pp_define(@, it.macro)]
                  [] it.k = "once"   -> [st EXCEPT !.n = n, !.once = @ \cup {file}]
                  [] it.k = "include" ->
                       IF it.file \in st.once THEN [st EXCEPT !.n = n]
                       ELSE IF it.file \in Range(path) \/ it.file \notin DOMAIN src \/ Len(path) >= MaxIncludes
                       THEN [st EXCEPT !.ok = FALSE]
                       ELSE [sub EXCEPT !.n = n]
                  [] it.k = "chain"  -> Chain(src, file, path, it, 1, FALSE, st)
                  [] OTHER -> [st EXCEPT !.ok = FALSE]
    IN  IF items = <<>> \/ ~st.ok THEN st ELSE Meaning(src, file, path, Tail(items), next)
Chain(src, file, path, it, b, taken, st) ==
    LET br   == it.branches[b]
        on   == ~taken /\ pp_is_defined(st.defs, Len(path), br.name)
        go   == [st EXCEPT !.n = @ + 1]
        Skip(items) == [go EXCEPT !.defs = Skipped(@, items), !.n = @ + Len(LinesOf(items))]
        Take(items, yes) == IF yes THEN Meaning(src, file, path, items, go) ELSE Skip(items)
        last == IF it.else = <<>> THEN st ELSE Take(it.else, ~taken)
    IN  IF ~st.ok THEN st
        ELSE IF b > Len(it.branches) THEN [last EXCEPT !.n = @ + 1]
        ELSE Chain(src, file, path, it, b + 1, taken \/ on, Take(br.items, on))

MeaningOf(src) == Meaning(src, "main", <<"main">>, src["main"],
                      [n |-> 0, defs |-> <<>>, once |-> {}, out |-> <<>>, ok |-> TRUE])

\* A script that has been read gave the lines its structure gives, each with its own
\* file and number, and it was refused exactly when the structure is (pp.c: the stacks of
\* files and conditionals, line numbers around an include, files read once, macros).
ReadsAsWritten ==
    status \in {"ok", "failed"} =>
        LET m == MeaningOf(source) IN (status = "ok") = m.ok /\ (m.ok => out = m.out)
=============================================================================
