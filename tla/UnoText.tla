------------------------------ MODULE UnoText ------------------------------
(***************************************************************************)
(* Values as UNO text and back (uno.c): uno_encode_value writes a value,   *)
(* the recursive descent of uno_read_value reads it.                       *)
(*                                                                         *)
(* Text is a sequence of the tokens the reader looks at; white space       *)
(* between them is skipped by the reader and never written.  A number is   *)
(* its digits, counted in tenths, and the form it is written in: %g writes *)
(* a real of more than six digits with an exponent, which the reader,      *)
(* knowing digits and a point only, takes for an integer with a tail.      *)
(***************************************************************************)
EXTENDS Integers, Sequences, SequencesExt

CONSTANTS StructTypes,      \* struct name -> sequence of its fields, [name, type]
          MaxFields         \* UNO_MAX_FIELDS, 64 in the code

Punct(c) == [k |-> "punct", c |-> c]
Word(w) == [k |-> "word", w |-> w]
Number(n, form) == [k |-> "number", n |-> n, form |-> form]
Quoted(s) == [k |-> "quoted", s |-> s]
NoText == <<[k |-> "refused"]>>     \* the text of a value that cannot be written

SixDigits == 1000000
UnquotedText == "tick"       \* a string holding a backtick or a newline

uno_encode_number(v) ==
  IF v.t = "integer" THEN <<Number(v.n * 10, "integer")>>
  ELSE <<Number(v.n, IF v.n >= SixDigits * 10 THEN "exponent" ELSE "real")>>

Refuses(text) == \E i \in DOMAIN text : text[i].k = "refused"
All(parts) == LET text == FlattenSeq(parts) IN IF Refuses(text) THEN NoText ELSE text
(* The parts with a comma between each two. *)
Listed(parts) ==
  FlattenSeq([i \in DOMAIN parts |-> (IF i > 1 THEN <<Punct(",")>> ELSE <<>>) \o parts[i]])

RECURSIVE uno_encode_value(_)
uno_encode_struct(v) ==
  LET fields == StructTypes[v.type] IN
  All(<<<<Word(v.type), Punct("{")>>,
        Listed([i \in DOMAIN fields |->
                  <<Word(fields[i].name), Punct("=")>> \o uno_encode_value(v.fields[i])]),
        <<Punct("}")>>>>)
uno_encode_vector(v) ==
  All(<<<<Punct("[")>>, Listed([i \in DOMAIN v.items |-> uno_encode_value(v.items[i])]),
        <<Punct("]")>>>>)
uno_encode_pair(p) ==
  <<Punct("[")>> \o uno_encode_value(p[1]) \o <<Punct(",")>> \o uno_encode_value(p[2])
    \o <<Punct("]")>>
uno_encode_btree(v) ==
  All(<<<<Punct("[")>>, Listed([i \in DOMAIN v.pairs |-> uno_encode_pair(v.pairs[i])]),
        <<Punct("]")>>>>)
uno_encode_value(v) ==
  CASE v.t = "null" -> <<Word("null")>>
    [] v.t = "boolean" -> <<Word(IF v.n = 1 THEN "true" ELSE "false")>>
    [] v.t \in {"integer", "real"} -> uno_encode_number(v)
    [] v.t = "string" -> IF v.s = UnquotedText THEN NoText ELSE <<Quoted(v.s)>>
    [] v.t = "vector" -> uno_encode_vector(v)
    [] v.t = "struct" -> uno_encode_struct(v)
    [] v.t = "btree" -> uno_encode_btree(v)

-----------------------------------------------------------------------------
Got(v, at) == [ok |-> TRUE, v |-> v, at |-> at]
Bad == [ok |-> FALSE, v |-> <<>>, at |-> 0]

Is(text, at, c) == at <= Len(text) /\ text[at] = Punct(c)
KindAt(text, at) == IF at <= Len(text) THEN text[at].k ELSE "end"

uno_read_number(text, at) ==
  LET x == text[at] IN
  Got(IF x.form = "real" THEN [t |-> "real", n |-> x.n] ELSE [t |-> "integer", n |-> x.n \div 10],
      IF x.form = "exponent" THEN at ELSE at + 1)   \* the exponent stays unread

uno_read_string(text, at) == Got([t |-> "string", s |-> text[at].s], at + 1)

uno_type_matches(type, v) ==
  \/ v.t = "null" \/ type = "any" \/ type = v.t
  \/ type = "number" /\ v.t \in {"integer", "real"}
  \/ v.t = "struct" /\ type = v.type

(* ussr_struct_instantiate_named: every field named once or more, each of  *)
(* the type declared; the last value of a name stands.                     *)
ussr_struct_instantiate_named(type, names, values) ==
  LET fields == StructTypes[type]
      Declared(n) == {i \in DOMAIN fields : fields[i].name = n}
  IN IF /\ type \in DOMAIN StructTypes
        /\ \A j \in DOMAIN names : \E i \in Declared(names[j]) :
             uno_type_matches(fields[i].type, values[j])
        /\ \A i \in DOMAIN fields : Contains(names, fields[i].name)
       THEN <<[t |-> "struct", type |-> type,
               fields |-> [i \in DOMAIN fields |->
                             values[SelectLastInSeq(names, LAMBDA n : n = fields[i].name)]]]>>
       ELSE <<>>

RECURSIVE uno_read_value(_, _)
RECURSIVE Items(_, _, _)
Items(text, at, got) ==
  LET r == uno_read_value(text, at) IN
  IF ~r.ok THEN Bad
  ELSE LET all == Append(got, r.v) IN
       CASE Is(text, r.at, ",") -> Items(text, r.at + 1, all)
         [] Is(text, r.at, "]") -> Got(all, r.at + 1)
         [] OTHER -> Bad
uno_read_vector(text, at) ==
  LET r == IF Is(text, at + 1, "]") THEN Got(<<>>, at + 2) ELSE Items(text, at + 1, <<>>)
  IN IF r.ok THEN Got([t |-> "vector", items |-> r.v], r.at) ELSE Bad

RECURSIVE Fields(_, _, _, _)
Fields(text, at, names, values) ==
  IF Len(names) >= MaxFields \/ KindAt(text, at) # "word" \/ ~Is(text, at + 1, "=") THEN Bad
  ELSE LET r == uno_read_value(text, at + 2) IN
       IF ~r.ok THEN Bad
       ELSE LET ns == Append(names, text[at].w)
                vs == Append(values, r.v)
            IN CASE Is(text, r.at, ",") -> Fields(text, r.at + 1, ns, vs)
                 [] Is(text, r.at, "}") -> Got(<<ns, vs>>, r.at + 1)
                 [] OTHER -> Bad
uno_read_object(text, at, type) ==
  LET r == IF Is(text, at + 1, "}") THEN Got(<<<<>>, <<>>>>, at + 2)
           ELSE Fields(text, at + 1, <<>>, <<>>)
  IN IF ~r.ok \/ type \notin DOMAIN StructTypes THEN Bad
     ELSE LET made == ussr_struct_instantiate_named(type, r.v[1], r.v[2])
          IN IF made = <<>> THEN Bad ELSE Got(made[1], r.at)

uno_read_value(text, at) ==
  CASE Is(text, at, "[") -> uno_read_vector(text, at)
    [] KindAt(text, at) = "quoted" -> uno_read_string(text, at)
    [] KindAt(text, at) = "number" -> uno_read_number(text, at)
    [] KindAt(text, at) = "word" ->
         LET w == text[at].w IN
         CASE w \in {"true", "false"} ->
                Got([t |-> "boolean", n |-> IF w = "true" THEN 1 ELSE 0], at + 1)
           [] w = "null" -> Got([t |-> "null"], at + 1)
           [] Is(text, at + 1, "{") -> uno_read_object(text, at + 1, w)
           [] OTHER -> Bad
    [] OTHER -> Bad

ussr_uno_decode(text) ==
  LET r == uno_read_value(text, 1)
  IN IF r.ok /\ r.at = Len(text) + 1 THEN r ELSE Bad
-----------------------------------------------------------------------------
(* What a value is once it has been through text: a tree is the vector of  *)
(* its pairs.                                                              *)
RECURSIVE InText(_)
InText(v) ==
  CASE v.t = "vector" -> [v EXCEPT !.items = [i \in DOMAIN @ |-> InText(@[i])]]
    [] v.t = "struct" -> [v EXCEPT !.fields = [i \in DOMAIN @ |-> InText(@[i])]]
    [] v.t = "btree" -> [t |-> "vector", items |->
                          [i \in DOMAIN v.pairs |->
                             [t |-> "vector", items |-> <<InText(v.pairs[i][1]), InText(v.pairs[i][2])>>]]]
    [] OTHER -> v

(* The values text can hold: no quote in a string, no real that needs an   *)
(* exponent, no tree in a field declared to be one.                        *)
RECURSIVE Writable(_)
Writable(v) ==
  CASE v.t = "string" -> v.s # UnquotedText
    [] v.t = "real" -> v.n < SixDigits * 10
    [] v.t = "vector" -> \A i \in DOMAIN v.items : Writable(v.items[i])
    [] v.t = "struct" -> \A i \in DOMAIN v.fields :
         Writable(v.fields[i]) /\ uno_type_matches(StructTypes[v.type][i].type, InText(v.fields[i]))
    [] v.t = "btree" -> \A i \in DOMAIN v.pairs : Writable(v.pairs[i][1]) /\ Writable(v.pairs[i][2])
    [] OTHER -> TRUE
=============================================================================
