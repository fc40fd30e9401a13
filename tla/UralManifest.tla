---------------------------- MODULE UralManifest ----------------------------
(***************************************************************************)
(* Reading a package's manifest (ural_manifest.c), a small dialect of UNO. *)
(* The text is a sequence of tokens with the space between them left out;  *)
(* a string in backquotes is a token of kind "string".                     *)
(***************************************************************************)
EXTENDS Integers, Sequences

Sign(c) == [k |-> "sign", t |-> c]
Ident(n) == [k |-> "ident", t |-> n]
Str(s) == [k |-> "string", t |-> s]
End == [k |-> "end", t |-> ""]
At(ts, p) == IF p \in DOMAIN ts THEN ts[p] ELSE End

Fields == {"name", "version", "description", "entry", "dependencies", "license", "minimum_ussr", "source"}
Required == {"name", "version", "dependencies"}

(* Lower-case letters, digits, - _ and ., the first no . or -.             *)
CONSTANT Components         \* the strings that are such names
ural_manifest_validate_component(s) == s \in Components

(* Position after a value nobody knows, 0 when it does not end; only the   *)
(* kind of bracket it starts with is counted.                              *)
RECURSIVE Balance(_, _, _, _, _)
Balance(ts, p, open, close, depth) ==
  IF depth = 0 THEN p
  ELSE IF At(ts, p) = End THEN 0
  ELSE Balance(ts, p + 1, open, close,
               depth + (IF ts[p] = open THEN 1 ELSE IF ts[p] = close THEN -1 ELSE 0))
(* A bare value ends at a space, a comma or a brace: it is one token, or    *)
(* none at all.                                                            *)
BareEnd(ts, p) == IF At(ts, p) \in {End, Sign(","), Sign("}")} THEN p ELSE p + 1
skip_value(ts, p) ==
  CASE At(ts, p).k = "string" -> p + 1
    [] At(ts, p) = Sign("[") -> Balance(ts, p + 1, Sign("["), Sign("]"), 1)
    [] At(ts, p) = Sign("{") -> Balance(ts, p + 1, Sign("{"), Sign("}"), 1)
    [] OTHER -> BareEnd(ts, p)

Bad == [ok |-> FALSE, at |-> 0, list |-> <<>>]
RECURSIVE DependenciesFrom(_, _, _)
DependenciesFrom(ts, p, list) ==
  LET more == Append(list, At(ts, p).t)
  IN  IF At(ts, p) = Sign("]") THEN [ok |-> TRUE, at |-> p + 1, list |-> list]
      ELSE IF At(ts, p).k # "string" \/ ~ural_manifest_validate_component(At(ts, p).t) THEN Bad
      ELSE IF At(ts, p + 1) = Sign("]") THEN [ok |-> TRUE, at |-> p + 2, list |-> more]
      ELSE IF At(ts, p + 1) = Sign(",") THEN DependenciesFrom(ts, p + 2, more) ELSE Bad
read_dependencies(ts, p) == IF At(ts, p) # Sign("[") THEN Bad ELSE DependenciesFrom(ts, p + 1, <<>>)

Refused == [ok |-> FALSE, m |-> <<>>]
(* m has what was read so far, a sequence of texts for every field.        *)
RECURSIVE FieldsFrom(_, _, _)
FieldsFrom(ts, p, m) ==
  LET key == At(ts, p).t
      v == p + 2
      deps == read_dependencies(ts, v)
      known == key \in Fields
      after == IF key = "dependencies" THEN deps.at
               ELSE IF known THEN IF At(ts, v).k = "string" THEN v + 1 ELSE 0
               ELSE skip_value(ts, v)
      value == IF key = "dependencies" THEN deps.list ELSE <<At(ts, v).t>>
      more == IF known THEN [f \in DOMAIN m \cup {key} |-> IF f = key THEN value ELSE m[f]] ELSE m
      tail == IF At(ts, p) = Sign("}") THEN p ELSE after
      done == [ok |-> TRUE, m |-> IF tail = p THEN m ELSE more, at |-> tail + 1]
  IN  IF At(ts, p) = Sign("}") THEN done
      ELSE IF \/ At(ts, p).k # "ident" \/ At(ts, p + 1) # Sign("=")
              \/ (known /\ key \in DOMAIN m) \/ after = 0
      THEN [ok |-> FALSE, m |-> m, at |-> 0]
      ELSE IF At(ts, after) = Sign("}") THEN done
      ELSE IF At(ts, after) = Sign(",") THEN FieldsFrom(ts, after + 1, more)
      ELSE [ok |-> FALSE, m |-> m, at |-> 0]

ural_manifest_parse(ts) ==
  LET p == IF At(ts, 1) = Sign("'") THEN 2 ELSE 1
      read == FieldsFrom(ts, p + 2, [f \in {} |-> <<>>])
      last == IF At(ts, read.at) = Sign("'") THEN read.at + 1 ELSE read.at
  IN  IF \/ At(ts, p) # Ident("Package") \/ At(ts, p + 1) # Sign("{") \/ ~read.ok
         \/ At(ts, last) # End \/ ~(Required \subseteq DOMAIN read.m)
         \/ \E f \in {"name", "version"} : ~ural_manifest_validate_component(read.m[f][1])
      THEN Refused
      ELSE [ok |-> TRUE, m |-> read.m]
=============================================================================
