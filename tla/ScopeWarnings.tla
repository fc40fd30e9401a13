--------------------------- MODULE ScopeWarnings ---------------------------
(***************************************************************************)
(* bc_scope_warnings of ussr_bytecode.c: after compilation, three passes   *)
(* over the code find variables whose scope is likely a mistake.           *)
(*                                                                         *)
(* An instruction is [op, name, scope, by]: a LOAD or STORE of a name, by  *)
(* name or resolved to a local or a global, or a SCAN that sets the names  *)
(* in name; by is the command it came from.  A function owns the           *)
(* instructions first..last.                                               *)
(***************************************************************************)
EXTENDS Integers, Sequences, SequencesExt, FiniteSets

bc_function_is_local(f, name) == name \in f.locals
bc_function_is_parameter(f, name) == name \in f.parameters

Owns(f, k) == k \in f.first..f.last
Owners(functions, k) == {i \in DOMAIN functions : Owns(functions[i], k)}
IsLocal(f, ins) ==
  ins.scope = "local" \/ (ins.scope = "by_name" /\ bc_function_is_local(f, ins.name))

(* Reads of a name anywhere, a function's reads of its parameters aside.   *)
Reads(code, functions, name) ==
  Cardinality({k \in DOMAIN code :
    /\ code[k].op = "LOAD" /\ code[k].name = name
    /\ \A i \in Owners(functions, k) : ~bc_function_is_parameter(functions[i], name)})

(* One function, in code order.  seen, reads and first_set are the tables  *)
(* the code keeps per name, touched the names it will have to clean.       *)
Clean(names) == [seen |-> [n \in names |-> 0], reads |-> [n \in names |-> 0],
                 first_set |-> [n \in names |-> 0], touched |-> {}, early |-> {}]

Step(t, f, k, ins) ==
  CASE ins.op = "SCAN" ->
         [t EXCEPT !.touched = @ \cup ins.targets,
                   !.seen = [n \in DOMAIN @ |-> IF n \in ins.targets THEN 2 ELSE @[n]]]
    [] ~IsLocal(f, ins) -> t
    [] ins.op = "STORE" ->
         [t EXCEPT !.touched = @ \cup {ins.name},
                   !.first_set[ins.name] = IF @ = 0 THEN k ELSE @,
                   !.seen[ins.name] = IF @ = 0 THEN 2 ELSE @]
    [] ins.op = "LOAD" ->
         LET first == t.reads[ins.name] = 0 /\ t.seen[ins.name] = 0 IN
         [t EXCEPT !.touched = @ \cup {ins.name},
                   !.reads[ins.name] = @ + 1,
                   !.seen[ins.name] = IF first THEN 1 ELSE @,
                   !.early = IF first /\ ~bc_function_is_parameter(f, ins.name)
                               THEN @ \cup {ins.name} ELSE @]

ControlFlow == {"struct", "if", "elif", "else", "while", "do", "for", "choose", "break", "continue"}

Unread(t, f, code, functions) ==
  {n \in t.touched :
     /\ t.first_set[n] # 0 /\ t.reads[n] = 0
     /\ Reads(code, functions, n) # 0
     /\ n # "_" /\ n # f.return_name /\ ~bc_function_is_parameter(f, n)
     /\ code[t.first_set[n]].by \notin ControlFlow}

(* The tables are shared by all functions: what one of them touched is     *)
(* cleaned before the next.                                                *)
CleanTouched(t) ==
  [t EXCEPT !.seen = [n \in DOMAIN @ |-> IF n \in t.touched THEN 0 ELSE @[n]],
            !.reads = [n \in DOMAIN @ |-> IF n \in t.touched THEN 0 ELSE @[n]],
            !.first_set = [n \in DOMAIN @ |-> IF n \in t.touched THEN 0 ELSE @[n]],
            !.touched = {}, !.early = {}]

Pass(acc, f, code, functions) ==
  LET t == FoldLeft(LAMBDA s, k : Step(s, f, k, code[k]), acc.tables,
                    [i \in 1..(f.last - f.first + 1) |-> f.first + i - 1])
  IN [tables |-> CleanTouched(t),
      early |-> Append(acc.early, t.early),
      unread |-> Append(acc.unread, Unread(t, f, code, functions))]

LocalPasses(code, functions, names) ==
  FoldLeft(LAMBDA acc, f : Pass(acc, f, code, functions),
           [tables |-> Clean(names), early |-> <<>>, unread |-> <<>>], functions)

(* Names read as globals that no code sets as one and some function has    *)
(* for its own.                                                            *)
LocalAt(code, functions, k) ==
  \E i \in Owners(functions, k) : IsLocal(functions[i], code[k])
GlobalRead(code, functions, n) ==
  \E k \in DOMAIN code : code[k].op = "LOAD" /\ code[k].name = n /\ ~LocalAt(code, functions, k)
GlobalWritten(code, functions, n) ==
  \E k \in DOMAIN code :
    \/ code[k].op = "STORE" /\ code[k].name = n /\ ~LocalAt(code, functions, k)
    \/ /\ code[k].op = "SCAN" /\ n \in code[k].targets
       /\ \A i \in Owners(functions, k) : ~bc_function_is_local(functions[i], n)
LocalOwner(code, functions, n) ==
  \/ \E k \in DOMAIN code : code[k].op = "STORE" /\ code[k].name = n /\ LocalAt(code, functions, k)
  \/ \E i \in DOMAIN functions : bc_function_is_parameter(functions[i], n)
NeverGlobal(code, functions, names) ==
  {n \in names : /\ GlobalRead(code, functions, n)
                 /\ ~GlobalWritten(code, functions, n)
                 /\ LocalOwner(code, functions, n)}

bc_scope_warnings(code, functions, names) ==
  LET p == LocalPasses(code, functions, names)
  IN [early |-> p.early, unread |-> p.unread,
      never |-> NeverGlobal(code, functions, names)]
-----------------------------------------------------------------------------
(* What the warnings promise, one function at a time.                      *)

Sets(ins, n) == (ins.op = "STORE" /\ ins.name = n) \/ (ins.op = "SCAN" /\ n \in ins.targets)
Uses(f, ins, n) == ins.op = "LOAD" /\ ins.name = n /\ IsLocal(f, ins)

\* A local that is not a parameter is read somewhere with no instruction of
\* the function before that place setting it.
ReadEarly(code, f, n) ==
  /\ n \notin f.parameters
  /\ \E k \in f.first..f.last :
       /\ Uses(f, code[k], n)
       /\ \A j \in f.first..(k - 1) :
            ~(Sets(code[j], n) /\ (code[j].op = "SCAN" \/ IsLocal(f, code[j])))

\* A local that is set, never read by its function, and read by others.
SetForOthers(code, functions, f, n) ==
  LET stores == {k \in f.first..f.last :
                   code[k].op = "STORE" /\ code[k].name = n /\ IsLocal(f, code[k])}
  IN /\ stores # {} /\ ~\E k \in f.first..f.last : Uses(f, code[k], n)
     /\ \E k \in DOMAIN code : /\ code[k].op = "LOAD" /\ code[k].name = n
                               /\ \A i \in Owners(functions, k) : n \notin functions[i].parameters
     /\ n \notin {"_", f.return_name} \cup f.parameters
     /\ \E k \in stores : code[k].by \notin ControlFlow /\ \A j \in stores : k <= j

WarningsMeant(code, functions, names) ==
  [early |-> [i \in DOMAIN functions |->
                {n \in names : ReadEarly(code, functions[i], n)}],
   unread |-> [i \in DOMAIN functions |->
                {n \in names : SetForOthers(code, functions, functions[i], n)}],
   never |-> NeverGlobal(code, functions, names)]
=============================================================================
