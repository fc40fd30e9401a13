------------------------------- MODULE UssrVm -------------------------------
(***************************************************************************)
(* The register machine that runs compiled programs (vm_execute and what   *)
(* it calls in src/src/main.c) and the variables it works on (the scope,   *)
(* the stack of call locals and the hash of src/src/ussr.c).               *)
(*                                                                         *)
(* One step is one instruction.  eval and try run a nested machine: the    *)
(* suspended ones wait in outer, with what the nested one was started for. *)
(* Every machine works on the same locals, globals and hash.               *)
(***************************************************************************)
EXTENDS UssrCompiler, TLC

CONSTANTS Sources,          \* the programs: commands cs and stdin's lines in
          MaxSteps,         \* USSR_VM_MAX_STEPS, for each machine
          MaxCalls,         \* USSR_VM_MAX_CALLS, for each machine
          Compile(_),       \* the compiler, ussr_bc_compile
          Parse(_),         \* the commands of a text; yyparse
          NameText(_),      \* the function name a text spells
          Hosts,            \* the host commands that can be run
          RunBlock(_, _)    \* a "@" block over the visible variables

ASSUME VmAssumption == MaxSteps \in Nat \ {0} /\ MaxCalls \in Nat \ {0}

VARIABLES source,           \* the program and its input
          vm,               \* the running machine: prog, ip, regs, frames, steps
          outer,            \* the machines that wait for a nested one
          locals,           \* the active scope's stack of call locals
          globals, hash,    \* name -> value
          out,              \* printed values
          input,            \* unread lines
          status            \* source, run, fail, done, error or rejected

vars == <<source, vm, outer, locals, globals, hash, out, input, status>>

Unset == [t |-> "unset", v |-> <<>>]
Empty == [x \in {} |-> ussr_null]

(***************************************************************************)
(* Variables.  A name is local if the innermost call has a slot for it,    *)
(* assigned or not; otherwise it is global.                                *)
(***************************************************************************)
TopLocals(ls) == IF ls = <<>> THEN [names |-> <<>>, val |-> <<>>] ELSE Last(ls)

ussr_locals_for(ls, x) == {s \in DOMAIN TopLocals(ls).names : TopLocals(ls).names[s] = x}

ussr_locals_store(ls, s, v) == [ls EXCEPT ![Len(ls)].val[s] = v]

ussr_scope_lookup(g, x) == IF x \in DOMAIN g THEN g[x] ELSE Unset
ussr_scope_set(g, x, v) == (x :> v) @@ g

ussr_get_variable(ls, g, x) ==
    LET at == ussr_locals_for(ls, x)
    IN  IF at = {} THEN ussr_scope_lookup(g, x) ELSE TopLocals(ls).val[Min(at)]

\* The place an instruction was resolved to: 0 by name, 1 a slot, 2 global.
ussr_get_variable_at(ls, g, x, place, slot) ==
    CASE place = 1 /\ slot \in DOMAIN TopLocals(ls).names -> TopLocals(ls).val[slot]
      [] place = 2 -> ussr_scope_lookup(g, x)
      [] OTHER     -> ussr_get_variable(ls, g, x)

\* The slot a store goes to, 0 for the scope.
StoreSlot(ls, x, place, slot) ==
    CASE place = 1 /\ slot \in DOMAIN TopLocals(ls).names -> slot
      [] place = 2 -> 0
      [] OTHER     -> IF ussr_locals_for(ls, x) = {} THEN 0 ELSE Min(ussr_locals_for(ls, x))

ussr_set_variable_at(x, v, place, slot) ==
    LET s == StoreSlot(locals, x, place, slot)
    IN  IF s = 0 THEN globals' = ussr_scope_set(globals, x, v) /\ UNCHANGED locals
                 ELSE locals' = ussr_locals_store(locals, s, v) /\ UNCHANGED globals

NullIfUnset(v) == IF v = Unset THEN ussr_null ELSE v

(***************************************************************************)
(* Calls.                                                                  *)
(***************************************************************************)
NoRegs == [r \in 0..RETURN_REG |-> ussr_null]

vm_init(prog, ip) == [prog |-> prog, ip |-> ip, regs |-> NoRegs, frames |-> <<>>, steps |-> 0]

\* The registers move into the frame; the callee starts with empty ones.
vm_push_frame(m, f, reg) ==
    [m EXCEPT !.regs   = NoRegs,
              !.ip     = m.prog.fns[f].entry,
              !.frames = Append(@, [ip |-> m.ip, reg |-> reg, f |-> f, regs |-> m.regs])]

\* Fresh locals with the parameters bound in order.
ussr_locals_push(fn, args) ==
    [names |-> fn.locals,
     val   |-> [s \in DOMAIN fn.locals |->
                  LET at == {i \in DOMAIN fn.params : fn.params[i] = fn.locals[s]}
                  IN  IF at = {} THEN Unset ELSE args[Max(at)]]]

Args(regs, n) == [i \in 1..n |-> regs[i - 1]]

CanCall(m, f, n) ==
    /\ Len(m.frames) < MaxCalls
    /\ f \in DOMAIN m.prog.fns
    /\ n = Len(m.prog.fns[f].params)

vm_call(m, f, reg) ==
    LET fn == m.prog.fns[f]
    IN  /\ vm' = vm_push_frame(m, f, reg)
        /\ locals' = Append(locals, ussr_locals_push(fn, Args(m.regs, Len(fn.params))))

(***************************************************************************)
(* Instructions.                                                           *)
(***************************************************************************)
\* The machine past its next instruction.
At(ops) ==
    /\ status = "run"
    /\ vm.ip < Len(vm.prog.code) /\ vm.steps < MaxSteps
    /\ vm.prog.code[vm.ip + 1].op \in ops

Ins  == vm.prog.code[vm.ip + 1]
Past == [vm EXCEPT !.ip = @ + 1, !.steps = @ + 1]
Reg(r) == vm.regs[r]

\* The instruction leaves v in register r, or stops the machine.
SetReg(r, v) ==
    IF v = Err THEN status' = "fail" /\ UNCHANGED vm
    ELSE vm' = [Past EXCEPT !.regs[r] = v] /\ UNCHANGED status

Fail == status' = "fail" /\ UNCHANGED vm

LoadConstant ==
    /\ At({"LOAD_CONST"})
    /\ SetReg(Ins.a, Ins.v)
    /\ UNCHANGED <<source, outer, locals, globals, hash, out, input>>

LoadVar ==
    /\ At({"LOAD_VAR"})
    /\ SetReg(Ins.a, NullIfUnset(ussr_get_variable_at(locals, globals, Ins.x, Ins.b, Ins.c)))
    /\ UNCHANGED <<source, outer, locals, globals, hash, out, input>>

StoreVar ==
    /\ At({"STORE_VAR"})
    /\ ussr_set_variable_at(Ins.x, Reg(Ins.a), Ins.b, Ins.c)
    /\ vm' = Past
    /\ UNCHANGED <<source, outer, hash, out, input, status>>

LoadHash ==
    /\ At({"LOAD_HASH"})
    /\ SetReg(Ins.a, IF Ins.x \in DOMAIN hash THEN hash[Ins.x] ELSE Err)
    /\ UNCHANGED <<source, outer, locals, globals, hash, out, input>>

StoreHash ==
    /\ At({"STORE_HASH"})
    /\ hash' = ussr_scope_set(hash, Ins.x, Reg(Ins.a))
    /\ vm' = Past
    /\ UNCHANGED <<source, outer, locals, globals, out, input, status>>

\* No program here makes a vector but init's arguments: an access fails.
Vector ==
    /\ At({"VECTOR_GET", "VECTOR_SET"})
    /\ Fail
    /\ UNCHANGED <<source, outer, locals, globals, hash, out, input>>

Unary ==
    /\ At({"NEG"})
    /\ SetReg(Ins.a, Negate(Reg(Ins.b)))
    /\ UNCHANGED <<source, outer, locals, globals, hash, out, input>>

Binary ==
    /\ At(BinaryOps)
    /\ SetReg(Ins.a, vm_binary(Ins.op, Reg(Ins.b), Reg(Ins.c)))
    /\ UNCHANGED <<source, outer, locals, globals, hash, out, input>>

Branches ==
    \/ Ins.op = "JMP"
    \/ Ins.op = "JMP_TRUE"  /\ vm_truthy(Reg(Ins.a))
    \/ Ins.op = "JMP_FALSE" /\ ~vm_truthy(Reg(Ins.a))

JumpTo ==
    /\ At({"JMP", "JMP_TRUE", "JMP_FALSE"})
    /\ vm' = IF Branches THEN [Past EXCEPT !.ip = Ins.to] ELSE Past
    /\ UNCHANGED <<source, outer, locals, globals, hash, out, input, status>>

PrintValue ==
    /\ At({"PRINT"})
    /\ out' = Append(out, Reg(Ins.a))
    /\ vm' = Past
    /\ UNCHANGED <<source, outer, locals, globals, hash, input, status>>

Concat ==
    /\ At({"CONCAT"})
    /\ LET parts == Args(vm.regs, Ins.c)
       IN  SetReg(Ins.a, IF \E i \in DOMAIN parts : parts[i].t # "str" THEN Err
                         ELSE ussr_string(FlattenSeq([i \in DOMAIN parts |-> parts[i].v])))
    /\ UNCHANGED <<source, outer, locals, globals, hash, out, input>>

(***************************************************************************)
(* scan and template.  A format is a string of type codes, a line of input *)
(* a sequence of fields; a field below Words is a number's text.           *)
(***************************************************************************)
STR   == 1
INT   == 2
REAL  == 3
BOOL  == 4
Words == 100

vm_scan_parse_field(type, field) ==
    CASE type = STR -> ussr_string(<<field>>)
      [] type = INT /\ field < Words -> ussr_integer(field)
      [] type = REAL /\ field < Words -> ussr_real(field, 1)
      [] type = BOOL /\ field \in {0, 1} -> ussr_boolean(field = 1)
      [] OTHER -> Err

\* The values of a line, in order; extra fields are not read.
vm_scan_execute(format, line) ==
    [i \in DOMAIN format |->
        IF i \in DOMAIN line THEN vm_scan_parse_field(format[i], line[i]) ELSE Err]

\* Every field is parsed before the first destination is stored.
Scan ==
    /\ At({"SCAN"})
    /\ LET format == Ins.v.v
           values == IF input = <<>> THEN <<>> ELSE vm_scan_execute(format, Head(input))
           Slot(i) == StoreSlot(locals, Ins.q[i], 0, 0)
           into(s) == {i \in DOMAIN values : Slot(i) = s}
       IN  IF Len(format) # Len(Ins.q)
           THEN Fail /\ UNCHANGED <<locals, globals, input>>
           ELSE /\ input' = IF input = <<>> THEN <<>> ELSE Tail(input)
                /\ IF values = <<>> \/ \E i \in DOMAIN values : values[i] = Err
                   THEN Fail /\ UNCHANGED <<locals, globals>>
                   ELSE /\ SetReg(Ins.a, ussr_boolean(TRUE))
                        /\ globals' = FoldLeft(LAMBDA g, i : ussr_scope_set(g, Ins.q[i], values[i]),
                                               globals, SetToSortSeq(into(0), <))
                        /\ locals' = FoldLeft(LAMBDA ls, i : ussr_locals_store(ls, Slot(i), values[i]),
                                              locals, SetToSortSeq(DOMAIN values \ into(0), <))
    /\ UNCHANGED <<source, outer, hash, out>>

vm_template_type(v) ==
    CASE v.t = "str" -> STR [] v.t = "int" -> INT
      [] v.t = "real" -> REAL [] v.t = "bool" -> BOOL [] OTHER -> 0

\* What is written before the first value of the wrong type stays written.
Template ==
    /\ At({"TEMPLATE"})
    /\ LET format == Ins.v.v
           values == Args(vm.regs, Ins.b)
           good   == {n \in 0..Min({Len(format), Len(values)}) :
                        \A i \in 1..n : vm_template_type(values[i]) = format[i]}
       IN  /\ out' = out \o SubSeq(values, 1, Max(good))
           /\ SetReg(Ins.a, IF Max(good) = Len(format) /\ Len(format) = Len(values)
                            THEN ussr_boolean(TRUE) ELSE Err)
    /\ UNCHANGED <<source, outer, locals, globals, hash, input>>

(***************************************************************************)
(* Calls, nested machines and the end of a machine.                        *)
(***************************************************************************)
CallFunction ==
    /\ At({"CALL"})
    /\ IF CanCall(Past, Ins.to, Ins.b)
       THEN vm_call(Past, Ins.to, Ins.c) /\ UNCHANGED status
       ELSE Fail /\ UNCHANGED locals
    /\ UNCHANGED <<source, outer, globals, hash, out, input>>

\* The value of the return variable goes to the caller's register.
vm_return(m, value) ==
    LET f == Last(m.frames)
    IN  [m EXCEPT !.regs   = [f.regs EXCEPT ![f.reg] = value],
                  !.ip     = f.ip,
                  !.frames = Front(@)]

Return ==
    /\ At({"RET"})
    /\ IF vm.frames = <<>> THEN Fail /\ UNCHANGED locals
       ELSE LET ret == vm.prog.fns[Last(vm.frames).f].ret
            IN  /\ vm' = vm_return(Past, NullIfUnset(ussr_get_variable(locals, globals, ret)))
                /\ locals' = Front(locals)
                /\ UNCHANGED status
    /\ UNCHANGED <<source, outer, globals, hash, out, input>>

Eval ==
    /\ At({"EVAL"})
    /\ LET cs   == IF Reg(0).t = "str" THEN Parse(Reg(0).v) ELSE <<>>
           prog == Compile(cs)
       IN  IF cs = <<>> \/ ~prog.ok THEN Fail /\ UNCHANGED outer
           ELSE /\ outer' = Append(outer, [m |-> Past, kind |-> "eval", a |-> Ins.a,
                                           x |-> Ins.x, depth |-> Len(locals)])
                /\ vm' = vm_init(prog, 0)
                /\ UNCHANGED status
    /\ UNCHANGED <<source, locals, globals, hash, out, input>>

\* try(failed): "function" args: the function in a machine of its own,
\* which returns to the program's HALT.
vm_try_call(n) ==
    LET prog == vm.prog
        f    == {i \in DOMAIN prog.fns : prog.fns[i].name = NameText(Reg(0).v)}
        m    == [vm_init(prog, Len(prog.code) - 1) EXCEPT
                    !.regs = [r \in 0..RETURN_REG |->
                                IF r < n - 1 THEN Reg(r + 1) ELSE ussr_null]]
    IN  IF n = 0 \/ Reg(0).t # "str" \/ f = {} \/ ~CanCall(m, Min(f), n - 1)
        THEN Fail /\ UNCHANGED <<outer, locals>>
        ELSE /\ outer' = Append(outer, [m |-> Past, kind |-> "try", a |-> Ins.a,
                                        x |-> "", depth |-> Len(locals)])
             /\ vm_call(m, Min(f), RETURN_REG)
             /\ UNCHANGED status

Try ==
    /\ At({"OOP"}) /\ Ins.x = "try"
    /\ vm_try_call(Ins.b)
    /\ UNCHANGED <<source, globals, hash, out, input>>

\* A builtin (len stands for them) or, failing that, a host command.
Builtin ==
    /\ At({"OOP"}) /\ Ins.x \notin {"try", "@"}
    /\ SetReg(Ins.a, CASE Ins.x = "len" /\ Ins.b = 1 /\ Reg(0).t = "str" ->
                             ussr_integer(Len(Reg(0).v))
                       [] Ins.x \in Hosts -> ussr_integer(0)
                       [] OTHER -> Err)
    /\ UNCHANGED <<source, outer, locals, globals, hash, out, input>>

\* The variables the innermost call sees, and the stack and scope after a
\* block has left them as vs.
Visible ==
    [x \in {y \in DOMAIN globals \cup ToSet(TopLocals(locals).names) :
             ussr_get_variable(locals, globals, y) # Unset} |->
        ussr_get_variable(locals, globals, x)]

WriteBack(vs) ==
    LET own == ToSet(TopLocals(locals).names)
    IN  /\ globals' = [x \in DOMAIN globals \cup (DOMAIN vs \ own) |->
                          IF x \in own THEN globals[x] ELSE vs[x]]
        /\ locals' = IF locals = <<>> THEN locals
                     ELSE [locals EXCEPT ![Len(locals)].val =
                             [s \in DOMAIN @ |->
                                LET x == TopLocals(locals).names[s]
                                IN  IF x \in DOMAIN vs THEN vs[x] ELSE @[s]]]

\* "@" runs through the tree interpreter, but its success is not marked as
\* handled: the machine goes on to run a host command called "@".
AdvancedBlock ==
    /\ At({"OOP"}) /\ Ins.x = "@"
    /\ \E r \in {RunBlock(Visible, Ins.q[1])} :
          /\ WriteBack(r.vars)
          /\ IF r.st = "ok" /\ "@" \in Hosts
             THEN vm' = [Past EXCEPT !.regs[Ins.a] = ussr_integer(0)] /\ UNCHANGED status
             ELSE Fail
    /\ UNCHANGED <<source, outer, hash, out, input>>

\* A slip the properties are tried against: the open calls' locals stay.
KeepLocals(ls, depth) == ls

\* The locals of the calls a nested machine left open are dropped.
UnwindLocals(ls, depth) == SubSeq(ls, 1, depth)

\* The value a nested machine that ended leaves in its starter's register.
NestedResult(o) ==
    IF o.kind = "try" THEN ussr_integer(0)
    ELSE NullIfUnset(ussr_get_variable(locals, globals, o.x))

Resume(o, v) == vm' = [o.m EXCEPT !.regs[o.a] = v]

Halt ==
    /\ At({"HALT"})
    /\ IF outer = <<>>
       THEN status' = "done" /\ locals' = <<>> /\ UNCHANGED <<vm, outer>>
       ELSE /\ Resume(Last(outer), NestedResult(Last(outer)))
            /\ outer' = Front(outer)
            /\ locals' = IF Last(outer).kind = "try"
                         THEN UnwindLocals(locals, Last(outer).depth) ELSE locals
            /\ UNCHANGED status
    /\ UNCHANGED <<source, globals, hash, out, input>>

StepLimit ==
    /\ status = "run" /\ vm.steps = MaxSteps
    /\ Fail
    /\ UNCHANGED <<source, outer, locals, globals, hash, out, input>>

\* A failed machine: an eval fails with it, a try catches it and unwinds
\* the locals of the calls that were open, the main one ends the program.
Unwind ==
    /\ status = "fail"
    /\ IF outer = <<>>
       THEN /\ status' = "error"
            /\ locals' = <<>>
            /\ UNCHANGED <<vm, outer>>
       ELSE /\ outer' = Front(outer)
            /\ IF Last(outer).kind = "eval"
               THEN vm' = Last(outer).m /\ UNCHANGED <<status, locals>>
               ELSE /\ Resume(Last(outer), ussr_integer(1))
                    /\ locals' = UnwindLocals(locals, Last(outer).depth)
                    /\ status' = "run"
    /\ UNCHANGED <<source, globals, hash, out, input>>

(***************************************************************************)
(* From the source to the first instruction: a program with init(argc,     *)
(* argv) starts there and never runs its top level.                        *)
(***************************************************************************)
Init ==
    /\ source \in Sources
    /\ input = source.in
    /\ vm = vm_init([ok |-> FALSE, code |-> <<>>, fns |-> <<>>], 0)
    /\ outer = <<>> /\ locals = <<>>
    /\ globals = Empty /\ hash = Empty
    /\ out = <<>>
    /\ status = "source"

run_bytecode(prog) ==
    LET f == {i \in DOMAIN prog.fns : prog.fns[i].name = "init"}
        m == [vm_init(prog, Len(prog.code) - 1) EXCEPT
                 !.regs[0] = ussr_integer(0), !.regs[1] = [t |-> "vec", v |-> <<>>]]
    IN  IF f = {} THEN status' = "run" /\ vm' = vm_init(prog, 0) /\ UNCHANGED locals
        ELSE IF ~CanCall(m, Min(f), 2) THEN status' = "rejected" /\ UNCHANGED <<vm, locals>>
        ELSE status' = "run" /\ vm_call(m, Min(f), RETURN_REG)

compile_source ==
    /\ status = "source"
    /\ LET prog == Compile(source.cs)
       IN  IF prog.ok THEN run_bytecode(prog)
           ELSE status' = "rejected" /\ UNCHANGED <<vm, locals>>
    /\ UNCHANGED <<source, outer, globals, hash, out, input>>

Stopped == status \in {"done", "error", "rejected"} /\ UNCHANGED vars

Next ==
    \/ compile_source
    \/ LoadConstant \/ LoadVar \/ StoreVar \/ LoadHash \/ StoreHash
    \/ Vector \/ Unary \/ Binary \/ JumpTo \/ PrintValue \/ Concat
    \/ Scan \/ Template \/ CallFunction \/ Return \/ Eval \/ Try \/ Builtin \/ AdvancedBlock
    \/ Halt \/ StepLimit \/ Unwind
    \/ Stopped

Spec == Init /\ [][Next]_vars
=============================================================================
