----------------------------- MODULE Scheduler -----------------------------
(***************************************************************************)
(* The cooperative scheduler of the USSR virtual machine: the process      *)
(* table and run queue of scheduler.c, the event queue of eventq.c that    *)
(* parks sleeping, waiting and fork-exec'ing processes, and the part of    *)
(* vm_execute (main.c) that suspends and resumes a process.                *)
(*                                                                         *)
(* The interpreter is one thread: exactly one step of the loop, or one     *)
(* instruction of the current process, happens at a time.  What runs       *)
(* beside it is the world: the clock, child processes of the operating     *)
(* system, and the readiness of socket handles.                            *)
(***************************************************************************)
EXTENDS Integers, Sequences, FiniteSets

CONSTANTS
    MaxPid,       \* bound: processes created in one behaviour
    MaxToken,     \* bound: events registered in one behaviour
    MaxClock,     \* bound: the last deadline a sleep may ask for
    Quantum,      \* USSR_SCHED_QUANTUM, the instructions meant for one slice
    MaxSteps,     \* USSR_VM_MAX_STEPS, instructions a process may execute
    MaxFired,     \* USSR_EQ_MAX_FIRED, events collected by one dispatch
    BackgroundOk, \* TRUE for the REPL, FALSE for scripts and -e
    Values,       \* what a process may compute or return
    Codes,        \* exit codes of external commands
    Delays,       \* arguments of sleep, in clock ticks
    Fds,          \* socket handles
    Commands,     \* the commands the programs of this instance use
    Null          \* ussr_null(): a register nothing was stored in

CommandNames == {"set", "async", "await", "sleep", "external", "wait_readable",
                 "yield", "eval", "try", "fail"}

ASSUME BoundsAssumption ==
    /\ MaxPid \in Nat \ {0} /\ MaxToken \in Nat /\ MaxClock \in Nat
    /\ Quantum \in Nat \ {0} /\ MaxSteps \in Nat \ {0} /\ MaxFired \in Nat \ {0}

ASSUME DataAssumption ==
    /\ BackgroundOk \in BOOLEAN
    /\ 0 \in Values /\ Codes \subseteq Values /\ Null \notin Values
    /\ Delays \subseteq Nat /\ Fds \subseteq Nat
    /\ Commands \subseteq CommandNames

VARIABLES
    \* the process table: one function per field of ussr_proc_t
    state, kind, waitPid, token, pending, resume, reg, result, at, yieldReq,
    steps,
    \* the scheduler's own variables
    nextPid, mainPid, runq, current, pc, ran, waking, failed,
    \* the event queue
    events, nextToken, fired,
    \* the world outside the interpreter
    clock, exitCode, fdReady

procVars  == <<state, kind, waitPid, token, pending, resume, reg, result, at,
               yieldReq, steps>>
schedVars == <<nextPid, mainPid, runq, current, pc, ran, waking, failed>>
eqVars    == <<events, nextToken, fired>>
worldVars == <<clock, exitCode, fdReady>>
vars      == <<procVars, schedVars, eqVars, worldVars>>

Pids   == 1 .. MaxPid
Tokens == 1 .. MaxToken
Kinds  == {"NONE", "AWAIT", "TIMER", "CHILD", "SOCKET"}
Register == Values \cup {Null}

(* One entry of eq_timers, eq_children or eq_fds.  arg is the deadline of  *)
(* a timer, the handle of a socket wait, and unused for a child.  The three*)
(* arrays are appended to with rising tokens and compacted in place, so    *)
(* their order is the order of the tokens and sets of entries lose nothing.*)
Event == [kind : {"TIMER", "CHILD", "SOCKET"}, token : Tokens, owner : Pids,
          arg : Nat]

Live(p)    == state[p] \notin {"ABSENT", "ZOMBIE"}
Blocked(p) == state[p] \in {"SLEEPING", "WAITING"}

-----------------------------------------------------------------------------
(* The whole interpreter after ussr_sched_init; a process that does not    *)
(* exist is "ABSENT".                                                      *)
Init ==
    /\ state    = [p \in Pids |-> "ABSENT"]
    /\ kind     = [p \in Pids |-> "NONE"]
    /\ waitPid  = [p \in Pids |-> 0]
    /\ token    = [p \in Pids |-> 0]
    /\ pending  = [p \in Pids |-> FALSE]
    /\ resume   = [p \in Pids |-> Null]
    /\ reg      = [p \in Pids |-> Null]
    /\ result   = [p \in Pids |-> Null]
    /\ at       = [p \in Pids |-> "code"]
    /\ yieldReq = [p \in Pids |-> FALSE]
    /\ steps    = [p \in Pids |-> 0]
    /\ nextPid = 1 /\ mainPid = 0 /\ runq = <<>> /\ current = 0
    /\ pc = "prompt" /\ ran = 0 /\ waking = 0 /\ failed = FALSE
    /\ events = {} /\ nextToken = 1 /\ fired = {}
    /\ clock = 0 /\ exitCode = [t \in Tokens |-> Null] /\ fdReady = {}

-----------------------------------------------------------------------------
(* Building blocks of the operations.                                      *)

(* sched_proc_create followed by sched_enqueue: every other field keeps    *)
(* the value calloc and vm_init gave it.                                   *)
Spawn ==
    /\ nextPid \in Pids
    /\ state' = [state EXCEPT ![nextPid] = "RUNNABLE"]
    /\ runq' = Append(runq, nextPid)
    /\ nextPid' = nextPid + 1

(* ussr_eq_add_timer, _add_child and _add_fd. *)
AddEvent(k, a) ==
    /\ nextToken \in Tokens
    /\ events' = events \cup
          {[kind |-> k, token |-> nextToken, owner |-> current, arg |-> a]}
    /\ nextToken' = nextToken + 1

(* sched_wake *)
Wake(p, v) ==
    /\ resume' = [resume EXCEPT ![p] = v]
    /\ pending' = [pending EXCEPT ![p] = TRUE]
    /\ kind' = [kind EXCEPT ![p] = "NONE"]
    /\ state' = [state EXCEPT ![p] = "RUNNABLE"]
    /\ runq' = Append(runq, p)

(* sched_zombify up to its loop, which WakeAwaiter runs; the new state is  *)
(* set by the caller.                                                      *)
ZombifyCurrent ==
    /\ result' = [result EXCEPT ![current] = reg[current]]
    /\ waking' = current /\ current' = 0 /\ pc' = "zombify" /\ ran' = 0

(* ussr_sched_run leaves its loop: a script ends, the REPL prompts again. *)
Return ==
    /\ pc' = IF BackgroundOk THEN "prompt" ELSE "exit"
    /\ UNCHANGED <<procVars, nextPid, mainPid, runq, current, ran, waking,
                   eqVars, worldVars>>

-----------------------------------------------------------------------------
(* run_bytecode: a script, or the next entry typed at the REPL, becomes    *)
(* the main process and the scheduler is run.                              *)
SpawnMain ==
    /\ pc = "prompt"
    /\ Spawn
    /\ mainPid' = nextPid
    /\ failed' = FALSE
    /\ pc' = "loop"
    /\ UNCHANGED <<kind, waitPid, token, pending, resume, reg, result, at,
                   yieldReq, steps, current, ran, waking, eqVars, worldVars>>

(* The loop hands the head of the run queue a fresh time slice. *)
Pick ==
    /\ pc = "loop" /\ runq # <<>>
    /\ current' = Head(runq)
    /\ runq' = Tail(runq)
    /\ state' = [state EXCEPT ![Head(runq)] = "RUNNING"]
    /\ ran' = 0
    /\ pc' = "slice"
    /\ UNCHANGED <<kind, waitPid, token, pending, resume, reg, result, at,
                   yieldReq, steps, nextPid, mainPid, waking, failed, eqVars, worldVars>>

(* The preemption check of vm_execute, once per instruction boundary:      *)
(*     if (quantum != 0) { if (quantum-- == 0) return SUSPENDED; }         *)
(* quantum is what is left of the slice's budget; the inner test looks at  *)
(* a value the outer one has just found to be non-zero.                    *)
QuantumLeft == IF ran < Quantum THEN Quantum - ran ELSE 0
QuantumElapsed == QuantumLeft # 0 /\ QuantumLeft = 0

(* Mutant: a process that a nested call has marked blocked is queued too. *)
EndSliceBlocked ==
    /\ pc = "slice"
    /\ QuantumElapsed \/ yieldReq[current]
    /\ yieldReq' = [yieldReq EXCEPT ![current] = QuantumElapsed /\ yieldReq[current]]
    /\ state' = [state EXCEPT ![current] = IF @ = "RUNNING" THEN "RUNNABLE" ELSE @]
    /\ runq' = Append(runq, current)
    /\ current' = 0 /\ pc' = "loop" /\ ran' = 0
    /\ UNCHANGED <<kind, waitPid, token, pending, resume, reg, result, at,
                   steps, nextPid, mainPid, waking, failed, eqVars, worldVars>>

(* vm_execute returns SUSPENDED at an instruction boundary: its quantum    *)
(* check says so, or a yield was requested.  A process that some nested    *)
(* call has already marked blocked is not put back on the run queue.       *)
EndSlice ==
    /\ pc = "slice"
    /\ QuantumElapsed \/ yieldReq[current]
    /\ yieldReq' = [yieldReq EXCEPT ![current] = QuantumElapsed /\ yieldReq[current]]
    /\ IF state[current] = "RUNNING"
         THEN /\ state' = [state EXCEPT ![current] = "RUNNABLE"]
              /\ runq' = Append(runq, current)
         ELSE UNCHANGED <<state, runq>>
    /\ current' = 0 /\ pc' = "loop" /\ ran' = 0
    /\ UNCHANGED <<kind, waitPid, token, pending, resume, reg, result, at,
                   steps, nextPid, mainPid, waking, failed, eqVars, worldVars>>

AtBoundary == pc = "slice" /\ ~QuantumElapsed /\ ~yieldReq[current]

(* Mutant: resume_pending is not reset. *)
ResumeKeepsPending ==
    /\ AtBoundary /\ pending[current]
    /\ reg' = [reg EXCEPT ![current] = resume[current]]
    /\ at' = [at EXCEPT ![current] = "code"]
    /\ UNCHANGED <<state, kind, waitPid, token, pending, resume, result, yieldReq, steps,
                   schedVars, eqVars, worldVars>>

(* The value delivered by sched_wake reaches the register of the command   *)
(* that blocked, before the next instruction is fetched.                   *)
Resume ==
    /\ AtBoundary /\ pending[current]
    /\ pending' = [pending EXCEPT ![current] = FALSE]
    /\ reg' = [reg EXCEPT ![current] = resume[current]]
    /\ resume' = [resume EXCEPT ![current] = Null]
    /\ at' = [at EXCEPT ![current] = "code"]
    /\ UNCHANGED <<state, kind, waitPid, token, result, yieldReq, steps, schedVars,
                   eqVars, worldVars>>

(* Mutant: the instructions of a process are not counted. *)
CountStepNever ==
    /\ AtBoundary /\ ~pending[current]
    /\ UNCHANGED steps

(* An instruction of the current process is fetched and counted. *)
CountStep ==
    /\ AtBoundary /\ ~pending[current]
    /\ steps[current] < MaxSteps
    /\ steps' = [steps EXCEPT ![current] = @ + 1]

Fetch(command) == command \in Commands /\ CountStep

(* The slice goes on after the instruction; ran counts up to Quantum + 1. *)
SliceGoesOn == ran' = IF ran > Quantum THEN ran ELSE ran + 1

(* An instruction that stores v in the register and calls nothing. *)
Set(v) ==
    /\ Fetch("set")
    /\ SliceGoesOn
    /\ reg' = [reg EXCEPT ![current] = v]
    /\ UNCHANGED <<state, kind, waitPid, token, pending, resume, result, at,
                   yieldReq, nextPid, mainPid, runq, current, pc, waking, failed,
                   eqVars, worldVars>>

(* async or load, directly or inside a nested call: the pid of the new     *)
(* process goes to a register that is not modelled.                        *)
Async ==
    /\ Fetch("async")
    /\ SliceGoesOn
    /\ Spawn
    /\ UNCHANGED <<kind, waitPid, token, pending, resume, reg, result, at,
                   yieldReq, mainPid, current, pc, waking, failed, eqVars,
                   worldVars>>

(* yield, which a nested call may also execute: it only sets the flag of   *)
(* the process's own VM.                                                   *)
Yield ==
    /\ Fetch("yield")
    /\ SliceGoesOn
    /\ yieldReq' = [yieldReq EXCEPT ![current] = TRUE]
    /\ UNCHANGED <<state, kind, waitPid, token, pending, resume, reg, result, at,
                   nextPid, mainPid, runq, current, pc, waking, failed, eqVars,
                   worldVars>>

(* await of a process that has already finished copies its result. *)
AwaitFinished(q) ==
    /\ Fetch("await")
    /\ SliceGoesOn
    /\ state[q] = "ZOMBIE"
    /\ reg' = [reg EXCEPT ![current] = result[q]]
    /\ UNCHANGED <<state, kind, waitPid, token, pending, resume, result, at,
                   yieldReq, nextPid, mainPid, runq, current, pc, waking, failed,
                   eqVars, worldVars>>

-----------------------------------------------------------------------------
(* The blocking commands: what the current process can ask for.  pid is    *)
(* the awaited process, arg the deadline of a sleep or the handle waited   *)
(* on.                                                                     *)
Request(c, k, q, a) == [command |-> c, kind |-> k, pid |-> q, arg |-> a]

Requests ==
    {Request("await", "AWAIT", q, 0) : q \in {p \in Pids \ {current} : Live(p)}}
      \cup {Request("sleep", "TIMER", 0, clock + d) :
              d \in {d \in Delays : clock + d <= MaxClock}}
      \cup {Request("external", "CHILD", 0, 0)}
      \cup {Request("wait_readable", "SOCKET", 0, fd) : fd \in Fds}

(* The request is registered and sched_block_current marks the process; s  *)
(* is the state it is left in (an error after the block overwrites it).    *)
BlockCurrent(r, s) ==
    /\ IF r.kind = "AWAIT" THEN UNCHANGED <<events, nextToken>>
                           ELSE AddEvent(r.kind, r.arg)
    /\ kind' = [kind EXCEPT ![current] = r.kind]
    /\ waitPid' = [waitPid EXCEPT ![current] = r.pid]
    /\ token' = [token EXCEPT ![current] =
                    IF r.kind = "AWAIT" THEN 0 ELSE nextToken]
    /\ state' = [state EXCEPT ![current] = s]
    /\ pending' = [pending EXCEPT ![current] = FALSE]

Parked(r) == IF r.kind = "TIMER" THEN "SLEEPING" ELSE "WAITING"

(* A blocking command of the process itself: the VM suspends inside the    *)
(* instruction and the slice ends.                                         *)
Block(r) ==
    /\ Fetch(r.command)
    /\ BlockCurrent(r, Parked(r))
    /\ at' = [at EXCEPT ![current] = r.command]
    /\ current' = 0 /\ pc' = "loop" /\ ran' = 0
    /\ UNCHANGED <<resume, reg, result, yieldReq, nextPid, mainPid, runq, waking,
                   failed, fired, worldVars>>

(* A blocking command of a function called with try: vm_try_call runs the  *)
(* function in a nested VM, sees it suspend, reports a failed call and     *)
(* carries on with the slice, the process still marked blocked.  External  *)
(* commands of a nested VM run synchronously.                              *)
TryBlock(r) ==
    /\ Fetch("try")
    /\ SliceGoesOn
    /\ r.command \in Commands \ {"external"}
    /\ BlockCurrent(r, Parked(r))
    /\ UNCHANGED <<resume, reg, result, at, yieldReq, nextPid, mainPid, runq,
                   current, pc, waking, failed, fired, worldVars>>

(* A blocking command of an eval'd text: the nested VM's suspension is an  *)
(* error of the eval instruction, and the process dies with its event      *)
(* still registered.                                                       *)
EvalBlock(r) ==
    /\ Fetch("eval")
    /\ r.command \in Commands \ {"external"}
    /\ BlockCurrent(r, "ZOMBIE")
    /\ ZombifyCurrent
    /\ failed' = (failed \/ current = mainPid)
    /\ UNCHANGED <<resume, reg, at, yieldReq, nextPid, mainPid, runq, fired,
                   worldVars>>

(* Any other instruction that fails: a bad argument, an await of itself    *)
(* or of no process, an async whose process is created and freed again.    *)
Fail ==
    /\ Fetch("fail")
    /\ nextPid' \in {nextPid, nextPid + 1} /\ nextPid' <= MaxPid + 1
    /\ state' = [state EXCEPT ![current] = "ZOMBIE"]
    /\ ZombifyCurrent
    /\ failed' = (failed \/ current = mainPid)
    /\ UNCHANGED <<kind, waitPid, token, pending, resume, reg, at, yieldReq,
                   mainPid, runq, eqVars, worldVars>>

(* USSR_VM_MAX_STEPS: the process may not fetch another instruction. *)
StepLimit ==
    /\ AtBoundary /\ ~pending[current]
    /\ steps[current] = MaxSteps
    /\ state' = [state EXCEPT ![current] = "ZOMBIE"]
    /\ ZombifyCurrent
    /\ failed' = (failed \/ current = mainPid)
    /\ UNCHANGED <<kind, waitPid, token, pending, resume, reg, at, yieldReq, steps,
                   nextPid, mainPid, runq, eqVars, worldVars>>

(* The program reaches its HALT: vm_execute returns DONE. *)
Halt ==
    /\ CountStep
    /\ state' = [state EXCEPT ![current] = "ZOMBIE"]
    /\ ZombifyCurrent
    /\ UNCHANGED <<kind, waitPid, token, pending, resume, reg, at, yieldReq,
                   nextPid, mainPid, runq, failed, eqVars, worldVars>>

-----------------------------------------------------------------------------
(* The loop of sched_zombify walks the process table, newest first. *)
Awaits(p, q) == state[p] = "WAITING" /\ kind[p] = "AWAIT" /\ waitPid[p] = q

WakeAwaiter ==
    /\ pc = "zombify"
    /\ \E p \in Pids :
         /\ Awaits(p, waking)
         /\ \A o \in Pids : Awaits(o, waking) => o <= p
         /\ Wake(p, result[waking])
    /\ UNCHANGED <<waitPid, token, reg, result, at, yieldReq, steps, nextPid, mainPid,
                   current, pc, ran, waking, failed, eqVars, worldVars>>

(* Mutant: the walk over the awaiters may stop early. *)
ZombifyDoneEarly ==
    /\ pc = "zombify"
    /\ pc' = "loop" /\ waking' = 0
    /\ UNCHANGED <<procVars, nextPid, mainPid, runq, current, ran, failed,
                   eqVars, worldVars>>

ZombifyDone ==
    /\ pc = "zombify"
    /\ \A p \in Pids : ~Awaits(p, waking)
    /\ pc' = "loop" /\ waking' = 0
    /\ UNCHANGED <<procVars, nextPid, mainPid, runq, current, ran, failed,
                   eqVars, worldVars>>

-----------------------------------------------------------------------------
(* Nobody is runnable: the loop returns, gives up or waits for an event. *)
Idle == pc = "loop" /\ runq = <<>>
AnyLive == \E p \in Pids : Live(p)
MainDone == mainPid = 0 \/ ~Live(mainPid)

ReturnAllDone ==
    /\ Idle /\ ~AnyLive
    /\ failed' = failed
    /\ Return

(* Mutant: the event queue is cleaned up between two REPL entries. *)
ReturnBackgroundCleans ==
    /\ Idle /\ AnyLive /\ BackgroundOk /\ MainDone
    /\ failed' = failed
    /\ pc' = "prompt" /\ events' = {}
    /\ UNCHANGED <<procVars, nextPid, mainPid, runq, current, ran, waking,
                   nextToken, fired, worldVars>>

ReturnBackground ==
    /\ Idle /\ AnyLive /\ BackgroundOk /\ MainDone
    /\ failed' = failed
    /\ Return

ReturnDeadlock ==
    /\ Idle /\ AnyLive /\ ~(BackgroundOk /\ MainDone)
    /\ events = {}
    /\ failed' = TRUE
    /\ Return

(* Mutants: the deadline compared the wrong way, or not at all. *)
DueStrict(e) ==
    \/ e.kind = "TIMER"  /\ e.arg < clock
    \/ e.kind = "CHILD"  /\ exitCode[e.token] # Null
    \/ e.kind = "SOCKET" /\ e.arg \in fdReady
DueEarly(e) ==
    \/ e.kind = "TIMER"
    \/ e.kind = "CHILD"  /\ exitCode[e.token] # Null
    \/ e.kind = "SOCKET" /\ e.arg \in fdReady

Due(e) ==
    \/ e.kind = "TIMER"  /\ e.arg <= clock
    \/ e.kind = "CHILD"  /\ exitCode[e.token] # Null
    \/ e.kind = "SOCKET" /\ e.arg \in fdReady

(* The order in which ussr_eq_dispatch collects: every timer, then every   *)
(* child, then every handle, each array in the order of registration.      *)
Phase(k) == CASE k = "TIMER" -> 1 [] k = "CHILD" -> 2 [] OTHER -> 3
Before(e, f) == \/ Phase(e.kind) < Phase(f.kind)
                \/ e.kind = f.kind /\ e.token < f.token

(* sched_handle_events waits, collects at most MaxFired due events and     *)
(* removes them from the queue.  The dispatches that time out with nothing *)
(* due change nothing.                                                     *)
Collect ==
    LET due == {e \in events : Due(e)}
    IN  {e \in due : Cardinality({f \in due : Before(f, e)}) < MaxFired}

Dispatch ==
    /\ Idle /\ AnyLive /\ ~(BackgroundOk /\ MainDone)
    /\ Collect # {}
    /\ fired' = Collect
    /\ events' = events \ Collect
    /\ pc' = "wake"
    /\ UNCHANGED <<procVars, nextPid, mainPid, runq, current, ran, waking,
                   failed, nextToken, worldVars>>

(* Mutant: the exit code of a child is dropped. *)
WakeValueZero(e) == 0
WakeValue(e) == IF e.kind = "CHILD" THEN exitCode[e.token] ELSE 0

(* Mutant: the owner's token is not looked at. *)
CurrentAnyToken(e) == Live(e.owner)

(* The events are handed out in the order of collection; one whose owner   *)
(* is gone or has blocked on something else since is dropped.              *)
Current(e) == Live(e.owner) /\ token[e.owner] = e.token

HandOut(e) ==
    /\ pc = "wake" /\ e \in fired
    /\ \A f \in fired \ {e} : Before(e, f)
    /\ fired' = fired \ {e}
    /\ pc' = IF fired = {e} THEN "loop" ELSE "wake"
    /\ IF Current(e)
         THEN Wake(e.owner, WakeValue(e))
         ELSE UNCHANGED <<resume, pending, kind, state, runq>>
    /\ UNCHANGED <<waitPid, token, reg, result, at, yieldReq, steps, nextPid, mainPid,
                   current, ran, waking, failed, events, nextToken, worldVars>>

(* ussr_sched_cleanup: the script has ended, or the REPL is left, with     *)
(* whatever is still parked.                                               *)
Quit ==
    /\ pc = "exit" \/ (pc = "prompt" /\ BackgroundOk)
    /\ state' = [p \in Pids |-> "ABSENT"]
    /\ nextPid' = 1 /\ mainPid' = 0 /\ runq' = <<>> /\ current' = 0
    /\ events' = {}
    /\ pc' = "halted"
    /\ UNCHANGED <<kind, waitPid, token, pending, resume, reg, result, at,
                   yieldReq, steps, ran, waking, failed, nextToken, fired, worldVars>>

-----------------------------------------------------------------------------
(* The world: time passes (only while a timer is running is it of          *)
(* interest), children exit, handles become readable or stop being so.     *)
Tick ==
    /\ \E e \in events : e.kind = "TIMER" /\ e.arg > clock
    /\ clock' = clock + 1
    /\ UNCHANGED <<procVars, schedVars, eqVars, exitCode, fdReady>>

ChildExit(e, c) ==
    /\ e \in events /\ e.kind = "CHILD" /\ exitCode[e.token] = Null
    /\ exitCode' = [exitCode EXCEPT ![e.token] = c]
    /\ UNCHANGED <<procVars, schedVars, eqVars, clock, fdReady>>

FdChange(fd) ==
    /\ \E e \in events : e.kind = "SOCKET" /\ e.arg = fd
    /\ fdReady' = IF fd \in fdReady THEN fdReady \ {fd} ELSE fdReady \cup {fd}
    /\ UNCHANGED <<procVars, schedVars, eqVars, clock, exitCode>>

-----------------------------------------------------------------------------
Instruction ==
    \/ \E v \in Values : Set(v)
    \/ Async \/ Yield \/ Fail \/ StepLimit \/ Halt
    \/ \E q \in Pids : AwaitFinished(q)
    \/ \E r \in Requests : Block(r) \/ TryBlock(r) \/ EvalBlock(r)

Loop ==
    \/ Pick \/ EndSlice \/ Resume
    \/ WakeAwaiter \/ ZombifyDone
    \/ ReturnAllDone \/ ReturnBackground \/ ReturnDeadlock
    \/ Dispatch \/ \E e \in fired : HandOut(e)

World ==
    \/ Tick
    \/ \E e \in events, c \in Codes : ChildExit(e, c)
    \/ \E fd \in Fds : FdChange(fd)

Halted == pc = "halted" /\ UNCHANGED vars

Next == SpawnMain \/ Loop \/ Instruction \/ Quit \/ Halted \/ World

Spec == Init /\ [][Next]_vars

(* The interpreter's thread keeps running, the clock keeps ticking and     *)
(* external commands end; nothing is assumed of sockets or of programs.    *)
FairSpec ==
    /\ Spec
    /\ WF_vars(SpawnMain)
    /\ WF_vars(Loop \/ Instruction)
    /\ WF_vars(Tick)
    /\ \A t \in Tokens :
         WF_vars(\E e \in events, c \in Codes : e.token = t /\ ChildExit(e, c))

-----------------------------------------------------------------------------
(* Type invariant of the process table, run queue and event queue. *)
TypeOK ==
    /\ state \in [Pids -> {"ABSENT", "RUNNABLE", "RUNNING", "SLEEPING",
                           "WAITING", "ZOMBIE"}]
    /\ kind \in [Pids -> Kinds]
    /\ waitPid \in [Pids -> 0 .. MaxPid]
    /\ token \in [Pids -> 0 .. MaxToken]
    /\ pending \in [Pids -> BOOLEAN] /\ yieldReq \in [Pids -> BOOLEAN]
    /\ resume \in [Pids -> Register] /\ reg \in [Pids -> Register]
    /\ result \in [Pids -> Register]
    /\ at \in [Pids -> {"code", "await", "sleep", "external", "wait_readable"}]
    /\ nextPid \in 1 .. MaxPid + 1 /\ mainPid \in 0 .. MaxPid
    /\ runq \in Seq(Pids) /\ current \in 0 .. MaxPid
    /\ pc \in {"prompt", "loop", "slice", "zombify", "wake", "exit", "halted"}
    /\ steps \in [Pids -> 0 .. MaxSteps]
    /\ ran \in 0 .. Quantum + 1 /\ waking \in 0 .. MaxPid /\ failed \in BOOLEAN
    /\ events \subseteq Event /\ fired \subseteq Event
    /\ nextToken \in 1 .. MaxToken + 1
    /\ clock \in 0 .. MaxClock
    /\ exitCode \in [Tokens -> Codes \cup {Null}] /\ fdReady \subseteq Fds

InQueue(q, p) == \E i \in DOMAIN q : q[i] = p
NoDuplicates(q) == \A i, j \in DOMAIN q : q[i] = q[j] => i = j

(* The run queue holds exactly the RUNNABLE processes, each of them once:  *)
(* no interleaving of wakes (sched_wake from an event, from a finished     *)
(* process, EndSlice) queues a process twice or leaves one out.            *)
RunQueueExact ==
    /\ \A p \in Pids : state[p] = "RUNNABLE" <=> InQueue(runq, p)
    /\ NoDuplicates(runq)

(* What will wake a blocked process: a live process it awaits, or the one  *)
(* that is just waking its awaiters; else exactly its event, under its own *)
(* pid and token, still registered or collected and about to be handed out.*)
WakeOwed(p) ==
    \/ /\ kind[p] = "AWAIT" /\ waitPid[p] \in Pids
       /\ Live(waitPid[p]) \/ (pc = "zombify" /\ waking = waitPid[p])
    \/ /\ kind[p] # "AWAIT"
       /\ \E e \in events \cup fired :
            e.owner = p /\ e.token = token[p] /\ e.kind = kind[p]

(* No wakeup is lost, however blocks, nested calls, ends of processes and  *)
(* dispatches of the event queue follow each other: what a blocked process *)
(* waits for is still there to wake it.                                    *)
NoLostWakeup == \A p \in Pids : Blocked(p) => WakeOwed(p)

(* The "deadlock" report of ussr_sched_run is right: when nobody is        *)
(* runnable and no event is pending, every live process awaits another     *)
(* live process, so none of them can ever run again.                       *)
DeadlockIsReal ==
    Idle /\ events = {} =>
        \A p \in Pids : Live(p) =>
            /\ state[p] = "WAITING" /\ kind[p] = "AWAIT"
            /\ waitPid[p] \in Pids \ {p} /\ Live(waitPid[p])

(* The value a blocked command is about to receive is the right one: the   *)
(* result of the very process it awaited, now finished, or the exit code   *)
(* of the very child it started.                                           *)
DeliveredValue ==
    \A p \in Pids : pending[p] /\ Live(p) =>
        /\ at[p] = "await" => /\ waitPid[p] \in Pids
                              /\ state[waitPid[p]] = "ZOMBIE"
                              /\ resume[p] = result[waitPid[p]]
        /\ at[p] = "external" => /\ token[p] \in Tokens
                                 /\ exitCode[token[p]] # Null
                                 /\ resume[p] = exitCode[token[p]]

(* vm.h, the block resume protocol: a wake value is only delivered to a    *)
(* VM that is suspended inside the blocking command it belongs to.         *)
ResumeAtCommand == \A p \in Pids : pending[p] /\ Live(p) => at[p] # "code"

(* A finished process is finished: until the table is freed no late event, *)
(* await or wake makes it runnable again or changes the result that later  *)
(* awaits will copy.                                                       *)
ZombieStep ==
    \A p \in Pids : state[p] = "ZOMBIE" =>
        \/ state'[p] = "ZOMBIE" /\ result'[p] = result[p]
        \/ pc' = "halted"
ZombieIsFinal == [][ZombieStep]_vars

(* A blocked process is only made runnable by what it waits for: its own   *)
(* deadline reached, its own child gone, its own handle reported, or the   *)
(* awaited process finished.                                               *)
WakeStep ==
    \A p \in Pids : Blocked(p) /\ state'[p] = "RUNNABLE" =>
        \/ kind[p] = "AWAIT" /\ state[waitPid[p]] = "ZOMBIE"
        \/ \E e \in fired : /\ e.owner = p /\ e.kind = kind[p] /\ e.token = token[p]
                            /\ e.kind = "TIMER" => e.arg <= clock
                            /\ e.kind = "CHILD" => exitCode[e.token] # Null
WakeHasCause == [][WakeStep]_vars

(* A sleeper does not sleep for ever, although events are only looked at   *)
(* when nobody is runnable.                                                *)
SleeperWakes == \A p \in Pids : state[p] = "SLEEPING" ~> state[p] # "SLEEPING"

(* A script ends: its processes finish, or the deadlock is reported.       *)
ScriptEnds == <>(pc = "exit")

(* vm.h: "vm_execute() runs at most `quantum` instructions", and the       *)
(* manual: "so CPU-bound loops can't starve others".                       *)
SliceWithinQuantum == ran <= Quantum

-----------------------------------------------------------------------------
(* The refinement of AsyncAwait.  The current process counts as ready even *)
(* while a nested call has marked it blocked.                              *)
absStatus ==
    [p \in Pids |-> IF state[p] = "ABSENT" THEN "absent"
                    ELSE IF state[p] = "ZOMBIE" THEN "done"
                    ELSE IF Blocked(p) /\ p # current THEN "blocked"
                    ELSE "ready"]
absAwaits ==
    [p \in Pids |-> IF Blocked(p) /\ p # current /\ kind[p] = "AWAIT"
                    THEN waitPid[p] ELSE 0]
absInbox ==
    [p \in Pids |-> IF pending[p] /\ Live(p) THEN resume[p] ELSE Null]

Promise == INSTANCE AsyncAwait WITH
    Procs <- Pids, Results <- Register, NoResult <- Null, status <- absStatus,
    result <- result, awaits <- absAwaits, inbox <- absInbox

(* The scheduler implements what async and await promise: every step of    *)
(* its loop, its event queue and its VM is a step of AsyncAwait or changes *)
(* nothing a program can see.                                              *)
KeepsPromise == Promise!ASpec

=============================================================================
