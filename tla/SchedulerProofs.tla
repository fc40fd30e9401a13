-------------------------- MODULE SchedulerProofs --------------------------
(* Machine-checked proofs about the scheduler, for every number of         *)
(* processes, events, instructions per slice and every set of programs.    *)
EXTENDS Scheduler, TLAPS

-----------------------------------------------------------------------------
(* The inductive invariant: what must hold between any two steps of the    *)
(* loop for RunQueueExact, NoLostWakeup and DeliveredValue to survive      *)
(* every step.                                                             *)

Registered == events \cup fired

(* Where the single thread of the interpreter is, and which process it     *)
(* runs.  A process marked blocked by a nested call is still current.      *)
ControlInv ==
    /\ pc = "slice" <=> current # 0
    /\ current # 0 => state[current] \in {"RUNNING", "SLEEPING", "WAITING"}
    /\ \A p \in Pids : state[p] = "RUNNING" => p = current
    /\ pc = "zombify" => waking # 0 /\ state[waking] = "ZOMBIE"
    /\ pc # "wake" => fired = {}
    /\ \A p \in Pids : p >= nextPid => state[p] = "ABSENT"
    /\ pc \in {"prompt", "exit"} => runq = <<>>
    /\ pc = "halted" => events = {} /\ \A p \in Pids : state[p] = "ABSENT"

(* Tokens name events: each is used once, and the one a process holds is   *)
(* never the token of another process's event.                             *)
TokenInv ==
    /\ \A e \in Registered : e.token < nextToken /\ state[e.owner] # "ABSENT"
    /\ \A e \in Registered : e.kind = "TIMER" => e.arg <= MaxClock
    /\ \A e, f \in Registered : e.token = f.token => e = f
    /\ events \cap fired = {}
    /\ \A p \in Pids : token[p] < nextToken

(* What a blocked process waits for agrees with the fields it is woken by, *)
(* and an event that would still wake its owner finds it blocked on it.    *)
BlockInv ==
    /\ \A p \in Pids : Blocked(p) =>
          /\ kind[p] = "AWAIT" => /\ token[p] = 0 /\ state[p] = "WAITING"
                                  /\ waitPid[p] # p
          /\ kind[p] # "NONE" /\ ~pending[p]
    /\ \A e \in Registered :
          Live(e.owner) /\ token[e.owner] = e.token =>
              Blocked(e.owner) /\ kind[e.owner] = e.kind

(* What has been collected really happened. *)
FiredInv ==
    \A e \in fired : /\ e.kind = "TIMER" => e.arg <= clock
                     /\ e.kind = "CHILD" => exitCode[e.token] # Null

(* The instruction a VM is suspended in is the one its process is blocked  *)
(* in, or is about to be resumed in.                                       *)
Suspends(command, k) ==
    \/ command = "await" /\ k = "AWAIT"
    \/ command = "sleep" /\ k = "TIMER"
    \/ command = "external" /\ k = "CHILD"
    \/ command = "wait_readable" /\ k = "SOCKET"

SuspendInv ==
    \A p \in Pids :
        /\ state[p] = "ABSENT" /\ pc # "halted" => ~pending[p] /\ at[p] = "code"
        /\ Live(p) /\ at[p] # "code" =>
              \/ pending[p]
              \/ Blocked(p) /\ p # current /\ Suspends(at[p], kind[p])

(* Without nested calls a blocked process, and one about to be resumed, is *)
(* suspended in a blocking command of its own.                             *)
OwnCommand ==
    \A p \in Pids : Live(p) /\ (Blocked(p) \/ pending[p]) => at[p] # "code"

(* The inductive invariant: with these conjuncts every wakeup the          *)
(* scheduler owes is registered once and goes to the right instruction.    *)
IInv ==
    /\ TypeOK /\ RunQueueExact /\ NoLostWakeup /\ DeliveredValue
    /\ ControlInv /\ TokenInv /\ BlockInv /\ FiredInv /\ SuspendInv

-----------------------------------------------------------------------------
(* The run queue as a sequence. *)

(* Appending a process that is not queued keeps a queue free of duplicates *)
(* and adds exactly that process (sched_enqueue).                          *)
LEMMA AppendQueue ==
    ASSUME NEW S, NEW q \in Seq(S), NEW x \in S,
           NoDuplicates(q), ~InQueue(q, x)
    PROVE  /\ NoDuplicates(Append(q, x))
           /\ \A p : InQueue(Append(q, x), p) <=> InQueue(q, p) \/ p = x
<1>1. DOMAIN q = 1 .. Len(q) /\ Len(q) \in Nat
  OBVIOUS
<1>2. DOMAIN Append(q, x) = 1 .. Len(q) + 1
  OBVIOUS
<1>3. \A i \in 1 .. Len(q) : Append(q, x)[i] = q[i]
  OBVIOUS
<1>4. Append(q, x)[Len(q) + 1] = x
  OBVIOUS
<1>5. NoDuplicates(Append(q, x))
  <2> SUFFICES ASSUME NEW i \in 1 .. Len(q) + 1, NEW j \in 1 .. Len(q) + 1,
                      Append(q, x)[i] = Append(q, x)[j]
               PROVE  i = j
    BY <1>2 DEF NoDuplicates
  <2>1. CASE i \in 1 .. Len(q) /\ j \in 1 .. Len(q)
    BY <2>1, <1>1, <1>3 DEF NoDuplicates
  <2>2. CASE i = Len(q) + 1 \/ j = Len(q) + 1
    BY <2>2, <1>1, <1>3, <1>4 DEF InQueue
  <2> QED
    BY <2>1, <2>2, <1>1
<1>6. ASSUME NEW p
      PROVE  InQueue(Append(q, x), p) <=> InQueue(q, p) \/ p = x
  BY <1>1, <1>2, <1>3, <1>4 DEF InQueue
<1> QED
  BY <1>5, <1>6

(* Removing the head of a queue without duplicates removes exactly that    *)
(* process (sched_dequeue).                                                *)
LEMMA TailQueue ==
    ASSUME NEW S, NEW q \in Seq(S), q # <<>>, NoDuplicates(q)
    PROVE  /\ Head(q) \in S /\ Tail(q) \in Seq(S) /\ InQueue(q, Head(q))
           /\ NoDuplicates(Tail(q))
           /\ \A p : InQueue(Tail(q), p) <=> InQueue(q, p) /\ p # Head(q)
<1>1. /\ DOMAIN q = 1 .. Len(q) /\ Len(q) \in Nat \ {0}
      /\ Head(q) = q[1] /\ Head(q) \in S /\ Tail(q) \in Seq(S)
  OBVIOUS
<1>2. DOMAIN Tail(q) = 1 .. Len(q) - 1
  OBVIOUS
<1>3. \A i \in 1 .. Len(q) - 1 : Tail(q)[i] = q[i + 1]
  OBVIOUS
<1>4. InQueue(q, Head(q))
  BY <1>1 DEF InQueue
<1>5. NoDuplicates(Tail(q))
  BY <1>1, <1>2, <1>3 DEF NoDuplicates
<1>6. ASSUME NEW p, InQueue(Tail(q), p)
      PROVE  InQueue(q, p) /\ p # Head(q)
  <2>1. PICK i \in 1 .. Len(q) - 1 : q[i + 1] = p
    BY <1>2, <1>3, <1>6 DEF InQueue
  <2>2. i + 1 \in DOMAIN q /\ 1 \in DOMAIN q /\ i + 1 # 1
    BY <1>1
  <2> QED
    BY <1>1, <2>1, <2>2 DEF InQueue, NoDuplicates
<1>7. ASSUME NEW p, InQueue(q, p), p # Head(q)
      PROVE  InQueue(Tail(q), p)
  <2>1. PICK i \in 1 .. Len(q) : q[i] = p
    BY <1>1, <1>7 DEF InQueue
  <2>2. i - 1 \in 1 .. Len(q) - 1 /\ (i - 1) + 1 = i
    BY <1>1, <1>7, <2>1
  <2> QED
    BY <1>2, <1>3, <2>1, <2>2 DEF InQueue
<1> QED
  BY <1>1, <1>4, <1>5, <1>6, <1>7

-----------------------------------------------------------------------------
(* Initially, with an empty process table, the invariant holds. *)
LEMMA InitInv == Init => IInv
<1> SUFFICES ASSUME Init PROVE IInv
  OBVIOUS
<1> USE BoundsAssumption, DataAssumption DEF Init, Pids, Tokens
<1>1. TypeOK
  <2>1. pending \in [Pids -> BOOLEAN] /\ yieldReq \in [Pids -> BOOLEAN]
    OBVIOUS
  <2>2. failed \in BOOLEAN
    OBVIOUS
  <2>3. runq \in Seq(Pids)
    OBVIOUS
  <2>4. nextPid \in 1 .. MaxPid + 1 /\ nextToken \in 1 .. MaxToken + 1
    OBVIOUS
  <2> QED
    BY <2>1, <2>2, <2>3, <2>4 DEF TypeOK, Kinds, Register
<1>2. RunQueueExact
  BY DEF RunQueueExact, NoDuplicates, InQueue
<1>3. NoLostWakeup /\ DeliveredValue /\ SuspendInv
  BY DEF NoLostWakeup, WakeOwed, DeliveredValue, SuspendInv, Blocked, Live
<1>4. ControlInv /\ TokenInv /\ BlockInv /\ FiredInv
  BY DEF ControlInv, TokenInv, BlockInv, FiredInv, Registered, Blocked
<1> QED
  BY <1>1, <1>2, <1>3, <1>4 DEF IInv

-----------------------------------------------------------------------------
(* Handing a slice to the head of the queue keeps the invariant. *)
LEMMA PickInv == IInv /\ Pick => IInv'
<1> SUFFICES ASSUME IInv, Pick PROVE IInv'
  OBVIOUS
<1> USE BoundsAssumption, DataAssumption
<1> USE DEF IInv, Pick, eqVars, worldVars
<1> DEFINE p == Head(runq)
<1>0. /\ p \in Pids /\ runq' \in Seq(Pids) /\ state[p] = "RUNNABLE"
      /\ NoDuplicates(runq')
      /\ \A o : InQueue(runq', o) <=> InQueue(runq, o) /\ o # p
  BY TailQueue DEF RunQueueExact, TypeOK
<1> HIDE DEF p
<1>a. p \in 0 .. MaxPid /\ p # 0 /\ 0 \in 0 .. Quantum + 1 /\ current = 0
  BY <1>0, BoundsAssumption DEF Pids, ControlInv
<1>b. \A o \in Pids : state[o] # "RUNNING"
  BY <1>a DEF ControlInv, Pids
<1>1. TypeOK'
  BY <1>0, <1>a DEF TypeOK, p
<1>2. RunQueueExact'
  BY <1>0 DEF RunQueueExact, TypeOK, p
<1>3. NoLostWakeup'
  BY <1>0, SMTT(30) DEF NoLostWakeup, WakeOwed, TypeOK, Blocked, Live, p
<1>4. DeliveredValue'
  BY <1>0 DEF DeliveredValue, TypeOK, Live, p
<1>5. ControlInv'
  BY <1>0, <1>a, <1>b DEF ControlInv, TypeOK, p
<1>6. TokenInv'
  BY <1>0 DEF TokenInv, Registered, TypeOK, p, Pids, Event
<1>7. BlockInv'
  <2>1. \A o \in Pids : Blocked(o)' => o # p /\ Blocked(o)
    BY <1>0 DEF Blocked, TypeOK, p
  <2>2. \A o \in Pids : o # p => (Blocked(o) => Blocked(o)') /\ state'[o] = state[o]
    BY <1>0 DEF Blocked, TypeOK, p
  <2>3. \A e \in Registered : e.owner \in Pids /\ (e.owner = p => token[p] # e.token)
    BY <1>0, ZenonT(30) DEF BlockInv, Registered, TypeOK, Event, Blocked, Live
  <2> QED
    BY <1>0, <2>1, <2>2, <2>3 DEF BlockInv, Registered, Live
<1>8. FiredInv'
  BY DEF FiredInv
<1>9. SuspendInv'
  BY <1>0 DEF SuspendInv, TypeOK, Blocked, Live, p, Suspends, ControlInv
<1> QED
  BY <1>1, <1>2, <1>3, <1>4, <1>5, <1>6, <1>7, <1>8, <1>9

(* While an instruction runs, the current process is a live one that is not  *)
(* queued, no event is being handed out and nobody else is RUNNING.          *)
LEMMA SliceFacts ==
    ASSUME IInv, pc = "slice"
    PROVE  /\ current \in Pids /\ current # 0 /\ current < nextPid
           /\ state[current] \in {"RUNNING", "SLEEPING", "WAITING"}
           /\ ~InQueue(runq, current)
           /\ fired = {}
           /\ at[current] # "code" => pending[current]
<1>1. current \in Pids /\ current # 0
  BY BoundsAssumption DEF IInv, TypeOK, ControlInv, Pids
<1>2. state[current] \in {"RUNNING", "SLEEPING", "WAITING"}
  BY <1>1 DEF IInv, ControlInv
<1>3. current < nextPid
  BY <1>1, <1>2, BoundsAssumption DEF IInv, TypeOK, ControlInv, Pids
<1>4. ~InQueue(runq, current) /\ fired = {}
  BY <1>1, <1>2 DEF IInv, RunQueueExact, ControlInv
<1>5. at[current] # "code" => pending[current]
  BY <1>1, <1>2 DEF IInv, SuspendInv, Live
<1> QED
  BY <1>1, <1>2, <1>3, <1>4, <1>5

(* Counting an instruction keeps the counters in their ranges. *)
LEMMA CountSteps ==
    ASSUME TypeOK, current \in Pids, CountStep
    PROVE  steps' \in [Pids -> 0 .. MaxSteps]
BY BoundsAssumption DEF TypeOK, CountStep

(* The length of a slice is counted up to one instruction too many. *)
LEMMA SliceCount ==
    ASSUME TypeOK, SliceGoesOn
    PROVE  ran' \in 0 .. Quantum + 1
BY BoundsAssumption DEF TypeOK, SliceGoesOn

(* The end of a slice keeps the invariant, also for a process that a       *)
(* nested call has marked blocked.                                         *)
LEMMA EndSliceInv == ASSUME IInv, EndSlice PROVE IInv'
<1> USE BoundsAssumption, DataAssumption DEF IInv, EndSlice, eqVars, worldVars
<1>0. /\ current \in Pids /\ current # 0 /\ current < nextPid
      /\ state[current] \in {"RUNNING", "SLEEPING", "WAITING"}
      /\ ~InQueue(runq, current) /\ fired = {}
      /\ at[current] # "code" => pending[current]
  BY SliceFacts
<1>a. /\ runq' \in Seq(Pids) /\ NoDuplicates(runq')
      /\ \A o : InQueue(runq', o) <=>
               InQueue(runq, o) \/ (o = current /\ state[current] = "RUNNING")
  <2>1. runq \in Seq(Pids) /\ NoDuplicates(runq)
    BY DEF TypeOK, RunQueueExact
  <2>2. CASE state[current] = "RUNNING"
    <3>1. runq' = Append(runq, current)
      BY <2>2
    <3>2. /\ NoDuplicates(runq') /\ runq' \in Seq(Pids)
          /\ \A o : InQueue(runq', o) <=> InQueue(runq, o) \/ o = current
      BY <1>0, <2>1, <3>1, AppendQueue
    <3> QED
      BY <2>2, <3>2
  <2>3. CASE state[current] # "RUNNING"
    BY <2>1, <2>3
  <2> QED
    BY <2>2, <2>3
<1>b. yieldReq' \in [Pids -> BOOLEAN]
  BY <1>0 DEF TypeOK
<1>c. \A p \in Pids : p # 0
  BY DEF Pids
<1>d. state' = IF state[current] = "RUNNING"
                THEN [state EXCEPT ![current] = "RUNNABLE"] ELSE state
  OBVIOUS
<1>1. TypeOK'
  <2>1. current' \in 0 .. MaxPid /\ state' \in [Pids -> {"ABSENT", "RUNNABLE", "RUNNING",
                                  "SLEEPING", "WAITING", "ZOMBIE"}]
    BY <1>0, <1>d DEF TypeOK
  <2>2. ran' \in 0 .. Quantum + 1
    BY BoundsAssumption
  <2> QED
    BY <2>1, <2>2, <1>0, <1>a, <1>b, <1>c, <1>d DEF TypeOK
<1>2. RunQueueExact'
  BY <1>0, <1>a, <1>b, <1>c, <1>d DEF RunQueueExact, TypeOK
<1>3. NoLostWakeup'
  BY <1>0, <1>a, <1>b, <1>c, <1>d DEF NoLostWakeup, WakeOwed, TypeOK, Blocked, Live
<1>4. DeliveredValue'
  BY <1>0, <1>a, <1>b, <1>c, <1>d DEF DeliveredValue, TypeOK, Live
<1>5. ControlInv'
  BY <1>0, <1>a, <1>b, <1>c, <1>d DEF ControlInv, TypeOK
<1>6. TokenInv'
  BY <1>0, <1>a, <1>b, <1>c, <1>d DEF TokenInv, Registered, TypeOK
<1>7. BlockInv'
  BY <1>0, <1>a, <1>b, <1>c, <1>d, SMTT(30) DEF BlockInv, Registered, TypeOK, Blocked, Live
<1>8. FiredInv'
  BY <1>0, <1>a, <1>b, <1>c, <1>d DEF FiredInv, TypeOK
<1>9. SuspendInv'
  BY <1>0, <1>a, <1>b, <1>c, <1>d, SMTT(30) DEF SuspendInv, TypeOK, Blocked, Live, Suspends, ControlInv
<1> QED
  BY <1>1, <1>2, <1>3, <1>4, <1>5, <1>6, <1>7, <1>8, <1>9

(* Delivering the wake value to its register keeps the invariant. *)
LEMMA ResumeInv == ASSUME IInv, Resume PROVE IInv'
<1> USE BoundsAssumption, DataAssumption DEF IInv, Resume, schedVars, eqVars, worldVars
<1>0. /\ current \in Pids /\ current # 0 /\ current < nextPid
      /\ state[current] \in {"RUNNING", "SLEEPING", "WAITING"}
      /\ ~InQueue(runq, current) /\ fired = {}
      /\ at[current] # "code" => pending[current]
  BY SliceFacts DEF AtBoundary
<1>1. TypeOK'
  <2>1. ran' \in 0 .. Quantum + 1 /\ steps' \in [Pids -> 0 .. MaxSteps]
    BY DEF TypeOK
  <2>2. pending' \in [Pids -> BOOLEAN]
    BY <1>0 DEF TypeOK
  <2>3. reg' \in [Pids -> Register] /\ resume' \in [Pids -> Register]
    BY <1>0 DEF TypeOK, Register
  <2> QED
    BY <1>0, <2>1, <2>2, <2>3 DEF TypeOK
<1>2. RunQueueExact'
  BY <1>0 DEF RunQueueExact, TypeOK
<1>3. NoLostWakeup'
  BY <1>0 DEF NoLostWakeup, WakeOwed, TypeOK, Blocked, Live
<1>4. DeliveredValue'
  BY <1>0 DEF DeliveredValue, TypeOK, Live
<1>5. ControlInv'
  BY <1>0 DEF ControlInv, TypeOK
<1>6. TokenInv'
  BY <1>0 DEF TokenInv, Registered, TypeOK
<1>7. BlockInv'
  BY <1>0 DEF BlockInv, Registered, TypeOK, Blocked, Live
<1>8. FiredInv'
  BY <1>0 DEF FiredInv, TypeOK
<1>9. SuspendInv'
  BY <1>0 DEF SuspendInv, TypeOK, Blocked, Live, Suspends, ControlInv
<1> QED
  BY <1>1, <1>2, <1>3, <1>4, <1>5, <1>6, <1>7, <1>8, <1>9

(* An instruction that only computes keeps the invariant. *)
LEMMA SetInv == ASSUME IInv, NEW v \in Values, Set(v) PROVE IInv'
<1> USE BoundsAssumption, DataAssumption DEF IInv, Set, Fetch, CountStep, AtBoundary, eqVars, worldVars
<1>0. /\ current \in Pids /\ current # 0 /\ current < nextPid
      /\ state[current] \in {"RUNNING", "SLEEPING", "WAITING"}
      /\ ~InQueue(runq, current) /\ fired = {}
      /\ at[current] # "code" => pending[current]
  BY SliceFacts
<1>1. TypeOK'
  <2>1. ran' \in 0 .. Quantum + 1 /\ steps' \in [Pids -> 0 .. MaxSteps]
    BY <1>0, CountSteps, SliceCount
  <2>2. reg' \in [Pids -> Register]
    BY <1>0 DEF TypeOK, Register
  <2> QED
    BY <1>0, <2>1, <2>2 DEF TypeOK
<1>2. RunQueueExact'
  BY <1>0 DEF RunQueueExact, TypeOK
<1>3. NoLostWakeup'
  BY <1>0 DEF NoLostWakeup, WakeOwed, TypeOK, Blocked, Live
<1>4. DeliveredValue'
  BY <1>0 DEF DeliveredValue, TypeOK, Live
<1>5. ControlInv'
  BY <1>0 DEF ControlInv, TypeOK
<1>6. TokenInv'
  BY <1>0 DEF TokenInv, Registered, TypeOK
<1>7. BlockInv'
  BY <1>0 DEF BlockInv, Registered, TypeOK, Blocked, Live
<1>8. FiredInv'
  BY <1>0 DEF FiredInv, TypeOK
<1>9. SuspendInv'
  BY <1>0 DEF SuspendInv, TypeOK, Blocked, Live, Suspends, ControlInv
<1> QED
  BY <1>1, <1>2, <1>3, <1>4, <1>5, <1>6, <1>7, <1>8, <1>9

(* A yield request keeps the invariant. *)
LEMMA YieldInv == ASSUME IInv, Yield PROVE IInv'
<1> USE BoundsAssumption, DataAssumption DEF IInv, Yield, Fetch, CountStep, AtBoundary, eqVars, worldVars
<1>0. /\ current \in Pids /\ current # 0 /\ current < nextPid
      /\ state[current] \in {"RUNNING", "SLEEPING", "WAITING"}
      /\ ~InQueue(runq, current) /\ fired = {}
      /\ at[current] # "code" => pending[current]
  BY SliceFacts
<1>1. TypeOK'
  <2>1. ran' \in 0 .. Quantum + 1 /\ steps' \in [Pids -> 0 .. MaxSteps]
    BY <1>0, CountSteps, SliceCount
  <2>2. yieldReq' \in [Pids -> BOOLEAN]
    BY <1>0 DEF TypeOK
  <2> QED
    BY <1>0, <2>1, <2>2 DEF TypeOK
<1>2. RunQueueExact'
  BY <1>0 DEF RunQueueExact, TypeOK
<1>3. NoLostWakeup'
  BY <1>0 DEF NoLostWakeup, WakeOwed, TypeOK, Blocked, Live
<1>4. DeliveredValue'
  BY <1>0 DEF DeliveredValue, TypeOK, Live
<1>5. ControlInv'
  BY <1>0 DEF ControlInv, TypeOK
<1>6. TokenInv'
  BY <1>0 DEF TokenInv, Registered, TypeOK
<1>7. BlockInv'
  BY <1>0 DEF BlockInv, Registered, TypeOK, Blocked, Live
<1>8. FiredInv'
  BY <1>0 DEF FiredInv, TypeOK
<1>9. SuspendInv'
  BY <1>0 DEF SuspendInv, TypeOK, Blocked, Live, Suspends, ControlInv
<1> QED
  BY <1>1, <1>2, <1>3, <1>4, <1>5, <1>6, <1>7, <1>8, <1>9

(* Copying the result of a finished process keeps the invariant. *)
LEMMA AwaitFinishedInv == ASSUME IInv, NEW q \in Pids, AwaitFinished(q) PROVE IInv'
<1> USE BoundsAssumption, DataAssumption DEF IInv, AwaitFinished, Fetch, CountStep, AtBoundary, eqVars, worldVars
<1>0. /\ current \in Pids /\ current # 0 /\ current < nextPid
      /\ state[current] \in {"RUNNING", "SLEEPING", "WAITING"}
      /\ ~InQueue(runq, current) /\ fired = {}
      /\ at[current] # "code" => pending[current]
  BY SliceFacts
<1>1. TypeOK'
  <2>1. ran' \in 0 .. Quantum + 1 /\ steps' \in [Pids -> 0 .. MaxSteps]
    BY <1>0, CountSteps, SliceCount
  <2>2. reg' \in [Pids -> Register]
    BY <1>0 DEF TypeOK, Register
  <2> QED
    BY <1>0, <2>1, <2>2 DEF TypeOK
<1>2. RunQueueExact'
  BY <1>0 DEF RunQueueExact, TypeOK
<1>3. NoLostWakeup'
  BY <1>0, SMTT(30) DEF NoLostWakeup, WakeOwed, TypeOK, Blocked, Live
<1>4. DeliveredValue'
  BY <1>0 DEF DeliveredValue, TypeOK, Live
<1>5. ControlInv'
  BY <1>0 DEF ControlInv, TypeOK
<1>6. TokenInv'
  BY <1>0 DEF TokenInv, Registered, TypeOK
<1>7. BlockInv'
  BY <1>0 DEF BlockInv, Registered, TypeOK, Blocked, Live
<1>8. FiredInv'
  BY <1>0 DEF FiredInv, TypeOK
<1>9. SuspendInv'
  BY <1>0 DEF SuspendInv, TypeOK, Blocked, Live, Suspends, ControlInv
<1> QED
  BY <1>1, <1>2, <1>3, <1>4, <1>5, <1>6, <1>7, <1>8, <1>9

(* Spawning a process from a running one keeps the invariant. *)
LEMMA AsyncInv == ASSUME IInv, Async PROVE IInv'
<1> USE BoundsAssumption, DataAssumption DEF IInv, Async, Spawn, Fetch, CountStep, AtBoundary, eqVars, worldVars
<1>0. /\ current \in Pids /\ current # 0 /\ current < nextPid
      /\ state[current] \in {"RUNNING", "SLEEPING", "WAITING"}
      /\ ~InQueue(runq, current) /\ fired = {}
      /\ at[current] # "code" => pending[current]
  BY SliceFacts
<1>a. state[nextPid] = "ABSENT" /\ ~InQueue(runq, nextPid)
  BY DEF ControlInv, RunQueueExact, TypeOK, Pids
<1>b. /\ runq' \in Seq(Pids) /\ NoDuplicates(runq')
      /\ \A o : InQueue(runq', o) <=> InQueue(runq, o) \/ o = nextPid
  BY <1>a, AppendQueue DEF TypeOK, RunQueueExact
<1>1. TypeOK'
  <2>0. nextPid \in 1 .. MaxPid /\ nextPid' = nextPid + 1 /\ MaxPid \in Nat
    BY DEF Pids
  <2>1. nextPid' \in 1 .. MaxPid + 1 /\ nextPid \in 0 .. MaxPid
    BY <2>0
  <2>2. ran' \in 0 .. Quantum + 1 /\ steps' \in [Pids -> 0 .. MaxSteps]
    BY <1>0, CountSteps, SliceCount
  <2> QED
    BY <1>0, <1>a, <1>b, <2>1, <2>2 DEF TypeOK
<1>2. RunQueueExact'
  BY <1>0, <1>a, <1>b DEF RunQueueExact, TypeOK
<1>3. NoLostWakeup'
  <2> SUFFICES ASSUME NEW p \in Pids, Blocked(p)' PROVE WakeOwed(p)'
    BY DEF NoLostWakeup
  <2>1. p # nextPid /\ Blocked(p) /\ WakeOwed(p)
    BY <1>a DEF NoLostWakeup, Blocked, TypeOK
  <2> QED
    BY <1>0, <1>a, <2>1 DEF WakeOwed, Live, TypeOK
<1>4. DeliveredValue'
  BY <1>0, <1>a, <1>b, SMTT(90) DEF DeliveredValue, SuspendInv, TypeOK, Live
<1>5. ControlInv'
  BY <1>0, <1>a, <1>b, SMTT(30) DEF ControlInv, TypeOK
<1>6. TokenInv'
  BY <1>0, <1>a, <1>b, SMTT(30) DEF TokenInv, Registered, TypeOK
<1>7. BlockInv'
  BY <1>0, <1>a, <1>b, SMTT(30) DEF BlockInv, TokenInv, Registered, TypeOK, Blocked, Live
<1>8. FiredInv'
  BY <1>0, <1>a, <1>b DEF FiredInv, TypeOK
<1>9. SuspendInv'
  BY <1>0, <1>a, <1>b, SMTT(90) DEF SuspendInv, TypeOK, Blocked, Live, Suspends, ControlInv
<1> QED
  BY <1>1, <1>2, <1>3, <1>4, <1>5, <1>6, <1>7, <1>8, <1>9

(* Spawning the main process keeps the invariant. *)
LEMMA SpawnMainInv == ASSUME IInv, SpawnMain PROVE IInv'
<1> USE BoundsAssumption, DataAssumption DEF IInv, SpawnMain, Spawn, eqVars, worldVars
<1>a. state[nextPid] = "ABSENT" /\ ~InQueue(runq, nextPid)
  BY DEF ControlInv, RunQueueExact, TypeOK, Pids
<1>b. /\ runq' \in Seq(Pids) /\ NoDuplicates(runq')
      /\ \A o : InQueue(runq', o) <=> InQueue(runq, o) \/ o = nextPid
  BY <1>a, AppendQueue DEF TypeOK, RunQueueExact
<1>1. TypeOK'
  <2>0. nextPid \in 1 .. MaxPid /\ nextPid' = nextPid + 1 /\ MaxPid \in Nat
    BY DEF Pids
  <2>1. nextPid' \in 1 .. MaxPid + 1 /\ nextPid \in 0 .. MaxPid
    BY <2>0
  <2> QED
    BY <1>a, <1>b, <2>1 DEF TypeOK
<1>2. RunQueueExact'
  BY <1>a, <1>b DEF RunQueueExact, TypeOK
<1>3. NoLostWakeup'
  BY <1>a, <1>b DEF NoLostWakeup, WakeOwed, TypeOK, Blocked, Live
<1>4. DeliveredValue'
  BY <1>a, <1>b DEF DeliveredValue, SuspendInv, TypeOK, Live
<1>5. ControlInv'
  <2>1. \A p \in Pids : p >= nextPid' => p # nextPid /\ p >= nextPid
    BY DEF TypeOK, Pids
  <2>2. current = 0 /\ nextPid # 0
    BY DEF ControlInv, TypeOK
  <2> QED
    BY <1>a, <1>b, <2>1, <2>2 DEF ControlInv, TypeOK
<1>6. TokenInv'
  BY <1>a, <1>b DEF TokenInv, Registered, TypeOK
<1>7. BlockInv'
  BY <1>a, <1>b DEF BlockInv, TokenInv, Registered, TypeOK, Blocked, Live
<1>8. FiredInv'
  BY <1>a, <1>b DEF FiredInv, TypeOK
<1>9. SuspendInv'
  BY <1>a, <1>b DEF SuspendInv, TypeOK, Blocked, Live, Suspends, ControlInv
<1> QED
  BY <1>1, <1>2, <1>3, <1>4, <1>5, <1>6, <1>7, <1>8, <1>9

(* The failure of the current process keeps the invariant. *)
LEMMA FailInv == ASSUME IInv, Fail PROVE IInv'
<1> USE BoundsAssumption, DataAssumption DEF IInv, Fail, ZombifyCurrent, Fetch, CountStep, AtBoundary, eqVars, worldVars
<1>0. /\ current \in Pids /\ current # 0 /\ current < nextPid
      /\ state[current] \in {"RUNNING", "SLEEPING", "WAITING"}
      /\ ~InQueue(runq, current) /\ fired = {}
      /\ at[current] # "code" => pending[current]
  BY SliceFacts
<1>c. \A p \in Pids : p # 0
  BY DEF Pids
<1>1. TypeOK'
  <2>1. ran' \in 0 .. Quantum + 1 /\ steps' \in [Pids -> 0 .. MaxSteps]
    BY <1>0, CountSteps, SliceCount
  <2>2. result' \in [Pids -> Register]
    BY <1>0 DEF TypeOK
  <2>3. current' \in 0 .. MaxPid /\ waking' \in 0 .. MaxPid
    BY DEF TypeOK
  <2>4. nextPid' \in 1 .. MaxPid + 1
    BY DEF TypeOK
  <2> QED
    BY <1>0, <2>1, <2>2, <2>3, <2>4 DEF TypeOK
<1>2. RunQueueExact'
  BY <1>0 DEF RunQueueExact, TypeOK
<1>3. NoLostWakeup'
  BY <1>0 DEF NoLostWakeup, WakeOwed, TypeOK, Blocked, Live
<1>4. DeliveredValue'
  BY <1>0 DEF DeliveredValue, TypeOK, Live
<1>5. ControlInv'
  BY <1>0 DEF ControlInv, TypeOK
<1>6. TokenInv'
  BY <1>0 DEF TokenInv, Registered, TypeOK
<1>7. BlockInv'
  BY <1>0 DEF BlockInv, Registered, TypeOK, Blocked, Live
<1>8. FiredInv'
  BY <1>0 DEF FiredInv, TypeOK
<1>9. SuspendInv'
  BY <1>0, <1>c DEF SuspendInv, TypeOK, Blocked, Live, Suspends, ControlInv
<1> QED
  BY <1>1, <1>2, <1>3, <1>4, <1>5, <1>6, <1>7, <1>8, <1>9

(* The end of the current process keeps the invariant. *)
LEMMA HaltInv == ASSUME IInv, Halt PROVE IInv'
<1> USE BoundsAssumption, DataAssumption DEF IInv, Halt, ZombifyCurrent, CountStep, AtBoundary, eqVars, worldVars
<1>0. /\ current \in Pids /\ current # 0 /\ current < nextPid
      /\ state[current] \in {"RUNNING", "SLEEPING", "WAITING"}
      /\ ~InQueue(runq, current) /\ fired = {}
      /\ at[current] # "code" => pending[current]
  BY SliceFacts
<1>c. \A p \in Pids : p # 0
  BY DEF Pids
<1>1. TypeOK'
  <2>1. ran' \in 0 .. Quantum + 1 /\ steps' \in [Pids -> 0 .. MaxSteps]
    BY <1>0, CountSteps, SliceCount
  <2>2. result' \in [Pids -> Register]
    BY <1>0 DEF TypeOK
  <2>3. current' \in 0 .. MaxPid /\ waking' \in 0 .. MaxPid
    BY DEF TypeOK
  <2> QED
    BY <1>0, <2>1, <2>2, <2>3 DEF TypeOK
<1>2. RunQueueExact'
  BY <1>0 DEF RunQueueExact, TypeOK
<1>3. NoLostWakeup'
  <2> SUFFICES ASSUME NEW p \in Pids, Blocked(p)' PROVE WakeOwed(p)'
    BY DEF NoLostWakeup
  <2>1. p # current /\ Blocked(p) /\ WakeOwed(p)
    BY <1>0 DEF NoLostWakeup, Blocked, TypeOK
  <2> QED
    BY <1>0, <2>1 DEF WakeOwed, Live, TypeOK
<1>4. DeliveredValue'
  BY <1>0 DEF DeliveredValue, TypeOK, Live
<1>5. ControlInv'
  BY <1>0 DEF ControlInv, TypeOK
<1>6. TokenInv'
  BY <1>0 DEF TokenInv, Registered, TypeOK
<1>7. BlockInv'
  BY <1>0 DEF BlockInv, Registered, TypeOK, Blocked, Live
<1>8. FiredInv'
  BY <1>0 DEF FiredInv, TypeOK
<1>9. SuspendInv'
  BY <1>0, <1>c DEF SuspendInv, TypeOK, Blocked, Live, Suspends, ControlInv
<1> QED
  BY <1>1, <1>2, <1>3, <1>4, <1>5, <1>6, <1>7, <1>8, <1>9

(* Stopping a process at the limit of steps keeps the invariant. *)
LEMMA StepLimitInv == ASSUME IInv, StepLimit PROVE IInv'
<1> USE BoundsAssumption, DataAssumption DEF IInv, StepLimit, ZombifyCurrent, CountStep, AtBoundary, eqVars, worldVars
<1>0. /\ current \in Pids /\ current # 0 /\ current < nextPid
      /\ state[current] \in {"RUNNING", "SLEEPING", "WAITING"}
      /\ ~InQueue(runq, current) /\ fired = {}
      /\ at[current] # "code" => pending[current]
  BY SliceFacts
<1>c. \A p \in Pids : p # 0
  BY DEF Pids
<1>1. TypeOK'
  <2>1. ran' \in 0 .. Quantum + 1 /\ steps' \in [Pids -> 0 .. MaxSteps]
    BY DEF TypeOK
  <2>2. result' \in [Pids -> Register]
    BY <1>0 DEF TypeOK
  <2>3. current' \in 0 .. MaxPid /\ waking' \in 0 .. MaxPid
    BY DEF TypeOK
  <2> QED
    BY <1>0, <2>1, <2>2, <2>3 DEF TypeOK
<1>2. RunQueueExact'
  BY <1>0 DEF RunQueueExact, TypeOK
<1>3. NoLostWakeup'
  <2> SUFFICES ASSUME NEW p \in Pids, Blocked(p)' PROVE WakeOwed(p)'
    BY DEF NoLostWakeup
  <2>1. p # current /\ Blocked(p) /\ WakeOwed(p)
    BY <1>0 DEF NoLostWakeup, Blocked, TypeOK
  <2> QED
    BY <1>0, <2>1 DEF WakeOwed, Live, TypeOK
<1>4. DeliveredValue'
  BY <1>0 DEF DeliveredValue, TypeOK, Live
<1>5. ControlInv'
  BY <1>0 DEF ControlInv, TypeOK
<1>6. TokenInv'
  BY <1>0 DEF TokenInv, Registered, TypeOK
<1>7. BlockInv'
  BY <1>0 DEF BlockInv, Registered, TypeOK, Blocked, Live
<1>8. FiredInv'
  BY <1>0 DEF FiredInv, TypeOK
<1>9. SuspendInv'
  BY <1>0, <1>c DEF SuspendInv, TypeOK, Blocked, Live, Suspends, ControlInv
<1> QED
  BY <1>1, <1>2, <1>3, <1>4, <1>5, <1>6, <1>7, <1>8, <1>9

(* When no awaiter is left, every wakeup owed to one was given. *)
LEMMA ZombifyDoneInv == ASSUME IInv, ZombifyDone PROVE IInv'
<1> USE BoundsAssumption, DataAssumption DEF IInv, ZombifyDone, procVars, eqVars, worldVars, Awaits
<1>1. TypeOK'
  BY DEF TypeOK
<1>2. RunQueueExact'
  BY DEF RunQueueExact, TypeOK
<1>3. NoLostWakeup'
  BY DEF NoLostWakeup, WakeOwed, BlockInv, TypeOK, Blocked, Live
<1>4. DeliveredValue'
  BY DEF DeliveredValue, TypeOK, Live
<1>5. ControlInv'
  BY DEF ControlInv, TypeOK
<1>6. TokenInv'
  BY DEF TokenInv, Registered, TypeOK
<1>7. BlockInv'
  BY DEF BlockInv, Registered, TypeOK, Blocked, Live
<1>8. FiredInv'
  BY DEF FiredInv, TypeOK
<1>9. SuspendInv'
  BY DEF SuspendInv, TypeOK, Blocked, Live, Suspends, ControlInv
<1> QED
  BY <1>1, <1>2, <1>3, <1>4, <1>5, <1>6, <1>7, <1>8, <1>9

(* Moving due events to the collected ones keeps every wakeup owed. *)
LEMMA DispatchInv == ASSUME IInv, Dispatch PROVE IInv'
<1> USE BoundsAssumption, DataAssumption DEF IInv, Dispatch, Idle, procVars, worldVars, Collect, Due
<1>1. TypeOK'
  BY DEF TypeOK
<1>2. RunQueueExact'
  BY DEF RunQueueExact, TypeOK
<1>3. NoLostWakeup'
  BY DEF NoLostWakeup, WakeOwed, ControlInv, TypeOK, Blocked, Live
<1>4. DeliveredValue'
  BY DEF DeliveredValue, TypeOK, Live
<1>5. ControlInv'
  BY DEF ControlInv, TypeOK
<1>6. TokenInv'
  BY DEF TokenInv, Registered, TypeOK
<1>7. BlockInv'
  BY DEF BlockInv, Registered, TypeOK, Blocked, Live
<1>8. FiredInv'
  BY DEF FiredInv, TypeOK
<1>9. SuspendInv'
  BY DEF SuspendInv, TypeOK, Blocked, Live, Suspends, ControlInv
<1> QED
  BY <1>1, <1>2, <1>3, <1>4, <1>5, <1>6, <1>7, <1>8, <1>9

(* Freeing the process table and the event queue keeps the invariant. *)
LEMMA QuitInv == ASSUME IInv, Quit PROVE IInv'
<1> USE BoundsAssumption, DataAssumption DEF IInv, Quit, worldVars
<1>1. TypeOK'
  BY DEF TypeOK
<1>2. RunQueueExact'
  BY DEF RunQueueExact, InQueue, NoDuplicates, TypeOK
<1>3. NoLostWakeup'
  BY DEF NoLostWakeup, WakeOwed, TypeOK, Blocked, Live
<1>4. DeliveredValue'
  BY DEF DeliveredValue, TypeOK, Live
<1>5. ControlInv'
  BY DEF ControlInv, TypeOK
<1>6. TokenInv'
  BY DEF TokenInv, ControlInv, Registered, TypeOK
<1>7. BlockInv'
  BY DEF BlockInv, ControlInv, Registered, TypeOK, Blocked, Live
<1>8. FiredInv'
  BY DEF FiredInv, TypeOK
<1>9. SuspendInv'
  BY DEF SuspendInv, TypeOK, Blocked, Live, Suspends, ControlInv
<1> QED
  BY <1>1, <1>2, <1>3, <1>4, <1>5, <1>6, <1>7, <1>8, <1>9

(* Leaving the loop keeps the invariant: whoever is parked stays parked. *)
LEMMA ReturnInv == ASSUME IInv, (ReturnAllDone \/ ReturnBackground \/ ReturnDeadlock) PROVE IInv'
<1> USE BoundsAssumption, DataAssumption DEF IInv, ReturnAllDone, ReturnBackground, ReturnDeadlock, Return, Idle, procVars, eqVars, worldVars
<1>0. /\ pc = "loop" /\ pc' \in {"prompt", "exit"}
      /\ UNCHANGED <<state, kind, waitPid, token, events, fired>>
  OBVIOUS
<1>1. TypeOK'
  BY ZenonT(60) DEF TypeOK
<1>2. RunQueueExact'
  BY DEF RunQueueExact, TypeOK
<1>3. NoLostWakeup'
  BY <1>0, SMTT(30) DEF NoLostWakeup, WakeOwed, TypeOK, Blocked, Live
<1>4. DeliveredValue'
  BY SMTT(30) DEF DeliveredValue, TypeOK, Live
<1>5. ControlInv'
  BY DEF ControlInv, TypeOK
<1>6. TokenInv'
  BY DEF TokenInv, Registered, TypeOK
<1>7. BlockInv'
  BY SMTT(30) DEF BlockInv, Registered, TypeOK, Blocked, Live
<1>8. FiredInv'
  BY DEF FiredInv, TypeOK
<1>9. SuspendInv'
  BY SMTT(30) DEF SuspendInv, TypeOK, Blocked, Live, Suspends, ControlInv
<1> QED
  BY <1>1, <1>2, <1>3, <1>4, <1>5, <1>6, <1>7, <1>8, <1>9

(* The clock changes nothing the invariant depends on. *)
LEMMA TickInv == ASSUME IInv, Tick PROVE IInv'
<1> USE BoundsAssumption, DataAssumption DEF IInv, Tick, procVars, schedVars, eqVars
<1>1. TypeOK'
  <2>1. clock' \in 0 .. MaxClock
    BY DEF TypeOK, TokenInv, Registered, Event
  <2> QED
    BY <2>1 DEF TypeOK
<1>2. RunQueueExact'
  BY DEF RunQueueExact, TypeOK
<1>3. NoLostWakeup'
  BY DEF NoLostWakeup, WakeOwed, TypeOK, Blocked, Live
<1>4. DeliveredValue'
  BY DEF DeliveredValue, TypeOK, Live
<1>5. ControlInv'
  BY DEF ControlInv, TypeOK
<1>6. TokenInv'
  BY DEF TokenInv, Registered, TypeOK
<1>7. BlockInv'
  BY DEF BlockInv, Registered, TypeOK, Blocked, Live
<1>8. FiredInv'
  BY SMTT(30) DEF FiredInv, TypeOK, Event
<1>9. SuspendInv'
  BY DEF SuspendInv, TypeOK, Blocked, Live, Suspends, ControlInv
<1> QED
  BY <1>1, <1>2, <1>3, <1>4, <1>5, <1>6, <1>7, <1>8, <1>9

(* A child that exits is recorded before anybody waits for its code. *)
LEMMA ChildExitInv == ASSUME IInv, NEW e \in events, NEW c \in Codes, ChildExit(e, c) PROVE IInv'
<1> USE BoundsAssumption, DataAssumption DEF IInv, ChildExit, procVars, schedVars, eqVars
<1>1. TypeOK'
  BY DEF TypeOK
<1>2. RunQueueExact'
  BY DEF RunQueueExact, TypeOK
<1>3. NoLostWakeup'
  BY DEF NoLostWakeup, WakeOwed, TypeOK, Blocked, Live
<1>4. DeliveredValue'
  BY DEF DeliveredValue, TypeOK, Live
<1>5. ControlInv'
  BY DEF ControlInv, TypeOK
<1>6. TokenInv'
  BY DEF TokenInv, Registered, TypeOK
<1>7. BlockInv'
  BY DEF BlockInv, Registered, TypeOK, Blocked, Live
<1>8. FiredInv'
  BY DEF FiredInv, TypeOK
<1>9. SuspendInv'
  BY DEF SuspendInv, TypeOK, Blocked, Live, Suspends, ControlInv
<1> QED
  BY <1>1, <1>2, <1>3, <1>4, <1>5, <1>6, <1>7, <1>8, <1>9

(* Handles that become readable, or stop being so, are not remembered. *)
LEMMA FdChangeInv == ASSUME IInv, NEW fd \in Fds, FdChange(fd) PROVE IInv'
<1> USE BoundsAssumption, DataAssumption DEF IInv, FdChange, procVars, schedVars, eqVars
<1>1. TypeOK'
  BY DEF TypeOK
<1>2. RunQueueExact'
  BY DEF RunQueueExact, TypeOK
<1>3. NoLostWakeup'
  BY DEF NoLostWakeup, WakeOwed, TypeOK, Blocked, Live
<1>4. DeliveredValue'
  BY DEF DeliveredValue, TypeOK, Live
<1>5. ControlInv'
  BY DEF ControlInv, TypeOK
<1>6. TokenInv'
  BY DEF TokenInv, Registered, TypeOK
<1>7. BlockInv'
  BY DEF BlockInv, Registered, TypeOK, Blocked, Live
<1>8. FiredInv'
  BY DEF FiredInv, TypeOK
<1>9. SuspendInv'
  BY DEF SuspendInv, TypeOK, Blocked, Live, Suspends, ControlInv
<1> QED
  BY <1>1, <1>2, <1>3, <1>4, <1>5, <1>6, <1>7, <1>8, <1>9

(* What a blocking request of the current process looks like. *)
LEMMA RequestFacts ==
    ASSUME IInv, pc = "slice", NEW r \in Requests
    PROVE  /\ r.kind \in {"AWAIT", "TIMER", "CHILD", "SOCKET"}
           /\ r.command \in {"await", "sleep", "external", "wait_readable"}
           /\ Suspends(r.command, r.kind)
           /\ r.kind = "AWAIT" => /\ r.pid \in Pids /\ r.pid # current
                                  /\ Live(r.pid)
           /\ r.pid \in 0 .. MaxPid
           /\ r.arg \in Nat
           /\ r.kind = "TIMER" => r.arg <= MaxClock
<1>0. clock \in 0 .. MaxClock /\ MaxPid \in Nat /\ MaxClock \in Nat /\ Delays \subseteq Nat
      /\ Fds \subseteq Nat
  BY BoundsAssumption, DataAssumption DEF IInv, TypeOK
<1>1. CASE \E q \in {p \in Pids \ {current} : Live(p)} : r = Request("await", "AWAIT", q, 0)
  BY <1>0, <1>1 DEF Request, Suspends, Pids
<1>2. CASE \E d \in {d \in Delays : clock + d <= MaxClock} :
             r = Request("sleep", "TIMER", 0, clock + d)
  BY <1>0, <1>2 DEF Request, Suspends
<1>3. CASE r = Request("external", "CHILD", 0, 0)
  BY <1>0, <1>3 DEF Request, Suspends
<1>4. CASE \E fd \in Fds : r = Request("wait_readable", "SOCKET", 0, fd)
  BY <1>0, <1>4 DEF Request, Suspends
<1> QED
  BY <1>1, <1>2, <1>3, <1>4 DEF Requests

(* The part of the invariant every blocking command preserves in the same  *)
(* way, whether it parks the process (Block, TryBlock) or kills it         *)
(* (EvalBlock).                                                            *)
LEMMA BlockingStep ==
    ASSUME IInv, AtBoundary, ~pending[current], NEW r \in Requests,
           NEW s \in {Parked(r), "ZOMBIE"}, BlockCurrent(r, s),
           UNCHANGED <<fired, runq, clock, exitCode>>
    PROVE  /\ current \in Pids /\ current # 0 /\ current < nextPid
           /\ at[current] = "code" /\ fired = {}
           /\ state' = [state EXCEPT ![current] = s]
           /\ s \in {"SLEEPING", "WAITING", "ZOMBIE"}
           /\ kind' \in [Pids -> Kinds] /\ waitPid' \in [Pids -> 0 .. MaxPid]
           /\ token' \in [Pids -> 0 .. MaxToken]
           /\ pending' \in [Pids -> BOOLEAN]
           /\ events' \subseteq Event /\ nextToken' \in 1 .. MaxToken + 1
           /\ state[current] \notin {"ZOMBIE", "ABSENT"} /\ events \subseteq events'
           /\ r.kind # "AWAIT" =>
                \E e \in events' : /\ e.owner = current /\ e.kind = r.kind
                                   /\ e.token = token'[current]
           /\ RunQueueExact' /\ TokenInv' /\ BlockInv' /\ FiredInv'
<1> USE BoundsAssumption, DataAssumption DEF IInv, BlockCurrent, AddEvent, AtBoundary
<1>0. /\ current \in Pids /\ current # 0 /\ current < nextPid
      /\ state[current] \in {"RUNNING", "SLEEPING", "WAITING"}
      /\ ~InQueue(runq, current) /\ fired = {} /\ at[current] = "code"
  BY SliceFacts
<1>1. /\ r.kind \in {"AWAIT", "TIMER", "CHILD", "SOCKET"}
      /\ r.kind = "AWAIT" => r.pid \in Pids /\ r.pid # current /\ Live(r.pid)
      /\ r.pid \in 0 .. MaxPid /\ r.arg \in Nat
      /\ r.kind = "TIMER" => r.arg <= MaxClock
  BY RequestFacts
<1>2. s \in {"SLEEPING", "WAITING", "ZOMBIE"} /\ (s # "ZOMBIE" => s = Parked(r))
  BY DEF Parked
<1> DEFINE new == [kind |-> r.kind, token |-> nextToken, owner |-> current,
                   arg |-> r.arg]
<1>3. \/ r.kind = "AWAIT" /\ events' = events /\ nextToken' = nextToken
      \/ /\ r.kind # "AWAIT" /\ nextToken \in Tokens /\ new \in Event
         /\ events' = events \cup {new} /\ nextToken' = nextToken + 1
  BY <1>0, <1>1 DEF Event
<1>4. new.token = nextToken /\ new.owner = current /\ new.kind = r.kind
      /\ new.arg = r.arg
  OBVIOUS
<1> HIDE DEF new
<1>5. kind' \in [Pids -> Kinds] /\ waitPid' \in [Pids -> 0 .. MaxPid]
  BY <1>0, <1>1 DEF TypeOK, Kinds
<1>6. token' \in [Pids -> 0 .. MaxToken] /\ nextToken' \in 1 .. MaxToken + 1
  BY <1>0, <1>3 DEF TypeOK, Tokens
<1>7. events' \subseteq Event /\ pending' \in [Pids -> BOOLEAN]
  BY <1>0, <1>3 DEF TypeOK
<1>8. RunQueueExact'
  BY <1>0, <1>2 DEF RunQueueExact, TypeOK
<1>9. TokenInv'
  <2>1. nextToken \in Nat /\ \A e \in events : e.token \in Nat /\ e.owner \in Pids
    BY DEF TypeOK, Event, Tokens
  <2>2. \A e \in Registered' : e \in events \/ (e = new /\ nextToken' = nextToken + 1)
    BY <1>0, <1>3 DEF Registered
  <2>3. \A e \in Registered' : e.token < nextToken' /\ state'[e.owner] # "ABSENT"
    BY <1>0, <1>2, <1>3, <1>4, <2>1, <2>2, SMTT(30) DEF TokenInv, Registered, TypeOK
  <2>4. \A e \in Registered' : e.kind = "TIMER" => e.arg <= MaxClock
    BY <1>1, <1>4, <2>2 DEF TokenInv, Registered
  <2>5. \A e, f \in Registered' : e.token = f.token => e = f
    BY <1>4, <2>1, <2>2 DEF TokenInv, Registered
  <2>6. \A p \in Pids : token'[p] < nextToken'
    BY <1>0, <1>3, <2>1, SMTT(30) DEF TokenInv, TypeOK, Tokens
  <2> QED
    BY <1>0, <2>3, <2>4, <2>5, <2>6 DEF TokenInv
<1>10. BlockInv'
  <2>1. ASSUME NEW p \in Pids, Blocked(p)'
        PROVE  /\ kind'[p] = "AWAIT" =>
                     token'[p] = 0 /\ state'[p] = "WAITING" /\ waitPid'[p] # p
               /\ kind'[p] # "NONE" /\ ~pending'[p]
    BY <1>0, <1>1, <1>2, <2>1 DEF BlockInv, Blocked, TypeOK, Parked
  <2>2. ASSUME NEW e \in Registered', Live(e.owner)', token'[e.owner] = e.token
        PROVE  Blocked(e.owner)' /\ kind'[e.owner] = e.kind
    <3>1. CASE e.owner # current
      BY <1>0, <1>3, <1>4, <2>2, <3>1
         DEF BlockInv, Blocked, Live, TypeOK, Registered, Event
    <3>2. CASE e.owner = current
      <4>1. token'[current] = IF r.kind = "AWAIT" THEN 0 ELSE nextToken
        BY <1>0 DEF TypeOK
      <4>2. e.token \in Tokens /\ (e \in events => e.token < nextToken)
        BY <1>0, <1>3, <2>2 DEF TokenInv, Registered, TypeOK, Event
      <4>3. r.kind # "AWAIT" /\ e = new
        BY <1>0, <1>3, <2>2, <3>2, <4>1, <4>2 DEF Registered, Tokens, TypeOK
      <4> QED
        BY <1>0, <1>2, <1>4, <2>2, <3>2, <4>3 DEF Blocked, Live, TypeOK, Parked
    <3> QED
      BY <3>1, <3>2
  <2> QED
    BY <2>1, <2>2 DEF BlockInv
<1>11. FiredInv'
  BY <1>0 DEF FiredInv
<1>12. /\ events \subseteq events'
       /\ r.kind # "AWAIT" => \E e \in events' : /\ e.owner = current /\ e.kind = r.kind
                                                /\ e.token = token'[current]
  BY <1>0, <1>3, <1>4 DEF TypeOK
<1> QED
  BY <1>0, <1>2, <1>5, <1>6, <1>7, <1>8, <1>9, <1>10, <1>11, <1>12

(* A blocking command of the process itself keeps the invariant. *)
LEMMA BlockStepInv == ASSUME IInv, NEW r \in Requests, Block(r) PROVE IInv'
<1> USE BoundsAssumption, DataAssumption DEF IInv
<1>a. /\ AtBoundary /\ ~pending[current] /\ BlockCurrent(r, Parked(r))
      /\ UNCHANGED <<fired, runq, clock, exitCode>>
  BY DEF Block, Fetch, CountStep, worldVars
<1>0. /\ current \in Pids /\ current # 0 /\ current < nextPid
      /\ at[current] = "code" /\ fired = {}
      /\ state' = [state EXCEPT ![current] = Parked(r)]
      /\ Parked(r) \in {"SLEEPING", "WAITING", "ZOMBIE"}
      /\ kind' \in [Pids -> Kinds] /\ waitPid' \in [Pids -> 0 .. MaxPid]
      /\ token' \in [Pids -> 0 .. MaxToken]
      /\ pending' \in [Pids -> BOOLEAN]
      /\ events' \subseteq Event /\ nextToken' \in 1 .. MaxToken + 1
      /\ state[current] \notin {"ZOMBIE", "ABSENT"} /\ events \subseteq events'
      /\ r.kind # "AWAIT" =>
           \E e \in events' : /\ e.owner = current /\ e.kind = r.kind
                              /\ e.token = token'[current]
      /\ RunQueueExact' /\ TokenInv' /\ BlockInv' /\ FiredInv'
  BY <1>a, BlockingStep
<1>b. /\ r.kind \in {"AWAIT", "TIMER", "CHILD", "SOCKET"}
      /\ r.command \in {"await", "sleep", "external", "wait_readable"}
      /\ Suspends(r.command, r.kind)
      /\ r.kind = "AWAIT" => r.pid \in Pids /\ r.pid # current /\ Live(r.pid)
  BY <1>a, RequestFacts DEF AtBoundary
<1>c. \A p \in Pids : p # 0
  BY DEF Pids
<1>d. /\ pc' = "loop" /\ current' = 0 /\ waking' = waking /\ result' = result
      /\ at' = [at EXCEPT ![current] = r.command]
      /\ pc = "slice" /\ nextPid' = nextPid /\ resume' = resume
      /\ kind' = [kind EXCEPT ![current] = r.kind]
      /\ waitPid' = [waitPid EXCEPT ![current] = r.pid]
      /\ token' = [token EXCEPT ![current] = IF r.kind = "AWAIT" THEN 0 ELSE nextToken]
      /\ pending' = [pending EXCEPT ![current] = FALSE]
  BY <1>a DEF Block, ZombifyCurrent, BlockCurrent, AtBoundary
<1>1. TypeOK'
  <2>1. ran' \in 0 .. Quantum + 1 /\ steps' \in [Pids -> 0 .. MaxSteps]
    BY <1>0, BoundsAssumption, CountSteps, SliceCount DEF Block, Fetch, ZombifyCurrent, IInv
  <2>2. current' \in 0 .. MaxPid /\ waking' \in 0 .. MaxPid
    BY <1>d DEF TypeOK
  <2>3. at' \in [Pids -> {"code", "await", "sleep", "external", "wait_readable"}]
    BY <1>b, <1>d DEF TypeOK
  <2>4. result' \in [Pids -> Register]
    BY <1>0, <1>d DEF TypeOK
  <2> QED
    BY <1>0, <1>d, <2>1, <2>2, <2>3, <2>4 DEF TypeOK, Block, Fetch, CountStep, worldVars, ZombifyCurrent
<1>2. NoLostWakeup'
  <2> SUFFICES ASSUME NEW p \in Pids, Blocked(p)' PROVE WakeOwed(p)'
    BY DEF NoLostWakeup
  <2>1. CASE p # current
    <3>1. Blocked(p) /\ WakeOwed(p)
      BY <1>0, <2>1 DEF NoLostWakeup, Blocked, TypeOK
    <3> QED
      BY <1>0, <1>a, <1>d, <2>1, <3>1 DEF WakeOwed, Live, TypeOK, Parked
  <2>2. CASE p = current
    <3>1. CASE r.kind = "AWAIT"
      BY <1>0, <1>b, <1>d, <2>2, <3>1 DEF WakeOwed, Live, TypeOK
    <3>2. CASE r.kind # "AWAIT"
      BY <1>0, <1>d, <2>2, <3>2 DEF WakeOwed, TypeOK
    <3> QED
      BY <3>1, <3>2
  <2> QED
    BY <2>1, <2>2
<1>3. DeliveredValue'
  BY <1>0, <1>a, <1>d DEF DeliveredValue, TypeOK, Live
<1>4. ControlInv'
  BY <1>0, <1>a, <1>c, <1>d DEF ControlInv, TypeOK, Parked
<1>5. SuspendInv'
  BY <1>0, <1>a, <1>b, <1>c, <1>d, SMTT(30) DEF SuspendInv, TypeOK, Blocked, Live, ControlInv,
     Parked, Suspends
<1> QED
  BY <1>0, <1>1, <1>2, <1>3, <1>4, <1>5

(* A blocking command below try keeps the invariant while the slice goes   *)
(* on.                                                                     *)
LEMMA TryBlockInv == ASSUME IInv, NEW r \in Requests, TryBlock(r) PROVE IInv'
<1> USE BoundsAssumption, DataAssumption DEF IInv
<1>a. /\ AtBoundary /\ ~pending[current] /\ BlockCurrent(r, Parked(r))
      /\ UNCHANGED <<fired, runq, clock, exitCode>>
  BY DEF TryBlock, Fetch, CountStep, worldVars
<1>0. /\ current \in Pids /\ current # 0 /\ current < nextPid
      /\ at[current] = "code" /\ fired = {}
      /\ state' = [state EXCEPT ![current] = Parked(r)]
      /\ Parked(r) \in {"SLEEPING", "WAITING", "ZOMBIE"}
      /\ kind' \in [Pids -> Kinds] /\ waitPid' \in [Pids -> 0 .. MaxPid]
      /\ token' \in [Pids -> 0 .. MaxToken]
      /\ pending' \in [Pids -> BOOLEAN]
      /\ events' \subseteq Event /\ nextToken' \in 1 .. MaxToken + 1
      /\ state[current] \notin {"ZOMBIE", "ABSENT"} /\ events \subseteq events'
      /\ r.kind # "AWAIT" =>
           \E e \in events' : /\ e.owner = current /\ e.kind = r.kind
                              /\ e.token = token'[current]
      /\ RunQueueExact' /\ TokenInv' /\ BlockInv' /\ FiredInv'
  BY <1>a, BlockingStep
<1>b. /\ r.kind \in {"AWAIT", "TIMER", "CHILD", "SOCKET"}
      /\ r.command \in {"await", "sleep", "external", "wait_readable"}
      /\ Suspends(r.command, r.kind)
      /\ r.kind = "AWAIT" => r.pid \in Pids /\ r.pid # current /\ Live(r.pid)
  BY <1>a, RequestFacts DEF AtBoundary
<1>c. \A p \in Pids : p # 0
  BY DEF Pids
<1>d. /\ pc' = "slice" /\ current' = current /\ waking' = waking /\ result' = result
      /\ at' = at
      /\ pc = "slice" /\ nextPid' = nextPid /\ resume' = resume
      /\ kind' = [kind EXCEPT ![current] = r.kind]
      /\ waitPid' = [waitPid EXCEPT ![current] = r.pid]
      /\ token' = [token EXCEPT ![current] = IF r.kind = "AWAIT" THEN 0 ELSE nextToken]
      /\ pending' = [pending EXCEPT ![current] = FALSE]
  BY <1>a DEF TryBlock, ZombifyCurrent, BlockCurrent, AtBoundary
<1>1. TypeOK'
  <2>1. ran' \in 0 .. Quantum + 1 /\ steps' \in [Pids -> 0 .. MaxSteps]
    BY <1>0, BoundsAssumption, CountSteps, SliceCount DEF TryBlock, Fetch, ZombifyCurrent, IInv
  <2>2. current' \in 0 .. MaxPid /\ waking' \in 0 .. MaxPid
    BY <1>d DEF TypeOK
  <2>3. at' \in [Pids -> {"code", "await", "sleep", "external", "wait_readable"}]
    BY <1>b, <1>d DEF TypeOK
  <2>4. result' \in [Pids -> Register]
    BY <1>0, <1>d DEF TypeOK
  <2> QED
    BY <1>0, <1>d, <2>1, <2>2, <2>3, <2>4 DEF TypeOK, TryBlock, Fetch, CountStep, worldVars, ZombifyCurrent
<1>2. NoLostWakeup'
  <2> SUFFICES ASSUME NEW p \in Pids, Blocked(p)' PROVE WakeOwed(p)'
    BY DEF NoLostWakeup
  <2>1. CASE p # current
    <3>1. Blocked(p) /\ WakeOwed(p)
      BY <1>0, <2>1 DEF NoLostWakeup, Blocked, TypeOK
    <3> QED
      BY <1>0, <1>a, <1>d, <2>1, <3>1 DEF WakeOwed, Live, TypeOK, Parked
  <2>2. CASE p = current
    <3>1. CASE r.kind = "AWAIT"
      BY <1>0, <1>b, <1>d, <2>2, <3>1 DEF WakeOwed, Live, TypeOK
    <3>2. CASE r.kind # "AWAIT"
      BY <1>0, <1>d, <2>2, <3>2 DEF WakeOwed, TypeOK
    <3> QED
      BY <3>1, <3>2
  <2> QED
    BY <2>1, <2>2
<1>3. DeliveredValue'
  BY <1>0, <1>a, <1>d, SMTT(30) DEF DeliveredValue, TypeOK, Live
<1>4. ControlInv'
  BY <1>0, <1>a, <1>c, <1>d DEF ControlInv, TypeOK, Parked
<1>5. SuspendInv'
  BY <1>0, <1>a, <1>b, <1>c, <1>d, SMTT(30) DEF SuspendInv, TypeOK, Blocked, Live, ControlInv,
     Parked, Suspends
<1> QED
  BY <1>0, <1>1, <1>2, <1>3, <1>4, <1>5

(* A process that dies inside eval leaves only a stale event behind. *)
LEMMA EvalBlockInv == ASSUME IInv, NEW r \in Requests, EvalBlock(r) PROVE IInv'
<1> USE BoundsAssumption, DataAssumption DEF IInv
<1>a. /\ AtBoundary /\ ~pending[current] /\ BlockCurrent(r, "ZOMBIE")
      /\ UNCHANGED <<fired, runq, clock, exitCode>>
  BY DEF EvalBlock, Fetch, CountStep, worldVars
<1>0. /\ current \in Pids /\ current # 0 /\ current < nextPid
      /\ at[current] = "code" /\ fired = {}
      /\ state' = [state EXCEPT ![current] = "ZOMBIE"]
      /\ "ZOMBIE" \in {"SLEEPING", "WAITING", "ZOMBIE"}
      /\ kind' \in [Pids -> Kinds] /\ waitPid' \in [Pids -> 0 .. MaxPid]
      /\ token' \in [Pids -> 0 .. MaxToken]
      /\ pending' \in [Pids -> BOOLEAN]
      /\ events' \subseteq Event /\ nextToken' \in 1 .. MaxToken + 1
      /\ state[current] \notin {"ZOMBIE", "ABSENT"} /\ events \subseteq events'
      /\ r.kind # "AWAIT" =>
           \E e \in events' : /\ e.owner = current /\ e.kind = r.kind
                              /\ e.token = token'[current]
      /\ RunQueueExact' /\ TokenInv' /\ BlockInv' /\ FiredInv'
  BY <1>a, BlockingStep
<1>b. /\ r.kind \in {"AWAIT", "TIMER", "CHILD", "SOCKET"}
      /\ r.command \in {"await", "sleep", "external", "wait_readable"}
      /\ Suspends(r.command, r.kind)
      /\ r.kind = "AWAIT" => r.pid \in Pids /\ r.pid # current /\ Live(r.pid)
  BY <1>a, RequestFacts DEF AtBoundary
<1>c. \A p \in Pids : p # 0
  BY DEF Pids
<1>d. /\ pc' = "zombify" /\ current' = 0 /\ waking' = current /\ at' = at
      /\ result' = [result EXCEPT ![current] = reg[current]]
      /\ pc = "slice" /\ nextPid' = nextPid /\ resume' = resume
      /\ kind' = [kind EXCEPT ![current] = r.kind]
      /\ waitPid' = [waitPid EXCEPT ![current] = r.pid]
      /\ token' = [token EXCEPT ![current] = IF r.kind = "AWAIT" THEN 0 ELSE nextToken]
      /\ pending' = [pending EXCEPT ![current] = FALSE]
  BY <1>a DEF EvalBlock, ZombifyCurrent, BlockCurrent, AtBoundary
<1>1. TypeOK'
  <2>1. ran' \in 0 .. Quantum + 1 /\ steps' \in [Pids -> 0 .. MaxSteps]
    BY <1>0, BoundsAssumption, CountSteps, SliceCount DEF EvalBlock, Fetch, ZombifyCurrent, IInv
  <2>2. current' \in 0 .. MaxPid /\ waking' \in 0 .. MaxPid
    BY <1>d DEF TypeOK
  <2>3. at' \in [Pids -> {"code", "await", "sleep", "external", "wait_readable"}]
    BY <1>b, <1>d DEF TypeOK
  <2>4. result' \in [Pids -> Register]
    BY <1>0, <1>d DEF TypeOK
  <2> QED
    BY <1>0, <1>d, <2>1, <2>2, <2>3, <2>4 DEF TypeOK, EvalBlock, Fetch, CountStep, worldVars, ZombifyCurrent
<1>2. NoLostWakeup'
  <2> SUFFICES ASSUME NEW p \in Pids, Blocked(p)' PROVE WakeOwed(p)'
    BY DEF NoLostWakeup
  <2>1. CASE p # current
    <3>1. Blocked(p) /\ WakeOwed(p)
      BY <1>0, <2>1 DEF NoLostWakeup, Blocked, TypeOK
    <3> QED
      BY <1>0, <1>a, <1>d, <2>1, <3>1 DEF WakeOwed, Live, TypeOK, Parked
  <2>2. CASE p = current
    <3>1. CASE r.kind = "AWAIT"
      BY <1>0, <1>b, <1>d, <2>2, <3>1 DEF WakeOwed, Live, TypeOK
    <3>2. CASE r.kind # "AWAIT"
      BY <1>0, <1>d, <2>2, <3>2 DEF WakeOwed, TypeOK
    <3> QED
      BY <3>1, <3>2
  <2> QED
    BY <2>1, <2>2
<1>3. DeliveredValue'
  BY <1>0, <1>a, <1>d DEF DeliveredValue, TypeOK, Live
<1>4. ControlInv'
  BY <1>0, <1>a, <1>c, <1>d DEF ControlInv, TypeOK, Parked
<1>5. SuspendInv'
  BY <1>0, <1>a, <1>b, <1>c, <1>d, SMTT(30) DEF SuspendInv, TypeOK, Blocked, Live, ControlInv,
     Parked, Suspends
<1> QED
  BY <1>0, <1>1, <1>2, <1>3, <1>4, <1>5

(* sched_wake of a blocked process: the wakeup it was owed is consumed and *)
(* it is queued once.                                                      *)
LEMMA WakeQueue ==
    ASSUME IInv, NEW p \in Pids, Blocked(p), NEW v \in Register, Wake(p, v)
    PROVE  /\ state \in [Pids -> {"ABSENT", "RUNNABLE", "RUNNING", "SLEEPING",
                                  "WAITING", "ZOMBIE"}]
           /\ RunQueueExact' /\ runq' \in Seq(Pids)
           /\ resume' \in [Pids -> Register] /\ pending' \in [Pids -> BOOLEAN]
           /\ kind' \in [Pids -> Kinds]
<1> USE DEF IInv, Wake
<1>1. ~InQueue(runq, p) /\ runq \in Seq(Pids) /\ NoDuplicates(runq)
  BY DEF RunQueueExact, TypeOK, Blocked
<1>2. /\ NoDuplicates(runq') /\ runq' \in Seq(Pids)
      /\ \A o : InQueue(runq', o) <=> InQueue(runq, o) \/ o = p
  BY <1>1, AppendQueue
<1>3. RunQueueExact'
  BY <1>2 DEF RunQueueExact, TypeOK
<1> QED
  BY <1>2, <1>3 DEF TypeOK, Kinds

(* Waking the newest awaiter of a finished process keeps the invariant. *)
LEMMA WakeAwaiterInv == ASSUME IInv, WakeAwaiter PROVE IInv'
<1> USE BoundsAssumption, DataAssumption DEF IInv
<1>1. PICK p \in Pids : Awaits(p, waking) /\ Wake(p, result[waking])
  BY DEF WakeAwaiter
<1>2. /\ pc = "zombify" /\ waking \in Pids /\ state[waking] = "ZOMBIE"
      /\ Blocked(p) /\ kind[p] = "AWAIT" /\ waitPid[p] = waking /\ token[p] = 0
      /\ result[waking] \in Register /\ current = 0 /\ fired = {}
  BY <1>1 DEF WakeAwaiter, Awaits, ControlInv, TypeOK, Blocked, BlockInv, Pids
<1>3. /\ RunQueueExact' /\ runq' \in Seq(Pids)
      /\ resume' \in [Pids -> Register] /\ pending' \in [Pids -> BOOLEAN]
      /\ kind' \in [Pids -> Kinds]
  BY <1>1, <1>2, WakeQueue
<1>4. /\ UNCHANGED <<waitPid, token, reg, result, at, yieldReq, steps, nextPid, mainPid,
                     current, pc, ran, waking, failed, events, nextToken, fired,
                     clock, exitCode, fdReady>>
      /\ resume' = [resume EXCEPT ![p] = result[waking]]
      /\ pending' = [pending EXCEPT ![p] = TRUE]
      /\ kind' = [kind EXCEPT ![p] = "NONE"]
      /\ state' = [state EXCEPT ![p] = "RUNNABLE"]
  BY <1>1 DEF WakeAwaiter, Wake, eqVars, worldVars
<1>5. TypeOK'
  BY <1>3, <1>4 DEF TypeOK
<1>6. NoLostWakeup'
  <2> SUFFICES ASSUME NEW o \in Pids, Blocked(o)' PROVE WakeOwed(o)'
    BY DEF NoLostWakeup
  <2>1. o # p /\ Blocked(o) /\ WakeOwed(o) /\ kind'[o] = kind[o]
    BY <1>4 DEF NoLostWakeup, Blocked, TypeOK
  <2>2. \A q \in Pids : Live(q) => Live(q)'
    BY <1>4 DEF Live, TypeOK
  <2> QED
    BY <1>2, <1>4, <2>1, <2>2 DEF WakeOwed
<1>7. DeliveredValue'
  <2>1. at[p] = "await" \/ at[p] = "code"
    BY <1>2 DEF SuspendInv, Suspends, Live, Blocked, BlockInv, TypeOK
  <2>2. state'[waking] = "ZOMBIE"
    BY <1>2, <1>4 DEF Blocked, TypeOK
  <2>3. \A o \in Pids : state[o] = "ZOMBIE" => state'[o] = "ZOMBIE"
    BY <1>2, <1>4 DEF Blocked, TypeOK
  <2>4. pending'[p] /\ resume'[p] = result[waking]
    BY <1>4 DEF TypeOK
  <2>5. \A o \in Pids \ {p} : /\ pending'[o] = pending[o] /\ resume'[o] = resume[o]
                              /\ state'[o] = state[o]
    BY <1>4 DEF TypeOK
  <2> QED
    BY <1>2, <1>4, <2>1, <2>2, <2>3, <2>4, <2>5 DEF DeliveredValue, Live
<1>8. ControlInv'
  BY <1>2, <1>4 DEF ControlInv, TypeOK, Blocked
<1>9. TokenInv' /\ FiredInv'
  BY <1>4, SMTT(30) DEF TokenInv, FiredInv, Registered, TypeOK
<1>10. BlockInv'
  BY <1>2, <1>4, SMTT(30) DEF BlockInv, Registered, Blocked, Live, TypeOK, Event, Tokens
<1>11. SuspendInv'
  BY <1>2, <1>4, SMTT(30) DEF SuspendInv, Suspends, Blocked, Live, TypeOK, ControlInv
<1> QED
  BY <1>3, <1>5, <1>6, <1>7, <1>8, <1>9, <1>10, <1>11

(* Handing out a collected event keeps the invariant: a stale one is       *)
(* dropped, any other wakes the process that waits for it.                 *)
LEMMA HandOutInv == ASSUME IInv, NEW e \in fired, HandOut(e) PROVE IInv'
<1> USE BoundsAssumption, DataAssumption DEF IInv
<1>1. /\ pc = "wake" /\ pc' \in {"loop", "wake"} /\ (pc' = "loop" => fired' = {})
      /\ fired' = fired \ {e} /\ current = 0
      /\ UNCHANGED <<waitPid, token, reg, result, at, yieldReq, steps, nextPid, mainPid,
                     current, ran, waking, failed, events, nextToken, clock,
                     exitCode, fdReady>>
  BY DEF HandOut, worldVars, ControlInv
<1>2. e \in Registered /\ e \in Event /\ e.owner \in Pids /\ e.token \in Tokens
  BY DEF Registered, TypeOK, Event
<1>3. CASE Current(e)
  <2> DEFINE p == e.owner
  <2>1. /\ p \in Pids /\ Blocked(p) /\ kind[p] = e.kind /\ token[p] = e.token
        /\ Wake(p, WakeValue(e)) /\ state[p] # "ABSENT"
    BY <1>2, <1>3 DEF Current, BlockInv, HandOut, TokenInv
  <2>2. /\ WakeValue(e) \in Register
        /\ e.kind = "CHILD" => WakeValue(e) = exitCode[e.token] /\ exitCode[e.token] # Null
    BY <1>2 DEF WakeValue, Register, TypeOK, FiredInv
  <2>3. /\ RunQueueExact' /\ runq' \in Seq(Pids)
        /\ resume' \in [Pids -> Register] /\ pending' \in [Pids -> BOOLEAN]
        /\ kind' \in [Pids -> Kinds]
    BY <2>1, <2>2, WakeQueue
  <2>4. /\ resume' = [resume EXCEPT ![p] = WakeValue(e)]
        /\ pending' = [pending EXCEPT ![p] = TRUE]
        /\ kind' = [kind EXCEPT ![p] = "NONE"]
        /\ state' = [state EXCEPT ![p] = "RUNNABLE"]
    BY <2>1 DEF Wake
  <2> HIDE DEF p
  <2>5. TypeOK'
    BY <1>1, <2>1, <2>3, <2>4 DEF TypeOK
  <2>6. NoLostWakeup'
    <3> SUFFICES ASSUME NEW o \in Pids, Blocked(o)' PROVE WakeOwed(o)'
      BY DEF NoLostWakeup
    <3>1. o # p /\ Blocked(o) /\ WakeOwed(o)
      BY <2>1, <2>4 DEF Blocked, TypeOK, NoLostWakeup
    <3> QED
      BY <1>1, <2>1, <2>4, <3>1 DEF WakeOwed, Live, Blocked, TypeOK, p
  <2>7. DeliveredValue'
    <3>1. kind[p] # "AWAIT" /\ ~pending[p] /\ Live(p)
      BY <1>2, <2>1 DEF BlockInv, Tokens, Blocked, Live
    <3>2. at[p] # "await" /\ (at[p] = "external" => e.kind = "CHILD")
      BY <2>1, <3>1 DEF SuspendInv, Suspends
    <3>3. ASSUME NEW o \in Pids, o # p PROVE state'[o] = state[o] /\ Live(o)' = Live(o)
      BY <2>1, <2>4, <3>3 DEF Live, TypeOK
    <3>4. \A o \in Pids : state[o] = "ZOMBIE" => state'[o] = "ZOMBIE"
      BY <2>1, <2>4 DEF Blocked, TypeOK
    <3>5. token'[p] \in Tokens /\ exitCode' = exitCode /\ token'[p] = e.token
      BY <1>1, <1>2, <2>1
    <3> SUFFICES ASSUME NEW o \in Pids, pending'[o], Live(o)'
                 PROVE  /\ at'[o] = "await" => /\ waitPid'[o] \in Pids
                                               /\ state'[waitPid'[o]] = "ZOMBIE"
                                               /\ resume'[o] = result'[waitPid'[o]]
                        /\ at'[o] = "external" => /\ token'[o] \in Tokens
                                                  /\ exitCode'[token'[o]] # Null
                                                  /\ resume'[o] = exitCode'[token'[o]]
      BY DEF DeliveredValue
    <3>6. CASE o = p
      BY <1>1, <2>1, <2>2, <2>4, <3>2, <3>5, <3>6 DEF TypeOK
    <3>7. CASE o # p
      BY <1>1, <2>1, <2>4, <3>3, <3>4, <3>7 DEF DeliveredValue, TypeOK
    <3> QED
      BY <3>6, <3>7
  <2>8. ControlInv'
    BY <1>1, <2>1, <2>4 DEF ControlInv, TypeOK, Blocked
  <2>9. TokenInv' /\ FiredInv'
    BY <1>1, <2>1, <2>4 DEF TokenInv, FiredInv, Registered, TypeOK
  <2>10. BlockInv'
    BY <1>1, <1>2, <2>1, <2>4 DEF BlockInv, TokenInv, Registered, Blocked, Live, TypeOK, p
  <2>11. SuspendInv'
    BY <1>1, <2>1, <2>4 DEF SuspendInv, Suspends, Blocked, Live, TypeOK, ControlInv
  <2> QED
    BY <2>3, <2>5, <2>6, <2>7, <2>8, <2>9, <2>10, <2>11
<1>4. CASE ~Current(e)
  <2>1. UNCHANGED <<resume, pending, kind, state, runq>>
    BY <1>4 DEF HandOut
  <2>2. NoLostWakeup'
    <3> SUFFICES ASSUME NEW o \in Pids, Blocked(o)' PROVE WakeOwed(o)'
      BY DEF NoLostWakeup
    <3>1. Blocked(o) /\ WakeOwed(o)
      BY <2>1 DEF Blocked, NoLostWakeup
    <3> QED
      BY <1>1, <1>4, <2>1, <3>1 DEF WakeOwed, Live, Blocked, Current
  <2>3. TypeOK' /\ RunQueueExact' /\ DeliveredValue' /\ ControlInv'
    BY <1>1, <2>1 DEF TypeOK, RunQueueExact, DeliveredValue, ControlInv, Live
  <2>4. TokenInv' /\ BlockInv' /\ FiredInv' /\ SuspendInv'
    BY <1>1, <2>1 DEF TokenInv, BlockInv, FiredInv, SuspendInv, Registered, Live, Blocked
  <2> QED
    BY <2>2, <2>3, <2>4
<1> QED
  BY <1>3, <1>4

-----------------------------------------------------------------------------
(* The invariant only depends on the variables of the specification. *)
LEMMA StutterInv == ASSUME IInv, UNCHANGED vars PROVE IInv'
BY SMTT(30) DEF vars, procVars, schedVars, eqVars, worldVars, IInv, TypeOK, RunQueueExact,
   NoLostWakeup, WakeOwed, DeliveredValue, ControlInv, TokenInv, BlockInv, FiredInv,
   SuspendInv, Registered, Live, Blocked

(* Every step of the specification keeps the invariant. *)
LEMMA NextInv == IInv /\ [Next]_vars => IInv'
<1> SUFFICES ASSUME IInv, [Next]_vars PROVE IInv'
  OBVIOUS
<1>1. CASE SpawnMain BY <1>1, SpawnMainInv
<1>2. CASE Loop
  BY <1>2, PickInv, EndSliceInv, ResumeInv, WakeAwaiterInv, ZombifyDoneInv, ReturnInv,
     DispatchInv, HandOutInv DEF Loop
<1>3. CASE Instruction
  BY <1>3, SetInv, AsyncInv, YieldInv, FailInv, HaltInv, StepLimitInv, AwaitFinishedInv, BlockStepInv,
     TryBlockInv, EvalBlockInv DEF Instruction
<1>4. CASE Quit BY <1>4, QuitInv
<1>5. CASE Halted BY <1>5, StutterInv DEF Halted
<1>6. CASE World
  BY <1>6, TickInv, ChildExitInv, FdChangeInv DEF World
<1>7. CASE UNCHANGED vars BY <1>7, StutterInv
<1> QED
  BY <1>1, <1>2, <1>3, <1>4, <1>5, <1>6, <1>7 DEF Next

(* Every behaviour of the scheduler keeps the inductive invariant: run     *)
(* queue and process states agree, tokens name one event each, and every   *)
(* blocked process is owed exactly one wakeup.                             *)
THEOREM SchedulerInvariant == Spec => []IInv
<1>1. Init => IInv
  BY InitInv
<1>2. IInv /\ [Next]_vars => IInv'
  BY NextInv
<1> QED
  BY <1>1, <1>2, PTL DEF Spec

(* Type correctness of every reachable state. *)
THEOREM TypeCorrect == Spec => []TypeOK
BY SchedulerInvariant, PTL DEF IInv

(* The run queue always holds exactly the RUNNABLE processes, each once.   *)
THEOREM RunQueueIsExact == Spec => []RunQueueExact
BY SchedulerInvariant, PTL DEF IInv

(* No blocked process ever loses the event or the process that will wake   *)
(* it, nested calls and dying processes included.                          *)
THEOREM WakeupsAreKept == Spec => []NoLostWakeup
BY SchedulerInvariant, PTL DEF IInv

(* A resumed await receives the result of the process it awaited, and a    *)
(* resumed external command the exit code of its own child.                *)
THEOREM ValuesAreRight == Spec => []DeliveredValue
BY SchedulerInvariant, PTL DEF IInv

(* When the scheduler reports a deadlock, every live process awaits        *)
(* another live one.                                                       *)
THEOREM DeadlocksAreReal == Spec => []DeadlockIsReal
<1>1. IInv => DeadlockIsReal
  <2> SUFFICES ASSUME IInv, Idle, events = {}, NEW p \in Pids, Live(p)
               PROVE  /\ state[p] = "WAITING" /\ kind[p] = "AWAIT"
                      /\ waitPid[p] \in Pids \ {p} /\ Live(waitPid[p])
    BY DEF DeadlockIsReal
  <2>1. state[p] # "RUNNABLE"
    BY DEF IInv, Idle, RunQueueExact, InQueue
  <2>2. state[p] # "RUNNING"
    BY DEF IInv, Idle, ControlInv, Pids
  <2>3. Blocked(p)
    BY <2>1, <2>2 DEF IInv, TypeOK, Live, Blocked
  <2>4. fired = {}
    BY DEF IInv, Idle, ControlInv
  <2> QED
    BY <2>3, <2>4 DEF IInv, NoLostWakeup, WakeOwed, BlockInv, Idle
<1> QED
  BY <1>1, SchedulerInvariant, PTL

-----------------------------------------------------------------------------
(* No step changes a finished process or its result. *)
LEMMA ZombieStepHolds == ASSUME IInv, [Next]_vars PROVE ZombieStep \/ UNCHANGED vars
<1> SUFFICES ASSUME NEW z \in Pids, state[z] = "ZOMBIE", pc' # "halted"
             PROVE  (state'[z] = "ZOMBIE" /\ result'[z] = result[z]) \/ UNCHANGED vars
  BY DEF ZombieStep
<1> USE DEF IInv
<1>1. pc = "slice" => current # z /\ current \in Pids
  BY SliceFacts
<1>2. z # nextPid
  BY DEF ControlInv, TypeOK, Pids
<1>3. CASE SpawnMain
  BY <1>2, <1>3 DEF SpawnMain, Spawn, TypeOK
<1>4. CASE Instruction
  BY <1>1, <1>2, <1>4, SMTT(30) DEF Instruction, Set, Async, Spawn, Yield, Fail, StepLimit, Halt, AwaitFinished,
     Block, TryBlock, EvalBlock, BlockCurrent, ZombifyCurrent, Fetch, CountStep, AtBoundary, TypeOK
<1>5. CASE Pick
  <2>1. state[Head(runq)] = "RUNNABLE"
    BY <1>5, TailQueue DEF Pick, RunQueueExact, TypeOK
  <2> QED
    BY <1>5, <2>1 DEF Pick, TypeOK
<1>6. CASE EndSlice \/ Resume
  BY <1>1, <1>6 DEF EndSlice, Resume, AtBoundary, TypeOK
<1>7. CASE WakeAwaiter
  BY <1>7 DEF WakeAwaiter, Wake, Awaits, TypeOK
<1>8. CASE \E e \in fired : HandOut(e)
  BY <1>8 DEF HandOut, Wake, Current, Live, TypeOK
<1>9. CASE ZombifyDone \/ ReturnAllDone \/ ReturnBackground \/ ReturnDeadlock \/ Dispatch
  BY <1>9 DEF ZombifyDone, ReturnAllDone, ReturnBackground, ReturnDeadlock, Return, Dispatch,
     procVars
<1>10. CASE Quit \/ Halted
  BY <1>10 DEF Quit, Halted
<1>11. CASE World
  BY <1>11 DEF World, Tick, ChildExit, FdChange, procVars
<1> QED
  BY <1>3, <1>4, <1>5, <1>6, <1>7, <1>8, <1>9, <1>10, <1>11 DEF Next, Loop

(* Once a process has finished, neither its state nor its result changes   *)
(* until the whole table is freed.                                         *)
THEOREM ZombiesAreFinal == Spec => ZombieIsFinal
<1>1. IInv /\ [Next]_vars => [ZombieStep]_vars
  BY ZombieStepHolds
<1> QED
  BY <1>1, SchedulerInvariant, PTL DEF Spec, ZombieIsFinal

-----------------------------------------------------------------------------
(* No step wakes a blocked process without the cause it waits for. *)
LEMMA WakeStepHolds == ASSUME IInv, [Next]_vars PROVE WakeStep
<1> SUFFICES ASSUME NEW b \in Pids, Blocked(b), state'[b] = "RUNNABLE"
             PROVE  \/ kind[b] = "AWAIT" /\ state[waitPid[b]] = "ZOMBIE"
                    \/ \E e \in fired :
                          /\ e.owner = b /\ e.kind = kind[b] /\ e.token = token[b]
                          /\ e.kind = "TIMER" => e.arg <= clock
                          /\ e.kind = "CHILD" => exitCode[e.token] # Null
  BY DEF WakeStep
<1> USE DEF IInv
<1>1. state[b] \in {"SLEEPING", "WAITING"} /\ b # nextPid
  BY DEF Blocked, ControlInv, TypeOK, Pids
<1>2. CASE SpawnMain
  BY <1>1, <1>2 DEF SpawnMain, Spawn, TypeOK
<1>3. CASE Instruction
  BY <1>1, <1>3, SliceFacts, SMTT(90) DEF Instruction, Set, Async, Spawn, Yield, Fail, StepLimit, Halt,
     AwaitFinished, Block, TryBlock, EvalBlock, BlockCurrent, ZombifyCurrent, Fetch, CountStep,
     AtBoundary, TypeOK, Parked
<1>4. CASE Pick
  BY <1>1, <1>4, TailQueue DEF Pick, TypeOK, RunQueueExact
<1>5. CASE EndSlice \/ Resume
  BY <1>1, <1>5 DEF EndSlice, Resume, TypeOK
<1>6. CASE WakeAwaiter
  <2>1. PICK p \in Pids : Awaits(p, waking) /\ Wake(p, result[waking])
    BY <1>6 DEF WakeAwaiter
  <2>2. b = p
    BY <1>1, <2>1 DEF Wake, TypeOK
  <2> QED
    BY <1>6, <2>1, <2>2 DEF WakeAwaiter, Awaits, ControlInv
<1>7. CASE \E e \in fired : HandOut(e)
  <2>1. PICK e \in fired : HandOut(e)
    BY <1>7
  <2>2. Current(e) /\ e.owner = b
    BY <1>1, <2>1 DEF HandOut, Wake, TypeOK
  <2>3. e.kind = kind[b] /\ e.token = token[b]
    BY <2>2 DEF Current, BlockInv, Registered
  <2> QED
    BY <2>2, <2>3 DEF FiredInv
<1>8. CASE ZombifyDone \/ ReturnAllDone \/ ReturnBackground \/ ReturnDeadlock \/ Dispatch
  BY <1>1, <1>8 DEF ZombifyDone, ReturnAllDone, ReturnBackground, ReturnDeadlock, Return,
     Dispatch, procVars
<1>9. CASE Quit
  BY <1>9 DEF Quit
<1>10. CASE World \/ Halted \/ UNCHANGED vars
  BY <1>1, <1>10 DEF World, Tick, ChildExit, FdChange, Halted, procVars, vars
<1> QED
  BY <1>2, <1>3, <1>4, <1>5, <1>6, <1>7, <1>8, <1>9, <1>10 DEF Next, Loop

(* A blocked process only becomes runnable because what it waits for has   *)
(* happened: no early timer, no foreign child, no spurious await.          *)
THEOREM WakesHaveCauses == Spec => WakeHasCause
<1>1. IInv /\ [Next]_vars => [WakeStep]_vars
  BY WakeStepHolds
<1> QED
  BY <1>1, SchedulerInvariant, PTL DEF Spec, WakeHasCause

-----------------------------------------------------------------------------
(* Without try, whoever is blocked is suspended in its own command. *)
LEMMA OwnCommandStep ==
    ASSUME "try" \notin Commands, IInv, OwnCommand, [Next]_vars PROVE OwnCommand'
<1> USE DEF IInv
<1>0. pc = "slice" => current \in Pids /\ Live(current)
  BY SliceFacts DEF Live
<1>2. CASE SpawnMain
  BY <1>2 DEF SpawnMain, Spawn, OwnCommand, Live, Blocked, TypeOK, ControlInv, SuspendInv
<1>3. CASE Async
  BY <1>3, SMTT(30) DEF Async, Fetch, CountStep, AtBoundary, Spawn, OwnCommand, Live, Blocked, TypeOK,
     ControlInv, SuspendInv
<1>4. CASE (\E v \in Values : Set(v)) \/ Yield \/ (\E q \in Pids : AwaitFinished(q))
  BY <1>4 DEF Set, Yield, AwaitFinished, OwnCommand, Live, Blocked
<1>5. CASE Fail \/ StepLimit \/ Halt
  BY <1>0, <1>5, ZenonT(30) DEF Fail, StepLimit, Halt, Fetch, CountStep, AtBoundary, OwnCommand, Live, Blocked, TypeOK
<1>6. CASE \E r \in Requests : Block(r)
  <2>1. PICK r \in Requests : Block(r)
    BY <1>6
  <2>2. r.command # "code" /\ pc = "slice"
    BY <2>1, RequestFacts DEF Block, Fetch, CountStep, AtBoundary
  <2> QED
    BY <1>0, <2>1, <2>2 DEF Block, BlockCurrent, OwnCommand, Live, Blocked, TypeOK
<1>7. CASE \E r \in Requests : TryBlock(r)
  BY <1>7 DEF TryBlock, Fetch, CountStep
<1>8. CASE \E r \in Requests : EvalBlock(r)
  BY <1>0, <1>8 DEF EvalBlock, BlockCurrent, Fetch, CountStep, AtBoundary, OwnCommand, Live, Blocked,
     TypeOK
<1>9. CASE Pick
  BY <1>9, TailQueue, SMTT(90) DEF Pick, OwnCommand, Live, Blocked, TypeOK, RunQueueExact
<1>10. CASE EndSlice
  BY <1>0, <1>10 DEF EndSlice, OwnCommand, Live, Blocked, TypeOK
<1>11. CASE Resume
  <2>1. state[current] = "RUNNING"
    BY <1>0, <1>11, SliceFacts DEF Resume, AtBoundary, BlockInv, Blocked
  <2> QED
    BY <1>0, <1>11, <2>1 DEF Resume, AtBoundary, OwnCommand, Live, Blocked, TypeOK
<1>12. CASE WakeAwaiter
  BY <1>12 DEF WakeAwaiter, Awaits, Wake, OwnCommand, Live, Blocked, TypeOK
<1>13. CASE \E e \in fired : HandOut(e)
  <2>1. PICK e \in fired : HandOut(e)
    BY <1>13
  <2>2. Current(e) => e.owner \in Pids /\ Blocked(e.owner)
    BY DEF Current, BlockInv, Registered, TypeOK, Event
  <2> QED
    BY <2>1, <2>2, ZenonT(30) DEF HandOut, Wake, Current, OwnCommand, Live, Blocked, TypeOK
<1>14. CASE ZombifyDone \/ ReturnAllDone \/ ReturnBackground \/ ReturnDeadlock \/ Dispatch
  BY <1>14 DEF ZombifyDone, ReturnAllDone, ReturnBackground, ReturnDeadlock, Return,
     Dispatch, procVars, OwnCommand, Live, Blocked
<1>15. CASE Quit
  BY <1>15 DEF Quit, OwnCommand, Live
<1>16. CASE World \/ Halted \/ UNCHANGED vars
  BY <1>16 DEF World, Tick, ChildExit, FdChange, Halted, procVars, vars, OwnCommand, Live,
     Blocked
<1> QED
  BY <1>2, <1>3, <1>4, <1>5, <1>6, <1>7, <1>8, <1>9, <1>10, <1>11, <1>12, <1>13, <1>14,
     <1>15, <1>16 DEF Next, Loop, Instruction

(* In programs that make no try calls the resume protocol is kept: a wake  *)
(* value is only delivered to a VM suspended in a blocking command.        *)
THEOREM ResumeProtocol ==
    ASSUME "try" \notin Commands PROVE Spec => []ResumeAtCommand
<1>1. Init => OwnCommand
  BY DEF Init, OwnCommand, Live
<1>2. IInv /\ OwnCommand /\ [Next]_vars => OwnCommand'
  BY OwnCommandStep
<1>3. OwnCommand => ResumeAtCommand
  BY DEF OwnCommand, ResumeAtCommand
<1> QED
  BY <1>1, <1>2, <1>3, SchedulerInvariant, PTL DEF Spec

=============================================================================
