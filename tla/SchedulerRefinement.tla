------------------------ MODULE SchedulerRefinement ------------------------
(* The scheduler implements AsyncAwait, for every value of the constants.  *)
EXTENDS SchedulerProofs

(* A step that leaves the blocking fields alone and moves no process       *)
(* between the mapped states is invisible.                                 *)
LEMMA Invisible ==
    ASSUME UNCHANGED <<kind, waitPid, pending, resume, result, current, state>>
    PROVE  UNCHANGED Promise!avars
BY DEF Promise!avars, absStatus, absAwaits, absInbox, Blocked, Live

(* The initial state of the scheduler maps to that of AsyncAwait. *)
LEMMA InitPromise == Init => Promise!AInit
BY DEF Init, Promise!AInit, absStatus, absAwaits, absInbox, Blocked, Live

(* A new process: async, load, or the main process of a chunk. *)
LEMMA SpawnPromise ==
    ASSUME IInv, pc # "halted", Spawn,
           UNCHANGED <<kind, waitPid, pending, resume, result, current>>
    PROVE  Promise!ANext
<1> USE DEF IInv
<1>1. /\ nextPid \in Pids /\ state[nextPid] = "ABSENT" /\ ~pending[nextPid]
      /\ state' = [state EXCEPT ![nextPid] = "RUNNABLE"]
  BY BoundsAssumption DEF Spawn, ControlInv, SuspendInv, TypeOK, Pids
<1>2. absStatus[nextPid] = "absent"
  BY <1>1 DEF absStatus
<1>3. absStatus' = [absStatus EXCEPT ![nextPid] = "ready"]
  BY <1>1 DEF absStatus, Blocked, TypeOK
<1>4. absAwaits' = absAwaits
  BY <1>1 DEF absAwaits, Blocked, TypeOK
<1>5. absInbox' = absInbox
  BY <1>1 DEF absInbox, Live, TypeOK
<1> QED
  BY <1>1, <1>2, <1>3, <1>4, <1>5 DEF Promise!ANext, Promise!Create

(* Handing out a slice is invisible to programs. *)
LEMMA PickPromise == ASSUME IInv, Pick PROVE UNCHANGED Promise!avars
<1> USE DEF IInv
<1>1. /\ Head(runq) \in Pids /\ state[Head(runq)] = "RUNNABLE" /\ current = 0
      /\ \A p \in Pids : p # 0
  <2>1. Head(runq) \in Pids /\ state[Head(runq)] = "RUNNABLE"
    BY TailQueue DEF Pick, RunQueueExact, TypeOK
  <2> QED
    BY <2>1 DEF Pick, ControlInv, Pids
<1>2. absStatus' = absStatus /\ absAwaits' = absAwaits
  BY <1>1 DEF Pick, absStatus, absAwaits, Blocked, TypeOK
<1>3. absInbox' = absInbox /\ result' = result
  BY <1>1 DEF Pick, absInbox, Live, TypeOK
<1> QED
  BY <1>2, <1>3 DEF Promise!avars

(* A process that was marked blocked by a nested call only blocks here. *)
LEMMA EndSlicePromise == ASSUME IInv, EndSlice PROVE [Promise!ANext]_Promise!avars
<1> USE DEF IInv
<1>1. /\ current \in Pids /\ current # 0 /\ current' = 0 /\ \A p \in Pids : p # 0
      /\ state[current] \in {"RUNNING", "SLEEPING", "WAITING"}
      /\ UNCHANGED <<kind, waitPid, pending, resume, result>>
  BY SliceFacts DEF EndSlice, Pids
<1>2. CASE state[current] = "RUNNING"
  <2>1. state' = [state EXCEPT ![current] = "RUNNABLE"]
    BY <1>2 DEF EndSlice
  <2>2. absStatus' = absStatus /\ absAwaits' = absAwaits
    BY <1>1, <1>2, <2>1 DEF absStatus, absAwaits, Blocked, TypeOK
  <2>3. absInbox' = absInbox
    BY <1>1, <1>2, <2>1 DEF absInbox, Live, TypeOK
  <2> QED
    BY <1>1, <2>2, <2>3 DEF Promise!avars
<1>3. CASE state[current] # "RUNNING"
  <2>1. state' = state /\ Blocked(current) /\ pc = "slice"
    BY <1>1, <1>3 DEF EndSlice, Blocked
  <2> DEFINE q == IF kind[current] = "AWAIT" THEN waitPid[current] ELSE 0
  <2>2. q = 0 \/ (q \in Pids \ {current} /\ Live(q))
    BY <1>1, <2>1 DEF NoLostWakeup, WakeOwed, BlockInv
  <2>3. absStatus' = [absStatus EXCEPT ![current] = "blocked"]
    BY <1>1, <2>1 DEF absStatus, Blocked, TypeOK
  <2>4. absAwaits' = [absAwaits EXCEPT ![current] = q]
    BY <1>1, <2>1 DEF absAwaits, Blocked, TypeOK
  <2>5. absInbox' = absInbox
    BY <1>1, <2>1 DEF absInbox, Live
  <2>6. absStatus[current] = "ready"
    BY <1>1 DEF absStatus
  <2>7. q = 0 \/ absStatus[q] \in {"ready", "blocked"}
    BY <2>2 DEF absStatus, Live
  <2> HIDE DEF q
  <2>8. Promise!Wait(current, q)
    BY <1>1, <2>2, <2>3, <2>4, <2>5, <2>6, <2>7 DEF Promise!Wait, Promise!Unfinished
  <2> QED
    BY <1>1, <2>2, <2>8 DEF Promise!ANext
<1> QED
  BY <1>2, <1>3

(* The delivery of a wake value is a delivery of AsyncAwait. *)
LEMMA ResumePromise == ASSUME IInv, Resume PROVE Promise!ANext
<1> USE DEF IInv
<1>1. /\ current \in Pids /\ Live(current) /\ absStatus[current] = "ready"
  BY SliceFacts DEF Resume, AtBoundary, Live, absStatus
<1>2. absStatus' = absStatus /\ absAwaits' = absAwaits /\ result' = result
  BY DEF Resume, schedVars, absStatus, absAwaits, Blocked
<1>3. absInbox' = [absInbox EXCEPT ![current] = Null]
  BY <1>1 DEF Resume, schedVars, absInbox, Live, TypeOK
<1> QED
  BY <1>1, <1>2, <1>3 DEF Promise!ANext, Promise!Receive

(* A blocking command is a block or an await of AsyncAwait. *)
LEMMA BlockPromise == ASSUME IInv, NEW r \in Requests, Block(r) PROVE Promise!ANext
<1> USE DEF IInv
<1>1. /\ current \in Pids /\ current # 0 /\ current' = 0 /\ \A p \in Pids : p # 0
      /\ state[current] \in {"RUNNING", "SLEEPING", "WAITING"} /\ ~pending[current]
      /\ UNCHANGED <<resume, result>>
  BY SliceFacts DEF Block, Fetch, CountStep, AtBoundary, Pids
<1>2. /\ r.kind = "AWAIT" => r.pid \in Pids \ {current} /\ Live(r.pid)
      /\ Parked(r) \in {"SLEEPING", "WAITING"}
  BY RequestFacts DEF Block, Fetch, CountStep, AtBoundary, Parked
<1>3. /\ state' = [state EXCEPT ![current] = Parked(r)]
      /\ kind' = [kind EXCEPT ![current] = r.kind]
      /\ waitPid' = [waitPid EXCEPT ![current] = r.pid]
      /\ pending' = [pending EXCEPT ![current] = FALSE]
  BY DEF Block, BlockCurrent
<1> DEFINE q == IF r.kind = "AWAIT" THEN r.pid ELSE 0
<1>4. absStatus' = [absStatus EXCEPT ![current] = "blocked"]
  BY <1>1, <1>2, <1>3 DEF absStatus, Blocked, TypeOK
<1>5. absAwaits' = [absAwaits EXCEPT ![current] = q]
  BY <1>1, <1>2, <1>3 DEF absAwaits, Blocked, TypeOK
<1>6. absInbox' = absInbox
  BY <1>1, <1>2, <1>3 DEF absInbox, Live, TypeOK
<1>7. absStatus[current] = "ready"
  BY <1>1 DEF absStatus
<1>8. q = 0 \/ (q \in Pids \ {current} /\ absStatus[q] \in {"ready", "blocked"})
  BY <1>2 DEF absStatus, Live
<1> HIDE DEF q
<1>9. Promise!Wait(current, q)
  BY <1>1, <1>4, <1>5, <1>6, <1>7, <1>8 DEF Promise!Wait, Promise!Unfinished
<1> QED
  BY <1>1, <1>8, <1>9 DEF Promise!ANext

(* The mark of a nested call is not visible yet. *)
LEMMA TryBlockPromise ==
    ASSUME IInv, NEW r \in Requests, TryBlock(r) PROVE UNCHANGED Promise!avars
<1> USE DEF IInv
<1>1. /\ current \in Pids /\ current' = current /\ ~pending[current]
      /\ state[current] \in {"RUNNING", "SLEEPING", "WAITING"}
      /\ UNCHANGED <<resume, result>>
  BY SliceFacts DEF TryBlock, Fetch, CountStep, AtBoundary
<1>2. /\ state' = [state EXCEPT ![current] = Parked(r)]
      /\ kind' = [kind EXCEPT ![current] = r.kind]
      /\ waitPid' = [waitPid EXCEPT ![current] = r.pid]
      /\ pending' = [pending EXCEPT ![current] = FALSE]
      /\ Parked(r) \in {"SLEEPING", "WAITING"}
  BY DEF TryBlock, BlockCurrent, Parked
<1>3. absStatus' = absStatus /\ absAwaits' = absAwaits
  BY <1>1, <1>2 DEF absStatus, absAwaits, Blocked, TypeOK
<1>4. absInbox' = absInbox
  BY <1>1, <1>2 DEF absInbox, Live, TypeOK
<1> QED
  BY <1>1, <1>3, <1>4 DEF Promise!avars

(* HALT, an error and a suspension inside eval all finish the process. *)
LEMMA FinishPromise ==
    ASSUME IInv, pc = "slice", ~pending[current], ZombifyCurrent,
           state' = [state EXCEPT ![current] = "ZOMBIE"],
           \A p \in Pids \ {current} :
               kind'[p] = kind[p] /\ waitPid'[p] = waitPid[p] /\ pending'[p] = pending[p],
           resume' = resume
    PROVE  Promise!ANext
<1> USE DEF IInv
<1>0. current \in Pids /\ state[current] \in {"RUNNING", "SLEEPING", "WAITING"}
  BY SliceFacts
<1>1. /\ current \in Pids /\ current # 0 /\ current' = 0 /\ \A p \in Pids : p # 0
      /\ state[current] \in {"RUNNING", "SLEEPING", "WAITING"}
      /\ result' = [result EXCEPT ![current] = reg[current]]
      /\ reg[current] \in Register
  <2>1. /\ current' = 0 /\ result' = [result EXCEPT ![current] = reg[current]]
    BY DEF ZombifyCurrent
  <2>2. reg[current] \in Register
    BY <1>0 DEF TypeOK
  <2>3. \A p \in Pids : p # 0
    BY DEF Pids
  <2> QED
    BY <1>0, <2>1, <2>2, <2>3
<1>2. absStatus' = [absStatus EXCEPT ![current] = "done"]
  BY <1>1 DEF absStatus, Blocked, TypeOK
<1>3. absAwaits' = absAwaits
  BY <1>1 DEF absAwaits, Blocked, TypeOK
<1>4. absInbox' = absInbox
  BY <1>1 DEF absInbox, Live, TypeOK
<1>5. absStatus[current] = "ready"
  BY <1>1 DEF absStatus
<1> QED
  BY <1>1, <1>2, <1>3, <1>4, <1>5 DEF Promise!ANext, Promise!Finish

(* sched_wake hands a blocked process the value it was waiting for. *)
LEMMA WakePromise ==
    ASSUME IInv, current = 0, NEW p \in Pids, NEW v \in Register, Blocked(p), Wake(p, v),
           UNCHANGED <<waitPid, result, current>>,
           kind[p] = "AWAIT" => /\ waitPid[p] \in Pids /\ state[waitPid[p]] = "ZOMBIE"
                                /\ v = result[waitPid[p]]
    PROVE  Promise!ANext
<1> USE DEF IInv
<1>1. /\ \A o \in Pids : o # 0
      /\ resume' = [resume EXCEPT ![p] = v] /\ pending' = [pending EXCEPT ![p] = TRUE]
      /\ kind' = [kind EXCEPT ![p] = "NONE"] /\ state' = [state EXCEPT ![p] = "RUNNABLE"]
      /\ state[p] \in {"SLEEPING", "WAITING"}
  BY DEF Wake, Pids, Blocked
<1>2. absStatus[p] = "blocked" /\ absStatus' = [absStatus EXCEPT ![p] = "ready"]
  BY <1>1 DEF absStatus, Blocked, TypeOK
<1>3. absAwaits' = [absAwaits EXCEPT ![p] = 0]
  BY <1>1 DEF absAwaits, Blocked, TypeOK
<1>4. absInbox' = [absInbox EXCEPT ![p] = v]
  BY <1>1 DEF absInbox, Live, TypeOK
<1>5. \/ absAwaits[p] = 0
      \/ /\ absAwaits[p] \in Pids /\ absStatus[absAwaits[p]] = "done"
         /\ v = result[absAwaits[p]]
  BY <1>1 DEF absAwaits, absStatus
<1> QED
  BY <1>2, <1>3, <1>4, <1>5 DEF Promise!ANext, Promise!Unblock, Promise!Joined

(* Freeing the process table is the end of every AsyncAwait process. *)
LEMMA QuitPromise == ASSUME Quit PROVE Promise!ANext
BY DEF Quit, Promise!ANext, Promise!Teardown, absStatus, absAwaits, absInbox, Blocked, Live

-----------------------------------------------------------------------------
(* Every step of the scheduler is a step of AsyncAwait or invisible. *)
LEMMA StepPromise == ASSUME IInv, [Next]_vars PROVE [Promise!ANext]_Promise!avars
<1>1. CASE SpawnMain
  BY <1>1, SpawnPromise DEF SpawnMain
<1>2. CASE Async
  BY <1>2, SpawnPromise DEF Async, Fetch, CountStep, AtBoundary
<1>3. CASE (\E v \in Values : Set(v)) \/ Yield \/ (\E q \in Pids : AwaitFinished(q))
  BY <1>3, Invisible DEF Set, Yield, AwaitFinished
<1>4. CASE Fail \/ StepLimit \/ Halt
  BY <1>4, FinishPromise DEF Fail, StepLimit, Halt, Fetch, CountStep, AtBoundary
<1>5. CASE \E r \in Requests : Block(r) \/ TryBlock(r)
  BY <1>5, BlockPromise, TryBlockPromise
<1>6. CASE \E r \in Requests : EvalBlock(r)
  <2>1. PICK r \in Requests : EvalBlock(r)
    BY <1>6
  <2>2. /\ pc = "slice" /\ ~pending[current] /\ ZombifyCurrent
        /\ state' = [state EXCEPT ![current] = "ZOMBIE"] /\ resume' = resume
        /\ kind' = [kind EXCEPT ![current] = r.kind]
        /\ waitPid' = [waitPid EXCEPT ![current] = r.pid]
        /\ pending' = [pending EXCEPT ![current] = FALSE]
    BY <2>1 DEF EvalBlock, BlockCurrent, Fetch, CountStep, AtBoundary
  <2>3. \A p \in Pids \ {current} :
           kind'[p] = kind[p] /\ waitPid'[p] = waitPid[p] /\ pending'[p] = pending[p]
    BY <2>2 DEF IInv, TypeOK
  <2> QED
    BY <2>2, <2>3, FinishPromise
<1>7. CASE Pick \/ EndSlice \/ Resume
  BY <1>7, PickPromise, EndSlicePromise, ResumePromise
<1>8. CASE WakeAwaiter
  <2>1. PICK p \in Pids : Awaits(p, waking) /\ Wake(p, result[waking])
    BY <1>8 DEF WakeAwaiter
  <2>2. /\ waking \in Pids /\ state[waking] = "ZOMBIE" /\ current = 0
        /\ result[waking] \in Register /\ UNCHANGED <<waitPid, result, current>>
    BY <1>8, BoundsAssumption DEF WakeAwaiter, IInv, ControlInv, TypeOK, Pids
  <2> QED
    BY <2>1, <2>2, WakePromise DEF Awaits, Blocked
<1>9. CASE \E e \in fired : HandOut(e)
  <2>1. PICK e \in fired : HandOut(e)
    BY <1>9
  <2>2. /\ current = 0 /\ UNCHANGED <<waitPid, result, current>>
        /\ e \in Registered /\ e.owner \in Pids /\ e.token \in Tokens
    BY <2>1 DEF HandOut, IInv, ControlInv, Registered, TypeOK, Event
  <2>3. CASE Current(e)
    <3>1. Blocked(e.owner) /\ kind[e.owner] # "AWAIT" /\ Wake(e.owner, WakeValue(e))
      BY <2>1, <2>2, <2>3 DEF IInv, BlockInv, Current, HandOut, Tokens
    <3>2. WakeValue(e) \in Register
      BY <2>2, DataAssumption DEF WakeValue, Register, IInv, TypeOK
    <3> QED
      BY <2>2, <3>1, <3>2, WakePromise
  <2>4. CASE ~Current(e)
    BY <2>1, <2>4, Invisible DEF HandOut
  <2> QED
    BY <2>3, <2>4
<1>10. CASE ZombifyDone \/ ReturnAllDone \/ ReturnBackground \/ ReturnDeadlock \/ Dispatch
  BY <1>10, Invisible DEF ZombifyDone, ReturnAllDone, ReturnBackground, ReturnDeadlock, Return,
     Dispatch, procVars
<1>11. CASE Quit
  BY <1>11, QuitPromise
<1>12. CASE World \/ Halted \/ UNCHANGED vars
  BY <1>12, Invisible DEF World, Tick, ChildExit, FdChange, Halted, procVars, schedVars, vars
<1> QED
  BY <1>1, <1>2, <1>3, <1>4, <1>5, <1>6, <1>7, <1>8, <1>9, <1>10, <1>11, <1>12
     DEF Next, Loop, Instruction

(* The scheduler with its run queue, event queue, slices and nested calls  *)
(* implements async and await: no process is unblocked early, none         *)
(* receives another process's result, none restarts once it is done.       *)
THEOREM SchedulerKeepsPromise == Spec => KeepsPromise
<1>1. Init => Promise!AInit
  BY InitPromise
<1>2. IInv /\ [Next]_vars => [Promise!ANext]_Promise!avars
  BY StepPromise
<1> QED
  BY <1>1, <1>2, SchedulerInvariant, PTL DEF Spec, KeepsPromise, Promise!ASpec

=============================================================================
