----------------------------- MODULE AsyncAwait -----------------------------
(***************************************************************************)
(* What async, await and the blocking commands promise a USSR program,     *)
(* with no run queue, event queue, time slice or token: a process is       *)
(* created once, is ready, blocked or done, is only unblocked by the end   *)
(* of the process it awaits (and then holds exactly that process's result) *)
(* or by an event of its own, and keeps its result once it is done.        *)
(***************************************************************************)
EXTENDS Integers

CONSTANTS Procs,    \* process ids
          Results,  \* what a process can return or receive
          NoResult  \* nothing received

VARIABLES status,  \* "absent", "ready", "blocked" or "done"
          result,  \* the result of a process that is done
          awaits,  \* what a blocked process awaits; 0 is an event of its own
          inbox    \* what an unblocked process has yet to receive

avars == <<status, result, awaits, inbox>>

Unfinished(p) == status[p] \in {"ready", "blocked"}

AInit == /\ status = [p \in Procs |-> "absent"]
         /\ result = [p \in Procs |-> NoResult]
         /\ awaits = [p \in Procs |-> 0]
         /\ inbox = [p \in Procs |-> NoResult]

Create(p) == /\ status[p] = "absent"
             /\ status' = [status EXCEPT ![p] = "ready"]
             /\ UNCHANGED <<result, awaits, inbox>>

(* A process never waits for itself, nor for one that is already done. *)
Wait(p, q) == /\ status[p] = "ready"
              /\ q = 0 \/ (q \in Procs \ {p} /\ Unfinished(q))
              /\ status' = [status EXCEPT ![p] = "blocked"]
              /\ awaits' = [awaits EXCEPT ![p] = q]
              /\ UNCHANGED <<result, inbox>>

Joined(p) == awaits[p] \in Procs /\ status[awaits[p]] = "done"

Unblock(p, v) == /\ status[p] = "blocked"
                 /\ awaits[p] = 0 \/ (Joined(p) /\ v = result[awaits[p]])
                 /\ status' = [status EXCEPT ![p] = "ready"]
                 /\ awaits' = [awaits EXCEPT ![p] = 0]
                 /\ inbox' = [inbox EXCEPT ![p] = v]
                 /\ UNCHANGED result

Receive(p) == /\ status[p] = "ready"
              /\ inbox' = [inbox EXCEPT ![p] = NoResult]
              /\ UNCHANGED <<status, result, awaits>>

Finish(p, v) == /\ status[p] = "ready"
                /\ status' = [status EXCEPT ![p] = "done"]
                /\ result' = [result EXCEPT ![p] = v]
                /\ UNCHANGED <<awaits, inbox>>

(* The interpreter exits: the table is gone. *)
Teardown == /\ status' = [p \in Procs |-> "absent"]
            /\ awaits' = [p \in Procs |-> 0]
            /\ inbox' = [p \in Procs |-> NoResult]
            /\ UNCHANGED result

ANext == \/ \E p \in Procs : Create(p) \/ Receive(p)
         \/ \E p \in Procs, q \in Procs \cup {0} : Wait(p, q)
         \/ \E p \in Procs, v \in Results : Unblock(p, v) \/ Finish(p, v)
         \/ Teardown

ASpec == AInit /\ [][ANext]_avars

=============================================================================
