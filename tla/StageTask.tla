------------------------------ MODULE StageTask ------------------------------
(***************************************************************************)
(* What the lease protocol promises about a stage assignment, with leases, *)
(* clocks, worker registry and locks left out: a task is offered, runs     *)
(* under one worker at a time, and every run of it uses up one try.  A run *)
(* that is lost either comes back as the next try or, when the tries are   *)
(* used up, ends the task.  AssignmentLease implements this specification. *)
(***************************************************************************)
EXTENDS Naturals

CONSTANTS
    Task,         \* stage assignments
    Worker,       \* workers that may run them
    Nobody,       \* the holder of a task that is not running
    MaxTries,     \* workflow_stages.max_attempts
    MaxNumber     \* the highest number a task's first try may have

VARIABLE task     \* task[t]: the phase, the holder and the try of task t

Phase == {"absent", "offered", "running", "settled", "exhausted"}

State == [phase : Phase, holder : Worker \cup {Nobody}, try : Nat]

\* A task nobody has asked for yet.
Unborn == [phase |-> "absent", holder |-> Nobody, try |-> 0]

Offered(k) == [phase |-> "offered", holder |-> Nobody, try |-> k]

Running(w, k) == [phase |-> "running", holder |-> w, try |-> k]

Init == task = [t \in Task |-> Unborn]

-----------------------------------------------------------------------------
\* The moves of one task, as relations between its state before and after.

Offer(s, t) == s = Unborn /\ \E k \in 1..MaxNumber : t = Offered(k)

\* A push dispatch offers and starts in one step.
OfferRunning(s, t) ==
    s = Unborn /\ \E w \in Worker, k \in 1..MaxNumber : t = Running(w, k)

Start(s, t) ==
    s.phase = "offered" /\ \E w \in Worker : t = Running(w, s.try)

\* The holder is gone: the next try is offered to everybody.
Lose(s, t) ==
    s.phase = "running" /\ s.try < MaxTries /\ t = Offered(s.try + 1)

\* The holder is gone and that was the last try.
Exhaust(s, t) ==
    /\ s.phase = "running" /\ s.try >= MaxTries
    /\ t = [phase |-> "exhausted", holder |-> Nobody, try |-> s.try]

\* The holder delivers its one result.
Settle(s, t) == s.phase = "running" /\ t = [s EXCEPT !.phase = "settled"]

Move(s, t) ==
    \/ Offer(s, t) \/ OfferRunning(s, t) \/ Start(s, t)
    \/ Lose(s, t)  \/ Exhaust(s, t)      \/ Settle(s, t)

\* One transaction may move several tasks (a worker's whole holdings).
Next ==
    /\ task' = [t \in Task |-> task'[t]]
    /\ \A t \in Task : task'[t] = task[t] \/ Move(task[t], task'[t])

Spec == Init /\ [][Next]_task

=============================================================================
