--------------------------- MODULE AssignmentLease ---------------------------
(***************************************************************************)
(* The server side of the worker protocol: stage_assignments rows, the     *)
(* worker registry and the maintenance loop that recovers lost leases.     *)
(*                                                                         *)
(* Every HTTP handler locks the worker row, then the assignment row, and   *)
(* commits once: it is one action here.  The maintenance tick locks the    *)
(* expired assignment rows FIRST and their workers' rows after, so another *)
(* handler can commit between the two: that tick is a Select step, which   *)
(* leaves the rows in `locked`, and a Commit or an Abort step.             *)
(*                                                                         *)
(* Clocks are differences from the server clock: `left` is                 *)
(* lease_expires_at - now, `tenure` is now - lease_started_at and `age` is *)
(* now - last_heartbeat_at, each kept only as far as the code compares it. *)
(* Requests may come from any worker at any time; what the reference       *)
(* worker sends, and when, is the module WorkerProtocol.                   *)
(***************************************************************************)
EXTENDS Integers, FiniteSets

CONSTANTS
    Assignment,       \* ids of stage_assignments rows
    Worker,           \* provisioned workers
    Nobody,           \* worker_id IS NULL
    MaxAttempts,      \* workflow_stages.max_attempts
    MaxNumber,        \* bound on the attempt number of a new row: the scheduler
                      \* counts postponed dispatches as attempts
    LeaseSeconds,     \* assignment_lease_seconds
    MaxLeaseSeconds,  \* assignment_max_lease_seconds
    OfflineAfter,     \* worker_offline_after_seconds
    MaxConcurrency,   \* worker_registry.max_concurrency
    Drainable         \* bound: the workers an admin drains, or stops draining

ASSUME LeaseAssumption ==
    /\ IsFiniteSet(Assignment)
    /\ Nobody \notin Worker
    /\ MaxAttempts \in Nat \ {0}
    /\ MaxNumber \in Nat /\ MaxAttempts <= MaxNumber
    /\ LeaseSeconds \in Nat \ {0}
    /\ MaxLeaseSeconds \in Nat /\ LeaseSeconds <= MaxLeaseSeconds
    /\ OfflineAfter \in Nat \ {0}
    /\ MaxConcurrency \in Nat \ {0}
    /\ Drainable \subseteq Worker

VARIABLES
    row,      \* row[a]: the assignment row a
    reg,      \* reg[w]: the registry row of worker w
    effects,  \* assignments with a row in provider_effect_keys
    locked    \* assignment rows locked by a maintenance tick in progress

vars == <<row, reg, effects, locked>>

-----------------------------------------------------------------------------
InFlightStatus == {"dispatched", "acknowledged"}

RowStatus == InFlightStatus \cup {"absent", "pending", "completed", "failed"}

WorkerStatus == {"online", "busy", "draining", "offline"}

\* `starts`, `reports` and `passed` are history: how often the row was handed
\* to a worker, how often its outcome was handed to the controller, and
\* whether a reap of its holder passed over its live lease.  `barred`: another
\* row of the same run and stage has the idempotency key of its next attempt.
Row == [status  : RowStatus,
        owner   : Worker \cup {Nobody},
        attempt : 0..MaxNumber,
        left    : -1..LeaseSeconds,
        tenure  : 0..MaxLeaseSeconds,
        starts  : Nat,
        reports : Nat,
        passed  : BOOLEAN,
        barred  : BOOLEAN]

Registration == [status : WorkerStatus,
                 load   : 0..MaxConcurrency,
                 drain  : BOOLEAN,
                 gone   : BOOLEAN,               \* deregistered_at IS NOT NULL
                 age    : 0..(OfflineAfter + 1)]

TypeOK ==
    /\ row \in [Assignment -> Row]
    /\ reg \in [Worker -> Registration]
    /\ effects \subseteq Assignment
    /\ locked \subseteq Assignment

NoRow == [status |-> "absent", owner |-> Nobody, attempt |-> 0, left |-> 0,
          tenure |-> 0, starts |-> 0, reports |-> 0, passed |-> FALSE, barred |-> FALSE]

\* provision_worker: offline, no load, never heard from.
Provisioned == [status |-> "offline", load |-> 0, drain |-> FALSE,
                gone |-> FALSE, age |-> OfflineAfter + 1]

Init ==
    /\ row = [a \in Assignment |-> NoRow]
    /\ reg = [w \in Worker |-> Provisioned]
    /\ effects = {}
    /\ locked = {}

InFlight(r) == r.status \in InFlightStatus

\* Mutant of Expired: the reaper forgets acknowledged rows.
ExpiredUnacknowledged(r) == r.status = "dispatched" /\ r.left < 0

Expired(r) == InFlight(r) /\ r.left < 0

Holdings(w) == {a \in Assignment : InFlight(row[a]) /\ row[a].owner = w}

-----------------------------------------------------------------------------
\* Recovery (recovery.py).

\* Mutant of Recovered: a lost attempt is free, and the row keeps its number.
RecoveredForFree(r) ==
    [status |-> "pending", owner |-> Nobody, attempt |-> r.attempt, left |-> 0, tenure |-> 0,
     starts |-> r.starts, reports |-> r.reports, passed |-> FALSE, barred |-> FALSE]

\* Mutant of Recovered: the last attempt is requeued as well.
RecoveredOnceMore(r) ==
    [status |-> "pending", owner |-> Nobody, attempt |-> r.attempt + 1, left |-> 0,
     tenure |-> 0, starts |-> r.starts, reports |-> r.reports, passed |-> FALSE,
     barred |-> FALSE]

\* recover_assignment on an in-flight row: the attempt is used up; the row
\* goes back to the pool as the next attempt, or to the dead-letter queue
\* with its run failed when there is no next attempt.
Recovered(r) ==
    LET last == r.attempt + 1 > MaxAttempts
    IN  [status  |-> IF last THEN "failed" ELSE "pending",
         owner   |-> Nobody,
         attempt |-> IF last THEN r.attempt ELSE r.attempt + 1,
         left    |-> 0,
         tenure  |-> 0,
         starts  |-> r.starts,
         reports |-> IF last THEN r.reports + 1 ELSE r.reports,
         passed  |-> FALSE,
         barred  |-> FALSE]

PassedOver(r) == [r EXCEPT !.passed = r.left >= 0]

\* The rows S are recovered and the rows P passed over.  The next attempt's
\* key is unique: while another row has it, the transaction raises.
Recover(S, P) ==
    /\ \A a \in S : ~row[a].barred
    /\ row' = [a \in Assignment |->
                  IF a \in S THEN Recovered(row[a])
                  ELSE IF a \in P THEN PassedOver(row[a]) ELSE row[a]]

\* A registry row with another status and load.
WithLoad(g, status, load) ==
    [status |-> status, load |-> load, drain |-> g.drain, gone |-> g.gone, age |-> g.age]

\* _release_worker_slot, n times: the load never goes below zero, and a busy
\* worker that has room again is online again.
SlotsReleased(g, n) ==
    LET load == IF g.load > n THEN g.load - n ELSE 0
        room == n > 0 /\ g.status = "busy" /\ load < MaxConcurrency
    IN  WithLoad(g, IF room THEN "online" ELSE g.status, load)

\* The slot a worker takes when a row is handed to it.
SlotTaken(g) ==
    WithLoad(g, IF g.load + 1 >= MaxConcurrency THEN "busy" ELSE g.status, g.load + 1)

\* Mutant of Reapable: acknowledged rows are left to the lease reaper.
ReapableUnacknowledged(w) == {a \in Holdings(w) \ locked : row[a].status = "dispatched"}

\* reap_worker_assignments: SKIP LOCKED leaves out what a tick has locked.
Reapable(w) == Holdings(w) \ locked

Held(W) == UNION {Reapable(w) : w \in W}

\* It leaves out what a request has locked as well: the handlers lock the row
\* they name before they refuse it to a worker that does not own it.
\* Requests of the workers W themselves wait, for their registry row is locked.
Disputable(W) ==
    IF \E v \in Worker \ W : ~reg[v].gone THEN Held(W) ELSE {}

\* What the workers W hold is recovered together with the rows R.
Reap(W, R) ==
    \E P \in SUBSET Disputable(W) : Recover(R \cup (Held(W) \ P), P)

-----------------------------------------------------------------------------
\* The scheduler hands over work (dispatch_stage).

\* The row as it is inserted, before it is anybody's.
Created(k) ==
    [status |-> "pending", owner |-> Nobody, attempt |-> k, left |-> 0, tenure |-> 0,
     starts |-> 0, reports |-> 0, passed |-> FALSE, barred |-> FALSE]

\* No worker could be selected: the new row waits to be claimed.
Enqueue(a, k) ==
    /\ row[a].status = "absent"
    /\ row' = [row EXCEPT ![a] = Created(k)]
    /\ UNCHANGED <<reg, effects, locked>>

\* select_worker asks nothing of the heartbeat and takes a busy worker with
\* room; the row starts out dispatched.
Selectable(g) ==
    /\ g.status \in {"online", "busy"}
    /\ ~g.drain /\ ~g.gone
    /\ g.load < MaxConcurrency

Granted(r, w) ==
    [status |-> "dispatched", owner |-> w, attempt |-> r.attempt, left |-> LeaseSeconds,
     tenure |-> 0, starts |-> r.starts + 1, reports |-> r.reports, passed |-> FALSE,
     barred |-> FALSE]

Dispatch(a, k, w) ==
    /\ row[a].status = "absent"
    /\ Selectable(reg[w])
    /\ row' = [row EXCEPT ![a] = Granted(Created(k), w)]
    /\ reg' = [reg EXCEPT ![w] = SlotTaken(reg[w])]
    /\ UNCHANGED <<effects, locked>>

\* The retry button schedules an attempt of the same run and stage by the
\* number on a dead letter or a failed row; when that attempt is put in the
\* table its row may have the key this one needs next, until it is recovered
\* itself and its key moves on.
Sibling(a) ==
    /\ InFlight(row[a]) /\ row[a].attempt + 1 <= MaxAttempts
    /\ row' = [row EXCEPT ![a].barred = ~@]
    /\ UNCHANGED <<reg, effects, locked>>

-----------------------------------------------------------------------------
\* Worker endpoints (api/routes/workers.py).

Register(w) ==
    /\ Reap({w}, {})
    /\ reg' = [reg EXCEPT ![w] = [status |-> "online", load |-> 0, drain |-> reg[w].drain,
                                 gone |-> FALSE, age |-> 0]]
    /\ UNCHANGED <<effects, locked>>

\* The worker's own view of its load replaces the server's.
Heartbeat(w, status, load) ==
    /\ ~reg[w].gone
    /\ load <= MaxConcurrency
    /\ reg' = [reg EXCEPT ![w] = [status |-> status, load |-> load, drain |-> reg[w].drain,
                                 gone |-> FALSE, age |-> 0]]
    /\ UNCHANGED <<row, effects, locked>>

Deregister(w) ==
    /\ ~reg[w].gone
    /\ Reap({w}, {})
    /\ reg' = [reg EXCEPT ![w] = [status |-> "offline", load |-> 0, drain |-> reg[w].drain,
                                 gone |-> TRUE, age |-> reg[w].age]]
    /\ UNCHANGED <<effects, locked>>

\* claim_assignment up to the candidate query.
Eligible(g) ==
    /\ ~g.drain /\ ~g.gone
    /\ g.status = "online"
    /\ g.age < OfflineAfter
    /\ g.load < MaxConcurrency

\* Any pending row may be the candidate: priority, provider budget and spend
\* decide which one, and whether the claim is refused.
Claim(w, a) ==
    /\ Eligible(reg[w])
    /\ row[a].status = "pending"
    /\ row' = [row EXCEPT ![a] = Granted(row[a], w)]
    /\ reg' = [reg EXCEPT ![w] = SlotTaken(reg[w])]
    /\ UNCHANGED <<effects, locked>>

\* assert_lease_extendable
Extendable(r, w) ==
    /\ r.owner = w
    /\ InFlight(r)
    /\ r.left >= 0
    /\ r.tenure + LeaseSeconds <= MaxLeaseSeconds

\* The lease runs LeaseSeconds from now on; the tenure goes on.
Extended(r, status) ==
    [status |-> status, owner |-> r.owner, attempt |-> r.attempt, left |-> LeaseSeconds,
     tenure |-> r.tenure, starts |-> r.starts, reports |-> r.reports, passed |-> r.passed,
     barred |-> r.barred]

\* Ack also reserves the provider effect key before the worker's side effects.
Ack(w, a) ==
    /\ ~reg[w].gone /\ a \notin locked
    /\ Extendable(row[a], w)
    /\ row[a].status = "dispatched"
    /\ row' = [row EXCEPT ![a] = Extended(row[a], "acknowledged")]
    /\ effects' = effects \cup {a}
    /\ UNCHANGED <<reg, locked>>

Renew(w, a) ==
    /\ ~reg[w].gone /\ a \notin locked
    /\ Extendable(row[a], w)
    /\ row' = [row EXCEPT ![a] = Extended(row[a], row[a].status)]
    /\ UNCHANGED <<reg, effects, locked>>

\* Mutant of Accepts: the status is not looked at.
AcceptsAgain(r, w) == r.owner = w /\ r.left >= 0

\* submit_result: what it accepts depends on the row's owner, status and lease
\* only; the request names neither the attempt nor the claim it answers.
Accepts(r, w) == r.owner = w /\ InFlight(r) /\ r.left >= 0

Delivered(r, success) ==
    [status |-> IF success THEN "completed" ELSE "failed", owner |-> r.owner,
     attempt |-> r.attempt, left |-> 0, tenure |-> 0, starts |-> r.starts,
     reports |-> r.reports + 1, passed |-> FALSE, barred |-> FALSE]

Submit(w, a, success) ==
    /\ ~reg[w].gone /\ a \notin locked
    /\ Accepts(row[a], w)
    /\ row' = [row EXCEPT ![a] = Delivered(row[a], success)]
    /\ reg' = [reg EXCEPT ![w] = SlotsReleased(reg[w], IF reg[w].load > 0 THEN 1 ELSE 0)]
    /\ effects' = effects \cup {a}
    /\ UNCHANGED locked

-----------------------------------------------------------------------------
\* Admin endpoints.

SetDrain(w, drain) ==
    /\ reg' = [reg EXCEPT ![w].drain = drain]
    /\ UNCHANGED <<row, effects, locked>>

\* revoke_worker_credentials: the credentials themselves are not modelled here.
Revoke(w) ==
    /\ Reap({w}, {})
    /\ reg' = IF reg[w].gone THEN reg
              ELSE [reg EXCEPT ![w] = WithLoad(reg[w], "offline", 0)]
    /\ UNCHANGED <<effects, locked>>

-----------------------------------------------------------------------------
\* The maintenance tick (main.py), run by any number of API replicas: their
\* SKIP LOCKED queries partition the expired rows among them.

Stale(g) == ~g.gone /\ g.status # "offline" /\ g.age > OfflineAfter

TickSelect(R) ==
    /\ R # {} /\ R \cap locked = {}
    /\ \A a \in R : Expired(row[a])
    /\ locked' = locked \cup R
    /\ UNCHANGED <<row, reg, effects>>

\* A tick marks the stale workers S offline and recovers what they hold,
\* recovers the expired rows R it has locked, and commits all of it at once.
TickCommit(S, R) ==
    /\ S # {} \/ R # {}
    /\ R \subseteq locked
    /\ \A w \in S : Stale(reg[w])
    /\ Reap(S, R)
    /\ reg' = [w \in Worker |->
                  IF w \in S THEN WithLoad(reg[w], "offline", 0)
                  ELSE SlotsReleased(reg[w], Cardinality(Holdings(w) \cap R))]
    /\ locked' = locked \ R
    /\ UNCHANGED effects

\* A deadlock victim, a lost connection or an API restart: nothing happened.
TickAbort(R) ==
    /\ R # {} /\ R \subseteq locked
    /\ locked' = locked \ R
    /\ UNCHANGED <<row, reg, effects>>

\* One unit of server time; the lease and heartbeat clocks saturate where
\* the code stops telling values apart.
Aged(r) ==
    [status |-> r.status, owner |-> r.owner, attempt |-> r.attempt,
     left   |-> IF r.left >= 0 THEN r.left - 1 ELSE r.left,
     tenure |-> IF r.tenure < MaxLeaseSeconds THEN r.tenure + 1 ELSE r.tenure,
     starts |-> r.starts, reports |-> r.reports, passed |-> r.passed /\ r.left > 0,
     barred |-> r.barred]

Tick ==
    /\ row' = [a \in Assignment |->
                  IF InFlight(row[a]) THEN Aged(row[a]) ELSE row[a]]
    /\ reg' = [w \in Worker |-> [reg[w] EXCEPT !.age = IF @ <= OfflineAfter THEN @ + 1 ELSE @]]
    /\ UNCHANGED <<effects, locked>>

-----------------------------------------------------------------------------
Scheduler ==
    \E a \in Assignment :
        \/ \E k \in 1..MaxNumber : Enqueue(a, k) \/ \E w \in Worker : Dispatch(a, k, w)
        \/ Sibling(a)

Endpoint(w) ==
    \/ Register(w)
    \/ \E status \in WorkerStatus \ {"offline"}, load \in 0..MaxConcurrency :
           Heartbeat(w, status, load)
    \/ Deregister(w)
    \/ \E a \in Assignment :
           Claim(w, a) \/ Ack(w, a) \/ Renew(w, a) \/ \E s \in BOOLEAN : Submit(w, a, s)

Admin(w) ==
    \/ Revoke(w)
    \/ w \in Drainable /\ \E drain \in BOOLEAN : SetDrain(w, drain)

Maintenance ==
    \E R \in SUBSET Assignment :
        \/ TickSelect(R)
        \/ \E S \in SUBSET Worker : TickCommit(S, R)
        \/ TickAbort(R)

Next ==
    \/ Scheduler
    \/ \E w \in Worker : Endpoint(w) \/ Admin(w)
    \/ Maintenance
    \/ Tick

Spec == Init /\ [][Next]_vars

\* A tick recovers everything that is due in one transaction: it raises, and
\* recovers nothing, while the next key of one of these rows is taken.
Obstructed ==
    \E a \in Assignment :
        /\ InFlight(row[a]) /\ row[a].barred
        /\ Expired(row[a]) \/ Stale(reg[row[a].owner])

\* The tick is a loop that survives every exception, so it runs again and
\* again; it is a deadlock victim only while a handler of the same worker
\* runs at the same moment.  Nothing is assumed of it when it is obstructed
\* again and again.
Fairness ==
    /\ WF_vars(Tick)
    /\ \A a \in Assignment :
        /\ WF_vars(\E R \in SUBSET Assignment : a \in R /\ TickSelect(R))
        /\ \/ []<>Obstructed
           \/ SF_vars(\E S \in SUBSET Worker, R \in SUBSET Assignment :
                          a \in R /\ TickCommit(S, R))

FairSpec == Spec /\ Fairness

-----------------------------------------------------------------------------
\* Properties.

\* recovery.py:37-51: max_attempts bounds the number of STARTS of a row, over
\* claims, push dispatches, lease expiries, restarts and revocations together:
\* every start uses up an attempt of its own.
StartsWithinAttempts ==
    \A a \in Assignment :
        /\ row[a].starts <= row[a].attempt /\ row[a].starts <= MaxAttempts
        /\ row[a].status = "pending" => row[a].starts < row[a].attempt

\* The controller hears of each row's outcome once: from the accepted submit
\* or from the recovery that found no attempt left, never from both and never
\* twice, whatever late submits and concurrent ticks do.
ReportedOnce ==
    \A a \in Assignment :
        row[a].reports = IF row[a].status \in {"completed", "failed"} THEN 1 ELSE 0

\* A row belongs to a worker exactly while it is in flight or was delivered by
\* that worker; a row in the pool belongs to nobody.
OwnedWhileInFlight ==
    \A a \in Assignment :
        /\ InFlight(row[a]) \/ row[a].status = "completed" => row[a].owner \in Worker
        /\ row[a].status \in {"absent", "pending"} => row[a].owner = Nobody

\* A worker that is offline or deregistered keeps no live lease but on a row
\* that its reap found locked by a request of another worker: all else it can
\* still own is an expired row that some tick had locked.
NoLiveLeaseWithoutWorker ==
    \A a \in Assignment, w \in Worker :
        InFlight(row[a]) /\ row[a].owner = w /\ (reg[w].status = "offline" \/ reg[w].gone)
            => Expired(row[a]) \/ row[a].passed

\* docs/M4_WS1_DESIGN.md:124: a deregistered worker is offline with no load,
\* and the rows it holds all the same are those its reap could not lock.
DeregisteredIsIdle ==
    \A w \in Worker : reg[w].gone =>
        /\ reg[w].status = "offline" /\ reg[w].load = 0
        /\ \A a \in Holdings(w) : Expired(row[a]) \/ row[a].passed

\* However often it is acknowledged and renewed, a live lease never reaches
\* beyond MaxLeaseSeconds after the row was handed over.
LeaseWithinTenure ==
    \A a \in Assignment :
        InFlight(row[a]) /\ row[a].left >= 0
            => row[a].tenure + row[a].left <= MaxLeaseSeconds

\* What a tick has locked is still in flight and expired when the tick commits.
LockedStaysExpired == \A a \in locked : Expired(row[a])

\* The rows go through the life that StageTask promises.
Phase(s) ==
    CASE s = "pending" -> "offered"
      [] s \in InFlightStatus -> "running"
      [] OTHER -> s

TaskOf(r) ==
    [phase  |-> IF r.status \in {"completed", "failed"}
                THEN IF r.owner = Nobody THEN "exhausted" ELSE "settled"
                ELSE Phase(r.status),
     holder |-> r.owner,
     try    |-> r.attempt]

Task == INSTANCE StageTask WITH
            Task <- Assignment, MaxTries <- MaxAttempts, MaxNumber <- MaxNumber,
            task <- [a \in Assignment |-> TaskOf(row[a])]

ImplementsStageTask == Task!Spec

\* No worker keeps a row for ever: each hold of a row under an attempt ends,
\* by a result or by recovery, even when its worker renews whenever it can,
\* was passed over, or is gone; only a taken key can hold recovery up.
EveryHoldEnds ==
    \A a \in Assignment : \A k \in 1..MaxNumber :
        (InFlight(row[a]) /\ row[a].attempt = k)
            ~> (\/ ~(InFlight(row[a]) /\ row[a].attempt = k)
                \/ Obstructed)

=============================================================================
