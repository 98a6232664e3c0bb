------------------------------ MODULE RunControl ------------------------------
(***************************************************************************)
(* One pipeline run from start_run to its end: the controller that moves   *)
(* it from stage to stage, the scheduler's jobs that ask for a stage to be *)
(* dispatched, the assignments that carry it out, the review gates it      *)
(* waits at, and the dead letters of what was given up.                    *)
(*                                                                         *)
(* Whoever moves the run holds the lock of a job, an assignment or a gate, *)
(* so a transaction is one step here; AssignmentLease and ReviewDesk show  *)
(* the steps inside.  Other runs appear as a workspace that may be full of *)
(* work or out of budget at any time, workers as an outcome.               *)
(***************************************************************************)
EXTENDS Integers, FiniteSets, SequencesExt

CONSTANTS
    Final,         \* the terminal stage of the workflow; 1 is its first
    Gates,        \* its review gates, by ordinal
    MaxAttempts,  \* workflow_stages.max_attempts
    MaxDispatch,  \* NO_WORKER_MAX_RETRIES
    MaxClicks     \* bound of the model: uses of the admin's retry button

Stage == 1..Final
Work == Stage \ (Gates \cup {Final})

ASSUME RunAssumption ==
    /\ Final \in Nat \ {0, 1}
    /\ Gates \subseteq 2..(Final - 1)
    /\ \A g \in Gates : g + 1 \notin Gates
    /\ {MaxAttempts, MaxDispatch, MaxClicks} \subseteq Nat
    /\ MaxAttempts > 0

VARIABLES
    run,      \* the pipeline_runs row: status, current_stage, pause_reason
    gate,     \* the stage of its review_gates row in status awaiting, or NoGate
    jobs,     \* its job_schedule rows of type stage and retry, oldest first
    rows,     \* its stage_assignments, oldest first
    letters,  \* its dead_letter_jobs, oldest first
    clicks    \* history: how often an admin has retried the failed jobs

vars == <<run, gate, jobs, rows, letters, clicks>>

NoGate == 0

\* job_type of a dead letter where the name of a stage should be.
NotAStage == 0

Terminal == {"succeeded", "failed"}

\* Only work is dispatched, never a gate.
Job == [stage : Work \cup {NotAStage}, attempt : Nat, retry : BOOLEAN,
        status : {"pending", "done", "cancelled"}]

Row == [stage : Work, attempt : Nat \ {0},
        status : {"pending", "in_flight", "completed", "failed", "cancelled"}]

\* about is the related_table; row the assignment it is about, if it is.
Letter == [about : {"run", "row", "job"}, row : Nat, attempt : Nat, open : BOOLEAN]

TypeOK ==
    /\ run \in [status : {"running", "paused"} \cup Terminal, stage : Stage,
                hold : {"none", "spend", "review"}]
    /\ gate \in Gates \cup {NoGate}
    /\ jobs \in Seq(Job)
    /\ rows \in Seq(Row)
    /\ letters \in Seq(Letter)
    /\ clicks \in 0..MaxClicks

StageJob(s, n) == [stage |-> s, attempt |-> n, retry |-> n > 0, status |-> "pending"]
RetryJob(s, n) == [stage |-> s, attempt |-> n, retry |-> TRUE, status |-> "pending"]

\* Mutant: every letter is filed under job_schedule.
LetterOfJob(about, i, n) == [about |-> "job", row |-> i, attempt |-> n, open |-> TRUE]

LetterOf(about, i, n) == [about |-> about, row |-> i, attempt |-> n, open |-> TRUE]

\* start_run has pinned the definition and enqueued the first stage.
Init ==
    /\ run = [status |-> "running", stage |-> 1, hold |-> "none"]
    /\ gate = NoGate
    /\ jobs = <<StageJob(1, 0)>>
    /\ rows = <<>> /\ letters = <<>>
    /\ clicks = 0

Due(j) == j \in DOMAIN jobs /\ jobs[j].status = "pending"
Open(i) == i \in DOMAIN rows /\ rows[i].status \in {"pending", "in_flight"}

\* Mutant: submit does not look at the status, as a row that is done could be in flight.
InFlightOrCompleted(i) == i \in DOMAIN rows /\ rows[i].status \in {"in_flight", "completed"}

InFlight(i) == i \in DOMAIN rows /\ rows[i].status = "in_flight"

\* Mutant: an idempotency key without the attempt.
KeyTakenByStage(s, n) == \E i \in DOMAIN rows : rows[i].stage = s

\* The unique key of an assignment is the run, the stage and the attempt.
KeyTaken(s, n) == \E i \in DOMAIN rows : rows[i].stage = s /\ rows[i].attempt = n

Failed(r) == [r EXCEPT !.status = "failed"]
Held(r) == [r EXCEPT !.status = "paused", !.hold = "spend"]

-----------------------------------------------------------------------------
(* The controller *)

\* _advance_or_finish: the run r leaves stage s for the next one.
Advance(r, s) ==
    LET n == s + 1
        there == [r EXCEPT !.stage = n]
    IN  \/ /\ n = Final
           /\ run' = [there EXCEPT !.status = "succeeded"]
           /\ UNCHANGED jobs
        \/ /\ n \in Gates
           /\ run' = [there EXCEPT !.status = "paused", !.hold = "review"]
           /\ UNCHANGED jobs
        \/ /\ n \in Work
           /\ run' = there
           /\ jobs' = Append(jobs, StageJob(n, 0))

\* A gate that already awaits a decision is reused, and the run not paused again.
Proceed(r, s) ==
    IF gate # NoGate /\ s + 1 \in Gates
    THEN /\ run' = [r EXCEPT !.stage = s + 1]
         /\ UNCHANGED <<gate, jobs>>
    ELSE /\ Advance(r, s)
         /\ gate' = IF s + 1 \in Gates THEN s + 1 ELSE gate

\* A worker submits a result of row i.  A run that is over ignores it.
Succeed(i) ==
    /\ InFlight(i)
    /\ rows' = [rows EXCEPT ![i].status = "completed"]
    /\ IF run.status \in Terminal
       THEN UNCHANGED <<run, gate, jobs>>
       ELSE Proceed(run, rows[i].stage)
    /\ UNCHANGED <<letters, clicks>>

\* Mutant: one attempt too many.
RetryableOnceMore(i, transient) == transient /\ rows[i].attempt <= MaxAttempts

\* A retryable error asks for another attempt, until they are used up.
Retryable(i, transient) == transient /\ rows[i].attempt < MaxAttempts

Fail(i, transient) ==
    /\ InFlight(i)
    /\ rows' = [rows EXCEPT ![i].status = "failed"]
    /\ IF Retryable(i, transient)
       THEN /\ jobs' = Append(jobs, StageJob(rows[i].stage, rows[i].attempt))
            /\ UNCHANGED <<run, letters>>
       ELSE /\ letters' = Append(letters, LetterOf("run", 0, rows[i].attempt))
            /\ run' = Failed(run)
            /\ UNCHANGED jobs
    /\ UNCHANGED <<gate, clicks>>

\* The decision on a gate arrives.  A rejected run fails, whatever it was.
Decide(approved) ==
    /\ gate # NoGate
    /\ IF approved
       THEN LET r == [run EXCEPT !.status = "running", !.hold = "none"]
            IN  Advance(r, gate)
       ELSE /\ run' = [Failed(run) EXCEPT !.hold = "none"]
            /\ UNCHANGED jobs
    /\ gate' = NoGate
    /\ UNCHANGED <<rows, letters, clicks>>

\* Nobody decides in time: the gate is escalated, and takes no decision any more.
Escalate ==
    /\ gate # NoGate
    /\ gate' = NoGate
    /\ UNCHANGED <<run, jobs, rows, letters, clicks>>

-----------------------------------------------------------------------------
(* The scheduler and the dispatcher *)

\* Mutant: the job of a row that waits for a worker is kept, and comes again.
RetireKept(j, how) == UNCHANGED jobs

Retire(j, how) == jobs' = [jobs EXCEPT ![j].status = how]

\* The workspace has as much in flight as it may: before anything else is
\* looked at, one more attempt is counted, and the last one ends the job.
Backpressure(j) ==
    LET n == jobs[j].attempt + 1
        over(i) == Open(i) /\ rows[i].stage = jobs[j].stage
    IN  /\ Due(j)
        /\ IF n >= MaxDispatch
           THEN /\ jobs[j].stage # NotAStage  \* the query for its assignments raises
                /\ jobs' = [jobs EXCEPT ![j].attempt = n, ![j].status = "cancelled"]
                /\ rows' = [i \in DOMAIN rows |->
                              IF over(i) THEN [rows[i] EXCEPT !.status = "cancelled"] ELSE rows[i]]
                /\ letters' = Append(letters, LetterOf("job", 0, n))
           ELSE /\ jobs' = [jobs EXCEPT ![j].attempt = n]
                /\ UNCHANGED <<rows, letters>>
        /\ UNCHANGED <<run, gate, clicks>>

\* A run that is over, or at a gate, needs no dispatch.
Skip(j) ==
    /\ Due(j)
    /\ run.status \in Terminal \/ (run.status = "paused" /\ run.hold # "spend")
    /\ Retire(j, "cancelled")
    /\ UNCHANGED <<run, gate, rows, letters, clicks>>

\* A run on spend hold leaves its job as it is, for the next minute.
Dispatchable(j) == Due(j) /\ run.status = "running"

AlreadyDispatched(j) ==
    /\ Dispatchable(j)
    /\ KeyTaken(jobs[j].stage, jobs[j].attempt + 1)
    /\ Retire(j, "done")
    /\ UNCHANGED <<run, gate, rows, letters, clicks>>

\* The new row goes to a worker, or waits for one.  A job that names no
\* stage raises instead, and takes the scheduler's whole tick with it.
Assign(j, status) ==
    /\ Dispatchable(j)
    /\ jobs[j].stage # NotAStage
    /\ ~ KeyTaken(jobs[j].stage, jobs[j].attempt + 1)
    /\ rows' = Append(rows, [stage |-> jobs[j].stage, attempt |-> jobs[j].attempt + 1,
                             status |-> status])
    /\ Retire(j, "done")
    /\ UNCHANGED <<run, gate, letters, clicks>>

\* There is a worker, but no budget.
HoldJob(j) ==
    /\ Dispatchable(j)
    /\ jobs[j].stage # NotAStage
    /\ ~ KeyTaken(jobs[j].stage, jobs[j].attempt + 1)
    /\ run' = Held(run)
    /\ UNCHANGED <<gate, jobs, rows, letters, clicks>>

-----------------------------------------------------------------------------
(* Claiming and recovery, as far as the run is concerned *)

\* A claim does not ask what state the run is in.
Waiting(i) == i \in DOMAIN rows /\ rows[i].status = "pending"

Claim(i) ==
    /\ Waiting(i)
    /\ rows' = [rows EXCEPT ![i].status = "in_flight"]
    /\ UNCHANGED <<run, gate, jobs, letters, clicks>>

HoldClaim(i) ==
    /\ Waiting(i)
    /\ run' = Held(run)
    /\ UNCHANGED <<gate, jobs, rows, letters, clicks>>

\* The lease is lost.  The row is to be tried again under the next number,
\* unless that number is taken: then the transaction fails as a whole.
Recover(i) ==
    LET n == rows[i].attempt + 1
    IN  /\ InFlight(i)
        /\ IF n > MaxAttempts
           THEN /\ rows' = [rows EXCEPT ![i].status = "failed"]
                /\ letters' = Append(letters, LetterOf("row", i, n - 1))
                /\ run' = IF run.status \in Terminal THEN run ELSE Failed(run)
           ELSE /\ ~ KeyTaken(rows[i].stage, n)
                /\ rows' = [rows EXCEPT ![i].status = "pending", ![i].attempt = n]
                /\ UNCHANGED <<run, letters>>
        /\ UNCHANGED <<gate, jobs, clicks>>

-----------------------------------------------------------------------------
(* The admin's retry button *)

\* The letters that lead to a run: that of a job is found to be about neither a
\* run nor an assignment.  The failed rows are looked at only if the database has
\* no retry pending; the jobs for the letters are not flushed to it yet.
Revivable == {k \in DOMAIN letters : letters[k].open /\ letters[k].about # "job"}

Repeatable ==
    {i \in DOMAIN rows : /\ rows[i].status = "failed"
                         /\ ~ \E j \in DOMAIN jobs : Due(j) /\ jobs[j].retry}

\* The letter of a run is retried under its job_type, which names no stage.
FromLetter(k) ==
    RetryJob(IF letters[k].about = "row" THEN rows[letters[k].row].stage ELSE NotAStage,
             letters[k].attempt)

FromRow(i) == RetryJob(rows[i].stage, rows[i].attempt)

\* What one click enqueues, in any order.
Retries ==
    LET ks == SetToSeq(Revivable)
        is == SetToSeq(Repeatable)
    IN  IF run.status = "succeeded" THEN <<>>
        ELSE [n \in DOMAIN ks |-> FromLetter(ks[n])] \o [n \in DOMAIN is |-> FromRow(is[n])]

RetryFailedJobs ==
    /\ clicks < MaxClicks
    /\ clicks' = clicks + 1
    /\ jobs' = jobs \o Retries
    /\ letters' = [k \in DOMAIN letters |->
                      [letters[k] EXCEPT !.open = @ /\ letters[k].about = "job"]]
    /\ run' = IF run.status = "failed" /\ Retries # <<>>
              THEN [run EXCEPT !.status = "running"] ELSE run
    /\ UNCHANGED <<gate, rows>>

-----------------------------------------------------------------------------
JobStep ==
    \E j \in DOMAIN jobs :
       \/ Backpressure(j) \/ Skip(j) \/ AlreadyDispatched(j) \/ HoldJob(j)
       \/ \E status \in {"pending", "in_flight"} : Assign(j, status)

RowStep ==
    \E i \in DOMAIN rows :
       \/ Claim(i) \/ HoldClaim(i) \/ Recover(i) \/ Succeed(i)
       \/ \E transient \in BOOLEAN : Fail(i, transient)

GateStep == (\E approved \in BOOLEAN : Decide(approved)) \/ Escalate

Next == JobStep \/ RowStep \/ GateStep \/ RetryFailedJobs

Spec == Init /\ [][Next]_vars

-----------------------------------------------------------------------------
(* What the admin's button may break is promised of runs it was not used on. *)

Untouched == clicks = 0

Unfinished == run.status = "running" \/ (run.status = "paused" /\ run.hold = "spend")

\* One thing at a time moves a run: a job, an assignment or a gate.  Two would
\* execute stages side by side; retries and recoveries are handed over one by one.
OneThreadOfControl ==
    Untouched =>
       /\ \A j, k \in DOMAIN jobs : Due(j) /\ Due(k) => j = k
       /\ \A i, k \in DOMAIN rows : Open(i) /\ Open(k) => i = k
       /\ \A j \in DOMAIN jobs, i \in DOMAIN rows : ~ (Due(j) /\ Open(i))
       /\ gate # NoGate => ~ \E k \in DOMAIN jobs \cup DOMAIN rows : Due(k) \/ Open(k)

\* A run that is neither over nor at a gate has something that will move it,
\* or the scheduler has given it up and left a letter: job_schedule rows are
\* retired only when an assignment has taken over.
NothingStalls ==
    Untouched /\ Unfinished =>
       \/ \E j \in DOMAIN jobs : Due(j)
       \/ \E i \in DOMAIN rows : Open(i)
       \/ \E k \in DOMAIN letters : letters[k].about = "job"

\* Every stage the run has left was completed exactly once, and no later one
\* was: no retry repeats a stage that a slow worker has completed.
StagesInOrder ==
    Untouched =>
       \A s \in Work :
          Cardinality({i \in DOMAIN rows : rows[i].stage = s /\ rows[i].status = "completed"})
             = IF s < run.stage THEN 1 ELSE 0

\* The attempts that failures, recoveries and a full workspace count up together
\* never give a stage more assignments than max_attempts, and a recovery finds
\* its next number unused, or its transaction would fail for ever.
AttemptsAreBounded ==
    Untouched =>
       /\ \A s \in Work : Cardinality({i \in DOMAIN rows : rows[i].stage = s}) <= MaxAttempts
       /\ \A i \in DOMAIN rows : InFlight(i) => ~ KeyTaken(rows[i].stage, rows[i].attempt + 1)

\* A run fails with a letter an operator can find, or because a gate rejected it.
FailureIsExplained ==
    Untouched /\ run.status = "failed" =>
       run.stage \in Gates \/ \E k \in DOMAIN letters : letters[k].about # "job" /\ letters[k].open

\* Whatever is retried, lost or overtaken: a run has succeeded only if each of
\* its stages was carried out.  Jobs and assignments of a stage exist only
\* once the stages before it are done.
SuccessMeansWork ==
    run.status = "succeeded" =>
       \A s \in Work : \E i \in DOMAIN rows : rows[i].stage = s /\ rows[i].status = "completed"

=============================================================================
