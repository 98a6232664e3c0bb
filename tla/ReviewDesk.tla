------------------------------ MODULE ReviewDesk ------------------------------
(***************************************************************************)
(* The human review gate: a content job opens a gate on its first draft,   *)
(* editors replace the draft while the gate waits, reviewers approve or    *)
(* reject the version they have loaded, and the scheduler escalates a gate *)
(* that has waited too long.  A request of a person is one transaction     *)
(* under the lock of the gate's row.  The scheduler's transaction is two   *)
(* steps, for handle_review_timeout reads the gate without a lock and      *)
(* writes it later.                                                        *)
(* An admin may have the workspace's content deleted at any time: items    *)
(* are tombstoned and jobs erased by statements of one transaction, each   *)
(* of which sees what is committed when it starts.                         *)
(*                                                                         *)
(* The scheduler processes all that is due in one transaction, of every    *)
(* workspace and for every purpose: a job that the retry button has        *)
(* scheduled for no stage makes each transaction that leases it fail.      *)
(*                                                                         *)
(* There is no clock: a gate is overdue whenever the scheduler says so.    *)
(* Versions are numbered in the order in which they are written.           *)
(***************************************************************************)
EXTENDS Integers

CONSTANTS
    Job,          \* content jobs: a run, its content item and its one gate
    Reviewer,     \* people with the role reviewer or admin
    Editor,       \* people with the role editor or admin
    MaxVersion    \* bound of the model: versions written of one item

ASSUME ReviewDeskAssumption == MaxVersion \in Nat \ {0}

Person == Reviewer \cup Editor

VARIABLES
    desk,         \* desk[j]: run, gate, item and timeout job of job j
    seen,         \* seen[p][j]: what person p has loaded of job j
    tick,         \* tick[j]: has a scheduler transaction read gate j?
    deletion,     \* the deletion request under way: what its statements have found
    stageless,    \* a job is due that names no stage to dispatch
    history       \* history variable: the decisions and the lineage of j

reviewVars == <<desk, seen, tick, deletion, stageless, history>>

Version == 0..MaxVersion
None == 0         \* no version: not written, not loaded or not given

RunStatus == {"none", "paused", "succeeded", "failed"}
GateStatus == {"none", "awaiting", "approved", "rejected", "escalated", "timed_out"}

Desk ==
    [run : RunStatus, gate : GateStatus, level : 0..1, armed : BOOLEAN,
     pinned : Version,       \* review_gates.content_version_id
     current : Version,      \* content_items.current_version_id
     withdrawn : BOOLEAN]    \* content_items.deleted_at

\* What a client shows: the gate's version id beside the item's text.
Loaded == [pin : Version, text : Version]

\* items: tombstoned, and not committed yet.
Deletion == [on : BOOLEAN, items : SUBSET Job]
NoDeletion == [on |-> FALSE, items |-> {}]

History ==
    [decisions : 0..2,       \* review_decisions rows, counted up to two
     erased : BOOLEAN,       \* a deletion took a timeout job of the gate
     approved : Version,     \* the text the approving reviewer was shown
     base : Version]         \* the text the current version was made from

ReviewTypeOK ==
    /\ desk \in [Job -> Desk]
    /\ seen \in [Person -> [Job -> Loaded]]
    /\ tick \in [Job -> {"idle", "read"}]
    /\ deletion \in Deletion
    /\ stageless \in BOOLEAN
    /\ history \in [Job -> History]

Absent ==
    [run |-> "none", gate |-> "none", level |-> 0, armed |-> FALSE,
     pinned |-> None, current |-> None, withdrawn |-> FALSE]

ReviewInit ==
    /\ desk = [j \in Job |-> Absent]
    /\ seen = [p \in Person |-> [j \in Job |-> [pin |-> None, text |-> None]]]
    /\ tick = [j \in Job |-> "idle"]
    /\ deletion = NoDeletion
    /\ stageless = FALSE
    /\ history = [j \in Job |-> [decisions |-> 0, erased |-> FALSE, approved |-> None, base |-> None]]

-----------------------------------------------------------------------------
(* People.                                                                 *)

\* create_content_job: the first version, a paused run, an awaiting gate
\* pinned to that version and its timeout job, or nothing at all.
Gated(armed) ==
    [run |-> "paused", gate |-> "awaiting", level |-> 0, armed |-> armed,
     pinned |-> 1, current |-> 1, withdrawn |-> FALSE]

\* Mutant of Opened: the timeout job is forgotten.
OpenedUnarmed == Gated(FALSE)

Opened == Gated(TRUE)

Create(j) ==
    /\ desk[j] = Absent
    /\ Editor # {}
    /\ desk' = [desk EXCEPT ![j] = Opened]
    /\ UNCHANGED <<seen, tick, deletion, stageless, history>>

\* content_items_select_member: only admins and editors see a withdrawn item, and the gate
\* is read, before and after a decision, together with its item.
Sees(p, d) == d.withdrawn => p \in Editor

\* A client loads the gate.  It may act on what it got much later; nobody acts on a gate that
\* waits no more.
View(p, j) ==
    /\ desk[j].gate = "awaiting" /\ Sees(p, desk[j])
    /\ seen' = [seen EXCEPT ![p][j] = [pin |-> desk[j].pinned, text |-> desk[j].current]]
    /\ UNCHANGED <<desk, tick, deletion, stageless, history>>

\* Mutant of Awaiting: an escalated gate can be decided too.
AwaitingOrEscalated(d) == d.gate \in {"awaiting", "escalated"}

Awaiting(d) == d.gate = "awaiting"

\* Mutant of Matches: the expected version is not compared.
MatchesAnything(d, pin) == TRUE

\* The version a request expects is the one the gate is pinned to.
Matches(d, pin) == pin = d.pinned

\* An approval must name a version; a rejection may leave it out.
Decidable(d, pin, approved) ==
    /\ Awaiting(d)
    /\ pin # None => Matches(d, pin)
    /\ approved => pin # None

\* resume_from_review: the desk workflow has an edge for an approval, to
\* its terminal stage, and none for a rejection, which fails the run.
Resumed(d, approved) ==
    [d EXCEPT !.gate = IF approved THEN "approved" ELSE "rejected",
              !.run = IF approved THEN "succeeded" ELSE "failed"]

\* decide_review_gate: the decision row, its event and the delivery of that
\* event to the controller are one transaction.
Decide(r, j, approved) ==
    /\ \E pin \in {seen[r][j].pin, None} : Decidable(desk[j], pin, approved)
    /\ Sees(r, desk[j])
    /\ desk' = [desk EXCEPT ![j] = Resumed(@, approved)]
    /\ history' = [history EXCEPT
            ![j].decisions = IF @ < 2 THEN @ + 1 ELSE @,
            ![j].approved = IF approved THEN seen[r][j].text ELSE @]
    /\ UNCHANGED <<seen, tick, deletion, stageless>>

\* edit_review_gate_content: a new version that becomes both the item's
\* current one and the one the gate is pinned to.
\* Mutant of Rewritten: the gate stays pinned to the version it was opened on.
RewrittenUnpinned(d) == [d EXCEPT !.current = d.current + 1]

Rewritten(d) == [d EXCEPT !.current = d.current + 1, !.pinned = d.current + 1]

Edit(e, j) ==
    /\ Awaiting(desk[j])
    /\ Matches(desk[j], seen[e][j].pin)
    /\ j \notin deletion.items          \* the item's row is locked by its tombstone
    /\ desk[j].current < MaxVersion                          \* bound of the model
    /\ desk' = [desk EXCEPT ![j] = Rewritten(@)]
    /\ history' = [history EXCEPT ![j].base = seen[e][j].text]
    /\ UNCHANGED <<seen, tick, deletion, stageless>>

-----------------------------------------------------------------------------
(* The scheduler: a REVIEW_TIMEOUT job that is due.                        *)

\* The gate was decided, or escalated before: the job is done.
TimeoutStale(j) ==
    /\ desk[j].armed /\ tick[j] = "idle"
    /\ ~ Awaiting(desk[j])
    /\ desk' = [desk EXCEPT ![j].armed = FALSE]
    /\ UNCHANGED <<seen, tick, deletion, stageless, history>>

\* The gate is read as awaiting, without a lock.
TimeoutRead(j) ==
    /\ desk[j].armed /\ tick[j] = "idle"
    /\ Awaiting(desk[j])
    /\ tick' = [tick EXCEPT ![j] = "read"]
    /\ UNCHANGED <<desk, seen, deletion, stageless, history>>

\* The first timeout escalates the gate and arms a second one; the second
\* is to fail the run.
TimedOut(d) ==
    IF d.level = 0
    THEN [d EXCEPT !.gate = "escalated", !.level = 1]
    ELSE [d EXCEPT !.gate = "timed_out", !.run = "failed", !.armed = FALSE]

\* The write that follows the read is unconditional.
TimeoutWrite(j) ==
    /\ tick[j] = "read"
    /\ desk' = [desk EXCEPT ![j] = TimedOut(@)]
    /\ tick' = [tick EXCEPT ![j] = "idle"]
    /\ UNCHANGED <<seen, deletion, stageless, history>>

\* Some job of the tick raised, or the process died: nothing is written and
\* the timeout job is still due.
TimeoutAbort(j) ==
    /\ tick[j] = "read"
    /\ tick' = [tick EXCEPT ![j] = "idle"]
    /\ UNCHANGED <<desk, seen, deletion, stageless, history>>

\* retry_failed_jobs, of any workspace: a letter of the scheduler's names the job it was
\* written for, and no stage.
RetryButton ==
    /\ stageless' = TRUE
    /\ UNCHANGED <<desk, seen, tick, deletion, history>>

-----------------------------------------------------------------------------
(* delete_workspace_content, for an admin.                                 *)

\* The items that live are tombstoned.
WithdrawItems ==
    /\ Reviewer \cap Editor # {}
    /\ ~deletion.on
    /\ deletion' = [on |-> TRUE,
            items |-> {j \in Job : desk[j].run # "none" /\ ~desk[j].withdrawn}]
    /\ UNCHANGED <<desk, seen, tick, stageless, history>>

\* The jobs are deleted, after the ticks that have leased one, and both statements committed.
EraseJobs ==
    /\ deletion.on
    /\ \A j \in Job : desk[j].armed => tick[j] = "idle"
    /\ desk' = [j \in Job |->
            [desk[j] EXCEPT !.withdrawn = @ \/ j \in deletion.items, !.armed = FALSE]]
    /\ history' = [j \in Job |-> [history[j] EXCEPT !.erased = @ \/ desk[j].armed]]
    /\ deletion' = NoDeletion
    /\ stageless' \in {stageless, FALSE}    \* of this workspace, or of another
    /\ UNCHANGED <<seen, tick>>

DeletionRequest == WithdrawItems \/ EraseJobs

-----------------------------------------------------------------------------
\* The routers: anyone in the workspace views, authors create and edit, reviewers decide.
JobRequests(j) == Create(j)
GateRequests(j) ==
    \/ \E p \in Person : View(p, j)
    \/ \E r \in Reviewer, approved \in BOOLEAN : Decide(r, j, approved)
    \/ \E e \in Editor : Edit(e, j)

ReviewNext ==
    \/ \E j \in Job :
        \/ JobRequests(j)
        \/ GateRequests(j)
        \/ TimeoutStale(j)
        \/ TimeoutRead(j)
        \/ TimeoutWrite(j)
        \/ TimeoutAbort(j)
    \/ RetryButton
    \/ DeletionRequest

ReviewSpec == ReviewInit /\ [][ReviewNext]_reviewVars

\* The scheduler polls for ever, and its ticks do not all fail, unless there is again and
\* again a job due that cannot be processed.  Nothing is assumed of people: a gate may
\* never be looked at.
Fairness ==
    \/ []<>stageless
    \/ \A j \in Job :
          /\ WF_reviewVars(TimeoutRead(j))
          /\ SF_reviewVars(TimeoutWrite(j))

FairSpec == ReviewSpec /\ Fairness

-----------------------------------------------------------------------------
(* Properties.                                                             *)

\* publication_eligibility: what an admin or a reviewer attests of an item for one platform.
\* A row may name any gate.
Fingerprint == {"none", "x"}
Attestation == [gate : Job, disclosed : BOOLEAN, rights : BOOLEAN, fingerprint : Fingerprint]

\* assert_publishable, for the item's row and the fingerprints that rows of other items have on
\* the platform: the gate is of this item, approved and bound to its current version, all is
\* attested, and no other item has its fingerprint.
Publishable(row, taken, j) ==
    LET d == desk[row.gate]
    IN /\ row.gate = j
       /\ d.gate = "approved" /\ d.pinned = d.current
       /\ row.disclosed /\ row.rights
       /\ row.fingerprint # "none"
       /\ row.fingerprint \notin taken

\* No content gets past its gate: a run has succeeded, or an item may be
\* published whatever the rows attest, only if a reviewer approved it, and what a reviewer approved
\* is the text on the reviewer's screen, whoever edited in between.
PublishedAsReviewed ==
    \A j \in Job :
        (\/ desk[j].run = "succeeded"
         \/ \E row \in Attestation, taken \in SUBSET Fingerprint : Publishable(row, taken, j))
            => history[j].approved # None /\ history[j].approved = desk[j].current

\* A gate is decided once, and its run ends exactly when it is decided:
\* with any number of reviewers and timeouts there is one review_decisions
\* row for a finished run and none for a paused one.
DecidedOnce ==
    \A j \in Job :
        history[j].decisions = IF desk[j].run \in {"succeeded", "failed"} THEN 1 ELSE 0

\* No edit is lost: every version is made from the one just before it, so
\* that what an editor saves never undoes what the editor did not see.
EditsBuildOnEachOther ==
    \A j \in Job :
        desk[j].current # None => history[j].base = desk[j].current - 1

\* A gate that waits has a timeout job, whatever became of earlier ticks, unless a deletion
\* took it.
AwaitingIsArmed ==
    \A j \in Job : Awaiting(desk[j]) => desk[j].armed \/ history[j].erased

\* A gate does not wait unnoticed: it is decided or escalated, unless a deletion of the
\* workspace's content has taken its timeout job, or another job stops the scheduler.
GateIsNoticed ==
    \A j \in Job : Awaiting(desk[j]) ~> (~ Awaiting(desk[j]) \/ history[j].erased \/ stageless)

=============================================================================
