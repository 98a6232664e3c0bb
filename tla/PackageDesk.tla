----------------------------- MODULE PackageDesk -----------------------------
(***************************************************************************)
(* The content department: packages written from an approved brief, the    *)
(* independent auditors of a package, its aggregate gate, and revisions,   *)
(* which supersede a package and invalidate its audits.                    *)
(*                                                                         *)
(* A request is one transaction at READ COMMITTED without row locks.  An   *)
(* audit loads the package and takes its checked_at (Begin), inserts the   *)
(* audit and recalculates the gate from what is committed and its own      *)
(* (Judge), and writes what differs from the copies it loaded when it      *)
(* commits (End).  Only the claims a fact audit has written are locked     *)
(* from the second step to the third.                                      *)
(***************************************************************************)
EXTENDS Integers, FiniteSets, Sequences, FiniteSetsExt

CONSTANTS
    Auditor,      \* _MANDATORY_AUDITORS, of which FactAuditor writes the claims
    FactAuditor,
    Script,       \* text fingerprints of scripts
    Session,      \* concurrent requests
    MaxPackages,  \* bound of the model
    MaxRequests   \* bound of the model: packages, live runs and audits

ASSUME PackageAssumption ==
    FactAuditor \in Auditor /\ IsFiniteSet(Auditor) /\ MaxPackages \in Nat /\ MaxRequests \in Nat

Package == 1..MaxPackages

VARIABLES
    packages,       \* rows in the order of their creation
    claims,         \* verification_status of a package's claims
    runs,           \* the counters of a package's run
    audits,         \* content_audits
    invalidations,  \* the audits with a content_audit_invalidations row
    originality,    \* the script of each package: originality_fingerprints
    live_runs,      \* runs requested without a provider
    jobs,           \* the packages with a production_jobs row
    tx,             \* the request each session is in
    raced           \* history: packages written by a request that had not seen the last write

tables == <<packages, claims, runs, audits, invalidations, originality, live_runs, jobs>>
vars == <<tables, tx, raced>>

\* error acts as blocked does.
AuditState == {"pass", "pass_with_warning", "blocked"}
Idle == [op |-> "idle"]

\* audited is history: the revision that wrote the package found audits to invalidate.
PackageRow ==
    [prior : Package \cup {0}, audited : BOOLEAN, duplicate : BOOLEAN, invalidated : BOOLEAN,
     gate : {"not_ready", "pass", "blocked", "invalidated"},
     handoff : {"blocked", "provider_not_configured"},
     status : {"awaiting_audits", "audited_ready", "audited_blocked", "superseded"}]
Claims == {"not_run", "verified", "unverified"}
ProductionJob == Package    \* a job is of the versions of its package
Run == [ready : Nat, blocked : Nat]
\* The fingerprint of the text of a package's version; that of the hook is not compared.
Originality == Script
Audit == [package : Package, kind : Auditor, state : AuditState, at : Nat]

TypeOK ==
    /\ \E n \in 0..MaxPackages :
        /\ packages \in [1..n -> PackageRow]
        /\ claims \in [1..n -> Claims]
        /\ runs \in [1..n -> Run]
        /\ originality \in [1..n -> Originality]
        /\ raced \subseteq 1..n
    /\ audits \subseteq Audit /\ invalidations \subseteq audits
    /\ live_runs \in 0..MaxRequests
    /\ jobs \subseteq ProductionJob

Init ==
    /\ packages = <<>> /\ claims = <<>> /\ runs = <<>> /\ originality = <<>>
    /\ audits = {} /\ invalidations = {}
    /\ live_runs = 0
    /\ jobs = {}
    /\ tx = [s \in Session |-> Idle]
    /\ raced = {}

Written == DOMAIN packages
AuditsOf(p) == {a \in audits : a.package = p}

\* An UPDATE carries the attributes that differ from the copy the session has loaded.
Update(row, copy, new) ==
    [f \in DOMAIN row |-> IF new[f] = copy[f] THEN row[f] ELSE new[f]]

\* A request is about the package it audits or revises; stale is history: the package has
\* been written since the request loaded it.
About(t) == IF t.op = "idle" THEN 0 ELSE t.about
Requests ==
    Cardinality(Written) + live_runs + Cardinality(audits) + Cardinality({s \in Session : tx[s] # Idle})
Begin(s, t) == tx[s] = Idle /\ tx' = [tx EXCEPT ![s] = t]
\* The commit of the request s is in, which writes the package it is about.
Commit(s) ==
    LET p == About(tx[s])
    IN /\ tx' = [r \in Session |->
              IF r = s THEN Idle
              ELSE IF p # 0 /\ About(tx[r]) = p THEN [tx[r] EXCEPT !.stale = TRUE]
              ELSE tx[r]]
       /\ raced' = IF tx[s].stale THEN raced \cup {p} ELSE raced

-----------------------------------------------------------------------------
(* The writer.                                                             *)

\* No provider is configured: a live request leaves a run and nothing else.
RequestPackage ==
    /\ Requests < MaxRequests
    /\ live_runs' = live_runs + 1
    /\ UNCHANGED <<packages, claims, runs, audits, invalidations, originality, jobs, tx, raced>>

SameScript(script) == {p \in Written : originality[p] = script}

\* prior is 0 but in a revision.  A script that two packages have already is refused: the
\* search for a duplicate expects one.
BeginWrite(s, script, prior) ==
    /\ Requests < MaxRequests
    /\ Cardinality(Written) + Cardinality({r \in Session : tx[r].op = "write"}) < MaxPackages
    /\ prior \in Written \cup {0}
    /\ Cardinality(SameScript(script)) <= 1
    /\ Begin(s, [op |-> "write", about |-> prior, stale |-> FALSE, script |-> script,
                 duplicate |-> SameScript(script) # {},
                 copy |-> IF prior = 0 THEN Idle ELSE packages[prior],
                 audits |-> AuditsOf(prior)])
    /\ UNCHANGED <<tables, raced>>

\* Mutant: a duplicate script is recorded and does not block.
DuplicateNoted(t) ==
    [prior |-> t.about, audited |-> t.audits # {}, duplicate |-> t.duplicate, invalidated |-> FALSE,
     gate |-> "not_ready", handoff |-> "blocked", status |-> "awaiting_audits"]

NewRun == [ready |-> 0, blocked |-> 0]
NewPackage(t) ==
    [prior |-> t.about, audited |-> t.audits # {}, duplicate |-> t.duplicate, invalidated |-> FALSE,
     gate |-> IF t.duplicate THEN "blocked" ELSE "not_ready", handoff |-> "blocked",
     status |-> IF t.duplicate THEN "audited_blocked" ELSE "awaiting_audits"]

Superseded(copy) ==
    [copy EXCEPT !.invalidated = TRUE, !.gate = "invalidated", !.handoff = "blocked",
                 !.status = "superseded"]

\* Mutant: an audit may be invalidated again.
InvalidatedAgain(t) == t.about \in Written \cup {0}

\* An audit is invalidated once: a second revision that meets one is an integrity error.
Invalidable(t) == t.audits \cap invalidations = {}

\* A request that fails leaves nothing, and might as well not have begun: here those
\* roll back that can do nothing else.
RollBack(s) ==
    /\ tx[s].op = "write" /\ ~Invalidable(tx[s])
    /\ tx' = [tx EXCEPT ![s] = Idle]
    /\ UNCHANGED <<tables, raced>>

EndWrite(s) ==
    LET t == tx[s]
        old == IF t.about = 0 THEN packages
               ELSE [packages EXCEPT ![t.about] = Update(@, t.copy, Superseded(t.copy))]
    IN /\ t.op = "write" /\ Commit(s)
       /\ Invalidable(t)
       /\ packages' = Append(old, NewPackage(t))
       /\ claims' = Append(claims, "not_run")
       /\ runs' = Append(runs, NewRun)
       /\ originality' = Append(originality, t.script)
       /\ invalidations' = invalidations \cup t.audits
       /\ UNCHANGED <<audits, live_runs, jobs>>

-----------------------------------------------------------------------------
(* The auditors.                                                           *)

InProgress == {tx[s].audit : s \in {r \in Session : tx[r].op \in {"audit", "judged"}}}

\* checked_at is compared among the audits of one kind of one package.
CheckedAt(p, kind) ==
    Max({0} \cup {a.at : a \in {b \in audits \cup InProgress : b.package = p /\ b.kind = kind}}) + 1

BeginAudit(s, p, kind, state) ==
    /\ Requests < MaxRequests
    /\ Begin(s, [op |-> "audit", about |-> p, stale |-> FALSE, copy |-> packages[p], claims |-> claims[p],
                 audit |-> [package |-> p, kind |-> kind, state |-> state, at |-> CheckedAt(p, kind)]])
    /\ UNCHANGED <<tables, raced>>

LatestState(visible, kind) ==
    LET mine == {a \in visible : a.kind = kind}
    IN IF mine = {} THEN "not_run"
       ELSE (CHOOSE a \in mine : \A b \in mine : b.at <= a.at).state

\* Mutant: no audit is as good as one that does not block.
UnblockedIsPass(visible) ==
    IF \E k \in Auditor : LatestState(visible, k) = "blocked" THEN "blocked"
    ELSE IF \E k \in Auditor : LatestState(visible, k) = "pass" THEN "pass"
    ELSE "not_ready"

AggregateGate(visible) ==
    IF \E k \in Auditor : LatestState(visible, k) = "blocked" THEN "blocked"
    ELSE IF \A k \in Auditor : LatestState(visible, k) = "pass" THEN "pass"
    ELSE "not_ready"

\* The attributes that go with a gate.
Recalculated(copy, gate) ==
    [copy EXCEPT !.gate = gate,
        !.handoff = IF gate = "pass" THEN "provider_not_configured" ELSE "blocked",
        !.status = CASE gate = "pass" -> "audited_ready"
                     [] gate = "blocked" -> "audited_blocked"
                     [] OTHER -> "awaiting_audits"]

\* What an audit makes of the claims: only the fact auditor's verifies.
ClaimsAfter(audit, was) ==
    IF audit.kind # FactAuditor THEN was
    ELSE IF audit.state = "blocked" THEN "unverified" ELSE "verified"

WritesClaims(t) == t.claims # ClaimsAfter(t.audit, t.claims)
ClaimsLocked(p) ==
    \E s \in Session : tx[s].op = "judged" /\ tx[s].about = p /\ WritesClaims(tx[s])

\* The flush inserts the audit and updates the claims, waiting for their locks; the gate
\* is recalculated from what is committed by then and from the audit itself.
Judge(s) ==
    LET t == tx[s]
        p == t.about
    IN /\ t.op = "audit"
       /\ WritesClaims(t) => ~ClaimsLocked(p)
       /\ tx' = [tx EXCEPT ![s] =
              [op |-> "judged", about |-> p, stale |-> t.stale, copy |-> t.copy, claims |-> t.claims,
               audit |-> t.audit, gate |-> AggregateGate(AuditsOf(p) \cup {t.audit}), run |-> runs[p]]]
       /\ UNCHANGED <<tables, raced>>

Counted(run, gate) ==
    [ready |-> IF gate = "pass" THEN run.ready + 1 ELSE run.ready,
     blocked |-> IF gate = "blocked" THEN run.blocked + 1 ELSE run.blocked]

EndAudit(s) ==
    LET t == tx[s]
        p == t.about
    IN /\ t.op = "judged" /\ Commit(s)
       /\ audits' = audits \cup {t.audit}
       /\ packages' = [packages EXCEPT ![p] = Update(@, t.copy, Recalculated(t.copy, t.gate))]
       /\ claims' = [claims EXCEPT ![p] = IF WritesClaims(t) THEN ClaimsAfter(t.audit, @) ELSE @]
       /\ runs' = [runs EXCEPT ![p] = Update(@, t.run, Counted(t.run, t.gate))]
       /\ UNCHANGED <<invalidations, originality, live_runs, jobs>>

-----------------------------------------------------------------------------
(* The hand-off to production.                                             *)

\* The Producer's gate, and production, look at the aggregate alone.
ProducerEligible(p) == packages[p].gate = "pass"

\* No provider renders anything: the job waits for one.
RequestProduction(p) ==
    /\ ProducerEligible(p)
    /\ jobs' = jobs \cup {p}
    /\ UNCHANGED <<packages, claims, runs, audits, invalidations, originality, live_runs, tx, raced>>

\* What the routers let an admin write: the writer and the auditors run behind them.
ContentRequests == RequestPackage
ProductionRequests == \E p \in Written : RequestProduction(p)

Next ==
    \/ ContentRequests
    \/ ProductionRequests
    \/ \E s \in Session :
        \/ \E script \in Script, prior \in Package \cup {0} : BeginWrite(s, script, prior)
        \/ EndWrite(s)
        \/ \E p \in Written, kind \in Auditor, state \in AuditState : BeginAudit(s, p, kind, state)
        \/ Judge(s)
        \/ EndAudit(s)
        \/ RollBack(s)

Spec == Init /\ [][Next]_vars

-----------------------------------------------------------------------------
(* What the gate promises.                                                 *)

Summary ==
    [packages_ready |-> Cardinality({p \in Written : packages[p].gate = "pass"}),
     packages_blocked |-> Cardinality({p \in Written : packages[p].gate = "blocked"}),
     packages_in_progress |-> Cardinality({p \in Written : packages[p].gate \notin {"pass", "blocked"}}),
     claims_unverified |-> Cardinality({p \in Written : claims[p] # "verified"})]

PassedBy(p, kind) == \E a \in AuditsOf(p) : a.kind = kind /\ a.state = "pass"

\* Whatever overlapped, the Producer is given no package, and none is in production, that an
\* auditor has never passed, and the summary and the run's counters say nothing is ready
\* without as many audits.
PassIsUnanimous ==
    /\ \A p \in Written :
        /\ ProducerEligible(p) \/ p \in jobs => \A kind \in Auditor : PassedBy(p, kind)
        /\ runs[p].ready + runs[p].blocked <= Cardinality(AuditsOf(p))
    /\ Summary.packages_ready * Cardinality(Auditor) <= Cardinality({a \in audits : a.state = "pass"})

\* Unless requests for one package overlapped, its row says in all its attributes what
\* follows from its audits: from all of them, if one came after the last revision, or
\* else that it is superseded or written twice; and a package that passes has its claims
\* verified.
RowFollowsAudits ==
    \A p \in Written \ raced :
        LET row == packages[p]
            gate == IF row.invalidated /\ AuditsOf(p) \subseteq invalidations THEN "invalidated"
                    ELSE IF AuditsOf(p) # {} THEN AggregateGate(AuditsOf(p))
                    ELSE IF row.duplicate THEN "blocked"
                    ELSE "not_ready"
        IN /\ row.gate = gate
           /\ row.handoff = "provider_not_configured" <=> gate = "pass"
           /\ row.status = CASE gate = "pass" -> "audited_ready"
                             [] gate = "blocked" -> "audited_blocked"
                             [] gate = "invalidated" -> "superseded"
                             [] OTHER -> "awaiting_audits"
           /\ gate = "pass" => claims[p] = "verified"

\* Of the revisions of a package, one at most has found audits of it to invalidate.
RevisedOnce ==
    \A q, r \in Written :
        packages[q].prior = packages[r].prior /\ packages[q].audited /\ packages[r].audited =>
            q = r \/ packages[q].prior = 0

==============================================================================
