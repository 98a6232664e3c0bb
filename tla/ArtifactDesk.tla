----------------------------- MODULE ArtifactDesk -----------------------------
(***************************************************************************)
(* What becomes of a rendered artifact: its Media QA, compliance audits,   *)
(* the Chief Auditor, invalidations, and the publication eligibility that  *)
(* is determined from all of them; and the migration that permits reruns   *)
(* of the audits, with the downgrade that folds them.                      *)
(*                                                                         *)
(* A request is one transaction at READ COMMITTED without locks, with a    *)
(* step for each read another request can make stale.  Migrations lock the *)
(* audit tables, and run when no request is about them.  Audits, QA and    *)
(* invalidations are immutable rows.                                       *)
(***************************************************************************)
EXTENDS Integers, FiniteSets, FiniteSetsExt

CONSTANTS
    Artifact,    \* artifact hashes: one final artifact has each
    Platform,    \* target platforms
    Session,     \* concurrent requests
    MaxRequests  \* bound of the model: audits, invalidations, determinations and open requests

ASSUME ArtifactAssumption == MaxRequests \in Nat

VARIABLES
    artifacts,    \* final_artifacts
    qa,           \* status of an artifact's media_qa_results row
    readiness,    \* media_qa_state of its production_readiness row
    withdrawn,    \* artifact_invalidations
    compliance,   \* compliance_audits
    revoked,      \* the audits with a compliance_invalidations row
    manifest,     \* is there an audit_gate_manifests row?
    chiefs,       \* chief_audits
    eligibility,  \* artifact_publication_eligibility
    schema,       \* the revision of the database
    tx,           \* the request each session is in
    folded        \* history: the audits a downgrade has deleted, by their table

tables == <<artifacts, qa, readiness, withdrawn, compliance, revoked, manifest, chiefs, eligibility>>
vars == <<tables, schema, tx, folded>>

QaStatus == {"missing", "pass", "blocked"}
Readiness == QaStatus \cup {"invalidated"}

\* An audit of an artifact, that is of its exact hash.
ComplianceAudit == [artifact : Artifact, pass : BOOLEAN, at : Nat]
ChiefAudit == ComplianceAudit
ComplianceInvalidation == ComplianceAudit    \* a row names the audit it revokes
Manifest == BOOLEAN                          \* one row is made, and stays active
FinalArtifact == Artifact                    \* rows are unique by their hash
NoAudit == [pass |-> FALSE]
\* qa: the artifact had a QA result then.
Withdrawal == [artifact : Artifact, qa : BOOLEAN]
\* A row is never eligible, for external publishing is disabled: what it says is which
\* gates are not passed.  late is history: a withdrawal with a QA result came first.
Eligibility ==
    [artifact : Artifact, platform : Platform, chief : ChiefAudit \cup {NoAudit},
     chief_blocked : BOOLEAN, media_blocked : BOOLEAN, late : BOOLEAN]

Idle == [op |-> "idle"]

TypeOK ==
    /\ artifacts \subseteq FinalArtifact
    /\ qa \in [Artifact -> QaStatus] /\ readiness \in [Artifact -> Readiness]
    /\ withdrawn \subseteq Withdrawal
    /\ compliance \subseteq ComplianceAudit /\ chiefs \subseteq ChiefAudit
    /\ revoked \subseteq compliance \cap ComplianceInvalidation
    /\ manifest \in Manifest
    /\ eligibility \subseteq Eligibility
    /\ schema \in {"0048", "0049"}

Init ==
    /\ artifacts = {} /\ withdrawn = {} /\ compliance = {} /\ revoked = {} /\ chiefs = {}
    /\ eligibility = {}
    /\ qa = [a \in Artifact |-> "missing"]
    /\ readiness = [a \in Artifact |-> "missing"]
    /\ manifest = FALSE
    /\ schema = "0048"
    /\ tx = [s \in Session |-> Idle]
    /\ folded = [compliance |-> {}, chiefs |-> {}]

Of(audits, a) == {k \in audits : k.artifact = a}
Passed(audits) == {k \in audits : k.pass}

Requests ==
    Cardinality(withdrawn) + Cardinality(compliance) + Cardinality(revoked) + Cardinality(chiefs)
      + Cardinality(eligibility) + Cardinality(folded.compliance) + Cardinality(folded.chiefs)
      + Cardinality({s \in Session : tx[s] # Idle})

Begin(s, t) ==
    /\ Requests < MaxRequests
    /\ t.artifact \in artifacts
    /\ tx' = [tx EXCEPT ![s] = t]
    /\ UNCHANGED <<tables, schema, folded>>
Commit(s) == tx' = [tx EXCEPT ![s] = Idle]

\* created_at is when the transaction began, so audits are ordered by that.
CreatedAt(audits, ops, a) ==
    Max({0} \cup {k.at : k \in Of(audits, a)}
            \cup {tx[s].at : s \in {r \in Session : tx[r].op \in ops /\ tx[r].artifact = a}}) + 1

\* uq_compliance_audit_artifact_hash and uq_chief_audit_artifact_hash, which 0049 drops.
Insertable(audits, a) == schema = "0048" => Of(audits, a) = {}

-----------------------------------------------------------------------------
(* Production, as far as fixtures take it: no provider renders anything.   *)

CreateArtifact(a) ==
    /\ a \notin artifacts
    /\ artifacts' = artifacts \cup {a}
    /\ UNCHANGED <<qa, readiness, withdrawn, compliance, revoked, manifest, chiefs, eligibility,
                   schema, tx, folded>>

\* An auditor that is not the producer; one result and one readiness row for an artifact.
CreateMediaQa(a, status) ==
    /\ a \in artifacts /\ qa[a] = "missing"
    /\ qa' = [qa EXCEPT ![a] = status]
    /\ readiness' = [readiness EXCEPT ![a] = status]
    /\ UNCHANGED <<artifacts, withdrawn, compliance, revoked, manifest, chiefs, eligibility,
                   schema, tx, folded>>

\* Mutant: what has been audited stays as it was.
PassStands(state) == IF state = "pass" THEN state ELSE "invalidated"

Withdrawn(state) == "invalidated"

BeginInvalidate(s, a) ==
    Begin(s, [op |-> "invalidate", artifact |-> a, qa |-> qa[a] # "missing"])

\* The readiness row is looked for only now.
EndInvalidate(s) ==
    LET a == tx[s].artifact
    IN /\ tx[s].op = "invalidate"
       /\ withdrawn' = withdrawn \cup {[artifact |-> a, qa |-> tx[s].qa]}
       /\ readiness' =
              IF readiness[a] = "missing" THEN readiness ELSE [readiness EXCEPT ![a] = Withdrawn(@)]
       /\ Commit(s)
       /\ UNCHANGED <<artifacts, qa, compliance, revoked, manifest, chiefs, eligibility, schema, folded>>

-----------------------------------------------------------------------------
(* Compliance.                                                             *)

BeginAudit(s, a, pass) ==
    /\ Insertable(compliance, a)
    /\ Begin(s, [op |-> "compliance", artifact |-> a, pass |-> pass,
                 at |-> CreatedAt(compliance, {"compliance"}, a)])

\* No provider is configured: a live run is blocked, whatever the QA says.
RequestCompliance(s, a) == BeginAudit(s, a, FALSE)

\* A fixture's pass needs that of the QA.
BeginCompliance(s, a) == qa[a] = "pass" /\ BeginAudit(s, a, TRUE)

EndCompliance(s) ==
    LET t == tx[s]
    IN /\ t.op = "compliance"
       /\ Insertable(compliance, t.artifact)
       /\ compliance' = compliance \cup {[artifact |-> t.artifact, pass |-> t.pass, at |-> t.at]}
       /\ Commit(s)
       /\ UNCHANGED <<artifacts, qa, readiness, withdrawn, revoked, manifest, chiefs, eligibility,
                      schema, folded>>

InvalidateCompliance(k) ==
    /\ Requests < MaxRequests
    /\ revoked' = revoked \cup {k}
    /\ UNCHANGED <<artifacts, qa, readiness, withdrawn, compliance, manifest, chiefs, eligibility,
                   schema, tx, folded>>

-----------------------------------------------------------------------------
(* The Chief Auditor.                                                      *)

\* The manifest is got or inserted, and the QA result read.
BeginChief(s, a) ==
    /\ Insertable(chiefs, a)
    /\ Begin(s, [op |-> "chief", artifact |-> a, manifest |-> manifest, media |-> qa[a],
                 at |-> CreatedAt(chiefs, {"chief", "judged"}, a)])

\* Mutant: an artifact without a compliance audit is not blocked.
MissingIsNoBlock(media, audit) == media = "pass" /\ (audit = NoAudit \/ audit.pass)

ChiefPasses(media, audit) == media = "pass" /\ audit.pass

\* Of several compliance audits any may be the first; a later invalidation is not looked at.
FirstOf(audits, a) == IF Of(audits, a) = {} THEN {NoAudit} ELSE Of(audits, a)

JudgeChief(s) ==
    /\ tx[s].op = "chief"
    /\ \E audit \in FirstOf(compliance, tx[s].artifact) :
          tx' = [tx EXCEPT ![s] =
              [op |-> "judged", artifact |-> @.artifact, manifest |-> @.manifest, at |-> @.at,
               pass |-> ChiefPasses(@.media, audit)]]
    /\ UNCHANGED <<tables, schema, folded>>

\* Of two requests that insert the manifest the later fails.
Manifested(t) == manifest => t.manifest

EndChief(s) ==
    LET t == tx[s]
    IN /\ t.op = "judged"
       /\ Insertable(chiefs, t.artifact)
       /\ Manifested(t)
       /\ manifest' = TRUE
       /\ chiefs' = chiefs \cup {[artifact |-> t.artifact, pass |-> t.pass, at |-> t.at]}
       /\ Commit(s)
       /\ UNCHANGED <<artifacts, qa, readiness, withdrawn, compliance, revoked, eligibility,
                      schema, folded>>

-----------------------------------------------------------------------------
(* Publication eligibility.                                                *)

\* Eligibility is determined once for a platform.
Undetermined(t) ==
    ~ \E e \in eligibility : e.artifact = t.artifact /\ e.platform = t.platform

\* Any of the chief's audits may be the first.
BeginEligibility(s, a, p) ==
    /\ Undetermined([artifact |-> a, platform |-> p])
    /\ \E chief \in FirstOf(chiefs, a) :
        Begin(s, [op |-> "eligibility", artifact |-> a, platform |-> p, chief |-> chief,
                  late |-> [artifact |-> a, qa |-> TRUE] \in withdrawn])

Determined(t, media) ==
    [artifact |-> t.artifact, platform |-> t.platform, chief |-> t.chief,
     chief_blocked |-> ~t.chief.pass, media_blocked |-> media # "pass", late |-> t.late]

EndEligibility(s) ==
    LET t == tx[s]
    IN /\ t.op = "eligibility"
       /\ Undetermined(t)
       /\ eligibility' = eligibility \cup {Determined(t, readiness[t.artifact])}
       /\ Commit(s)
       /\ UNCHANGED <<artifacts, qa, readiness, withdrawn, compliance, revoked, manifest, chiefs,
                      schema, folded>>

\* A request that fails leaves nothing, and might as well not have begun: here those roll
\* back that another has made fail since they began.
RollBack(s) ==
    LET t == tx[s]
    IN /\ \/ t.op = "compliance" /\ ~Insertable(compliance, t.artifact)
          \/ t.op = "judged" /\ ~(Insertable(chiefs, t.artifact) /\ Manifested(t))
          \/ t.op = "eligibility" /\ ~Undetermined(t)
       /\ Commit(s)
       /\ UNCHANGED <<tables, schema, folded>>

-----------------------------------------------------------------------------
(* Migrations.                                                             *)

Quiet == \A s \in Session : tx[s].op \in {"idle", "invalidate"}

Upgrade ==
    /\ schema = "0048" /\ Quiet
    /\ schema' = "0049"
    /\ UNCHANGED <<tables, tx, folded>>

Earliest(audits, k) == CHOOSE c \in Of(audits, k.artifact) : \A d \in Of(audits, k.artifact) : c.at <= d.at
Reruns(audits) == {k \in audits : k # Earliest(audits, k)}

\* Mutant: the rows that refer to a rerun are left as they are.
NotRepointed(e) == e

Repointed(e) == IF e.chief = NoAudit THEN e ELSE [e EXCEPT !.chief = Earliest(chiefs, @)]

\* Invalidations are to be repointed too, but they are immutable and their trigger stays:
\* with one of a rerun the downgrade fails.
Downgrade ==
    /\ schema = "0049" /\ Quiet
    /\ revoked \cap Reruns(compliance) = {}
    /\ schema' = "0048"
    /\ eligibility' = {Repointed(e) : e \in eligibility}
    /\ compliance' = compliance \ Reruns(compliance)
    /\ chiefs' = chiefs \ Reruns(chiefs)
    /\ folded' = [compliance |-> folded.compliance \cup Reruns(compliance),
                  chiefs |-> folded.chiefs \cup Reruns(chiefs)]
    /\ UNCHANGED <<artifacts, qa, readiness, withdrawn, revoked, manifest, tx>>

-----------------------------------------------------------------------------
\* What the compliance router lets an admin write; the auditors run behind it.
ComplianceRequests(s, a) ==
    \/ RequestCompliance(s, a)
    \/ \E p \in Platform : BeginEligibility(s, a, p)

Next ==
    \/ \E a \in Artifact :
        \/ CreateArtifact(a)
        \/ \E status \in {"pass", "blocked"} : CreateMediaQa(a, status)
    \/ \E k \in compliance : InvalidateCompliance(k)
    \/ \E s \in Session :
        \/ /\ tx[s] = Idle
           /\ \E a \in artifacts :
                \/ ComplianceRequests(s, a)
                \/ BeginInvalidate(s, a)
                \/ BeginCompliance(s, a)
                \/ BeginChief(s, a)
        \/ EndInvalidate(s)
        \/ EndCompliance(s)
        \/ JudgeChief(s)
        \/ EndChief(s)
        \/ EndEligibility(s)
        \/ RollBack(s)
    \/ Upgrade
    \/ Downgrade

Spec == Init /\ [][Next]_vars

-----------------------------------------------------------------------------
(* What is shown, and the properties.                                      *)

ProductionSummary ==
    [final_artifacts |-> Cardinality(artifacts),
     media_qa_passed |-> Cardinality({a \in artifacts : qa[a] = "pass"}),
     media_qa_blocked |-> Cardinality({a \in artifacts : qa[a] = "blocked"})]

ComplianceSummary ==
    [compliance_audits |-> Cardinality(compliance), passed |-> Cardinality(Passed(compliance)),
     blocked |-> Cardinality(compliance \ Passed(compliance)), publication_eligible |-> 0]

\* Whatever overlapped and whatever a downgrade has deleted since, no audit passes without
\* what it rests on: a compliance audit on the pass of the QA, the Chief Auditor's on that
\* and on a compliance audit that passed, and an eligibility row that names no block of
\* the Chief Auditor or of the QA on a pass of each.  The summaries agree.
PassesAreEarned ==
    LET audited == Passed(compliance \cup folded.compliance)
        released == Passed(chiefs \cup folded.chiefs)
    IN /\ \A k \in audited \cup released : qa[k.artifact] = "pass"
       /\ \A k \in released : Of(audited, k.artifact) # {}
       /\ \A e \in eligibility :
            /\ ~e.chief_blocked => Of(released, e.artifact) # {}
            /\ ~e.media_blocked => qa[e.artifact] = "pass"
       /\ ComplianceSummary.passed > 0 => ProductionSummary.media_qa_passed > 0
       /\ ProductionSummary.media_qa_passed + ProductionSummary.media_qa_blocked
            <= ProductionSummary.final_artifacts

\* What is withdrawn after its QA stays withdrawn, whatever its audits do, and whoever asks
\* afterwards is told so.
WithdrawalHolds ==
    /\ \A w \in withdrawn : w.qa => readiness[w.artifact] = "invalidated"
    /\ \A e \in eligibility : e.late => e.media_blocked

\* A downgrade leaves one audit of an artifact, the first there ever was, and every row that
\* refers to an audit refers to one that is left.
FoldIsFaithful ==
    /\ schema = "0048" =>
        /\ \A k \in compliance :
            /\ Of(compliance, k.artifact) = {k}
            /\ \A d \in Of(folded.compliance, k.artifact) : k.at < d.at
        /\ \A k \in chiefs :
            /\ Of(chiefs, k.artifact) = {k}
            /\ \A d \in Of(folded.chiefs, k.artifact) : k.at < d.at
    /\ \A e \in eligibility : e.chief # NoAudit => e.chief \in Of(chiefs, e.artifact)
    /\ revoked \subseteq compliance
===============================================================================
