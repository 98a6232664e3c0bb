---------------------------- MODULE ArtifactProofs ----------------------------
(***************************************************************************)
(* Proofs about ArtifactDesk, for any number of artifacts, platforms and   *)
(* concurrent requests.                                                    *)
(*                                                                         *)
(* The inductive invariant Inv has five parts.  Types: the types, what a   *)
(* request holds, and a date no audit is after.  Refs: a row that names    *)
(* the Chief Auditor's audit names one that is there.  Standing: the       *)
(* readiness row and the QA result go together, and what a request has     *)
(* read of them is still so.  Earned: every audit, row and request rests   *)
(* on passes that are there.  Tables: audits of an artifact differ in      *)
(* their dates, those in progress included, and one that a downgrade has   *)
(* deleted is outlived by an earlier one.                                  *)
(***************************************************************************)
EXTENDS ArtifactDesk, FiniteSetTheorems, TLAPS

-----------------------------------------------------------------------------
(* Extremes of sets of naturals.                                           *)

\* A finite set of naturals has a least and a greatest element: of the finite sets that
\* had none a smallest would be one element more than a set that has one.
LEMMA Extremes ==
    ASSUME NEW S \in SUBSET Nat, IsFiniteSet(S), S # {}
    PROVE  /\ \E x \in S : \A y \in S : y <= x
           /\ \E x \in S : \A y \in S : x <= y
<1> DEFINE Has(T) == /\ \E x \in T : \A y \in T : y <= x
                     /\ \E x \in T : \A y \in T : x <= y
           Bad == {T \in FiniteSubsetsOf(Nat) : T # {} /\ ~Has(T)}
<1>1. SUFFICES ASSUME Bad # {} PROVE FALSE
  <2>1. S \in FiniteSubsetsOf(Nat)
    BY DEF FiniteSubsetsOf
  <2>2. QED
    BY <2>1
<1>2. IsWellFoundedOn(StrictSubsetOrdering(Nat), FiniteSubsetsOf(Nat))
  BY FS_StrictSubsetOrderingWellFounded
<1>3. Bad \subseteq FiniteSubsetsOf(Nat)
  OBVIOUS
<1>4. PICK T \in Bad : \A U \in Bad : ~(<<U, T>> \in StrictSubsetOrdering(Nat))
  <2> HIDE DEF Bad
  <2>1. QED
    BY <1>1, <1>2, <1>3, WFMin
<1>5. T \in SUBSET Nat /\ IsFiniteSet(T) /\ T # {} /\ ~Has(T)
  BY DEF FiniteSubsetsOf
<1>6. PICK x \in T : TRUE
  BY <1>5
<1>7. PICK U : U = T \ {x}
  OBVIOUS
<1>8. U \in SUBSET Nat /\ U \in FiniteSubsetsOf(Nat) /\ T \in FiniteSubsetsOf(Nat) /\ U # T /\ U \subseteq T
  BY <1>5, <1>6, <1>7, FS_RemoveElement DEF FiniteSubsetsOf
<1>9. U = {} \/ Has(U)
  <2>1. <<U, T>> \in StrictSubsetOrdering(Nat)
    <3>1. <<U, T>> \in (SUBSET Nat) \X (SUBSET Nat) /\ <<U, T>>[1] = U /\ <<U, T>>[2] = T
      BY <1>5, <1>8
    <3>2. QED
      BY <1>8, <3>1, Zenon DEF StrictSubsetOrdering
  <2>2. QED
    BY <1>4, <1>8, <2>1
<1>10. CASE U = {}
  BY <1>5, <1>6, <1>7, <1>10
<1>11. CASE Has(U)
  <2>1. PICK m \in U : \A y \in U : y <= m
    BY <1>11
  <2>2. PICK l \in U : \A y \in U : l <= y
    BY <1>11
  <2>3. x \in Nat /\ m \in Nat /\ l \in Nat /\ \A y \in T : y \in Nat /\ (y = x \/ y \in U)
    BY <1>5, <1>6, <1>7, <1>8
  <2>4. \E z \in T : \A y \in T : y <= z
    BY <1>6, <1>8, <2>1, <2>3
  <2>5. \E z \in T : \A y \in T : z <= y
    BY <1>6, <1>8, <2>2, <2>3
  <2>6. QED
    BY <1>5, <2>4, <2>5
<1>12. QED
  BY <1>9, <1>10, <1>11

LEMMA MaxBound ==
    ASSUME NEW S \in SUBSET Nat, NEW b \in Nat, \A x \in S : x <= b, S # {}
    PROVE  Max(S) \in S /\ \A y \in S : y <= Max(S)
<1>1. IsFiniteSet(S)
  BY FS_BoundedSetOfNaturals
<1>2. PICK x \in S : \A y \in S : x >= y
  BY <1>1, Extremes
<1>3. QED
  BY <1>2 DEF Max

LEMMA Least ==
    ASSUME NEW S \in SUBSET Nat, S # {}
    PROVE  \E x \in S : \A y \in S : x <= y
<1>1. PICK b \in S : TRUE
  OBVIOUS
<1>2. PICK T : T = {y \in S : y <= b}
  OBVIOUS
<1>3. T \in SUBSET Nat /\ T # {} /\ b \in Nat /\ \A y \in T : y <= b
  <2>1. b \in Nat /\ b \in T
    BY <1>1, <1>2
  <2>2. QED
    BY <1>2, <2>1
<1>4. IsFiniteSet(T)
  BY <1>3, FS_BoundedSetOfNaturals
<1>5. PICK x \in T : \A y \in T : x <= y
  BY <1>3, <1>4, Extremes
<1>6. x \in Nat /\ x <= b /\ x \in S
  BY <1>2, <1>3
<1>7. \A y \in S : x <= y
  BY <1>2, <1>3, <1>5, <1>6
<1>8. QED
  BY <1>6, <1>7
-----------------------------------------------------------------------------
(* Types.                                                                  *)

InvalidateRequest == [op : {"invalidate"}, artifact : Artifact, qa : BOOLEAN]
ComplianceRequest == [op : {"compliance"}, artifact : Artifact, pass : BOOLEAN, at : Nat]
ChiefRequest ==
    [op : {"chief"}, artifact : Artifact, manifest : Manifest, media : QaStatus, at : Nat]
JudgedRequest ==
    [op : {"judged"}, artifact : Artifact, manifest : Manifest, at : Nat, pass : BOOLEAN]
EligibilityRequest ==
    [op : {"eligibility"}, artifact : Artifact, platform : Platform,
     chief : ChiefAudit \cup {NoAudit}, late : BOOLEAN]
Request ==
    InvalidateRequest \cup ComplianceRequest \cup ChiefRequest \cup JudgedRequest
      \cup EligibilityRequest

\* The requests whose row will be dated, of the compliance auditor and of the Chief Auditor.
DatedOps == {"compliance", "chief", "judged"}

\* b is no earlier than any audit, committed or in progress.
Latest(b) ==
    /\ \A k \in compliance \cup chiefs : k.at <= b
    /\ \A s \in Session : tx[s].op \in DatedOps => tx[s].at <= b

Types ==
    /\ TypeOK
    /\ folded \in [compliance : SUBSET ComplianceAudit, chiefs : SUBSET ChiefAudit]
    /\ tx \in [Session -> {Idle} \cup Request]
    /\ \A s \in Session : tx[s] # Idle => tx[s].artifact \in artifacts
    /\ \A k \in compliance \cup chiefs : k.artifact \in artifacts
    /\ IsFiniteSet(artifacts) /\ IsFiniteSet(compliance)
    /\ \E b \in Nat : Latest(b)

LEMMA Kinds ==
    ASSUME NEW t \in {Idle} \cup Request
    PROVE  /\ t.op \in {"idle", "invalidate", "eligibility"} \cup DatedOps
           /\ t.op = "idle" <=> t = Idle
           /\ t # Idle => t \in Request /\ t.artifact \in Artifact
           /\ t.op = "invalidate" => t \in InvalidateRequest
           /\ t.op = "compliance" => t \in ComplianceRequest
           /\ t.op = "chief" => t \in ChiefRequest
           /\ t.op = "judged" => t \in JudgedRequest
           /\ t.op = "eligibility" => t \in EligibilityRequest
           /\ t.op \in DatedOps => t.at \in Nat
  BY DEF Idle, Request, InvalidateRequest, ComplianceRequest, ChiefRequest, JudgedRequest,
         EligibilityRequest, DatedOps

\* An audit that begins is dated after every audit of its artifact, and after those in
\* progress.
LEMMA DatedLast ==
    ASSUME Types, NEW a \in Artifact, NEW audits \in SUBSET (compliance \cup chiefs),
           NEW ops \in SUBSET DatedOps, NEW n, n = CreatedAt(audits, ops, a)
    PROVE  /\ n \in Nat
           /\ \A k \in Of(audits, a) : k.at < n
           /\ \A s \in Session : tx[s].op \in ops /\ tx[s].artifact = a => tx[s].at < n
<1>1. PICK R : R = {r \in Session : tx[r].op \in ops /\ tx[r].artifact = a}
  OBVIOUS
<1>2. PICK S : S = {0} \cup {k.at : k \in Of(audits, a)} \cup {tx[s].at : s \in R}
  OBVIOUS
<1>3. \A k \in Of(audits, a) : k \in compliance \cup chiefs /\ k.at \in Nat
  BY DEF Types, TypeOK, ComplianceAudit, ChiefAudit, Of
<1>4. \A s \in R : tx[s].op \in DatedOps /\ tx[s].at \in Nat
  BY <1>1, Kinds DEF Types
<1>5. PICK b \in Nat : Latest(b)
  BY DEF Types
<1>6. S \in SUBSET Nat /\ S # {}
  BY <1>2, <1>3, <1>4
<1>7. \A x \in S : x <= b
  BY <1>1, <1>2, <1>3, <1>4, <1>5 DEF Latest
<1>8. Max(S) \in Nat /\ \A y \in S : y <= Max(S)
  BY <1>5, <1>6, <1>7, MaxBound
<1>9. n = Max(S) + 1
  BY <1>1, <1>2 DEF CreatedAt
<1>10. \A y \in S : y \in Nat /\ y < n
  BY <1>6, <1>8, <1>9
<1>11. \A k \in Of(audits, a) : k.at \in S
  BY <1>2
<1>12. \A s \in R : tx[s].at \in S
  BY <1>2
<1>13. QED
  BY <1>1, <1>8, <1>9, <1>10, <1>11, <1>12

-----------------------------------------------------------------------------
(* The steps, by what they do to the requests.                             *)

\* A request is opened, with what it has read.
Opens(s, t) ==
    /\ t \in Request /\ t.artifact \in artifacts /\ tx[s] = Idle
    /\ tx' = [tx EXCEPT ![s] = t]
    /\ UNCHANGED <<tables, schema, folded>>
    /\ t.op = "invalidate" /\ t.qa => qa[t.artifact] # "missing"
    /\ t.op = "compliance" =>
        /\ t.pass => qa[t.artifact] = "pass"
        /\ Insertable(compliance, t.artifact)
        /\ t.at = CreatedAt(compliance, {"compliance"}, t.artifact)
    /\ t.op = "chief" =>
        /\ t.media = qa[t.artifact]
        /\ t.at = CreatedAt(chiefs, {"chief", "judged"}, t.artifact)
    /\ t.op # "judged"
    /\ t.op = "eligibility" =>
        /\ t.chief \in FirstOf(chiefs, t.artifact)
        /\ t.late => [artifact |-> t.artifact, qa |-> TRUE] \in withdrawn

Begins(s, a) ==
    \/ ComplianceRequests(s, a)
    \/ BeginInvalidate(s, a)
    \/ BeginCompliance(s, a)
    \/ BeginChief(s, a)

LEMMA Begun ==
    ASSUME Types, NEW s \in Session, tx[s] = Idle, NEW a \in artifacts, Begins(s, a)
    PROVE  \E t \in Request : Opens(s, t)
<1>1. a \in Artifact /\ qa[a] \in QaStatus /\ manifest \in BOOLEAN
  BY DEF Types, TypeOK, FinalArtifact, Manifest
<1>2. CASE BeginInvalidate(s, a)
  <2>1. PICK t : t = [op |-> "invalidate", artifact |-> a, qa |-> qa[a] # "missing"]
    OBVIOUS
  <2>2. t \in InvalidateRequest
    BY <1>1, <2>1 DEF InvalidateRequest
  <2>3. Begin(s, t)
    BY <1>2, <2>1 DEF BeginInvalidate
  <2>4. Opens(s, t)
    BY <2>1, <2>2, <2>3 DEF Opens, Begin, Request
  <2>5. QED
    BY <2>4 DEF Opens
<1>3. ASSUME NEW pass \in BOOLEAN, BeginAudit(s, a, pass), pass => qa[a] = "pass"
      PROVE  \E t \in Request : Opens(s, t)
  <2>1. PICK n : n = CreatedAt(compliance, {"compliance"}, a)
    OBVIOUS
  <2>2. n \in Nat
    <3>1. {"compliance"} \in SUBSET DatedOps
      BY DEF DatedOps
    <3>2. compliance \in SUBSET (compliance \cup chiefs)
      OBVIOUS
    <3>3. QED
      BY <1>1, <2>1, <3>1, <3>2, DatedLast
  <2>3. PICK t : t = [op |-> "compliance", artifact |-> a, pass |-> pass, at |-> n]
    OBVIOUS
  <2>4. t \in ComplianceRequest
    BY <1>1, <2>2, <2>3 DEF ComplianceRequest
  <2>5. Begin(s, t) /\ Insertable(compliance, a)
    BY <1>3, <2>1, <2>3 DEF BeginAudit
  <2>6. t.op = "compliance" /\ t.artifact = a /\ t.pass = pass /\ t.at = n
    BY <2>3
  <2>7. Opens(s, t)
    BY <1>3, <2>1, <2>6, <2>4, <2>5 DEF Opens, Begin, Request
  <2>8. QED
    BY <2>7 DEF Opens
<1>4. CASE BeginChief(s, a)
  <2>1. PICK n : n = CreatedAt(chiefs, {"chief", "judged"}, a)
    OBVIOUS
  <2>2. n \in Nat
    <3>1. {"chief", "judged"} \in SUBSET DatedOps
      BY DEF DatedOps
    <3>2. chiefs \in SUBSET (compliance \cup chiefs)
      OBVIOUS
    <3>3. QED
      BY <1>1, <2>1, <3>1, <3>2, DatedLast
  <2>3. PICK t : t = [op |-> "chief", artifact |-> a, manifest |-> manifest, media |-> qa[a], at |-> n]
    OBVIOUS
  <2>4. t \in ChiefRequest
    BY <1>1, <2>2, <2>3 DEF ChiefRequest, Manifest
  <2>5. Begin(s, t)
    BY <1>4, <2>1, <2>3 DEF BeginChief
  <2>6. t.op = "chief" /\ t.artifact = a /\ t.media = qa[a] /\ t.at = n
    BY <2>3
  <2>7. Opens(s, t)
    BY <2>1, <2>6, <2>4, <2>5 DEF Opens, Begin, Request
  <2>8. QED
    BY <2>7 DEF Opens
<1>5. ASSUME NEW p \in Platform, BeginEligibility(s, a, p)
      PROVE  \E t \in Request : Opens(s, t)
  <2>1. PICK chief \in FirstOf(chiefs, a) :
            Begin(s, [op |-> "eligibility", artifact |-> a, platform |-> p, chief |-> chief,
                      late |-> [artifact |-> a, qa |-> TRUE] \in withdrawn])
    BY <1>5 DEF BeginEligibility
  <2>2. chief \in ChiefAudit \cup {NoAudit}
    BY DEF Types, TypeOK, FirstOf, Of
  <2>3. PICK t : t = [op |-> "eligibility", artifact |-> a, platform |-> p, chief |-> chief,
                      late |-> [artifact |-> a, qa |-> TRUE] \in withdrawn]
    OBVIOUS
  <2>4. t \in EligibilityRequest
    BY <1>1, <2>2, <2>3 DEF EligibilityRequest
  <2>5. Begin(s, t)
    BY <2>1, <2>3
  <2>6. t.op = "eligibility" /\ t.artifact = a /\ t.chief = chief
        /\ t.late = ([artifact |-> a, qa |-> TRUE] \in withdrawn)
    BY <2>3
  <2>7. Opens(s, t)
    BY <2>1, <2>6, <2>4, <2>5 DEF Opens, Begin, Request
  <2>8. QED
    BY <2>7 DEF Opens
<1>6. QED
  <2>1. CASE RequestCompliance(s, a)
    BY <1>3, <2>1 DEF RequestCompliance
  <2>2. CASE BeginCompliance(s, a)
    BY <1>3, <2>2 DEF BeginCompliance
  <2>3. QED
    BY <1>2, <1>4, <1>5, <2>1, <2>2 DEF Begins, ComplianceRequests

\* What a step of a request may be.
Ends(s) ==
    \/ EndInvalidate(s)
    \/ EndCompliance(s)
    \/ EndChief(s)
    \/ EndEligibility(s)
    \/ RollBack(s)

LEMMA Steps ==
    ASSUME Types, Next
    PROVE  \/ \E a \in Artifact : CreateArtifact(a)
           \/ \E a \in Artifact, status \in {"pass", "blocked"} : CreateMediaQa(a, status)
           \/ \E k \in compliance : InvalidateCompliance(k)
           \/ \E s \in Session, t \in Request : Opens(s, t)
           \/ \E s \in Session : JudgeChief(s)
           \/ \E s \in Session : Ends(s)
           \/ Upgrade
           \/ Downgrade
<1>1. ASSUME NEW s \in Session, tx[s] = Idle, NEW a \in artifacts, Begins(s, a)
      PROVE  \E r \in Session, t \in Request : Opens(r, t)
  BY <1>1, Begun
<1>2. QED
  BY <1>1 DEF Next, Begins, Ends

\* A request that ends leaves the other requests alone.
LEMMA Closing ==
    ASSUME Types, NEW s \in Session, Ends(s)
    PROVE  /\ tx' = [tx EXCEPT ![s] = Idle]
           /\ tx[s] \in Request /\ tx[s].artifact \in artifacts
           /\ UNCHANGED <<artifacts, qa, revoked, schema, folded>>
<1>1. tx[s] \in {Idle} \cup Request
  BY DEF Types
<1>2. tx[s].op # "idle"
  BY DEF Ends, EndInvalidate, EndCompliance, EndChief, EndEligibility, RollBack
<1>3. tx[s] \in Request /\ tx[s].artifact \in artifacts
  BY <1>1, <1>2, Kinds DEF Types
<1>4. CASE RollBack(s)
  BY <1>3, <1>4 DEF RollBack, Commit, tables
<1>5. QED
  BY <1>3, <1>4 DEF Ends, EndInvalidate, EndCompliance, EndChief, EndEligibility, Commit

\* A row that names the Chief Auditor's audit names one of its artifact that is there.
Refs ==
    /\ \A e \in eligibility : e.chief # NoAudit => e.chief \in Of(chiefs, e.artifact)
    /\ \A s \in Session :
          tx[s].op = "eligibility" /\ tx[s].chief # NoAudit => tx[s].chief \in Of(chiefs, tx[s].artifact)

-----------------------------------------------------------------------------
(* The types are kept.                                                     *)

\* The other requests, and the one that has moved.
LEMMA Moved ==
    ASSUME Types, NEW s \in Session, NEW t, tx' = [tx EXCEPT ![s] = t]
    PROVE  tx'[s] = t /\ \A r \in Session : r # s => tx'[r] = tx[r]
  BY DEF Types

LEMMA PassFlags ==
    ASSUME NEW k, k = NoAudit \/ k \in ComplianceAudit
    PROVE  k.pass \in BOOLEAN
<1>1. CASE k = NoAudit
  BY <1>1 DEF NoAudit
<1>2. CASE k \in ComplianceAudit
  BY <1>2 DEF ComplianceAudit
<1>3. QED
  BY <1>1, <1>2

\* The audit a downgrade leaves of an artifact.
LEMMA EarliestFirst ==
    ASSUME NEW audits \in SUBSET ComplianceAudit, NEW k \in audits, NEW c, c = Earliest(audits, k)
    PROVE  /\ c \in audits /\ c.artifact = k.artifact
           /\ \A d \in audits : d.artifact = k.artifact => c.at <= d.at
<1>1. PICK S : S = {d.at : d \in Of(audits, k.artifact)}
  OBVIOUS
<1>2. S \in SUBSET Nat /\ S # {}
  BY <1>1 DEF Of, ComplianceAudit
<1>3. PICK x \in S : \A y \in S : x <= y
  BY <1>2, Least
<1>4. PICK l \in Of(audits, k.artifact) : l.at = x
  BY <1>1
<1>5. \A d \in Of(audits, k.artifact) : l.at <= d.at
  BY <1>1, <1>3, <1>4
<1>6. c \in Of(audits, k.artifact) /\ \A d \in Of(audits, k.artifact) : c.at <= d.at
  BY <1>4, <1>5 DEF Earliest
<1>7. QED
  BY <1>6 DEF Of

LEMMA TypesStart == Init => Types
<1> SUFFICES ASSUME Init PROVE Types
  OBVIOUS
<1>1. TypeOK
  BY DEF Init, TypeOK, FinalArtifact, QaStatus, Readiness, Manifest
<1>2. IsFiniteSet({})
  BY FS_EmptySet
<1>3. Latest(0)
  BY DEF Init, Latest, Idle, DatedOps
<1>4. folded \in [compliance : SUBSET ComplianceAudit, chiefs : SUBSET ChiefAudit]
  BY DEF Init
<1>5. QED
  BY <1>1, <1>2, <1>3, <1>4 DEF Init, Types

LEMMA TypesStep ==
    ASSUME Types, Refs, [Next]_vars
    PROVE  Types'
<1> USE DEF Types
<1>1. CASE UNCHANGED vars
  BY <1>1 DEF vars, tables, TypeOK, Latest
<1>2. PICK b \in Nat : Latest(b)
  OBVIOUS
<1>3. ASSUME NEW a \in Artifact, CreateArtifact(a)
      PROVE  Types'
  <2>1. IsFiniteSet(artifacts')
    BY <1>3, FS_AddElement DEF CreateArtifact
  <2>2. TypeOK'
    BY <1>3 DEF CreateArtifact, TypeOK, FinalArtifact
  <2>3. Latest(b)'
    BY <1>2, <1>3 DEF CreateArtifact, Latest
  <2>4. QED
    BY <1>3, <2>1, <2>2, <2>3 DEF CreateArtifact
<1>4. ASSUME NEW a \in Artifact, NEW status \in {"pass", "blocked"}, CreateMediaQa(a, status)
      PROVE  Types'
  <2>1. status \in QaStatus /\ status \in Readiness
    BY DEF QaStatus, Readiness
  <2>2. TypeOK'
    BY <1>4, <2>1 DEF CreateMediaQa, TypeOK
  <2>3. Latest(b)'
    BY <1>2, <1>4 DEF CreateMediaQa, Latest
  <2>4. QED
    BY <1>4, <2>2, <2>3 DEF CreateMediaQa
<1>5. ASSUME NEW k \in compliance, InvalidateCompliance(k)
      PROVE  Types'
  <2>1. TypeOK'
    BY <1>5 DEF InvalidateCompliance, TypeOK, ComplianceInvalidation
  <2>2. Latest(b)'
    BY <1>2, <1>5 DEF InvalidateCompliance, Latest
  <2>3. QED
    BY <1>5, <2>1, <2>2 DEF InvalidateCompliance
<1>6. ASSUME NEW s \in Session, NEW t \in Request, Opens(s, t)
      PROVE  Types'
  <2>1. TypeOK' /\ UNCHANGED <<artifacts, compliance, chiefs, folded>>
    BY <1>6 DEF Opens, TypeOK, tables
  <2>2. tx' = [tx EXCEPT ![s] = t] /\ t.artifact \in artifacts
    BY <1>6 DEF Opens
  <2>3. tx' \in [Session -> {Idle} \cup Request]
    BY <2>2
  <2>4. tx'[s] = t /\ \A r \in Session : r # s => tx'[r] = tx[r]
    BY <2>2, Moved
  <2>5. \A r \in Session : tx'[r] # Idle => tx'[r].artifact \in artifacts
    BY <2>2, <2>4
  <2>6. \E c \in Nat : Latest(c)'
    <3>1. CASE t.op \notin DatedOps
      BY <1>2, <2>1, <2>4, <3>1 DEF Latest
    <3>2. CASE t.op \in DatedOps
      <4>1. t.at \in Nat
        BY <3>2, Kinds
      <4>2. PICK c \in Nat : b <= c /\ t.at <= c
        BY <4>1
      <4>3. \A k \in compliance \cup chiefs : k.at \in Nat
        BY DEF TypeOK, ComplianceAudit, ChiefAudit
      <4>4. \A k \in compliance \cup chiefs : k.at <= c
        BY <1>2, <4>2, <4>3 DEF Latest
      <4>5. \A r \in Session : r # s /\ tx[r].op \in DatedOps => tx[r].at <= c
        <5>1. \A r \in Session : tx[r].op \in DatedOps => tx[r].at \in Nat
          BY Kinds
        <5>2. QED
          BY <1>2, <4>2, <5>1 DEF Latest
      <4>6. Latest(c)'
        BY <2>1, <2>4, <4>2, <4>4, <4>5 DEF Latest
      <4>7. QED
        BY <4>6
    <3>3. QED
      BY <3>1, <3>2
  <2>7. QED
    BY <2>1, <2>3, <2>5, <2>6
<1>7. ASSUME NEW s \in Session, JudgeChief(s)
      PROVE  Types'
  <2>1. TypeOK' /\ UNCHANGED <<artifacts, compliance, chiefs, folded>>
    BY <1>7 DEF JudgeChief, TypeOK, tables
  <2>2. tx[s] \in ChiefRequest /\ tx[s].artifact \in artifacts
    BY <1>7, Kinds DEF JudgeChief, Idle
  <2>3. PICK audit \in FirstOf(compliance, tx[s].artifact) :
            tx' = [tx EXCEPT ![s] =
                [op |-> "judged", artifact |-> @.artifact, manifest |-> @.manifest, at |-> @.at,
                 pass |-> ChiefPasses(@.media, audit)]]
    BY <1>7 DEF JudgeChief
  <2> DEFINE t == [op |-> "judged", artifact |-> tx[s].artifact, manifest |-> tx[s].manifest,
                   at |-> tx[s].at, pass |-> ChiefPasses(tx[s].media, audit)]
  <2>4. audit.pass \in BOOLEAN
    <3>1. audit = NoAudit \/ audit \in ComplianceAudit
      BY <2>3 DEF FirstOf, Of, TypeOK
    <3>2. QED
      BY <3>1, PassFlags
  <2>5. ChiefPasses(tx[s].media, audit) \in BOOLEAN
    BY <2>4 DEF ChiefPasses
  <2>6. t \in JudgedRequest /\ t.at = tx[s].at /\ t.artifact = tx[s].artifact
    BY <2>2, <2>3, <2>5 DEF JudgedRequest, ChiefRequest
  <2>7. t \in Request
    BY <2>6 DEF Request
  <2>8. tx'[s] = t /\ \A r \in Session : r # s => tx'[r] = tx[r]
    BY <2>3, Moved
  <2>9. Latest(b)'
    BY <1>2, <1>7, <2>1, <2>6, <2>8 DEF Latest, JudgeChief, DatedOps
  <2>10. tx' \in [Session -> {Idle} \cup Request]
    BY <2>3, <2>7
  <2>11. \A r \in Session : tx'[r] # Idle => tx'[r].artifact \in artifacts
    BY <2>2, <2>6, <2>8
  <2>12. QED
    BY <2>1, <2>9, <2>10, <2>11
<1>8. ASSUME NEW s \in Session, Ends(s)
      PROVE  Types'
  <2>1. tx' = [tx EXCEPT ![s] = Idle] /\ tx[s] \in Request /\ tx[s].artifact \in artifacts
        /\ UNCHANGED <<artifacts, qa, revoked, schema, folded>>
    BY <1>8, Closing
  <2>2. tx'[s] = Idle /\ \A r \in Session : r # s => tx'[r] = tx[r]
    BY <2>1, Moved
  <2>3. tx' \in [Session -> {Idle} \cup Request] /\ \A r \in Session : tx'[r] # Idle => tx'[r].artifact \in artifacts
    BY <2>1, <2>2
  <2>4. \A r \in Session : tx'[r].op \in DatedOps => tx'[r].op = tx[r].op /\ tx'[r].at = tx[r].at
    BY <2>2 DEF Idle, DatedOps
  <2>5. CASE EndInvalidate(s)
    <3>1. tx[s] \in InvalidateRequest
      BY <2>1, <2>5, Kinds DEF EndInvalidate
    <3>2. withdrawn' \subseteq Withdrawal
      BY <2>5, <3>1 DEF EndInvalidate, InvalidateRequest, Withdrawal, TypeOK
    <3>3. readiness' \in [Artifact -> Readiness]
      BY <2>5, <3>1 DEF EndInvalidate, Withdrawn, Readiness, TypeOK
    <3>4. TypeOK'
      BY <2>5, <3>2, <3>3 DEF EndInvalidate, TypeOK
    <3>5. Latest(b)'
      BY <1>2, <2>4, <2>5 DEF Latest, EndInvalidate
    <3>6. QED
      BY <2>1, <2>3, <2>5, <3>4, <3>5 DEF EndInvalidate
  <2>6. CASE EndCompliance(s)
    <3>1. tx[s] \in ComplianceRequest
      BY <2>1, <2>6, Kinds DEF EndCompliance
    <3>2. PICK k : k = [artifact |-> tx[s].artifact, pass |-> tx[s].pass, at |-> tx[s].at]
      OBVIOUS
    <3>3. compliance' = compliance \cup {k} /\ UNCHANGED chiefs
      BY <2>6, <3>2 DEF EndCompliance
    <3>4. k \in ComplianceAudit
      BY <3>1, <3>2 DEF ComplianceRequest, ComplianceAudit
    <3>5. TypeOK'
      BY <2>6, <3>3, <3>4 DEF EndCompliance, TypeOK
    <3>6. IsFiniteSet(compliance')
      BY <3>3, FS_AddElement
    <3>7. k.at = tx[s].at /\ k.artifact = tx[s].artifact /\ tx[s].op = "compliance"
      BY <2>6, <3>2 DEF EndCompliance
    <3>8. Latest(b)'
      BY <1>2, <2>4, <3>3, <3>7 DEF Latest, DatedOps
    <3>9. QED
      BY <2>1, <2>3, <3>3, <3>5, <3>6, <3>7, <3>8
  <2>7. CASE EndChief(s)
    <3>1. tx[s] \in JudgedRequest
      BY <2>1, <2>7, Kinds DEF EndChief
    <3>2. PICK k : k = [artifact |-> tx[s].artifact, pass |-> tx[s].pass, at |-> tx[s].at]
      OBVIOUS
    <3>3. chiefs' = chiefs \cup {k} /\ UNCHANGED compliance
      BY <2>7, <3>2 DEF EndChief
    <3>4. k \in ChiefAudit
      BY <3>1, <3>2 DEF JudgedRequest, ChiefAudit, ComplianceAudit
    <3>5. TypeOK'
      BY <2>7, <3>3, <3>4 DEF EndChief, TypeOK, Manifest
    <3>6. k.at = tx[s].at /\ k.artifact = tx[s].artifact /\ tx[s].op = "judged"
      BY <2>7, <3>2 DEF EndChief
    <3>7. Latest(b)'
      BY <1>2, <2>4, <3>3, <3>6 DEF Latest, DatedOps
    <3>8. QED
      BY <2>1, <2>3, <3>3, <3>5, <3>6, <3>7
  <2>8. CASE EndEligibility(s)
    <3>1. tx[s] \in EligibilityRequest
      BY <2>1, <2>8, Kinds DEF EndEligibility
    <3>2. tx[s].chief.pass \in BOOLEAN
      <4>1. tx[s].chief \in ChiefAudit \/ tx[s].chief = NoAudit
        BY <3>1 DEF EligibilityRequest
      <4>2. QED
        BY <4>1, PassFlags DEF ChiefAudit
    <3>3. Determined(tx[s], readiness[tx[s].artifact]) \in Eligibility
      BY <3>1, <3>2 DEF Determined, Eligibility, EligibilityRequest
    <3>4. eligibility' \subseteq Eligibility
      BY <2>8, <3>3 DEF EndEligibility, TypeOK
    <3>5. TypeOK'
      BY <2>8, <3>4 DEF EndEligibility, TypeOK
    <3>6. Latest(b)'
      BY <1>2, <2>4, <2>8 DEF Latest, EndEligibility
    <3>7. QED
      BY <2>1, <2>3, <2>8, <3>5, <3>6 DEF EndEligibility
  <2>9. CASE RollBack(s)
    <3>1. TypeOK' /\ UNCHANGED <<artifacts, compliance, chiefs, folded>>
      BY <2>9 DEF RollBack, tables, TypeOK
    <3>2. Latest(b)'
      BY <1>2, <2>4, <3>1 DEF Latest
    <3>3. QED
      BY <2>3, <3>1, <3>2
  <2>10. QED
    BY <1>8, <2>5, <2>6, <2>7, <2>8, <2>9 DEF Ends
<1>9. CASE Upgrade
  <2>1. TypeOK'
    BY <1>9 DEF Upgrade, tables, TypeOK
  <2>2. Latest(b)'
    BY <1>2, <1>9 DEF Latest, Upgrade, tables
  <2>3. QED
    BY <1>9, <2>1, <2>2 DEF Upgrade, tables
<1>10. CASE Downgrade
  <2>1. compliance' \subseteq compliance /\ chiefs' \subseteq chiefs
    BY <1>10 DEF Downgrade
  <2>2. IsFiniteSet(compliance')
    BY <2>1, FS_Subset
  <2>3. ASSUME NEW e \in eligibility
        PROVE  Repointed(e) \in Eligibility
    <3>1. e \in Eligibility
      BY DEF TypeOK
    <3>2. CASE e.chief = NoAudit
      BY <3>1, <3>2 DEF Repointed
    <3>3. CASE e.chief # NoAudit
      <4>1. PICK c : c = Earliest(chiefs, e.chief)
        OBVIOUS
      <4>2. e.chief \in chiefs /\ chiefs \in SUBSET ComplianceAudit
        BY <3>3 DEF Refs, Of, TypeOK, ChiefAudit
      <4>3. c \in ChiefAudit
        BY <4>1, <4>2, EarliestFirst DEF ChiefAudit
      <4>4. Repointed(e) = [e EXCEPT !.chief = c]
        BY <3>3, <4>1 DEF Repointed
      <4>5. QED
        BY <3>1, <4>3, <4>4 DEF Eligibility
    <3>4. QED
      BY <3>2, <3>3
  <2>4. TypeOK'
    BY <1>10, <2>1, <2>3 DEF Downgrade, TypeOK
  <2>5. folded' \in [compliance : SUBSET ComplianceAudit, chiefs : SUBSET ChiefAudit]
    BY <1>10 DEF Downgrade, TypeOK, Reruns
  <2>6. Latest(b)'
    BY <1>2, <1>10, <2>1 DEF Latest, Downgrade
  <2>7. QED
    BY <1>10, <2>1, <2>2, <2>4, <2>5, <2>6 DEF Downgrade
<1>11. QED
  BY <1>1, <1>3, <1>4, <1>5, <1>6, <1>7, <1>8, <1>9, <1>10, Steps

\* What the Chief Auditor's second read makes of a request.
LEMMA Judging ==
    ASSUME Types, NEW s \in Session, JudgeChief(s)
    PROVE  /\ UNCHANGED <<tables, schema, folded>>
           /\ tx[s].op = "chief" /\ tx[s] \in ChiefRequest
           /\ tx'[s].op = "judged" /\ tx'[s].artifact = tx[s].artifact /\ tx'[s].at = tx[s].at
           /\ tx'[s].pass => /\ tx[s].media = "pass"
                             /\ \E k \in compliance : k.artifact = tx[s].artifact /\ k.pass
           /\ \A r \in Session : r # s => tx'[r] = tx[r]
<1>1. PICK audit \in FirstOf(compliance, tx[s].artifact) :
          tx' = [tx EXCEPT ![s] =
              [op |-> "judged", artifact |-> @.artifact, manifest |-> @.manifest, at |-> @.at,
               pass |-> ChiefPasses(@.media, audit)]]
  BY DEF JudgeChief
<1> DEFINE t == [op |-> "judged", artifact |-> tx[s].artifact, manifest |-> tx[s].manifest,
                 at |-> tx[s].at, pass |-> ChiefPasses(tx[s].media, audit)]
<1>2. tx'[s] = t /\ \A r \in Session : r # s => tx'[r] = tx[r]
  BY <1>1, Moved
<1>3. audit.pass => audit \in Of(compliance, tx[s].artifact)
  BY <1>1 DEF FirstOf, NoAudit
<1>4. t.pass => tx[s].media = "pass" /\ \E k \in compliance : k.artifact = tx[s].artifact /\ k.pass
  BY <1>3 DEF ChiefPasses, Of
<1>5. tx[s].op = "chief" /\ tx[s] \in ChiefRequest
  BY Kinds DEF Types, JudgeChief
<1>6. t.op = "judged" /\ t.artifact = tx[s].artifact /\ t.at = tx[s].at
  OBVIOUS
<1>7. UNCHANGED <<tables, schema, folded>>
  BY DEF JudgeChief
<1>8. QED
  BY <1>2, <1>4, <1>5, <1>6, <1>7

-----------------------------------------------------------------------------
(* A withdrawal holds: nothing sets the readiness of an artifact once it   *)
(* has a QA result, but a withdrawal.                                      *)

\* The readiness row is written with the QA result, and says no more than it.
Rated(a) ==
    /\ qa[a] = "missing" <=> readiness[a] = "missing"
    /\ readiness[a] = "pass" => qa[a] = "pass"
    /\ a \notin artifacts => qa[a] = "missing"

\* What a request has read of withdrawals is still so.
Recalled(s) ==
    /\ tx[s].op = "invalidate" /\ tx[s].qa => qa[tx[s].artifact] # "missing"
    /\ tx[s].op = "eligibility" /\ tx[s].late => readiness[tx[s].artifact] = "invalidated"

Standing ==
    /\ \A a \in Artifact : Rated(a)
    /\ \A s \in Session : Recalled(s)
    /\ WithdrawalHolds

\* No step takes back a QA result or an invalidation of the readiness.
Sticks ==
    \A a \in Artifact :
        /\ qa[a] # "missing" => qa'[a] = qa[a]
        /\ readiness[a] = "invalidated" => readiness'[a] = "invalidated"

LEMMA RatedStep ==
    ASSUME Types, Standing, [Next]_vars
    PROVE  Sticks /\ \A a \in Artifact : Rated(a)'
<1> USE DEF Standing
<1>1. ASSUME UNCHANGED <<artifacts, qa, readiness>>
      PROVE  Sticks /\ \A a \in Artifact : Rated(a)'
  BY <1>1 DEF Sticks, Rated
<1>2. ASSUME NEW a \in Artifact, CreateArtifact(a)
      PROVE  Sticks /\ \A c \in Artifact : Rated(c)'
  BY <1>2 DEF CreateArtifact, Sticks, Rated
<1>3. ASSUME NEW a \in Artifact, NEW status \in {"pass", "blocked"}, CreateMediaQa(a, status)
      PROVE  Sticks /\ \A c \in Artifact : Rated(c)'
  <2>1. \A c \in Artifact : /\ qa'[c] = IF c = a THEN status ELSE qa[c]
                            /\ readiness'[c] = IF c = a THEN status ELSE readiness[c]
    BY <1>3 DEF CreateMediaQa, Types, TypeOK
  <2>2. qa[a] = "missing" /\ readiness[a] = "missing" /\ a \in artifacts /\ artifacts' = artifacts
    BY <1>3 DEF CreateMediaQa, Rated
  <2>3. QED
    BY <2>1, <2>2 DEF Sticks, Rated
<1>4. ASSUME NEW s \in Session, EndInvalidate(s)
      PROVE  Sticks /\ \A c \in Artifact : Rated(c)'
  <2>1. \A c \in Artifact :
            readiness'[c] = IF c = tx[s].artifact /\ readiness[c] # "missing" THEN "invalidated" ELSE readiness[c]
    BY <1>4 DEF EndInvalidate, Withdrawn, Types, TypeOK
  <2>2. UNCHANGED <<artifacts, qa>>
    BY <1>4 DEF EndInvalidate
  <2>3. QED
    BY <2>1, <2>2 DEF Sticks, Rated
<1>5. ASSUME NEW s \in Session, Ends(s), ~EndInvalidate(s)
      PROVE  UNCHANGED <<artifacts, qa, readiness>>
  BY <1>5 DEF Ends, EndCompliance, EndChief, EndEligibility, RollBack, tables
<1>6. ASSUME NEW k \in compliance, InvalidateCompliance(k)
      PROVE  UNCHANGED <<artifacts, qa, readiness>>
  BY <1>6 DEF InvalidateCompliance
<1>7. ASSUME NEW s \in Session, NEW t \in Request, Opens(s, t)
      PROVE  UNCHANGED <<artifacts, qa, readiness>>
  BY <1>7 DEF Opens, tables
<1>8. ASSUME NEW s \in Session, JudgeChief(s)
      PROVE  UNCHANGED <<artifacts, qa, readiness>>
  BY <1>8 DEF JudgeChief, tables
<1>9. Upgrade \/ Downgrade => UNCHANGED <<artifacts, qa, readiness>>
  BY DEF Upgrade, Downgrade, tables
<1>10. UNCHANGED vars => UNCHANGED <<artifacts, qa, readiness>>
  BY DEF vars, tables
<1>11. QED
  BY <1>1, <1>2, <1>3, <1>4, <1>5, <1>6, <1>7, <1>8, <1>9, <1>10, Steps

LEMMA StandingStep ==
    ASSUME Types, Standing, [Next]_vars
    PROVE  Standing'
<1> USE DEF Standing
<1>1. Sticks /\ \A a \in Artifact : Rated(a)'
  BY RatedStep
<1>2. \A s \in Session : tx[s] \in {Idle} \cup Request
  BY DEF Types
<1>3. \A s \in Session : tx[s].op \in {"invalidate", "eligibility"} => tx[s].artifact \in Artifact
  BY <1>2, Kinds DEF Idle
<1>4. ASSUME NEW s \in Session, tx'[s] = tx[s]
      PROVE  Recalled(s)'
  BY <1>1, <1>3, <1>4 DEF Recalled, Sticks
<1>5. ASSUME NEW s \in Session, tx'[s].op \notin {"invalidate", "eligibility"}
      PROVE  Recalled(s)'
  BY <1>5 DEF Recalled
<1>6. \A w \in withdrawn : w.artifact \in Artifact /\ (w.qa => readiness'[w.artifact] = "invalidated")
  BY <1>1 DEF Types, TypeOK, Withdrawal, WithdrawalHolds, Sticks
<1>7. ASSUME UNCHANGED <<withdrawn, eligibility>>
      PROVE  WithdrawalHolds'
  BY <1>6, <1>7 DEF WithdrawalHolds
<1>8. CASE UNCHANGED vars
  BY <1>1, <1>4, <1>7, <1>8 DEF vars, tables
<1>9. ASSUME NEW a \in Artifact, CreateArtifact(a)
      PROVE  Standing'
  BY <1>1, <1>4, <1>7, <1>9 DEF CreateArtifact
<1>10. ASSUME NEW a \in Artifact, NEW status \in {"pass", "blocked"}, CreateMediaQa(a, status)
       PROVE  Standing'
  BY <1>1, <1>4, <1>7, <1>10 DEF CreateMediaQa
<1>11. ASSUME NEW k \in compliance, InvalidateCompliance(k)
       PROVE  Standing'
  BY <1>1, <1>4, <1>7, <1>11 DEF InvalidateCompliance
<1>12. ASSUME NEW s \in Session, NEW t \in Request, Opens(s, t)
       PROVE  Standing'
  <2>1. tx'[s] = t /\ (\A r \in Session : r # s => tx'[r] = tx[r]) /\ UNCHANGED <<qa, readiness, withdrawn, eligibility>>
    BY <1>12, Moved DEF Opens, tables
  <2>2. t.op = "invalidate" /\ t.qa => qa[t.artifact] # "missing"
    BY <1>12 DEF Opens
  <2>3. t.op = "eligibility" /\ t.late => readiness[t.artifact] = "invalidated"
    <3>1. PICK w : w = [artifact |-> t.artifact, qa |-> TRUE]
      OBVIOUS
    <3>2. w.artifact = t.artifact /\ w.qa = TRUE
      BY <3>1
    <3>3. t.op = "eligibility" /\ t.late => w \in withdrawn
      BY <1>12, <3>1 DEF Opens
    <3>4. QED
      BY <3>2, <3>3 DEF WithdrawalHolds
  <2>4. Recalled(s)'
    BY <2>1, <2>2, <2>3 DEF Recalled
  <2>5. QED
    BY <1>1, <1>4, <1>7, <2>1, <2>4
<1>13. ASSUME NEW s \in Session, JudgeChief(s)
       PROVE  Standing'
  <2>1. tx'[s].op = "judged" /\ (\A r \in Session : r # s => tx'[r] = tx[r]) /\ UNCHANGED <<withdrawn, eligibility>>
    BY <1>13, Judging DEF tables
  <2>2. Recalled(s)'
    BY <1>5, <2>1
  <2>3. QED
    BY <1>1, <1>4, <1>7, <2>1, <2>2
<1>14. ASSUME NEW s \in Session, Ends(s)
       PROVE  Standing'
  <2>1. tx' = [tx EXCEPT ![s] = Idle] /\ tx[s] \in Request
    BY <1>14, Closing
  <2>2. tx'[s] = Idle /\ \A r \in Session : r # s => tx'[r] = tx[r]
    BY <2>1, Moved
  <2>3. \A r \in Session : Recalled(r)'
    BY <1>4, <1>5, <2>2 DEF Idle
  <2>4. CASE EndInvalidate(s)
    <3>1. tx[s].op = "invalidate" /\ tx[s] \in InvalidateRequest
      BY <2>1, <2>4, Kinds DEF EndInvalidate
    <3>2. PICK w : w = [artifact |-> tx[s].artifact, qa |-> tx[s].qa]
      OBVIOUS
    <3>3. withdrawn' = withdrawn \cup {w} /\ UNCHANGED eligibility
      BY <2>4, <3>2 DEF EndInvalidate
    <3>4. w.artifact = tx[s].artifact /\ w.qa = tx[s].qa
      BY <3>2
    <3>5. w.artifact \in Artifact
      BY <3>1, <3>4 DEF InvalidateRequest
    <3>6. w.qa => readiness'[w.artifact] = "invalidated"
      <4>1. w.qa => readiness[w.artifact] # "missing"
        BY <3>1, <3>4, <3>5 DEF Recalled, Rated
      <4>2. w.qa => readiness' = [readiness EXCEPT ![w.artifact] = "invalidated"]
        BY <2>4, <3>4, <4>1 DEF EndInvalidate, Withdrawn
      <4>3. readiness \in [Artifact -> Readiness]
        BY DEF Types, TypeOK
      <4>4. QED
        BY <3>5, <4>2, <4>3
    <3>7. WithdrawalHolds'
      BY <1>6, <3>3, <3>6 DEF WithdrawalHolds
    <3>8. QED
      BY <1>1, <2>3, <3>7
  <2>5. CASE EndEligibility(s)
    <3>1. PICK e : e = Determined(tx[s], readiness[tx[s].artifact])
      OBVIOUS
    <3>2. eligibility' = eligibility \cup {e} /\ UNCHANGED withdrawn /\ tx[s].op = "eligibility"
      BY <2>5, <3>1 DEF EndEligibility
    <3>3. e.late = tx[s].late /\ e.media_blocked = (readiness[tx[s].artifact] # "pass")
      BY <3>1 DEF Determined
    <3>4. e.late => e.media_blocked
      BY <3>2, <3>3 DEF Recalled
    <3>5. WithdrawalHolds'
      BY <1>6, <3>2, <3>4 DEF WithdrawalHolds
    <3>6. QED
      BY <1>1, <2>3, <3>5
  <2>6. CASE EndCompliance(s) \/ EndChief(s) \/ RollBack(s)
    <3>1. UNCHANGED <<withdrawn, eligibility>>
      BY <2>6 DEF EndCompliance, EndChief, RollBack, tables
    <3>2. QED
      BY <1>1, <1>7, <2>3, <3>1
  <2>7. QED
    BY <1>14, <2>4, <2>5, <2>6 DEF Ends
<1>15. CASE Upgrade
  BY <1>1, <1>4, <1>7, <1>15 DEF Upgrade, tables
<1>16. CASE Downgrade
  <2>1. \A e \in eligibility : Repointed(e).late = e.late /\ Repointed(e).media_blocked = e.media_blocked
    <3>1. \A e \in eligibility : e \in Eligibility
      BY DEF Types, TypeOK
    <3>2. QED
      BY <3>1 DEF Repointed, Eligibility
  <2>2. eligibility' = {Repointed(e) : e \in eligibility} /\ UNCHANGED <<withdrawn, tx>>
    BY <1>16 DEF Downgrade
  <2>3. WithdrawalHolds'
    BY <1>6, <2>1, <2>2 DEF WithdrawalHolds
  <2>4. QED
    BY <1>1, <1>4, <2>2, <2>3
<1>17. QED
  BY <1>8, <1>9, <1>10, <1>11, <1>12, <1>13, <1>14, <1>15, <1>16, Steps

LEMMA StandingStart == Init => Standing
  BY DEF Init, Standing, Rated, Recalled, WithdrawalHolds, Idle

-----------------------------------------------------------------------------
(* Passes are earned.  What a downgrade deletes is remembered, so the      *)
(* audits there have been only become more.                                *)

Audits == compliance \cup folded.compliance
Chiefs == chiefs \cup folded.chiefs
Audited(a) == \E k \in Audits : k.artifact = a /\ k.pass
Released(a) == \E k \in Chiefs : k.artifact = a /\ k.pass

\* What an audit, and an eligibility row, rest on.
AuditRests(k) == k.artifact \in artifacts /\ (k.pass => qa[k.artifact] = "pass")
ChiefRests(k) == k.pass => qa[k.artifact] = "pass" /\ Audited(k.artifact)
RowRests(e) ==
    /\ ~e.chief_blocked => Released(e.artifact)
    /\ ~e.media_blocked => qa[e.artifact] = "pass"

\* What the request of a session rests on, once it has read it.
RequestRests(s) ==
    /\ tx[s].op = "compliance" /\ tx[s].pass => qa[tx[s].artifact] = "pass"
    /\ tx[s].op = "chief" /\ tx[s].media = "pass" => qa[tx[s].artifact] = "pass"
    /\ tx[s].op = "judged" /\ tx[s].pass => qa[tx[s].artifact] = "pass" /\ Audited(tx[s].artifact)
    /\ tx[s].op = "eligibility" /\ tx[s].chief.pass => Released(tx[s].artifact)

Earned ==
    /\ \A k \in Audits : AuditRests(k)
    /\ \A k \in Chiefs : ChiefRests(k)
    /\ \A e \in eligibility : RowRests(e)
    /\ \A s \in Session : RequestRests(s)

\* What the rest relies on is never taken back.
Grows ==
    /\ artifacts \subseteq artifacts'
    /\ Audits \subseteq Audits' /\ Chiefs \subseteq Chiefs'
    /\ \A a \in Artifact : /\ qa[a] = "pass" => qa'[a] = "pass"
                           /\ Audited(a) => Audited(a)'
                           /\ Released(a) => Released(a)'

LEMMA StillThere ==
    ASSUME Types, Standing, [Next]_vars
    PROVE  Grows
<1>1. \A a \in Artifact : qa[a] = "pass" => qa'[a] = "pass"
  BY RatedStep DEF Sticks
<1>2. artifacts \subseteq artifacts' /\ Audits \subseteq Audits' /\ Chiefs \subseteq Chiefs'
  <2>1. CASE UNCHANGED vars
    BY <2>1 DEF vars, tables, Audits, Chiefs
  <2>2. ASSUME NEW a \in Artifact, CreateArtifact(a)
        PROVE  artifacts \subseteq artifacts' /\ Audits \subseteq Audits' /\ Chiefs \subseteq Chiefs'
    BY <2>2 DEF CreateArtifact, Audits, Chiefs
  <2>3. ASSUME NEW a \in Artifact, NEW status \in {"pass", "blocked"}, CreateMediaQa(a, status)
        PROVE  artifacts \subseteq artifacts' /\ Audits \subseteq Audits' /\ Chiefs \subseteq Chiefs'
    BY <2>3 DEF CreateMediaQa, Audits, Chiefs
  <2>4. ASSUME NEW k \in compliance, InvalidateCompliance(k)
        PROVE  artifacts \subseteq artifacts' /\ Audits \subseteq Audits' /\ Chiefs \subseteq Chiefs'
    BY <2>4 DEF InvalidateCompliance, Audits, Chiefs
  <2>5. ASSUME NEW s \in Session, NEW t \in Request, Opens(s, t)
        PROVE  artifacts \subseteq artifacts' /\ Audits \subseteq Audits' /\ Chiefs \subseteq Chiefs'
    BY <2>5 DEF Opens, tables, Audits, Chiefs
  <2>6. ASSUME NEW s \in Session, JudgeChief(s)
        PROVE  artifacts \subseteq artifacts' /\ Audits \subseteq Audits' /\ Chiefs \subseteq Chiefs'
    BY <2>6 DEF JudgeChief, tables, Audits, Chiefs
  <2>7. ASSUME NEW s \in Session, Ends(s)
        PROVE  artifacts \subseteq artifacts' /\ Audits \subseteq Audits' /\ Chiefs \subseteq Chiefs'
    BY <2>7 DEF Ends, EndInvalidate, EndCompliance, EndChief, EndEligibility, RollBack, tables, Audits, Chiefs
  <2>8. CASE Upgrade
    BY <2>8 DEF Upgrade, tables, Audits, Chiefs
  <2>9. CASE Downgrade
    <3>1. folded'.compliance = folded.compliance \cup Reruns(compliance)
          /\ folded'.chiefs = folded.chiefs \cup Reruns(chiefs)
      BY <2>9 DEF Downgrade
    <3>2. QED
      BY <2>9, <3>1 DEF Downgrade, Audits, Chiefs
  <2>10. QED
    BY <2>1, <2>2, <2>3, <2>4, <2>5, <2>6, <2>7, <2>8, <2>9, Steps
<1>3. \A a \in Artifact : (Audited(a) => Audited(a)') /\ (Released(a) => Released(a)')
  BY <1>2 DEF Audited, Released
<1>4. QED
  BY <1>1, <1>2, <1>3 DEF Grows

LEMMA EarnedStart == Init => Earned
  BY DEF Init, Earned, Audits, Chiefs, RequestRests, Idle

LEMMA EarnedStep ==
    ASSUME Types, Standing, Earned, [Next]_vars
    PROVE  Earned'
<1> USE DEF Earned
<1>1. Grows
  BY StillThere
<1>2. \A k \in Audits \cup Chiefs : k.artifact \in Artifact
  BY DEF Types, TypeOK, Audits, Chiefs, ComplianceAudit, ChiefAudit
<1>3. \A k \in Audits : AuditRests(k)'
  BY <1>1, <1>2 DEF Grows, AuditRests
<1>4. \A k \in Chiefs : ChiefRests(k)'
  BY <1>1, <1>2 DEF Grows, ChiefRests
<1>5. \A e \in eligibility : RowRests(e)'
  BY <1>1 DEF Grows, RowRests, Types, TypeOK, Eligibility
<1>6. \A s \in Session : tx[s] = Idle \/ tx[s].artifact \in Artifact
  BY Kinds DEF Types
<1>7. ASSUME NEW s \in Session, tx'[s] = tx[s]
      PROVE  RequestRests(s)'
  <2>1. CASE tx[s] = Idle
    BY <1>7, <2>1 DEF RequestRests, Idle
  <2>2. CASE tx[s].artifact \in Artifact
    BY <1>1, <1>7, <2>2 DEF Grows, RequestRests
  <2>3. QED
    BY <1>6, <2>1, <2>2
<1>8. ASSUME UNCHANGED <<compliance, chiefs, folded>>
      PROVE  (\A k \in Audits' : AuditRests(k)') /\ (\A k \in Chiefs' : ChiefRests(k)')
  BY <1>3, <1>4, <1>8 DEF Audits, Chiefs
<1>9. ASSUME UNCHANGED eligibility
      PROVE  \A e \in eligibility' : RowRests(e)'
  BY <1>5, <1>9
<1>10. ASSUME UNCHANGED <<compliance, chiefs, folded, eligibility, tx>>
       PROVE  Earned'
  BY <1>7, <1>8, <1>9, <1>10
<1>11. UNCHANGED vars => Earned'
  BY <1>10 DEF vars, tables
<1>12. ASSUME NEW a \in Artifact, CreateArtifact(a)
       PROVE  Earned'
  BY <1>10, <1>12 DEF CreateArtifact
<1>13. ASSUME NEW a \in Artifact, NEW status \in {"pass", "blocked"}, CreateMediaQa(a, status)
       PROVE  Earned'
  BY <1>10, <1>13 DEF CreateMediaQa
<1>14. ASSUME NEW k \in compliance, InvalidateCompliance(k)
       PROVE  Earned'
  BY <1>10, <1>14 DEF InvalidateCompliance
<1>15. ASSUME NEW s \in Session, NEW t \in Request, Opens(s, t)
       PROVE  Earned'
  <2>1. tx'[s] = t /\ (\A r \in Session : r # s => tx'[r] = tx[r]) /\ UNCHANGED <<qa, compliance, chiefs, folded, eligibility>>
    BY <1>15, Moved DEF Opens, tables
  <2>2. t.op = "eligibility" /\ t.chief.pass => Released(t.artifact)
    <3>1. t.op = "eligibility" => t.chief \in FirstOf(chiefs, t.artifact)
      BY <1>15 DEF Opens
    <3>2. \A k \in FirstOf(chiefs, t.artifact) : k.pass => k \in Of(chiefs, t.artifact)
      BY DEF FirstOf, NoAudit
    <3>3. QED
      BY <3>1, <3>2 DEF Released, Chiefs, Of
  <2>3. Released(t.artifact) => Released(t.artifact)'
    BY <2>1 DEF Released, Chiefs
  <2>4. /\ t.op = "compliance" /\ t.pass => qa'[t.artifact] = "pass"
        /\ t.op = "chief" /\ t.media = "pass" => qa'[t.artifact] = "pass"
        /\ t.op # "judged"
    BY <1>15, <2>1 DEF Opens
  <2>5. RequestRests(s)'
    BY <2>1, <2>2, <2>3, <2>4 DEF RequestRests
  <2>6. QED
    BY <1>7, <1>8, <1>9, <2>1, <2>5
<1>16. ASSUME NEW s \in Session, JudgeChief(s)
       PROVE  Earned'
  <2>1. UNCHANGED <<qa, compliance, chiefs, folded, eligibility>> /\ \A r \in Session : r # s => tx'[r] = tx[r]
    BY <1>16, Judging DEF tables
  <2>2. tx'[s].op = "judged" /\ tx'[s].artifact = tx[s].artifact /\ tx[s].op = "chief"
        /\ (tx'[s].pass => /\ tx[s].media = "pass"
                           /\ \E k \in compliance : k.artifact = tx[s].artifact /\ k.pass)
    BY <1>16, Judging
  <2>3. tx'[s].pass => qa[tx[s].artifact] = "pass" /\ Audited(tx[s].artifact)
    BY <2>2 DEF RequestRests, Audited, Audits
  <2>4. tx'[s].pass => \E k \in Audits' : k.artifact = tx'[s].artifact /\ k.pass
    BY <2>1, <2>2, <2>3 DEF Audited, Audits
  <2>5. RequestRests(s)'
    BY <2>1, <2>2, <2>3, <2>4 DEF RequestRests, Audited
  <2>6. QED
    BY <1>7, <1>8, <1>9, <2>1, <2>5
<1>17. ASSUME NEW s \in Session, Ends(s)
       PROVE  Earned'
  <2>1. tx' = [tx EXCEPT ![s] = Idle] /\ tx[s] \in Request /\ tx[s].artifact \in artifacts
        /\ UNCHANGED <<artifacts, qa, folded>>
    BY <1>17, Closing
  <2>2. tx'[s] = Idle /\ \A r \in Session : r # s => tx'[r] = tx[r]
    BY <2>1, Moved
  <2>3. RequestRests(s)'
    BY <2>2 DEF RequestRests, Idle
  <2>4. \A r \in Session : RequestRests(r)'
    BY <1>7, <2>2, <2>3
  <2>5. CASE EndCompliance(s)
    <3>1. PICK k : k = [artifact |-> tx[s].artifact, pass |-> tx[s].pass, at |-> tx[s].at]
      OBVIOUS
    <3>2. compliance' = compliance \cup {k} /\ UNCHANGED <<chiefs, eligibility>> /\ tx[s].op = "compliance"
      BY <2>5, <3>1 DEF EndCompliance
    <3>3. k.artifact = tx[s].artifact /\ k.pass = tx[s].pass
      BY <3>1
    <3>4. AuditRests(k)'
      BY <2>1, <3>2, <3>3 DEF AuditRests, RequestRests
    <3>5. \A l \in Audits' : AuditRests(l)'
      BY <1>3, <2>1, <3>2, <3>4 DEF Audits
    <3>6. \A l \in Chiefs' : ChiefRests(l)'
      BY <1>4, <2>1, <3>2 DEF Chiefs
    <3>7. QED
      BY <1>9, <2>4, <3>2, <3>5, <3>6
  <2>6. CASE EndChief(s)
    <3>1. PICK k : k = [artifact |-> tx[s].artifact, pass |-> tx[s].pass, at |-> tx[s].at]
      OBVIOUS
    <3>2. chiefs' = chiefs \cup {k} /\ UNCHANGED <<compliance, eligibility>> /\ tx[s].op = "judged"
      BY <2>6, <3>1 DEF EndChief
    <3>3. k.artifact = tx[s].artifact /\ k.pass = tx[s].pass
      BY <3>1
    <3>4. k.pass => qa[k.artifact] = "pass" /\ Audited(k.artifact)
      BY <3>2, <3>3 DEF RequestRests
    <3>5. Audited(k.artifact) => Audited(k.artifact)'
      BY <2>1, <3>2 DEF Audited, Audits
    <3>6. ChiefRests(k)'
      BY <2>1, <3>4, <3>5 DEF ChiefRests
    <3>7. \A l \in Chiefs' : ChiefRests(l)'
      BY <1>4, <2>1, <3>2, <3>6 DEF Chiefs
    <3>8. \A l \in Audits' : AuditRests(l)'
      BY <1>3, <2>1, <3>2 DEF Audits
    <3>9. QED
      BY <1>9, <2>4, <3>2, <3>7, <3>8
  <2>7. CASE EndEligibility(s)
    <3>1. PICK e : e = Determined(tx[s], readiness[tx[s].artifact])
      OBVIOUS
    <3>2. eligibility' = eligibility \cup {e} /\ UNCHANGED <<compliance, chiefs>> /\ tx[s].op = "eligibility"
      BY <2>7, <3>1 DEF EndEligibility
    <3>3. /\ e.artifact = tx[s].artifact /\ e.chief_blocked = ~tx[s].chief.pass
          /\ e.media_blocked = (readiness[tx[s].artifact] # "pass")
      BY <3>1 DEF Determined
    <3>4. tx[s].artifact \in Artifact
      BY <2>1 DEF Types, TypeOK, FinalArtifact
    <3>5. ~e.media_blocked => qa[e.artifact] = "pass"
      BY <3>3, <3>4 DEF Standing, Rated
    <3>6. ~e.chief_blocked => Released(e.artifact)
      BY <3>2, <3>3 DEF RequestRests
    <3>7. Released(e.artifact) => Released(e.artifact)'
      BY <2>1, <3>2 DEF Released, Chiefs
    <3>8. RowRests(e)'
      BY <2>1, <3>5, <3>6, <3>7 DEF RowRests
    <3>9. \A f \in eligibility' : RowRests(f)'
      BY <1>5, <3>2, <3>8
    <3>10. QED
      BY <1>8, <2>1, <2>4, <3>2, <3>9
  <2>8. CASE EndInvalidate(s) \/ RollBack(s)
    <3>1. UNCHANGED <<compliance, chiefs, eligibility>>
      BY <2>8 DEF EndInvalidate, RollBack, tables
    <3>2. QED
      BY <1>8, <1>9, <2>1, <2>4, <3>1
  <2>9. QED
    BY <1>17, <2>5, <2>6, <2>7, <2>8 DEF Ends
<1>18. CASE Upgrade
  BY <1>10, <1>18 DEF Upgrade, tables
<1>19. CASE Downgrade
  <2>1. folded'.compliance = folded.compliance \cup Reruns(compliance)
        /\ folded'.chiefs = folded.chiefs \cup Reruns(chiefs)
    BY <1>19 DEF Downgrade
  <2>2. Audits' = Audits /\ Chiefs' = Chiefs
    BY <1>19, <2>1 DEF Downgrade, Audits, Chiefs, Reruns
  <2>3. \A e \in eligibility : /\ Repointed(e).artifact = e.artifact
                               /\ Repointed(e).chief_blocked = e.chief_blocked
                               /\ Repointed(e).media_blocked = e.media_blocked
    <3>1. \A e \in eligibility : e \in Eligibility
      BY DEF Types, TypeOK
    <3>2. QED
      BY <3>1 DEF Repointed, Eligibility
  <2>4. eligibility' = {Repointed(e) : e \in eligibility} /\ UNCHANGED tx
    BY <1>19 DEF Downgrade
  <2>5. ASSUME NEW f \in eligibility'
        PROVE  RowRests(f)'
    <3>1. PICK e \in eligibility : f = Repointed(e)
      BY <2>4
    <3>2. f.artifact = e.artifact /\ f.chief_blocked = e.chief_blocked /\ f.media_blocked = e.media_blocked
      BY <2>3, <3>1
    <3>3. RowRests(e)'
      BY <1>5
    <3>4. QED
      BY <3>2, <3>3 DEF RowRests
  <2>6. QED
    BY <1>3, <1>4, <1>7, <2>2, <2>4, <2>5
<1>20. QED
  BY <1>11, <1>12, <1>13, <1>14, <1>15, <1>16, <1>17, <1>18, <1>19, Steps

LEMMA EarnedShows ==
    ASSUME Types, Earned
    PROVE  PassesAreEarned
<1>1. PICK audited, released : /\ audited = Passed(compliance \cup folded.compliance)
                               /\ released = Passed(chiefs \cup folded.chiefs)
  OBVIOUS
<1>2. \A k \in audited : k \in Audits /\ k.pass
  BY <1>1 DEF Passed, Audits
<1>3. \A k \in released : k \in Chiefs /\ k.pass
  BY <1>1 DEF Passed, Chiefs
<1>4. \A k \in audited \cup released : qa[k.artifact] = "pass"
  BY <1>2, <1>3 DEF Earned, AuditRests, ChiefRests
<1>5. \A a : Audited(a) => Of(audited, a) # {}
  BY <1>1 DEF Audited, Audits, Passed, Of
<1>6. \A a : Released(a) => Of(released, a) # {}
  BY <1>1 DEF Released, Chiefs, Passed, Of
<1>7. \A k \in released : Of(audited, k.artifact) # {}
  BY <1>3, <1>5 DEF Earned, ChiefRests
<1>8. \A e \in eligibility : /\ ~e.chief_blocked => Of(released, e.artifact) # {}
                             /\ ~e.media_blocked => qa[e.artifact] = "pass"
  BY <1>6 DEF Earned, RowRests
<1>9. PICK P, B : P = {a \in artifacts : qa[a] = "pass"} /\ B = {a \in artifacts : qa[a] = "blocked"}
  OBVIOUS
<1>10. P \subseteq artifacts /\ B \subseteq artifacts /\ P \cap B = {} /\ IsFiniteSet(artifacts)
  BY <1>9 DEF Types
<1>11. IsFiniteSet(P) /\ IsFiniteSet(B)
  BY <1>10, FS_Subset
<1>12. Cardinality(Passed(compliance)) > 0 => Cardinality(P) > 0
  <2>1. SUFFICES ASSUME Cardinality(Passed(compliance)) > 0 PROVE Cardinality(P) > 0
    OBVIOUS
  <2>2. Passed(compliance) # {}
    BY <2>1, FS_EmptySet
  <2>3. PICK k \in compliance : k.pass
    BY <2>2 DEF Passed
  <2>4. k.artifact \in P
    BY <1>9, <2>3 DEF Earned, AuditRests, Audits
  <2>5. Cardinality(P) \in Nat /\ Cardinality(P) # 0
    BY <1>11, <2>4, FS_CardinalityType, FS_EmptySet
  <2>6. QED
    BY <2>5
<1>13. Cardinality(P) + Cardinality(B) <= Cardinality(artifacts)
  <2>1. IsFiniteSet(P \cup B) /\ Cardinality(P \cup B) = Cardinality(P) + Cardinality(B) - Cardinality(P \cap B)
    BY <1>11, FS_Union
  <2>2. Cardinality(P \cap B) = 0
    BY <1>10, FS_EmptySet
  <2>3. P \cup B \subseteq artifacts
    BY <1>10
  <2>4. Cardinality(P \cup B) <= Cardinality(artifacts)
    BY <1>10, <2>3, FS_Subset
  <2>5. Cardinality(P) \in Nat /\ Cardinality(B) \in Nat
    BY <1>11, FS_CardinalityType
  <2>6. QED
    BY <2>1, <2>2, <2>4, <2>5
<1>14. ProductionSummary.media_qa_passed = Cardinality(P) /\ ProductionSummary.media_qa_blocked = Cardinality(B)
       /\ ProductionSummary.final_artifacts = Cardinality(artifacts)
       /\ ComplianceSummary.passed = Cardinality(Passed(compliance))
  BY <1>9 DEF ProductionSummary, ComplianceSummary
<1>15. QED
  BY <1>1, <1>4, <1>7, <1>8, <1>12, <1>13, <1>14 DEF PassesAreEarned

-----------------------------------------------------------------------------
(* Audits of an artifact have different dates, so a downgrade leaves one.  *)

Distinct(audits) == \A k, l \in audits : k.artifact = l.artifact /\ k.at = l.at => k = l
Single(audits) == \A k, l \in audits : k.artifact = l.artifact => k = l
Outlived(audits, gone) == \A d \in gone : \E k \in audits : k.artifact = d.artifact /\ k.at < d.at

\* The requests t with a row to come have a date no audit, and no other request, has.
Ahead(t, audits, ops) ==
    \A s \in Session : t[s].op \in ops =>
        /\ \A k \in audits : k.artifact = t[s].artifact => k.at # t[s].at
        /\ \A r \in Session \ {s} : t[r].op \in ops /\ t[r].artifact = t[s].artifact => t[r].at # t[s].at

Table(t, revision, audits, gone, ops) ==
    /\ Distinct(audits)
    /\ Ahead(t, audits, ops)
    /\ revision = "0048" => Single(audits)
    /\ Outlived(audits, gone)

Tables ==
    /\ Table(tx, schema, compliance, folded.compliance, {"compliance"})
    /\ Table(tx, schema, chiefs, folded.chiefs, {"chief", "judged"})

LEMMA TableStays ==
    ASSUME NEW t, NEW u, NEW revision, NEW audits, NEW gone, NEW ops,
           Table(t, revision, audits, gone, ops),
           \A r \in Session : u[r].op \in ops =>
               t[r].op \in ops /\ u[r].at = t[r].at /\ u[r].artifact = t[r].artifact
    PROVE  Table(u, revision, audits, gone, ops)
<1>1. Ahead(u, audits, ops)
  BY DEF Table, Ahead
<1>2. QED
  BY <1>1 DEF Table

LEMMA TableOpens ==
    ASSUME NEW t, NEW u, NEW revision, NEW audits, NEW gone, NEW ops, NEW s \in Session,
           Table(t, revision, audits, gone, ops),
           \A r \in Session : r # s => u[r] = t[r],
           u[s].at \in Nat,
           \A k \in audits : k.artifact = u[s].artifact => k.at \in Nat /\ k.at < u[s].at,
           \A r \in Session : t[r].op \in ops /\ t[r].artifact = u[s].artifact =>
               t[r].at \in Nat /\ t[r].at < u[s].at
    PROVE  Table(u, revision, audits, gone, ops)
<1>1. \A k \in audits : k.artifact = u[s].artifact => k.at # u[s].at
  OBVIOUS
<1>2. \A r \in Session : t[r].op \in ops /\ t[r].artifact = u[s].artifact => t[r].at # u[s].at
  OBVIOUS
<1>3. Ahead(t, audits, ops)
  BY DEF Table
<1>4. Ahead(u, audits, ops)
  BY <1>1, <1>2, <1>3 DEF Ahead
<1>5. QED
  BY <1>4 DEF Table

LEMMA TableGrows ==
    ASSUME NEW t, NEW u, NEW revision, NEW audits, NEW gone, NEW ops, NEW s \in Session, NEW k,
           Table(t, revision, audits, gone, ops),
           \A r \in Session : r # s => u[r] = t[r],
           t[s].op \in ops, u[s].op \notin ops,
           k.artifact = t[s].artifact, k.at = t[s].at,
           revision = "0048" => \A l \in audits : l.artifact # k.artifact
    PROVE  Table(u, revision, audits \cup {k}, gone, ops)
<1>1. Distinct(audits) /\ Ahead(t, audits, ops) /\ Outlived(audits, gone) /\ (revision = "0048" => Single(audits))
  BY DEF Table
<1>2. \A l \in audits : l.artifact = k.artifact => l.at # k.at
  BY <1>1 DEF Ahead
<1>3. Distinct(audits \cup {k})
  BY <1>1, <1>2 DEF Distinct
<1>4. \A r \in Session : u[r].op \in ops =>
          /\ r # s /\ u[r] = t[r]
          /\ \A l \in audits : l.artifact = t[r].artifact => l.at # t[r].at
          /\ k.artifact = t[r].artifact => k.at # t[r].at
  BY <1>1 DEF Ahead
<1>5. \A r, q \in Session :
          r # q /\ u[r].op \in ops /\ u[q].op \in ops /\ u[q].artifact = u[r].artifact => u[q].at # u[r].at
  BY <1>1, <1>4 DEF Ahead
<1>6. Ahead(u, audits \cup {k}, ops)
  BY <1>4, <1>5 DEF Ahead
<1>7. revision = "0048" => Single(audits \cup {k})
  BY <1>1 DEF Single
<1>8. Outlived(audits \cup {k}, gone)
  BY <1>1 DEF Outlived
<1>9. QED
  BY <1>3, <1>6, <1>7, <1>8 DEF Table

\* A downgrade keeps the earliest audit of each artifact.
LEMMA EarliestKept ==
    ASSUME NEW audits \in SUBSET ComplianceAudit, NEW k \in audits, NEW c, c = Earliest(audits, k)
    PROVE  c \in audits \ Reruns(audits)
<1>1. c \in audits /\ c.artifact = k.artifact
  BY EarliestFirst
<1>2. Earliest(audits, c) = c
  BY <1>1 DEF Earliest
<1>3. QED
  BY <1>1, <1>2 DEF Reruns

LEMMA TableFolds ==
    ASSUME NEW t, NEW revision, NEW audits \in SUBSET ComplianceAudit, NEW gone \in SUBSET ComplianceAudit,
           NEW ops, Table(t, revision, audits, gone, ops), NEW kept, kept = audits \ Reruns(audits)
    PROVE  Table(t, "0048", kept, gone \cup Reruns(audits), ops)
<1>1. Distinct(audits) /\ Ahead(t, audits, ops) /\ Outlived(audits, gone)
  BY DEF Table
<1>2. \A k \in audits : Earliest(audits, k) \in audits /\ Earliest(audits, k).artifact = k.artifact
          /\ \A d \in audits : d.artifact = k.artifact => Earliest(audits, k).at <= d.at
  BY EarliestFirst
<1>3. \A k, l \in audits : k.artifact = l.artifact => Earliest(audits, k) = Earliest(audits, l)
  BY DEF Earliest
<1>4. \A k \in audits : k \in kept <=> k = Earliest(audits, k)
  BY DEF Reruns
<1>5. \A k \in audits : Earliest(audits, k) \in kept
  BY EarliestKept
<1>6. kept \subseteq audits
  OBVIOUS
<1>7. Single(kept)
  BY <1>3, <1>4, <1>6 DEF Single
<1>8. Distinct(kept) /\ Ahead(t, kept, ops)
  BY <1>1, <1>6 DEF Distinct, Ahead
<1>9. ASSUME NEW d \in gone
      PROVE  \E k \in kept : k.artifact = d.artifact /\ k.at < d.at
  <2>1. PICK l \in audits : l.artifact = d.artifact /\ l.at < d.at
    BY <1>1 DEF Outlived
  <2>2. PICK k : k = Earliest(audits, l)
    OBVIOUS
  <2>3. k \in kept /\ k \in audits /\ k.artifact = d.artifact /\ k.at <= l.at
    BY <1>2, <1>5, <2>1, <2>2
  <2>4. k.at \in Nat /\ l.at \in Nat /\ d.at \in Nat
    BY <2>1, <2>3 DEF ComplianceAudit
  <2>5. QED
    BY <2>1, <2>3, <2>4
<1>10. ASSUME NEW d \in Reruns(audits)
       PROVE  \E k \in kept : k.artifact = d.artifact /\ k.at < d.at
  <2>1. PICK k : k = Earliest(audits, d)
    OBVIOUS
  <2>2. d \in audits /\ k # d
    BY <2>1 DEF Reruns
  <2>3. k \in kept /\ k \in audits /\ k.artifact = d.artifact /\ k.at <= d.at
    BY <1>2, <1>5, <2>1, <2>2
  <2>4. k.at # d.at
    BY <1>1, <2>2, <2>3 DEF Distinct
  <2>5. k.at \in Nat /\ d.at \in Nat
    BY <2>2, <2>3 DEF ComplianceAudit
  <2>6. QED
    BY <2>3, <2>4, <2>5
<1>11. Outlived(kept, gone \cup Reruns(audits))
  BY <1>9, <1>10 DEF Outlived
<1>12. QED
  BY <1>7, <1>8, <1>11 DEF Table

LEMMA TablesStart == Init => Tables
  BY DEF Init, Tables, Table, Distinct, Single, Outlived, Ahead, Idle

\* The requests of a table that are open after a step were open before, with their dates.
NoneNew(ops) ==
    \A r \in Session : tx'[r].op \in ops =>
        tx[r].op \in ops /\ tx'[r].at = tx[r].at /\ tx'[r].artifact = tx[r].artifact

LEMMA TablesStay ==
    ASSUME Tables, NoneNew({"compliance"}), NoneNew({"chief", "judged"}),
           UNCHANGED <<schema, compliance, chiefs, folded>>
    PROVE  Tables'
<1>1. Table(tx', schema, compliance, folded.compliance, {"compliance"})
  <2>1. Table(tx, schema, compliance, folded.compliance, {"compliance"})
    BY DEF Tables
  <2>2. QED
    BY <2>1, TableStays DEF NoneNew
<1>2. Table(tx', schema, chiefs, folded.chiefs, {"chief", "judged"})
  <2>1. Table(tx, schema, chiefs, folded.chiefs, {"chief", "judged"})
    BY DEF Tables
  <2>2. QED
    BY <2>1, TableStays DEF NoneNew
<1>3. QED
  BY <1>1, <1>2 DEF Tables

LEMMA TablesOpen ==
    ASSUME Types, Tables, NEW s \in Session, NEW t \in Request, Opens(s, t)
    PROVE  Tables'
<1>1. tx'[s] = t /\ (\A r \in Session : r # s => tx'[r] = tx[r]) /\ UNCHANGED <<schema, compliance, chiefs, folded>>
  BY Moved DEF Opens, tables
<1>2. t.artifact \in Artifact /\ compliance \in SUBSET (compliance \cup chiefs) /\ chiefs \in SUBSET (compliance \cup chiefs)
  BY DEF Opens, Types, TypeOK, FinalArtifact
<1>3. \A k \in compliance \cup chiefs : k.at \in Nat
  BY DEF Types, TypeOK, ComplianceAudit, ChiefAudit
<1>4. \A r \in Session : tx[r].op \in DatedOps => tx[r].at \in Nat
  BY Kinds DEF Types
<1>5. CASE t.op \in {"compliance"}
  <2>1. t.at = CreatedAt(compliance, {"compliance"}, t.artifact) /\ {"compliance"} \in SUBSET DatedOps
    BY <1>5 DEF Opens, DatedOps
  <2>2. /\ t.at \in Nat
        /\ \A k \in Of(compliance, t.artifact) : k.at < t.at
        /\ \A r \in Session : tx[r].op \in {"compliance"} /\ tx[r].artifact = t.artifact => tx[r].at < t.at
    BY <1>2, <2>1, DatedLast
  <2>3. \A k \in compliance : k.artifact = tx'[s].artifact => k.at \in Nat /\ k.at < tx'[s].at
    BY <1>1, <1>3, <2>2 DEF Of
  <2>4. \A r \in Session : tx[r].op \in {"compliance"} /\ tx[r].artifact = tx'[s].artifact =>
            tx[r].at \in Nat /\ tx[r].at < tx'[s].at
    BY <1>1, <1>4, <2>1, <2>2
  <2>5. Table(tx, schema, compliance, folded.compliance, {"compliance"})
    BY DEF Tables
  <2>6. Table(tx', schema, compliance, folded.compliance, {"compliance"})
    BY <1>1, <2>2, <2>3, <2>4, <2>5, TableOpens
  <2>7. NoneNew({"chief", "judged"})
    BY <1>1, <1>5 DEF NoneNew
  <2>8. Table(tx, schema, chiefs, folded.chiefs, {"chief", "judged"})
    BY DEF Tables
  <2>9. Table(tx', schema, chiefs, folded.chiefs, {"chief", "judged"})
    BY <2>7, <2>8, TableStays DEF NoneNew
  <2>10. QED
    BY <1>1, <2>6, <2>9 DEF Tables
<1>6. CASE t.op \in {"chief", "judged"}
  <2>1. t.at = CreatedAt(chiefs, {"chief", "judged"}, t.artifact) /\ {"chief", "judged"} \in SUBSET DatedOps
    BY <1>6 DEF Opens, DatedOps
  <2>2. /\ t.at \in Nat
        /\ \A k \in Of(chiefs, t.artifact) : k.at < t.at
        /\ \A r \in Session : tx[r].op \in {"chief", "judged"} /\ tx[r].artifact = t.artifact => tx[r].at < t.at
    BY <1>2, <2>1, DatedLast
  <2>3. \A k \in chiefs : k.artifact = tx'[s].artifact => k.at \in Nat /\ k.at < tx'[s].at
    BY <1>1, <1>3, <2>2 DEF Of
  <2>4. \A r \in Session : tx[r].op \in {"chief", "judged"} /\ tx[r].artifact = tx'[s].artifact =>
            tx[r].at \in Nat /\ tx[r].at < tx'[s].at
    BY <1>1, <1>4, <2>1, <2>2
  <2>5. Table(tx, schema, chiefs, folded.chiefs, {"chief", "judged"})
    BY DEF Tables
  <2>6. Table(tx', schema, chiefs, folded.chiefs, {"chief", "judged"})
    BY <1>1, <2>2, <2>3, <2>4, <2>5, TableOpens
  <2>7. NoneNew({"compliance"})
    BY <1>1, <1>6 DEF NoneNew
  <2>8. Table(tx, schema, compliance, folded.compliance, {"compliance"})
    BY DEF Tables
  <2>9. Table(tx', schema, compliance, folded.compliance, {"compliance"})
    BY <2>7, <2>8, TableStays DEF NoneNew
  <2>10. QED
    BY <1>1, <2>6, <2>9 DEF Tables
<1>7. CASE t.op \notin {"compliance"} /\ t.op \notin {"chief", "judged"}
  <2>1. NoneNew({"compliance"}) /\ NoneNew({"chief", "judged"})
    BY <1>1, <1>7 DEF NoneNew
  <2>2. QED
    BY <1>1, <2>1, TablesStay
<1>8. QED
  BY <1>5, <1>6, <1>7

LEMMA TablesEnd ==
    ASSUME Types, Tables, NEW s \in Session, Ends(s)
    PROVE  Tables'
<1>1. tx' = [tx EXCEPT ![s] = Idle] /\ UNCHANGED <<schema, folded>>
  BY Closing
<1>2. tx'[s] = Idle /\ \A r \in Session : r # s => tx'[r] = tx[r]
  BY <1>1, Moved
<1>3. NoneNew({"compliance"}) /\ NoneNew({"chief", "judged"})
  BY <1>2 DEF NoneNew, Idle
<1>4. tx'[s].op \notin {"compliance"} /\ tx'[s].op \notin {"chief", "judged"}
  BY <1>2 DEF Idle
<1>5. Table(tx, schema, compliance, folded.compliance, {"compliance"})
      /\ Table(tx, schema, chiefs, folded.chiefs, {"chief", "judged"})
  BY DEF Tables
<1>6. CASE EndCompliance(s)
  <2>1. PICK k : k = [artifact |-> tx[s].artifact, pass |-> tx[s].pass, at |-> tx[s].at]
    OBVIOUS
  <2>2. k.artifact = tx[s].artifact /\ k.at = tx[s].at
    BY <2>1
  <2>3. compliance' = compliance \cup {k} /\ UNCHANGED chiefs /\ tx[s].op \in {"compliance"}
    BY <1>6, <2>1 DEF EndCompliance
  <2>4. schema = "0048" => \A l \in compliance : l.artifact # k.artifact
    BY <1>6, <2>2 DEF EndCompliance, Insertable, Of
  <2>5. Table(tx', schema, compliance \cup {k}, folded.compliance, {"compliance"})
    BY <1>2, <1>4, <1>5, <2>2, <2>3, <2>4, TableGrows
  <2>6. Table(tx', schema, chiefs, folded.chiefs, {"chief", "judged"})
    BY <1>3, <1>5, TableStays DEF NoneNew
  <2>7. QED
    BY <1>1, <2>3, <2>5, <2>6 DEF Tables
<1>7. CASE EndChief(s)
  <2>1. PICK k : k = [artifact |-> tx[s].artifact, pass |-> tx[s].pass, at |-> tx[s].at]
    OBVIOUS
  <2>2. k.artifact = tx[s].artifact /\ k.at = tx[s].at
    BY <2>1
  <2>3. chiefs' = chiefs \cup {k} /\ UNCHANGED compliance /\ tx[s].op \in {"chief", "judged"}
    BY <1>7, <2>1 DEF EndChief
  <2>4. schema = "0048" => \A l \in chiefs : l.artifact # k.artifact
    BY <1>7, <2>2 DEF EndChief, Insertable, Of
  <2>5. Table(tx', schema, chiefs \cup {k}, folded.chiefs, {"chief", "judged"})
    BY <1>2, <1>4, <1>5, <2>2, <2>3, <2>4, TableGrows
  <2>6. Table(tx', schema, compliance, folded.compliance, {"compliance"})
    BY <1>3, <1>5, TableStays DEF NoneNew
  <2>7. QED
    BY <1>1, <2>3, <2>5, <2>6 DEF Tables
<1>8. CASE EndInvalidate(s) \/ EndEligibility(s) \/ RollBack(s)
  <2>1. UNCHANGED <<compliance, chiefs>>
    BY <1>8 DEF EndInvalidate, EndEligibility, RollBack, tables
  <2>2. QED
    BY <1>1, <1>3, <2>1, TablesStay
<1>9. QED
  BY <1>6, <1>7, <1>8 DEF Ends

LEMMA TablesFold ==
    ASSUME Types, Tables, Downgrade
    PROVE  Tables'
<1>1. Table(tx, schema, compliance, folded.compliance, {"compliance"})
      /\ Table(tx, schema, chiefs, folded.chiefs, {"chief", "judged"})
  BY DEF Tables
<1>2. /\ compliance \in SUBSET ComplianceAudit /\ folded.compliance \in SUBSET ComplianceAudit
      /\ chiefs \in SUBSET ComplianceAudit /\ folded.chiefs \in SUBSET ComplianceAudit
  BY DEF Types, TypeOK, ChiefAudit
<1>3. /\ compliance' = compliance \ Reruns(compliance) /\ chiefs' = chiefs \ Reruns(chiefs)
      /\ schema' = "0048" /\ tx' = tx
      /\ folded'.compliance = folded.compliance \cup Reruns(compliance)
      /\ folded'.chiefs = folded.chiefs \cup Reruns(chiefs)
  BY DEF Downgrade
<1>4. Table(tx, "0048", compliance', folded.compliance \cup Reruns(compliance), {"compliance"})
  BY <1>1, <1>2, <1>3, TableFolds
<1>5. Table(tx, "0048", chiefs', folded.chiefs \cup Reruns(chiefs), {"chief", "judged"})
  BY <1>1, <1>2, <1>3, TableFolds
<1>6. QED
  BY <1>3, <1>4, <1>5 DEF Tables

LEMMA TablesStep ==
    ASSUME Types, Tables, [Next]_vars
    PROVE  Tables'
<1>1. ASSUME UNCHANGED <<schema, compliance, chiefs, folded, tx>>
      PROVE  Tables'
  BY <1>1 DEF Tables
<1>2. UNCHANGED vars => Tables'
  BY <1>1 DEF vars, tables
<1>3. ASSUME NEW a \in Artifact, CreateArtifact(a)
      PROVE  Tables'
  BY <1>1, <1>3 DEF CreateArtifact
<1>4. ASSUME NEW a \in Artifact, NEW status \in {"pass", "blocked"}, CreateMediaQa(a, status)
      PROVE  Tables'
  BY <1>1, <1>4 DEF CreateMediaQa
<1>5. ASSUME NEW k \in compliance, InvalidateCompliance(k)
      PROVE  Tables'
  BY <1>1, <1>5 DEF InvalidateCompliance
<1>6. ASSUME NEW s \in Session, JudgeChief(s)
      PROVE  Tables'
  <2>1. UNCHANGED <<schema, compliance, chiefs, folded>>
    BY <1>6, Judging DEF tables
  <2>2. /\ tx[s].op = "chief" /\ tx'[s].op = "judged" /\ tx'[s].artifact = tx[s].artifact /\ tx'[s].at = tx[s].at
        /\ \A r \in Session : r # s => tx'[r] = tx[r]
    BY <1>6, Judging
  <2>3. NoneNew({"compliance"}) /\ NoneNew({"chief", "judged"})
    BY <2>2 DEF NoneNew
  <2>4. QED
    BY <2>1, <2>3, TablesStay
<1>7. ASSUME Upgrade
      PROVE  Tables'
  <2>1. schema' = "0049" /\ UNCHANGED <<compliance, chiefs, folded, tx>>
    BY <1>7 DEF Upgrade, tables
  <2>2. QED
    BY <2>1 DEF Tables, Table
<1>8. QED
  BY <1>2, <1>3, <1>4, <1>5, <1>6, <1>7, TablesOpen, TablesEnd, TablesFold, Steps

LEMMA RefsStep ==
    ASSUME Types, Tables, Refs, [Next]_vars
    PROVE  Refs'
<1> DEFINE Named(chief, audits, a) == chief # NoAudit => chief \in audits /\ chief.artifact = a
<1>1. /\ \A e \in eligibility : Named(e.chief, chiefs, e.artifact)
      /\ \A s \in Session : tx[s].op = "eligibility" => Named(tx[s].chief, chiefs, tx[s].artifact)
  BY DEF Refs, Of
<1>2. SUFFICES /\ \A e \in eligibility' : Named(e.chief, chiefs', e.artifact)
               /\ \A s \in Session : tx'[s].op = "eligibility" => Named(tx'[s].chief, chiefs', tx'[s].artifact)
  BY DEF Refs, Of
<1> DEFINE Kept == /\ \A e \in eligibility' : Named(e.chief, chiefs', e.artifact)
                   /\ \A s \in Session : tx'[s].op = "eligibility" => Named(tx'[s].chief, chiefs', tx'[s].artifact)
<1>3. ASSUME chiefs \subseteq chiefs', UNCHANGED eligibility,
             \A s \in Session : tx'[s].op = "eligibility" =>
                tx'[s] = tx[s] \/ Named(tx'[s].chief, chiefs, tx'[s].artifact)
      PROVE  Kept
  BY <1>1, <1>3
<1>4. CASE UNCHANGED vars
  BY <1>3, <1>4 DEF vars, tables
<1>5. ASSUME NEW a \in Artifact, CreateArtifact(a)
      PROVE  Kept
  BY <1>3, <1>5 DEF CreateArtifact
<1>6. ASSUME NEW a \in Artifact, NEW status \in {"pass", "blocked"}, CreateMediaQa(a, status)
      PROVE  Kept
  BY <1>3, <1>6 DEF CreateMediaQa
<1>7. ASSUME NEW k \in compliance, InvalidateCompliance(k)
      PROVE  Kept
  BY <1>3, <1>7 DEF InvalidateCompliance
<1>8. ASSUME NEW s \in Session, NEW t \in Request, Opens(s, t)
      PROVE  Kept
  <2>1. tx'[s] = t /\ (\A r \in Session : r # s => tx'[r] = tx[r]) /\ UNCHANGED <<chiefs, eligibility>>
    BY <1>8, Moved DEF Opens, tables
  <2>2. t.op = "eligibility" => Named(t.chief, chiefs, t.artifact)
    BY <1>8 DEF Opens, FirstOf, Of
  <2>3. QED
    BY <1>3, <2>1, <2>2
<1>9. ASSUME NEW s \in Session, JudgeChief(s)
      PROVE  Kept
  <2>1. tx'[s].op = "judged" /\ (\A r \in Session : r # s => tx'[r] = tx[r]) /\ UNCHANGED <<chiefs, eligibility>>
    BY <1>9, Judging DEF tables
  <2>2. QED
    BY <1>3, <2>1
<1>10. ASSUME NEW s \in Session, Ends(s)
       PROVE  Kept
  <2>1. tx' = [tx EXCEPT ![s] = Idle]
    BY <1>10, Closing
  <2>2. tx'[s] = Idle /\ \A r \in Session : r # s => tx'[r] = tx[r]
    BY <2>1, Moved
  <2>3. \A r \in Session : tx'[r].op = "eligibility" => tx'[r] = tx[r]
    BY <2>2 DEF Idle
  <2>4. CASE EndEligibility(s)
    <3>1. PICK e : e = Determined(tx[s], readiness[tx[s].artifact])
      OBVIOUS
    <3>2. eligibility' = eligibility \cup {e} /\ UNCHANGED chiefs /\ tx[s].op = "eligibility"
      BY <2>4, <3>1 DEF EndEligibility
    <3>3. e.chief = tx[s].chief /\ e.artifact = tx[s].artifact
      BY <3>1 DEF Determined
    <3>4. QED
      BY <1>1, <2>3, <3>2, <3>3
  <2>5. CASE EndChief(s)
    <3>1. chiefs \subseteq chiefs' /\ UNCHANGED eligibility
      BY <2>5 DEF EndChief
    <3>2. QED
      BY <1>3, <2>3, <3>1
  <2>6. CASE EndInvalidate(s) \/ EndCompliance(s) \/ RollBack(s)
    <3>1. UNCHANGED <<chiefs, eligibility>>
      BY <2>6 DEF EndInvalidate, EndCompliance, RollBack, tables
    <3>2. QED
      BY <1>3, <2>3, <3>1
  <2>7. QED
    BY <1>10, <2>4, <2>5, <2>6 DEF Ends
<1>11. CASE Upgrade
  BY <1>3, <1>11 DEF Upgrade, tables
<1>12. CASE Downgrade
  <2>1. \A s \in Session : tx'[s].op # "eligibility"
    BY <1>12 DEF Downgrade, Quiet
  <2>2. ASSUME NEW f \in eligibility'
        PROVE  Named(f.chief, chiefs', f.artifact)
    <3>1. PICK e \in eligibility : f = Repointed(e)
      BY <1>12 DEF Downgrade
    <3>2. e \in Eligibility
      BY DEF Types, TypeOK
    <3>3. CASE e.chief = NoAudit
      BY <3>1, <3>3 DEF Repointed
    <3>4. CASE e.chief # NoAudit
      <4>1. PICK c : c = Earliest(chiefs, e.chief)
        OBVIOUS
      <4>2. e.chief \in chiefs /\ e.chief.artifact = e.artifact
        BY <1>1, <3>4
      <4>3. chiefs \in SUBSET ComplianceAudit
        BY DEF Types, TypeOK, ChiefAudit
      <4>4. c.artifact = e.artifact
        BY <4>1, <4>2, <4>3, EarliestFirst
      <4>5. c \in chiefs'
        BY <1>12, <4>1, <4>2, <4>3, EarliestKept DEF Downgrade
      <4>6. f = [e EXCEPT !.chief = c]
        BY <3>1, <3>4, <4>1 DEF Repointed
      <4>7. f.chief = c /\ f.artifact = e.artifact
        BY <3>2, <4>6 DEF Eligibility
      <4>8. QED
        BY <4>4, <4>5, <4>7
    <3>5. QED
      BY <3>3, <3>4
  <2>3. QED
    BY <2>1, <2>2
<1>13. QED
  BY <1>4, <1>5, <1>6, <1>7, <1>8, <1>9, <1>10, <1>11, <1>12, Steps

LEMMA FoldShows ==
    ASSUME Types, Tables, Refs
    PROVE  FoldIsFaithful
<1>1. ASSUME NEW audits \in SUBSET ComplianceAudit, NEW gone \in SUBSET ComplianceAudit,
             Single(audits), Outlived(audits, gone), NEW k \in audits
      PROVE  Of(audits, k.artifact) = {k} /\ \A d \in Of(gone, k.artifact) : k.at < d.at
  BY <1>1 DEF Single, Outlived, Of
<1>2. /\ compliance \in SUBSET ComplianceAudit /\ folded.compliance \in SUBSET ComplianceAudit
      /\ chiefs \in SUBSET ComplianceAudit /\ folded.chiefs \in SUBSET ComplianceAudit
      /\ revoked \subseteq compliance
  BY DEF Types, TypeOK, ChiefAudit
<1>3. /\ Outlived(compliance, folded.compliance) /\ Outlived(chiefs, folded.chiefs)
      /\ schema = "0048" => Single(compliance) /\ Single(chiefs)
  BY DEF Tables, Table
<1>4. schema = "0048" =>
        /\ \A k \in compliance :
            /\ Of(compliance, k.artifact) = {k}
            /\ \A d \in Of(folded.compliance, k.artifact) : k.at < d.at
        /\ \A k \in chiefs :
            /\ Of(chiefs, k.artifact) = {k}
            /\ \A d \in Of(folded.chiefs, k.artifact) : k.at < d.at
  BY <1>1, <1>2, <1>3
<1>5. QED
  BY <1>2, <1>4 DEF Refs, FoldIsFaithful

-----------------------------------------------------------------------------
(* The theorems.                                                           *)

Inv == Types /\ Refs /\ Standing /\ Earned /\ Tables

LEMMA Invariance == Spec => []Inv
<1>1. Init => Inv
  BY TypesStart, StandingStart, EarnedStart, TablesStart DEF Inv, Init, Refs, Idle
<1>2. Inv /\ [Next]_vars => Inv'
  BY TypesStep, RefsStep, StandingStep, EarnedStep, TablesStep DEF Inv
<1>3. QED
  BY <1>1, <1>2, PTL DEF Spec

\* Whatever requests and migrations do, every table holds rows of its kind, and what is
\* revoked is an audit that is there.
THEOREM ArtifactTypes == Spec => []TypeOK
<1>1. Inv => TypeOK
  BY DEF Inv, Types
<1>2. QED
  BY <1>1, Invariance, PTL

\* No audit passes, and no eligibility row of the compliance service is without a block,
\* unless what it rests on has passed; and the summaries of the two routers agree.
THEOREM PassesEarned == Spec => []PassesAreEarned
<1>1. Inv => PassesAreEarned
  BY EarnedShows DEF Inv
<1>2. QED
  BY <1>1, Invariance, PTL

\* An invalidation of an artifact that has its QA result is never undone by an audit, and
\* an eligibility determined after it is blocked by its media.
THEOREM WithdrawalsHold == Spec => []WithdrawalHolds
<1>1. Inv => WithdrawalHolds
  BY DEF Inv, Standing
<1>2. QED
  BY <1>1, Invariance, PTL

\* The downgrade of 0049 leaves each artifact the first audit it ever had, and repoints
\* every eligibility row to an audit that it leaves.
THEOREM FoldsFaithful == Spec => []FoldIsFaithful
<1>1. Inv => FoldIsFaithful
  BY FoldShows DEF Inv
<1>2. QED
  BY <1>1, Invariance, PTL
===============================================================================
