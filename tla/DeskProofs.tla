----------------------------- MODULE DeskProofs -----------------------------
(***************************************************************************)
(* Proofs about ReviewDesk, for any number of jobs, people and versions,   *)
(* and about PackageDesk, for any number of requests, packages, scripts    *)
(* and auditors.                                                           *)
(*                                                                         *)
(* The properties of the review desk are not inductive by themselves: that *)
(* a decision is about the current text needs that a gate stays pinned to  *)
(* its item's version and that clients show the two together, and that     *)
(* there is one decision needs that a gate that awaits is on a run that is *)
(* paused, even though a scheduler transaction may write the gate late.    *)
(*                                                                         *)
(* Those of packages rest on what a request may rely on from its reads to  *)
(* its commit: that no audit dated before its own is still to be committed *)
(* unless another write has made it stale, that what it has judged is a    *)
(* subset of what there is by then, and that a copy that is not stale is   *)
(* the row.                                                                *)
(***************************************************************************)
EXTENDS ReviewDesk, PackageDesk, SequenceTheorems, FiniteSetTheorems, TLAPS

-----------------------------------------------------------------------------
(* The review desk.                                                        *)

\* What holds of one job: its desk record d, its history h, its tick t.
Consistent(d, h, t) ==
    /\ d.run = "none" => ~d.armed
    /\ d.gate = "none" <=> d.run = "none"
    /\ d.run = "none" <=> d.current = None
    /\ d.pinned = d.current
    /\ d.gate = "awaiting" => d.run = "paused" /\ d.level = 0 /\ (d.armed \/ h.erased)
    /\ d.gate = "approved" => d.run = "succeeded"
    /\ d.run = "succeeded" => h.approved # None /\ h.approved = d.current
    /\ h.decisions = IF d.run \in {"succeeded", "failed"} THEN 1 ELSE 0
    /\ h.base = IF d.current = None THEN None ELSE d.current - 1
    /\ t = "read" => d.run # "none" /\ d.level = 0 /\ d.armed

\* A client shows the text of the version it would name in a request.
Honest(l) == l.pin = l.text

DeskInv ==
    /\ ReviewTypeOK
    /\ \A j \in Job : Consistent(desk[j], history[j], tick[j])
    /\ \A p \in Person, j \in Job : Honest(seen[p][j])

LEMMA DeskInvStart == ReviewInit => DeskInv
<1>1. SUFFICES ASSUME ReviewInit PROVE DeskInv
  OBVIOUS
<1>2. ReviewTypeOK
  <2>1. Absent \in Desk
    BY ReviewDeskAssumption DEF Absent, Desk, Version, None, RunStatus, GateStatus
  <2>2. desk \in [Job -> Desk] /\ tick \in [Job -> {"idle", "read"}] /\ stageless \in BOOLEAN
    BY <1>1, <2>1 DEF ReviewInit
  <2>3. seen \in [Person -> [Job -> Loaded]]
    BY <1>1, ReviewDeskAssumption DEF ReviewInit, Loaded, Version, None
  <2>4. history \in [Job -> History]
    BY <1>1, ReviewDeskAssumption DEF ReviewInit, History, Version, None
  <2>5. deletion \in Deletion
    BY <1>1 DEF ReviewInit, Deletion, NoDeletion
  <2>6. QED
    BY <2>2, <2>3, <2>4, <2>5 DEF ReviewTypeOK
<1>3. \A j \in Job : Consistent(desk[j], history[j], tick[j])
  BY <1>1 DEF ReviewInit, Consistent, Absent, None
<1>4. \A p \in Person, j \in Job : Honest(seen[p][j])
  BY <1>1 DEF ReviewInit, Honest
<1>5. QED
  BY <1>2, <1>3, <1>4 DEF DeskInv

(***************************************************************************)
(* Every action but View and a deletion changes the records of one job.    *)
(***************************************************************************)
\* The records d, h and t that it leaves of job j keep the invariant.
Kept(j, d, h, t) ==
    /\ d \in Desk /\ h \in History /\ t \in {"idle", "read"}
    /\ Consistent(d, h, t)
    /\ desk' = [desk EXCEPT ![j] = d]
    /\ history' = [history EXCEPT ![j] = h]
    /\ tick' = [tick EXCEPT ![j] = t]
    /\ UNCHANGED <<seen, deletion, stageless>>

LEMMA OneJob ==
    ASSUME DeskInv, NEW j \in Job, NEW d, NEW h, NEW t, Kept(j, d, h, t)
    PROVE  DeskInv'
<1>1. ReviewTypeOK'
  BY DEF Kept, DeskInv, ReviewTypeOK
<1>2. \A i \in Job : Consistent(desk'[i], history'[i], tick'[i])
  <2>1. SUFFICES ASSUME NEW i \in Job PROVE Consistent(desk'[i], history'[i], tick'[i])
    OBVIOUS
  <2>2. CASE i = j
    BY <2>2 DEF Kept, DeskInv, ReviewTypeOK
  <2>3. CASE i # j
    BY <2>3 DEF Kept, DeskInv, ReviewTypeOK
  <2>4. QED
    BY <2>2, <2>3
<1>3. \A p \in Person, i \in Job : Honest(seen'[p][i])
  BY DEF Kept, DeskInv
<1>4. QED
  BY <1>1, <1>2, <1>3 DEF DeskInv

LEMMA CreateKeeps == ASSUME DeskInv, NEW j \in Job, Create(j) PROVE DeskInv'
<1>1. Opened \in Desk
  BY ReviewDeskAssumption DEF Opened, Gated, Desk, Version, RunStatus, GateStatus
<1>2. /\ desk[j] \in Desk /\ history[j] \in History /\ tick[j] \in {"idle", "read"}
      /\ Consistent(desk[j], history[j], tick[j])
  BY DEF DeskInv, ReviewTypeOK
<1>3. Consistent(Opened, history[j], tick[j])
  BY <1>2 DEF Create, Opened, Gated, Consistent, Absent, None, History
<1>4. /\ desk' = [desk EXCEPT ![j] = Opened]
      /\ history' = [history EXCEPT ![j] = history[j]]
      /\ tick' = [tick EXCEPT ![j] = tick[j]]
      /\ UNCHANGED <<seen, deletion, stageless>>
  BY DEF Create, DeskInv, ReviewTypeOK
<1>5. Kept(j, Opened, history[j], tick[j])
  BY <1>1, <1>2, <1>3, <1>4, Zenon DEF Kept
<1>6. QED
  BY <1>5, OneJob, Zenon

LEMMA ViewKeeps == ASSUME DeskInv, NEW j \in Job, NEW p \in Person, View(p, j) PROVE DeskInv'
<1>1. desk[j] \in Desk /\ Consistent(desk[j], history[j], tick[j])
  BY DEF DeskInv, ReviewTypeOK
<1>2. ReviewTypeOK'
  BY <1>1 DEF View, DeskInv, ReviewTypeOK, Desk, Loaded
<1>3. \A q \in Person, i \in Job : Honest(seen'[q][i])
  BY <1>1 DEF View, DeskInv, ReviewTypeOK, Honest, Consistent
<1>4. QED
  BY <1>2, <1>3 DEF View, DeskInv

LEMMA DecideKeeps ==
    ASSUME DeskInv, NEW j \in Job, NEW r \in Reviewer, NEW approved \in BOOLEAN,
           Decide(r, j, approved)
    PROVE  DeskInv'
<1> DEFINE d == Resumed(desk[j], approved)
           h == [history[j] EXCEPT !.decisions = IF @ < 2 THEN @ + 1 ELSE @,
                                   !.approved = IF approved THEN seen[r][j].text ELSE @]
<1>1. /\ desk[j] \in Desk /\ history[j] \in History /\ tick[j] \in {"idle", "read"}
      /\ Consistent(desk[j], history[j], tick[j])
      /\ seen[r][j] \in Loaded /\ Honest(seen[r][j])
  BY DEF DeskInv, ReviewTypeOK, Person
<1>2. d \in Desk
  BY <1>1 DEF Resumed, Desk, RunStatus, GateStatus
<1>3. h \in History
  <2>1. (IF history[j].decisions < 2 THEN history[j].decisions + 1 ELSE history[j].decisions) \in 0..2
    BY <1>1 DEF History
  <2>2. (IF approved THEN seen[r][j].text ELSE history[j].approved) \in Version
    BY <1>1 DEF History, Loaded
  <2>3. QED
    BY <1>1, <2>1, <2>2 DEF History
<1>4. Awaiting(desk[j]) /\ (approved => seen[r][j].pin = desk[j].pinned /\ seen[r][j].pin # None)
  BY DEF Decide, Decidable, Matches, Awaiting
<1>5. Consistent(d, h, tick[j])
  BY <1>1, <1>4 DEF Consistent, Honest, Awaiting, Resumed, Absent, Desk, History, None
<1>6. desk' = [desk EXCEPT ![j] = d] /\ history' = [history EXCEPT ![j] = h]
  BY DEF Decide, DeskInv, ReviewTypeOK
<1>7. tick' = [tick EXCEPT ![j] = tick[j]] /\ UNCHANGED <<seen, deletion, stageless>>
  BY DEF Decide, DeskInv, ReviewTypeOK
<1> HIDE DEF d, h
<1>8. Kept(j, d, h, tick[j])
  BY <1>1, <1>2, <1>3, <1>5, <1>6, <1>7, Zenon DEF Kept
<1>9. QED
  BY <1>8, OneJob, Zenon

LEMMA EditKeeps ==
    ASSUME DeskInv, NEW j \in Job, NEW e \in Editor, Edit(e, j)
    PROVE  DeskInv'
<1> DEFINE d == Rewritten(desk[j])
           h == [history[j] EXCEPT !.base = seen[e][j].text]
<1>1. /\ desk[j] \in Desk /\ history[j] \in History /\ tick[j] \in {"idle", "read"}
      /\ Consistent(desk[j], history[j], tick[j])
      /\ seen[e][j] \in Loaded /\ Honest(seen[e][j])
  BY DEF DeskInv, ReviewTypeOK, Person
<1>2. d \in Desk
  <2>1. desk[j].current + 1 \in Version
    BY <1>1, ReviewDeskAssumption DEF Edit, Desk, Version
  <2>2. QED
    BY <1>1, <2>1 DEF Rewritten, Desk
<1>3. h \in History
  BY <1>1 DEF History, Loaded
<1>4. Awaiting(desk[j]) /\ seen[e][j].pin = desk[j].pinned
  BY DEF Edit, Matches
<1>5. Consistent(d, h, tick[j])
  BY <1>1, <1>4, ReviewDeskAssumption
     DEF Consistent, Honest, Awaiting, Rewritten, Absent, Desk, History, Version, None
<1>6. desk' = [desk EXCEPT ![j] = d] /\ history' = [history EXCEPT ![j] = h]
  BY DEF Edit, DeskInv, ReviewTypeOK
<1>7. tick' = [tick EXCEPT ![j] = tick[j]] /\ UNCHANGED <<seen, deletion, stageless>>
  BY DEF Edit, DeskInv, ReviewTypeOK
<1> HIDE DEF d, h
<1>8. Kept(j, d, h, tick[j])
  BY <1>1, <1>2, <1>3, <1>5, <1>6, <1>7, Zenon DEF Kept
<1>9. QED
  BY <1>8, OneJob, Zenon

LEMMA TimeoutKeeps ==
    ASSUME DeskInv, NEW j \in Job,
           TimeoutStale(j) \/ TimeoutRead(j) \/ TimeoutWrite(j) \/ TimeoutAbort(j)
    PROVE  DeskInv'
<1>1. /\ desk[j] \in Desk /\ history[j] \in History /\ tick[j] \in {"idle", "read"}
      /\ Consistent(desk[j], history[j], tick[j])
  BY DEF DeskInv, ReviewTypeOK
<1>2. history' = [history EXCEPT ![j] = history[j]] /\ UNCHANGED <<seen, deletion, stageless>>
  BY DEF TimeoutStale, TimeoutRead, TimeoutWrite, TimeoutAbort, DeskInv, ReviewTypeOK
<1>3. CASE TimeoutStale(j)
  <2> DEFINE d == [desk[j] EXCEPT !.armed = FALSE]
  <2>1. d \in Desk
    BY <1>1 DEF Desk
  <2>2. Consistent(d, history[j], tick[j])
    BY <1>1, <1>3 DEF TimeoutStale, Awaiting, Consistent, Absent, Desk
  <2>3. desk' = [desk EXCEPT ![j] = d] /\ tick' = [tick EXCEPT ![j] = tick[j]]
    BY <1>3 DEF TimeoutStale, DeskInv, ReviewTypeOK
  <2> HIDE DEF d
  <2>4. Kept(j, d, history[j], tick[j])
    BY <1>1, <1>2, <2>1, <2>2, <2>3, Zenon DEF Kept
  <2>5. QED
    BY <2>4, OneJob, Zenon
<1>4. CASE TimeoutRead(j)
  <2>1. Consistent(desk[j], history[j], "read")
    BY <1>1, <1>4 DEF TimeoutRead, Awaiting, Consistent
  <2>2. desk' = [desk EXCEPT ![j] = desk[j]] /\ tick' = [tick EXCEPT ![j] = "read"]
    BY <1>4 DEF TimeoutRead, DeskInv, ReviewTypeOK
  <2>3. Kept(j, desk[j], history[j], "read")
    BY <1>1, <1>2, <2>1, <2>2, Zenon DEF Kept
  <2>4. QED
    BY <2>3, OneJob, Zenon
<1>5. CASE TimeoutWrite(j)
  <2> DEFINE d == TimedOut(desk[j])
  <2>1. d \in Desk
    <3>1. desk[j].level = 0
      BY <1>1, <1>5 DEF TimeoutWrite, Consistent
    <3>2. d = [desk[j] EXCEPT !.gate = "escalated", !.level = 1]
      BY <3>1 DEF TimedOut
    <3>3. "escalated" \in GateStatus /\ 1 \in 0..1
      BY DEF GateStatus
    <3>4. QED
      BY <1>1, <3>2, <3>3 DEF Desk
  <2>2. Consistent(d, history[j], "idle")
    BY <1>1, <1>5 DEF TimeoutWrite, TimedOut, Consistent, Absent, Desk
  <2>3. desk' = [desk EXCEPT ![j] = d] /\ tick' = [tick EXCEPT ![j] = "idle"]
    BY <1>5 DEF TimeoutWrite, DeskInv, ReviewTypeOK
  <2> HIDE DEF d
  <2>4. Kept(j, d, history[j], "idle")
    BY <1>1, <1>2, <2>1, <2>2, <2>3, Zenon DEF Kept
  <2>5. QED
    BY <2>4, OneJob, Zenon
<1>6. CASE TimeoutAbort(j)
  <2>1. Consistent(desk[j], history[j], "idle")
    BY <1>1 DEF Consistent
  <2>2. desk' = [desk EXCEPT ![j] = desk[j]] /\ tick' = [tick EXCEPT ![j] = "idle"]
    BY <1>6 DEF TimeoutAbort, DeskInv, ReviewTypeOK
  <2>3. Kept(j, desk[j], history[j], "idle")
    BY <1>1, <1>2, <2>1, <2>2, Zenon DEF Kept
  <2>4. QED
    BY <2>3, OneJob, Zenon
<1>7. QED
  BY <1>3, <1>4, <1>5, <1>6

\* A deletion only marks items, and takes jobs that no tick is processing.
LEMMA DeletionKeeps == ASSUME DeskInv, DeletionRequest PROVE DeskInv'
<1>1. CASE WithdrawItems
  <2>1. {j \in Job : desk[j].run # "none" /\ ~desk[j].withdrawn} \in SUBSET Job
    OBVIOUS
  <2>2. deletion' \in Deletion
    BY <1>1, <2>1 DEF WithdrawItems, Deletion
  <2>3. QED
    BY <1>1, <2>2 DEF WithdrawItems, DeskInv, ReviewTypeOK
<1>2. CASE EraseJobs
  <2> DEFINE d(j) == [desk[j] EXCEPT !.withdrawn = @ \/ j \in deletion.items, !.armed = FALSE]
             h(j) == [history[j] EXCEPT !.erased = @ \/ desk[j].armed]
  <2>1. ASSUME NEW j \in Job
        PROVE  d(j) \in Desk /\ h(j) \in History /\ Consistent(d(j), h(j), tick[j])
    <3>1. /\ desk[j] \in Desk /\ history[j] \in History /\ tick[j] \in {"idle", "read"}
          /\ Consistent(desk[j], history[j], tick[j])
          /\ desk[j].armed => tick[j] = "idle"
      BY <1>2 DEF EraseJobs, DeskInv, ReviewTypeOK
    <3>2. d(j) \in Desk /\ h(j) \in History
      BY <3>1 DEF Desk, History
    <3>3. tick[j] = "idle"
      BY <3>1 DEF Consistent
    <3>4. QED
      BY <3>1, <3>2, <3>3 DEF Consistent, Desk, History
  <2>2. desk' = [j \in Job |-> d(j)] /\ history' = [j \in Job |-> h(j)]
    BY <1>2 DEF EraseJobs
  <2>3. deletion' \in Deletion /\ stageless' \in BOOLEAN /\ UNCHANGED <<seen, tick>>
    BY <1>2 DEF EraseJobs, NoDeletion, Deletion, DeskInv, ReviewTypeOK
  <2> HIDE DEF d, h
  <2>4. ReviewTypeOK'
    BY <2>1, <2>2, <2>3 DEF DeskInv, ReviewTypeOK
  <2>5. QED
    BY <2>1, <2>2, <2>3, <2>4 DEF DeskInv
<1>3. QED
  BY <1>1, <1>2 DEF DeletionRequest

LEMMA DeskInvStep == DeskInv /\ [ReviewNext]_reviewVars => DeskInv'
<1>1. SUFFICES ASSUME DeskInv, [ReviewNext]_reviewVars PROVE DeskInv'
  OBVIOUS
<1>2. CASE UNCHANGED reviewVars
  BY <1>1, <1>2 DEF reviewVars, DeskInv, ReviewTypeOK
<1>3. CASE RetryButton
  BY <1>1, <1>3 DEF RetryButton, DeskInv, ReviewTypeOK
<1>4. CASE ReviewNext /\ ~DeletionRequest /\ ~RetryButton
  <2>1. PICK j \in Job :
            \/ Create(j)
            \/ \E p \in Person : View(p, j)
            \/ \E r \in Reviewer, approved \in BOOLEAN : Decide(r, j, approved)
            \/ \E e \in Editor : Edit(e, j)
            \/ TimeoutStale(j) \/ TimeoutRead(j) \/ TimeoutWrite(j) \/ TimeoutAbort(j)
    BY <1>4 DEF ReviewNext, JobRequests, GateRequests
  <2>2. QED
    BY <1>1, <2>1, CreateKeeps, ViewKeeps, DecideKeeps, EditKeeps, TimeoutKeeps
<1>5. CASE DeletionRequest
  BY <1>1, <1>5, DeletionKeeps
<1>6. QED
  BY <1>1, <1>2, <1>3, <1>4, <1>5

LEMMA DeskInvHolds == ReviewSpec => []DeskInv
BY DeskInvStart, DeskInvStep, PTL DEF ReviewSpec

\* Every reachable state is well typed (the rows of review_gates,
\* pipeline_runs and content_items that a content job owns).
THEOREM DeskTypes == ReviewSpec => []ReviewTypeOK
<1>1. DeskInv => ReviewTypeOK
  BY DEF DeskInv
<1>2. QED
  BY <1>1, DeskInvHolds, PTL

\* Nothing passes the review gate but what a reviewer saw and approved
\* (decide_review_gate, edit_review_gate_content, assert_publishable).
THEOREM Reviewed == ReviewSpec => []PublishedAsReviewed
<1>1. DeskInv => PublishedAsReviewed
  BY DEF DeskInv, ReviewTypeOK, Consistent, PublishedAsReviewed, Publishable
<1>2. QED
  BY <1>1, DeskInvHolds, PTL

\* One decision per gate, exactly when its run is over (submit_review_decision
\* and resume_from_review against handle_review_timeout).
THEOREM Decided == ReviewSpec => []DecidedOnce
<1>1. DeskInv => DecidedOnce
  BY DEF DeskInv, Consistent, DecidedOnce
<1>2. QED
  BY <1>1, DeskInvHolds, PTL

\* Editors never overwrite an edit they did not see
\* (edit_review_gate_content).
THEOREM Edited == ReviewSpec => []EditsBuildOnEachOther
<1>1. DeskInv => EditsBuildOnEachOther
  BY DEF DeskInv, Consistent, EditsBuildOnEachOther
<1>2. QED
  BY <1>1, DeskInvHolds, PTL

\* A gate that waits has its timeout job, whatever ticks failed, unless a deletion of the
\* content took it (pause_for_review, handle_review_timeout, delete_workspace_content).
THEOREM Armed == ReviewSpec => []AwaitingIsArmed
<1>1. DeskInv => AwaitingIsArmed
  BY DEF DeskInv, Consistent, AwaitingIsArmed, Awaiting
<1>2. QED
  BY <1>1, DeskInvHolds, PTL

-----------------------------------------------------------------------------
(* Extremes of sets of naturals.                                           *)

\* A finite set of naturals has a least and a greatest element: of the finite sets that
\* had none a smallest would be one element more than a set that has one.
LEMMA Extremes ==
    ASSUME NEW S \in SUBSET Nat, IsFiniteSet(S), S # {}
    PROVE  /\ \E x \in S : \A y \in S : y <= x
           /\ \E x \in S : \A y \in S : x <= y
<1> DEFINE Has(T) == /\ \E x \in T : \A y \in T : y <= x
                     /\ \E x \in T : \A y \in T : x <= y
           Bad == {T \in FiniteSubsetsOf(Nat) : T # {} /\ ~Has(T)}
<1>1. SUFFICES ASSUME Bad # {} PROVE FALSE
  <2>1. S \in FiniteSubsetsOf(Nat)
    BY DEF FiniteSubsetsOf
  <2>2. QED
    BY <2>1
<1>2. IsWellFoundedOn(StrictSubsetOrdering(Nat), FiniteSubsetsOf(Nat))
  BY FS_StrictSubsetOrderingWellFounded
<1>3. Bad \subseteq FiniteSubsetsOf(Nat)
  OBVIOUS
<1>4. PICK T \in Bad : \A U \in Bad : ~(<<U, T>> \in StrictSubsetOrdering(Nat))
  <2> HIDE DEF Bad
  <2>1. QED
    BY <1>1, <1>2, <1>3, WFMin
<1>5. T \in SUBSET Nat /\ IsFiniteSet(T) /\ T # {} /\ ~Has(T)
  BY DEF FiniteSubsetsOf
<1>6. PICK x \in T : TRUE
  BY <1>5
<1>7. PICK U : U = T \ {x}
  OBVIOUS
<1>8. U \in SUBSET Nat /\ U \in FiniteSubsetsOf(Nat) /\ T \in FiniteSubsetsOf(Nat) /\ U # T /\ U \subseteq T
  BY <1>5, <1>6, <1>7, FS_RemoveElement DEF FiniteSubsetsOf
<1>9. U = {} \/ Has(U)
  <2>1. <<U, T>> \in StrictSubsetOrdering(Nat)
    <3>1. <<U, T>> \in (SUBSET Nat) \X (SUBSET Nat) /\ <<U, T>>[1] = U /\ <<U, T>>[2] = T
      BY <1>5, <1>8
    <3>2. QED
      BY <1>8, <3>1, Zenon DEF StrictSubsetOrdering
  <2>2. QED
    BY <1>4, <1>8, <2>1
<1>10. CASE U = {}
  BY <1>5, <1>6, <1>7, <1>10
<1>11. CASE Has(U)
  <2>1. PICK m \in U : \A y \in U : y <= m
    BY <1>11
  <2>2. PICK l \in U : \A y \in U : l <= y
    BY <1>11
  <2>3. x \in Nat /\ m \in Nat /\ l \in Nat /\ \A y \in T : y \in Nat /\ (y = x \/ y \in U)
    BY <1>5, <1>6, <1>7, <1>8
  <2>4. \E z \in T : \A y \in T : y <= z
    BY <1>6, <1>8, <2>1, <2>3
  <2>5. \E z \in T : \A y \in T : z <= y
    BY <1>6, <1>8, <2>2, <2>3
  <2>6. QED
    BY <1>5, <2>4, <2>5
<1>12. QED
  BY <1>9, <1>10, <1>11

LEMMA MaxBound ==
    ASSUME NEW S \in SUBSET Nat, NEW b \in Nat, \A x \in S : x <= b, S # {}
    PROVE  Max(S) \in S /\ \A y \in S : y <= Max(S)
<1>1. IsFiniteSet(S)
  BY FS_BoundedSetOfNaturals
<1>2. PICK x \in S : \A y \in S : x >= y
  BY <1>1, Extremes
<1>3. QED
  BY <1>2 DEF Max

-----------------------------------------------------------------------------
(* Sequences, and copies of rows.                                          *)

\* u is s, of n members of X, and e after them.
Extends(u, s, e, n, X) == u \in [1..n + 1 -> X] /\ u[n + 1] = e /\ \A i \in 1..n : u[i] = s[i]

LEMMA Appended ==
    ASSUME NEW X, NEW n \in Nat, NEW s \in [1..n -> X], NEW e \in X
    PROVE  Extends(Append(s, e), s, e, n, X)
<1> DEFINE u == Append(s, e)
<1>1. s \in Seq(X) /\ Len(s) = n
  OBVIOUS
<1>2. u \in Seq(X) /\ Len(u) = n + 1 /\ u[n + 1] = e /\ \A i \in 1..n : u[i] = s[i]
  BY <1>1
<1>3. u \in [1..Len(u) -> X]
  BY <1>2, LenProperties
<1>4. QED
  BY <1>2, <1>3 DEF Extends

\* An update with a current copy writes all that is new.
LEMMA UpdateCurrent ==
    ASSUME NEW D, NEW new, new = [f \in D |-> new[f]], NEW row, row = [f \in D |-> row[f]]
    PROVE  Update(row, row, new) = new
<1>1. DOMAIN row = D
  BY Zenon
<1>2. \A f \in D : (IF new[f] = row[f] THEN row[f] ELSE new[f]) = new[f]
  OBVIOUS
<1>3. Update(row, row, new) = [f \in D |-> new[f]]
  BY <1>1, <1>2 DEF Update
<1>4. QED
  BY <1>3

RowFields == {"prior", "audited", "duplicate", "invalidated", "gate", "handoff", "status"}

LEMMA RowsAreFunctions ==
    ASSUME NEW r \in PackageRow
    PROVE  r = [f \in RowFields |-> r[f]] /\ DOMAIN r = RowFields
  BY DEF PackageRow, RowFields

LEMMA UpdateTyped ==
    ASSUME NEW row \in PackageRow, NEW copy \in PackageRow, NEW new \in PackageRow,
           NEW u, u = Update(row, copy, new)
    PROVE  /\ u \in PackageRow
           /\ \A f \in RowFields : u[f] = IF new[f] = copy[f] THEN row[f] ELSE new[f]
<1>1. \A f \in RowFields : u[f] = IF new[f] = copy[f] THEN row[f] ELSE new[f]
  BY RowsAreFunctions DEF Update
<1>2. u = [f \in RowFields |-> u[f]]
  BY RowsAreFunctions DEF Update
<1>3. u = [prior |-> u.prior, audited |-> u.audited, duplicate |-> u.duplicate, invalidated |-> u.invalidated,
           gate |-> u.gate, handoff |-> u.handoff, status |-> u.status]
  BY <1>2 DEF RowFields
<1>4. /\ u.prior \in Package \cup {0} /\ u.audited \in BOOLEAN /\ u.duplicate \in BOOLEAN
      /\ u.invalidated \in BOOLEAN /\ u.gate \in {"not_ready", "pass", "blocked", "invalidated"}
      /\ u.handoff \in {"blocked", "provider_not_configured"}
      /\ u.status \in {"awaiting_audits", "audited_ready", "audited_blocked", "superseded"}
  BY <1>1 DEF RowFields, PackageRow
<1>5. u \in PackageRow
  BY <1>3, <1>4 DEF PackageRow
<1>6. QED
  BY <1>1, <1>5

LEMMA RunTyped ==
    ASSUME NEW run \in Run, NEW copy \in Run, NEW new \in Run, NEW u, u = Update(run, copy, new)
    PROVE  /\ u \in Run
           /\ u.ready = run.ready \/ (u.ready = new.ready /\ new.ready # copy.ready)
           /\ u.blocked = run.blocked \/ (u.blocked = new.blocked /\ new.blocked # copy.blocked)
<1>1. DOMAIN run = {"ready", "blocked"}
  BY DEF Run
<1>2. /\ u.ready = IF new.ready = copy.ready THEN run.ready ELSE new.ready
      /\ u.blocked = IF new.blocked = copy.blocked THEN run.blocked ELSE new.blocked
      /\ u = [f \in {"ready", "blocked"} |-> u[f]]
  BY <1>1 DEF Update
<1>3. u = [ready |-> u.ready, blocked |-> u.blocked]
  BY <1>2
<1>4. u.ready \in Nat /\ u.blocked \in Nat
  BY <1>2 DEF Run
<1>5. QED
  BY <1>2, <1>3, <1>4 DEF Run

-----------------------------------------------------------------------------
(* Types.                                                                  *)

WriteRequest ==
    [op : {"write"}, about : Package \cup {0}, stale : BOOLEAN, script : Script, duplicate : BOOLEAN,
     copy : PackageRow \cup {Idle}, audits : SUBSET Audit]
AuditRequest ==
    [op : {"audit"}, about : Package, stale : BOOLEAN, copy : PackageRow, claims : Claims, audit : Audit]
JudgedAudit ==
    [op : {"judged"}, about : Package, stale : BOOLEAN, copy : PackageRow, claims : Claims, audit : Audit,
     gate : {"pass", "blocked", "not_ready"}, run : Run]
Asked == WriteRequest \cup AuditRequest \cup JudgedAudit

Auditing(s) == tx[s].op \in {"audit", "judged"}
Busy == {s \in Session : tx[s] # Idle}
Writers == {s \in Session : tx[s].op = "write"}

\* A request is about a package there is, and has loaded audits of that.
Placed(s) ==
    /\ tx[s].op = "write" =>
        /\ tx[s].about \in Written \cup {0} /\ tx[s].audits \subseteq AuditsOf(tx[s].about)
        /\ IF tx[s].about = 0 THEN ~tx[s].stale ELSE tx[s].copy \in PackageRow
    /\ Auditing(s) => tx[s].about \in Written /\ tx[s].audit.package = tx[s].about

\* b is no earlier than any audit, committed or in progress.
NoneAfter(b) ==
    /\ \A a \in audits : a.at <= b
    /\ \A s \in Session : Auditing(s) => tx[s].audit.at <= b

PackageTypes ==
    /\ TypeOK
    /\ tx \in [Session -> {Idle} \cup Asked]
    /\ \A s \in Session : Placed(s)
    /\ \A a \in audits : a.package \in Written
    /\ jobs \subseteq Written
    /\ IsFiniteSet(audits) /\ IsFiniteSet(Busy) /\ IsFiniteSet(Writers)
    /\ Len(packages) + Cardinality(Writers) <= MaxPackages
    /\ \E b \in Nat : NoneAfter(b)

\* The tables of packages have a row for each.
Sized(n) ==
    /\ n \in 0..MaxPackages /\ n \in Nat /\ Len(packages) = n /\ Written = 1..n
    /\ packages \in [1..n -> PackageRow]
    /\ claims \in [1..n -> Claims]
    /\ runs \in [1..n -> Run]
    /\ originality \in [1..n -> Originality]
    /\ raced \subseteq 1..n

LEMMA HasSize ==
    ASSUME TypeOK
    PROVE  \E n \in Nat : Sized(n)
<1>1. PICK n \in 0..MaxPackages :
        /\ packages \in [1..n -> PackageRow]
        /\ claims \in [1..n -> Claims]
        /\ runs \in [1..n -> Run]
        /\ originality \in [1..n -> Originality]
        /\ raced \subseteq 1..n
  BY DEF TypeOK
<1>2. n \in Nat
  BY PackageAssumption
<1>3. Len(packages) = n /\ Written = 1..n
  BY <1>1, <1>2 DEF Written
<1>4. Sized(n)
  BY <1>1, <1>2, <1>3 DEF Sized
<1>5. QED
  BY <1>2, <1>4

LEMMA RequestKinds ==
    ASSUME NEW t \in {Idle} \cup Asked
    PROVE  /\ t.op \in {"idle", "write", "audit", "judged"}
           /\ t.op = "idle" <=> t = Idle
           /\ t.op = "write" => t \in WriteRequest
           /\ t.op = "audit" => t \in AuditRequest
           /\ t.op = "judged" => t \in JudgedAudit
           /\ t.op \in {"audit", "judged"} => t.audit \in Audit /\ t.copy \in PackageRow /\ t.claims \in Claims
           /\ t # Idle => t.about \in Package \cup {0} /\ t.stale \in BOOLEAN
  BY DEF Idle, Asked, WriteRequest, AuditRequest, JudgedAudit

-----------------------------------------------------------------------------
(* What a step leaves of the requests it is not of.                        *)

\* The request of r stands while another step writes the row of p, or none if p is 0.
Stands(r, p) ==
    /\ tx'[r] \in {Idle} \cup Asked
    /\ tx'[r].op = tx[r].op
    /\ tx[r] # Idle =>
        /\ tx'[r].about = tx[r].about /\ tx'[r].copy = tx[r].copy
        /\ tx'[r].stale <=> (tx[r].stale \/ (p # 0 /\ tx[r].about = p))
    /\ tx[r].op = "write" => tx'[r].audits = tx[r].audits
    /\ tx[r].op \in {"audit", "judged"} => tx'[r].audit = tx[r].audit /\ tx'[r].claims = tx[r].claims
    /\ tx[r].op = "judged" => tx'[r].gate = tx[r].gate /\ tx'[r].run = tx[r].run

LEMMA Unmoved ==
    ASSUME PackageTypes, NEW r \in Session, tx'[r] = tx[r]
    PROVE  Stands(r, 0)
  BY RequestKinds DEF Stands, PackageTypes

LEMMA MadeStale ==
    ASSUME NEW t \in Asked, NEW u, u = [t EXCEPT !.stale = TRUE]
    PROVE  /\ u \in Asked /\ u.op = t.op /\ u.about = t.about /\ u.copy = t.copy /\ u.stale
           /\ t.op = "write" => u.audits = t.audits
           /\ t.op \in {"audit", "judged"} => u.audit = t.audit /\ u.claims = t.claims
           /\ t.op = "judged" => u.gate = t.gate /\ u.run = t.run
<1>1. CASE t \in WriteRequest
  BY <1>1 DEF WriteRequest, Asked
<1>2. CASE t \in AuditRequest
  BY <1>2 DEF AuditRequest, Asked
<1>3. CASE t \in JudgedAudit
  BY <1>3 DEF JudgedAudit, Asked
<1>4. QED
  BY <1>1, <1>2, <1>3 DEF Asked

LEMMA CommitStands ==
    ASSUME PackageTypes, NEW s \in Session, tx[s] # Idle, Commit(s)
    PROVE  /\ tx'[s] = Idle
           /\ \A r \in Session : r # s => Stands(r, tx[s].about)
           /\ raced' = IF tx[s].stale THEN raced \cup {tx[s].about} ELSE raced
<1>1. PICK p : p = tx[s].about
  OBVIOUS
<1>2. \A r \in Session : tx[r] \in {Idle} \cup Asked
  BY DEF PackageTypes
<1>3. \A r \in Session : tx[r].op = "idle" <=> tx[r] = Idle
  BY <1>2, RequestKinds
<1>4. About(tx[s]) = p /\ \A r \in Session : About(tx[r]) = IF tx[r] = Idle THEN 0 ELSE tx[r].about
  BY <1>1, <1>3 DEF About
<1>5. tx' = [r \in Session |-> IF r = s THEN Idle
                               ELSE IF p # 0 /\ About(tx[r]) = p THEN [tx[r] EXCEPT !.stale = TRUE]
                               ELSE tx[r]]
      /\ raced' = IF tx[s].stale THEN raced \cup {p} ELSE raced
  BY <1>4 DEF Commit
<1>6. ASSUME NEW r \in Session, r # s
      PROVE  Stands(r, p)
  <2>1. CASE p # 0 /\ About(tx[r]) = p
    <3>1. tx[r] # Idle /\ tx[r] \in Asked /\ tx[r].about = p
      BY <1>2, <1>4, <2>1
    <3>2. tx'[r] = [tx[r] EXCEPT !.stale = TRUE]
      BY <1>5, <1>6, <2>1
    <3>3. QED
      BY <2>1, <3>1, <3>2, MadeStale DEF Stands
  <2>2. CASE ~(p # 0 /\ About(tx[r]) = p)
    <3>1. tx'[r] = tx[r]
      BY <1>5, <1>6, <2>2
    <3>2. Stands(r, 0)
      BY <3>1, Unmoved
    <3>3. tx[r] # Idle => ~(p # 0 /\ tx[r].about = p)
      BY <1>4, <2>2
    <3>4. QED
      BY <3>1, <3>2, <3>3 DEF Stands
  <2>3. QED
    BY <2>1, <2>2
<1>7. QED
  BY <1>1, <1>5, <1>6

LEMMA SetStands ==
    ASSUME PackageTypes, NEW s \in Session, NEW t, tx' = [tx EXCEPT ![s] = t]
    PROVE  tx'[s] = t /\ \A r \in Session : r # s => Stands(r, 0)
<1>1. tx'[s] = t /\ \A r \in Session : r # s => tx'[r] = tx[r]
  BY DEF PackageTypes
<1>2. QED
  BY <1>1, Unmoved

-----------------------------------------------------------------------------
(* What the two requests that write leave in the tables.                   *)

LEMMA SupersededTyped ==
    ASSUME NEW copy \in PackageRow, NEW new, new = Superseded(copy)
    PROVE  /\ new \in PackageRow
           /\ new.prior = copy.prior /\ new.audited = copy.audited /\ new.duplicate = copy.duplicate
           /\ new.invalidated /\ new.gate = "invalidated" /\ new.handoff = "blocked"
           /\ new.status = "superseded"
  BY DEF Superseded, PackageRow

StatusOf(gate) ==
    CASE gate = "pass" -> "audited_ready"
      [] gate = "blocked" -> "audited_blocked"
      [] OTHER -> "awaiting_audits"

LEMMA RecalculatedTyped ==
    ASSUME NEW copy \in PackageRow, NEW gate \in {"pass", "blocked", "not_ready"},
           NEW new, new = Recalculated(copy, gate)
    PROVE  /\ new \in PackageRow
           /\ new.prior = copy.prior /\ new.audited = copy.audited /\ new.duplicate = copy.duplicate
           /\ new.invalidated = copy.invalidated /\ new.gate = gate
           /\ new.handoff = IF gate = "pass" THEN "provider_not_configured" ELSE "blocked"
           /\ new.status = StatusOf(gate)
<1>1. PICK status : status = StatusOf(gate)
  OBVIOUS
<1>2. status \in {"awaiting_audits", "audited_ready", "audited_blocked"}
  BY <1>1 DEF StatusOf
<1>3. PICK handoff : handoff = IF gate = "pass" THEN "provider_not_configured" ELSE "blocked"
  OBVIOUS
<1>4. new = [copy EXCEPT !.gate = gate, !.handoff = handoff, !.status = status]
  BY <1>1, <1>3 DEF Recalculated, StatusOf
<1>5. handoff \in {"blocked", "provider_not_configured"}
  BY <1>3
<1>6. QED
  BY <1>1, <1>2, <1>3, <1>4, <1>5 DEF PackageRow

LEMMA NewTyped ==
    ASSUME NEW t \in WriteRequest, NEW new, new = NewPackage(t)
    PROVE  /\ new \in PackageRow
           /\ new.prior = t.about /\ new.audited = (t.audits # {}) /\ new.duplicate = t.duplicate
           /\ ~new.invalidated /\ new.gate = IF t.duplicate THEN "blocked" ELSE "not_ready"
           /\ new.handoff = "blocked" /\ new.status = StatusOf(new.gate)
  BY DEF NewPackage, WriteRequest, PackageRow, StatusOf

\* A writer finds room for its package.
LEMMA HasRoom ==
    ASSUME PackageTypes, NEW s \in Session, tx[s].op = "write"
    PROVE  Len(packages) + 1 <= MaxPackages
<1>1. Writers # {} /\ IsFiniteSet(Writers)
  BY DEF Writers, PackageTypes
<1>2. Cardinality(Writers) \in Nat /\ Cardinality(Writers) # 0
  BY <1>1, FS_CardinalityType, FS_EmptySet
<1>3. PICK n \in Nat : Sized(n)
  BY HasSize DEF PackageTypes
<1>4. Len(packages) \in Nat
  BY <1>3 DEF Sized
<1>5. QED
  BY <1>2, <1>4, PackageAssumption DEF PackageTypes

\* n packages were there, and there is one more.
Wrote(s, n) ==
    /\ Sized(n) /\ Sized(n + 1)'
    /\ packages'[n + 1] = NewPackage(tx[s])
    /\ claims'[n + 1] = "not_run" /\ runs'[n + 1] = NewRun
    /\ \A i \in 1..n :
        /\ claims'[i] = claims[i] /\ runs'[i] = runs[i]
        /\ packages'[i] = IF i = tx[s].about THEN Update(packages[i], tx[s].copy, Superseded(tx[s].copy))
                          ELSE packages[i]

LEMMA Writing ==
    ASSUME PackageTypes, NEW s \in Session, EndWrite(s)
    PROVE  \E n \in Nat : Wrote(s, n)
<1>1. PICK t : t = tx[s]
  OBVIOUS
<1>2. t \in WriteRequest /\ t.op = "write" /\ tx[s] # Idle
  BY <1>1, RequestKinds DEF EndWrite, PackageTypes
<1>3. PICK n \in Nat : Sized(n)
  BY HasSize DEF PackageTypes
<1>4. n + 1 \in 0..MaxPackages /\ n + 1 \in Nat
  BY <1>1, <1>2, <1>3, HasRoom, PackageAssumption DEF Sized
<1>5. t.about \in 1..n \cup {0} /\ (t.about = 0 => ~t.stale) /\ (t.about # 0 => t.copy \in PackageRow)
  BY <1>1, <1>2, <1>3 DEF PackageTypes, Placed, Sized
<1>6. PICK old : old = IF t.about = 0 THEN packages
                       ELSE [packages EXCEPT ![t.about] = Update(@, t.copy, Superseded(t.copy))]
  OBVIOUS
<1>7. /\ packages' = Append(old, NewPackage(t)) /\ claims' = Append(claims, "not_run")
      /\ runs' = Append(runs, NewRun) /\ originality' = Append(originality, t.script)
  BY <1>1, <1>6 DEF EndWrite
<1>8. /\ old \in [1..n -> PackageRow]
      /\ \A i \in 1..n : old[i] = IF i = t.about THEN Update(packages[i], t.copy, Superseded(t.copy)) ELSE packages[i]
  <2>1. CASE t.about = 0
    BY <1>3, <1>6, <2>1 DEF Sized
  <2>2. CASE t.about # 0
    <3>1. PICK u : u = Update(packages[t.about], t.copy, Superseded(t.copy))
      OBVIOUS
    <3>2. packages[t.about] \in PackageRow /\ packages \in [1..n -> PackageRow]
      BY <1>3, <1>5, <2>2 DEF Sized
    <3>3. u \in PackageRow
      BY <1>5, <2>2, <3>1, <3>2, SupersededTyped, UpdateTyped
    <3>4. old = [packages EXCEPT ![t.about] = u]
      BY <1>6, <2>2, <3>1
    <3>5. QED
      BY <1>5, <2>2, <3>1, <3>2, <3>3, <3>4
  <2>3. QED
    BY <2>1, <2>2
<1>9. NewPackage(t) \in PackageRow
  BY <1>2, NewTyped
<1>10. packages' \in [1..n + 1 -> PackageRow] /\ packages'[n + 1] = NewPackage(t) /\ \A i \in 1..n : packages'[i] = old[i]
  <2>1. Extends(Append(old, NewPackage(t)), old, NewPackage(t), n, PackageRow)
    BY <1>8, <1>9, Appended, Zenon
  <2>2. QED
    BY <1>7, <2>1 DEF Extends
<1>11. claims' \in [1..n + 1 -> Claims] /\ claims'[n + 1] = "not_run" /\ \A i \in 1..n : claims'[i] = claims[i]
  <2>1. "not_run" \in Claims /\ claims \in [1..n -> Claims]
    BY <1>3 DEF Sized, Claims
  <2>2. Extends(Append(claims, "not_run"), claims, "not_run", n, Claims)
    BY <2>1, Appended, Zenon
  <2>3. QED
    BY <1>7, <2>2 DEF Extends
<1>12. runs' \in [1..n + 1 -> Run] /\ runs'[n + 1] = NewRun /\ \A i \in 1..n : runs'[i] = runs[i]
  <2>1. NewRun \in Run /\ runs \in [1..n -> Run]
    BY <1>3 DEF Sized, NewRun, Run
  <2>2. Extends(Append(runs, NewRun), runs, NewRun, n, Run)
    BY <2>1, Appended, Zenon
  <2>3. QED
    BY <1>7, <2>2 DEF Extends
<1>13. originality' \in [1..n + 1 -> Originality]
  <2>1. t.script \in Originality /\ originality \in [1..n -> Originality]
    BY <1>2, <1>3 DEF Sized, Originality, WriteRequest
  <2>2. Extends(Append(originality, t.script), originality, t.script, n, Originality)
    BY <2>1, Appended, Zenon
  <2>3. QED
    BY <1>7, <2>2 DEF Extends
<1>14. raced' \subseteq 1..n + 1
  <2>1. raced' = IF t.stale THEN raced \cup {t.about} ELSE raced
    BY <1>1, <1>2, CommitStands DEF EndWrite
  <2>2. t.stale => t.about \in 1..n
    BY <1>5
  <2>3. 1..n \subseteq 1..n + 1
    OBVIOUS
  <2>4. QED
    BY <1>3, <2>1, <2>2, <2>3 DEF Sized
<1>15. Len(packages') = n + 1 /\ DOMAIN packages' = 1..n + 1
  BY <1>4, <1>10
<1>16. Sized(n + 1)'
  BY <1>4, <1>10, <1>11, <1>12, <1>13, <1>14, <1>15 DEF Sized, Written
<1>17. Wrote(s, n)
  BY <1>1, <1>3, <1>8, <1>10, <1>11, <1>12, <1>16 DEF Wrote
<1>18. QED
  BY <1>17

\* The row, the claims and the run of the package that has been audited.
Audited(s, n) ==
    /\ Sized(n) /\ Sized(n)'
    /\ tx[s].about \in 1..n
    /\ packages'[tx[s].about] = Update(packages[tx[s].about], tx[s].copy, Recalculated(tx[s].copy, tx[s].gate))
    /\ claims'[tx[s].about] = IF WritesClaims(tx[s]) THEN ClaimsAfter(tx[s].audit, claims[tx[s].about])
                              ELSE claims[tx[s].about]
    /\ runs'[tx[s].about] = Update(runs[tx[s].about], tx[s].run, Counted(tx[s].run, tx[s].gate))
    /\ \A i \in 1..n : i # tx[s].about =>
        packages'[i] = packages[i] /\ claims'[i] = claims[i] /\ runs'[i] = runs[i]

LEMMA CountedTyped ==
    ASSUME NEW run \in Run, NEW gate, NEW new, new = Counted(run, gate)
    PROVE  /\ new \in Run
           /\ new.ready = IF gate = "pass" THEN run.ready + 1 ELSE run.ready
           /\ new.blocked = IF gate = "blocked" THEN run.blocked + 1 ELSE run.blocked
  BY DEF Counted, Run

LEMMA Auditings ==
    ASSUME PackageTypes, NEW s \in Session, EndAudit(s)
    PROVE  \E n \in Nat : Audited(s, n)
<1>1. PICK t : t = tx[s]
  OBVIOUS
<1>2. t \in JudgedAudit /\ t.op = "judged" /\ tx[s] # Idle
  BY <1>1, RequestKinds DEF EndAudit, PackageTypes
<1>3. PICK n \in Nat : Sized(n)
  BY HasSize DEF PackageTypes
<1>4. t.about \in 1..n
  BY <1>1, <1>2, <1>3 DEF PackageTypes, Placed, Auditing, Sized
<1>5. PICK u : u = Update(packages[t.about], t.copy, Recalculated(t.copy, t.gate))
  OBVIOUS
<1>6. u \in PackageRow
  <2>1. t.copy \in PackageRow /\ t.gate \in {"pass", "blocked", "not_ready"} /\ packages[t.about] \in PackageRow
    BY <1>2, <1>3, <1>4 DEF JudgedAudit, Sized
  <2>2. QED
    BY <1>5, <2>1, RecalculatedTyped, UpdateTyped
<1>7. PICK c : c = IF WritesClaims(t) THEN ClaimsAfter(t.audit, claims[t.about]) ELSE claims[t.about]
  OBVIOUS
<1>8. c \in Claims
  <2>1. claims[t.about] \in Claims
    BY <1>3, <1>4 DEF Sized
  <2>2. QED
    BY <1>7, <2>1 DEF ClaimsAfter, Claims
<1>9. PICK r : r = Update(runs[t.about], t.run, Counted(t.run, t.gate))
  OBVIOUS
<1>10. r \in Run
  <2>1. t.run \in Run /\ runs[t.about] \in Run
    BY <1>2, <1>3, <1>4 DEF JudgedAudit, Sized
  <2>2. QED
    BY <1>9, <2>1, CountedTyped, RunTyped
<1>11. packages' = [packages EXCEPT ![t.about] = u] /\ claims' = [claims EXCEPT ![t.about] = c]
       /\ runs' = [runs EXCEPT ![t.about] = r] /\ UNCHANGED originality
  BY <1>1, <1>5, <1>7, <1>9 DEF EndAudit
<1>12. packages' \in [1..n -> PackageRow] /\ claims' \in [1..n -> Claims] /\ runs' \in [1..n -> Run]
       /\ originality' \in [1..n -> Originality]
  BY <1>3, <1>4, <1>6, <1>8, <1>10, <1>11 DEF Sized
<1>13. raced' \subseteq 1..n
  BY <1>1, <1>2, <1>3, <1>4, CommitStands DEF EndAudit, Sized
<1>14. Len(packages') = n /\ DOMAIN packages' = 1..n
  BY <1>12
<1>15. Sized(n)'
  BY <1>3, <1>12, <1>13, <1>14 DEF Sized, Written
<1>16. /\ packages'[t.about] = u /\ claims'[t.about] = c /\ runs'[t.about] = r
       /\ \A i \in 1..n : i # t.about =>
            packages'[i] = packages[i] /\ claims'[i] = claims[i] /\ runs'[i] = runs[i]
  BY <1>3, <1>4, <1>11 DEF Sized
<1>17. Audited(s, n)
  BY <1>1, <1>3, <1>4, <1>5, <1>7, <1>9, <1>15, <1>16 DEF Audited
<1>18. QED
  BY <1>17

-----------------------------------------------------------------------------
(* The types are kept.                                                     *)

\* An audit is dated after every audit of its kind and package, committed or in progress.
LEMMA CheckedLast ==
    ASSUME PackageTypes, NEW p, NEW kind, NEW m, m = CheckedAt(p, kind)
    PROVE  /\ m \in Nat
           /\ \A a \in AuditsOf(p) : a.kind = kind => a.at < m
           /\ \A s \in Session : Auditing(s) /\ tx[s].audit.package = p /\ tx[s].audit.kind = kind =>
                tx[s].audit.at < m
<1>1. PICK A : A = {a \in audits \cup InProgress : a.package = p /\ a.kind = kind}
  OBVIOUS
<1>2. PICK S : S = {0} \cup {a.at : a \in A}
  OBVIOUS
<1>3. \A s \in Session : Auditing(s) => tx[s].audit \in Audit /\ tx[s].audit \in InProgress
  BY RequestKinds DEF PackageTypes, Auditing, InProgress
<1>4. \A a \in A : a \in Audit /\ (a \in audits \/ \E s \in Session : Auditing(s) /\ a = tx[s].audit)
  BY <1>1, <1>3 DEF InProgress, Auditing, PackageTypes, TypeOK
<1>5. PICK b \in Nat : NoneAfter(b)
  BY DEF PackageTypes
<1>6. S \in SUBSET Nat /\ S # {}
  BY <1>2, <1>4 DEF Audit
<1>7. \A x \in S : x <= b
  BY <1>2, <1>4, <1>5 DEF NoneAfter
<1>8. Max(S) \in Nat /\ \A y \in S : y <= Max(S)
  BY <1>5, <1>6, <1>7, MaxBound
<1>9. m = Max(S) + 1
  BY <1>1, <1>2 DEF CheckedAt
<1>10. \A y \in S : y \in Nat /\ y < m
  BY <1>6, <1>8, <1>9
<1>11. \A a \in A : a.at \in S
  BY <1>2
<1>12. \A a \in AuditsOf(p) : a.kind = kind => a \in A
  BY <1>1 DEF AuditsOf
<1>13. \A s \in Session : Auditing(s) /\ tx[s].audit.package = p /\ tx[s].audit.kind = kind => tx[s].audit \in A
  BY <1>1, <1>3
<1>14. QED
  BY <1>8, <1>9, <1>10, <1>11, <1>12, <1>13

LEMMA PlacedStays ==
    ASSUME NEW r \in Session, NEW p, Stands(r, p), tx[r] # Idle \/ tx[r].op = "idle", Placed(r),
           Written \subseteq Written', audits \subseteq audits'
    PROVE  Placed(r)'
<1>1. \A q : AuditsOf(q) \subseteq AuditsOf(q)'
  BY DEF AuditsOf
<1>2. CASE tx[r].op = "write"
  BY <1>1, <1>2 DEF Stands, Placed, Auditing
<1>3. CASE tx[r].op \in {"audit", "judged"}
  BY <1>3 DEF Stands, Placed, Auditing
<1>4. CASE tx[r].op \notin {"write", "audit", "judged"}
  BY <1>4 DEF Stands, Placed, Auditing
<1>5. QED
  BY <1>2, <1>3, <1>4

\* What is left of a step for the types, once its tables are typed.
LEMMA RequestsStay ==
    ASSUME PackageTypes, NEW s \in Session, NEW p, \A r \in Session : r # s => Stands(r, p),
           DOMAIN tx' = Session, tx' = [r \in Session |-> tx'[r]],
           tx'[s] \in {Idle} \cup Asked, Placed(s)',
           Written \subseteq Written', audits \subseteq audits'
    PROVE  /\ tx' \in [Session -> {Idle} \cup Asked]
           /\ \A r \in Session : Placed(r)'
           /\ IsFiniteSet(Busy') /\ IsFiniteSet(Writers')
           /\ Writers' \subseteq Writers \cup {s} /\ Writers \ {s} \subseteq Writers'
<1>1. \A r \in Session : tx'[r] \in {Idle} \cup Asked
  BY DEF Stands
<1>2. \A r \in Session : tx[r] \in {Idle} \cup Asked /\ Placed(r)
  BY DEF PackageTypes
<1>3. \A r \in Session : (tx[r].op = "idle" <=> tx[r] = Idle) /\ (tx'[r].op = "idle" <=> tx'[r] = Idle)
  BY <1>1, <1>2, RequestKinds
<1>4. \A r \in Session : Placed(r)'
  BY <1>2, <1>3, PlacedStays
<1>5. Busy' \subseteq Busy \cup {s}
  BY <1>3 DEF Busy, Stands
<1>6. Writers' \subseteq Writers \cup {s} /\ Writers \ {s} \subseteq Writers'
  BY DEF Writers, Stands
<1>7. IsFiniteSet(Busy \cup {s}) /\ IsFiniteSet(Writers \cup {s})
  BY FS_AddElement DEF PackageTypes
<1>8. IsFiniteSet(Busy') /\ IsFiniteSet(Writers')
  BY <1>5, <1>6, <1>7, FS_Subset
<1>9. QED
  BY <1>1, <1>4, <1>6, <1>8

\* One session more may write than did.
LEMMA WritersCount ==
    ASSUME NEW W, NEW V, IsFiniteSet(W), NEW s, V \subseteq W \cup {s}, W \ {s} \subseteq V
    PROVE  /\ Cardinality(V) \in Nat /\ Cardinality(W) \in Nat
           /\ Cardinality(V) <= Cardinality(W) + 1
           /\ s \in W \/ s \notin V => Cardinality(V) <= Cardinality(W)
           /\ s \in W /\ s \notin V => Cardinality(V) = Cardinality(W) - 1
<1>1. /\ IsFiniteSet(W \cup {s})
      /\ Cardinality(W \cup {s}) = IF s \in W THEN Cardinality(W) ELSE Cardinality(W) + 1
  BY FS_AddElement
<1>2. IsFiniteSet(V) /\ Cardinality(V) <= Cardinality(W \cup {s})
  BY <1>1, FS_Subset
<1>3. Cardinality(V) \in Nat /\ Cardinality(W) \in Nat
  BY <1>2, FS_CardinalityType
<1>4. s \notin V => V \subseteq W
  OBVIOUS
<1>5. V \subseteq W => Cardinality(V) <= Cardinality(W)
  BY FS_Subset
<1>6. s \in W /\ s \notin V => V = W \ {s}
  OBVIOUS
<1>7. s \in W => Cardinality(W \ {s}) = Cardinality(W) - 1
  BY FS_RemoveElement
<1>8. QED
  BY <1>1, <1>2, <1>3, <1>4, <1>5, <1>6, <1>7

LEMMA TypeOKFrom ==
    ASSUME PackageTypes, NEW n, Sized(n)', audits' \subseteq Audit, invalidations' \subseteq audits',
           live_runs' \in 0..MaxRequests, jobs' \subseteq ProductionJob
    PROVE  TypeOK'
  BY DEF Sized, TypeOK

LEMMA PackageTypesStart == Init => PackageTypes
<1> SUFFICES ASSUME Init PROVE PackageTypes
  OBVIOUS
<1>1. TypeOK
  <2>1. 0 \in 0..MaxPackages /\ 0 \in 0..MaxRequests /\ 1..0 = {}
    BY PackageAssumption
  <2>2. /\ packages \in [1..0 -> PackageRow] /\ claims \in [1..0 -> Claims] /\ runs \in [1..0 -> Run]
        /\ originality \in [1..0 -> Originality] /\ raced \subseteq 1..0
    BY DEF Init
  <2>3. QED
    BY <2>1, <2>2 DEF Init, TypeOK
<1>2. Busy = {} /\ Writers = {}
  BY DEF Init, Busy, Writers, Idle
<1>3. IsFiniteSet({}) /\ Cardinality({}) = 0
  BY FS_EmptySet
<1>4. NoneAfter(0)
  BY DEF Init, NoneAfter, Auditing, Idle
<1>5. \A s \in Session : Placed(s)
  BY DEF Init, Placed, Auditing, Idle
<1>6. Len(packages) = 0
  BY DEF Init
<1>7. QED
  BY <1>1, <1>2, <1>3, <1>4, <1>5, <1>6, PackageAssumption DEF Init, PackageTypes

-----------------------------------------------------------------------------
(* The steps that write no table.                                          *)

Loads(s, t) == tx' = [tx EXCEPT ![s] = t] /\ UNCHANGED <<tables, raced>>

WriteBegins(s, t) ==
    /\ t \in WriteRequest /\ tx[s] = Idle /\ Loads(s, t)
    /\ Len(packages) + Cardinality(Writers) < MaxPackages
    /\ t.about \in Written \cup {0} /\ ~t.stale /\ t.audits = AuditsOf(t.about)
    /\ t.about # 0 => t.copy = packages[t.about]

AuditBegins(s, t) ==
    /\ t \in AuditRequest /\ tx[s] = Idle /\ Loads(s, t)
    /\ t.about \in Written /\ ~t.stale /\ t.copy = packages[t.about] /\ t.claims = claims[t.about]
    /\ t.audit.package = t.about /\ t.audit.at = CheckedAt(t.about, t.audit.kind)

Judges(s, t) ==
    /\ t \in JudgedAudit /\ tx[s].op = "audit" /\ tx[s] \in AuditRequest /\ Loads(s, t)
    /\ t.about = tx[s].about /\ t.stale = tx[s].stale /\ t.copy = tx[s].copy /\ t.claims = tx[s].claims
    /\ t.audit = tx[s].audit /\ t.run = runs[t.about]
    /\ t.gate = AggregateGate(AuditsOf(t.about) \cup {t.audit})

LEMMA WriteLoads ==
    ASSUME PackageTypes, NEW s \in Session, NEW script \in Script, NEW prior \in Package \cup {0},
           BeginWrite(s, script, prior)
    PROVE  \E t \in Asked : WriteBegins(s, t)
<1>1. PICK n \in Nat : Sized(n)
  BY HasSize DEF PackageTypes
<1>2. PICK t : t = [op |-> "write", about |-> prior, stale |-> FALSE, script |-> script,
                    duplicate |-> SameScript(script) # {},
                    copy |-> IF prior = 0 THEN Idle ELSE packages[prior],
                    audits |-> AuditsOf(prior)]
  OBVIOUS
<1>3. Begin(s, t) /\ UNCHANGED <<tables, raced>> /\ prior \in Written \cup {0}
  BY <1>2 DEF BeginWrite
<1>4. (IF prior = 0 THEN Idle ELSE packages[prior]) \in PackageRow \cup {Idle}
  BY <1>1, <1>3 DEF Sized
<1>5. AuditsOf(prior) \in SUBSET Audit
  BY DEF AuditsOf, PackageTypes, TypeOK
<1>6. t \in WriteRequest
  BY <1>2, <1>4, <1>5 DEF WriteRequest
<1>7. Cardinality(Written) = n
  <2>1. Cardinality(1..n) = n
    BY FS_Interval
  <2>2. QED
    BY <1>1, <2>1 DEF Sized
<1>8. Len(packages) + Cardinality(Writers) < MaxPackages
  BY <1>1, <1>7 DEF BeginWrite, Writers, Sized
<1>9. t.about = prior /\ ~t.stale /\ t.audits = AuditsOf(prior) /\ (prior # 0 => t.copy = packages[prior])
  BY <1>2
<1>10. WriteBegins(s, t)
  BY <1>3, <1>6, <1>8, <1>9 DEF WriteBegins, Begin, Loads
<1>11. QED
  BY <1>6, <1>10 DEF Asked

LEMMA AuditLoads ==
    ASSUME PackageTypes, NEW s \in Session, NEW p \in Written, NEW kind \in Auditor, NEW state \in AuditState,
           BeginAudit(s, p, kind, state)
    PROVE  \E t \in Asked : AuditBegins(s, t)
<1>1. PICK n \in Nat : Sized(n)
  BY HasSize DEF PackageTypes
<1>2. PICK m : m = CheckedAt(p, kind)
  OBVIOUS
<1>3. m \in Nat
  BY <1>2, CheckedLast
<1>4. PICK a : a = [package |-> p, kind |-> kind, state |-> state, at |-> m]
  OBVIOUS
<1>5. p \in Package
  BY <1>1, PackageAssumption DEF Sized, Package
<1>6. a \in Audit
  BY <1>3, <1>4, <1>5 DEF Audit
<1>7. PICK t : t = [op |-> "audit", about |-> p, stale |-> FALSE, copy |-> packages[p], claims |-> claims[p],
                    audit |-> a]
  OBVIOUS
<1>8. t \in AuditRequest
  BY <1>1, <1>5, <1>6, <1>7 DEF AuditRequest, Sized
<1>9. Begin(s, t) /\ UNCHANGED <<tables, raced>>
  BY <1>2, <1>4, <1>7 DEF BeginAudit
<1>10. t.about = p /\ ~t.stale /\ t.copy = packages[p] /\ t.claims = claims[p] /\ t.audit = a
  BY <1>7
<1>11. a.package = p /\ a.kind = kind /\ a.at = CheckedAt(p, kind)
  BY <1>2, <1>4
<1>12. AuditBegins(s, t)
  BY <1>8, <1>9, <1>10, <1>11 DEF AuditBegins, Begin, Loads
<1>13. QED
  BY <1>8, <1>12 DEF Asked

LEMMA JudgeLoads ==
    ASSUME PackageTypes, NEW s \in Session, Judge(s)
    PROVE  \E t \in Asked : Judges(s, t)
<1>1. PICK n \in Nat : Sized(n)
  BY HasSize DEF PackageTypes
<1>2. tx[s] \in AuditRequest /\ tx[s].op = "audit"
  BY RequestKinds DEF Judge, PackageTypes
<1>3. tx[s].about \in 1..n
  BY <1>1, <1>2 DEF PackageTypes, Placed, Auditing, Sized
<1>4. PICK g : g = AggregateGate(AuditsOf(tx[s].about) \cup {tx[s].audit})
  OBVIOUS
<1>5. g \in {"pass", "blocked", "not_ready"}
  BY <1>4 DEF AggregateGate
<1>6. PICK t : t = [op |-> "judged", about |-> tx[s].about, stale |-> tx[s].stale, copy |-> tx[s].copy,
                    claims |-> tx[s].claims, audit |-> tx[s].audit, gate |-> g, run |-> runs[tx[s].about]]
  OBVIOUS
<1>7. t \in JudgedAudit
  BY <1>1, <1>2, <1>3, <1>5, <1>6 DEF JudgedAudit, AuditRequest, Sized
<1>8. Loads(s, t)
  BY <1>4, <1>6 DEF Judge, Loads
<1>9. /\ t.about = tx[s].about /\ t.stale = tx[s].stale /\ t.copy = tx[s].copy /\ t.claims = tx[s].claims
      /\ t.audit = tx[s].audit /\ t.run = runs[tx[s].about] /\ t.gate = g
  BY <1>6
<1>10. Judges(s, t)
  BY <1>2, <1>4, <1>7, <1>8, <1>9 DEF Judges
<1>11. QED
  BY <1>7, <1>10 DEF Asked

LEMMA PackageSteps ==
    ASSUME PackageTypes, Next
    PROVE  \/ RequestPackage
           \/ \E p \in Written : RequestProduction(p)
           \/ \E s \in Session, t \in Asked : WriteBegins(s, t)
           \/ \E s \in Session, t \in Asked : AuditBegins(s, t)
           \/ \E s \in Session, t \in Asked : Judges(s, t)
           \/ \E s \in Session : EndWrite(s)
           \/ \E s \in Session : EndAudit(s)
           \/ \E s \in Session : RollBack(s)
  BY WriteLoads, AuditLoads, JudgeLoads DEF Next, ContentRequests, ProductionRequests

\* A step that loads changes the requests and nothing else.
LEMMA LoadsTyped ==
    ASSUME PackageTypes, NEW s \in Session, NEW t \in {Idle} \cup Asked, Loads(s, t), Placed(s)',
           t.op = "write" /\ tx[s].op # "write" => Len(packages) + Cardinality(Writers) < MaxPackages,
           t.op \in {"audit", "judged"} => t.audit.at \in Nat
    PROVE  PackageTypes'
<1>1. tx'[s] = t /\ \A r \in Session : r # s => Stands(r, 0)
  BY SetStands DEF Loads
<1>2. DOMAIN tx' = Session /\ tx' = [r \in Session |-> tx'[r]]
  BY DEF Loads, PackageTypes
<1>3. UNCHANGED <<packages, audits, jobs, raced>> /\ Written' = Written /\ TypeOK'
  BY DEF Loads, tables, PackageTypes, TypeOK, Written
<1>4. tx'[s] \in {Idle} \cup Asked /\ Written \subseteq Written' /\ audits \subseteq audits'
  BY <1>1, <1>3
<1>5. /\ tx' \in [Session -> {Idle} \cup Asked]
      /\ \A r \in Session : Placed(r)'
      /\ IsFiniteSet(Busy') /\ IsFiniteSet(Writers')
      /\ Writers' \subseteq Writers \cup {s} /\ Writers \ {s} \subseteq Writers'
  BY <1>1, <1>2, <1>4, RequestsStay
<1>6. Len(packages') + Cardinality(Writers') <= MaxPackages
  <2>1. PICK V : V = Writers'
    OBVIOUS
  <2>2. IsFiniteSet(Writers)
    BY DEF PackageTypes
  <2>3. /\ Cardinality(V) \in Nat /\ Cardinality(Writers) \in Nat
        /\ Cardinality(V) <= Cardinality(Writers) + 1
        /\ s \in Writers \/ s \notin V => Cardinality(V) <= Cardinality(Writers)
    BY <1>5, <2>1, <2>2, WritersCount
  <2>4. (s \in V <=> t.op = "write") /\ (s \in Writers <=> tx[s].op = "write")
    BY <1>1, <2>1 DEF Writers
  <2>5. Len(packages) \in Nat /\ Len(packages) + Cardinality(Writers) <= MaxPackages
    BY HasSize DEF PackageTypes, Sized
  <2>6. Len(packages) + Cardinality(V) <= MaxPackages
    BY <2>3, <2>4, <2>5, PackageAssumption
  <2>7. QED
    BY <1>3, <2>1, <2>6
<1>7. \E c \in Nat : NoneAfter(c)'
  <2>1. PICK b \in Nat : NoneAfter(b)
    BY DEF PackageTypes
  <2>2. PICK c \in Nat : b <= c /\ (t.op \in {"audit", "judged"} => t.audit.at <= c)
    <3>1. CASE t.op \in {"audit", "judged"}
      BY <2>1, <3>1
    <3>2. CASE t.op \notin {"audit", "judged"}
      BY <2>1, <3>2
    <3>3. QED
      BY <3>1, <3>2
  <2>3. \A a \in audits : a.at <= c
    <3>1. \A a \in audits : a.at \in Nat
      BY DEF PackageTypes, TypeOK, Audit
    <3>2. QED
      BY <2>1, <2>2, <3>1 DEF NoneAfter
  <2>4. \A r \in Session : Auditing(r) => tx[r].audit.at <= c
    <3>1. \A r \in Session : Auditing(r) => tx[r].audit.at \in Nat
      BY RequestKinds DEF PackageTypes, Auditing, Audit
    <3>2. QED
      BY <2>1, <2>2, <3>1 DEF NoneAfter
  <2>5. \A r \in Session : r # s /\ Auditing(r)' => Auditing(r) /\ tx'[r].audit = tx[r].audit
    BY <1>1 DEF Stands, Auditing
  <2>6. NoneAfter(c)'
    BY <1>1, <1>3, <2>2, <2>3, <2>4, <2>5 DEF NoneAfter, Auditing
  <2>7. QED
    BY <2>6
<1>8. QED
  BY <1>3, <1>5, <1>6, <1>7 DEF PackageTypes

\* A request that ends has its audit in the table, if it was one.
LEMMA EndsTyped ==
    ASSUME PackageTypes, NEW s \in Session, tx[s] # Idle, Commit(s), NEW n \in Nat, Sized(n)',
           TypeOK', Written \subseteq Written', audits \subseteq audits', UNCHANGED jobs,
           IsFiniteSet(audits'), \A a \in audits' : a \in audits \/ (Auditing(s) /\ a = tx[s].audit),
           Len(packages') = IF tx[s].op = "write" THEN Len(packages) + 1 ELSE Len(packages)
    PROVE  PackageTypes'
<1>1. tx'[s] = Idle /\ \A r \in Session : r # s => Stands(r, tx[s].about)
  BY CommitStands
<1>2. DOMAIN tx' = Session /\ tx' = [r \in Session |-> tx'[r]]
  BY DEF Commit
<1>3. Placed(s)'
  BY <1>1 DEF Placed, Auditing, Idle
<1>4. /\ tx' \in [Session -> {Idle} \cup Asked]
      /\ \A r \in Session : Placed(r)'
      /\ IsFiniteSet(Busy') /\ IsFiniteSet(Writers')
      /\ Writers' \subseteq Writers \cup {s} /\ Writers \ {s} \subseteq Writers'
  BY <1>1, <1>2, <1>3, RequestsStay
<1>5. Len(packages') + Cardinality(Writers') <= MaxPackages
  <2>1. PICK V : V = Writers'
    OBVIOUS
  <2>2. s \notin V
    BY <1>1, <2>1 DEF Writers, Idle
  <2>3. IsFiniteSet(Writers)
    BY DEF PackageTypes
  <2>4. /\ Cardinality(V) \in Nat /\ Cardinality(Writers) \in Nat
        /\ s \in Writers \/ s \notin V => Cardinality(V) <= Cardinality(Writers)
        /\ s \in Writers /\ s \notin V => Cardinality(V) = Cardinality(Writers) - 1
    BY <1>4, <2>1, <2>3, WritersCount
  <2>5. s \in Writers <=> tx[s].op = "write"
    BY DEF Writers
  <2>6. Len(packages) \in Nat /\ Len(packages) + Cardinality(Writers) <= MaxPackages
    BY HasSize DEF PackageTypes, Sized
  <2>7. Len(packages') + Cardinality(V) <= MaxPackages
    BY <2>2, <2>4, <2>5, <2>6, PackageAssumption
  <2>8. QED
    BY <2>1, <2>7
<1>6. \A a \in audits' : a.package \in Written'
  BY DEF PackageTypes, Placed
<1>7. jobs' \subseteq Written'
  BY DEF PackageTypes
<1>8. PICK b \in Nat : NoneAfter(b)
  BY DEF PackageTypes
<1>9. \A r \in Session : Auditing(r)' => Auditing(r) /\ tx'[r].audit = tx[r].audit
  BY <1>1 DEF Stands, Auditing, Idle
<1>10. NoneAfter(b)'
  BY <1>8, <1>9 DEF NoneAfter
<1>11. QED
  BY <1>4, <1>5, <1>6, <1>7, <1>10 DEF PackageTypes

LEMMA PackageTypesStep ==
    ASSUME PackageTypes, [Next]_vars
    PROVE  PackageTypes'
<1>1. CASE UNCHANGED vars
  BY <1>1 DEF vars, tables, PackageTypes, TypeOK, Placed, Auditing, AuditsOf, Written, Busy, Writers, NoneAfter
<1>2. PICK n \in Nat : Sized(n)
  BY HasSize DEF PackageTypes
<1>3. /\ audits \subseteq Audit /\ invalidations \subseteq audits /\ live_runs \in 0..MaxRequests
      /\ jobs \subseteq ProductionJob /\ IsFiniteSet(audits)
  BY DEF PackageTypes, TypeOK
<1>4. ASSUME UNCHANGED <<packages, claims, runs, audits, invalidations, originality, tx, raced>>,
             live_runs' \in 0..MaxRequests, jobs' \subseteq Written
      PROVE  PackageTypes'
  <2>1. Written \subseteq Package
    BY <1>2, PackageAssumption DEF Sized, Package
  <2>2. TypeOK'
    BY <1>4, <2>1 DEF PackageTypes, TypeOK, ProductionJob
  <2>3. QED
    BY <1>4, <2>2 DEF PackageTypes, Placed, Auditing, AuditsOf, Written, Busy, Writers, NoneAfter
<1>5. CASE RequestPackage
  <2>1. Cardinality(Written) \in Nat /\ Cardinality(audits) \in Nat /\ Cardinality(Busy) \in Nat
    <3>1. Cardinality(1..n) = n
      BY FS_Interval
    <3>2. QED
      BY <1>2, <3>1, FS_CardinalityType DEF Sized, PackageTypes
  <2>2. live_runs < MaxRequests
    BY <1>3, <1>5, <2>1, PackageAssumption DEF RequestPackage, Requests, Busy
  <2>3. live_runs' \in 0..MaxRequests
    BY <1>3, <1>5, <2>2, PackageAssumption DEF RequestPackage
  <2>4. QED
    BY <1>4, <1>5, <2>3 DEF RequestPackage, PackageTypes
<1>6. ASSUME NEW p \in Written, RequestProduction(p)
      PROVE  PackageTypes'
  BY <1>3, <1>4, <1>6 DEF RequestProduction, PackageTypes
<1>7. ASSUME NEW s \in Session, NEW t \in Asked, WriteBegins(s, t)
      PROVE  PackageTypes'
  <2>1. tx'[s] = t /\ t.op = "write" /\ Loads(s, t)
    BY <1>7, SetStands DEF WriteBegins, Loads, WriteRequest
  <2>2. Placed(s)'
    BY <1>2, <1>7, <2>1 DEF WriteBegins, Placed, Auditing, Loads, tables, Written, AuditsOf, Sized
  <2>3. Len(packages) + Cardinality(Writers) < MaxPackages
    BY <1>7 DEF WriteBegins
  <2>4. QED
    BY <2>1, <2>2, <2>3, LoadsTyped
<1>8. ASSUME NEW s \in Session, NEW t \in Asked, AuditBegins(s, t)
      PROVE  PackageTypes'
  <2>1. tx'[s] = t /\ t.op = "audit" /\ Loads(s, t)
    BY <1>8, SetStands DEF AuditBegins, Loads, AuditRequest
  <2>2. Placed(s)'
    BY <1>8, <2>1 DEF AuditBegins, Placed, Auditing, Loads, tables, Written
  <2>3. t.audit.at \in Nat
    BY <1>8 DEF AuditBegins, AuditRequest, Audit
  <2>4. QED
    BY <2>1, <2>2, <2>3, LoadsTyped
<1>9. ASSUME NEW s \in Session, NEW t \in Asked, Judges(s, t)
      PROVE  PackageTypes'
  <2>1. tx'[s] = t /\ t.op = "judged" /\ Loads(s, t)
    BY <1>9, SetStands DEF Judges, Loads, JudgedAudit
  <2>2. Placed(s)
    BY DEF PackageTypes
  <2>3. Placed(s)'
    BY <1>9, <2>1, <2>2 DEF Judges, Placed, Auditing, Loads, tables, Written
  <2>4. t.audit.at \in Nat
    BY <1>9 DEF Judges, JudgedAudit, Audit
  <2>5. QED
    BY <2>1, <2>3, <2>4, LoadsTyped
<1>10. ASSUME NEW s \in Session, RollBack(s)
       PROVE  PackageTypes'
  <2>1. Loads(s, Idle)
    BY <1>10 DEF RollBack, Loads
  <2>2. tx'[s] = Idle
    BY <2>1, SetStands DEF Loads
  <2>3. Placed(s)'
    BY <2>2 DEF Placed, Auditing, Idle
  <2>4. Idle.op = "idle"
    BY DEF Idle
  <2>5. QED
    BY <2>1, <2>3, <2>4, LoadsTyped
<1>11. ASSUME NEW s \in Session, EndWrite(s)
       PROVE  PackageTypes'
  <2>1. PICK m \in Nat : Wrote(s, m)
    BY <1>11, Writing
  <2>2. tx[s].op = "write" /\ Commit(s) /\ tx[s] # Idle /\ UNCHANGED <<audits, live_runs, jobs>>
        /\ invalidations' = invalidations \cup tx[s].audits
    BY <1>11, RequestKinds DEF EndWrite, PackageTypes, Idle
  <2>3. tx[s].audits \subseteq audits
    BY <2>2 DEF PackageTypes, Placed, AuditsOf
  <2>4. TypeOK'
    BY <1>3, <2>1, <2>2, <2>3, TypeOKFrom DEF Wrote
  <2>5. Len(packages) = m /\ Len(packages') = m + 1 /\ Written = 1..m /\ Written' = 1..m + 1 /\ Sized(m + 1)' /\ m + 1 \in Nat
    BY <2>1 DEF Wrote, Sized
  <2>6. Written \subseteq Written'
    BY <2>5
  <2>7. QED
    BY <1>3, <2>2, <2>4, <2>5, <2>6, EndsTyped
<1>12. ASSUME NEW s \in Session, EndAudit(s)
       PROVE  PackageTypes'
  <2>1. PICK m \in Nat : Audited(s, m)
    BY <1>12, Auditings
  <2>2. tx[s].op = "judged" /\ Commit(s) /\ tx[s] # Idle /\ UNCHANGED <<invalidations, live_runs, jobs>>
        /\ audits' = audits \cup {tx[s].audit}
    BY <1>12 DEF EndAudit, Idle
  <2>3. tx[s].audit \in Audit /\ Auditing(s)
    BY <2>2, RequestKinds DEF PackageTypes, Auditing
  <2>4. TypeOK'
    BY <1>3, <2>1, <2>2, <2>3, TypeOKFrom DEF Audited
  <2>5. Len(packages) = m /\ Len(packages') = m /\ Written = 1..m /\ Written' = 1..m /\ Sized(m)'
    BY <2>1 DEF Audited, Sized
  <2>6. IsFiniteSet(audits')
    BY <1>3, <2>2, FS_AddElement
  <2>7. Written \subseteq Written' /\ audits \subseteq audits' /\ \A a \in audits' : a \in audits \/ a = tx[s].audit
    BY <2>2, <2>5
  <2>8. QED
    BY <2>2, <2>3, <2>4, <2>5, <2>6, <2>7, EndsTyped
<1>13. QED
  BY <1>1, <1>5, <1>6, <1>7, <1>8, <1>9, <1>10, <1>11, <1>12, PackageSteps

-----------------------------------------------------------------------------
(* Audits are distinct, and a request that is not stale has the newest.    *)

Fresh(s) ==
    Auditing(s) =>
        /\ tx[s].audit \notin audits
        /\ \A r \in Session : r # s /\ Auditing(r) => tx[r].audit # tx[s].audit

Newest(s) ==
    Auditing(s) /\ ~tx[s].stale =>
        \A a \in AuditsOf(tx[s].about) : a.kind = tx[s].audit.kind => a.at < tx[s].audit.at

AuditOrder == \A s \in Session : Fresh(s) /\ Newest(s)

LEMMA OrderStays ==
    ASSUME PackageTypes, AuditOrder, NEW s \in Session, NEW p, UNCHANGED audits,
           \A r \in Session : r # s => Stands(r, p),
           Auditing(s)' => Auditing(s) /\ tx'[s].audit = tx[s].audit /\ tx'[s].about = tx[s].about
                           /\ tx'[s].stale = tx[s].stale
    PROVE  AuditOrder'
<1>1. \A r \in Session : Auditing(r)' => /\ Auditing(r) /\ tx'[r].audit = tx[r].audit /\ tx'[r].about = tx[r].about
                                         /\ tx[r].stale => tx'[r].stale
  BY DEF Stands, Auditing, Idle
<1>2. QED
  BY <1>1 DEF AuditOrder, Fresh, Newest, AuditsOf

LEMMA OrderBegins ==
    ASSUME PackageTypes, AuditOrder, NEW s \in Session, NEW t \in Asked, AuditBegins(s, t)
    PROVE  AuditOrder'
<1>1. PICK a : a = t.audit
  OBVIOUS
<1>2. tx'[s] = t /\ (\A r \in Session : r # s => Stands(r, 0)) /\ UNCHANGED audits
  BY SetStands DEF AuditBegins, Loads, tables
<1>3. a.package = t.about /\ a.at = CheckedAt(a.package, a.kind)
  BY <1>1 DEF AuditBegins
<1>4. /\ a.at \in Nat
      /\ \A b \in AuditsOf(a.package) : b.kind = a.kind => b.at < a.at
      /\ \A r \in Session : Auditing(r) /\ tx[r].audit.package = a.package /\ tx[r].audit.kind = a.kind =>
            tx[r].audit.at < a.at
  BY <1>3, CheckedLast
<1>5. \A b \in audits : b # a
  BY <1>4 DEF AuditsOf
<1>6. \A r \in Session : Auditing(r) => tx[r].audit # a
  BY <1>4
<1>7. \A r \in Session : r # s /\ Auditing(r)' => /\ Auditing(r) /\ tx'[r].audit = tx[r].audit /\ tx'[r].about = tx[r].about
                                                  /\ tx[r].stale => tx'[r].stale
  BY <1>2 DEF Stands, Auditing, Idle
<1>8. Fresh(s)' /\ Newest(s)'
  BY <1>1, <1>2, <1>3, <1>4, <1>5, <1>6, <1>7 DEF Fresh, Newest, AuditsOf
<1>9. \A r \in Session : r # s => Fresh(r)' /\ Newest(r)'
  BY <1>1, <1>2, <1>6, <1>7 DEF AuditOrder, Fresh, Newest, AuditsOf
<1>10. QED
  BY <1>8, <1>9 DEF AuditOrder

LEMMA OrderEnds ==
    ASSUME PackageTypes, AuditOrder, NEW s \in Session, EndAudit(s)
    PROVE  AuditOrder'
<1>1. Auditing(s) /\ tx[s] # Idle /\ Commit(s) /\ audits' = audits \cup {tx[s].audit}
  BY DEF EndAudit, Auditing, Idle
<1>2. tx'[s] = Idle /\ \A r \in Session : r # s => Stands(r, tx[s].about)
  BY <1>1, CommitStands
<1>3. tx[s].audit.package = tx[s].about /\ tx[s].about # 0
  BY <1>1, HasSize DEF PackageTypes, Placed, Sized
<1>4. \A r \in Session : Auditing(r)' => /\ r # s /\ Auditing(r) /\ tx'[r].audit = tx[r].audit /\ tx'[r].about = tx[r].about
                                         /\ tx'[r].stale <=> (tx[r].stale \/ tx[r].about = tx[s].about)
  BY <1>2, <1>3 DEF Stands, Auditing, Idle
<1>5. \A r \in Session : Fresh(r)'
  BY <1>1, <1>4 DEF AuditOrder, Fresh
<1>6. \A r \in Session : Newest(r)'
  <2>1. \A q : q # tx[s].about => AuditsOf(q)' = AuditsOf(q)
    BY <1>1, <1>3 DEF AuditsOf
  <2>2. QED
    BY <1>4, <2>1 DEF AuditOrder, Newest
<1>7. QED
  BY <1>5, <1>6 DEF AuditOrder

LEMMA OrderStep ==
    ASSUME PackageTypes, AuditOrder, [Next]_vars
    PROVE  AuditOrder'
<1>1. ASSUME UNCHANGED <<audits, tx>>
      PROVE  AuditOrder'
  BY <1>1 DEF AuditOrder, Fresh, Newest, Auditing, AuditsOf
<1>2. CASE UNCHANGED vars
  BY <1>1, <1>2 DEF vars, tables
<1>3. CASE RequestPackage
  BY <1>1, <1>3 DEF RequestPackage
<1>4. ASSUME NEW p \in Written, RequestProduction(p)
      PROVE  AuditOrder'
  BY <1>1, <1>4 DEF RequestProduction
<1>5. ASSUME NEW s \in Session, NEW t \in Asked, WriteBegins(s, t)
      PROVE  AuditOrder'
  <2>1. tx'[s] = t /\ t.op = "write" /\ (\A r \in Session : r # s => Stands(r, 0)) /\ UNCHANGED audits
    BY <1>5, SetStands DEF WriteBegins, Loads, tables, WriteRequest
  <2>2. ~Auditing(s)'
    BY <2>1 DEF Auditing
  <2>3. QED
    BY <2>1, <2>2, OrderStays
<1>6. ASSUME NEW s \in Session, NEW t \in Asked, Judges(s, t)
      PROVE  AuditOrder'
  <2>1. tx'[s] = t /\ (\A r \in Session : r # s => Stands(r, 0)) /\ UNCHANGED audits
    BY <1>6, SetStands DEF Judges, Loads, tables
  <2>2. Auditing(s) /\ tx'[s].audit = tx[s].audit /\ tx'[s].about = tx[s].about /\ tx'[s].stale = tx[s].stale
    BY <1>6, <2>1 DEF Auditing, Judges
  <2>3. QED
    BY <2>1, <2>2, OrderStays
<1>7. ASSUME NEW s \in Session, RollBack(s)
      PROVE  AuditOrder'
  <2>1. tx'[s] = Idle /\ (\A r \in Session : r # s => Stands(r, 0)) /\ UNCHANGED audits
    BY <1>7, SetStands DEF RollBack, tables
  <2>2. ~Auditing(s)'
    BY <2>1 DEF Auditing, Idle
  <2>3. QED
    BY <2>1, <2>2, OrderStays
<1>8. ASSUME NEW s \in Session, EndWrite(s)
      PROVE  AuditOrder'
  <2>1. tx[s] # Idle /\ Commit(s) /\ UNCHANGED audits
    BY <1>8 DEF EndWrite, Idle
  <2>2. tx'[s] = Idle /\ \A r \in Session : r # s => Stands(r, tx[s].about)
    BY <2>1, CommitStands
  <2>3. ~Auditing(s)'
    BY <2>2 DEF Auditing, Idle
  <2>4. QED
    BY <2>1, <2>2, <2>3, OrderStays
<1>9. QED
  BY <1>2, <1>3, <1>4, <1>5, <1>6, <1>7, <1>8, OrderBegins, OrderEnds, PackageSteps

-----------------------------------------------------------------------------
(* A pass is unanimous, and the counters count audits.                     *)

LEMMA LatestIn ==
    ASSUME NEW visible \in SUBSET Audit, NEW b \in Nat, \A a \in visible : a.at <= b, NEW kind,
           NEW g, g = LatestState(visible, kind), \E a \in visible : a.kind = kind
    PROVE  \E a \in visible : a.kind = kind /\ a.state = g /\ \A c \in visible : c.kind = kind => c.at <= a.at
<1>1. PICK mine : mine = {a \in visible : a.kind = kind}
  OBVIOUS
<1>2. PICK S : S = {a.at : a \in mine}
  OBVIOUS
<1>3. S \in SUBSET Nat /\ S # {} /\ \A x \in S : x <= b
  BY <1>1, <1>2 DEF Audit
<1>4. Max(S) \in S /\ \A y \in S : y <= Max(S)
  BY <1>3, MaxBound
<1>5. PICK m \in mine : m.at = Max(S)
  BY <1>2, <1>4
<1>6. \A c \in mine : c.at <= m.at
  BY <1>2, <1>4, <1>5
<1>7. PICK a : a = CHOOSE x \in mine : \A c \in mine : c.at <= x.at
  OBVIOUS
<1>8. a \in mine /\ \A c \in mine : c.at <= a.at
  BY <1>5, <1>6, <1>7
<1>9. g = a.state
  BY <1>1, <1>7, <1>8 DEF LatestState
<1>10. QED
  BY <1>1, <1>8, <1>9

LEMMA NotRun ==
    ASSUME NEW visible, NEW kind, ~\E a \in visible : a.kind = kind
    PROVE  LatestState(visible, kind) = "not_run"
  BY DEF LatestState

\* Every auditor has passed the package at least once.
Unanimous(visible) == \A kind \in Auditor : \E a \in visible : a.kind = kind /\ a.state = "pass"

LEMMA GatePasses ==
    ASSUME NEW visible \in SUBSET Audit, NEW b \in Nat, \A a \in visible : a.at <= b,
           AggregateGate(visible) = "pass"
    PROVE  Unanimous(visible)
<1>1. ASSUME NEW kind \in Auditor
      PROVE  \E a \in visible : a.kind = kind /\ a.state = "pass"
  <2>1. LatestState(visible, kind) = "pass"
    BY DEF AggregateGate
  <2>2. \E a \in visible : a.kind = kind
    BY <2>1, NotRun
  <2>3. QED
    BY <2>1, <2>2, LatestIn
<1>2. QED
  BY <1>1 DEF Unanimous

PassesKept ==
    /\ \A p \in Written : packages[p].gate = "pass" \/ p \in jobs => Unanimous(AuditsOf(p))
    /\ \A s \in Session :
          tx[s].op = "judged" /\ tx[s].gate = "pass" => Unanimous(AuditsOf(tx[s].about) \cup {tx[s].audit})

LEMMA UnanimousStays ==
    ASSUME NEW visible, NEW more, visible \subseteq more, Unanimous(visible)
    PROVE  Unanimous(more)
  BY DEF Unanimous

LEMMA PassesStay ==
    ASSUME PackageTypes, PassesKept, NEW s \in Session, NEW p, UNCHANGED <<packages, audits, jobs>>,
           \A r \in Session : r # s => Stands(r, p),
           tx'[s].op = "judged" /\ tx'[s].gate = "pass" => Unanimous(AuditsOf(tx'[s].about) \cup {tx'[s].audit})
    PROVE  PassesKept'
<1>1. \A r \in Session : r # s /\ tx'[r].op = "judged" =>
        /\ tx[r].op = "judged" /\ tx'[r].audit = tx[r].audit /\ tx'[r].about = tx[r].about
        /\ tx'[r].gate = tx[r].gate
  BY DEF Stands, Idle
<1>2. \A q : AuditsOf(q)' = AuditsOf(q)
  BY DEF AuditsOf
<1>3. QED
  BY <1>1, <1>2 DEF PassesKept, Written

LEMMA PassesStep ==
    ASSUME PackageTypes, PassesKept, [Next]_vars
    PROVE  PassesKept'
<1>1. ASSUME UNCHANGED <<packages, audits, tx, jobs>>
      PROVE  PassesKept'
  BY <1>1 DEF PassesKept, Written, AuditsOf
<1>2. CASE UNCHANGED vars
  BY <1>1, <1>2 DEF vars, tables
<1>3. CASE RequestPackage
  BY <1>1, <1>3 DEF RequestPackage
<1>4. ASSUME NEW p \in Written, RequestProduction(p)
      PROVE  PassesKept'
  <2>1. packages[p].gate = "pass" /\ jobs' = jobs \cup {p} /\ UNCHANGED <<packages, audits, tx>>
    BY <1>4 DEF RequestProduction, ProducerEligible
  <2>2. QED
    BY <2>1 DEF PassesKept, Written, AuditsOf
<1>5. ASSUME NEW s \in Session, NEW t \in Asked, WriteBegins(s, t)
      PROVE  PassesKept'
  <2>1. tx'[s] = t /\ t.op = "write" /\ (\A r \in Session : r # s => Stands(r, 0)) /\ UNCHANGED <<packages, audits, jobs>>
    BY <1>5, SetStands DEF WriteBegins, Loads, tables, WriteRequest
  <2>2. tx'[s].op # "judged"
    BY <2>1
  <2>3. QED
    BY <2>1, <2>2, PassesStay
<1>6. ASSUME NEW s \in Session, NEW t \in Asked, AuditBegins(s, t)
      PROVE  PassesKept'
  <2>1. tx'[s] = t /\ t.op = "audit" /\ (\A r \in Session : r # s => Stands(r, 0)) /\ UNCHANGED <<packages, audits, jobs>>
    BY <1>6, SetStands DEF AuditBegins, Loads, tables, AuditRequest
  <2>2. tx'[s].op # "judged"
    BY <2>1
  <2>3. QED
    BY <2>1, <2>2, PassesStay
<1>7. ASSUME NEW s \in Session, NEW t \in Asked, Judges(s, t)
      PROVE  PassesKept'
  <2>1. tx'[s] = t /\ (\A r \in Session : r # s => Stands(r, 0)) /\ UNCHANGED <<packages, audits, jobs>>
    BY <1>7, SetStands DEF Judges, Loads, tables
  <2>2. PICK visible : visible = AuditsOf(t.about) \cup {t.audit}
    OBVIOUS
  <2>3. PICK b \in Nat : NoneAfter(b)
    BY DEF PackageTypes
  <2>4. t.audit \in Audit /\ t.audit.at <= b
    BY <1>7, <2>3 DEF Judges, JudgedAudit, NoneAfter, Auditing
  <2>5. visible \in SUBSET Audit /\ \A a \in visible : a.at <= b
    BY <2>2, <2>3, <2>4 DEF AuditsOf, PackageTypes, TypeOK, NoneAfter
  <2>6. t.gate = "pass" => Unanimous(visible)
    BY <1>7, <2>2, <2>5, GatePasses DEF Judges
  <2>7. QED
    BY <2>1, <2>2, <2>6, PassesStay
<1>8. ASSUME NEW s \in Session, RollBack(s)
      PROVE  PassesKept'
  <2>1. tx'[s] = Idle /\ (\A r \in Session : r # s => Stands(r, 0)) /\ UNCHANGED <<packages, audits, jobs>>
    BY <1>8, SetStands DEF RollBack, tables
  <2>2. tx'[s].op # "judged"
    BY <2>1 DEF Idle
  <2>3. QED
    BY <2>1, <2>2, PassesStay
<1>9. ASSUME NEW s \in Session, EndWrite(s)
      PROVE  PassesKept'
  <2>1. tx[s] # Idle /\ Commit(s) /\ UNCHANGED <<audits, jobs>> /\ tx[s] \in WriteRequest
    BY <1>9, RequestKinds DEF EndWrite, Idle, PackageTypes
  <2>2. tx'[s] = Idle /\ \A r \in Session : r # s => Stands(r, tx[s].about)
    BY <2>1, CommitStands
  <2>3. \A r \in Session : tx'[r].op = "judged" =>
        /\ tx[r].op = "judged" /\ tx'[r].audit = tx[r].audit /\ tx'[r].about = tx[r].about
        /\ tx'[r].gate = tx[r].gate
    BY <2>2 DEF Stands, Idle
  <2>4. \A q : AuditsOf(q)' = AuditsOf(q)
    BY <2>1 DEF AuditsOf
  <2>5. PICK n \in Nat : Wrote(s, n)
    BY <1>9, Writing
  <2>6. Written = 1..n /\ Written' = 1..n + 1
    BY <2>5 DEF Wrote, Sized
  <2>7. packages'[n + 1].gate # "pass"
    BY <2>1, <2>5, NewTyped DEF Wrote
  <2>8. n + 1 \notin jobs
    BY <2>6 DEF PackageTypes
  <2>9. ASSUME NEW q \in 1..n, packages'[q].gate = "pass"
        PROVE  packages[q].gate = "pass"
    <3>1. CASE q # tx[s].about
      BY <2>5, <2>9, <3>1 DEF Wrote
    <3>2. CASE q = tx[s].about
      <4>1. tx[s].copy \in PackageRow /\ packages[q] \in PackageRow
        <5>1. tx[s].op = "write" /\ tx[s].about # 0 /\ Placed(s)
          BY <2>1, <3>2 DEF PackageTypes, WriteRequest
        <5>2. QED
          BY <2>5, <5>1 DEF Placed, Wrote, Sized
      <4>2. PICK new : new = Superseded(tx[s].copy)
        OBVIOUS
      <4>3. new \in PackageRow /\ new.gate = "invalidated"
        BY <4>1, <4>2, SupersededTyped
      <4>4. packages'[q] = Update(packages[q], tx[s].copy, new)
        BY <2>5, <3>2, <4>2 DEF Wrote
      <4>5. packages'[q].gate = IF new.gate = tx[s].copy.gate THEN packages[q].gate ELSE new.gate
        BY <4>1, <4>3, <4>4, UpdateTyped DEF RowFields
      <4>6. QED
        BY <2>9, <4>3, <4>5
    <3>3. QED
      BY <3>1, <3>2
  <2>10. \A q \in 1..n + 1 : q \in 1..n \/ q = n + 1
    OBVIOUS
  <2>11. \A q \in Written' : packages'[q].gate = "pass" \/ q \in jobs => q \in Written /\ (packages[q].gate = "pass" \/ q \in jobs)
    BY <2>6, <2>7, <2>8, <2>9, <2>10
  <2>12. QED
    BY <2>1, <2>3, <2>4, <2>11 DEF PassesKept
<1>10. ASSUME NEW s \in Session, EndAudit(s)
       PROVE  PassesKept'
  <2>1. tx[s] # Idle /\ Commit(s) /\ UNCHANGED jobs /\ audits' = audits \cup {tx[s].audit} /\ tx[s].op = "judged"
    BY <1>10 DEF EndAudit, Idle
  <2>2. tx[s] \in JudgedAudit /\ tx[s].audit.package = tx[s].about
    BY <2>1, RequestKinds DEF PackageTypes, Placed, Auditing
  <2>3. tx'[s] = Idle /\ \A r \in Session : r # s => Stands(r, tx[s].about)
    BY <2>1, CommitStands
  <2>4. \A r \in Session : tx'[r].op = "judged" =>
        /\ tx[r].op = "judged" /\ tx'[r].audit = tx[r].audit /\ tx'[r].about = tx[r].about
        /\ tx'[r].gate = tx[r].gate
    BY <2>3 DEF Stands, Idle
  <2>5. \A q : AuditsOf(q) \subseteq AuditsOf(q)'
    BY <2>1 DEF AuditsOf
  <2>6. PICK p : p = tx[s].about
    OBVIOUS
  <2>7. AuditsOf(p)' = AuditsOf(p) \cup {tx[s].audit}
    BY <2>1, <2>2, <2>6 DEF AuditsOf
  <2>8. PICK n \in Nat : Audited(s, n)
    BY <1>10, Auditings
  <2>9. Written = 1..n /\ Written' = 1..n /\ p \in 1..n
    BY <2>6, <2>8 DEF Audited, Sized
  <2>10. packages'[p].gate = "pass" => packages[p].gate = "pass" \/ tx[s].gate = "pass"
    <3>1. tx[s].copy \in PackageRow /\ packages[p] \in PackageRow /\ tx[s].gate \in {"pass", "blocked", "not_ready"}
      BY <2>2, <2>8, <2>9 DEF Audited, Sized, JudgedAudit
    <3>2. PICK new : new = Recalculated(tx[s].copy, tx[s].gate)
      OBVIOUS
    <3>3. new \in PackageRow /\ new.gate = tx[s].gate
      BY <3>1, <3>2, RecalculatedTyped
    <3>4. packages'[p] = Update(packages[p], tx[s].copy, new)
      BY <2>6, <2>8, <3>2 DEF Audited
    <3>5. packages'[p].gate = IF new.gate = tx[s].copy.gate THEN packages[p].gate ELSE new.gate
      BY <3>1, <3>3, <3>4, UpdateTyped DEF RowFields
    <3>6. QED
      BY <3>3, <3>5
  <2>11. tx[s].gate = "pass" => Unanimous(AuditsOf(p) \cup {tx[s].audit})
    BY <2>1, <2>6 DEF PassesKept
  <2>12. ASSUME NEW q \in Written', packages'[q].gate = "pass" \/ q \in jobs
         PROVE  Unanimous(AuditsOf(q)')
    <3>1. CASE packages[q].gate = "pass" \/ q \in jobs
      BY <2>5, <2>9, <3>1, UnanimousStays DEF PassesKept
    <3>2. CASE ~(packages[q].gate = "pass" \/ q \in jobs)
      <4>1. q = p
        BY <2>6, <2>8, <2>9, <2>12, <3>2 DEF Audited
      <4>2. QED
        BY <2>7, <2>10, <2>11, <2>12, <3>2, <4>1
    <3>3. QED
      BY <3>1, <3>2
  <2>13. ASSUME NEW r \in Session, tx'[r].op = "judged", tx'[r].gate = "pass"
         PROVE  Unanimous(AuditsOf(tx[r].about) \cup {tx[r].audit})'
    <3>1. Unanimous(AuditsOf(tx[r].about) \cup {tx[r].audit})
      BY <2>4, <2>13 DEF PassesKept
    <3>2. PICK q, a : q = tx[r].about /\ a = tx[r].audit
      OBVIOUS
    <3>3. tx'[r].about = q /\ tx'[r].audit = a
      BY <2>4, <2>13, <3>2
    <3>4. AuditsOf(q) \cup {a} \subseteq AuditsOf(q)' \cup {a}
      BY <2>5
    <3>5. Unanimous(AuditsOf(q)' \cup {a})
      BY <3>1, <3>2, <3>4, UnanimousStays
    <3>6. QED
      BY <3>3, <3>5 DEF AuditsOf, Unanimous
  <2>14. QED
    BY <2>1, <2>12, <2>13 DEF PassesKept, Unanimous, AuditsOf, Written
<1>11. QED
  BY <1>2, <1>3, <1>4, <1>5, <1>6, <1>7, <1>8, <1>9, <1>10, PackageSteps

\* Of the audits of p at least m have passed it and another n have blocked it, when those
\* were judged that the counters have counted or will.
Tallied(p, m, n) ==
    /\ m + n <= Cardinality(AuditsOf(p))
    /\ runs[p].ready <= m /\ runs[p].blocked <= n
    /\ \A s \in Session : tx[s].op = "judged" /\ tx[s].about = p => tx[s].run.ready <= m /\ tx[s].run.blocked <= n

Tallies == \A p \in Written : \E m, n \in Nat : Tallied(p, m, n)

LEMMA TallyStays ==
    ASSUME PackageTypes, NEW p, NEW m \in Nat, NEW n \in Nat, Tallied(p, m, n),
           AuditsOf(p)' = AuditsOf(p), runs'[p] = runs[p],
           \A r \in Session : tx'[r].op = "judged" /\ tx'[r].about = p =>
                \/ tx[r].op = "judged" /\ tx[r].about = p /\ tx'[r].run = tx[r].run
                \/ tx'[r].run = runs[p]
    PROVE  \E k, l \in Nat : Tallied(p, k, l)'
<1>1. Tallied(p, m, n)'
  BY DEF Tallied
<1>2. QED
  BY <1>1

LEMMA TalliesStay ==
    ASSUME PackageTypes, Tallies, UNCHANGED <<packages, runs, audits>>, NEW s \in Session, NEW q,
           \A r \in Session : r # s => Stands(r, q),
           tx'[s].op = "judged" => tx'[s].run = runs[tx'[s].about]
    PROVE  Tallies'
<1>1. \A r \in Session : r # s /\ tx'[r].op = "judged" =>
        tx[r].op = "judged" /\ tx'[r].about = tx[r].about /\ tx'[r].run = tx[r].run
  BY DEF Stands, Idle
<1>2. Written' = Written
  BY DEF Written
<1>3. ASSUME NEW p \in Written
      PROVE  \E k, l \in Nat : Tallied(p, k, l)'
  <2>1. PICK m, n \in Nat : Tallied(p, m, n)
    BY DEF Tallies
  <2>2. AuditsOf(p)' = AuditsOf(p) /\ runs'[p] = runs[p]
    BY DEF AuditsOf
  <2>3. \A r \in Session : tx'[r].op = "judged" /\ tx'[r].about = p =>
            \/ tx[r].op = "judged" /\ tx[r].about = p /\ tx'[r].run = tx[r].run
            \/ tx'[r].run = runs[p]
    BY <1>1
  <2>4. QED
    BY <2>1, <2>2, <2>3, TallyStays
<1>4. QED
  BY <1>2, <1>3 DEF Tallies

LEMMA TalliesStep ==
    ASSUME PackageTypes, AuditOrder, Tallies, [Next]_vars
    PROVE  Tallies'
<1>1. ASSUME UNCHANGED <<packages, runs, audits, tx>>
      PROVE  Tallies'
  <2>1. ASSUME NEW p \in Written
        PROVE  \E k, l \in Nat : Tallied(p, k, l)'
    <3>1. PICK m, n \in Nat : Tallied(p, m, n)
      BY DEF Tallies
    <3>2. AuditsOf(p)' = AuditsOf(p) /\ runs'[p] = runs[p] /\ tx' = tx
      BY <1>1 DEF AuditsOf
    <3>3. QED
      BY <3>1, <3>2, TallyStays
  <2>2. QED
    BY <1>1, <2>1 DEF Tallies, Written
<1>2. CASE UNCHANGED vars
  BY <1>1, <1>2 DEF vars, tables
<1>3. CASE RequestPackage
  BY <1>1, <1>3 DEF RequestPackage
<1>4. ASSUME NEW p \in Written, RequestProduction(p)
      PROVE  Tallies'
  BY <1>1, <1>4 DEF RequestProduction
<1>5. ASSUME NEW s \in Session, NEW t \in Asked, WriteBegins(s, t)
      PROVE  Tallies'
  <2>1. tx'[s] = t /\ t.op = "write" /\ (\A r \in Session : r # s => Stands(r, 0)) /\ UNCHANGED <<packages, runs, audits>>
    BY <1>5, SetStands DEF WriteBegins, Loads, tables, WriteRequest
  <2>2. tx'[s].op # "judged"
    BY <2>1
  <2>3. QED
    BY <2>1, <2>2, TalliesStay
<1>6. ASSUME NEW s \in Session, NEW t \in Asked, AuditBegins(s, t)
      PROVE  Tallies'
  <2>1. tx'[s] = t /\ t.op = "audit" /\ (\A r \in Session : r # s => Stands(r, 0)) /\ UNCHANGED <<packages, runs, audits>>
    BY <1>6, SetStands DEF AuditBegins, Loads, tables, AuditRequest
  <2>2. tx'[s].op # "judged"
    BY <2>1
  <2>3. QED
    BY <2>1, <2>2, TalliesStay
<1>7. ASSUME NEW s \in Session, NEW t \in Asked, Judges(s, t)
      PROVE  Tallies'
  <2>1. tx'[s] = t /\ (\A r \in Session : r # s => Stands(r, 0)) /\ UNCHANGED <<packages, runs, audits>>
    BY <1>7, SetStands DEF Judges, Loads, tables
  <2>2. t.run = runs[t.about]
    BY <1>7 DEF Judges
  <2>3. QED
    BY <2>1, <2>2, TalliesStay
<1>8. ASSUME NEW s \in Session, RollBack(s)
      PROVE  Tallies'
  <2>1. tx'[s] = Idle /\ (\A r \in Session : r # s => Stands(r, 0)) /\ UNCHANGED <<packages, runs, audits>>
    BY <1>8, SetStands DEF RollBack, tables
  <2>2. tx'[s].op # "judged"
    BY <2>1 DEF Idle
  <2>3. QED
    BY <2>1, <2>2, TalliesStay
<1>9. ASSUME NEW s \in Session, EndWrite(s)
      PROVE  Tallies'
  <2>1. tx[s] # Idle /\ Commit(s) /\ UNCHANGED audits
    BY <1>9 DEF EndWrite, Idle
  <2>2. tx'[s] = Idle /\ \A r \in Session : r # s => Stands(r, tx[s].about)
    BY <2>1, CommitStands
  <2>3. \A r \in Session : tx'[r].op = "judged" =>
        tx[r].op = "judged" /\ tx'[r].about = tx[r].about /\ tx'[r].run = tx[r].run
    BY <2>2 DEF Stands, Idle
  <2>4. \A q : AuditsOf(q)' = AuditsOf(q)
    BY <2>1 DEF AuditsOf
  <2>5. PICK n \in Nat : Wrote(s, n)
    BY <1>9, Writing
  <2>6. Written = 1..n /\ Written' = 1..n + 1 /\ \A q \in 1..n : runs'[q] = runs[q]
    BY <2>5 DEF Wrote, Sized
  <2>7. ASSUME NEW q \in 1..n
        PROVE  \E k, l \in Nat : Tallied(q, k, l)'
    <3>1. PICK k, l \in Nat : Tallied(q, k, l)
      BY <2>6 DEF Tallies
    <3>2. runs'[q] = runs[q] /\ AuditsOf(q)' = AuditsOf(q)
      BY <2>4, <2>6
    <3>3. \A r \in Session : tx'[r].op = "judged" /\ tx'[r].about = q =>
              tx[r].op = "judged" /\ tx[r].about = q /\ tx'[r].run = tx[r].run
      BY <2>3
    <3>4. QED
      BY <3>1, <3>2, <3>3, TallyStays
  <2>8. Tallied(n + 1, 0, 0)'
    <3>1. \A r \in Session : tx'[r].op = "judged" => tx'[r].about \in 1..n
      BY <2>3, <2>6 DEF PackageTypes, Placed, Auditing
    <3>2. n + 1 \notin 1..n
      OBVIOUS
    <3>3. runs'[n + 1].ready = 0 /\ runs'[n + 1].blocked = 0
      BY <2>5 DEF Wrote, NewRun
    <3>4. PICK A : A = AuditsOf(n + 1)'
      OBVIOUS
    <3>5. A \subseteq audits /\ IsFiniteSet(audits)
      BY <2>1, <3>4 DEF AuditsOf, PackageTypes
    <3>6. Cardinality(A) \in Nat
      BY <3>5, FS_Subset, FS_CardinalityType
    <3>7. 0 + 0 <= Cardinality(A)
      BY <3>6
    <3>8. QED
      BY <3>1, <3>2, <3>3, <3>4, <3>7 DEF Tallied
  <2>9. \A q \in 1..n + 1 : q \in 1..n \/ q = n + 1
    OBVIOUS
  <2>10. QED
    BY <2>6, <2>7, <2>8, <2>9 DEF Tallies
<1>10. ASSUME NEW s \in Session, EndAudit(s)
       PROVE  Tallies'
  <2>1. tx[s] # Idle /\ Commit(s) /\ audits' = audits \cup {tx[s].audit} /\ tx[s].op = "judged"
    BY <1>10 DEF EndAudit, Idle
  <2>2. tx[s] \in JudgedAudit /\ tx[s].audit.package = tx[s].about /\ tx[s].audit \notin audits
    BY <2>1, RequestKinds DEF PackageTypes, Placed, Auditing, AuditOrder, Fresh
  <2>3. tx'[s] = Idle /\ \A r \in Session : r # s => Stands(r, tx[s].about)
    BY <2>1, CommitStands
  <2>4. \A r \in Session : tx'[r].op = "judged" =>
        tx[r].op = "judged" /\ tx'[r].about = tx[r].about /\ tx'[r].run = tx[r].run
    BY <2>3 DEF Stands, Idle
  <2>5. PICK p, a : p = tx[s].about /\ a = tx[s].audit
    OBVIOUS
  <2>6. AuditsOf(p)' = AuditsOf(p) \cup {a} /\ a \notin AuditsOf(p) /\ \A q : q # p => AuditsOf(q)' = AuditsOf(q)
    BY <2>1, <2>2, <2>5 DEF AuditsOf
  <2>7. PICK n \in Nat : Audited(s, n)
    BY <1>10, Auditings
  <2>8. Written = 1..n /\ Written' = 1..n /\ p \in 1..n /\ \A q \in 1..n : q # p => runs'[q] = runs[q]
    BY <2>5, <2>7 DEF Audited, Sized
  <2>9. ASSUME NEW q \in 1..n, q # p
        PROVE  \E k, l \in Nat : Tallied(q, k, l)'
    <3>1. PICK k, l \in Nat : Tallied(q, k, l)
      BY <2>8 DEF Tallies
    <3>2. runs'[q] = runs[q] /\ AuditsOf(q)' = AuditsOf(q)
      BY <2>6, <2>8, <2>9
    <3>3. \A r \in Session : tx'[r].op = "judged" /\ tx'[r].about = q =>
              tx[r].op = "judged" /\ tx[r].about = q /\ tx'[r].run = tx[r].run
      BY <2>4
    <3>4. QED
      BY <3>1, <3>2, <3>3, TallyStays
  <2>10. \E k, l \in Nat : Tallied(p, k, l)'
    <3>1. PICK k, l \in Nat : Tallied(p, k, l)
      BY <2>8 DEF Tallies
    <3>2. PICK run, copy, new : run = runs[p] /\ copy = tx[s].run /\ new = Counted(copy, tx[s].gate)
      OBVIOUS
    <3>3. run \in Run /\ copy \in Run
      BY <2>2, <2>7, <2>8, <3>2 DEF JudgedAudit, Audited, Sized
    <3>4. /\ new \in Run
          /\ new.ready = IF tx[s].gate = "pass" THEN copy.ready + 1 ELSE copy.ready
          /\ new.blocked = IF tx[s].gate = "blocked" THEN copy.blocked + 1 ELSE copy.blocked
      BY <3>2, <3>3, CountedTyped
    <3>5. runs'[p] = Update(run, copy, new)
      BY <2>5, <2>7, <3>2 DEF Audited
    <3>6. /\ runs'[p].ready = run.ready \/ (runs'[p].ready = new.ready /\ new.ready # copy.ready)
          /\ runs'[p].blocked = run.blocked \/ (runs'[p].blocked = new.blocked /\ new.blocked # copy.blocked)
      BY <3>3, <3>4, <3>5, RunTyped
    <3>7. run.ready <= k /\ run.blocked <= l /\ copy.ready <= k /\ copy.blocked <= l
      BY <2>1, <2>5, <3>1, <3>2 DEF Tallied
    <3>8. run.ready \in Nat /\ run.blocked \in Nat /\ copy.ready \in Nat /\ copy.blocked \in Nat
      BY <3>3 DEF Run
    <3>9. PICK i, j \in Nat : /\ i = IF tx[s].gate = "pass" THEN k + 1 ELSE k
                              /\ j = IF tx[s].gate = "blocked" THEN l + 1 ELSE l
      OBVIOUS
    <3>10. runs'[p].ready <= i /\ runs'[p].blocked <= j
      BY <3>4, <3>6, <3>7, <3>8, <3>9
    <3>11. k <= i /\ l <= j /\ i + j <= k + l + 1
      BY <3>9
    <3>12. \A r \in Session : tx'[r].op = "judged" /\ tx'[r].about = p =>
              tx'[r].run.ready <= i /\ tx'[r].run.blocked <= j
      <4>1. ASSUME NEW r \in Session, tx'[r].op = "judged", tx'[r].about = p
            PROVE  tx'[r].run.ready <= i /\ tx'[r].run.blocked <= j
        <5>1. tx[r].op = "judged" /\ tx[r].about = p /\ tx'[r].run = tx[r].run
          BY <2>4, <4>1
        <5>2. tx[r].run \in Run
          BY <5>1, RequestKinds DEF PackageTypes, JudgedAudit
        <5>3. tx[r].run.ready \in Nat /\ tx[r].run.blocked \in Nat
          BY <5>2 DEF Run
        <5>4. tx[r].run.ready <= k /\ tx[r].run.blocked <= l
          BY <3>1, <5>1 DEF Tallied
        <5>5. QED
          BY <3>11, <5>1, <5>3, <5>4
      <4>2. QED
        BY <4>1
    <3>13. i + j <= Cardinality(AuditsOf(p)')
      <4>1. PICK A : A = AuditsOf(p)
        OBVIOUS
      <4>2. A \subseteq audits /\ IsFiniteSet(audits)
        BY <4>1 DEF AuditsOf, PackageTypes
      <4>3. IsFiniteSet(A)
        BY <4>2, FS_Subset
      <4>4. Cardinality(A \cup {a}) = Cardinality(A) + 1 /\ Cardinality(A) \in Nat
        BY <2>6, <4>1, <4>3, FS_AddElement, FS_CardinalityType
      <4>5. k + l <= Cardinality(A)
        BY <3>1, <4>1 DEF Tallied
      <4>6. i + j <= Cardinality(A \cup {a})
        BY <3>11, <4>4, <4>5
      <4>7. QED
        BY <2>6, <4>1, <4>6
    <3>14. Tallied(p, i, j)'
      BY <3>10, <3>12, <3>13 DEF Tallied
    <3>15. QED
      BY <3>14
  <2>11. QED
    BY <2>8, <2>9, <2>10 DEF Tallies
<1>11. QED
  BY <1>2, <1>3, <1>4, <1>5, <1>6, <1>7, <1>8, <1>9, <1>10, PackageSteps

\* As many audits have passed as there are ready packages and auditors of each.
LEMMA EnoughPasses ==
    ASSUME PackageTypes, PassesKept, NEW R, R = {p \in Written : packages[p].gate = "pass"},
           NEW P, P = {a \in audits : a.state = "pass"}
    PROVE  Cardinality(R) * Cardinality(Auditor) <= Cardinality(P)
<1>1. PICK n \in Nat : Sized(n)
  BY HasSize DEF PackageTypes
<1>2. IsFiniteSet(R)
  <2>1. IsFiniteSet(1..n)
    BY FS_Interval
  <2>2. R \subseteq 1..n
    BY <1>1 DEF Sized
  <2>3. QED
    BY <2>1, <2>2, FS_Subset
<1>3. IsFiniteSet(P)
  BY FS_Subset DEF PackageTypes
<1>4. PICK pairs : pairs = R \X Auditor
  OBVIOUS
<1>5. Cardinality(pairs) = Cardinality(R) * Cardinality(Auditor)
  BY <1>2, <1>4, FS_Product, PackageAssumption
<1> DEFINE Pick(x) == CHOOSE a \in P : a.package = x[1] /\ a.kind = x[2]
<1>6. ASSUME NEW x \in pairs
      PROVE  Pick(x) \in P /\ Pick(x).package = x[1] /\ Pick(x).kind = x[2]
  <2>1. x[1] \in R /\ x[2] \in Auditor
    BY <1>4
  <2>2. \E a \in AuditsOf(x[1]) : a.kind = x[2] /\ a.state = "pass"
    BY <2>1 DEF PassesKept, Unanimous
  <2>3. \E a \in P : a.package = x[1] /\ a.kind = x[2]
    BY <2>2 DEF AuditsOf
  <2>4. QED
    BY <2>3
<1>7. PICK f : f = [x \in pairs |-> Pick(x)]
  OBVIOUS
<1>8. f \in [pairs -> P] /\ \A x \in pairs : f[x].package = x[1] /\ f[x].kind = x[2]
  <2> HIDE DEF Pick
  <2>1. QED
    BY <1>6, <1>7
<1>9. \A x, y \in pairs : f[x] = f[y] => x = y
  <2>1. \A x, y \in pairs : x[1] = y[1] /\ x[2] = y[2] => x = y
    BY <1>4
  <2>2. QED
    BY <1>8, <2>1
<1>10. f \in Injection(pairs, P)
  BY <1>8, <1>9 DEF Injection, IsInjective
<1>11. Cardinality(pairs) <= Cardinality(P)
  BY <1>3, <1>10, FS_Injection
<1>12. QED
  BY <1>5, <1>11

LEMMA PassShows ==
    ASSUME PackageTypes, PassesKept, Tallies
    PROVE  PassIsUnanimous
<1>1. \A p \in Written : ProducerEligible(p) \/ p \in jobs => \A kind \in Auditor : PassedBy(p, kind)
  BY DEF PassesKept, ProducerEligible, PassedBy, Unanimous
<1>2. ASSUME NEW p \in Written
      PROVE  runs[p].ready + runs[p].blocked <= Cardinality(AuditsOf(p))
  <2>1. PICK m, n \in Nat : Tallied(p, m, n)
    BY DEF Tallies
  <2>2. runs[p] \in Run
    BY HasSize DEF PackageTypes, Sized
  <2>3. runs[p].ready \in Nat /\ runs[p].blocked \in Nat
    BY <2>2 DEF Run
  <2>4. AuditsOf(p) \subseteq audits /\ IsFiniteSet(audits)
    BY DEF AuditsOf, PackageTypes
  <2>5. Cardinality(AuditsOf(p)) \in Nat
    BY <2>4, FS_Subset, FS_CardinalityType
  <2>6. QED
    BY <2>1, <2>3, <2>5 DEF Tallied
<1>3. Cardinality({p \in Written : packages[p].gate = "pass"}) * Cardinality(Auditor)
        <= Cardinality({a \in audits : a.state = "pass"})
  BY EnoughPasses
<1>4. Summary.packages_ready = Cardinality({p \in Written : packages[p].gate = "pass"})
  BY DEF Summary
<1>5. QED
  BY <1>1, <1>2, <1>3, <1>4 DEF PassIsUnanimous

-----------------------------------------------------------------------------
(* A request that is not stale has current copies.                         *)

Current(s) ==
    tx[s] # Idle /\ ~tx[s].stale /\ tx[s].about # 0 =>
        /\ tx[s].copy = packages[tx[s].about]
        /\ tx[s].op = "write" => tx[s].audits = AuditsOf(tx[s].about)
        /\ Auditing(s) => tx[s].claims = claims[tx[s].about]
        /\ tx[s].op = "judged" => tx[s].gate = AggregateGate(AuditsOf(tx[s].about) \cup {tx[s].audit})

CopiesCurrent == \A s \in Session : Current(s)

\* The request of another session stays current: what it has loaded is as it was.
LEMMA CurrentStays ==
    ASSUME PackageTypes, NEW r \in Session, NEW p, Stands(r, p), Current(r), NEW q, q = tx[r].about,
           tx[r] # Idle /\ q # 0 /\ q # p =>
                packages'[q] = packages[q] /\ claims'[q] = claims[q] /\ AuditsOf(q)' = AuditsOf(q)
    PROVE  Current(r)'
<1>1. tx[r].op = "idle" <=> tx[r] = Idle
  BY RequestKinds DEF PackageTypes
<1>2. tx'[r].op = "idle" <=> tx'[r] = Idle
  BY RequestKinds DEF Stands
<1>3. SUFFICES ASSUME tx'[r] # Idle, ~tx'[r].stale, tx'[r].about # 0
               PROVE  /\ tx'[r].copy = packages'[tx'[r].about]
                      /\ tx'[r].op = "write" => tx'[r].audits = AuditsOf(tx[r].about)'
                      /\ Auditing(r)' => tx'[r].claims = claims'[tx'[r].about]
                      /\ tx'[r].op = "judged" => tx'[r].gate = AggregateGate(AuditsOf(tx[r].about) \cup {tx[r].audit})'
  BY <1>3 DEF Current
<1>4. tx[r] # Idle /\ tx'[r].about = q /\ tx'[r].copy = tx[r].copy
  BY <1>1, <1>2, <1>3 DEF Stands
<1>5. q # 0 /\ ~tx[r].stale /\ q # p
  BY <1>3, <1>4, RequestKinds DEF Stands, PackageTypes
<1>6. packages'[q] = packages[q] /\ claims'[q] = claims[q] /\ AuditsOf(q)' = AuditsOf(q)
  BY <1>4, <1>5
<1>7. /\ tx[r].copy = packages[q]
      /\ tx[r].op = "write" => tx[r].audits = AuditsOf(q)
      /\ Auditing(r) => tx[r].claims = claims[q]
      /\ tx[r].op = "judged" => tx[r].gate = AggregateGate(AuditsOf(q) \cup {tx[r].audit})
  BY <1>4, <1>5 DEF Current
<1>8. tx'[r].copy = packages'[tx'[r].about]
  BY <1>4, <1>6, <1>7
<1>9. PICK A : A = AuditsOf(q)'
  OBVIOUS
<1>10. AuditsOf(tx[r].about)' = A
  BY <1>4, <1>9 DEF AuditsOf
<1>11. tx'[r].op = "write" => tx'[r].audits = AuditsOf(tx[r].about)'
  BY <1>6, <1>7, <1>9, <1>10 DEF Stands
<1>12. Auditing(r)' => tx'[r].claims = claims'[tx'[r].about]
  BY <1>4, <1>6, <1>7 DEF Stands, Auditing
<1>13. tx'[r].op = "judged" => tx'[r].gate = AggregateGate(AuditsOf(tx[r].about) \cup {tx[r].audit})'
  <2>1. SUFFICES ASSUME tx'[r].op = "judged"
                 PROVE  tx'[r].gate = AggregateGate(AuditsOf(tx[r].about) \cup {tx[r].audit})'
    OBVIOUS
  <2>2. PICK a : a = tx[r].audit
    OBVIOUS
  <2>3. tx[r].op = "judged" /\ tx'[r].audit = a /\ tx'[r].gate = tx[r].gate
    BY <2>1, <2>2 DEF Stands
  <2>4. tx'[r].gate = AggregateGate(A \cup {a})
    BY <1>6, <1>7, <1>9, <2>2, <2>3
  <2>5. (AuditsOf(tx[r].about) \cup {tx[r].audit})' = A \cup {a}
    BY <1>10, <2>3
  <2>6. QED
    BY <2>4, <2>5 DEF AggregateGate
<1>14. QED
  BY <1>8, <1>11, <1>12, <1>13

\* A step that loads leaves the other requests current.
LEMMA CopiesLoad ==
    ASSUME PackageTypes, CopiesCurrent, NEW s \in Session, NEW t, Loads(s, t), Current(s)'
    PROVE  CopiesCurrent'
<1>1. (\A r \in Session : r # s => Stands(r, 0)) /\ UNCHANGED <<packages, claims, audits>>
  BY SetStands DEF Loads, tables
<1>2. \A q : packages'[q] = packages[q] /\ claims'[q] = claims[q] /\ AuditsOf(q)' = AuditsOf(q)
  BY <1>1 DEF AuditsOf
<1>3. \A r \in Session : r # s => Current(r)'
  BY <1>1, <1>2, CurrentStays DEF CopiesCurrent
<1>4. QED
  BY <1>3 DEF CopiesCurrent

\* A request that ends has written what others have loaded, if they are about its package.
LEMMA CopiesEnd ==
    ASSUME PackageTypes, CopiesCurrent, NEW s \in Session, tx[s] # Idle, Commit(s),
           \A q \in Written : q # tx[s].about =>
                packages'[q] = packages[q] /\ claims'[q] = claims[q] /\ AuditsOf(q)' = AuditsOf(q)
    PROVE  CopiesCurrent'
<1>1. PICK p : p = tx[s].about
  OBVIOUS
<1>2. tx'[s] = Idle /\ \A r \in Session : r # s => Stands(r, p)
  BY <1>1, CommitStands
<1>3. Current(s)'
  BY <1>2 DEF Current
<1>4. \A q \in Written : q # p =>
        packages'[q] = packages[q] /\ claims'[q] = claims[q] /\ AuditsOf(q)' = AuditsOf(q)
  BY <1>1
<1>5. \A r \in Session : tx[r] # Idle => tx[r].about \in Written \cup {0}
  BY RequestKinds DEF PackageTypes, Placed, Auditing
<1>6. ASSUME NEW r \in Session, r # s
      PROVE  Current(r)'
  <2>1. PICK q : q = tx[r].about
    OBVIOUS
  <2>2. tx[r] # Idle /\ q # 0 /\ q # p =>
            packages'[q] = packages[q] /\ claims'[q] = claims[q] /\ AuditsOf(q)' = AuditsOf(q)
    BY <1>4, <1>5, <2>1
  <2>3. Stands(r, p) /\ Current(r)
    BY <1>2, <1>6 DEF CopiesCurrent
  <2>4. QED
    BY <2>1, <2>2, <2>3, CurrentStays
<1>7. QED
  BY <1>3, <1>6 DEF CopiesCurrent

LEMMA CopiesStep ==
    ASSUME PackageTypes, CopiesCurrent, [Next]_vars
    PROVE  CopiesCurrent'
<1>1. ASSUME UNCHANGED <<packages, claims, audits, tx>>
      PROVE  CopiesCurrent'
  BY <1>1 DEF CopiesCurrent, Current, Auditing, AuditsOf
<1>2. CASE UNCHANGED vars
  BY <1>1, <1>2 DEF vars, tables
<1>3. CASE RequestPackage
  BY <1>1, <1>3 DEF RequestPackage
<1>4. ASSUME NEW p \in Written, RequestProduction(p)
      PROVE  CopiesCurrent'
  BY <1>1, <1>4 DEF RequestProduction
<1>5. ASSUME NEW s \in Session, NEW t \in Asked, WriteBegins(s, t)
      PROVE  CopiesCurrent'
  <2>1. tx'[s] = t /\ t.op = "write" /\ Loads(s, t) /\ UNCHANGED <<packages, audits>>
    BY <1>5, SetStands DEF WriteBegins, Loads, tables, WriteRequest
  <2>2. Current(s)'
    BY <1>5, <2>1 DEF WriteBegins, Current, Auditing, AuditsOf
  <2>3. QED
    BY <2>1, <2>2, CopiesLoad
<1>6. ASSUME NEW s \in Session, NEW t \in Asked, AuditBegins(s, t)
      PROVE  CopiesCurrent'
  <2>1. tx'[s] = t /\ t.op = "audit" /\ Loads(s, t) /\ UNCHANGED <<packages, claims>>
    BY <1>6, SetStands DEF AuditBegins, Loads, tables, AuditRequest
  <2>2. Current(s)'
    BY <1>6, <2>1 DEF AuditBegins, Current, Auditing
  <2>3. QED
    BY <2>1, <2>2, CopiesLoad
<1>7. ASSUME NEW s \in Session, NEW t \in Asked, Judges(s, t)
      PROVE  CopiesCurrent'
  <2>1. tx'[s] = t /\ t.op = "judged" /\ Loads(s, t) /\ UNCHANGED <<packages, claims, audits>>
    BY <1>7, SetStands DEF Judges, Loads, tables, JudgedAudit
  <2>2. tx[s] # Idle /\ Auditing(s) /\ Current(s)
    BY <1>7 DEF Judges, Auditing, Idle, CopiesCurrent
  <2>3. /\ t.about = tx[s].about /\ t.stale = tx[s].stale /\ t.copy = tx[s].copy /\ t.claims = tx[s].claims
        /\ t.gate = AggregateGate(AuditsOf(t.about) \cup {t.audit})
    BY <1>7 DEF Judges
  <2>4. Current(s)'
    BY <2>1, <2>2, <2>3 DEF Current, Auditing, AuditsOf
  <2>5. QED
    BY <2>1, <2>4, CopiesLoad
<1>8. ASSUME NEW s \in Session, RollBack(s)
      PROVE  CopiesCurrent'
  <2>1. Loads(s, Idle) /\ tx'[s] = Idle
    BY <1>8, SetStands DEF RollBack, Loads
  <2>2. Current(s)'
    BY <2>1 DEF Current
  <2>3. QED
    BY <2>1, <2>2, CopiesLoad
<1>9. ASSUME NEW s \in Session, EndWrite(s)
      PROVE  CopiesCurrent'
  <2>1. tx[s] # Idle /\ Commit(s) /\ UNCHANGED audits
    BY <1>9 DEF EndWrite, Idle
  <2>2. PICK n \in Nat : Wrote(s, n)
    BY <1>9, Writing
  <2>3. \A q \in Written : q # tx[s].about =>
            packages'[q] = packages[q] /\ claims'[q] = claims[q] /\ AuditsOf(q)' = AuditsOf(q)
    BY <2>1, <2>2 DEF Wrote, Sized, AuditsOf
  <2>4. QED
    BY <2>1, <2>3, CopiesEnd
<1>10. ASSUME NEW s \in Session, EndAudit(s)
       PROVE  CopiesCurrent'
  <2>1. tx[s] # Idle /\ Commit(s) /\ audits' = audits \cup {tx[s].audit}
    BY <1>10 DEF EndAudit, Idle
  <2>2. tx[s].audit.package = tx[s].about
    BY <1>10 DEF EndAudit, PackageTypes, Placed, Auditing
  <2>3. PICK n \in Nat : Audited(s, n)
    BY <1>10, Auditings
  <2>4. \A q \in Written : q # tx[s].about =>
            packages'[q] = packages[q] /\ claims'[q] = claims[q] /\ AuditsOf(q)' = AuditsOf(q)
    BY <2>1, <2>2, <2>3 DEF Audited, Sized, AuditsOf
  <2>5. QED
    BY <2>1, <2>4, CopiesEnd
<1>11. QED
  BY <1>2, <1>3, <1>4, <1>5, <1>6, <1>7, <1>8, <1>9, <1>10, PackageSteps

-----------------------------------------------------------------------------
(* The row of a package says what follows from its audits.                 *)

GateFrom(p) ==
    IF packages[p].invalidated /\ AuditsOf(p) \subseteq invalidations THEN "invalidated"
    ELSE IF AuditsOf(p) # {} THEN AggregateGate(AuditsOf(p))
    ELSE IF packages[p].duplicate THEN "blocked"
    ELSE "not_ready"

RowSays(row, gate) ==
    /\ row.gate = gate
    /\ row.handoff = "provider_not_configured" <=> gate = "pass"
    /\ row.status = CASE gate = "pass" -> "audited_ready"
                      [] gate = "blocked" -> "audited_blocked"
                      [] gate = "invalidated" -> "superseded"
                      [] OTHER -> "awaiting_audits"

\* The newest fact audit, if it passed, is what has verified the claims.
ClaimsFollow(p) == LatestState(AuditsOf(p), FactAuditor) = "pass" => claims[p] = "verified"

Follows(p) == RowSays(packages[p], GateFrom(p)) /\ ClaimsFollow(p)
RowsFollow == \A p \in Written \ raced : Follows(p)

LEMMA FollowsShows == RowsFollow => RowFollowsAudits
<1>1. ASSUME NEW p, Follows(p), GateFrom(p) = "pass"
      PROVE  claims[p] = "verified"
  <2>1. AggregateGate(AuditsOf(p)) = "pass"
    BY <1>1 DEF GateFrom
  <2>2. LatestState(AuditsOf(p), FactAuditor) = "pass"
    BY <2>1, PackageAssumption DEF AggregateGate
  <2>3. QED
    BY <1>1, <2>2 DEF Follows, ClaimsFollow
<1>2. QED
  BY <1>1 DEF RowsFollow, Follows, RowSays, GateFrom, RowFollowsAudits

LEMMA SaysStatus ==
    ASSUME NEW row, NEW gate \in {"pass", "blocked", "not_ready"}, row.gate = gate, row.status = StatusOf(gate),
           row.handoff = IF gate = "pass" THEN "provider_not_configured" ELSE "blocked"
    PROVE  RowSays(row, gate)
  BY DEF RowSays, StatusOf

LEMMA LatestOther ==
    ASSUME NEW visible, NEW a, NEW kind, kind # a.kind
    PROVE  LatestState(visible \cup {a}, kind) = LatestState(visible, kind)
<1>1. PICK mine : mine = {x \in visible : x.kind = kind}
  OBVIOUS
<1>2. mine = {x \in visible \cup {a} : x.kind = kind}
  BY <1>1
<1>3. PICK l : l = CHOOSE x \in mine : \A b \in mine : b.at <= x.at
  OBVIOUS
<1>4. LatestState(visible, kind) = IF mine = {} THEN "not_run" ELSE l.state
  BY <1>1, <1>3 DEF LatestState
<1>5. LatestState(visible \cup {a}, kind) = IF mine = {} THEN "not_run" ELSE l.state
  BY <1>2, <1>3 DEF LatestState
<1>6. QED
  BY <1>4, <1>5

LEMMA LatestNew ==
    ASSUME NEW visible \in SUBSET Audit, NEW a \in Audit, \A b \in visible : b.kind = a.kind => b.at < a.at
    PROVE  LatestState(visible \cup {a}, a.kind) = a.state
<1>1. PICK mine : mine = {x \in visible \cup {a} : x.kind = a.kind}
  OBVIOUS
<1>2. a \in mine /\ \A b \in mine : b = a \/ b.at < a.at
  BY <1>1
<1>3. \A b \in mine : b.at \in Nat
  BY <1>1 DEF Audit
<1>4. \A b \in mine : b.at <= a.at
  BY <1>2, <1>3
<1>5. \A x \in mine : (\A b \in mine : b.at <= x.at) => x = a
  BY <1>2, <1>3
<1>6. PICK l : l = CHOOSE x \in mine : \A b \in mine : b.at <= x.at
  OBVIOUS
<1>7. l = a
  BY <1>2, <1>4, <1>5, <1>6
<1>8. QED
  BY <1>1, <1>2, <1>6, <1>7 DEF LatestState

\* A package no step has touched.
LEMMA FollowsStays ==
    ASSUME NEW p, Follows(p), packages'[p] = packages[p], claims'[p] = claims[p],
           AuditsOf(p)' = AuditsOf(p),
           AuditsOf(p) \subseteq invalidations' <=> AuditsOf(p) \subseteq invalidations
    PROVE  Follows(p)'
<1>1. PICK A : A = AuditsOf(p)
  OBVIOUS
<1>2. AuditsOf(p)' = A
  BY <1>1
<1>3. GateFrom(p)' = GateFrom(p)
  BY <1>1, <1>2 DEF GateFrom, AggregateGate, LatestState
<1>4. ClaimsFollow(p)'
  BY <1>1, <1>2 DEF Follows, ClaimsFollow, LatestState
<1>5. RowSays(packages[p], GateFrom(p))'
  BY <1>3 DEF Follows, RowSays
<1>6. QED
  BY <1>4, <1>5 DEF Follows

\* A package just written has no audits.
LEMMA FollowsNew ==
    ASSUME PackageTypes, NEW s \in Session, EndWrite(s), NEW n \in Nat, Wrote(s, n)
    PROVE  Follows(n + 1)'
<1>1. tx[s] \in WriteRequest /\ UNCHANGED audits
  BY RequestKinds DEF EndWrite, PackageTypes
<1>2. PICK row, m : row = NewPackage(tx[s]) /\ m = n + 1
  OBVIOUS
<1>3. /\ ~row.invalidated /\ row.gate = IF row.duplicate THEN "blocked" ELSE "not_ready"
      /\ row.handoff = "blocked" /\ row.status = StatusOf(row.gate)
  BY <1>1, <1>2, NewTyped
<1>4. packages'[m] = row /\ m \notin Written
  BY <1>2 DEF Wrote, Sized
<1>5. PICK A : A = AuditsOf(m)'
  OBVIOUS
<1>6. A = {}
  BY <1>1, <1>4, <1>5 DEF PackageTypes, AuditsOf
<1>7. GateFrom(m)' = row.gate
  BY <1>3, <1>4, <1>5, <1>6 DEF GateFrom
<1>8. RowSays(row, row.gate)
  BY <1>3, SaysStatus
<1>9. LatestState(A, FactAuditor) = "not_run"
  BY <1>6, NotRun
<1>10. ClaimsFollow(m)'
  BY <1>5, <1>9 DEF ClaimsFollow, LatestState
<1>11. RowSays(packages[m], GateFrom(m))'
  BY <1>4, <1>7, <1>8 DEF RowSays
<1>12. QED
  BY <1>2, <1>10, <1>11 DEF Follows

\* A revision that has seen the last write says that its package is superseded.
LEMMA FollowsRevision ==
    ASSUME PackageTypes, CopiesCurrent, NEW s \in Session, EndWrite(s), NEW n \in Nat, Wrote(s, n),
           NEW p \in Written, p = tx[s].about, ~tx[s].stale, Follows(p)
    PROVE  Follows(p)'
<1>1. tx[s] # Idle /\ tx[s].op = "write" /\ UNCHANGED audits /\ invalidations' = invalidations \cup tx[s].audits
  BY DEF EndWrite, Idle
<1>2. Written = 1..n /\ p \in 1..n /\ p # 0
  BY DEF Wrote, Sized
<1>3. PICK copy : copy = tx[s].copy
  OBVIOUS
<1>4. copy = packages[p] /\ tx[s].audits = AuditsOf(p)
  BY <1>1, <1>2, <1>3 DEF CopiesCurrent, Current
<1>5. copy \in PackageRow
  BY <1>2, <1>4 DEF Wrote, Sized
<1>6. PICK new : new = Superseded(copy)
  OBVIOUS
<1>7. new \in PackageRow /\ new.invalidated /\ new.gate = "invalidated" /\ new.handoff = "blocked"
      /\ new.status = "superseded"
  BY <1>5, <1>6, SupersededTyped
<1>8. copy = [f \in RowFields |-> copy[f]] /\ new = [f \in RowFields |-> new[f]]
  BY <1>5, <1>7, RowsAreFunctions
<1>9. Update(copy, copy, new) = new
  BY <1>8, UpdateCurrent
<1>10. packages'[p] = new
  BY <1>2, <1>3, <1>4, <1>6, <1>9 DEF Wrote
<1>11. PICK A : A = AuditsOf(p)
  OBVIOUS
<1>12. AuditsOf(p)' = A /\ A \subseteq invalidations'
  BY <1>1, <1>4, <1>11 DEF AuditsOf
<1>13. GateFrom(p)' = "invalidated"
  BY <1>7, <1>10, <1>12 DEF GateFrom
<1>14. RowSays(new, "invalidated")
  BY <1>7 DEF RowSays
<1>15. RowSays(packages[p], GateFrom(p))'
  BY <1>10, <1>13, <1>14 DEF RowSays
<1>16. claims'[p] = claims[p]
  BY <1>2 DEF Wrote
<1>17. ClaimsFollow(p)'
  BY <1>11, <1>12, <1>16 DEF Follows, ClaimsFollow, LatestState
<1>18. QED
  BY <1>15, <1>17 DEF Follows

\* An audit that has seen the last write says what follows from all audits.
LEMMA FollowsAudit ==
    ASSUME PackageTypes, AuditOrder, CopiesCurrent, NEW s \in Session, EndAudit(s), NEW n \in Nat, Audited(s, n),
           NEW p \in Written, p = tx[s].about, ~tx[s].stale, Follows(p)
    PROVE  Follows(p)'
<1>1. tx[s] # Idle /\ tx[s].op = "judged" /\ Auditing(s) /\ UNCHANGED invalidations
      /\ audits' = audits \cup {tx[s].audit}
  BY DEF EndAudit, Idle, Auditing
<1>2. Written = 1..n /\ p \in 1..n /\ p # 0
  BY DEF Audited, Sized
<1>3. PICK copy, gate, a, visible : copy = tx[s].copy /\ gate = tx[s].gate /\ a = tx[s].audit /\ visible = AuditsOf(p)
  OBVIOUS
<1>4. copy = packages[p] /\ tx[s].claims = claims[p] /\ gate = AggregateGate(visible \cup {a})
  BY <1>1, <1>2, <1>3 DEF CopiesCurrent, Current
<1>5. a \in Audit /\ a.package = p /\ a \notin audits /\ gate \in {"pass", "blocked", "not_ready"}
  BY <1>1, <1>3, RequestKinds DEF PackageTypes, Placed, AuditOrder, Fresh, JudgedAudit
<1>6. visible \in SUBSET Audit /\ \A b \in visible : b.kind = a.kind => b.at < a.at
  BY <1>1, <1>3 DEF AuditOrder, Newest, AuditsOf, PackageTypes, TypeOK
<1>7. copy \in PackageRow
  BY <1>2, <1>4 DEF Audited, Sized
<1>8. PICK new : new = Recalculated(copy, gate)
  OBVIOUS
<1>9. /\ new \in PackageRow /\ new.gate = gate /\ new.status = StatusOf(gate)
      /\ new.handoff = IF gate = "pass" THEN "provider_not_configured" ELSE "blocked"
  BY <1>5, <1>7, <1>8, RecalculatedTyped
<1>10. copy = [f \in RowFields |-> copy[f]] /\ new = [f \in RowFields |-> new[f]]
  BY <1>7, <1>9, RowsAreFunctions
<1>11. Update(copy, copy, new) = new
  BY <1>10, UpdateCurrent
<1>12. packages'[p] = new
  BY <1>3, <1>4, <1>8, <1>11 DEF Audited
<1>13. PICK A : A = visible \cup {a}
  OBVIOUS
<1>14. AuditsOf(p)' = A
  BY <1>1, <1>3, <1>5, <1>13 DEF AuditsOf
<1>15. a \in A /\ a \notin invalidations' /\ A # {}
  BY <1>1, <1>5, <1>13 DEF PackageTypes, TypeOK
<1>16. AggregateGate(A) = gate
  BY <1>4, <1>13
<1>17. GateFrom(p)' = gate
  BY <1>14, <1>15, <1>16 DEF GateFrom, AggregateGate, LatestState
<1>18. RowSays(new, gate)
  BY <1>5, <1>9, SaysStatus
<1>19. RowSays(packages[p], GateFrom(p))'
  BY <1>12, <1>17, <1>18 DEF RowSays
<1>20. claims'[p] = ClaimsAfter(a, claims[p])
  BY <1>3, <1>4 DEF Audited, WritesClaims
<1>21. LatestState(A, FactAuditor) = "pass" => claims'[p] = "verified"
  <2>1. CASE a.kind = FactAuditor
    <3>1. LatestState(A, FactAuditor) = a.state
      BY <1>5, <1>6, <1>13, <2>1, LatestNew
    <3>2. QED
      BY <1>20, <2>1, <3>1 DEF ClaimsAfter
  <2>2. CASE a.kind # FactAuditor
    <3>1. LatestState(A, FactAuditor) = LatestState(visible, FactAuditor)
      BY <1>13, <2>2, LatestOther
    <3>2. LatestState(visible, FactAuditor) = "pass" => claims[p] = "verified"
      BY <1>3 DEF Follows, ClaimsFollow
    <3>3. QED
      BY <1>20, <2>2, <3>1, <3>2 DEF ClaimsAfter
  <2>3. QED
    BY <2>1, <2>2
<1>22. ClaimsFollow(p)'
  BY <1>14, <1>21 DEF ClaimsFollow, LatestState
<1>23. QED
  BY <1>19, <1>22 DEF Follows

LEMMA FollowsStep ==
    ASSUME PackageTypes, AuditOrder, CopiesCurrent, RowsFollow, [Next]_vars
    PROVE  RowsFollow'
<1>1. ASSUME UNCHANGED <<packages, claims, audits, invalidations, raced>>
      PROVE  RowsFollow'
  <2>1. \A p : packages'[p] = packages[p] /\ claims'[p] = claims[p] /\ AuditsOf(p)' = AuditsOf(p)
               /\ (AuditsOf(p) \subseteq invalidations' <=> AuditsOf(p) \subseteq invalidations)
    BY <1>1 DEF AuditsOf
  <2>2. QED
    BY <1>1, <2>1, FollowsStays DEF RowsFollow, Written
<1>2. CASE UNCHANGED vars
  BY <1>1, <1>2 DEF vars, tables
<1>3. CASE RequestPackage
  BY <1>1, <1>3 DEF RequestPackage
<1>4. ASSUME NEW p \in Written, RequestProduction(p)
      PROVE  RowsFollow'
  BY <1>1, <1>4 DEF RequestProduction
<1>5. ASSUME NEW s \in Session, NEW t, Loads(s, t)
      PROVE  RowsFollow'
  BY <1>1, <1>5 DEF Loads, tables
<1>6. ASSUME NEW s \in Session, RollBack(s)
      PROVE  RowsFollow'
  BY <1>1, <1>6 DEF RollBack, tables
<1>7. ASSUME NEW s \in Session, EndWrite(s)
      PROVE  RowsFollow'
  <2>1. tx[s] # Idle /\ Commit(s) /\ tx[s].op = "write" /\ UNCHANGED audits
        /\ invalidations' = invalidations \cup tx[s].audits
    BY <1>7 DEF EndWrite, Idle
  <2>2. PICK n \in Nat : Wrote(s, n)
    BY <1>7, Writing
  <2>3. Written = 1..n /\ Written' = 1..n + 1
    BY <2>2 DEF Wrote, Sized
  <2>4. PICK p : p = tx[s].about
    OBVIOUS
  <2>5. raced' = IF tx[s].stale THEN raced \cup {p} ELSE raced
    BY <2>1, <2>4, CommitStands
  <2>6. tx[s].audits \subseteq AuditsOf(p)
    BY <2>1, <2>4 DEF PackageTypes, Placed
  <2>7. ASSUME NEW q \in 1..n, q \notin raced', q # p
        PROVE  Follows(q)'
    <3>1. Follows(q)
      BY <2>3, <2>5, <2>7 DEF RowsFollow
    <3>2. packages'[q] = packages[q] /\ claims'[q] = claims[q] /\ AuditsOf(q)' = AuditsOf(q)
      BY <2>1, <2>2, <2>4, <2>7 DEF Wrote, AuditsOf
    <3>3. AuditsOf(q) \subseteq invalidations' <=> AuditsOf(q) \subseteq invalidations
      BY <2>1, <2>6, <2>7 DEF AuditsOf
    <3>4. QED
      BY <3>1, <3>2, <3>3, FollowsStays
  <2>8. ASSUME NEW q \in 1..n, q \notin raced', q = p
        PROVE  Follows(q)'
    <3>1. Follows(q) /\ ~tx[s].stale /\ q \in Written
      BY <2>3, <2>5, <2>8 DEF RowsFollow
    <3>2. QED
      BY <1>7, <2>2, <2>4, <2>8, <3>1, FollowsRevision
  <2>9. Follows(n + 1)'
    BY <1>7, <2>2, FollowsNew
  <2>10. \A q \in 1..n + 1 : q \in 1..n \/ q = n + 1
    OBVIOUS
  <2>11. QED
    BY <2>3, <2>7, <2>8, <2>9, <2>10 DEF RowsFollow
<1>8. ASSUME NEW s \in Session, EndAudit(s)
      PROVE  RowsFollow'
  <2>1. tx[s] # Idle /\ Commit(s) /\ audits' = audits \cup {tx[s].audit} /\ UNCHANGED invalidations
    BY <1>8 DEF EndAudit, Idle
  <2>2. PICK n \in Nat : Audited(s, n)
    BY <1>8, Auditings
  <2>3. Written = 1..n /\ Written' = 1..n
    BY <2>2 DEF Audited, Sized
  <2>4. PICK p : p = tx[s].about
    OBVIOUS
  <2>5. raced' = IF tx[s].stale THEN raced \cup {p} ELSE raced
    BY <2>1, <2>4, CommitStands
  <2>6. tx[s].audit.package = p
    BY <1>8, <2>4 DEF EndAudit, PackageTypes, Placed, Auditing
  <2>7. ASSUME NEW q \in 1..n, q \notin raced', q # p
        PROVE  Follows(q)'
    <3>1. Follows(q)
      BY <2>3, <2>5, <2>7 DEF RowsFollow
    <3>2. packages'[q] = packages[q] /\ claims'[q] = claims[q] /\ AuditsOf(q)' = AuditsOf(q)
      BY <2>1, <2>2, <2>4, <2>6, <2>7 DEF Audited, AuditsOf
    <3>3. AuditsOf(q) \subseteq invalidations' <=> AuditsOf(q) \subseteq invalidations
      BY <2>1
    <3>4. QED
      BY <3>1, <3>2, <3>3, FollowsStays
  <2>8. ASSUME NEW q \in 1..n, q \notin raced', q = p
        PROVE  Follows(q)'
    <3>1. Follows(q) /\ ~tx[s].stale /\ q \in Written
      BY <2>3, <2>5, <2>8 DEF RowsFollow
    <3>2. QED
      BY <1>8, <2>2, <2>4, <2>8, <3>1, FollowsAudit
  <2>9. QED
    BY <2>3, <2>7, <2>8 DEF RowsFollow
<1>9. QED
  BY <1>2, <1>3, <1>4, <1>5, <1>6, <1>7, <1>8, PackageSteps DEF WriteBegins, AuditBegins, Judges

-----------------------------------------------------------------------------
(* A package is revised once over audits.                                  *)

\* Of two writers that revise one package, one has found all the audits the other has.
Chain ==
    \A s, r \in Session : tx[s].op = "write" /\ tx[r].op = "write" /\ tx[s].about = tx[r].about =>
        tx[s].audits \subseteq tx[r].audits \/ tx[r].audits \subseteq tx[s].audits

Revised(p) == \E q \in Written : packages[q].prior = p /\ packages[q].audited

\* Once it is revised over audits, whoever else has found some of them finds them invalidated.
Spent(p) ==
    Revised(p) =>
        /\ invalidations \cap AuditsOf(p) # {}
        /\ \A s \in Session : tx[s].op = "write" /\ tx[s].about = p /\ tx[s].audits # {} =>
                tx[s].audits \cap invalidations # {}

Revisions == Chain /\ (\A p : p # 0 => Spent(p)) /\ RevisedOnce

\* What a package is a revision of is never rewritten.
LEMMA WroteKeeps ==
    ASSUME PackageTypes, NEW s \in Session, EndWrite(s), NEW n \in Nat, Wrote(s, n), NEW q \in 1..n
    PROVE  packages'[q].prior = packages[q].prior /\ packages'[q].audited = packages[q].audited
<1>1. CASE q # tx[s].about
  BY <1>1 DEF Wrote
<1>2. CASE q = tx[s].about
  <2>1. tx[s].op = "write" /\ tx[s].about # 0 /\ Placed(s)
    BY <1>2 DEF PackageTypes, EndWrite
  <2>2. tx[s].copy \in PackageRow /\ packages[q] \in PackageRow
    BY <2>1 DEF Placed, Wrote, Sized
  <2>3. PICK new : new = Superseded(tx[s].copy)
    OBVIOUS
  <2>4. new \in PackageRow /\ new.prior = tx[s].copy.prior /\ new.audited = tx[s].copy.audited
    BY <2>2, <2>3, SupersededTyped
  <2>5. packages'[q] = Update(packages[q], tx[s].copy, new)
    BY <1>2, <2>3 DEF Wrote
  <2>6. \A f \in RowFields : packages'[q][f] = IF new[f] = tx[s].copy[f] THEN packages[q][f] ELSE new[f]
    BY <2>2, <2>4, <2>5, UpdateTyped
  <2>7. QED
    BY <2>4, <2>6 DEF RowFields
<1>3. QED
  BY <1>1, <1>2

LEMMA AuditedKeeps ==
    ASSUME PackageTypes, NEW s \in Session, EndAudit(s), NEW n \in Nat, Audited(s, n), NEW q \in 1..n
    PROVE  packages'[q].prior = packages[q].prior /\ packages'[q].audited = packages[q].audited
<1>1. CASE q # tx[s].about
  BY <1>1 DEF Audited
<1>2. CASE q = tx[s].about
  <2>1. tx[s] \in JudgedAudit
    BY RequestKinds DEF PackageTypes, EndAudit
  <2>2. tx[s].copy \in PackageRow /\ packages[q] \in PackageRow /\ tx[s].gate \in {"pass", "blocked", "not_ready"}
    BY <2>1 DEF JudgedAudit, Audited, Sized
  <2>3. PICK new : new = Recalculated(tx[s].copy, tx[s].gate)
    OBVIOUS
  <2>4. new \in PackageRow /\ new.prior = tx[s].copy.prior /\ new.audited = tx[s].copy.audited
    BY <2>2, <2>3, RecalculatedTyped
  <2>5. packages'[q] = Update(packages[q], tx[s].copy, new)
    BY <1>2, <2>3 DEF Audited
  <2>6. \A f \in RowFields : packages'[q][f] = IF new[f] = tx[s].copy[f] THEN packages[q][f] ELSE new[f]
    BY <2>2, <2>4, <2>5, UpdateTyped
  <2>7. QED
    BY <2>4, <2>6 DEF RowFields
<1>3. QED
  BY <1>1, <1>2

\* A step that writes no package, and loads no audits but all there are.
LEMMA RevisionsLoad ==
    ASSUME PackageTypes, Revisions, UNCHANGED <<packages, audits, invalidations>>, NEW s \in Session,
           \A r \in Session : r # s => Stands(r, 0),
           tx'[s].op = "write" => tx'[s].audits = AuditsOf(tx'[s].about)
    PROVE  Revisions'
<1>1. \A r \in Session : r # s /\ tx'[r].op = "write" =>
        tx[r].op = "write" /\ tx'[r].about = tx[r].about /\ tx'[r].audits = tx[r].audits
  BY DEF Stands, Idle
<1>2. \A r \in Session : tx[r].op = "write" => tx[r].audits \subseteq AuditsOf(tx[r].about)
  BY DEF PackageTypes, Placed
<1>3. \A q : AuditsOf(q)' = AuditsOf(q)
  BY DEF AuditsOf
<1>4. Chain'
  BY <1>1, <1>2 DEF Revisions, Chain
<1>5. ASSUME NEW p, p # 0
      PROVE  Spent(p)'
  <2>1. Spent(p)
    BY <1>5 DEF Revisions
  <2>2. Revised(p)' <=> Revised(p)
    BY DEF Revised, Written
  <2>3. AuditsOf(p)' = AuditsOf(p)
    BY <1>3
  <2>4. QED
    BY <1>1, <2>1, <2>2, <2>3 DEF Spent
<1>6. RevisedOnce'
  BY DEF Revisions, RevisedOnce, Written
<1>7. QED
  BY <1>4, <1>5, <1>6 DEF Revisions

LEMMA RevisionsWrite ==
    ASSUME PackageTypes, Revisions, NEW s \in Session, EndWrite(s)
    PROVE  Revisions'
<1>1. /\ tx[s] # Idle /\ tx[s].op = "write" /\ Commit(s) /\ UNCHANGED audits
      /\ invalidations' = invalidations \cup tx[s].audits /\ tx[s].audits \cap invalidations = {}
  BY DEF EndWrite, Invalidable, Idle
<1>2. tx'[s] = Idle /\ \A r \in Session : r # s => Stands(r, tx[s].about)
  BY <1>1, CommitStands
<1>3. \A r \in Session : tx'[r].op = "write" =>
        r # s /\ tx[r].op = "write" /\ tx'[r].about = tx[r].about /\ tx'[r].audits = tx[r].audits
  BY <1>2 DEF Stands, Idle
<1>4. PICK n \in Nat : Wrote(s, n)
  BY Writing
<1>5. Written = 1..n /\ Written' = 1..n + 1
  BY <1>4 DEF Wrote, Sized
<1>6. PICK p0, A : p0 = tx[s].about /\ A = tx[s].audits
  OBVIOUS
<1>7. A \subseteq AuditsOf(p0)
  BY <1>1, <1>6 DEF PackageTypes, Placed
<1>8. packages'[n + 1].prior = p0 /\ packages'[n + 1].audited = (A # {})
  <2>1. tx[s] \in WriteRequest
    BY <1>1, RequestKinds DEF PackageTypes
  <2>2. QED
    BY <1>4, <1>6, <2>1, NewTyped DEF Wrote
<1>9. \A q \in 1..n : packages'[q].prior = packages[q].prior /\ packages'[q].audited = packages[q].audited
  BY <1>4, WroteKeeps
<1>10. \A q \in 1..n + 1 : q \in 1..n \/ q = n + 1
  OBVIOUS
<1>11. Chain'
  BY <1>3 DEF Revisions, Chain
<1>12. ASSUME NEW p, p # 0
       PROVE  Spent(p)'
  <2>1. SUFFICES ASSUME Revised(p)'
                 PROVE  /\ (invalidations \cap AuditsOf(p))' # {}
                        /\ \A r \in Session : tx'[r].op = "write" /\ tx'[r].about = p /\ tx'[r].audits # {} =>
                                tx'[r].audits \cap invalidations' # {}
    BY <2>1 DEF Spent
  <2>2. AuditsOf(p)' = AuditsOf(p)
    BY <1>1 DEF AuditsOf
  <2>3. Revised(p) \/ (p = p0 /\ A # {})
    BY <1>5, <1>8, <1>9, <1>10, <2>1 DEF Revised
  <2>4. CASE Revised(p)
    <3>1. /\ invalidations \cap AuditsOf(p) # {}
          /\ \A r \in Session : tx[r].op = "write" /\ tx[r].about = p /\ tx[r].audits # {} =>
                tx[r].audits \cap invalidations # {}
      BY <1>12, <2>4 DEF Revisions, Spent
    <3>2. QED
      BY <1>1, <1>3, <2>2, <3>1
  <2>5. CASE p = p0 /\ A # {}
    <3>1. A \subseteq invalidations' /\ invalidations' \cap AuditsOf(p) # {}
      BY <1>1, <1>6, <1>7, <2>5
    <3>2. ASSUME NEW r \in Session, tx'[r].op = "write", tx'[r].about = p, tx'[r].audits # {}
          PROVE  tx'[r].audits \cap invalidations' # {}
      <4>1. tx[r].op = "write" /\ tx[r].about = tx[s].about /\ tx'[r].audits = tx[r].audits
        BY <1>3, <1>6, <2>5, <3>2
      <4>2. tx[r].audits \subseteq A \/ A \subseteq tx[r].audits
        BY <1>1, <1>6, <4>1 DEF Revisions, Chain
      <4>3. QED
        BY <2>5, <3>1, <3>2, <4>1, <4>2
    <3>3. QED
      BY <2>2, <3>1, <3>2
  <2>6. QED
    BY <2>3, <2>4, <2>5
<1>13. RevisedOnce'
  <2>1. ASSUME NEW q \in 1..n, packages[q].prior = p0, packages[q].audited, A # {}, p0 # 0
        PROVE  FALSE
    <3>1. Revised(p0)
      BY <1>5, <2>1 DEF Revised
    <3>2. A \cap invalidations # {}
      BY <1>1, <1>6, <2>1, <3>1 DEF Revisions, Spent
    <3>3. QED
      BY <1>1, <1>6, <3>2
  <2>2. ASSUME NEW q \in 1..n + 1, NEW r \in 1..n + 1, packages'[q].prior = packages'[r].prior,
               packages'[q].audited, packages'[r].audited
        PROVE  q = r \/ packages'[q].prior = 0
    <3>1. CASE q \in 1..n /\ r \in 1..n
      BY <1>5, <1>9, <2>2, <3>1 DEF Revisions, RevisedOnce
    <3>2. CASE q \in 1..n /\ r = n + 1
      BY <1>8, <1>9, <2>1, <2>2, <3>2
    <3>3. CASE q = n + 1 /\ r \in 1..n
      BY <1>8, <1>9, <2>1, <2>2, <3>3
    <3>4. QED
      BY <1>10, <3>1, <3>2, <3>3
  <2>3. QED
    BY <1>5, <2>2 DEF RevisedOnce
<1>14. QED
  BY <1>11, <1>12, <1>13 DEF Revisions

LEMMA RevisionsAudit ==
    ASSUME PackageTypes, Revisions, NEW s \in Session, EndAudit(s)
    PROVE  Revisions'
<1>1. tx[s] # Idle /\ Commit(s) /\ audits' = audits \cup {tx[s].audit} /\ UNCHANGED invalidations
  BY DEF EndAudit, Idle
<1>2. tx'[s] = Idle /\ \A r \in Session : r # s => Stands(r, tx[s].about)
  BY <1>1, CommitStands
<1>3. \A r \in Session : tx'[r].op = "write" =>
        r # s /\ tx[r].op = "write" /\ tx'[r].about = tx[r].about /\ tx'[r].audits = tx[r].audits
  BY <1>2 DEF Stands, Idle
<1>4. PICK n \in Nat : Audited(s, n)
  BY Auditings
<1>5. Written = 1..n /\ Written' = 1..n
  BY <1>4 DEF Audited, Sized
<1>6. \A q \in 1..n : packages'[q].prior = packages[q].prior /\ packages'[q].audited = packages[q].audited
  BY <1>4, AuditedKeeps
<1>7. Chain'
  BY <1>3 DEF Revisions, Chain
<1>8. ASSUME NEW p, p # 0
      PROVE  Spent(p)'
  <2>1. Spent(p)
    BY <1>8 DEF Revisions
  <2>2. Revised(p)' <=> Revised(p)
    BY <1>5, <1>6 DEF Revised
  <2>3. AuditsOf(p) \subseteq AuditsOf(p)'
    BY <1>1 DEF AuditsOf
  <2>4. QED
    BY <1>1, <1>3, <2>1, <2>2, <2>3 DEF Spent
<1>9. RevisedOnce'
  BY <1>5, <1>6 DEF Revisions, RevisedOnce
<1>10. QED
  BY <1>7, <1>8, <1>9 DEF Revisions

LEMMA RevisionsStep ==
    ASSUME PackageTypes, Revisions, [Next]_vars
    PROVE  Revisions'
<1>1. ASSUME UNCHANGED <<packages, audits, invalidations, tx>>
      PROVE  Revisions'
  BY <1>1 DEF Revisions, Chain, Spent, Revised, RevisedOnce, Written, AuditsOf
<1>2. CASE UNCHANGED vars
  BY <1>1, <1>2 DEF vars, tables
<1>3. CASE RequestPackage
  BY <1>1, <1>3 DEF RequestPackage
<1>4. ASSUME NEW p \in Written, RequestProduction(p)
      PROVE  Revisions'
  BY <1>1, <1>4 DEF RequestProduction
<1>5. ASSUME NEW s \in Session, NEW t \in Asked, WriteBegins(s, t)
      PROVE  Revisions'
  <2>1. tx'[s] = t /\ (\A r \in Session : r # s => Stands(r, 0)) /\ UNCHANGED <<packages, audits, invalidations>>
    BY <1>5, SetStands DEF WriteBegins, Loads, tables
  <2>2. t.audits = AuditsOf(t.about)
    BY <1>5 DEF WriteBegins
  <2>3. QED
    BY <2>1, <2>2, RevisionsLoad
<1>6. ASSUME NEW s \in Session, NEW t \in Asked, AuditBegins(s, t)
      PROVE  Revisions'
  <2>1. tx'[s] = t /\ (\A r \in Session : r # s => Stands(r, 0)) /\ UNCHANGED <<packages, audits, invalidations>>
    BY <1>6, SetStands DEF AuditBegins, Loads, tables
  <2>2. t.op = "audit"
    BY <1>6 DEF AuditBegins, AuditRequest
  <2>3. tx'[s].op # "write"
    BY <2>1, <2>2
  <2>4. QED
    BY <2>1, <2>3, RevisionsLoad
<1>7. ASSUME NEW s \in Session, NEW t \in Asked, Judges(s, t)
      PROVE  Revisions'
  <2>1. tx'[s] = t /\ (\A r \in Session : r # s => Stands(r, 0)) /\ UNCHANGED <<packages, audits, invalidations>>
    BY <1>7, SetStands DEF Judges, Loads, tables
  <2>2. t.op = "judged"
    BY <1>7 DEF Judges, JudgedAudit
  <2>3. tx'[s].op # "write"
    BY <2>1, <2>2
  <2>4. QED
    BY <2>1, <2>3, RevisionsLoad
<1>8. ASSUME NEW s \in Session, RollBack(s)
      PROVE  Revisions'
  <2>1. tx'[s] = Idle /\ (\A r \in Session : r # s => Stands(r, 0)) /\ UNCHANGED <<packages, audits, invalidations>>
    BY <1>8, SetStands DEF RollBack, tables
  <2>2. tx'[s].op # "write"
    BY <2>1 DEF Idle
  <2>3. QED
    BY <2>1, <2>2, RevisionsLoad
<1>9. QED
  BY <1>2, <1>3, <1>4, <1>5, <1>6, <1>7, <1>8, RevisionsWrite, RevisionsAudit, PackageSteps

-----------------------------------------------------------------------------
(* The theorems.                                                           *)

PackageInv == PackageTypes /\ AuditOrder /\ PassesKept /\ Tallies /\ CopiesCurrent /\ RowsFollow /\ Revisions

LEMMA PackageInvStart == Init => PackageInv
<1> SUFFICES ASSUME Init PROVE PackageInv
  OBVIOUS
<1>1. Written = {} /\ audits = {} /\ jobs = {} /\ \A s \in Session : tx[s] = Idle
  BY DEF Init, Written
<1>2. AuditOrder
  BY <1>1 DEF AuditOrder, Fresh, Newest, Auditing, Idle
<1>3. PassesKept
  BY <1>1 DEF PassesKept, Idle
<1>4. Tallies
  BY <1>1 DEF Tallies
<1>5. CopiesCurrent
  BY <1>1 DEF CopiesCurrent, Current
<1>6. RowsFollow
  BY <1>1 DEF RowsFollow
<1>7. Revisions
  BY <1>1 DEF Revisions, Chain, Spent, Revised, RevisedOnce, Idle
<1>8. QED
  BY <1>2, <1>3, <1>4, <1>5, <1>6, <1>7, PackageTypesStart DEF PackageInv

LEMMA PackageInvStep == PackageInv /\ [Next]_vars => PackageInv'
  BY PackageTypesStep, OrderStep, PassesStep, TalliesStep, CopiesStep, FollowsStep, RevisionsStep DEF PackageInv

LEMMA PackageInvHolds == Spec => []PackageInv
  BY PackageInvStart, PackageInvStep, PTL DEF Spec

\* No table is ever in a state its columns could not hold, an audit invalidated without being
\* there, or production asked for a package nobody has written.
THEOREM PackageTypesHold == Spec => []TypeOK
<1>1. PackageInv => TypeOK
  BY DEF PackageInv, PackageTypes
<1>2. QED
  BY <1>1, PackageInvHolds, PTL

\* _recalculate_audit_outcome reads what is committed when it runs and writes what differs from
\* a copy loaded earlier; request_production and the Producer read the row alone.  Even so no
\* package is handed on that an auditor has never passed.
THEOREM PassesAreUnanimous == Spec => []PassIsUnanimous
<1>1. PackageInv => PassIsUnanimous
  BY PassShows DEF PackageInv
<1>2. QED
  BY <1>1, PackageInvHolds, PTL

\* The attributes of a package's row and of its claims agree with its audits, and with each
\* other, unless a request has committed over a write it had not seen.
THEOREM RowsFollowAudits == Spec => []RowFollowsAudits
<1>1. PackageInv => RowFollowsAudits
  BY FollowsShows DEF PackageInv
<1>2. QED
  BY <1>1, PackageInvHolds, PTL

\* The unique index on content_audit_invalidations lets one of the revisions that have found
\* audits of a package through, however they overlap and whatever audits come between.
THEOREM RevisionsAreSingle == Spec => []RevisedOnce
<1>1. PackageInv => RevisedOnce
  BY DEF PackageInv, Revisions
<1>2. QED
  BY <1>1, PackageInvHolds, PTL

=============================================================================
