------------------------------ MODULE LeaseProofs ------------------------------
(***************************************************************************)
(* Proofs about AssignmentLease and WorkerProtocol for every number of     *)
(* rows, workers, tokens and strays, and every value of the timeouts.      *)
(*                                                                         *)
(* Almost everything the lease server promises is a promise about ONE row, *)
(* so its inductive invariant is a predicate on rows, RowOK, plus three    *)
(* facts that relate rows to the registry and to the locks of a running    *)
(* tick.  From it follows that AssignmentLease implements StageTask.       *)
(*                                                                         *)
(* What the workers and the network do to the server is what               *)
(* AssignmentLease allows, so everything proved there holds of             *)
(* WorkerProtocol, and the executor of a row runs at most once.            *)
(***************************************************************************)
EXTENDS WorkerProtocol, FiniteSetTheorems, TLAPS

-----------------------------------------------------------------------------
(* The lease server.                                                       *)

\* What is true of every row by itself.
RowOK(r) ==
    /\ r.status = "absent" => r.attempt = 0 /\ r.starts = 0
    /\ r.starts <= r.attempt
    /\ r.status = "pending" => r.starts < r.attempt
    /\ r.attempt > MaxAttempts => r.starts <= 1
    /\ r.attempt > MaxAttempts /\ r.status = "pending" => r.starts = 0
    /\ r.reports = (IF r.status \in {"completed", "failed"} THEN 1 ELSE 0)
    /\ InFlight(r) \/ r.status = "completed" => r.owner \in Worker
    /\ r.status \in {"absent", "pending"} => r.owner = Nobody
    /\ InFlight(r) => r.attempt >= 1
    /\ InFlight(r) /\ r.left >= 0 => r.tenure + r.left <= MaxLeaseSeconds

RowsOK == \A a \in Assignment : RowOK(row[a])

\* What is true of the registry alone.
GoneIsIdle == \A w \in Worker : reg[w].gone => reg[w].status = "offline" /\ reg[w].load = 0

\* What an offline worker may hold.
LeftBehind(r) == Expired(r) \/ r.passed

IInv ==
    /\ TypeOK
    /\ RowsOK
    /\ LockedStaysExpired
    /\ NoLiveLeaseWithoutWorker
    /\ GoneIsIdle

-----------------------------------------------------------------------------
\* Lemmas on the operators that change one row.

\* A row that is marked neither as passed over nor as barred.
LEMMA RowRecord ==
    ASSUME NEW s \in RowStatus, NEW w \in Worker \cup {Nobody},
           NEW k \in 0..MaxNumber, NEW l \in -1..LeaseSeconds,
           NEW t \in 0..MaxLeaseSeconds, NEW n \in Nat, NEW m \in Nat
    PROVE  [status |-> s, owner |-> w, attempt |-> k, left |-> l, tenure |-> t,
            starts |-> n, reports |-> m, passed |-> FALSE, barred |-> FALSE] \in Row
BY DEF Row

\* recover_assignment leaves a row nobody owns, pending or failed.
LEMMA RecoveredRow ==
    ASSUME NEW r \in Row, RowOK(r), InFlight(r)
    PROVE  /\ Recovered(r) \in Row
           /\ RowOK(Recovered(r))
           /\ ~InFlight(Recovered(r))
           /\ Recovered(r).owner = Nobody
<1>. DEFINE s == Recovered(r)
<1>1. /\ r.attempt \in Nat /\ r.attempt <= MaxNumber /\ r.attempt >= 1
      /\ r.starts \in Nat /\ r.starts <= r.attempt
      /\ r.attempt > MaxAttempts => r.starts <= 1
      /\ r.reports = 0 /\ r.status \in {"dispatched", "acknowledged"}
  BY LeaseAssumption DEF Row, RowOK, InFlight, InFlightStatus
<1>2. /\ s.owner = Nobody /\ s.left = 0 /\ s.tenure = 0 /\ s.starts = r.starts
      /\ s = [status |-> s.status, owner |-> s.owner, attempt |-> s.attempt,
              left |-> s.left, tenure |-> s.tenure, starts |-> s.starts,
              reports |-> s.reports, passed |-> FALSE, barred |-> FALSE]
  BY DEF Recovered, Row
<1>3. CASE r.attempt + 1 > MaxAttempts
  <2>1. s.status = "failed" /\ s.attempt = r.attempt /\ s.reports = 1
    BY <1>1, <1>3 DEF Recovered, Row
  <2>2. s \in Row
    <3>1. /\ s.status \in RowStatus /\ s.owner \in Worker \cup {Nobody}
          /\ s.attempt \in 0..MaxNumber /\ s.left \in -1..LeaseSeconds
          /\ s.tenure \in 0..MaxLeaseSeconds /\ s.starts \in Nat /\ s.reports \in Nat
      BY <1>1, <1>2, <2>1, LeaseAssumption DEF RowStatus
    <3>2. [status |-> s.status, owner |-> s.owner, attempt |-> s.attempt,
           left |-> s.left, tenure |-> s.tenure, starts |-> s.starts,
           reports |-> s.reports, passed |-> FALSE, barred |-> FALSE] \in Row
      BY <3>1, RowRecord
    <3>. QED BY <1>2, <3>2
  <2>. QED BY <1>1, <1>2, <2>1, <2>2 DEF RowOK, InFlight, InFlightStatus
<1>4. CASE ~(r.attempt + 1 > MaxAttempts)
  <2>1. s.status = "pending" /\ s.attempt = r.attempt + 1 /\ s.reports = 0
    BY <1>1, <1>4 DEF Recovered, Row
  <2>2. s \in Row
    <3>1. /\ s.status \in RowStatus /\ s.owner \in Worker \cup {Nobody}
          /\ s.attempt \in 0..MaxNumber /\ s.left \in -1..LeaseSeconds
          /\ s.tenure \in 0..MaxLeaseSeconds /\ s.starts \in Nat /\ s.reports \in Nat
      BY <1>1, <1>2, <1>4, <2>1, LeaseAssumption DEF RowStatus
    <3>2. [status |-> s.status, owner |-> s.owner, attempt |-> s.attempt,
           left |-> s.left, tenure |-> s.tenure, starts |-> s.starts,
           reports |-> s.reports, passed |-> FALSE, barred |-> FALSE] \in Row
      BY <3>1, RowRecord
    <3>. QED BY <1>2, <3>2
  <2>. QED BY <1>1, <1>2, <1>4, <2>1, <2>2, LeaseAssumption DEF RowOK, InFlight, InFlightStatus
<1>. QED BY <1>3, <1>4

\* A row is handed over under a fresh start that its attempt still allows.
LEMMA GrantedRow ==
    ASSUME NEW r \in Row, NEW w \in Worker, r.attempt \in 1..MaxNumber,
           r.starts < r.attempt, r.attempt > MaxAttempts => r.starts = 0, r.reports = 0
    PROVE  /\ Granted(r, w) \in Row
           /\ RowOK(Granted(r, w))
           /\ InFlight(Granted(r, w))
           /\ Granted(r, w).owner = w
BY LeaseAssumption DEF Row, RowOK, Granted, InFlight, InFlightStatus, RowStatus

\* A row that is passed over stays what it was, and is marked unless expired.
LEMMA PassedOverRow ==
    ASSUME NEW r \in Row, RowOK(r), InFlight(r)
    PROVE  /\ PassedOver(r) \in Row
           /\ RowOK(PassedOver(r))
           /\ PassedOver(r).owner = r.owner
           /\ InFlight(PassedOver(r))
           /\ LeftBehind(PassedOver(r))
<1>1. /\ r.left \in Int
      /\ PassedOver(r) = [status |-> r.status, owner |-> r.owner, attempt |-> r.attempt,
                          left |-> r.left, tenure |-> r.tenure, starts |-> r.starts,
                          reports |-> r.reports, passed |-> r.left >= 0,
                          barred |-> r.barred]
  BY LeaseAssumption DEF PassedOver, Row
<1>2. PassedOver(r) \in Row
  BY <1>1, LeaseAssumption DEF Row
<1>3. RowOK(PassedOver(r))
  BY <1>1 DEF RowOK, InFlight
<1>4. InFlight(PassedOver(r)) /\ PassedOver(r).owner = r.owner
  BY <1>1 DEF InFlight
<1>5. CASE r.left >= 0
  <2>1. PassedOver(r).passed = (r.left >= 0)
    BY <1>1
  <2>. QED BY <1>2, <1>3, <1>4, <1>5, <2>1 DEF LeftBehind
<1>6. CASE r.left < 0
  <2>1. PassedOver(r).left = r.left
    BY <1>1
  <2>. QED BY <1>2, <1>3, <1>4, <1>6, <2>1 DEF LeftBehind, Expired
<1>. QED BY <1>1, <1>5, <1>6

\* Reaping the workers W and the locked rows R keeps every row a good row, and
\* leaves the workers W nothing but expired rows and rows passed over.
LEMMA ReapRows ==
    ASSUME TypeOK, RowsOK, LockedStaysExpired, NEW W \in SUBSET Worker,
           NEW R \in SUBSET locked, Reap(W, R)
    PROVE  /\ row' \in [Assignment -> Row]
           /\ RowsOK'
           /\ \A a \in R : ~InFlight(row'[a])
           /\ \A a \in locked \ R : row'[a] = row[a]
           /\ \A a \in Assignment : InFlight(row'[a]) =>
                 /\ InFlight(row[a]) /\ row'[a].owner = row[a].owner
                 /\ LeftBehind(row[a]) \/ row[a].owner \in W => LeftBehind(row'[a])
<1>1. PICK P \in SUBSET Disputable(W) : Recover(R \cup (Held(W) \ P), P)
  BY Zenon DEF Reap
<1>. DEFINE H == Held(W)
            S == R \cup (H \ P)
<1>2. /\ \A a \in H : a \in Assignment /\ a \notin locked /\ InFlight(row[a])
      /\ \A a \in Assignment : InFlight(row[a]) /\ row[a].owner \in W /\ a \notin locked => a \in H
      /\ P \subseteq H
  BY DEF Held, Reapable, Holdings, Disputable
<1>3. \A a \in R : a \in Assignment /\ InFlight(row[a])
  BY DEF TypeOK, LockedStaysExpired, Expired
<1>4. row' = [a \in Assignment |->
                 IF a \in S THEN Recovered(row[a])
                 ELSE IF a \in P THEN PassedOver(row[a]) ELSE row[a]]
  BY <1>1 DEF Recover
<1>. HIDE DEF H
<1>5. ASSUME NEW a \in S
      PROVE  row'[a] \in Row /\ RowOK(row'[a]) /\ ~InFlight(row'[a])
  <2>1. a \in Assignment /\ InFlight(row[a])
    BY <1>1, <1>2, <1>3
  <2>2. row'[a] = Recovered(row[a]) /\ row[a] \in Row /\ RowOK(row[a])
    BY <1>4, <2>1 DEF TypeOK, RowsOK
  <2>. QED BY <2>1, <2>2, RecoveredRow
<1>6. ASSUME NEW a \in P
      PROVE  /\ row'[a] \in Row /\ RowOK(row'[a]) /\ InFlight(row[a])
             /\ row'[a].owner = row[a].owner /\ LeftBehind(row'[a])
  <2>1. a \in Assignment /\ InFlight(row[a]) /\ a \notin S
    BY <1>1, <1>2
  <2>2. row'[a] = PassedOver(row[a]) /\ row[a] \in Row /\ RowOK(row[a])
    BY <1>4, <2>1 DEF TypeOK, RowsOK
  <2>. QED BY <2>1, <2>2, PassedOverRow
<1>7. \A a \in Assignment : a \notin S /\ a \notin P => row'[a] = row[a]
  BY <1>4
<1>8. \A a \in Assignment : row'[a] \in Row /\ RowOK(row'[a])
  BY <1>5, <1>6, <1>7 DEF TypeOK, RowsOK
<1>9. row' \in [Assignment -> Row] /\ RowsOK'
  BY <1>4, <1>8 DEF RowsOK
<1>10. \A a \in locked \ R : row'[a] = row[a]
  BY <1>1, <1>2, <1>7 DEF TypeOK
<1>11. ASSUME NEW a \in Assignment, InFlight(row'[a])
       PROVE  /\ InFlight(row[a]) /\ row'[a].owner = row[a].owner
              /\ LeftBehind(row[a]) \/ row[a].owner \in W => LeftBehind(row'[a])
  <2>1. a \notin S
    BY <1>5, <1>11
  <2>2. CASE a \in P
    BY <1>6, <2>2
  <2>3. CASE a \notin P
    <3>1. row'[a] = row[a]
      BY <1>7, <2>1, <2>3
    <3>2. CASE row[a].owner \in W
      <4>1. a \in locked
        BY <1>1, <1>2, <1>11, <2>1, <2>3, <3>1, <3>2
      <4>. QED BY <1>11, <3>1, <4>1 DEF LockedStaysExpired, LeftBehind
    <3>. QED BY <1>11, <3>1, <3>2
  <2>. QED BY <2>2, <2>3
<1>. QED BY <1>1, <1>5, <1>9, <1>10, <1>11

\* Slots given back: the registry row stays a registry row, a worker that was
\* not offline does not become so, and no load appears.
LEMMA SlotsReleasedReg ==
    ASSUME NEW g \in Registration, NEW n \in Nat
    PROVE  /\ SlotsReleased(g, n) \in Registration
           /\ SlotsReleased(g, n).gone = g.gone
           /\ SlotsReleased(g, n).load <= g.load
           /\ (SlotsReleased(g, n).status = "offline") <=> (g.status = "offline")
BY LeaseAssumption DEF Registration, SlotsReleased, WithLoad, WorkerStatus

\* Taking the last slot makes a worker busy, never offline.
LEMMA SlotTakenReg ==
    ASSUME NEW g \in Registration, g.load < MaxConcurrency, g.status # "offline", ~g.gone
    PROVE  /\ SlotTaken(g) \in Registration
           /\ SlotTaken(g).gone = g.gone
           /\ SlotTaken(g).status # "offline"
BY LeaseAssumption DEF Registration, SlotTaken, WithLoad, WorkerStatus

\* A row that is overwritten with a good row leaves every row good.
LEMMA OneRow ==
    ASSUME TypeOK, RowsOK, NEW a \in Assignment, NEW r \in Row, RowOK(r),
           row' = [row EXCEPT ![a] = r]
    PROVE  /\ row' \in [Assignment -> Row]
           /\ \A b \in Assignment : RowOK(row'[b])
           /\ row'[a] = r
           /\ \A b \in Assignment : b # a => row'[b] = row[b]
<1>1. row'[a] = r /\ \A b \in Assignment : b # a => row'[b] = row[b]
  BY DEF TypeOK
<1>2. \A b \in Assignment : RowOK(row'[b])
  BY <1>1 DEF RowsOK
<1>. QED BY <1>1, <1>2 DEF TypeOK

\* A registry row that is overwritten leaves the others alone.
LEMMA OneReg ==
    ASSUME TypeOK, NEW w \in Worker, NEW g \in Registration, reg' = [reg EXCEPT ![w] = g]
    PROVE  /\ reg' \in [Worker -> Registration]
           /\ reg'[w] = g
           /\ \A v \in Worker : v # w => reg'[v] = reg[v]
BY DEF TypeOK

-----------------------------------------------------------------------------
\* The invariant holds initially.
LEMMA InitInv == Init => IInv
BY LeaseAssumption
   DEF Init, IInv, TypeOK, RowsOK, RowOK, NoRow, Provisioned, Row, Registration, RowStatus,
       InFlightStatus, WorkerStatus, InFlight, LockedStaysExpired, NoLiveLeaseWithoutWorker,
       GoneIsIdle

\* The scheduler's two ways of creating a row.
LEMMA EnqueueInv ==
    ASSUME IInv, NEW a \in Assignment, NEW k \in 1..MaxNumber, Enqueue(a, k)
    PROVE  IInv'
<1>1. ~InFlight(row[a])
  BY DEF Enqueue, InFlight, InFlightStatus
<1>2. Created(k) \in Row /\ RowOK(Created(k)) /\ ~InFlight(Created(k))
  BY LeaseAssumption DEF Created, Row, RowOK, RowStatus, InFlight, InFlightStatus
<1>3. /\ row' \in [Assignment -> Row] /\ RowsOK' /\ row'[a] = Created(k)
      /\ \A b \in Assignment : b # a => row'[b] = row[b]
  BY <1>2, OneRow DEF IInv, RowsOK, Enqueue
<1>4. reg' = reg /\ locked' = locked /\ effects' = effects
  BY DEF Enqueue
<1>5. TypeOK' /\ GoneIsIdle'
  BY <1>3, <1>4 DEF IInv, TypeOK, GoneIsIdle
<1>6. LockedStaysExpired'
  BY <1>1, <1>3, <1>4 DEF IInv, TypeOK, LockedStaysExpired, Expired
<1>7. NoLiveLeaseWithoutWorker'
  BY <1>2, <1>3, <1>4 DEF IInv, NoLiveLeaseWithoutWorker, Expired
<1>. QED BY <1>3, <1>5, <1>6, <1>7 DEF IInv

\* Handing row a, with the good new contents r, to a worker that is neither
\* offline nor gone and has room.
LEMMA HandOverInv ==
    ASSUME IInv, NEW a \in Assignment, NEW w \in Worker, NEW r \in Row,
           RowOK(r), InFlight(r), r.owner = w,
           ~InFlight(row[a]),
           reg[w].load < MaxConcurrency, reg[w].status # "offline", ~reg[w].gone,
           row' = [row EXCEPT ![a] = r],
           reg' = [reg EXCEPT ![w] = SlotTaken(reg[w])],
           UNCHANGED <<effects, locked>>
    PROVE  IInv'
<1>1. /\ row' \in [Assignment -> Row] /\ RowsOK' /\ row'[a] = r
      /\ \A b \in Assignment : b # a => row'[b] = row[b]
  BY OneRow DEF IInv, RowsOK
<1>2. reg[w] \in Registration
  BY DEF IInv, TypeOK
<1>3. /\ SlotTaken(reg[w]) \in Registration
      /\ SlotTaken(reg[w]).gone = reg[w].gone
      /\ SlotTaken(reg[w]).status # "offline"
  BY <1>2, SlotTakenReg
<1>4. /\ reg' \in [Worker -> Registration] /\ reg'[w] = SlotTaken(reg[w])
      /\ \A v \in Worker : v # w => reg'[v] = reg[v]
  BY <1>3, OneReg DEF IInv
<1>5. TypeOK'
  BY <1>1, <1>4 DEF IInv, TypeOK
<1>6. GoneIsIdle'
  BY <1>3, <1>4 DEF IInv, GoneIsIdle
<1>7. LockedStaysExpired'
  BY <1>1 DEF IInv, TypeOK, LockedStaysExpired, Expired
<1>8. NoLiveLeaseWithoutWorker'
  BY <1>1, <1>3, <1>4 DEF IInv, NoLiveLeaseWithoutWorker, Expired
<1>. QED BY <1>1, <1>5, <1>6, <1>7, <1>8 DEF IInv

\* dispatch_stage hands a fresh row to a worker that select_worker accepts.
LEMMA DispatchInv ==
    ASSUME IInv, NEW a \in Assignment, NEW k \in 1..MaxNumber, NEW w \in Worker,
           Dispatch(a, k, w)
    PROVE  IInv'
<1>1. ~InFlight(row[a])
  BY DEF Dispatch, InFlight, InFlightStatus
<1>2. /\ Created(k) \in Row /\ Created(k).attempt \in 1..MaxNumber
      /\ Created(k).starts < Created(k).attempt /\ Created(k).starts = 0
      /\ Created(k).reports = 0
  BY LeaseAssumption DEF Created, Row, RowStatus
<1>3. /\ Granted(Created(k), w) \in Row /\ RowOK(Granted(Created(k), w))
      /\ InFlight(Granted(Created(k), w)) /\ Granted(Created(k), w).owner = w
  BY <1>2, GrantedRow
<1>. QED BY <1>1, <1>3, HandOverInv DEF Dispatch, Selectable

\* claim_assignment hands a pending row to an online worker with room.
LEMMA ClaimInv ==
    ASSUME IInv, NEW w \in Worker, NEW a \in Assignment, Claim(w, a)
    PROVE  IInv'
<1>1. row[a] \in Row /\ RowOK(row[a]) /\ row[a].status = "pending" /\ ~InFlight(row[a])
  BY DEF IInv, TypeOK, RowsOK, Claim, InFlight, InFlightStatus
<1>2. /\ row[a].attempt \in 1..MaxNumber /\ row[a].starts < row[a].attempt
      /\ (row[a].attempt > MaxAttempts => row[a].starts = 0)
      /\ row[a].reports = 0
  BY <1>1, LeaseAssumption DEF Row, RowOK
<1>3. /\ Granted(row[a], w) \in Row /\ RowOK(Granted(row[a], w))
      /\ InFlight(Granted(row[a], w)) /\ Granted(row[a], w).owner = w
  BY <1>1, <1>2, GrantedRow
<1>. QED BY <1>1, <1>3, HandOverInv DEF Claim, Eligible

\* A row of the same run and stage takes or gives up the key of the next
\* attempt: nothing about the row itself changes.
LEMMA SiblingInv ==
    ASSUME IInv, NEW a \in Assignment, Sibling(a)
    PROVE  IInv'
<1>. DEFINE r == [row[a] EXCEPT !.barred = ~@]
<1>1. row[a] \in Row /\ RowOK(row[a]) /\ InFlight(row[a])
  BY DEF IInv, TypeOK, RowsOK, Sibling
<1>2. r = [status |-> row[a].status, owner |-> row[a].owner, attempt |-> row[a].attempt,
           left |-> row[a].left, tenure |-> row[a].tenure, starts |-> row[a].starts,
           reports |-> row[a].reports, passed |-> row[a].passed, barred |-> ~row[a].barred]
  BY <1>1 DEF Row
<1>3. /\ r \in Row /\ RowOK(r) /\ InFlight(r) /\ r.owner = row[a].owner
      /\ Expired(r) = Expired(row[a]) /\ r.passed = row[a].passed
  BY <1>1, <1>2 DEF Row, RowOK, InFlight, Expired
<1>4. row' = [row EXCEPT ![a] = r] /\ UNCHANGED <<reg, effects, locked>>
  BY DEF Sibling
<1>. HIDE DEF r
<1>5. /\ row' \in [Assignment -> Row] /\ RowsOK' /\ row'[a] = r
      /\ \A b \in Assignment : b # a => row'[b] = row[b]
  BY <1>3, <1>4, OneRow DEF IInv, RowsOK
<1>6. TypeOK' /\ GoneIsIdle'
  BY <1>4, <1>5 DEF IInv, TypeOK, GoneIsIdle
<1>7. LockedStaysExpired'
  BY <1>3, <1>4, <1>5 DEF IInv, TypeOK, LockedStaysExpired
<1>8. NoLiveLeaseWithoutWorker'
  BY <1>1, <1>3, <1>4, <1>5 DEF IInv, NoLiveLeaseWithoutWorker
<1>. QED BY <1>5, <1>6, <1>7, <1>8 DEF IInv

-----------------------------------------------------------------------------
\* A worker's requests about a row it holds under a live lease.  All three
\* replace the row by a good one that is owned by w or not in flight.
LEMMA HolderInv ==
    ASSUME IInv, NEW w \in Worker, NEW a \in Assignment, NEW r \in Row, NEW g \in Registration,
           RowOK(r), r.owner = w, InFlight(r) => r.passed = row[a].passed,
           row[a].owner = w, InFlight(row[a]), row[a].left >= 0,
           a \notin locked, ~reg[w].gone,
           ~g.gone, g.status = "offline" <=> reg[w].status = "offline",
           row' = [row EXCEPT ![a] = r],
           reg' = [reg EXCEPT ![w] = g],
           effects' \in SUBSET Assignment, locked' = locked
    PROVE  IInv'
<1>1. /\ row' \in [Assignment -> Row] /\ RowsOK' /\ row'[a] = r
      /\ \A b \in Assignment : b # a => row'[b] = row[b]
  BY OneRow DEF IInv, RowsOK
<1>2. /\ reg' \in [Worker -> Registration] /\ reg'[w] = g
      /\ \A v \in Worker : v # w => reg'[v] = reg[v]
  BY OneReg DEF IInv
<1>3. reg[w].status = "offline" => row[a].passed
  BY LeaseAssumption DEF IInv, TypeOK, Row, NoLiveLeaseWithoutWorker, Expired
<1>4. TypeOK'
  BY <1>1, <1>2 DEF IInv, TypeOK
<1>5. GoneIsIdle'
  <2>. SUFFICES ASSUME NEW v \in Worker, reg'[v].gone
                PROVE  reg'[v].status = "offline" /\ reg'[v].load = 0
    BY DEF GoneIsIdle
  <2>1. v # w
    BY <1>2
  <2>. QED BY <1>2, <2>1 DEF IInv, GoneIsIdle
<1>6. LockedStaysExpired'
  BY <1>1 DEF IInv, TypeOK, LockedStaysExpired, Expired
<1>7. NoLiveLeaseWithoutWorker'
  BY <1>1, <1>2, <1>3 DEF IInv, NoLiveLeaseWithoutWorker, Expired
<1>. QED BY <1>1, <1>4, <1>5, <1>6, <1>7 DEF IInv

\* Extending a live lease below the tenure bound gives a good row.
LEMMA ExtendedRow ==
    ASSUME NEW r \in Row, RowOK(r), NEW w \in Worker, Extendable(r, w),
           NEW status \in InFlightStatus
    PROVE  /\ Extended(r, status) \in Row /\ RowOK(Extended(r, status))
           /\ Extended(r, status).owner = w /\ Extended(r, status).passed = r.passed
BY LeaseAssumption
   DEF Row, RowOK, Extendable, Extended, RowStatus, InFlight, InFlightStatus

\* acknowledge keeps the invariant.
LEMMA AckInv ==
    ASSUME IInv, NEW w \in Worker, NEW a \in Assignment, Ack(w, a)
    PROVE  IInv'
<1>. DEFINE r == Extended(row[a], "acknowledged")
<1>1. /\ row[a] \in Row /\ RowOK(row[a]) /\ Extendable(row[a], w)
      /\ reg[w] \in Registration /\ "acknowledged" \in InFlightStatus
  BY DEF IInv, TypeOK, RowsOK, Ack, InFlightStatus
<1>2. r \in Row /\ RowOK(r) /\ r.owner = w /\ r.passed = row[a].passed
  BY <1>1, ExtendedRow
<1>3. reg' = [reg EXCEPT ![w] = reg[w]]
  BY DEF Ack, IInv, TypeOK
<1>4. row[a].owner = w /\ InFlight(row[a]) /\ row[a].left >= 0
  BY <1>1 DEF Extendable
<1>5. effects' \in SUBSET Assignment
  BY DEF Ack, IInv, TypeOK
<1>. QED BY <1>1, <1>2, <1>3, <1>4, <1>5, HolderInv DEF Ack

\* renew_lease keeps the invariant.
LEMMA RenewInv ==
    ASSUME IInv, NEW w \in Worker, NEW a \in Assignment, Renew(w, a)
    PROVE  IInv'
<1>. DEFINE r == Extended(row[a], row[a].status)
<1>1. /\ row[a] \in Row /\ RowOK(row[a]) /\ Extendable(row[a], w)
      /\ reg[w] \in Registration /\ row[a].status \in InFlightStatus
  BY DEF IInv, TypeOK, RowsOK, Renew, Extendable, InFlight
<1>2. r \in Row /\ RowOK(r) /\ r.owner = w /\ r.passed = row[a].passed
  BY <1>1, ExtendedRow
<1>3. reg' = [reg EXCEPT ![w] = reg[w]]
  BY DEF Renew, IInv, TypeOK
<1>4. row[a].owner = w /\ InFlight(row[a]) /\ row[a].left >= 0
  BY <1>1 DEF Extendable
<1>5. effects' \in SUBSET Assignment
  BY DEF Renew, IInv, TypeOK
<1>. QED BY <1>1, <1>2, <1>3, <1>4, <1>5, HolderInv DEF Renew

\* submit_result ends the row and gives its slot back.
LEMMA SubmitInv ==
    ASSUME IInv, NEW w \in Worker, NEW a \in Assignment, NEW s \in BOOLEAN, Submit(w, a, s)
    PROVE  IInv'
<1>. DEFINE r == Delivered(row[a], s)
            n == IF reg[w].load > 0 THEN 1 ELSE 0
<1>1. /\ row[a] \in Row /\ RowOK(row[a]) /\ reg[w] \in Registration
      /\ row[a].owner = w /\ InFlight(row[a]) /\ row[a].left >= 0
  BY DEF IInv, TypeOK, RowsOK, Submit, Accepts
<1>2. r \in Row /\ RowOK(r) /\ r.owner = w /\ ~InFlight(r)
  BY <1>1, LeaseAssumption DEF Row, RowOK, Delivered, RowStatus, InFlight, InFlightStatus
<1>3. n \in Nat
  OBVIOUS
<1>4. /\ SlotsReleased(reg[w], n) \in Registration
      /\ SlotsReleased(reg[w], n).gone = reg[w].gone
      /\ SlotsReleased(reg[w], n).status = "offline" <=> reg[w].status = "offline"
  BY <1>1, <1>3, SlotsReleasedReg
<1>5. effects' \in SUBSET Assignment
  BY DEF Submit, IInv, TypeOK
<1>. QED BY <1>1, <1>2, <1>4, <1>5, HolderInv DEF Submit

-----------------------------------------------------------------------------
\* The handlers that recover a worker's holdings: the rows a tick has locked
\* stay behind, and they are expired; so do the rows passed over.
LEMMA ReapInv ==
    ASSUME IInv, NEW w \in Worker, NEW g \in Registration,
           g.gone => g.status = "offline" /\ g.load = 0,
           Reap({w}, {}),
           reg' = [reg EXCEPT ![w] = g],
           UNCHANGED <<effects, locked>>
    PROVE  IInv'
<1>1. {w} \in SUBSET Worker /\ {} \in SUBSET locked /\ locked \subseteq Assignment
  BY DEF IInv, TypeOK
<1>2. /\ row' \in [Assignment -> Row] /\ RowsOK'
      /\ \A a \in locked : row'[a] = row[a]
      /\ \A a \in Assignment : InFlight(row'[a]) =>
            /\ InFlight(row[a]) /\ row'[a].owner = row[a].owner
            /\ LeftBehind(row[a]) \/ row[a].owner \in {w} => LeftBehind(row'[a])
  <2>. DEFINE W == {w}
              R == {}
  <2>1. TypeOK /\ RowsOK /\ LockedStaysExpired /\ Reap(W, R)
    BY DEF IInv
  <2>2. W \in SUBSET Worker /\ R \in SUBSET locked
    BY <1>1
  <2>3. locked \ R = locked
    OBVIOUS
  <2>. HIDE DEF W, R
  <2>4. /\ row' \in [Assignment -> Row] /\ RowsOK'
        /\ \A a \in locked \ R : row'[a] = row[a]
        /\ \A a \in Assignment : InFlight(row'[a]) =>
              /\ InFlight(row[a]) /\ row'[a].owner = row[a].owner
              /\ LeftBehind(row[a]) \/ row[a].owner \in W => LeftBehind(row'[a])
    BY <2>1, <2>2, ReapRows, Zenon
  <2>. QED BY <2>3, <2>4, Zenon DEF W
<1>3. /\ reg' \in [Worker -> Registration] /\ reg'[w] = g
      /\ \A v \in Worker : v # w => reg'[v] = reg[v]
  BY OneReg DEF IInv
<1>4. TypeOK'
  BY <1>2, <1>3 DEF IInv, TypeOK
<1>5. GoneIsIdle'
  <2>. SUFFICES ASSUME NEW v \in Worker, reg'[v].gone
                PROVE  reg'[v].status = "offline" /\ reg'[v].load = 0
    BY DEF GoneIsIdle
  <2>. QED BY <1>3 DEF IInv, GoneIsIdle
<1>6. LockedStaysExpired'
  BY <1>2 DEF IInv, TypeOK, LockedStaysExpired, Expired
<1>7. NoLiveLeaseWithoutWorker'
  <2>. SUFFICES ASSUME NEW a \in Assignment, NEW v \in Worker,
                       InFlight(row'[a]), row'[a].owner = v,
                       reg'[v].status = "offline" \/ reg'[v].gone
                PROVE  LeftBehind(row'[a])
    BY DEF NoLiveLeaseWithoutWorker, LeftBehind, Expired, InFlight
  <2>1. CASE v = w
    BY <1>2, <2>1
  <2>2. CASE v # w
    <3>1. LeftBehind(row[a])
      BY <1>2, <1>3, <2>2 DEF IInv, NoLiveLeaseWithoutWorker, LeftBehind
    <3>. QED BY <1>2, <3>1
  <2>. QED BY <2>1, <2>2
<1>. QED BY <1>2, <1>4, <1>5, <1>6, <1>7 DEF IInv

\* Registering again abandons what the worker held before its restart.
LEMMA RegisterInv ==
    ASSUME IInv, NEW w \in Worker, Register(w)
    PROVE  IInv'
<1>. DEFINE g == [status |-> "online", load |-> 0, drain |-> reg[w].drain,
                  gone |-> FALSE, age |-> 0]
<1>1. g \in Registration /\ ~g.gone
  BY LeaseAssumption DEF IInv, TypeOK, Registration, WorkerStatus
<1>. QED BY <1>1, ReapInv DEF Register

\* Deregistering abandons everything the worker holds.
LEMMA DeregisterInv ==
    ASSUME IInv, NEW w \in Worker, Deregister(w)
    PROVE  IInv'
<1>. DEFINE g == [status |-> "offline", load |-> 0, drain |-> reg[w].drain,
                  gone |-> TRUE, age |-> reg[w].age]
<1>1. g \in Registration /\ g.status = "offline" /\ g.load = 0
  BY LeaseAssumption DEF IInv, TypeOK, Registration, WorkerStatus
<1>. QED BY <1>1, ReapInv DEF Deregister

\* Revoking the credentials takes an active worker offline; a deregistered one
\* is offline already.
LEMMA RevokeInv ==
    ASSUME IInv, NEW w \in Worker, Revoke(w)
    PROVE  IInv'
<1>1. CASE reg[w].gone
  <2>1. /\ reg' = [reg EXCEPT ![w] = reg[w]] /\ reg[w] \in Registration
        /\ reg[w].status = "offline" /\ reg[w].load = 0
    BY <1>1 DEF Revoke, IInv, TypeOK, GoneIsIdle
  <2>. QED BY <2>1, ReapInv DEF Revoke
<1>2. CASE ~reg[w].gone
  <2>. DEFINE g == WithLoad(reg[w], "offline", 0)
  <2>1. g \in Registration /\ g.status = "offline" /\ g.load = 0
    BY LeaseAssumption DEF IInv, TypeOK, Registration, WorkerStatus, WithLoad
  <2>2. reg' = [reg EXCEPT ![w] = g]
    BY <1>2 DEF Revoke
  <2>. QED BY <2>1, <2>2, ReapInv DEF Revoke
<1>. QED BY <1>1, <1>2

-----------------------------------------------------------------------------
\* The handlers that change the registry only, without turning a worker
\* offline or deregistering it.
LEMMA RegistryInv ==
    ASSUME IInv, NEW w \in Worker, NEW g \in Registration,
           ~reg[w].gone => ~g.gone /\ (g.status = "offline" => reg[w].status = "offline"),
           g.gone => g.status = "offline" /\ g.load = 0,
           reg' = [reg EXCEPT ![w] = g],
           UNCHANGED <<row, effects, locked>>
    PROVE  IInv'
<1>1. /\ reg' \in [Worker -> Registration] /\ reg'[w] = g
      /\ \A v \in Worker : v # w => reg'[v] = reg[v]
  BY OneReg DEF IInv
<1>2. TypeOK' /\ RowsOK' /\ LockedStaysExpired'
  BY <1>1 DEF IInv, TypeOK, RowsOK, RowOK, LockedStaysExpired, Expired, InFlight
<1>3. GoneIsIdle'
  <2>. SUFFICES ASSUME NEW v \in Worker, reg'[v].gone
                PROVE  reg'[v].status = "offline" /\ reg'[v].load = 0
    BY DEF GoneIsIdle
  <2>1. CASE v = w
    BY <1>1, <2>1
  <2>2. CASE v # w
    BY <1>1, <2>2 DEF IInv, GoneIsIdle
  <2>. QED BY <2>1, <2>2
<1>4. NoLiveLeaseWithoutWorker'
  <2>. SUFFICES ASSUME NEW a \in Assignment, NEW v \in Worker,
                       InFlight(row[a]), row[a].owner = v,
                       reg'[v].status = "offline" \/ reg'[v].gone
                PROVE  LeftBehind(row[a])
    BY DEF NoLiveLeaseWithoutWorker, LeftBehind, Expired, InFlight
  <2>1. CASE v = w
    <3>1. reg[w].status = "offline" \/ reg[w].gone
      BY <1>1, <2>1
    <3>. QED BY <2>1, <3>1 DEF IInv, NoLiveLeaseWithoutWorker, LeftBehind
  <2>2. CASE v # w
    BY <1>1, <2>2 DEF IInv, NoLiveLeaseWithoutWorker, LeftBehind
  <2>. QED BY <2>1, <2>2
<1>. QED BY <1>2, <1>3, <1>4 DEF IInv

\* A heartbeat never says offline, and is refused to a deregistered worker.
LEMMA HeartbeatInv ==
    ASSUME IInv, NEW w \in Worker, NEW status \in WorkerStatus \ {"offline"},
           NEW load \in 0..MaxConcurrency, Heartbeat(w, status, load)
    PROVE  IInv'
<1>. DEFINE g == [status |-> status, load |-> load, drain |-> reg[w].drain,
                  gone |-> FALSE, age |-> 0]
<1>1. g \in Registration /\ ~g.gone /\ g.status # "offline"
  BY LeaseAssumption DEF IInv, TypeOK, Registration, WorkerStatus
<1>. QED BY <1>1, RegistryInv DEF Heartbeat

\* The drain flag says nothing about rows.
LEMMA SetDrainInv ==
    ASSUME IInv, NEW w \in Worker, NEW drain \in BOOLEAN, SetDrain(w, drain)
    PROVE  IInv'
<1>. DEFINE g == [reg[w] EXCEPT !.drain = drain]
<1>1. reg[w] \in Registration
  BY DEF IInv, TypeOK
<1>2. /\ g \in Registration /\ g.gone = reg[w].gone /\ g.status = reg[w].status
      /\ g.load = reg[w].load
  BY <1>1 DEF Registration
<1>3. reg' = [reg EXCEPT ![w] = g] /\ UNCHANGED <<row, effects, locked>>
  BY DEF SetDrain
<1>4. reg[w].gone => reg[w].status = "offline" /\ reg[w].load = 0
  BY DEF IInv, GoneIsIdle
<1>. HIDE DEF g
<1>5. ~reg[w].gone => ~g.gone /\ (g.status = "offline" => reg[w].status = "offline")
  BY <1>2
<1>6. g.gone => g.status = "offline" /\ g.load = 0
  BY <1>2, <1>4
<1>7. g \in Registration
  BY <1>2
<1>. QED BY <1>3, <1>5, <1>6, <1>7, RegistryInv

-----------------------------------------------------------------------------
\* The maintenance tick and the clock.

\* Selecting locks expired rows only.
LEMMA TickSelectInv ==
    ASSUME IInv, NEW R \in SUBSET Assignment, TickSelect(R)
    PROVE  IInv'
<1>1. UNCHANGED <<row, reg, effects>> /\ locked' = locked \cup R /\ \A a \in R : Expired(row[a])
  BY DEF TickSelect
<1>2. TypeOK' /\ RowsOK' /\ GoneIsIdle' /\ NoLiveLeaseWithoutWorker'
  BY <1>1 DEF IInv, TypeOK, RowsOK, RowOK, GoneIsIdle, NoLiveLeaseWithoutWorker,
              Expired, InFlight
<1>3. LockedStaysExpired'
  BY <1>1 DEF IInv, LockedStaysExpired, Expired, InFlight
<1>. QED BY <1>2, <1>3 DEF IInv

\* A rolled back tick only gives its locks up.
LEMMA TickAbortInv ==
    ASSUME IInv, NEW R \in SUBSET Assignment, TickAbort(R)
    PROVE  IInv'
<1>1. UNCHANGED <<row, reg, effects>> /\ locked' = locked \ R
  BY DEF TickAbort
<1>2. TypeOK' /\ RowsOK' /\ GoneIsIdle' /\ NoLiveLeaseWithoutWorker'
  BY <1>1 DEF IInv, TypeOK, RowsOK, RowOK, GoneIsIdle, NoLiveLeaseWithoutWorker,
              Expired, InFlight
<1>3. LockedStaysExpired'
  BY <1>1 DEF IInv, LockedStaysExpired, Expired, InFlight
<1>. QED BY <1>2, <1>3 DEF IInv

\* The commit recovers in-flight rows only: those it locked are expired still.
LEMMA TickCommitInv ==
    ASSUME IInv, NEW S \in SUBSET Worker, NEW R \in SUBSET Assignment, TickCommit(S, R)
    PROVE  IInv'
<1>. DEFINE n(w) == Cardinality(Holdings(w) \cap R)
<1>2. Reap(S, R) /\ R \in SUBSET locked /\ locked' = locked \ R /\ effects' = effects
  BY DEF TickCommit
<1>3. /\ row' \in [Assignment -> Row] /\ RowsOK'
      /\ \A a \in locked \ R : row'[a] = row[a]
      /\ \A a \in Assignment : InFlight(row'[a]) =>
            /\ InFlight(row[a]) /\ row'[a].owner = row[a].owner
            /\ LeftBehind(row[a]) \/ row[a].owner \in S => LeftBehind(row'[a])
  BY <1>2, ReapRows DEF IInv
<1>4. ASSUME NEW w \in Worker
      PROVE  /\ reg'[w] \in Registration
             /\ reg'[w].gone = reg[w].gone
             /\ reg'[w].load <= reg[w].load
             /\ reg'[w].status = "offline" => reg[w].status = "offline" \/ w \in S
             /\ reg[w].status = "offline" => reg'[w].status = "offline"
  <2>1. reg[w] \in Registration
    BY DEF IInv, TypeOK
  <2>2. CASE w \in S
    <3>1. reg'[w] = WithLoad(reg[w], "offline", 0)
      BY <2>2 DEF TickCommit
    <3>. QED BY <2>1, <2>2, <3>1, LeaseAssumption DEF WithLoad, Registration, WorkerStatus
  <2>3. CASE w \notin S
    <3>1. reg'[w] = SlotsReleased(reg[w], n(w))
      BY <2>3 DEF TickCommit
    <3>2. IsFiniteSet(Holdings(w) \cap R)
      BY LeaseAssumption, FS_Subset DEF Holdings
    <3>3. n(w) \in Nat
      BY <3>2, FS_CardinalityType
    <3>. HIDE DEF n
    <3>. QED BY <2>1, <3>1, <3>3, SlotsReleasedReg
  <2>. QED BY <2>2, <2>3
<1>5. TypeOK'
  <2>1. reg' \in [Worker -> Registration]
    BY <1>4 DEF TickCommit
  <2>. QED BY <1>2, <1>3, <2>1 DEF IInv, TypeOK
<1>6. GoneIsIdle'
  <2>. SUFFICES ASSUME NEW w \in Worker, reg'[w].gone
                PROVE  reg'[w].status = "offline" /\ reg'[w].load = 0
    BY DEF GoneIsIdle
  <2>1. reg[w].status = "offline" /\ reg[w].load = 0
    BY <1>4 DEF IInv, GoneIsIdle
  <2>. QED BY <1>4, <2>1 DEF Registration
<1>7. LockedStaysExpired'
  <2>. SUFFICES ASSUME NEW a \in locked' PROVE Expired(row'[a])
    BY DEF LockedStaysExpired, Expired, InFlight
  <2>1. a \in locked \ R
    BY <1>2
  <2>. QED BY <1>3, <2>1 DEF IInv, LockedStaysExpired
<1>8. NoLiveLeaseWithoutWorker'
  <2>. SUFFICES ASSUME NEW a \in Assignment, NEW w \in Worker,
                       InFlight(row'[a]), row'[a].owner = w,
                       reg'[w].status = "offline" \/ reg'[w].gone
                PROVE  LeftBehind(row'[a])
    BY DEF NoLiveLeaseWithoutWorker, LeftBehind, Expired, InFlight
  <2>1. InFlight(row[a]) /\ row[a].owner = w
    BY <1>3
  <2>2. CASE w \in S
    BY <1>3, <2>1, <2>2
  <2>3. CASE w \notin S
    <3>1. reg[w].status = "offline" \/ reg[w].gone
      BY <1>4, <2>3
    <3>2. LeftBehind(row[a])
      BY <2>1, <3>1 DEF IInv, NoLiveLeaseWithoutWorker, LeftBehind
    <3>. QED BY <1>3, <3>2
  <2>. QED BY <2>2, <2>3
<1>. QED BY <1>3, <1>5, <1>6, <1>7, <1>8 DEF IInv

\* Time moves a lease towards its expiry and never back.
LEMMA TickInv ==
    ASSUME IInv, Tick
    PROVE  IInv'
<1>1. ASSUME NEW a \in Assignment
      PROVE  /\ row'[a] \in Row /\ RowOK(row'[a])
             /\ InFlight(row'[a]) = InFlight(row[a])
             /\ row'[a].owner = row[a].owner
             /\ Expired(row[a]) => Expired(row'[a])
             /\ LeftBehind(row[a]) => LeftBehind(row'[a])
  <2>1. row[a] \in Row /\ RowOK(row[a])
    BY DEF IInv, TypeOK, RowsOK
  <2>2. CASE ~InFlight(row[a])
    BY <2>1, <2>2 DEF Tick, Expired, LeftBehind
  <2>3. CASE InFlight(row[a])
    <3>1. row'[a] = Aged(row[a])
      BY <2>3 DEF Tick
    <3>. QED BY <2>1, <2>3, <3>1, LeaseAssumption
             DEF Aged, Row, RowOK, Expired, LeftBehind, InFlight, InFlightStatus, RowStatus
  <2>. QED BY <2>2, <2>3
<1>2. ASSUME NEW w \in Worker
      PROVE  /\ reg'[w] \in Registration
             /\ reg'[w].gone = reg[w].gone
             /\ reg'[w].status = reg[w].status
             /\ reg'[w].load = reg[w].load
  <2>1. reg[w] \in Registration
    BY DEF IInv, TypeOK
  <2>. QED BY <2>1, LeaseAssumption DEF Tick, Registration
<1>3. TypeOK'
  BY <1>1, <1>2 DEF Tick, IInv, TypeOK
<1>4. RowsOK'
  BY <1>1 DEF RowsOK
<1>5. GoneIsIdle'
  BY <1>2 DEF IInv, GoneIsIdle
<1>6. LockedStaysExpired'
  BY <1>1 DEF IInv, TypeOK, LockedStaysExpired, Tick
<1>7. NoLiveLeaseWithoutWorker'
  BY <1>1, <1>2 DEF IInv, NoLiveLeaseWithoutWorker, LeftBehind
<1>. QED BY <1>3, <1>4, <1>5, <1>6, <1>7 DEF IInv

-----------------------------------------------------------------------------
\* Every step keeps the invariant.
LEMMA NextInv == IInv /\ [Next]_vars => IInv'
<1>. SUFFICES ASSUME IInv, [Next]_vars PROVE IInv'
  OBVIOUS
<1>1. ASSUME NEW a \in Assignment,
             \/ \E k \in 1..MaxNumber : Enqueue(a, k) \/ \E w \in Worker : Dispatch(a, k, w)
             \/ Sibling(a)
      PROVE  IInv'
  BY <1>1, EnqueueInv, DispatchInv, SiblingInv
<1>2. ASSUME NEW w \in Worker, Endpoint(w)
      PROVE  IInv'
  <2>1. CASE Register(w) \/ Deregister(w)
    BY <2>1, RegisterInv, DeregisterInv
  <2>2. CASE \E status \in WorkerStatus \ {"offline"}, load \in 0..MaxConcurrency :
                Heartbeat(w, status, load)
    BY <2>2, HeartbeatInv
  <2>3. CASE \E a \in Assignment : Claim(w, a) \/ Ack(w, a) \/ Renew(w, a)
    BY <2>3, ClaimInv, AckInv, RenewInv
  <2>4. CASE \E a \in Assignment : \E s \in BOOLEAN : Submit(w, a, s)
    BY <2>4, SubmitInv
  <2>. QED BY <1>2, <2>1, <2>2, <2>3, <2>4 DEF Endpoint
<1>3. ASSUME NEW w \in Worker, Admin(w)
      PROVE  IInv'
  BY <1>3, RevokeInv, SetDrainInv DEF Admin
<1>4. ASSUME NEW R \in SUBSET Assignment,
             \/ TickSelect(R)
             \/ \E S \in SUBSET Worker : TickCommit(S, R)
             \/ TickAbort(R)
      PROVE  IInv'
  BY <1>4, TickSelectInv, TickCommitInv, TickAbortInv
<1>5. CASE Tick
  BY <1>5, TickInv
<1>6. CASE UNCHANGED vars
  BY <1>6 DEF vars, IInv, TypeOK, RowsOK, RowOK, InFlight, LockedStaysExpired, Expired,
              NoLiveLeaseWithoutWorker, GoneIsIdle
<1>. QED BY <1>1, <1>2, <1>3, <1>4, <1>5, <1>6 DEF Next, Scheduler, Maintenance

\* The inductive invariant holds in every reachable state.
LEMMA Inductive == Spec => []IInv
BY InitInv, NextInv, PTL DEF Spec

\* The rows, the registry, the effect keys and the locks keep their types:
\* current_load stays within max_concurrency, attempt numbers within MaxNumber
\* and a lease never runs longer than assignment_lease_seconds.
THEOREM TypeCorrect == Spec => []TypeOK
<1>1. IInv => TypeOK
  BY DEF IInv
<1>. QED BY <1>1, Inductive, PTL

\* A row is never started more often than max_attempts allows, over claims,
\* push dispatches, expiries, restarts and revocations (recover_assignment).
THEOREM AttemptsBound == Spec => []StartsWithinAttempts
<1>1. IInv => StartsWithinAttempts
  BY LeaseAssumption DEF IInv, TypeOK, Row, RowsOK, RowOK, StartsWithinAttempts
<1>. QED BY <1>1, Inductive, PTL

\* The controller hears of the outcome of each row once, from submit_result or
\* from the recovery that found no attempt left.
THEOREM OneReport == Spec => []ReportedOnce
<1>1. IInv => ReportedOnce
  BY DEF IInv, RowsOK, RowOK, ReportedOnce
<1>. QED BY <1>1, Inductive, PTL

\* A row in flight or completed names its worker; a row in the pool does not.
THEOREM Ownership == Spec => []OwnedWhileInFlight
<1>1. IInv => OwnedWhileInFlight
  BY DEF IInv, RowsOK, RowOK, OwnedWhileInFlight
<1>. QED BY <1>1, Inductive, PTL

\* An offline or deregistered worker has no live lease but on rows that its
\* reap passed over because a request of another worker had locked them:
\* deregistering, revoking and the offline marking recover everything else but
\* the expired rows a tick holds (reap_worker_assignments).
THEOREM NoOrphans == Spec => []NoLiveLeaseWithoutWorker
<1>1. IInv => NoLiveLeaseWithoutWorker
  BY DEF IInv
<1>. QED BY <1>1, Inductive, PTL

\* assert_lease_extendable bounds the life of a lease, over any number of
\* acknowledgements and renewals.
THEOREM TenureBound == Spec => []LeaseWithinTenure
<1>1. IInv => LeaseWithinTenure
  BY DEF IInv, RowsOK, RowOK, LeaseWithinTenure
<1>. QED BY <1>1, Inductive, PTL

\* A tick that has locked rows in reap_expired_leases finds them as it left
\* them when it gets to their workers' rows: the commit never recovers a row
\* that was renewed, submitted or handed over meanwhile.
THEOREM LockedRows == Spec => []LockedStaysExpired
<1>1. IInv => LockedStaysExpired
  BY DEF IInv
<1>. QED BY <1>1, Inductive, PTL

\* A deregistered worker is offline with load zero until it registers again: no
\* heartbeat, slot release or revocation revives it.  It holds no row but
\* expired ones and those that its reap (deregister_worker) passed over.
THEOREM IdleWhenGone == Spec => []DeregisteredIsIdle
<1>1. IInv => DeregisteredIsIdle
  BY DEF IInv, GoneIsIdle, DeregisteredIsIdle, NoLiveLeaseWithoutWorker, Holdings
<1>. QED BY <1>1, Inductive, PTL

-----------------------------------------------------------------------------
(* AssignmentLease implements StageTask: each step of a handler or of the   *)
(* maintenance tick moves each row, seen through TaskOf, by one of          *)
(* StageTask's moves or not at all.                                         *)

Moves(r, s) == TaskOf(s) = TaskOf(r) \/ Task!Move(TaskOf(r), TaskOf(s))

\* What recover_assignment does to a row in flight is Lose or Exhaust.
LEMMA RecoveredMove ==
    ASSUME NEW r \in Row, RowOK(r), InFlight(r)
    PROVE  Moves(r, Recovered(r))
<1>1. /\ r.status \in {"dispatched", "acknowledged"}
      /\ r.attempt \in Nat /\ MaxAttempts \in Nat
  BY LeaseAssumption DEF Row, InFlight, InFlightStatus
<1>2. TaskOf(r) = [phase |-> "running", holder |-> r.owner, try |-> r.attempt]
  BY <1>1 DEF TaskOf, Phase, InFlightStatus
<1>3. CASE r.attempt + 1 > MaxAttempts
  <2>1. /\ Recovered(r).status = "failed" /\ Recovered(r).owner = Nobody
        /\ Recovered(r).attempt = r.attempt
    BY <1>3 DEF Recovered
  <2>2. TaskOf(Recovered(r)) = [phase |-> "exhausted", holder |-> Nobody, try |-> r.attempt]
    BY <2>1 DEF TaskOf
  <2>3. r.attempt >= MaxAttempts
    BY <1>1, <1>3
  <2>. QED BY <1>2, <2>2, <2>3 DEF Moves, Task!Move, Task!Exhaust
<1>4. CASE ~(r.attempt + 1 > MaxAttempts)
  <2>1. /\ Recovered(r).status = "pending" /\ Recovered(r).owner = Nobody
        /\ Recovered(r).attempt = r.attempt + 1
    BY <1>4 DEF Recovered
  <2>2. TaskOf(Recovered(r)) = Task!Offered(r.attempt + 1)
    BY <2>1 DEF TaskOf, Phase, InFlightStatus, Task!Offered
  <2>3. /\ TaskOf(r).phase = "running" /\ TaskOf(r).try = r.attempt
        /\ r.attempt < MaxAttempts
    BY <1>1, <1>2, <1>4
  <2>4. Task!Lose(TaskOf(r), TaskOf(Recovered(r)))
    BY <2>2, <2>3 DEF Task!Lose
  <2>. QED BY <2>4 DEF Moves, Task!Move
<1>. QED BY <1>3, <1>4

\* What a reap does to the rows moves each of them or leaves it.
LEMMA ReapMoves ==
    ASSUME IInv, NEW W \in SUBSET Worker, NEW R \in SUBSET locked, Reap(W, R),
           NEW a \in Assignment
    PROVE  Moves(row[a], row'[a])
<1>1. row[a] \in Row /\ RowOK(row[a])
  BY DEF IInv, TypeOK, RowsOK
<1>. DEFINE H == Held(W)
<1>2. PICK P \in SUBSET Disputable(W) : Recover(R \cup (Held(W) \ P), P)
  BY Zenon DEF Reap
<1>. DEFINE S == R \cup (H \ P)
<1>3. a \in S => InFlight(row[a])
  BY DEF Held, Reapable, Holdings, IInv, LockedStaysExpired, Expired
<1>4. row'[a] = IF a \in S THEN Recovered(row[a])
                ELSE IF a \in P THEN PassedOver(row[a]) ELSE row[a]
  BY <1>2 DEF Recover
<1>. HIDE DEF H
<1>5. CASE a \in S
  BY <1>1, <1>3, <1>4, <1>5, RecoveredMove
<1>6. CASE a \notin S /\ a \in P
  <2>1. row'[a] = PassedOver(row[a])
    BY <1>4, <1>6
  <2>2. /\ row'[a].status = row[a].status /\ row'[a].owner = row[a].owner
        /\ row'[a].attempt = row[a].attempt
    BY <1>1, <2>1 DEF PassedOver, Row
  <2>. QED BY <2>2 DEF Moves, TaskOf
<1>7. CASE a \notin S /\ a \notin P
  BY <1>4, <1>7 DEF Moves
<1>. QED BY <1>5, <1>6, <1>7

\* Another row's key is not seen by StageTask.
LEMMA SiblingMoves ==
    ASSUME IInv, NEW a \in Assignment, NEW b \in Assignment, Sibling(b)
    PROVE  Moves(row[a], row'[a])
<1>1. /\ row'[a].status = row[a].status /\ row'[a].owner = row[a].owner
      /\ row'[a].attempt = row[a].attempt
  BY DEF Sibling, IInv, TypeOK, Row
<1>. QED BY <1>1 DEF Moves, TaskOf

\* dispatch_stage creates the row, offered or running already.
LEMMA SchedulerMoves ==
    ASSUME IInv, NEW a \in Assignment, NEW b \in Assignment, NEW k \in 1..MaxNumber,
           Enqueue(b, k) \/ \E w \in Worker : Dispatch(b, k, w)
    PROVE  Moves(row[a], row'[a])
<1>1. row[a] \in Row /\ RowOK(row[a]) /\ row \in [Assignment -> Row]
  BY DEF IInv, TypeOK, RowsOK
<1>2. CASE a # b
  BY <1>1, <1>2 DEF Enqueue, Dispatch, Moves
<1>3. CASE a = b
  <2>1. row[a].status = "absent" /\ row[a].owner = Nobody /\ row[a].attempt = 0
    BY <1>1, <1>3 DEF Enqueue, Dispatch, RowOK
  <2>2. TaskOf(row[a]) = Task!Unborn
    BY <2>1 DEF TaskOf, Phase, InFlightStatus, Task!Unborn
  <2>3. CASE Enqueue(b, k)
    <3>1. row'[a] = Created(k)
      BY <1>1, <1>3, <2>3 DEF Enqueue
    <3>2. TaskOf(row'[a]) = Task!Offered(k)
      BY <3>1 DEF TaskOf, Phase, InFlightStatus, Created, Task!Offered
    <3>. QED BY <2>2, <3>2 DEF Moves, Task!Move, Task!Offer
  <2>4. ASSUME NEW w \in Worker, Dispatch(b, k, w)
        PROVE  Moves(row[a], row'[a])
    <3>1. row'[a] = Granted(Created(k), w)
      BY <1>1, <1>3, <2>4 DEF Dispatch
    <3>2. /\ row'[a].status = "dispatched" /\ row'[a].owner = w /\ row'[a].attempt = k
      BY <3>1 DEF Granted, Created
    <3>3. TaskOf(row'[a]) = Task!Running(w, k)
      BY <3>2 DEF TaskOf, Phase, InFlightStatus, Task!Running
    <3>. QED BY <2>2, <3>3 DEF Moves, Task!Move, Task!OfferRunning
  <2>. QED BY <2>3, <2>4
<1>. QED BY <1>2, <1>3

\* A claim starts an offered row; acknowledging and renewing change nothing
\* that StageTask sees; a submit settles the row.
LEMMA EndpointMoves ==
    ASSUME IInv, NEW a \in Assignment, NEW b \in Assignment, NEW w \in Worker,
           Claim(w, b) \/ Ack(w, b) \/ Renew(w, b) \/ \E s \in BOOLEAN : Submit(w, b, s)
    PROVE  Moves(row[a], row'[a])
<1>1. row[a] \in Row /\ RowOK(row[a]) /\ row \in [Assignment -> Row]
  BY DEF IInv, TypeOK, RowsOK
<1>2. CASE a # b
  BY <1>1, <1>2 DEF Claim, Ack, Renew, Submit, Moves
<1>3. CASE a = b /\ Claim(w, b)
  <2>1. row[a].status = "pending" /\ row[a].owner = Nobody /\ row'[a] = Granted(row[a], w)
    BY <1>1, <1>3 DEF Claim, RowOK
  <2>2. TaskOf(row[a]).phase = "offered" /\ TaskOf(row[a]).try = row[a].attempt
    BY <2>1 DEF TaskOf, Phase, InFlightStatus
  <2>3. /\ row'[a].status = "dispatched" /\ row'[a].owner = w
        /\ row'[a].attempt = row[a].attempt
    BY <2>1 DEF Granted
  <2>4. TaskOf(row'[a]) = Task!Running(w, row[a].attempt)
    BY <2>3 DEF TaskOf, Phase, InFlightStatus, Task!Running
  <2>. QED BY <2>2, <2>4 DEF Moves, Task!Move, Task!Start
<1>4. CASE a = b /\ (Ack(w, b) \/ Renew(w, b))
  <2>1. PICK status \in InFlightStatus : row'[a] = Extended(row[a], status)
    BY <1>1, <1>4 DEF Ack, Renew, Extendable, InFlight, InFlightStatus
  <2>2. InFlight(row[a])
    BY <1>4 DEF Ack, Renew, Extendable
  <2>3. /\ row'[a].status \in InFlightStatus /\ row'[a].owner = row[a].owner
        /\ row'[a].attempt = row[a].attempt
    BY <2>1 DEF Extended
  <2>. QED BY <2>2, <2>3 DEF Moves, TaskOf, Phase, InFlight, InFlightStatus
<1>5. ASSUME NEW s \in BOOLEAN, a = b, Submit(w, b, s)
      PROVE  Moves(row[a], row'[a])
  <2>1. InFlight(row[a]) /\ row[a].owner = w /\ row'[a] = Delivered(row[a], s)
    BY <1>1, <1>5 DEF Submit, Accepts
  <2>2. /\ row'[a].status \in {"completed", "failed"} /\ row'[a].owner = w
        /\ row'[a].attempt = row[a].attempt
    BY <2>1 DEF Delivered
  <2>3. w # Nobody
    BY LeaseAssumption
  <2>4. TaskOf(row[a]) = [phase |-> "running", holder |-> w, try |-> row[a].attempt]
    BY <2>1 DEF TaskOf, Phase, InFlight, InFlightStatus
  <2>5. TaskOf(row'[a]) = [phase |-> "settled", holder |-> w, try |-> row[a].attempt]
    BY <2>2, <2>3 DEF TaskOf
  <2>6. [TaskOf(row[a]) EXCEPT !.phase = "settled"] = TaskOf(row'[a])
    BY <2>4, <2>5
  <2>. QED BY <2>4, <2>6 DEF Moves, Task!Move, Task!Settle
<1>. QED BY <1>2, <1>3, <1>4, <1>5

\* Time passes without moving a row.
LEMMA TickMoves ==
    ASSUME Tick, NEW a \in Assignment
    PROVE  Moves(row[a], row'[a])
<1>1. /\ row'[a].status = row[a].status /\ row'[a].owner = row[a].owner
      /\ row'[a].attempt = row[a].attempt
  BY DEF Tick, Aged
<1>. QED BY <1>1 DEF Moves, TaskOf

\* Every step moves every row or leaves it.
LEMMA StepMoves ==
    ASSUME IInv, [Next]_vars, NEW a \in Assignment
    PROVE  Moves(row[a], row'[a])
<1>1. ASSUME NEW w \in Worker, Register(w) \/ Deregister(w) \/ Revoke(w)
      PROVE  Moves(row[a], row'[a])
  <2>1. Reap({w}, {}) /\ {w} \in SUBSET Worker /\ {} \in SUBSET locked
    BY <1>1 DEF Register, Deregister, Revoke
  <2>. QED BY <2>1, ReapMoves
<1>2. ASSUME NEW R \in SUBSET Assignment, NEW S \in SUBSET Worker, TickCommit(S, R)
      PROVE  Moves(row[a], row'[a])
  <2>1. Reap(S, R) /\ R \in SUBSET locked
    BY <1>2 DEF TickCommit
  <2>. QED BY <2>1, ReapMoves
<1>3. CASE UNCHANGED row
  BY <1>3 DEF Moves
<1>4. CASE Scheduler
  BY <1>4, SchedulerMoves, SiblingMoves DEF Scheduler
<1>5. ASSUME NEW w \in Worker, Endpoint(w)
      PROVE  Moves(row[a], row'[a])
  BY <1>1, <1>3, <1>5, EndpointMoves DEF Endpoint, Heartbeat
<1>6. ASSUME NEW w \in Worker, Admin(w)
      PROVE  Moves(row[a], row'[a])
  BY <1>1, <1>3, <1>6 DEF Admin, SetDrain
<1>7. CASE Maintenance
  BY <1>2, <1>3, <1>7 DEF Maintenance, TickSelect, TickAbort
<1>8. CASE Tick
  BY <1>8, TickMoves
<1>9. CASE UNCHANGED vars
  BY <1>3, <1>9 DEF vars
<1>. QED BY <1>4, <1>5, <1>6, <1>7, <1>8, <1>9 DEF Next

\* The handlers and the maintenance tick together give a stage assignment the
\* life StageTask promises: one worker at a time, one try used up per run, one
\* end, whoever renews, dies, is revoked or answers late.
THEOREM Refinement == Spec => ImplementsStageTask
<1>1. Init => Task!Init
  <2>. SUFFICES ASSUME Init, NEW a \in Assignment PROVE TaskOf(row[a]) = Task!Unborn
    BY DEF Task!Init
  <2>. QED BY DEF Init, NoRow, TaskOf, Phase, InFlightStatus, Task!Unborn
<1>2. IInv /\ [Next]_vars => Task!Next
  <2>. SUFFICES ASSUME IInv, [Next]_vars PROVE Task!Next
    OBVIOUS
  <2>1. \A a \in Assignment : Moves(row[a], row'[a])
    BY StepMoves
  <2>. QED BY <2>1 DEF Moves, Task!Next
<1>. QED BY <1>1, <1>2, Inductive, PTL DEF Spec, ImplementsStageTask, Task!Spec

-----------------------------------------------------------------------------
(* The workers and the network.                                            *)

\* The worker has a row, and so has each request about a row.
OnRow == {"acking", "renewing", "executing", "submitting"}

ClientOK(c) ==
    /\ c.pc \in OnRow => c.job \in Assignment
    /\ c.success \in BOOLEAN
    /\ c.load \in Nat

CallOK(q) ==
    /\ q.worker \in Worker
    /\ q.kind \in OnRow => q.job \in Assignment
    /\ q.success \in BOOLEAN
    /\ q.load \in Nat

JobsOK ==
    /\ client = [w \in Worker |-> client[w]]
    /\ \A w \in Worker : ClientOK(client[w])
    /\ \A q \in stray : CallOK(q)

\* A reservation is made once, is used once, and by the worker that made it.
EffectsOK ==
    /\ executed \in [Assignment -> Nat]
    /\ \A a \in Assignment : executed[a] <= 1 /\ (executed[a] = 1 => a \in effects)
    /\ \A w \in Worker :
          client[w].pc = "renewing" => client[w].job \in effects /\ executed[client[w].job] = 0
    /\ \A w \in Worker : client[w].pc = "executing" => executed[client[w].job] = 1
    /\ \A v, w \in Worker :
          /\ client[v].pc = "renewing" /\ client[w].pc = "renewing"
          /\ client[v].job = client[w].job
          => v = w

-----------------------------------------------------------------------------
\* Serving a request is a step of the lease server, or changes nothing there.

\* The server's half of a claim.
LEMMA GrantingIsLease ==
    ASSUME NEW q, q.worker \in Worker, NEW a \in Assignment, Granting(q, a)
    PROVE  [Next]_vars
BY DEF Granting, lease, vars, Next, Endpoint

\* The server's half of an acknowledgement, a renewal or a submit.
LEMMA RowCallIsLease ==
    ASSUME NEW q, q.worker \in Worker, q.job \in Assignment, q.success \in BOOLEAN,
           Acked(q) \/ Renewed(q) \/ Submitted(q)
    PROVE  [Next]_vars
<1>1. CASE Acked(q)
  BY <1>1 DEF Acked, Next, Endpoint
<1>2. CASE Renewed(q)
  BY <1>2 DEF Renewed, Next, Endpoint
<1>3. CASE Submitted(q)
  BY <1>3 DEF Submitted, lease, vars, Next, Endpoint
<1>. QED BY <1>1, <1>2, <1>3

\* The heartbeats a worker sends are heartbeats the server expects.
LEMMA BeatIsLease ==
    ASSUME NEW q, CallOK(q), Beaten(q)
    PROVE  [Next]_vars
<1>1. PICK status \in {"busy", "online"} : Heartbeat(q.worker, status, q.load)
  BY DEF Beaten
<1>2. status \in WorkerStatus \ {"offline"}
  BY DEF WorkerStatus
<1>3. q.load \in 0..MaxConcurrency
  BY <1>1, LeaseAssumption DEF Heartbeat, CallOK
<1>4. Endpoint(q.worker)
  BY <1>1, <1>2, <1>3 DEF Endpoint
<1>. QED BY <1>4 DEF Next, CallOK

\* What a worker sends is what its state says.
LEMMA CallsOK ==
    ASSUME JobsOK, NEW w \in Worker
    PROVE  /\ CallOK(CallOf(w)) /\ CallOf(w).kind = client[w].pc
           /\ CallOf(w).worker = w /\ CallOf(w).job = client[w].job
           /\ CallOK(BeatOf(w)) /\ BeatOf(w).kind = "beat"
BY DEF JobsOK, ClientOK, CallOK, CallOf, BeatOf, OnRow

\* Each step of a worker is a step of the lease server, or one it does not see.
LEMMA ProcessIsLease ==
    ASSUME JobsOK, NEW w \in Worker, Process(w)
    PROVE  [Next]_vars
<1>. DEFINE q == CallOf(w)
<1>1. /\ CallOK(q) /\ q.worker \in Worker /\ q.success \in BOOLEAN
      /\ client[w].pc \in OnRow => q.job \in Assignment
      /\ CallOK(BeatOf(w))
  BY CallsOK DEF CallOK
<1>2. CASE UNCHANGED lease
  BY <1>2 DEF lease, vars
<1>3. CASE Boot(w)
  BY <1>3 DEF Boot, Next, Endpoint
<1>4. ASSUME NEW a \in Assignment, ClaimGranted(w, a)
      PROVE  [Next]_vars
  BY <1>1, <1>4, GrantingIsLease DEF ClaimGranted
<1>5. CASE AckOk(w) \/ RenewOk(w) \/ SubmitOk(w)
  <2>1. client[w].pc \in OnRow /\ (Acked(q) \/ Renewed(q) \/ Submitted(q))
    BY <1>5 DEF AckOk, RenewOk, SubmitOk, OnRow
  <2>. QED BY <1>1, <2>1, RowCallIsLease
<1>6. CASE Beat(w)
  BY <1>1, <1>2, <1>6, BeatIsLease DEF Beat
<1>7. CASE Drain(w)
  <2>1. Heartbeat(w, "draining", client[w].load)
    BY <1>7 DEF Drain
  <2>2. client[w].load \in 0..MaxConcurrency /\ "draining" \in WorkerStatus \ {"offline"}
    BY <2>1, LeaseAssumption DEF Heartbeat, JobsOK, ClientOK, WorkerStatus
  <2>3. Endpoint(w)
    BY <2>1, <2>2 DEF Endpoint
  <2>. QED BY <2>3 DEF Next
<1>8. CASE Leave(w)
  BY <1>8 DEF Leave, Next, Endpoint
<1>. QED BY <1>2, <1>3, <1>4, <1>5, <1>6, <1>7, <1>8
         DEF Process, ClaimNext, ClaimRefused, Executed, CallRefused, CallLost, Crash

\* So is each request that is served late.
LEMMA StrayIsLease ==
    ASSUME JobsOK, NEW q \in stray, StrayServed(q)
    PROVE  [Next]_vars
<1>1. CallOK(q)
  BY DEF JobsOK
<1>2. CASE q.kind = "claiming" /\ \E a \in Assignment : Granting(q, a)
  BY <1>1, <1>2, GrantingIsLease DEF CallOK
<1>3. CASE q.kind \in OnRow /\ (Acked(q) \/ Renewed(q) \/ Submitted(q))
  BY <1>1, <1>3, RowCallIsLease DEF CallOK
<1>4. CASE Beaten(q)
  BY <1>1, <1>4, BeatIsLease
<1>. QED BY <1>2, <1>3, <1>4 DEF StrayServed, OnRow

\* Every step of the workers, the network and the server is a lease step.
LEMMA StepIsLease ==
    ASSUME JobsOK, [ProtocolNext]_protocolVars
    PROVE  [Next]_vars
<1>1. CASE \E w \in Worker : Process(w)
  BY <1>1, ProcessIsLease
<1>2. CASE \E q \in stray : StrayServed(q)
  BY <1>2, StrayIsLease
<1>3. CASE (\E q \in stray : StrayLost(q)) \/ UNCHANGED protocolVars
  BY <1>3 DEF StrayLost, lease, vars, protocolVars
<1>4. CASE Server
  BY <1>4 DEF Server, Next
<1>. QED BY <1>1, <1>2, <1>3, <1>4 DEF ProtocolNext

-----------------------------------------------------------------------------
\* The workers keep their bookkeeping.

\* A worker's step replaces its own state by a good one.
LEMMA OneClient ==
    ASSUME JobsOK, NEW w \in Worker, NEW c, ClientOK(c), Becomes(w, c),
           \A q \in stray' \ stray : CallOK(q)
    PROVE  /\ JobsOK'
           /\ client'[w] = c
           /\ \A v \in Worker \ {w} : client'[v] = client[v]
<1>1. /\ client' = [v \in Worker |-> client'[v]]
      /\ client'[w] = c
      /\ \A v \in Worker \ {w} : client'[v] = client[v]
  BY DEF JobsOK, Becomes
<1>2. \A v \in Worker : ClientOK(client'[v])
  BY <1>1 DEF JobsOK
<1>3. \A q \in stray' : CallOK(q)
  BY DEF JobsOK
<1>. QED BY <1>1, <1>2, <1>3 DEF JobsOK

\* The states a worker can be in after a step.
LEMMA ClientStates ==
    ASSUME NEW load \in Nat
    PROVE  /\ \A pc \in {"down", "idle", "stopping"} :
                  ClientOK(Resting(pc, load)) /\ Resting(pc, load).pc \notin OnRow
           /\ \A t, n : ClientOK(Claiming(load, t, n)) /\ Claiming(load, t, n).pc \notin OnRow
           /\ \A pc, k : \A a \in Assignment, s \in BOOLEAN :
                  /\ ClientOK(Working(pc, a, k, load, s))
                  /\ Working(pc, a, k, load, s).pc = pc
                  /\ Working(pc, a, k, load, s).job = a
BY DEF Resting, Claiming, Working, ClientOK, OnRow

\* No handler deletes an effect key.
LEMMA EffectsGrow == [Next]_vars => effects \subseteq effects'
BY DEF Next, vars, Scheduler, Endpoint, Admin, Maintenance, Enqueue, Dispatch, Sibling, Register,
       Heartbeat, Deregister, Claim, Ack, Renew, Submit, SetDrain, Revoke, TickSelect,
       TickCommit, TickAbort, Tick

\* Steps that neither reserve a key nor start an executor.
LEMMA QuietMove ==
    ASSUME JobsOK, EffectsOK, NEW w \in Worker, NEW c, ClientOK(c), Becomes(w, c),
           c.pc \notin {"renewing", "executing"},
           \A q \in stray' \ stray : CallOK(q),
           executed' = executed, effects \subseteq effects'
    PROVE  JobsOK' /\ EffectsOK'
<1>1. /\ JobsOK' /\ client'[w] = c
      /\ \A v \in Worker \ {w} : client'[v] = client[v]
  BY OneClient
<1>2. \A v \in Worker : client'[v].pc \in {"renewing", "executing"}
                            => v # w /\ client'[v] = client[v]
  BY <1>1
<1>. QED BY <1>1, <1>2 DEF EffectsOK

\* Steps that leave the workers alone.
LEMMA NoMove ==
    ASSUME JobsOK, EffectsOK, UNCHANGED <<client, executed>>,
           \A q \in stray' \ stray : CallOK(q),
           effects \subseteq effects'
    PROVE  JobsOK' /\ EffectsOK'
BY DEF JobsOK, EffectsOK, ClientOK, CallOK

\* The acknowledgement that creates the key is the only one that ever will:
\* the row was not in `effects`, so nobody has executed it or is about to.
LEMMA AckMove ==
    ASSUME JobsOK, EffectsOK, NEW w \in Worker, AckOk(w), effects \subseteq effects'
    PROVE  JobsOK' /\ EffectsOK'
<1>. DEFINE a == client[w].job
            c == Working(IF a \in effects THEN "submitting" ELSE "renewing", a,
                         client[w].try, client[w].load, FALSE)
<1>1. a \in Assignment /\ client[w].load \in Nat /\ client[w].pc = "acking"
  BY DEF AckOk, JobsOK, ClientOK, OnRow
<1>2. /\ ClientOK(c) /\ c.job = a
      /\ c.pc = IF a \in effects THEN "submitting" ELSE "renewing"
  BY <1>1 DEF Working, ClientOK, OnRow
<1>3. Becomes(w, c) /\ executed' = executed /\ stray' = stray
  BY DEF AckOk, Goes
<1>4. effects' = effects \cup {a}
  BY <1>1 DEF AckOk, Acked, Ack, CallOf
<1>. HIDE DEF c
<1>5. CASE a \in effects
  BY <1>2, <1>3, <1>5, QuietMove
<1>6. CASE a \notin effects
  <2>1. /\ JobsOK' /\ client'[w] = c
        /\ \A v \in Worker \ {w} : client'[v] = client[v]
    BY <1>2, <1>3, OneClient
  <2>2. executed[a] = 0
    BY <1>1, <1>6 DEF EffectsOK
  <2>3. \A v \in Worker : client[v].pc = "renewing" => client[v].job # a
    BY <1>6 DEF EffectsOK
  <2>4. c.pc = "renewing"
    BY <1>2, <1>6
  <2>5. executed' \in [Assignment -> Nat]
        /\ \A b \in Assignment : executed'[b] <= 1 /\ (executed'[b] = 1 => b \in effects')
    BY <1>3, <1>4 DEF EffectsOK
  <2>6. \A v \in Worker :
           client'[v].pc = "renewing" =>
               client'[v].job \in effects' /\ executed'[client'[v].job] = 0
    BY <1>2, <1>3, <1>4, <2>1, <2>2, <2>4 DEF EffectsOK
  <2>7. \A v \in Worker : client'[v].pc = "executing" => executed'[client'[v].job] = 1
    BY <1>3, <2>1, <2>4 DEF EffectsOK
  <2>8. \A u, v \in Worker :
           /\ client'[u].pc = "renewing" /\ client'[v].pc = "renewing"
           /\ client'[u].job = client'[v].job
           => u = v
    BY <1>2, <2>1, <2>3 DEF EffectsOK
  <2>. QED BY <2>1, <2>5, <2>6, <2>7, <2>8 DEF EffectsOK
<1>. QED BY <1>5, <1>6

\* The executor starts for the one worker that holds the reservation.
LEMMA RenewMove ==
    ASSUME JobsOK, EffectsOK, NEW w \in Worker, RenewOk(w), effects \subseteq effects'
    PROVE  JobsOK' /\ EffectsOK'
<1>. DEFINE a == client[w].job
            c == Working("executing", a, client[w].try, client[w].load, FALSE)
<1>1. a \in Assignment /\ client[w].load \in Nat /\ client[w].pc = "renewing"
  BY DEF RenewOk, JobsOK, ClientOK, OnRow
<1>2. ClientOK(c) /\ c.job = a /\ c.pc = "executing"
  BY <1>1 DEF Working, ClientOK, OnRow
<1>3. Becomes(w, c) /\ executed' = [executed EXCEPT ![a] = @ + 1] /\ stray' = stray
  BY DEF RenewOk, Goes
<1>. HIDE DEF c
<1>4. /\ JobsOK' /\ client'[w] = c
      /\ \A v \in Worker \ {w} : client'[v] = client[v]
  BY <1>2, <1>3, OneClient
<1>5. a \in effects /\ executed[a] = 0
  BY <1>1 DEF EffectsOK
<1>6. /\ executed' \in [Assignment -> Nat] /\ executed'[a] = 1
      /\ \A b \in Assignment \ {a} : executed'[b] = executed[b]
  BY <1>1, <1>3, <1>5 DEF EffectsOK
<1>7. \A v \in Worker :
         client'[v].pc = "renewing" =>
             client'[v] = client[v] /\ client[v].job # a /\ client[v].job \in Assignment
  BY <1>1, <1>2, <1>4 DEF EffectsOK, JobsOK, ClientOK, OnRow
<1>8. \A b \in Assignment : executed'[b] <= 1 /\ (executed'[b] = 1 => b \in effects')
  BY <1>5, <1>6 DEF EffectsOK
<1>9. \A v \in Worker :
         client'[v].pc = "renewing" =>
             client'[v].job \in effects' /\ executed'[client'[v].job] = 0
  BY <1>6, <1>7 DEF EffectsOK
<1>10. \A v \in Worker : client'[v].pc = "executing" => executed'[client'[v].job] = 1
  <2>1. \A v \in Worker \ {w} : client[v].pc = "executing" => client[v].job \in Assignment
    BY DEF JobsOK, ClientOK, OnRow
  <2>. QED BY <1>2, <1>4, <1>6, <2>1 DEF EffectsOK
<1>11. \A u, v \in Worker :
          /\ client'[u].pc = "renewing" /\ client'[v].pc = "renewing"
          /\ client'[u].job = client'[v].job
          => u = v
  BY <1>7 DEF EffectsOK
<1>. QED BY <1>4, <1>6, <1>8, <1>9, <1>10, <1>11 DEF EffectsOK

\* Each step of a worker keeps the bookkeeping.
LEMMA ProcessInv ==
    ASSUME JobsOK, EffectsOK, NEW w \in Worker, Process(w)
    PROVE  JobsOK' /\ EffectsOK'
<1>1. effects \subseteq effects'
  BY ProcessIsLease, EffectsGrow
<1>2. ClientOK(client[w]) /\ client[w].load \in Nat /\ client[w].success \in BOOLEAN
      /\ (client[w].pc \in OnRow => client[w].job \in Assignment)
  BY DEF JobsOK, ClientOK
<1>3. CallOK(CallOf(w)) /\ CallOK(BeatOf(w))
  BY CallsOK
<1>4. CASE Boot(w)
  <2>1. ClientOK(Resting("idle", 0)) /\ Resting("idle", 0).pc \notin OnRow
    BY ClientStates
  <2>2. UNCHANGED <<stray, executed>> /\ (Becomes(w, Resting("idle", 0)) \/ UNCHANGED client)
    BY <1>4 DEF Boot
  <2>. QED BY <1>1, <2>1, <2>2, QuietMove, NoMove DEF OnRow
<1>5. CASE ClaimNext(w)
  <2>1. PICK t : Becomes(w, Claiming(client[w].load, t, ClaimTries))
    BY <1>5 DEF ClaimNext
  <2>2. UNCHANGED <<stray, executed>>
    BY <1>5 DEF ClaimNext
  <2>3. /\ ClientOK(Claiming(client[w].load, t, ClaimTries))
        /\ Claiming(client[w].load, t, ClaimTries).pc \notin OnRow
    BY <1>2, ClientStates
  <2>. QED BY <1>1, <2>1, <2>2, <2>3, QuietMove DEF OnRow
<1>6. ASSUME NEW a \in Assignment, ClaimGranted(w, a)
      PROVE  JobsOK' /\ EffectsOK'
  <2>. DEFINE c == Working("acking", a, row[a].attempt, client[w].load + 1, FALSE)
  <2>1. ClientOK(c) /\ c.pc = "acking"
    BY <1>2 DEF Working, ClientOK, OnRow
  <2>2. Becomes(w, c) /\ UNCHANGED <<stray, executed>>
    BY <1>6 DEF ClaimGranted
  <2>. HIDE DEF c
  <2>. QED BY <1>1, <2>1, <2>2, QuietMove
<1>7. CASE ClaimRefused(w) \/ CallRefused(w)
  <2>1. Becomes(w, Resting("idle", client[w].load)) /\ UNCHANGED <<stray, executed>>
    BY <1>7 DEF ClaimRefused, CallRefused, GivesUp
  <2>2. ClientOK(Resting("idle", client[w].load)) /\ Resting("idle", client[w].load).pc \notin OnRow
    BY <1>2, ClientStates
  <2>. QED BY <1>1, <2>1, <2>2, QuietMove DEF OnRow
<1>8. CASE AckOk(w)
  BY <1>1, <1>8, AckMove
<1>9. CASE RenewOk(w)
  BY <1>1, <1>9, RenewMove
<1>10. CASE Executed(w)
  <2>1. UNCHANGED <<stray, executed>> /\ client[w].job \in Assignment
    BY <1>2, <1>10 DEF Executed, OnRow
  <2>2. CASE GivesUp(w)
    <3>1. /\ ClientOK(Resting("idle", client[w].load))
          /\ Resting("idle", client[w].load).pc \notin OnRow
      BY <1>2, ClientStates
    <3>. QED BY <1>1, <2>1, <2>2, <3>1, QuietMove DEF OnRow, GivesUp
  <2>3. ASSUME NEW s \in BOOLEAN, Goes(w, "submitting", s)
        PROVE  JobsOK' /\ EffectsOK'
    <3>. DEFINE c == Working("submitting", client[w].job, client[w].try, client[w].load, s)
    <3>1. ClientOK(c) /\ c.pc = "submitting" /\ Becomes(w, c)
      BY <1>2, <2>1, <2>3, ClientStates DEF Goes
    <3>. HIDE DEF c
    <3>. QED BY <1>1, <2>1, <3>1, QuietMove
  <2>. QED BY <1>10, <2>2, <2>3 DEF Executed
<1>11. CASE SubmitOk(w)
  <2>. DEFINE load == IF client[w].load > 0 THEN client[w].load - 1 ELSE 0
  <2>1. load \in Nat
    BY <1>2
  <2>2. Becomes(w, Resting("idle", load)) /\ UNCHANGED <<stray, executed>>
    BY <1>11 DEF SubmitOk
  <2>. HIDE DEF load
  <2>3. ClientOK(Resting("idle", load)) /\ Resting("idle", load).pc \notin OnRow
    BY <2>1, ClientStates
  <2>. QED BY <1>1, <2>2, <2>3, QuietMove DEF OnRow
<1>12. CASE CallLost(w)
  <2>1. stray' = stray \cup {CallOf(w)} /\ executed' = executed
    BY <1>12 DEF CallLost
  <2>2. \/ Becomes(w, Claiming(client[w].load, client[w].token, client[w].tries - 1))
        \/ Becomes(w, Resting("idle", client[w].load))
    BY <1>12 DEF CallLost, GivesUp
  <2>3. /\ ClientOK(Resting("idle", client[w].load))
        /\ Resting("idle", client[w].load).pc \notin OnRow
        /\ ClientOK(Claiming(client[w].load, client[w].token, client[w].tries - 1))
        /\ Claiming(client[w].load, client[w].token, client[w].tries - 1).pc \notin OnRow
    BY <1>2, ClientStates
  <2>4. \A q \in stray' \ stray : CallOK(q)
    BY <1>3, <2>1
  <2>. QED BY <1>1, <2>1, <2>2, <2>3, <2>4, QuietMove DEF OnRow
<1>13. CASE Beat(w)
  <2>1. UNCHANGED <<client, executed>> /\ \A q \in stray' \ stray : CallOK(q)
    BY <1>3, <1>13 DEF Beat
  <2>. QED BY <1>1, <2>1, NoMove
<1>14. CASE Drain(w)
  <2>1. Becomes(w, Resting("stopping", client[w].load)) /\ UNCHANGED <<stray, executed>>
    BY <1>14 DEF Drain
  <2>2. /\ ClientOK(Resting("stopping", client[w].load))
        /\ Resting("stopping", client[w].load).pc \notin OnRow
    BY <1>2, ClientStates
  <2>. QED BY <1>1, <2>1, <2>2, QuietMove DEF OnRow
<1>15. CASE Leave(w) \/ Crash(w)
  <2>1. Becomes(w, Resting("down", 0)) /\ executed' = executed
        /\ \A q \in stray' \ stray : CallOK(q)
    BY <1>3, <1>15 DEF Leave, Crash
  <2>2. ClientOK(Resting("down", 0)) /\ Resting("down", 0).pc \notin OnRow
    BY ClientStates
  <2>. QED BY <1>1, <2>1, <2>2, QuietMove DEF OnRow
<1>. QED BY <1>4, <1>5, <1>6, <1>7, <1>8, <1>9, <1>10, <1>11, <1>12, <1>13, <1>14, <1>15
         DEF Process

\* Every step of the composed system keeps it.
LEMMA ProtocolNextInv ==
    JobsOK /\ EffectsOK /\ [ProtocolNext]_protocolVars => JobsOK' /\ EffectsOK'
<1>. SUFFICES ASSUME JobsOK, EffectsOK, [ProtocolNext]_protocolVars
              PROVE  JobsOK' /\ EffectsOK'
  OBVIOUS
<1>1. effects \subseteq effects'
  BY StepIsLease, EffectsGrow
<1>2. CASE \E w \in Worker : Process(w)
  BY <1>2, ProcessInv
<1>3. CASE UNCHANGED <<client, executed>> /\ stray' \subseteq stray
  BY <1>1, <1>3, NoMove
<1>. QED BY <1>2, <1>3 DEF ProtocolNext, StrayServed, StrayLost, Server, protocolVars

\* No worker runs and nothing is reserved in the beginning.
LEMMA ProtocolInitInv == ProtocolInit => JobsOK /\ EffectsOK
<1>. SUFFICES ASSUME ProtocolInit PROVE JobsOK /\ EffectsOK
  OBVIOUS
<1>1. /\ client = [w \in Worker |-> Resting("down", 0)]
      /\ executed = [a \in Assignment |-> 0] /\ stray = {}
  BY DEF ProtocolInit
<1>2. ClientOK(Resting("down", 0)) /\ Resting("down", 0).pc = "down"
  BY DEF Resting, ClientOK, OnRow
<1>3. JobsOK
  BY <1>1, <1>2 DEF JobsOK
<1>4. EffectsOK
  BY <1>1, <1>2 DEF EffectsOK
<1>. QED BY <1>3, <1>4

\* The bookkeeping holds in every reachable state.
LEMMA ProtocolInductive == ProtocolSpec => [](JobsOK /\ EffectsOK)
BY ProtocolInitInv, ProtocolNextInv, PTL DEF ProtocolSpec

\* Whatever the workers send, retry and repeat, and whatever the network does
\* with it, the lease server behaves as AssignmentLease says: the theorems
\* about AssignmentLease hold with the reference worker in place.
THEOREM ProtocolIsLease == ProtocolSpec => Spec
<1>1. ProtocolInit => Init
  BY DEF ProtocolInit
<1>2. JobsOK /\ EffectsOK /\ [ProtocolNext]_protocolVars => [Next]_vars
  BY StepIsLease
<1>. QED BY <1>1, <1>2, ProtocolInductive, PTL DEF ProtocolSpec, Spec

\* The executor of a row runs at most once over all its attempts, because the
\* effect key names the row and not the attempt (provider_effects.py) and the
\* worker executes only on the acknowledgement that created it (client.py).
THEOREM ExecutedOnce == ProtocolSpec => []EffectOncePerRow
<1>1. JobsOK /\ EffectsOK => EffectOncePerRow
  BY DEF EffectsOK, EffectOncePerRow
<1>. QED BY <1>1, ProtocolInductive, PTL

\* A worker that is about to execute a row is the only one, and the first.
THEOREM ReservedOnce == ProtocolSpec => []OneReservation
<1>1. JobsOK /\ EffectsOK => OneReservation
  <2>. SUFFICES ASSUME JobsOK, EffectsOK, NEW w \in Worker, client[w].pc = "renewing"
                PROVE  /\ executed[client[w].job] = 0
                       /\ \A v \in Worker \ {w} :
                              client[v].pc \in {"renewing", "executing"}
                                  => client[v].job # client[w].job
    BY DEF OneReservation
  <2>1. executed[client[w].job] = 0
    BY DEF EffectsOK
  <2>2. \A v \in Worker \ {w} : client[v].pc = "executing" => client[v].job # client[w].job
    BY <2>1 DEF EffectsOK
  <2>3. \A v \in Worker \ {w} : client[v].pc = "renewing" => client[v].job # client[w].job
    BY DEF EffectsOK
  <2>. QED BY <2>1, <2>2, <2>3
<1>. QED BY <1>1, ProtocolInductive, PTL

-----------------------------------------------------------------------------
\* A success was executed, wherever it is: with the worker that reports it, in
\* a request under way, or in the row.
SuccessOK ==
    /\ \A w \in Worker :
          client[w].pc = "submitting" /\ client[w].success => executed[client[w].job] = 1
    /\ \A q \in stray : q.kind = "submitting" /\ q.success => executed[q.job] = 1
    /\ \A a \in Assignment : row[a].status = "completed" => executed[a] = 1

\* What a step of the server does to rows, whoever asked for it.
LEMMA RecoveryCompletesNothing ==
    ASSUME TypeOK, NEW W, NEW R, Reap(W, R), NEW a \in Assignment, row'[a].status = "completed"
    PROVE  row[a].status = "completed"
<1>1. PICK S, P : Recover(S, P)
  BY Zenon DEF Reap
<1>2. \/ row'[a] = Recovered(row[a])
      \/ row'[a] = PassedOver(row[a])
      \/ row'[a] = row[a]
  BY <1>1 DEF Recover
<1>. QED BY <1>2 DEF Recovered, PassedOver, TypeOK, Row

\* Only a submit completes a row.
LEMMA OnlySubmitCompletes ==
    ASSUME TypeOK, NEW a \in Assignment, row'[a].status = "completed",
           \/ Scheduler \/ Maintenance \/ Tick \/ row' = row
           \/ \E w \in Worker : \/ Register(w) \/ Deregister(w)
                                \/ \E b \in Assignment : Claim(w, b) \/ Ack(w, b) \/ Renew(w, b)
    PROVE  row[a].status = "completed"
<1>1. row \in [Assignment -> Row]
  BY DEF TypeOK
<1>2. CASE Scheduler
  BY <1>1, <1>2 DEF Scheduler, Enqueue, Dispatch, Sibling, Created, Granted, Row
<1>3. CASE Maintenance
  <2>1. row' = row \/ \E W, R : Reap(W, R)
    BY <1>3 DEF Maintenance, TickSelect, TickCommit, TickAbort
  <2>. QED BY <2>1, RecoveryCompletesNothing
<1>4. CASE Tick
  BY <1>1, <1>4 DEF Tick, Aged
<1>5. ASSUME NEW w \in Worker, Register(w) \/ Deregister(w)
      PROVE  row[a].status = "completed"
  BY <1>5, RecoveryCompletesNothing DEF Register, Deregister
<1>6. ASSUME NEW w \in Worker, NEW b \in Assignment, Claim(w, b) \/ Ack(w, b) \/ Renew(w, b)
      PROVE  row[a].status = "completed"
  BY <1>1, <1>6 DEF Claim, Ack, Renew, Granted, Extended
<1>. QED BY <1>2, <1>3, <1>4, <1>5, <1>6

\* So among the requests only a submit does, and one that reports a success.
LEMMA QuietRequest ==
    ASSUME TypeOK, NEW q, q.worker \in Worker, NEW a \in Assignment, row'[a].status = "completed",
           \/ \E b \in Assignment : Granting(q, b)
           \/ (Acked(q) \/ Renewed(q)) /\ q.job \in Assignment
           \/ Beaten(q)
    PROVE  row[a].status = "completed"
<1>1. CASE \E b \in Assignment : Granting(q, b)
  BY <1>1, OnlySubmitCompletes DEF Granting, lease
<1>2. CASE (Acked(q) \/ Renewed(q)) /\ q.job \in Assignment
  BY <1>2, OnlySubmitCompletes DEF Acked, Renewed
<1>3. CASE Beaten(q)
  BY <1>3 DEF Beaten, Heartbeat
<1>. QED BY <1>1, <1>2, <1>3

LEMMA SubmitCompletes ==
    ASSUME TypeOK, NEW q, q.job \in Assignment, Submitted(q),
           NEW a \in Assignment, row'[a].status = "completed"
    PROVE  row[a].status = "completed" \/ (a = q.job /\ q.success)
<1>1. row \in [Assignment -> Row]
  BY DEF TypeOK
<1>. QED BY <1>1 DEF Submitted, Submit, Delivered, lease

\* Nobody undoes an execution.
LEMMA ExecutedStays ==
    ASSUME JobsOK, EffectsOK, [ProtocolNext]_protocolVars, NEW a \in Assignment, executed[a] = 1
    PROVE  executed'[a] = 1
<1>1. CASE executed' = executed
  BY <1>1
<1>2. ASSUME NEW w \in Worker, RenewOk(w)
      PROVE  executed'[a] = 1
  <2>1. executed' = [executed EXCEPT ![client[w].job] = @ + 1] /\ client[w].pc = "renewing"
    BY <1>2 DEF RenewOk
  <2>2. executed[client[w].job] = 0
    BY <2>1 DEF EffectsOK
  <2>. QED BY <2>1, <2>2 DEF EffectsOK
<1>. QED BY <1>1, <1>2 DEF ProtocolNext, Process, Boot, ClaimNext, ClaimGranted, ClaimRefused, AckOk,
         Executed, SubmitOk, CallRefused, CallLost, Beat, Drain, Leave, Crash, StrayServed,
         StrayLost, Server, protocolVars

\* A worker reports a success only of what it has executed.
LEMMA ProcessReports ==
    ASSUME JobsOK, EffectsOK, SuccessOK, NEW w \in Worker, Process(w)
    PROVE  \A v \in Worker :
              client'[v].pc = "submitting" /\ client'[v].success => executed[client'[v].job] = 1
<1>1. client = [v \in Worker |-> client[v]]
  BY DEF JobsOK
<1>2. ASSUME NEW c, Becomes(w, c), c.pc # "submitting" \/ c.success = FALSE
      PROVE  \A v \in Worker :
                client'[v].pc = "submitting" /\ client'[v].success => executed[client'[v].job] = 1
  BY <1>1, <1>2 DEF Becomes, SuccessOK
<1>3. CASE UNCHANGED client
  BY <1>3 DEF SuccessOK
<1>4. ASSUME NEW pc \in {"down", "idle", "stopping"}, NEW load, Becomes(w, Resting(pc, load))
      PROVE  \A v \in Worker :
                client'[v].pc = "submitting" /\ client'[v].success => executed[client'[v].job] = 1
  <2>1. Resting(pc, load).pc # "submitting"
    BY DEF Resting
  <2>. QED BY <1>2, <1>4, <2>1
<1>5. ASSUME NEW load, NEW t, NEW n, Becomes(w, Claiming(load, t, n))
      PROVE  \A v \in Worker :
                client'[v].pc = "submitting" /\ client'[v].success => executed[client'[v].job] = 1
  <2>1. Claiming(load, t, n).pc # "submitting"
    BY DEF Claiming
  <2>. QED BY <1>2, <1>5, <2>1
<1>6. ASSUME NEW pc, NEW a, NEW k, NEW load, Becomes(w, Working(pc, a, k, load, FALSE))
      PROVE  \A v \in Worker :
                client'[v].pc = "submitting" /\ client'[v].success => executed[client'[v].job] = 1
  <2>1. Working(pc, a, k, load, FALSE).success = FALSE
    BY DEF Working
  <2>. QED BY <1>2, <1>6, <2>1
<1>7. CASE Executed(w)
  <2>1. executed[client[w].job] = 1
    BY <1>7 DEF Executed, EffectsOK
  <2>2. CASE GivesUp(w)
    BY <1>4, <2>2 DEF GivesUp
  <2>3. ASSUME NEW s \in BOOLEAN, Goes(w, "submitting", s)
        PROVE  \A v \in Worker :
                  client'[v].pc = "submitting" /\ client'[v].success => executed[client'[v].job] = 1
    <3>. DEFINE c == Working("submitting", client[w].job, client[w].try, client[w].load, s)
    <3>1. c.job = client[w].job /\ Becomes(w, c)
      BY <2>3 DEF Goes, Working
    <3>. HIDE DEF c
    <3>2. client'[w] = c /\ \A v \in Worker \ {w} : client'[v] = client[v]
      BY <1>1, <3>1 DEF Becomes
    <3>. QED BY <2>1, <3>1, <3>2 DEF SuccessOK
  <2>. QED BY <1>7, <2>2, <2>3 DEF Executed
<1>8. CASE Boot(w)
  BY <1>3, <1>4, <1>8 DEF Boot
<1>9. CASE ClaimNext(w)
  BY <1>5, <1>9 DEF ClaimNext
<1>10. ASSUME NEW a \in Assignment, ClaimGranted(w, a)
       PROVE  \A v \in Worker :
                 client'[v].pc = "submitting" /\ client'[v].success => executed[client'[v].job] = 1
  BY <1>6, <1>10 DEF ClaimGranted
<1>11. CASE ClaimRefused(w) \/ CallRefused(w)
  BY <1>4, <1>11 DEF ClaimRefused, CallRefused, GivesUp
<1>12. CASE AckOk(w) \/ RenewOk(w)
  BY <1>6, <1>12 DEF AckOk, RenewOk, Goes
<1>13. CASE SubmitOk(w) \/ Drain(w) \/ Leave(w) \/ Crash(w)
  BY <1>4, <1>13 DEF SubmitOk, Drain, Leave, Crash
<1>14. CASE CallLost(w)
  BY <1>4, <1>5, <1>14 DEF CallLost, GivesUp
<1>15. CASE Beat(w)
  BY <1>3, <1>15 DEF Beat
<1>. QED BY <1>7, <1>8, <1>9, <1>10, <1>11, <1>12, <1>13, <1>14, <1>15 DEF Process

\* A request that outlives its caller says what the caller said.
LEMMA ProcessStrays ==
    ASSUME JobsOK, SuccessOK, NEW w \in Worker, Process(w), NEW q \in stray',
           q.kind = "submitting", q.success
    PROVE  executed[q.job] = 1
<1>1. q \in stray \/ q = CallOf(w) \/ q = BeatOf(w)
  BY DEF Process, Boot, ClaimNext, ClaimGranted, ClaimRefused, AckOk, RenewOk, Executed, SubmitOk,
         CallRefused, CallLost, Beat, Drain, Leave, Crash
<1>2. CASE q \in stray
  BY <1>2 DEF SuccessOK
<1>3. CASE q = CallOf(w)
  BY <1>3 DEF CallOf, SuccessOK
<1>4. CASE q = BeatOf(w)
  BY <1>4 DEF BeatOf
<1>. QED BY <1>1, <1>2, <1>3, <1>4

\* A row that is completed by a worker's own call was executed.
LEMMA ProcessCompletes ==
    ASSUME TypeOK, JobsOK, SuccessOK, NEW w \in Worker, Process(w),
           NEW a \in Assignment, row'[a].status = "completed"
    PROVE  executed[a] = 1
<1>1. row[a].status = "completed" => executed[a] = 1
  BY DEF SuccessOK
<1>2. CASE row' = row
  BY <1>1, <1>2
<1>3. CASE Register(w) \/ Deregister(w)
  BY <1>1, <1>3, OnlySubmitCompletes
<1>4. ASSUME NEW b \in Assignment, Granting(CallOf(w), b)
      PROVE  executed[a] = 1
  <2>1. CallOf(w).worker \in Worker
    BY CallsOK
  <2>. QED BY <1>1, <1>4, <2>1, QuietRequest
<1>5. CASE AckOk(w) \/ RenewOk(w) \/ SubmitOk(w)
  <2>. DEFINE q == CallOf(w)
  <2>1. /\ q.worker = w /\ q.job = client[w].job /\ q.job \in Assignment
        /\ q.success = client[w].success
    BY <1>5, CallsOK DEF JobsOK, ClientOK, OnRow, CallOf, AckOk, RenewOk, SubmitOk
  <2>2. \/ Acked(q) \/ Renewed(q)
        \/ Submitted(q) /\ client[w].pc = "submitting"
    BY <1>5 DEF AckOk, RenewOk, SubmitOk
  <2>. HIDE DEF q
  <2>3. CASE Acked(q) \/ Renewed(q)
    BY <1>1, <2>1, <2>3, QuietRequest
  <2>4. CASE Submitted(q) /\ client[w].pc = "submitting"
    BY <1>1, <2>1, <2>4, SubmitCompletes DEF SuccessOK
  <2>. QED BY <2>2, <2>3, <2>4
<1>6. CASE Beat(w)
  BY <1>2, <1>6 DEF Beat, Beaten, Heartbeat, lease
<1>. QED BY <1>2, <1>3, <1>4, <1>5, <1>6
         DEF Process, Boot, ClaimNext, ClaimGranted, ClaimRefused, AckOk, RenewOk, Executed, SubmitOk,
             CallRefused, CallLost, Drain, Heartbeat, Leave, Crash, lease

\* So was one that is completed by a request that arrives late.
LEMMA StrayCompletes ==
    ASSUME TypeOK, JobsOK, SuccessOK, NEW q \in stray, StrayServed(q),
           NEW a \in Assignment, row'[a].status = "completed"
    PROVE  executed[a] = 1
<1>1. CallOK(q) /\ q.worker \in Worker /\ (row[a].status = "completed" => executed[a] = 1)
  BY DEF JobsOK, CallOK, SuccessOK
<1>2. CASE (\E b \in Assignment : Granting(q, b)) \/ Beaten(q)
  BY <1>1, <1>2, QuietRequest
<1>3. CASE q.kind \in {"acking", "renewing"} /\ (Acked(q) \/ Renewed(q))
  <2>1. q.job \in Assignment
    BY <1>1, <1>3 DEF CallOK, OnRow
  <2>. QED BY <1>1, <1>3, <2>1, QuietRequest
<1>4. CASE q.kind = "submitting" /\ Submitted(q)
  <2>1. q.job \in Assignment
    BY <1>1, <1>4 DEF CallOK, OnRow
  <2>. QED BY <1>1, <1>4, <2>1, SubmitCompletes DEF SuccessOK
<1>. QED BY <1>2, <1>3, <1>4 DEF StrayServed

\* Every step keeps it.
LEMMA SuccessStep ==
    ASSUME TypeOK, JobsOK, EffectsOK, JobsOK', SuccessOK, [ProtocolNext]_protocolVars
    PROVE  SuccessOK'
<1>1. \A a \in Assignment : executed[a] = 1 => executed'[a] = 1
  BY ExecutedStays
<1>2. \A w \in Worker :
         client'[w].pc = "submitting" /\ client'[w].success => executed[client'[w].job] = 1
  <2>1. CASE UNCHANGED client
    BY <2>1 DEF SuccessOK
  <2>. QED BY <2>1, ProcessReports DEF ProtocolNext, StrayServed, StrayLost, Server, protocolVars
<1>3. \A q \in stray' : q.kind = "submitting" /\ q.success => executed[q.job] = 1
  <2>1. CASE stray' \subseteq stray
    BY <2>1 DEF SuccessOK
  <2>. QED BY <2>1, ProcessStrays DEF ProtocolNext, StrayServed, StrayLost, Server, protocolVars
<1>4. \A a \in Assignment : row'[a].status = "completed" => executed[a] = 1
  <2>. SUFFICES ASSUME NEW a \in Assignment, row'[a].status = "completed" PROVE executed[a] = 1
    OBVIOUS
  <2>1. row[a].status = "completed" => executed[a] = 1
    BY DEF SuccessOK
  <2>2. CASE \E w \in Worker : Process(w)
    BY <2>2, ProcessCompletes
  <2>3. CASE \E q \in stray : StrayServed(q)
    BY <2>3, StrayCompletes
  <2>4. CASE row' = row
    BY <2>1, <2>4
  <2>5. CASE Server
    BY <2>1, <2>5, OnlySubmitCompletes DEF Server
  <2>. QED BY <2>2, <2>3, <2>4, <2>5 DEF ProtocolNext, StrayLost, lease, protocolVars
<1>5. /\ \A w \in Worker : client'[w].pc = "submitting" => client'[w].job \in Assignment
      /\ \A q \in stray' : q.kind = "submitting" => q.job \in Assignment
  BY DEF JobsOK, ClientOK, CallOK, OnRow
<1>. QED BY <1>1, <1>2, <1>3, <1>4, <1>5 DEF SuccessOK

\* No success is made up: whatever is repeated, late or lost, a row that
\* completed was executed, exactly once, and its effect key is there.
THEOREM CompletionIsEarned == ProtocolSpec => []CompletedWasExecuted
<1>1. ProtocolInit => SuccessOK
  <2>. SUFFICES ASSUME ProtocolInit PROVE SuccessOK
    OBVIOUS
  <2>1. /\ \A w \in Worker : client[w].pc = "down"
        /\ \A a \in Assignment : row[a].status = "absent"
        /\ stray = {}
    BY DEF ProtocolInit, Init, Resting, NoRow
  <2>. QED BY <2>1 DEF SuccessOK
<1>2. TypeOK /\ JobsOK /\ EffectsOK /\ JobsOK' /\ SuccessOK /\ [ProtocolNext]_protocolVars => SuccessOK'
  BY SuccessStep
<1>3. ProtocolSpec => []TypeOK
  BY ProtocolIsLease, TypeCorrect, PTL
<1>4. JobsOK /\ EffectsOK /\ SuccessOK => CompletedWasExecuted
  BY DEF EffectsOK, SuccessOK, CompletedWasExecuted
<1>. QED BY <1>1, <1>2, <1>3, <1>4, ProtocolInductive, PTL DEF ProtocolSpec

=============================================================================
