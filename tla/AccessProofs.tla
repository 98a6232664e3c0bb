---------------------------- MODULE AccessProofs ----------------------------
(***************************************************************************)
(* Proofs about WorkerAccess and Team: what lets a worker and a person in, *)
(* for any number of requests, credentials and people.                     *)
(*                                                                         *)
(* Those about a worker's credentials rest on what the locks protect:      *)
(* whoever has got past the lock of the worker's row is alone with the set *)
(* of active credentials, and the credential of a request about work stays *)
(* active as long as the request holds its lock.                           *)
(*                                                                         *)
(* That a workspace is emptied of its admins only by a race is not         *)
(* inductive: it rests on what a request has read and counted being still  *)
(* so when it commits, unless another has committed since.                 *)
(***************************************************************************)
EXTENDS WorkerAccess, Team, TLAPS

(***************************************************************************)
(* The credentials of a worker.                                            *)
(***************************************************************************)

\* A request that is past its wait for the row holds its lock.
RowHeld == \A s \in Session : call[s] # Idle /\ call[s].pc = "locked" => rowLock = s

\* A request about work holds the lock of the credential it has looked at again.
CredentialHeld ==
    \A s \in Session :
        call[s] # Idle /\ call[s].op = "work" /\ call[s].pc \in {"checked", "locked"}
            => credLock[call[s].cred] = s /\ creds[call[s].cred].status = "active"

\* A rotation or a revocation has found, under the lock, all that is active: nothing has
\* become active since, though a stop without the lock may have revoked some.
FoundIsAll ==
    \A s \in Session :
        call[s] # Idle /\ call[s].op \in {"rotate", "revoke"} /\ call[s].pc = "locked"
            => Active \subseteq call[s].found

Locks == TypeOK /\ RowHeld /\ CredentialHeld /\ FoundIsAll
AccessInv == Locks /\ KillIsComplete /\ OneLastingCredential

LEMMA InitAccessInv == Init => AccessInv
<1>1. SUFFICES ASSUME Init PROVE AccessInv
  OBVIOUS
<1>2. 1 \in Credential
  BY AccessAssumption DEF Credential
<1>3. TypeOK
  BY <1>1, <1>2 DEF Init, TypeOK, CredentialRow, WorkerRegistration, Issued, NoRow
<1>4. RowHeld /\ CredentialHeld /\ FoundIsAll
  BY <1>1 DEF Init, RowHeld, CredentialHeld, FoundIsAll
<1>5. KillIsComplete
  BY <1>1 DEF Init, KillIsComplete
<1>6. OneLastingCredential
  BY <1>1 DEF Init, OneLastingCredential, Active, NoRow
<1>7. QED
  BY <1>3, <1>4, <1>5, <1>6 DEF AccessInv, Locks

(***************************************************************************)
(* A request that ends gives its locks back.  It leaves the others' alone  *)
(* if it has revoked no credential that is locked, and has changed the set *)
(* of active credentials only under the row's lock.                        *)
(***************************************************************************)
LEMMA Ended ==
    ASSUME Locks, NEW s \in Session, EndsHere(s),
           creds' \in [Credential -> CredentialRow], worker' \in WorkerRegistration,
           admin' \in BOOLEAN, killed' \in BOOLEAN, jammed' \in BOOLEAN,
           \A c \in Credential :
               credLock[c] \notin {Nobody, s} /\ creds[c].status = "active"
                   => creds'[c].status = "active",
           rowLock = s \/ Active' \subseteq Active
    PROVE  Locks'
<1>1. /\ call' \in [Session -> Request \cup {Idle}]
      /\ rowLock' \in Session \cup {Nobody}
      /\ credLock' \in [Credential -> Session \cup {Nobody}]
  BY DEF EndsHere, Locks, TypeOK
<1>2. TypeOK'
  BY <1>1 DEF TypeOK
<1>3. call'[s] = Idle /\ \A r \in Session \ {s} : call'[r] = call[r]
  BY DEF EndsHere, Locks, TypeOK
<1>4. RowHeld'
  BY <1>3 DEF RowHeld, EndsHere, Locks
<1>5. CredentialHeld'
  <2>1. SUFFICES ASSUME NEW r \in Session, call'[r] # Idle, call'[r].op = "work",
                        call'[r].pc \in {"checked", "locked"}
                 PROVE  credLock'[call'[r].cred] = r /\ creds'[call'[r].cred].status = "active"
    BY DEF CredentialHeld
  <2>2. r # s /\ call'[r] = call[r]
    BY <1>3, <2>1
  <2>3. call[r].cred \in Credential
    BY <2>1, <2>2 DEF Locks, TypeOK, Request, Idle, OwnRow, AdminCall, QuickAction
  <2>4. credLock[call[r].cred] = r /\ creds[call[r].cred].status = "active"
    BY <2>1, <2>2 DEF Locks, CredentialHeld
  <2>5. r \notin {Nobody, s}
    BY <2>2, AccessAssumption
  <2>6. QED
    BY <2>2, <2>3, <2>4, <2>5 DEF EndsHere
<1>6. FoundIsAll'
  <2>1. SUFFICES ASSUME NEW r \in Session, call'[r] # Idle, call'[r].op \in {"rotate", "revoke"},
                        call'[r].pc = "locked"
                 PROVE  Active' \subseteq call'[r].found
    BY DEF FoundIsAll
  <2>2. r # s /\ call'[r] = call[r]
    BY <1>3, <2>1
  <2>3. rowLock = r
    BY <2>1, <2>2 DEF Locks, RowHeld
  <2>4. QED
    BY <2>1, <2>2, <2>3 DEF Locks, FoundIsAll
<1>7. QED
  BY <1>2, <1>4, <1>5, <1>6 DEF Locks

\* What does not touch the credentials keeps what is said of them.
LEMMA SameCredentials ==
    ASSUME AccessInv, Locks', UNCHANGED <<creds, killed>>
    PROVE  AccessInv'
BY DEF AccessInv, KillIsComplete, OneLastingCredential, Active

LEMMA RollBackInv == ASSUME AccessInv, NEW s \in Session, RollBack(s) PROVE AccessInv'
<1>1. UNCHANGED <<creds, worker, admin, killed, jammed>> /\ EndsHere(s)
  BY DEF RollBack
<1>2. Locks'
  BY <1>1, Ended DEF AccessInv, Locks, TypeOK, Active
<1>3. QED
  BY <1>1, <1>2, SameCredentials

(***************************************************************************)
(* A request that goes on changes nothing but its own record and locks.    *)
(***************************************************************************)
LEMMA GoesOn ==
    ASSUME AccessInv, NEW s \in Session, NEW r \in Request,
           UNCHANGED <<creds, worker, admin, killed, jammed>>,
           call' = [call EXCEPT ![s] = r],
           rowLock' = rowLock \/ (rowLock = Nobody /\ rowLock' = s),
           credLock' = credLock \/
               \E c \in Credential : credLock[c] = Nobody /\ credLock' = [credLock EXCEPT ![c] = s],
           r.pc = "locked" => rowLock' = s,
           r.op = "work" /\ r.pc \in {"checked", "locked"} =>
               credLock'[r.cred] = s /\ creds[r.cred].status = "active",
           r.op \in {"rotate", "revoke"} /\ r.pc = "locked" => Active \subseteq r.found
    PROVE  AccessInv'
<1>1. TypeOK'
  <2>1. call' \in [Session -> Request \cup {Idle}]
    BY DEF AccessInv, Locks, TypeOK
  <2>2. rowLock' \in Session \cup {Nobody}
    BY DEF AccessInv, Locks, TypeOK
  <2>3. credLock' \in [Credential -> Session \cup {Nobody}]
    BY DEF AccessInv, Locks, TypeOK
  <2>4. QED
    BY <2>1, <2>2, <2>3 DEF AccessInv, Locks, TypeOK
<1>2. call'[s] = r /\ \A q \in Session \ {s} : call'[q] = call[q]
  BY DEF AccessInv, Locks, TypeOK
<1>3. RowHeld'
  BY <1>2, AccessAssumption DEF RowHeld, AccessInv, Locks
<1>4. CredentialHeld'
  <2>1. SUFFICES ASSUME NEW q \in Session, call'[q] # Idle, call'[q].op = "work",
                        call'[q].pc \in {"checked", "locked"}
                 PROVE  credLock'[call'[q].cred] = q /\ creds'[call'[q].cred].status = "active"
    BY DEF CredentialHeld
  <2>2. CASE q = s
    BY <1>2, <2>1, <2>2
  <2>3. CASE q # s
    <3>1. call'[q] = call[q]
      BY <1>2, <2>3
    <3>2. credLock[call[q].cred] = q /\ creds[call[q].cred].status = "active"
      BY <2>1, <3>1 DEF AccessInv, Locks, CredentialHeld
    <3>3. call[q].cred \in Credential
      BY <2>1, <3>1 DEF AccessInv, Locks, TypeOK, Request, Idle, OwnRow, AdminCall, QuickAction
    <3>4. credLock'[call[q].cred] = q
      BY <3>2, <3>3, AccessAssumption DEF AccessInv, Locks, TypeOK
    <3>5. QED
      BY <3>1, <3>2, <3>4
  <2>4. QED
    BY <2>2, <2>3
<1>5. FoundIsAll'
  BY <1>2 DEF FoundIsAll, AccessInv, Locks, Active
<1>6. QED
  BY <1>1, <1>3, <1>4, <1>5, SameCredentials DEF Locks

LEMMA AuthenticateInv ==
    ASSUME AccessInv, NEW s \in Session, NEW op \in WorkerCall, NEW c \in Credential,
           Authenticate(s, op, c)
    PROVE  AccessInv'
<1> DEFINE r == Authenticated(op, c)
<1>1. r \in Request
  BY DEF Request, Authenticated, WorkerCall
<1>2. call' = [call EXCEPT ![s] = r] /\ UNCHANGED <<creds, worker, admin, rowLock, credLock, killed, jammed>>
  BY DEF Authenticate
<1>3. r.pc = "authenticated"
  BY DEF Authenticated
<1> HIDE DEF r
<1>4. QED
  BY <1>1, <1>2, <1>3, GoesOn

LEMMA BeginInv ==
    ASSUME AccessInv, NEW s \in Session, NEW op \in AdminCall, BeginAdmin(s, op)
    PROVE  AccessInv'
<1> DEFINE r == [op |-> op, pc |-> "begun", found |-> {}, copy |-> CopyFor(op)]
<1>1. CopyFor(op) \in Copy
  BY DEF AccessInv, Locks, TypeOK, WorkerRegistration, Copy, CopyFor
<1>2. r \in Request
  BY <1>1 DEF Request
<1>3. call' = [call EXCEPT ![s] = r] /\ UNCHANGED <<creds, worker, admin, rowLock, credLock, killed, jammed>>
  BY DEF BeginAdmin
<1>4. r.pc = "begun"
  OBVIOUS
<1> HIDE DEF r
<1>5. QED
  BY <1>2, <1>3, <1>4, GoesOn

\* The second look at the credential takes its lock, or ends the request.
LEMMA RecheckInv ==
    ASSUME AccessInv, NEW s \in Session, RecheckCredential(s)
    PROVE  AccessInv'
<1>1. CASE ~Valid(call[s].cred)
  BY <1>1, RollBackInv DEF RecheckCredential
<1>2. CASE Valid(call[s].cred)
  <2> DEFINE r == [call[s] EXCEPT !.pc = "checked"]
  <2>1. call[s] \in [op : {"work"}, pc : {"authenticated", "checked", "locked"}, cred : Credential]
    BY DEF RecheckCredential, AccessInv, Locks, TypeOK, Request, OwnRow, AdminCall, QuickAction, Idle
  <2>2. r \in Request /\ r.pc = "checked" /\ r.op = "work" /\ r.cred = call[s].cred
    BY <2>1 DEF Request, RecheckCredential
  <2>3. /\ call' = [call EXCEPT ![s] = r]
        /\ UNCHANGED <<creds, worker, admin, rowLock, killed, jammed>>
        /\ credLock[r.cred] = Nobody /\ credLock' = [credLock EXCEPT ![r.cred] = s]
        /\ creds[r.cred].status = "active"
    BY <1>2, <2>2 DEF RecheckCredential, LockCredential, Valid, AccessInv, Locks, TypeOK
  <2>4. r.cred \in Credential
    BY <2>1, <2>2
  <2>5. credLock'[r.cred] = s
    BY <2>3, <2>4 DEF AccessInv, Locks, TypeOK
  <2> HIDE DEF r
  <2>6. QED
    BY <2>2, <2>3, <2>4, <2>5, GoesOn
<1>3. QED
  BY <1>1, <1>2

LEMMA LockForWorkInv ==
    ASSUME AccessInv, NEW s \in Session, LockForWork(s)
    PROVE  AccessInv'
<1> DEFINE r == [call[s] EXCEPT !.pc = "locked"]
<1>1. call[s] \in [op : {"work"}, pc : {"authenticated", "checked", "locked"}, cred : Credential]
  BY DEF LockForWork, AccessInv, Locks, TypeOK, Request, OwnRow, AdminCall, QuickAction, Idle
<1>2. r \in Request /\ r.pc = "locked" /\ r.op = "work" /\ r.cred = call[s].cred
  BY <1>1 DEF Request, LockForWork
<1>3. /\ call' = [call EXCEPT ![s] = r]
      /\ UNCHANGED <<creds, worker, admin, credLock, killed, jammed>>
      /\ rowLock = Nobody /\ rowLock' = s
  BY DEF LockForWork, LockRow, AccessInv, Locks, TypeOK
<1>4. credLock[r.cred] = s /\ creds[r.cred].status = "active"
  BY <1>2 DEF LockForWork, AccessInv, Locks, CredentialHeld
<1> HIDE DEF r
<1>5. QED
  BY <1>2, <1>3, <1>4, GoesOn

LEMMA LockForAdminInv ==
    ASSUME AccessInv, NEW s \in Session, LockAndFind(s) \/ LockForStop(s) \/ RevokeInVain(s)
    PROVE  AccessInv'
<1>1. call[s] \in [op : AdminCall, pc : {"begun", "locked", "unlocked", "vain"},
                   found : SUBSET Credential, copy : Copy]
  BY DEF LockAndFind, LockForStop, RevokeInVain, AccessInv, Locks, TypeOK, Request, OwnRow, Idle
<1>2. Active \in SUBSET Credential
  BY DEF Active
<1>3. CASE LockAndFind(s)
  <2> DEFINE r == [call[s] EXCEPT !.pc = "locked", !.found = Active]
  <2>1. r \in Request /\ r.pc = "locked" /\ r.op \in {"rotate", "revoke"} /\ r.found = Active
    BY <1>1, <1>2, <1>3 DEF Request, LockAndFind
  <2>2. /\ call' = [call EXCEPT ![s] = r]
        /\ UNCHANGED <<creds, worker, admin, credLock, killed, jammed>>
        /\ rowLock = Nobody /\ rowLock' = s
    BY <1>3 DEF LockAndFind, LockRow, AccessInv, Locks, TypeOK
  <2> HIDE DEF r
  <2>3. QED
    BY <2>1, <2>2, GoesOn
<1>4. CASE LockForStop(s) /\ admin
  <2> DEFINE r == [call[s] EXCEPT !.pc = "locked"]
  <2>1. r \in Request /\ r.pc = "locked" /\ r.op = "stop"
    BY <1>1, <1>4 DEF Request, LockForStop
  <2>2. /\ call' = [call EXCEPT ![s] = r]
        /\ UNCHANGED <<creds, worker, admin, credLock, killed, jammed>>
        /\ rowLock = Nobody /\ rowLock' = s
    BY <1>4 DEF LockForStop, LockRow, AccessInv, Locks, TypeOK
  <2> HIDE DEF r
  <2>3. QED
    BY <2>1, <2>2, GoesOn
<1>5. CASE LockForStop(s) /\ ~admin
  <2> DEFINE r == [call[s] EXCEPT !.pc = "unlocked"]
  <2>1. r \in Request /\ r.pc = "unlocked" /\ r.op = "stop"
    BY <1>1, <1>5 DEF Request, LockForStop
  <2>2. /\ call' = [call EXCEPT ![s] = r]
        /\ UNCHANGED <<creds, worker, admin, rowLock, credLock, killed, jammed>>
    BY <1>5 DEF LockForStop, AccessInv, Locks, TypeOK
  <2> HIDE DEF r
  <2>3. QED
    BY <2>1, <2>2, GoesOn
<1>6. CASE RevokeInVain(s)
  <2> DEFINE r == [call[s] EXCEPT !.pc = "vain"]
  <2>1. r \in Request /\ r.pc = "vain" /\ r.op = "stop"
    BY <1>1, <1>6 DEF Request, RevokeInVain
  <2>2. /\ call' = [call EXCEPT ![s] = r]
        /\ UNCHANGED <<creds, worker, admin, rowLock, credLock, killed, jammed>>
    BY <1>6 DEF RevokeInVain, AccessInv, Locks, TypeOK
  <2> HIDE DEF r
  <2>3. QED
    BY <2>1, <2>2, GoesOn
<1>7. QED
  BY <1>3, <1>4, <1>5, <1>6

(***************************************************************************)
(* The requests that write.                                                *)
(***************************************************************************)
\* Those that leave the credentials alone, and the end of others.
LEMMA ServedInv ==
    ASSUME AccessInv, NEW s \in Session, EndsHere(s), worker' \in WorkerRegistration,
           UNCHANGED <<creds, admin, killed, jammed>>
    PROVE  AccessInv'
<1>1. Active' = Active
  BY DEF Active
<1>2. Locks'
  BY <1>1, Ended DEF AccessInv, Locks, TypeOK
<1>3. QED
  BY <1>2, SameCredentials

LEMMA OfflineType == ASSUME worker \in WorkerRegistration PROVE Offline \in WorkerRegistration
BY DEF WorkerRegistration, Offline

LEMMA StoppedType ==
    ASSUME worker \in WorkerRegistration, NEW copy PROVE Stopped(copy) \in WorkerRegistration
<1>1. CASE copy.up
  BY <1>1, OfflineType DEF WorkerRegistration, Stopped
<1>2. CASE ~copy.up
  BY <1>2 DEF WorkerRegistration, Stopped
<1>3. QED
  BY <1>1, <1>2

LEMMA PlainStepInv ==
    ASSUME AccessInv, NEW s \in Session,
           \/ DoWork(s) \/ Register(s) \/ Heartbeat(s) \/ Deregister(s)
           \/ PauseWorkers(s) \/ ResumeWorkers(s) \/ StopInVain(s)
           \/ SetDrain(s, TRUE) \/ SetDrain(s, FALSE) \/ Forbidden(s) \/ Raises(s)
    PROVE  AccessInv'
<1>1. CASE DoWork(s) \/ Forbidden(s) \/ Raises(s)
  BY <1>1, RollBackInv DEF DoWork, Forbidden, Raises
<1>2. worker \in WorkerRegistration
  BY DEF AccessInv, Locks, TypeOK
<1>3. CASE Register(s) \/ Heartbeat(s) \/ Deregister(s)
  <2>1. EndsHere(s) /\ UNCHANGED <<creds, admin, killed, jammed>>
    BY <1>3 DEF Register, Heartbeat, Deregister, Serve
  <2>2. worker' \in WorkerRegistration
    BY <1>2, <1>3, OfflineType DEF Register, Heartbeat, Deregister, Serve, WorkerRegistration
  <2>3. QED
    BY <2>1, <2>2, ServedInv
<1>4. CASE StopInVain(s)
  BY <1>2, <1>4, StoppedType, ServedInv DEF StopInVain
<1>5. CASE PauseWorkers(s) \/ ResumeWorkers(s) \/ SetDrain(s, TRUE) \/ SetDrain(s, FALSE)
  <2>1. EndsHere(s) /\ UNCHANGED <<creds, admin, killed, jammed>>
    BY <1>5 DEF PauseWorkers, ResumeWorkers, SetAllDrain, SetDrain
  <2>2. worker' \in WorkerRegistration
    BY <1>2, <1>5 DEF PauseWorkers, ResumeWorkers, SetAllDrain, SetDrain, WorkerRegistration
  <2>3. QED
    BY <2>1, <2>2, ServedInv
<1>6. QED
  BY <1>1, <1>3, <1>4, <1>5

\* The new credential is the one that lasts: those that were active, which the rotation has
\* found, are in their grace period, or past it.
LEMMA RotateInv == ASSUME AccessInv, NEW s \in Session, Rotate(s) PROVE AccessInv'
<1>1. PICK new \in Unissued :
          creds' = [c \in Credential |->
                      IF c = new THEN Issued
                      ELSE IF c \in call[s].found \cap Active THEN InGrace(creds[c]) ELSE creds[c]]
  BY DEF Rotate
<1>2. creds \in [Credential -> CredentialRow] /\ new \in Credential /\ creds[new].status = "absent"
  BY DEF AccessInv, Locks, TypeOK, Unissued
<1>3. rowLock = s /\ Active \subseteq call[s].found
  BY DEF Rotate, AccessInv, Locks, RowHeld, FoundIsAll
<1>4. \A c \in Credential \ {new} :
         /\ creds'[c] \in CredentialRow /\ creds'[c].status = creds[c].status
         /\ creds'[c].status = "active" => creds'[c].expires # "never"
  BY <1>1, <1>2, <1>3 DEF InGrace, CredentialRow, Active
<1>5. creds'[new] = Issued /\ Issued \in CredentialRow
  BY <1>1, <1>2 DEF Issued, CredentialRow
<1>6. creds' \in [Credential -> CredentialRow]
  <2>1. creds' = [c \in Credential |-> creds'[c]]
    BY <1>1
  <2>2. \A c \in Credential : creds'[c] \in CredentialRow
    BY <1>4, <1>5
  <2>3. QED
    BY <2>1, <2>2
<1>7. \A c \in Credential : creds[c].status = "active" => creds'[c].status = "active"
  BY <1>2, <1>4
<1>8. Locks'
  <2>1. EndsHere(s) /\ UNCHANGED <<worker, admin, jammed>> /\ killed' = FALSE
    BY DEF Rotate
  <2>2. QED
    BY <1>3, <1>6, <1>7, <2>1, Ended DEF AccessInv, Locks, TypeOK
<1>9. OneLastingCredential'
  BY <1>4 DEF OneLastingCredential, Active
<1>10. KillIsComplete'
  BY DEF Rotate, KillIsComplete
<1>11. QED
  BY <1>8, <1>9, <1>10 DEF AccessInv

LEMMA RevokedType ==
    ASSUME creds \in [Credential -> CredentialRow], NEW C
    PROVE  RevokedOf(C) \in [Credential -> CredentialRow]
BY DEF RevokedOf, Revoked, CredentialRow

\* Nothing that is active is left, and none of it was locked by a request about work.
LEMMA KillInv == ASSUME AccessInv, NEW s \in Session, Revoke(s) \/ EmergencyStop(s) PROVE AccessInv'
<1>1. PICK C : /\ EndsHere(s) /\ NotLockedByOthers(s, C) /\ creds' = RevokedOf(C)
               /\ killed' = TRUE /\ UNCHANGED <<admin, jammed>> /\ rowLock = s
               /\ Active \subseteq C
  <2>1. CASE Revoke(s)
    BY <2>1 DEF Revoke, AccessInv, Locks, RowHeld, FoundIsAll
  <2>2. CASE EmergencyStop(s)
    BY <2>2 DEF EmergencyStop, AccessInv, Locks, RowHeld
  <2>3. QED
    BY <2>1, <2>2
<1>2. worker \in WorkerRegistration /\ creds \in [Credential -> CredentialRow]
  BY DEF AccessInv, Locks, TypeOK
<1>3. worker' \in WorkerRegistration
  BY <1>2, OfflineType, StoppedType DEF Revoke, EmergencyStop
<1>4. creds' \in [Credential -> CredentialRow] /\ \A c \in Credential : creds'[c].status # "active"
  BY <1>1, <1>2, RevokedType DEF RevokedOf, Revoked, Active
<1>5. \A c \in Credential : creds[c].status = "active" => credLock[c] \in {Nobody, s}
  BY <1>1 DEF NotLockedByOthers, Active
<1>6. Active' = {}
  BY <1>4 DEF Active
<1>7. Locks'
  BY <1>1, <1>3, <1>4, <1>5, Ended DEF AccessInv, Locks, TypeOK
<1>8. QED
  BY <1>6, <1>7 DEF AccessInv, KillIsComplete, OneLastingCredential

\* A stop without the lock revokes some of what is active, and claims nothing.
LEMMA StopUnlockedInv == ASSUME AccessInv, NEW s \in Session, StopUnlocked(s) PROVE AccessInv'
<1>1. PICK last \in Credential :
          LET seen == {c \in Active : c <= last}
          IN  NotLockedByOthers(s, seen) /\ creds' = RevokedOf(seen)
  BY DEF StopUnlocked
<1> DEFINE seen == {c \in Active : c <= last}
<1>2. /\ NotLockedByOthers(s, seen) /\ creds' = RevokedOf(seen) /\ seen \subseteq Active
      /\ worker' = Stopped(call[s].copy) /\ EndsHere(s) /\ UNCHANGED <<admin, killed, jammed>>
  BY <1>1 DEF StopUnlocked
<1> HIDE DEF seen
<1>3. worker \in WorkerRegistration /\ creds \in [Credential -> CredentialRow]
  BY DEF AccessInv, Locks, TypeOK
<1>4. worker' \in WorkerRegistration /\ creds' \in [Credential -> CredentialRow]
  BY <1>2, <1>3, StoppedType, RevokedType
<1>5. \A c \in Credential : creds'[c] = IF c \in seen THEN Revoked ELSE creds[c]
  BY <1>2 DEF RevokedOf
<1>6. Active' \subseteq Active /\ \A c \in Active' : creds'[c] = creds[c]
  BY <1>5 DEF Active, Revoked
<1>7. \A c \in Credential : credLock[c] \notin {Nobody, s} => creds'[c] = creds[c]
  BY <1>2, <1>5 DEF NotLockedByOthers
<1>8. Locks'
  BY <1>2, <1>4, <1>6, <1>7, Ended DEF AccessInv, Locks, TypeOK
<1>9. KillIsComplete'
  BY <1>2, <1>6 DEF AccessInv, KillIsComplete
<1>10. OneLastingCredential'
  BY <1>6 DEF AccessInv, OneLastingCredential
<1>11. QED
  BY <1>8, <1>9, <1>10 DEF AccessInv

\* Clocks, the sweep, the recovery, the team and the database.
LEMMA EnvironmentInv ==
    ASSUME AccessInv, Victims \/ (\E c \in Credential : Expire(c)) \/ Age \/ Sweep \/ Demoted
           \/ RecoveryChanges
    PROVE  AccessInv'
<1>1. CASE Victims
  BY <1>1, RollBackInv DEF Victims, DeadlockVictim
<1>2. ASSUME NEW c \in Credential, Expire(c) PROVE AccessInv'
  <2>1. \A d \in Credential :
           /\ creds'[d] \in CredentialRow /\ creds'[d].status = creds[d].status
           /\ creds'[d].expires = "never" => creds[d].expires = "never"
    BY <1>2 DEF Expire, AccessInv, Locks, TypeOK, CredentialRow
  <2>2. Active' = Active
    BY <2>1 DEF Active
  <2>3. creds' \in [Credential -> CredentialRow]
    BY <1>2, <2>1 DEF Expire, AccessInv, Locks, TypeOK
  <2>4. UNCHANGED <<worker, admin, call, rowLock, credLock, killed, jammed>>
    BY <1>2 DEF Expire
  <2>5. CredentialHeld'
    <3>1. \A s \in Session : call[s] # Idle /\ call[s].op = "work" => call[s].cred \in Credential
      BY DEF AccessInv, Locks, TypeOK, Request, Idle, OwnRow, AdminCall, QuickAction
    <3>2. QED
      BY <2>1, <2>4, <3>1 DEF AccessInv, Locks, CredentialHeld
  <2>6. TypeOK' /\ RowHeld' /\ FoundIsAll'
    BY <2>2, <2>3, <2>4 DEF AccessInv, Locks, TypeOK, RowHeld, FoundIsAll
  <2>7. KillIsComplete' /\ OneLastingCredential'
    <3>1. \A d \in Active : d \in Credential
      BY DEF Active
    <3>2. QED
      BY <2>1, <2>2, <2>4, <3>1 DEF AccessInv, KillIsComplete, OneLastingCredential
  <2>8. QED
    BY <2>5, <2>6, <2>7 DEF AccessInv, Locks
<1>3. CASE Age \/ Sweep \/ Demoted \/ RecoveryChanges
  <2>1. worker' \in WorkerRegistration /\ admin' \in BOOLEAN /\ jammed' \in BOOLEAN
    BY <1>3, OfflineType
       DEF Age, Sweep, Demoted, RecoveryChanges, AccessInv, Locks, TypeOK, WorkerRegistration
  <2>2. UNCHANGED <<creds, call, rowLock, credLock, killed>>
    BY <1>3 DEF Age, Sweep, Demoted, RecoveryChanges
  <2>3. Active' = Active
    BY <2>2 DEF Active
  <2>4. Locks'
    BY <2>1, <2>2, <2>3 DEF AccessInv, Locks, TypeOK, RowHeld, CredentialHeld, FoundIsAll
  <2>5. QED
    BY <2>2, <2>4, SameCredentials
<1>4. QED
  BY <1>1, <1>2, <1>3

LEMMA NextAccessInv == AccessInv /\ [Next]_vars => AccessInv'
<1>1. SUFFICES ASSUME AccessInv, [Next]_vars PROVE AccessInv'
  OBVIOUS
<1>2. CASE UNCHANGED vars
  <2>1. Active' = Active
    BY <1>2 DEF vars, Active
  <2>2. Locks'
    BY <1>1, <1>2, <2>1 DEF vars, AccessInv, Locks, TypeOK, RowHeld, CredentialHeld, FoundIsAll
  <2>3. QED
    BY <1>1, <1>2, <2>2, SameCredentials DEF vars
<1>3. ASSUME NEW s \in Session, WorkerStep(s) \/ AdminStep(s) \/ Raises(s) PROVE AccessInv'
  BY <1>1, <1>3, RecheckInv, LockForWorkInv, LockForAdminInv, PlainStepInv, RotateInv, KillInv,
     StopUnlockedInv DEF WorkerStep, AdminStep
<1>4. ASSUME NEW s \in Session,
             \/ \E op \in WorkerCall, c \in Credential : Authenticate(s, op, c)
             \/ \E op \in AdminCall : BeginAdmin(s, op)
      PROVE  AccessInv'
  BY <1>1, <1>4, AuthenticateInv, BeginInv
<1>5. QED
  BY <1>1, <1>2, <1>3, <1>4, EnvironmentInv DEF Next

LEMMA SpecAccessInv == Spec => []AccessInv
BY InitAccessInv, NextAccessInv, PTL DEF Spec

-----------------------------------------------------------------------------
\* The rows of worker_registry and worker_credentials, the requests and their locks keep
\* their types.
THEOREM AccessTypes == Spec => []TypeOK
<1>1. AccessInv => TypeOK
  BY DEF AccessInv, Locks
<1>2. QED
  BY <1>1, SpecAccessInv, PTL

\* No request touches an assignment under a credential that has been revoked, however a
\* revocation overlaps it (_assert_credential_still_active).
THEOREM Authorised == Spec => []WorkIsAuthorised
<1>1. AccessInv => WorkIsAuthorised
  BY DEF AccessInv, Locks, CredentialHeld, WorkIsAuthorised
<1>2. QED
  BY <1>1, SpecAccessInv, PTL

\* A kill switch that an admin throws, who is one still when it revokes, revokes all there is,
\* whatever rotations, and stops of admins who are none any more, overlap it
\* (rotate_worker_credential, revoke_worker_credentials, emergency_stop).
THEOREM KilledForGood == Spec => []KillIsComplete
<1>1. AccessInv => KillIsComplete
  BY DEF AccessInv
<1>2. QED
  BY <1>1, SpecAccessInv, PTL

\* Of any number of rotations, overlapping or not, one leaves a credential that does not
\* expire (rotate_worker_credential).
THEOREM OneLasts == Spec => []OneLastingCredential
<1>1. AccessInv => OneLastingCredential
  BY DEF AccessInv
<1>2. QED
  BY <1>1, SpecAccessInv, PTL

(***************************************************************************)
(* The team of a workspace.                                                *)
(***************************************************************************)
\* What the request in t relies on, in a workspace w whose members have the roles rs.
Sound(t, w, rs) ==
    t # NoRequest =>
        /\ w.created
        /\ t.op = "remove" => t.role = "none"
        /\ t.op # "remove" => t.role # "none"
        /\ ~t.stale => t.was = rs[t.caller]
        /\ ~t.stale /\ t.pc # "entered" /\ t.op # "invite" /\ rs[t.target] = "admin"
             => \E p \in Person : p # t.target /\ rs[p] = "admin"

TeamInv ==
    /\ TeamTypeOK
    /\ ~workspace.created => \A p \in Person : ~Member(p)
    /\ \A s \in Client : Sound(tx[s], workspace, roles)
    /\ EmptiedOnlyByRace

LEMMA NoRequestIsNone == \A t \in MembershipRequest : t # NoRequest
  BY DEF MembershipRequest, NoRequest

LEMMA TeamInitInv == TeamInit => TeamInv
<1>1. SUFFICES ASSUME TeamInit PROVE TeamInv
  OBVIOUS
<1>2. TeamTypeOK
  BY <1>1 DEF TeamInit, TeamTypeOK, Login, Workspace, Membership
<1>3. QED
  BY <1>1, <1>2 DEF TeamInit, TeamInv, Sound, Member, EmptiedOnlyByRace, AdminRemains

(***************************************************************************)
(* The steps that leave the team and its requests alone.                   *)
(***************************************************************************)
LEMMA AccountsKeep == TeamInv /\ AccountRequests => TeamInv'
<1>1. SUFFICES ASSUME TeamInv, NEW p \in Person,
                      SignUp(p) \/ LogIn(p, TRUE) \/ LogIn(p, FALSE) \/ WindowEnds(p)
               PROVE  TeamInv'
  BY DEF AccountRequests
<1>2. /\ UNCHANGED <<workspace, roles, tx, raced>>
      /\ profiles' \subseteq Profile
  BY <1>1 DEF SignUp, LogIn, WindowEnds, TeamInv, TeamTypeOK, Profile
<1>3. login' \in [Person -> Login]
  <2>1. ASSUME NEW l \in Login PROVE Failed(l) \in Login
    BY <2>1, SMTT(30) DEF Login, Failed
  <2>2. CASE SignUp(p)
    BY <1>1, <2>2 DEF SignUp, TeamInv, TeamTypeOK
  <2>3. CASE LogIn(p, TRUE) \/ LogIn(p, FALSE)
    <3>1. login[p] \in Login
      BY <1>1 DEF TeamInv, TeamTypeOK
    <3>2. PICK new \in Login : login' = [login EXCEPT ![p] = new]
      BY <1>1, <2>1, <2>3, <3>1 DEF LogIn, Login
    <3>3. QED
      BY <1>1, <3>2 DEF TeamInv, TeamTypeOK
  <2>4. CASE WindowEnds(p)
    BY <1>1, <2>4 DEF WindowEnds, TeamInv, TeamTypeOK, Login
  <2>5. QED
    BY <1>1, <2>2, <2>3, <2>4
<1>4. TeamTypeOK'
  BY <1>1, <1>2, <1>3 DEF TeamInv, TeamTypeOK
<1>5. Admins' = Admins /\ \A q \in Person : Member(q)' = Member(q)
  BY <1>2 DEF Admins, IsAdmin, Member
<1>6. QED
  BY <1>1, <1>2, <1>4, <1>5 DEF TeamInv, EmptiedOnlyByRace, AdminRemains

LEMMA CreateKeeps ==
    ASSUME TeamInv, NEW p \in Person, CreateWorkspace(p) PROVE TeamInv'
<1>1. workspace' = [created |-> TRUE, capped |-> TRUE, by |-> {p}] /\ ~workspace.created
  BY DEF CreateWorkspace, WithDefaultCap, TeamInv, TeamTypeOK, Workspace
<1>2. \A s \in Client : tx'[s] = NoRequest
  BY <1>1, NoRequestIsNone DEF CreateWorkspace, TeamInv, Sound
<1>3. TeamTypeOK'
  <2>1. workspace' \in Workspace
    BY <1>1 DEF Workspace
  <2>2. /\ roles' = [roles EXCEPT ![p] = "admin"]
        /\ UNCHANGED <<profiles, login, tx, raced>>
    BY DEF CreateWorkspace
  <2>3. QED
    BY <2>1, <2>2 DEF TeamInv, TeamTypeOK, Membership, WorkspaceRole
<1>4. p \in Admins'
  BY DEF CreateWorkspace, TeamInv, TeamTypeOK, Membership, Admins, IsAdmin
<1>5. QED
  BY <1>1, <1>2, <1>3, <1>4 DEF TeamInv, Sound, EmptiedOnlyByRace, AdminRemains

(***************************************************************************)
(* The requests.                                                           *)
(***************************************************************************)
\* A request that begins, is checked or ends changes its own record only.
LEMMA OwnRecord ==
    ASSUME TeamInv, NEW s \in Client, NEW t \in MembershipRequest \cup {NoRequest},
           tx' = [tx EXCEPT ![s] = t],
           UNCHANGED <<profiles, login, workspace, roles, raced>>,
           Sound(t, workspace, roles)
    PROVE  TeamInv'
<1>1. TeamTypeOK'
  BY DEF TeamInv, TeamTypeOK
<1>2. Admins' = Admins /\ \A q \in Person : Member(q)' = Member(q)
  BY DEF Admins, IsAdmin, Member
<1>3. \A r \in Client : tx'[r] = IF r = s THEN t ELSE tx[r]
  BY DEF TeamInv, TeamTypeOK
<1>4. \A r \in Client : Sound(tx'[r], workspace', roles')
  BY <1>3 DEF TeamInv
<1>5. QED
  BY <1>1, <1>2, <1>4 DEF TeamInv, EmptiedOnlyByRace, AdminRemains

LEMMA RequestsKeep == TeamInv /\ MembershipRequests => TeamInv'
<1>1. SUFFICES ASSUME TeamInv, NEW s \in Client, NEW c \in Person, NEW u \in Person,
                      \/ \E r \in WorkspaceRole : Invite(s, c, u, r) \/ UpdateRole(s, c, u, r)
                      \/ Remove(s, c, u)
               PROVE  TeamInv'
  BY DEF MembershipRequests
<1>2. PICK op \in {"invite", "update", "remove"}, r \in WorkspaceRole \cup {"none"} :
          Enter(s, op, c, u, r) /\ Member(c) /\ (op = "remove" <=> r = "none")
  BY <1>1 DEF Invite, UpdateRole, Remove, WorkspaceRole, Member, IsAdmin
<1> DEFINE t == [op |-> op, caller |-> c, target |-> u, role |-> r, was |-> roles[c],
                 pc |-> "entered", allowed |-> FALSE, stale |-> FALSE, lost |-> FALSE]
<1>3. t \in MembershipRequest
  BY <1>1, <1>2 DEF MembershipRequest, TeamInv, TeamTypeOK, Membership
<1>4. Sound(t, workspace, roles)
  BY <1>1, <1>2 DEF Sound, TeamInv
<1>5. tx' = [tx EXCEPT ![s] = t] /\ UNCHANGED <<profiles, login, workspace, roles, raced>>
  BY <1>2 DEF Enter
<1> HIDE DEF t
<1>6. QED
  BY <1>1, <1>3, <1>4, <1>5, OwnRecord

\* What has been read and counted is so, unless another request has committed meanwhile.
LEMMA DecideKeeps == ASSUME TeamInv, NEW s \in Client, Decide(s) PROVE TeamInv'
<1> DEFINE q == tx[s]
           t == [q EXCEPT !.pc = "decided"]
<1>1. q \in MembershipRequest /\ q # NoRequest /\ Sound(q, workspace, roles)
  BY DEF Decide, TeamInv, TeamTypeOK
<1>2. /\ \/ tx' = [tx EXCEPT ![s] = NoRequest]
         \/ tx' = [tx EXCEPT ![s] = t] /\ (q.op # "invite" => ChangeStands(q))
      /\ UNCHANGED <<profiles, login, workspace, roles, raced>>
  BY DEF Decide, TeamInv, TeamTypeOK
<1>3. CASE tx' = [tx EXCEPT ![s] = NoRequest]
  BY <1>2, <1>3, OwnRecord DEF Sound
<1>4. CASE tx' = [tx EXCEPT ![s] = t] /\ (q.op # "invite" => ChangeStands(q))
  <2>1. /\ t \in MembershipRequest /\ t.op = q.op /\ t.role = q.role /\ t.was = q.was
        /\ t.stale = q.stale /\ t.caller = q.caller /\ t.target = q.target
    BY <1>1 DEF MembershipRequest
  <2>2. ASSUME ~q.stale, q.op # "invite", roles[q.target] = "admin"
        PROVE  \E p \in Person : p # q.target /\ roles[p] = "admin"
    <3>1. q.was = roles[q.caller]
      BY <1>1, <2>2 DEF Sound
    <3>2. SeveralAdmins
      BY <1>4, <2>2, <3>1 DEF ChangeStands, SeenRole
    <3>3. QED
      BY <3>2 DEF SeveralAdmins, Admins, IsAdmin
  <2> HIDE DEF q, t
  <2>3. Sound(t, workspace, roles)
    BY <1>1, <2>1, <2>2 DEF Sound
  <2>4. QED
    BY <1>2, <1>4, <2>1, <2>3, OwnRecord
<1>5. QED
  BY <1>2, <1>3, <1>4

LEMMA SendKeeps == ASSUME TeamInv, NEW s \in Client, Send(s) PROVE TeamInv'
<1> DEFINE q == tx[s]
           t == [q EXCEPT !.pc = "sent", !.allowed = Permitted(q)]
<1>1. q \in MembershipRequest /\ q # NoRequest /\ q.pc = "decided" /\ Sound(q, workspace, roles)
  BY DEF Send, TeamInv, TeamTypeOK
<1>2. Permitted(q) \in BOOLEAN
  BY <1>1 DEF Permitted, Insertable, Reclaims, Updatable, Deletable, IsAdmin, Member,
              MembershipRequest
<1>3. /\ t \in MembershipRequest /\ t.op = q.op /\ t.role = q.role /\ t.was = q.was
      /\ t.stale = q.stale /\ t.caller = q.caller /\ t.target = q.target
  BY <1>1, <1>2 DEF MembershipRequest
<1>4. tx' = [tx EXCEPT ![s] = t]
  BY <1>1 DEF Send, TeamInv, TeamTypeOK
<1> HIDE DEF q, t
<1>5. Sound(t, workspace, roles)
  BY <1>1, <1>3 DEF Sound
<1>6. QED
  BY <1>3, <1>4, <1>5, OwnRecord DEF Send

LEMMA EndKeeps == ASSUME TeamInv, NEW s \in Client, End(s) PROVE TeamInv'
  BY OwnRecord DEF End, Sound

LEMMA CommitKeeps == ASSUME TeamInv, NEW s \in Client, Commit(s) PROVE TeamInv'
<1> DEFINE t == tx[s]
<1>1. /\ t \in MembershipRequest /\ t # NoRequest /\ workspace.created
      /\ Sound(t, workspace, roles) /\ Effective(t)
      /\ t.pc = "sent"
  BY DEF Commit, TeamInv, TeamTypeOK, Sound
<1>2. /\ roles' = [roles EXCEPT ![t.target] = t.role]
      /\ tx' = [r \in Client |-> IF r = s THEN NoRequest ELSE Overtaken(tx[r], t)]
      /\ raced' = (raced \/ (t.stale /\ IsAdmin(t.target) /\ t.role # "admin"))
      /\ UNCHANGED <<profiles, login, workspace>>
  BY DEF Commit
<1>3. /\ t.target \in Person /\ t.role \in WorkspaceRole \cup {"none"}
      /\ t.stale \in BOOLEAN /\ t.op \in {"invite", "update", "remove"}
  BY <1>1 DEF MembershipRequest
<1> HIDE DEF t
<1>4. ASSUME NEW r \in Client, tx'[r] # NoRequest
      PROVE  /\ tx'[r] \in MembershipRequest /\ tx'[r].stale
             /\ Sound(tx'[r], workspace', roles')
  <2>1. tx[r] \in MembershipRequest /\ tx'[r] = Overtaken(tx[r], t) /\ Sound(tx[r], workspace, roles)
    BY <1>2, <1>4 DEF Overtaken, TeamInv, TeamTypeOK
  <2>2. tx[r] # NoRequest
    BY <2>1, NoRequestIsNone
  <2>3. tx'[r] = [tx[r] EXCEPT !.stale = TRUE,
                               !.lost = @ \/ (tx[r].target = t.target /\ t.op = "remove")]
    BY <2>1, <2>2 DEF Overtaken
  <2>4. /\ tx'[r] \in MembershipRequest /\ tx'[r].stale
        /\ tx'[r].op = tx[r].op /\ tx'[r].role = tx[r].role
    BY <2>1, <2>3 DEF MembershipRequest
  <2>5. QED
    BY <1>2, <2>1, <2>2, <2>4 DEF Sound
<1>5. TeamTypeOK'
  <2>1. roles' \in Membership
    BY <1>2, <1>3 DEF TeamInv, TeamTypeOK, Membership
  <2>2. tx' \in [Client -> MembershipRequest \cup {NoRequest}]
    <3>1. \A r \in Client : tx'[r] \in MembershipRequest \cup {NoRequest}
      BY <1>4
    <3>2. QED
      BY <1>2, <3>1
  <2>3. QED
    BY <1>2, <1>3, <2>1, <2>2 DEF TeamInv, TeamTypeOK, IsAdmin
<1>6. EmptiedOnlyByRace'
  <2>1. SUFFICES ASSUME ~raced' PROVE Admins' # {}
    BY DEF EmptiedOnlyByRace, AdminRemains
  <2>2. Admins # {}
    BY <1>1, <1>2, <2>1 DEF TeamInv, EmptiedOnlyByRace, AdminRemains
  <2>3. \A q \in Person : q # t.target => (q \in Admins' <=> q \in Admins)
    BY <1>2 DEF TeamInv, TeamTypeOK, Membership, Admins, IsAdmin
  <2>4. CASE t.role = "admin"
    BY <1>2, <1>3, <2>4 DEF TeamInv, TeamTypeOK, Membership, Admins, IsAdmin
  <2>5. CASE t.role # "admin" /\ t.target \notin Admins
    BY <2>2, <2>3, <2>5 DEF Admins
  <2>6. CASE t.role # "admin" /\ t.target \in Admins
    <3>1. IsAdmin(t.target) /\ Member(t.target)
      BY <2>6 DEF Admins, IsAdmin, Member
    <3>2. ~t.stale /\ t.op # "invite"
      BY <1>1, <1>2, <1>3, <2>1, <2>6, <3>1 DEF Effective
    <3>3. PICK p \in Person : p # t.target /\ roles[p] = "admin"
      BY <1>1, <3>1, <3>2 DEF Sound, IsAdmin
    <3>4. QED
      BY <2>3, <3>3 DEF Admins, IsAdmin
  <2>7. QED
    BY <2>4, <2>5, <2>6
<1>7. \A r \in Client : Sound(tx'[r], workspace', roles')
  BY <1>4 DEF Sound
<1>8. workspace'.created
  BY <1>1, <1>2
<1>9. QED
  BY <1>5, <1>6, <1>7, <1>8 DEF TeamInv

LEMMA TeamNextInv == TeamInv /\ [TeamNext]_teamVars => TeamInv'
<1>1. SUFFICES ASSUME TeamInv, [TeamNext]_teamVars PROVE TeamInv'
  OBVIOUS
<1>2. CASE AccountRequests
  BY <1>1, <1>2, AccountsKeep
<1>3. CASE \E p \in Person : CreateWorkspace(p)
  BY <1>1, <1>3, CreateKeeps
<1>4. CASE MembershipRequests
  BY <1>1, <1>4, RequestsKeep
<1>5. CASE \E s \in Client : Decide(s) \/ Send(s) \/ Commit(s) \/ End(s)
  BY <1>1, <1>5, DecideKeeps, SendKeeps, CommitKeeps, EndKeeps
<1>6. CASE UNCHANGED teamVars
  <2>1. Admins' = Admins /\ \A q \in Person : Member(q)' = Member(q)
    BY <1>6 DEF teamVars, Admins, IsAdmin, Member
  <2>2. QED
    BY <1>1, <1>6, <2>1 DEF teamVars, TeamInv, TeamTypeOK, EmptiedOnlyByRace, AdminRemains
<1>7. QED
  BY <1>1, <1>2, <1>3, <1>4, <1>5, <1>6 DEF TeamNext

LEMMA TeamAlwaysInv == TeamSpec => []TeamInv
  BY TeamInitInv, TeamNextInv, PTL DEF TeamSpec

\* Every variable keeps its type, whatever the requests and their order.
THEOREM TeamTypes == TeamSpec => []TeamTypeOK
  BY TeamAlwaysInv, PTL DEF TeamInv

\* A workspace has an admin for as long as no request that takes one away was overtaken by
\* another between its guard (require_workspace_admin, _admin_count) and its commit.
THEOREM EmptiedByRaceAlone == TeamSpec => []EmptiedOnlyByRace
  BY TeamAlwaysInv, PTL DEF TeamInv

(***************************************************************************)
(* Without admins for good.                                                *)
(***************************************************************************)
LEMMA OrphanedKept == TeamInv /\ TeamInv' /\ [TeamNext]_teamVars /\ Orphaned => Orphaned'
<1>1. SUFFICES ASSUME TeamInv, TeamInv', [TeamNext]_teamVars, Orphaned PROVE Orphaned'
  OBVIOUS
<1>2. CASE UNCHANGED <<workspace, roles, tx>>
  BY <1>1, <1>2 DEF Orphaned, Reclaims, Admins, IsAdmin
<1>3. CASE \E p \in Person : CreateWorkspace(p)
  BY <1>1, <1>3 DEF CreateWorkspace, Orphaned
<1>4. CASE MembershipRequests
  <2>1. PICK s \in Client, c \in Person, u \in Person : Remove(s, c, u)
    BY <1>1, <1>4 DEF MembershipRequests, Invite, UpdateRole, Orphaned, Admins
  <2>2. Admins' = Admins /\ workspace' = workspace
    BY <2>1 DEF Remove, Enter, Admins, IsAdmin
  <2>3. \A q \in Client : tx'[q] = tx[q] \/ (~tx'[q].allowed /\ tx'[q].op = "remove")
    BY <1>1, <2>1 DEF Remove, Enter, TeamInv, TeamTypeOK
  <2>4. QED
    BY <1>1, <2>2, <2>3 DEF Orphaned, Reclaims
<1>5. ASSUME NEW s \in Client, Decide(s) PROVE Orphaned'
  <2>1. tx[s] \in MembershipRequest /\ tx[s] # NoRequest /\ tx[s].pc = "entered"
    BY <1>1, <1>5 DEF Decide, TeamInv, TeamTypeOK
  <2>2. tx'[s] = NoRequest \/ tx'[s] = [tx[s] EXCEPT !.pc = "decided"]
    BY <1>1, <1>5 DEF Decide, TeamInv, TeamTypeOK
  <2>3. (tx[s].allowed => tx[s].role # "admin") /\ ~Reclaims(tx[s])
    BY <1>1, <2>1 DEF Orphaned
  <2>4. ASSUME tx'[s] # NoRequest
        PROVE  (tx'[s].allowed => tx'[s].role # "admin") /\ ~Reclaims(tx'[s])
    <3>1. /\ tx'[s].allowed = tx[s].allowed /\ tx'[s].role = tx[s].role /\ tx'[s].op = tx[s].op
          /\ tx'[s].target = tx[s].target /\ tx'[s].caller = tx[s].caller
      BY <2>1, <2>2, <2>4 DEF MembershipRequest
    <3>2. QED
      BY <2>3, <3>1 DEF Reclaims
  <2>5. UNCHANGED <<roles, workspace>> /\ Admins' = Admins
    BY <1>5 DEF Decide, Admins, IsAdmin
  <2>6. \A q \in Client : q # s => tx'[q] = tx[q]
    BY <1>1, <1>5 DEF Decide, TeamInv, TeamTypeOK
  <2>7. QED
    BY <1>1, <2>4, <2>5, <2>6 DEF Orphaned, Reclaims
<1>5a. ASSUME NEW s \in Client, Send(s) PROVE Orphaned'
  <2>1. /\ tx[s] \in MembershipRequest /\ tx[s] # NoRequest /\ tx[s].pc = "decided"
        /\ tx' = [tx EXCEPT ![s] = [tx[s] EXCEPT !.pc = "sent", !.allowed = Permitted(tx[s])]]
    BY <1>1, <1>5a DEF Send, TeamInv, TeamTypeOK
  <2>2. tx'[s].allowed = Permitted(tx[s]) /\ tx'[s].role = tx[s].role /\ tx'[s].pc = "sent"
    BY <1>1, <2>1 DEF TeamInv, TeamTypeOK, MembershipRequest
  <2>3. (\A p \in Person : ~IsAdmin(p)) /\ ~Reclaims(tx[s])
    BY <1>1, <2>1 DEF Orphaned, Admins
  <2>4. ASSUME tx'[s].allowed PROVE tx'[s].role # "admin"
    <3>1. tx[s].op = "remove"
      BY <2>1, <2>2, <2>3, <2>4 DEF Permitted, Insertable, Updatable, MembershipRequest
    <3>2. QED
      BY <1>1, <2>1, <2>2, <3>1 DEF TeamInv, Sound
  <2>5. Admins' = Admins /\ workspace' = workspace
    BY <1>5a DEF Send, Admins, IsAdmin
  <2>6. \A q \in Client : q # s => tx'[q] = tx[q]
    BY <1>1, <2>1 DEF TeamInv, TeamTypeOK
  <2>7. QED
    BY <1>1, <2>2, <2>4, <2>5, <2>6 DEF Orphaned, Reclaims
<1>6. ASSUME NEW s \in Client, Commit(s) PROVE Orphaned'
  <2>1. /\ tx[s] \in MembershipRequest /\ tx[s] # NoRequest /\ tx[s].allowed
        /\ roles' = [roles EXCEPT ![tx[s].target] = tx[s].role]
        /\ workspace' = workspace
        /\ tx' = [r \in Client |-> IF r = s THEN NoRequest ELSE Overtaken(tx[r], tx[s])]
    BY <1>1, <1>6 DEF Commit, Effective, TeamInv, TeamTypeOK
  <2>2. tx[s].role # "admin"
    BY <1>1, <2>1 DEF Orphaned
  <2>3. Admins' = {}
    BY <1>1, <2>1, <2>2 DEF Orphaned, Admins, IsAdmin, TeamInv, TeamTypeOK, Membership
  <2>4. ASSUME NEW r \in Client, tx'[r] # NoRequest
        PROVE  /\ tx[r] # NoRequest /\ tx'[r].allowed = tx[r].allowed /\ tx'[r].role = tx[r].role
               /\ tx'[r].op = tx[r].op /\ tx'[r].caller = tx[r].caller
               /\ tx'[r].target = tx[r].target /\ tx'[r].pc = tx[r].pc
    <3>1. tx'[r] = Overtaken(tx[r], tx[s]) /\ tx[r] \in MembershipRequest \cup {NoRequest}
      BY <1>1, <2>1, <2>4 DEF TeamInv, TeamTypeOK
    <3>2. tx[r] \in MembershipRequest
      BY <2>4, <3>1 DEF Overtaken
    <3>3. QED
      BY <3>1, <3>2, NoRequestIsNone DEF Overtaken, MembershipRequest
  <2>5. QED
    BY <1>1, <2>1, <2>3, <2>4 DEF Orphaned, Reclaims
<1>7. ASSUME NEW s \in Client, End(s) PROVE Orphaned'
  <2>1. Admins' = Admins /\ workspace' = workspace
    BY <1>7 DEF End, Admins, IsAdmin
  <2>2. \A q \in Client : tx'[q] = tx[q] \/ tx'[q] = NoRequest
    BY <1>1, <1>7 DEF End, TeamInv, TeamTypeOK
  <2>3. QED
    BY <1>1, <2>1, <2>2 DEF Orphaned, Reclaims
<1>8. CASE AccountRequests
  BY <1>2, <1>8 DEF AccountRequests, SignUp, LogIn, WindowEnds
<1>9. QED
  BY <1>1, <1>2, <1>3, <1>4, <1>5, <1>6, <1>7, <1>5a, <1>8 DEF TeamNext, teamVars

\* No request gives admins back to a workspace that has lost them, but one that was let in
\* before: a statement that row-level security has passed already (memberships_update), or an
\* invitation of its creator for himself (memberships_insert).
THEOREM NoWayBack == TeamSpec => OrphanedForGood
<1>1. TeamInv /\ TeamInv' /\ [TeamNext]_teamVars => [Orphaned => Orphaned']_teamVars
  BY OrphanedKept
<1>2. QED
  BY <1>1, TeamAlwaysInv, PTL DEF TeamSpec, OrphanedForGood

(***************************************************************************)
(* Guesses at a password.                                                  *)
(***************************************************************************)
\* A login is locked exactly when it has the limit of failures.
LockedAtTheLimit ==
    \A p \in Person :
        /\ login[p] \in Login
        /\ login[p].failed <= MaxFailed
        /\ login[p].locked <=> login[p].failed = MaxFailed

LEMMA LockKept ==
    ASSUME MaxFailed \in Nat \ {0}, TeamTypeOK, LockedAtTheLimit, [TeamNext]_teamVars
    PROVE  LockedAtTheLimit'
<1>1. CASE UNCHANGED login
  BY <1>1 DEF LockedAtTheLimit
<1>2. ASSUME NEW p \in Person, LogIn(p, TRUE) \/ LogIn(p, FALSE) \/ WindowEnds(p)
      PROVE  LockedAtTheLimit'
  <2>1. login \in [Person -> Login] /\ login[p] \in Login
    BY DEF TeamTypeOK
  <2>2. \/ login' = [login EXCEPT ![p] = [failed |-> 0, locked |-> FALSE]]
        \/ ~login[p].locked /\ login' = [login EXCEPT ![p] = Failed(login[p])]
    BY <1>2 DEF LogIn, WindowEnds
  <2>3. \A q \in Person : q # p => login'[q] = login[q]
    BY <2>1, <2>2
  <2>4. CASE login' = [login EXCEPT ![p] = [failed |-> 0, locked |-> FALSE]]
    BY <2>1, <2>3, <2>4 DEF LockedAtTheLimit, Login
  <2>5. CASE ~login[p].locked /\ login' = [login EXCEPT ![p] = Failed(login[p])]
    <3>1. login'[p] = Failed(login[p])
      BY <2>1, <2>5
    <3>2. /\ login[p].failed \in Nat
          /\ login[p].failed < MaxFailed
      BY <2>1, <2>5 DEF LockedAtTheLimit, Login
    <3> DEFINE n == login[p].failed + 1
    <3>5. n \in Nat /\ n <= MaxFailed /\ (n >= MaxFailed) \in BOOLEAN /\ (n >= MaxFailed <=> n = MaxFailed)
      BY <3>2
    <3>6. PICK b \in BOOLEAN : /\ b <=> n >= MaxFailed
                               /\ login'[p] = [failed |-> n, locked |-> b]
      BY <3>1, <3>5, Zenon DEF Failed
    <3> HIDE DEF n
    <3>7. login'[p].failed = n /\ (login'[p].locked <=> n >= MaxFailed)
      <4>1. login'[p].failed = n /\ login'[p].locked = b
        BY <3>6
      <4>2. QED
        BY <3>6, <4>1, Zenon
    <3>8. login'[p] \in Login
      BY <3>5, <3>6 DEF Login
    <3>3. /\ login'[p] \in Login
          /\ login'[p].failed <= MaxFailed
          /\ login'[p].locked <=> login'[p].failed = MaxFailed
      BY <3>5, <3>7, <3>8
    <3>4. QED
      BY <2>3, <3>3 DEF LockedAtTheLimit
  <2>6. QED
    BY <2>2, <2>4, <2>5
<1>3. CASE AccountRequests
  BY <1>1, <1>2, <1>3 DEF AccountRequests, SignUp
<1>4. ASSUME \/ \E p \in Person : CreateWorkspace(p)
             \/ MembershipRequests
             \/ \E s \in Client : Decide(s) \/ Send(s) \/ Commit(s) \/ End(s)
      PROVE  UNCHANGED login
  <2>1. ASSUME NEW p \in Person, CreateWorkspace(p) PROVE UNCHANGED login
    BY <2>1 DEF CreateWorkspace
  <2>2. ASSUME MembershipRequests PROVE UNCHANGED login
    BY <2>2 DEF MembershipRequests, Invite, UpdateRole, Remove, Enter
  <2>3. ASSUME NEW s \in Client, Decide(s) \/ Send(s) \/ Commit(s) \/ End(s)
        PROVE  UNCHANGED login
    BY <2>3 DEF Decide, Send, Commit, End
  <2>4. QED
    BY <1>4, <2>1, <2>2, <2>3
<1>5. CASE UNCHANGED teamVars
  BY <1>1, <1>5 DEF teamVars
<1>6. QED
  BY <1>1, <1>3, <1>4, <1>5 DEF TeamNext

\* However many requests guess at a password at once, no more than MAX_FAILED_ATTEMPTS of
\* them are counted before the login is locked: the row's lock makes each see the last.
THEOREM GuessesBounded ==
    ASSUME MaxFailed \in Nat \ {0}
    PROVE  TeamSpec => []GuessesAreBounded
<1>1. TeamInit => LockedAtTheLimit
  <2>1. SUFFICES ASSUME TeamInit, NEW p \in Person
                 PROVE  /\ login[p] \in Login
                        /\ login[p].failed <= MaxFailed
                        /\ login[p].locked <=> login[p].failed = MaxFailed
    BY DEF LockedAtTheLimit
  <2>2. login[p] = [failed |-> 0, locked |-> FALSE]
    BY <2>1 DEF TeamInit
  <2>3. login[p].failed = 0 /\ ~login[p].locked
    BY <2>2
  <2>4. login[p] \in Login
    BY <2>2 DEF Login
  <2>5. 0 <= MaxFailed /\ 0 # MaxFailed
    OBVIOUS
  <2>6. QED
    BY <2>3, <2>4, <2>5
<1>2. TeamTypeOK /\ LockedAtTheLimit /\ [TeamNext]_teamVars => LockedAtTheLimit'
  BY LockKept
<1>3. LockedAtTheLimit => GuessesAreBounded
  BY DEF LockedAtTheLimit, GuessesAreBounded
<1>4. QED
  BY <1>1, <1>2, <1>3, TeamTypes, PTL DEF TeamSpec
=============================================================================
