---------------------------- MODULE WorkerAccess ----------------------------
(***************************************************************************)
(* Who may act as a worker: the credentials of one worker, the requests it *)
(* makes with them, and what the workspace's admins do about it: rotate    *)
(* and revoke credentials, the drain, and the emergency stop.              *)
(*                                                                         *)
(* A request of the worker is authenticated in a session of its own, and   *)
(* then served in another.  A request about work locks the credential and  *)
(* looks at it again before it locks the worker's row; a registration, a   *)
(* heartbeat and a deregistration lock the row only.  A rotation and a     *)
(* revocation lock the row first and the credentials at their commit:      *)
(* with a request about work they can wait for each other, and the         *)
(* database then aborts one.                                               *)
(*                                                                         *)
(* Whoever cuts the worker off recovers what it holds in the same          *)
(* transaction, and so does the sweep that takes a silent worker offline:  *)
(* while a recovery meets a taken key, none of them commits.  The quick    *)
(* actions run over the admin's own connection, where an admin who was     *)
(* demoted on the way finds no rows, which is no error.                    *)
(*                                                                         *)
(* What requests about work do is AssignmentLease; here they are what      *)
(* must not happen once the worker has been cut off.                       *)
(***************************************************************************)
EXTENDS Naturals

CONSTANTS
    MaxCredentials,  \* bound on the credentials that are ever issued to the worker
    Session,         \* concurrent requests
    Nobody           \* no session holds the lock

ASSUME AccessAssumption == MaxCredentials \in Nat \ {0} /\ Nobody \notin Session

VARIABLES
    creds,    \* creds[c]: the row c of worker_credentials
    worker,   \* the worker's row in worker_registry
    admin,    \* is the admin who acts still one?
    call,     \* call[s]: the request that session s serves
    rowLock,  \* who holds the lock of the worker's row
    credLock, \* credLock[c]: who holds the lock of credential c
    killed,   \* history: the worker was cut off by an admin who still was one when the
              \* credentials were revoked, and no credential has been issued since
    jammed    \* recovering what is due meets a key that is taken, and raises

vars == <<creds, worker, admin, call, rowLock, credLock, killed, jammed>>

\* ids of the worker's credentials, in the order they are issued
Credential == 1..MaxCredentials
\* An expiry in the grace period lies ahead, one that is past does not.
CredentialRow ==
    [status : {"absent", "active", "revoked"}, expires : {"never", "grace", "past"}]
\* up: the status is not offline; fresh: and the last heartbeat is not too old for that.
WorkerRegistration == [up : BOOLEAN, drain : BOOLEAN, gone : BOOLEAN, fresh : BOOLEAN]

OwnRow == {"register", "beat", "leave"}
WorkerCall == OwnRow \cup {"work"}
QuickAction == {"stop", "pause", "resume"}
AdminCall == {"rotate", "revoke", "drain"} \cup QuickAction
\* What the session of a quick action has read of the row.
Copy == [up : BOOLEAN, drain : BOOLEAN]
Idle == [op |-> "idle"]
Request ==
    [op : OwnRow, pc : {"authenticated"}]
        \cup [op : {"work"}, pc : {"authenticated", "checked", "locked"}, cred : Credential]
        \cup [op : AdminCall, pc : {"begun", "locked", "unlocked", "vain"},
              found : SUBSET Credential, copy : Copy]

TypeOK ==
    /\ creds \in [Credential -> CredentialRow]
    /\ worker \in WorkerRegistration
    /\ admin \in BOOLEAN
    /\ call \in [Session -> Request \cup {Idle}]
    /\ rowLock \in Session \cup {Nobody}
    /\ credLock \in [Credential -> Session \cup {Nobody}]
    /\ killed \in BOOLEAN
    /\ jammed \in BOOLEAN

Valid(c) == creds[c].status = "active" /\ creds[c].expires # "past"
Active == {c \in Credential : creds[c].status = "active"}
Unissued == {c \in Credential : creds[c].status = "absent"}
NoRow == [status |-> "absent", expires |-> "never"]
Issued == [status |-> "active", expires |-> "never"]

\* provision_worker: the row, offline, and the first credential in one transaction.
Init ==
    /\ creds = [c \in Credential |-> IF c = 1 THEN Issued ELSE NoRow]
    /\ worker = [up |-> FALSE, drain |-> FALSE, gone |-> FALSE, fresh |-> FALSE]
    /\ admin = TRUE
    /\ call = [s \in Session |-> Idle]
    /\ rowLock = Nobody
    /\ credLock = [c \in Credential |-> Nobody]
    /\ killed = FALSE
    /\ jammed = FALSE

-----------------------------------------------------------------------------
(* The locks of a session.                                                 *)

\* Mutant: the worker's row is read, not locked.
LockUnheld(s) == UNCHANGED rowLock
LockRow(s) == rowLock = Nobody /\ rowLock' = s
LockCredential(s, c) == credLock[c] = Nobody /\ credLock' = [credLock EXCEPT ![c] = s]
NotLockedByOthers(s, C) == \A c \in C : credLock[c] \in {Nobody, s}
\* A commit and a rollback release what the session holds, and end the request.
EndsHere(s) ==
    /\ call' = [call EXCEPT ![s] = Idle]
    /\ rowLock' = IF rowLock = s THEN Nobody ELSE rowLock
    /\ credLock' = [c \in Credential |-> IF credLock[c] = s THEN Nobody ELSE credLock[c]]
RollBack(s) == EndsHere(s) /\ UNCHANGED <<creds, worker, admin, killed, jammed>>

-----------------------------------------------------------------------------
(* The requests of the worker.                                             *)

\* What is to be remembered of the credential.
Authenticated(op, c) ==
    IF op = "work" THEN [op |-> op, pc |-> "authenticated", cred |-> c]
    ELSE [op |-> op, pc |-> "authenticated"]
\* get_current_worker, in a session of its own that ends with it.
Authenticate(s, op, c) ==
    /\ call[s] = Idle /\ Valid(c)
    /\ call' = [call EXCEPT ![s] = Authenticated(op, c)]
    /\ UNCHANGED <<creds, worker, admin, rowLock, credLock, killed, jammed>>

\* Mutant: what get_current_worker found is believed.
BelieveCredential(s) ==
    /\ call[s] # Idle /\ call[s].op = "work" /\ call[s].pc = "authenticated"
    /\ call' = [call EXCEPT ![s].pc = "checked"]
    /\ UNCHANGED <<creds, worker, admin, rowLock, credLock, killed, jammed>>

\* _assert_credential_still_active
RecheckCredential(s) ==
    /\ call[s] # Idle /\ call[s].op = "work" /\ call[s].pc = "authenticated"
    /\ credLock[call[s].cred] = Nobody
    /\ IF Valid(call[s].cred)
       THEN /\ LockCredential(s, call[s].cred)
            /\ call' = [call EXCEPT ![s].pc = "checked"]
            /\ UNCHANGED <<creds, worker, admin, rowLock, killed, jammed>>
       ELSE RollBack(s)

LockForWork(s) ==
    /\ call[s] # Idle /\ call[s].op = "work" /\ call[s].pc = "checked"
    /\ LockRow(s)
    /\ call' = [call EXCEPT ![s].pc = "locked"]
    /\ UNCHANGED <<creds, worker, admin, credLock, killed, jammed>>

\* claim, ack, renew and submit commit; a deregistered worker is refused.
DoWork(s) ==
    /\ call[s] # Idle /\ call[s].op = "work" /\ call[s].pc = "locked"
    /\ RollBack(s)

Offline == [worker EXCEPT !.up = FALSE, !.fresh = FALSE]

\* The request op, which waits for the worker's row only, leaves it as new.
Serve(s, op, new) ==
    /\ call[s] # Idle /\ call[s].op = op /\ call[s].pc = "authenticated"
    /\ rowLock = Nobody
    /\ worker' = new
    /\ EndsHere(s)
    /\ UNCHANGED <<creds, admin, killed, jammed>>

\* A registration revives a worker that left; the drain is the admins' and stays.
Register(s) == Serve(s, "register", [worker EXCEPT !.up = TRUE, !.fresh = TRUE, !.gone = FALSE])
Heartbeat(s) ==
    Serve(s, "beat", IF worker.gone THEN worker ELSE [worker EXCEPT !.up = TRUE, !.fresh = TRUE])
Deregister(s) == Serve(s, "leave", [Offline EXCEPT !.gone = TRUE])

-----------------------------------------------------------------------------
(* The requests of the admins.                                             *)

\* What of it the request is to write.
CopyFor(op) ==
    [up |-> op = "stop" /\ worker.up, drain |-> op \in QuickAction /\ worker.drain]

\* require_workspace_admin lets them in.  _workspace_workers does not list a worker that
\* left: the quick actions pass it over.
BeginAdmin(s, op) ==
    /\ call[s] = Idle /\ admin
    /\ op \in QuickAction => ~worker.gone
    /\ call' = [call EXCEPT ![s] =
            [op |-> op, pc |-> "begun", found |-> {}, copy |-> CopyFor(op)]]
    /\ UNCHANGED <<creds, worker, admin, rowLock, credLock, killed, jammed>>

\* rotate and revoke, over the owner's connection: the row's lock, then the credentials that
\* are active.  The rotations are bounded.
LockAndFind(s) ==
    /\ call[s] # Idle /\ call[s].op \in {"rotate", "revoke"} /\ call[s].pc = "begun"
    /\ call[s].op = "rotate" => Unissued # {}
    /\ LockRow(s)
    /\ call' = [call EXCEPT ![s].pc = "locked", ![s].found = Active]
    /\ UNCHANGED <<creds, worker, admin, credLock, killed, jammed>>

\* Mutant: a credential without an expiry is not later than the grace period's end.
InGraceIfLater(r) == r
\* The credential expires with the grace period, if it would not before.
InGrace(r) == [r EXCEPT !.expires = IF @ = "past" THEN "past" ELSE "grace"]

\* The new credential lasts.
Rotate(s) ==
    /\ call[s] # Idle /\ call[s].op = "rotate" /\ call[s].pc = "locked"
    /\ NotLockedByOthers(s, call[s].found)
    /\ \E new \in Unissued :
          /\ \A c \in Unissued : new <= c
          /\ creds' = [c \in Credential |->
                          IF c = new THEN Issued
                          ELSE IF c \in call[s].found \cap Active THEN InGrace(creds[c]) ELSE creds[c]]
    /\ killed' = FALSE
    /\ EndsHere(s)
    /\ UNCHANGED <<worker, admin, jammed>>

\* Nobody looks at the expiry of one that is revoked.
Revoked == [status |-> "revoked", expires |-> "never"]
RevokedOf(C) == [c \in Credential |-> IF c \in C THEN Revoked ELSE creds[c]]

Revoke(s) ==
    /\ call[s] # Idle /\ call[s].op = "revoke" /\ call[s].pc = "locked"
    /\ NotLockedByOthers(s, call[s].found)
    /\ creds' = RevokedOf(call[s].found)
    /\ worker' = IF worker.gone THEN worker ELSE Offline
    /\ killed' = TRUE
    /\ EndsHere(s)
    /\ UNCHANGED <<admin, jammed>>

\* An ORM writes those attributes of the row that differ from what its session has listed.
Stopped(copy) ==
    LET w == IF copy.up THEN Offline ELSE worker
    IN  IF copy.drain THEN w ELSE [w EXCEPT !.drain = TRUE]
Differs(copy) == copy.up \/ ~copy.drain

\* emergency_stop, over the admin's own connection: who is none any more finds no row to
\* lock, and goes on without.
LockForStop(s) ==
    /\ call[s] # Idle /\ call[s].op = "stop" /\ call[s].pc = "begun"
    /\ IF admin
       THEN LockRow(s) /\ call' = [call EXCEPT ![s].pc = "locked"]
       ELSE UNCHANGED rowLock /\ call' = [call EXCEPT ![s].pc = "unlocked"]
    /\ UNCHANGED <<creds, worker, admin, credLock, killed, jammed>>

\* The bulk UPDATE under the row's lock takes what is active then.
EmergencyStop(s) ==
    /\ call[s] # Idle /\ call[s].op = "stop" /\ call[s].pc = "locked" /\ admin
    /\ NotLockedByOthers(s, Active)
    /\ creds' = RevokedOf(Active)
    /\ worker' = Stopped(call[s].copy)
    /\ killed' = TRUE
    /\ EndsHere(s)
    /\ UNCHANGED <<admin, jammed>>

\* Without the lock, by who is an admin again: a rotation is not waited for, and what it
\* issues after the UPDATE has looked is missed.
StopUnlocked(s) ==
    /\ call[s] # Idle /\ call[s].op = "stop" /\ call[s].pc = "unlocked" /\ admin
    /\ Differs(call[s].copy) => rowLock = Nobody
    /\ \E last \in Credential :
          LET seen == {c \in Active : c <= last}
          IN  NotLockedByOthers(s, seen) /\ creds' = RevokedOf(seen)
    /\ worker' = Stopped(call[s].copy)
    /\ EndsHere(s)
    /\ UNCHANGED <<admin, killed, jammed>>

\* The UPDATE of who is no admin matches no credential, and the stop goes on.
RevokeInVain(s) ==
    /\ call[s] # Idle /\ call[s].op = "stop" /\ call[s].pc \in {"locked", "unlocked"} /\ ~admin
    /\ call' = [call EXCEPT ![s].pc = "vain"]
    /\ UNCHANGED <<creds, worker, admin, rowLock, credLock, killed, jammed>>

\* It commits if the row needs no write, or its admin is one again.
StopInVain(s) ==
    /\ call[s] # Idle /\ call[s].op = "stop" /\ call[s].pc = "vain"
    /\ Differs(call[s].copy) => admin /\ rowLock \in {Nobody, s}
    /\ worker' = Stopped(call[s].copy)
    /\ EndsHere(s)
    /\ UNCHANGED <<creds, admin, killed, jammed>>

\* pause_workers and resume_workers: the same connection, one UPDATE, if there is a change.
SetAllDrain(s, op, drain) ==
    /\ call[s] # Idle /\ call[s].op = op
    /\ call[s].copy.drain # drain => admin /\ rowLock = Nobody
    /\ worker' = IF call[s].copy.drain = drain THEN worker ELSE [worker EXCEPT !.drain = drain]
    /\ EndsHere(s)
    /\ UNCHANGED <<creds, admin, killed, jammed>>

PauseWorkers(s) == SetAllDrain(s, "pause", TRUE)
ResumeWorkers(s) == SetAllDrain(s, "resume", FALSE)

\* set_worker_drain, over the owner's connection.
SetDrain(s, drain) ==
    /\ call[s] # Idle /\ call[s].op = "drain"
    /\ rowLock = Nobody
    /\ worker' = [worker EXCEPT !.drain = drain]
    /\ EndsHere(s)
    /\ UNCHANGED <<creds, admin, killed, jammed>>

\* The ORM's write of the row must match one: who is no admin any more fails there.
Forbidden(s) ==
    /\ call[s] # Idle /\ call[s].op \in QuickAction /\ ~admin
    /\ call[s].op = "stop" => call[s].pc = "vain"
    /\ RollBack(s)

\* A request that recovers what the worker holds fails with the recovery.
Raises(s) ==
    /\ jammed /\ call[s] # Idle
    /\ \/ call[s].op \in {"register", "leave"}
       \/ call[s].op \in {"revoke", "stop"} /\ call[s].pc # "begun"
    /\ RollBack(s)

-----------------------------------------------------------------------------
(* The rest of the system.                                                 *)

\* The credentials that s is to write.
Wanted(s) == IF call[s].op = "stop" THEN Active ELSE call[s].found
\* Those that r has locked, or an UPDATE of its own, when it waits for the row.
HeldWaiting(r) ==
    IF call[r].op = "work" /\ call[r].pc = "checked" THEN {call[r].cred}
    ELSE IF call[r].op = "stop" /\ call[r].pc = "unlocked" /\ Differs(call[r].copy) THEN Active
    ELSE {}
\* A cycle of waits: s holds the row and wants a credential that r holds, who wants the row.
Deadlocked(s, r) ==
    /\ rowLock = s /\ r # s
    /\ call[s].op \in {"rotate", "revoke", "stop"} /\ call[s].pc = "locked"
    /\ call[r] # Idle /\ HeldWaiting(r) \cap Wanted(s) # {}
\* The database aborts one of the two.
DeadlockVictim(s, r) == Deadlocked(s, r) /\ (RollBack(s) \/ RollBack(r))

\* The grace period of a credential ends.
Expire(c) ==
    /\ creds[c].expires = "grace"
    /\ creds' = [creds EXCEPT ![c].expires = "past"]
    /\ UNCHANGED <<worker, admin, call, rowLock, credLock, killed, jammed>>

\* The worker's last heartbeat grows old.
Age ==
    /\ worker.fresh
    /\ worker' = [worker EXCEPT !.fresh = FALSE]
    /\ UNCHANGED <<creds, admin, call, rowLock, credLock, killed, jammed>>

\* Mutant: the sweep looks where the index ix_worker_registry_live does.
StaleUndrained == worker.up /\ ~worker.fresh /\ ~worker.gone /\ ~worker.drain
\* select_stale_worker_ids
StaleWorker == worker.up /\ ~worker.fresh /\ ~worker.gone

\* mark_stale_workers_offline: a row that is locked is skipped.
Sweep ==
    /\ StaleWorker /\ rowLock = Nobody
    /\ worker' = Offline
    /\ UNCHANGED <<creds, admin, call, rowLock, credLock, killed, jammed>>

\* The team changes: Team.
Demoted ==
    /\ admin' = ~admin
    /\ UNCHANGED <<creds, worker, call, rowLock, credLock, killed, jammed>>

\* What is due for recovery changes, or its key is taken or freed: AssignmentLease.
RecoveryChanges ==
    /\ jammed' = ~jammed
    /\ UNCHANGED <<creds, worker, admin, call, rowLock, credLock, killed>>

WorkerStep(s) ==
    RecheckCredential(s) \/ LockForWork(s) \/ DoWork(s) \/ Register(s) \/ Heartbeat(s) \/ Deregister(s)
AdminStep(s) ==
    \/ LockAndFind(s) \/ Rotate(s) \/ Revoke(s)
    \/ LockForStop(s) \/ EmergencyStop(s) \/ StopUnlocked(s) \/ RevokeInVain(s) \/ StopInVain(s)
    \/ PauseWorkers(s) \/ ResumeWorkers(s) \/ Forbidden(s)
    \/ SetDrain(s, TRUE) \/ SetDrain(s, FALSE)
Victims == \E s, r \in Session : DeadlockVictim(s, r)

Next ==
    \/ \E s \in Session :
          \/ \E op \in WorkerCall, c \in Credential : Authenticate(s, op, c)
          \/ \E op \in AdminCall : BeginAdmin(s, op)
          \/ WorkerStep(s) \/ AdminStep(s) \/ Raises(s)
    \/ Victims
    \/ (\E c \in Credential : Expire(c)) \/ Age \/ Sweep \/ Demoted
    \/ RecoveryChanges

\* Requests that can go on do, or raise; a deadlock is found, and time passes.  The
\* maintenance loop meets the row unlocked again and again and takes it at last, unless the
\* recovery in the same transaction meets a taken key again and again.
Fairness ==
    /\ \A s \in Session : SF_vars(WorkerStep(s) \/ AdminStep(s) \/ Raises(s))
    /\ WF_vars(Victims) /\ WF_vars(Age)
    /\ []<>jammed \/ SF_vars(Sweep)

Spec == Init /\ [][Next]_vars /\ Fairness

-----------------------------------------------------------------------------
(* What the admins can rely on.                                            *)

\* From the second look at its credential to its commit, a request about work has a
\* credential that nobody revokes: a kill switch waits for it, or ends before it.
WorkIsAuthorised ==
    \A s \in Session :
        call[s] # Idle /\ call[s].op = "work" /\ call[s].pc \in {"checked", "locked"}
            => creds[call[s].cred].status = "active"

\* A kill switch that an admin has thrown, and was still one when it revoked, has left no
\* credential to act with, whatever rotations it overlapped: they issue theirs before it, and
\* it is revoked, or after.
KillIsComplete == killed => Active = {}

\* Rotations do not overlap each other either: however many there are, at most one
\* credential never expires.
OneLastingCredential ==
    \A c, d \in Active : creds[c].expires = "never" /\ creds[d].expires = "never" => c = d

\* A worker that was cut off may be up again, by a heartbeat or a registration that was
\* authenticated before; but not for good, unless no sweep commits.
EventuallyDark == (killed /\ worker.up) ~> (~killed \/ ~worker.up \/ jammed)
=============================================================================
