---------------------------- MODULE WorkerProtocol ----------------------------
(***************************************************************************)
(* The lease server of AssignmentLease together with what calls it: the    *)
(* reference worker (apps/worker), a process that claims, acknowledges,    *)
(* renews, executes and submits one row at a time while a second task      *)
(* sends heartbeats, over HTTP requests that may outlive their caller.     *)
(*                                                                         *)
(* A call is served while its worker waits for it, or the worker gives it  *)
(* up (timeout, lost response, killed process): the request is then a      *)
(* stray, which the server may still serve at any later moment, or never.  *)
(* A response that is lost after the request was served is a stray that is *)
(* served at once.                                                         *)
(***************************************************************************)
EXTENDS AssignmentLease

CONSTANTS
    Token,        \* claim tokens (uuid4: a fresh one is one nobody holds)
    NoToken,      \* claim_token IS NULL
    NoJob,        \* the worker works on no row
    Pinned,       \* workers whose registry row names a workspace
    ClaimTries,   \* _CLAIM_NETWORK_RETRY_ATTEMPTS
    MaxStray,     \* bound on the stray requests that exist at one time
    MaxLoad       \* bound on client.current_load

ASSUME ProtocolAssumption ==
    /\ Pinned \subseteq Worker
    /\ NoToken \notin Token /\ NoJob \notin Assignment
    /\ ClaimTries \in Nat \ {0} /\ MaxStray \in Nat
    /\ MaxLoad \in Nat /\ MaxLoad > MaxConcurrency

VARIABLES
    client,    \* client[w]: the process of worker w
    stray,     \* requests whose caller no longer waits
    token,     \* token[a]: stage_assignments.claim_token
    executed   \* executed[a]: how often an executor was run for row a

lease == <<row, reg, effects, locked>>

protocolVars == <<row, reg, effects, locked, client, stray, token, executed>>

-----------------------------------------------------------------------------
\* The process.  pc names the call it waits for, or what it does between calls.
Calling == {"claiming", "acking", "renewing", "submitting"}

Pc == Calling \cup {"down", "idle", "executing", "stopping"}

Client == [pc      : Pc,
           job     : Assignment \cup {NoJob},
           try     : 0..MaxNumber,           \* attempt_number of the claimed row
           load    : 0..MaxLoad,               \* client.current_load
           token   : Token \cup {NoToken},
           tries   : 0..ClaimTries,
           success : BOOLEAN]                  \* what it submits

Resting(pc, load) ==
    [pc |-> pc, job |-> NoJob, try |-> 0, load |-> load, token |-> NoToken, tries |-> 0,
     success |-> FALSE]

\* A claim under token t, with so many tries left.
Claiming(load, t, tries) ==
    [pc |-> "claiming", job |-> NoJob, try |-> 0, load |-> load, token |-> t, tries |-> tries,
     success |-> FALSE]

\* Work on row a, granted as attempt k, from its acknowledgement on.
Working(pc, a, k, load, success) ==
    [pc |-> pc, job |-> a, try |-> k, load |-> load, token |-> NoToken, tries |-> 0,
     success |-> success]

\* A request carries what its handler reads.
CallOf(w) ==
    [kind |-> client[w].pc, worker |-> w, job |-> client[w].job, try |-> client[w].try,
     load |-> 0, token |-> client[w].token, success |-> client[w].success]

BeatOf(w) ==
    [kind |-> "beat", worker |-> w, job |-> NoJob, try |-> 0, load |-> client[w].load,
     token |-> NoToken, success |-> FALSE]

Request == [kind : Calling \cup {"beat"}, worker : Worker, job : Assignment \cup {NoJob},
            try : 0..MaxNumber, load : 0..MaxLoad, token : Token \cup {NoToken},
            success : BOOLEAN]

ProtocolTypeOK ==
    /\ TypeOK
    /\ client \in [Worker -> Client]
    /\ stray \subseteq Request
    /\ token \in [Assignment -> Token \cup {NoToken}]
    /\ executed \in [Assignment -> Nat]

ProtocolInit ==
    /\ Init
    /\ client = [w \in Worker |-> Resting("down", 0)]
    /\ stray = {}
    /\ token = [a \in Assignment |-> NoToken]
    /\ executed = [a \in Assignment |-> 0]

-----------------------------------------------------------------------------
\* What serving a request does.

\* A recovered row loses its claim token with its owner.
TokensKept ==
    token' = [a \in Assignment |-> IF row'[a].owner = Nobody THEN NoToken ELSE token[a]]

\* The row this worker was granted under this token and has not acknowledged.
HeldUnder(w, t) ==
    {a \in Assignment : row[a].status = "dispatched" /\ row[a].owner = w /\ token[a] = t}

\* claim_assignment grants a: again if it is held under the token, else anew.
Granting(q, a) ==
    \/ /\ a \in HeldUnder(q.worker, q.token)
       /\ UNCHANGED <<lease, token>>
    \/ /\ HeldUnder(q.worker, q.token) = {}
       /\ Claim(q.worker, a)
       /\ token' = [token EXCEPT ![a] = q.token]

Acked(q) == Ack(q.worker, q.job) /\ TokensKept

Renewed(q) == Renew(q.worker, q.job) /\ TokensKept

\* The submit of a row that ended already is answered again, not refused; a
\* pinned worker need not even be the one that ended it.
Replays(q) ==
    /\ row[q.job].status \in {"completed", "failed"} /\ q.job \in effects
    /\ q.worker \in Pinned \/ row[q.job].owner = q.worker

Submitted(q) ==
    \/ /\ Submit(q.worker, q.job, q.success)
       /\ TokensKept
    \/ ~reg[q.worker].gone /\ Replays(q) /\ UNCHANGED <<lease, token>>

Beaten(q) ==
    /\ Heartbeat(q.worker, IF q.load > 0 THEN "busy" ELSE "online", q.load)
    /\ TokensKept

\* A request is refused when its handler would do nothing; one about a row
\* that a tick has locked waits instead.
Refused(q) ==
    \/ reg[q.worker].gone
    \/ /\ q.job \notin locked
       /\ CASE q.kind = "acking" ->
                  ~(Extendable(row[q.job], q.worker) /\ row[q.job].status = "dispatched")
            [] q.kind = "renewing" -> ~Extendable(row[q.job], q.worker)
            [] q.kind = "submitting" -> ~Accepts(row[q.job], q.worker) /\ ~Replays(q)

-----------------------------------------------------------------------------
\* The worker's main loop (main.py, client.py).

Becomes(w, c) == client' = [client EXCEPT ![w] = c]

\* It goes on with the row it works on.
Goes(w, pc, success) ==
    Becomes(w, Working(pc, client[w].job, client[w].try, client[w].load, success))

\* An exception is logged and the loop goes on: current_load stays as it is.
GivesUp(w) == Becomes(w, Resting("idle", client[w].load))

\* A restarted process registers, which abandons what it held before.
Boot(w) ==
    /\ client[w].pc = "down"
    /\ Register(w) /\ TokensKept
    /\ Becomes(w, Resting("idle", 0)) \/ UNCHANGED client
    /\ UNCHANGED <<stray, executed>>

UsedTokens ==
    {token[a] : a \in Assignment} \cup {q.token : q \in stray} \cup {client[w].token : w \in Worker}

ClaimNext(w) ==
    /\ client[w].pc = "idle"
    /\ \E t \in Token \ UsedTokens :
           Becomes(w, Claiming(client[w].load, t, ClaimTries))
    /\ UNCHANGED <<lease, stray, token, executed>>

ClaimGranted(w, a) ==
    /\ client[w].pc = "claiming" /\ client[w].load < MaxLoad
    /\ Granting(CallOf(w), a)
    /\ Becomes(w, Working("acking", a, row[a].attempt, client[w].load + 1, FALSE))
    /\ UNCHANGED <<stray, executed>>

\* no_work, capacity or ineligible: always possible, for claim_assignment also
\* asks the stage, the provider budget and the spend cap.
ClaimRefused(w) ==
    /\ client[w].pc = "claiming" /\ HeldUnder(w, client[w].token) = {}
    /\ GivesUp(w)
    /\ UNCHANGED <<lease, stray, token, executed>>

\* Mutant of AckOk: provider_effect_created is not looked at.
AckOkBlind(w) ==
    /\ client[w].pc = "acking"
    /\ Acked(CallOf(w))
    /\ Goes(w, "renewing", FALSE)
    /\ UNCHANGED <<stray, executed>>

\* Mutant of AckOk: an attempt that may not execute reports a success.
AckOkFabricating(w) ==
    /\ client[w].pc = "acking"
    /\ Acked(CallOf(w))
    /\ IF client[w].job \in effects THEN Goes(w, "submitting", TRUE) ELSE Goes(w, "renewing", FALSE)
    /\ UNCHANGED <<stray, executed>>

\* provider_effect_created is false when an earlier attempt reserved the key:
\* the worker then submits a failure instead of executing.
AckOk(w) ==
    /\ client[w].pc = "acking"
    /\ Acked(CallOf(w))
    /\ Goes(w, IF client[w].job \in effects THEN "submitting" ELSE "renewing", FALSE)
    /\ UNCHANGED <<stray, executed>>

\* After the renewal the executor runs.
RenewOk(w) ==
    /\ client[w].pc = "renewing"
    /\ Renewed(CallOf(w))
    /\ Goes(w, "executing", FALSE)
    /\ executed' = [executed EXCEPT ![client[w].job] = @ + 1]
    /\ UNCHANGED stray

\* It returns a success, a failure, or raises.
Executed(w) ==
    /\ client[w].pc = "executing"
    /\ \/ \E s \in BOOLEAN : Goes(w, "submitting", s)
       \/ GivesUp(w)
    /\ UNCHANGED <<lease, stray, token, executed>>

SubmitOk(w) ==
    /\ client[w].pc = "submitting"
    /\ Submitted(CallOf(w))
    /\ Becomes(w, Resting("idle", IF client[w].load > 0 THEN client[w].load - 1 ELSE 0))
    /\ UNCHANGED <<stray, executed>>

CallRefused(w) ==
    /\ client[w].pc \in Calling \ {"claiming"}
    /\ Refused(CallOf(w))
    /\ GivesUp(w)
    /\ UNCHANGED <<lease, stray, token, executed>>

\* The response does not come: only a claim is sent again, with its token.
CallLost(w) ==
    /\ client[w].pc \in Calling
    /\ Cardinality(stray) < MaxStray
    /\ stray' = stray \cup {CallOf(w)}
    /\ IF client[w].tries > 1
       THEN Becomes(w, Claiming(client[w].load, client[w].token, client[w].tries - 1))
       ELSE GivesUp(w)
    /\ UNCHANGED <<lease, token, executed>>

\* The heartbeat task, at any moment of the main loop: the heartbeat arrives at
\* once or later than the state it reports.
Beat(w) ==
    /\ client[w].pc \notin {"down", "stopping"}
    /\ \/ Beaten(BeatOf(w)) /\ UNCHANGED stray
       \/ /\ Cardinality(stray) < MaxStray
          /\ stray' = stray \cup {BeatOf(w)}
          /\ UNCHANGED <<lease, token>>
    /\ UNCHANGED <<client, executed>>

\* SIGTERM, seen at the top of the loop: drain, then deregister.
Drain(w) ==
    /\ client[w].pc = "idle"
    /\ Heartbeat(w, "draining", client[w].load) /\ TokensKept
    /\ Becomes(w, Resting("stopping", client[w].load))
    /\ UNCHANGED <<stray, executed>>

Leave(w) ==
    /\ client[w].pc = "stopping"
    /\ Deregister(w) /\ TokensKept
    /\ Becomes(w, Resting("down", 0))
    /\ UNCHANGED <<stray, executed>>

\* The process is killed; a call it waited for may still arrive.
Crash(w) ==
    /\ client[w].pc # "down"
    /\ Becomes(w, Resting("down", 0))
    /\ \/ UNCHANGED stray
       \/ /\ client[w].pc \in Calling /\ Cardinality(stray) < MaxStray
          /\ stray' = stray \cup {CallOf(w)}
    /\ UNCHANGED <<lease, token, executed>>

-----------------------------------------------------------------------------
\* The network and the rest of the server.

StrayServed(q) ==
    /\ stray' = stray \ {q}
    /\ \/ /\ q.kind = "claiming" /\ \E a \in Assignment : Granting(q, a)
       \/ q.kind = "acking" /\ Acked(q)
       \/ q.kind = "renewing" /\ Renewed(q)
       \/ q.kind = "submitting" /\ Submitted(q)
       \/ q.kind = "beat" /\ Beaten(q)
    /\ UNCHANGED <<client, executed>>

StrayLost(q) ==
    /\ stray' = stray \ {q}
    /\ UNCHANGED <<lease, client, token, executed>>

Server ==
    /\ Scheduler \/ Maintenance \/ Tick
    /\ TokensKept
    /\ UNCHANGED <<client, stray, executed>>

Process(w) ==
    \/ Boot(w) \/ ClaimNext(w) \/ \E a \in Assignment : ClaimGranted(w, a)
    \/ ClaimRefused(w) \/ AckOk(w) \/ RenewOk(w) \/ Executed(w) \/ SubmitOk(w)
    \/ CallRefused(w) \/ CallLost(w) \/ Beat(w) \/ Drain(w) \/ Leave(w) \/ Crash(w)

ProtocolNext ==
    \/ \E w \in Worker : Process(w)
    \/ \E q \in stray : StrayServed(q) \/ StrayLost(q)
    \/ Server

ProtocolSpec == ProtocolInit /\ [][ProtocolNext]_protocolVars

-----------------------------------------------------------------------------
\* Properties.

\* provider_effects.py: over all attempts of a row, by whichever worker, and
\* however many crashes, timeouts and late requests there are, the executor
\* runs at most once.
EffectOncePerRow == \A a \in Assignment : executed[a] <= 1

\* client.py: a success is never made up.  A row that completed was executed,
\* even when the attempt that completed it is not the one that executed it.
CompletedWasExecuted ==
    \A a \in Assignment : row[a].status = "completed" => executed[a] = 1 /\ a \in effects

\* client.py: a worker that was told to execute is the only one that was, and
\* nobody has executed the row before.
OneReservation ==
    \A w \in Worker : client[w].pc = "renewing" =>
        /\ executed[client[w].job] = 0
        /\ \A v \in Worker \ {w} :
               client[v].pc \in {"renewing", "executing"} => client[v].job # client[w].job

=============================================================================
