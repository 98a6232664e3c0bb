----------------------------- MODULE OutboxRelay -----------------------------
(***************************************************************************)
(* The transactional outbox of one aggregate: producers that append events *)
(* under its advisory lock, the relay loops that hand them to the          *)
(* registered consumers, and the review desk, which hands over the event   *)
(* it has just emitted in its own transaction.                             *)
(*                                                                         *)
(* A relay tick is one transaction at READ COMMITTED.  It locks the        *)
(* pending events it finds, skipping those another tick has locked, and    *)
(* reads and writes the consumers' checkpoints without a lock: its steps   *)
(* are taken between those of the other processes, and seen when it        *)
(* commits.  Events of other aggregates meet these only in a tick that     *)
(* fails, which may happen to any tick.                                    *)
(***************************************************************************)
EXTENDS Integers, FiniteSets, SequencesExt

CONSTANTS
    Relay,          \* the replicas of the relay loop
    Registry,       \* number of registered consumers, in order
    MaxDeliveries,  \* event_consumers.max_delivery_attempts
    MaxEvents       \* bound of the model: events of the aggregate

Consumer == 1..Registry
Desk == "desk"

ASSUME RelayAssumption ==
    /\ {Registry, MaxDeliveries, MaxEvents} \subseteq Nat \ {0}
    /\ Desk \notin Relay

Process == Relay \cup {Desk}

VARIABLES
    events,   \* outbox_events: the place of an event is its sequence number
    mark,     \* consumer_checkpoints.last_sequence, or NoRow
    tx,       \* the transaction each process is in
    applied,  \* history: the events whose handling a consumer has committed, in order
    letters   \* dead_letter_jobs of job_type event_consumer:<name>

vars == <<events, mark, tx, applied, letters>>

NoRow == -1
Unread == -2

\* for are the consumers with a handler for the event's type.  The attempts of all of
\* them are counted together, and each may fail in the delivery that exhausts them.
Event == [for : SUBSET Consumer, status : {"pending", "dispatched", "poison"},
          attempts : 0..(MaxDeliveries + Registry - 1)]

\* queue is what is still to be dispatched, the first first, rows the session's copies of
\* what it has locked, next the consumer whose turn it is with the first, waits the
\* any_pending of dispatch_one, seen the session's copies of the checkpoints.
Transaction ==
    [open : BOOLEAN, queue : SUBSET (1..MaxEvents), rows : UNION {[S -> Event] : S \in SUBSET (1..MaxEvents)},
     next : Consumer, waits : BOOLEAN, seen : [Consumer -> Nat \cup {Unread}],
     applied : [Consumer -> Seq(1..MaxEvents)], letters : SUBSET (Consumer \X (1..MaxEvents))]

None == [open |-> FALSE, queue |-> {}, rows |-> <<>>, next |-> 1, waits |-> FALSE,
         seen |-> [c \in Consumer |-> Unread], applied |-> [c \in Consumer |-> <<>>], letters |-> {}]

TypeOK ==
    /\ events \in Seq(Event) /\ Len(events) <= MaxEvents
    /\ mark \in [Consumer -> Nat \cup {NoRow}]
    /\ tx \in [Process -> Transaction]
    /\ applied \in [Consumer -> Seq(1..MaxEvents)]
    /\ letters \subseteq Consumer \X DOMAIN events

Init ==
    /\ events = <<>>
    /\ mark = [c \in Consumer |-> NoRow]
    /\ tx = [p \in Process |-> None]
    /\ applied = [c \in Consumer |-> <<>>]
    /\ letters = {}

-----------------------------------------------------------------------------
(* Producers *)

New(for) == [for |-> for, status |-> "pending", attempts |-> 0]

\* Whoever emits holds the advisory lock of the aggregate until it commits.
LockFree == ~ tx[Desk].open

Emit(for) ==
    /\ LockFree
    /\ Len(events) < MaxEvents
    /\ events' = Append(events, New(for))
    /\ UNCHANGED <<mark, tx, applied, letters>>

\* The desk emits the event of a decision and dispatches it before it commits.
Decide(for) ==
    LET n == Len(events) + 1
    IN  /\ LockFree
        /\ n <= MaxEvents
        /\ tx' = [tx EXCEPT ![Desk] =
                     [None EXCEPT !.open = TRUE, !.queue = {n}, !.rows = [k \in {n} |-> New(for)]]]
        /\ UNCHANGED <<events, mark, applied, letters>>

-----------------------------------------------------------------------------
(* The relay *)

\* Mutant: without FOR UPDATE SKIP LOCKED.
LockedByNobody(n) == FALSE

Locked(n) == \E r \in Relay : n \in DOMAIN tx[r].rows

\* The oldest pending events, as many as the batch takes.
Batch(m) == {n \in 1..m : events[n].status = "pending" /\ ~ Locked(n)}

Poll(r) ==
    /\ ~ tx[r].open
    /\ \E m \in DOMAIN events :
          /\ Batch(m) # {}
          /\ tx' = [tx EXCEPT ![r] =
                       [None EXCEPT !.open = TRUE, !.queue = Batch(m),
                                    !.rows = [n \in Batch(m) |-> events[n]]]]
    /\ UNCHANGED <<events, mark, applied, letters>>

\* The checkpoint as the session sees it: its own copy once it has read it.  A
\* missing row is inserted, while a row somebody else has inserted is waited for.
Readable(p, c) ==
    tx[p].seen[c] = Unread /\ mark[c] = NoRow =>
       ~ \E q \in Process \ {p} : tx[q].seen[c] # Unread

Seen(p, c) ==
    IF tx[p].seen[c] # Unread THEN tx[p].seen[c]
    ELSE IF mark[c] = NoRow THEN 0 ELSE mark[c]

Passed(p, c, n) == Seen(p, c) >= n

\* Mutant: the checkpoint is advanced before the handler runs.
FailedAfterMark(t, c, n, attempts) ==
    [t EXCEPT !.rows[n].attempts = attempts, !.seen[c] = n,
              !.waits = attempts < MaxDeliveries]

\* Mutant: a failed delivery is not counted.
FailedUncounted(t, c, n, attempts) == [t EXCEPT !.waits = TRUE]

\* The handler raises.  What it wrote before stays in the transaction.
HandlerFailed(t, c, n, attempts) ==
    IF attempts >= MaxDeliveries
    THEN [t EXCEPT !.rows[n].attempts = attempts, !.rows[n].status = "poison",
                   !.letters = @ \cup {<<c, n>>}]
    ELSE [t EXCEPT !.rows[n].attempts = attempts, !.waits = TRUE]

Handled(t, c, n) == [t EXCEPT !.seen[c] = n, !.applied[c] = Append(@, n)]

\* Mutant: an event one of whose consumers has failed is dispatched all the same.
FinishedRegardless(t, n) ==
    [t EXCEPT !.rows[n].status = IF @ = "poison" THEN @ ELSE "dispatched",
              !.queue = @ \ {n}, !.next = 1, !.waits = FALSE]

\* All consumers have been asked.
Finished(t, n) ==
    [t EXCEPT !.rows[n].status = IF @ = "poison" \/ t.waits THEN @ ELSE "dispatched",
              !.queue = @ \ {n}, !.next = 1, !.waits = FALSE]

\* The consumer whose turn it is, with its checkpoint at seen, is asked about n.
Asked(t, n, seen, succeeds) ==
    LET c == t.next
        read == [t EXCEPT !.seen[c] = seen]
    IN  IF c \notin t.rows[n].for THEN t
        ELSE IF seen >= n THEN read
        ELSE IF succeeds THEN Handled(read, c, n)
        ELSE HandlerFailed(read, c, n, t.rows[n].attempts + 1)

\* One turn of the loop of dispatch_one, with the first event of the queue.
Deliver(p, n, succeeds) ==
    LET t == tx[p]
        c == t.next
        asked == Asked(t, n, Seen(p, c), succeeds)
    IN  /\ \A m \in t.queue : n <= m
        /\ c \in t.rows[n].for => Readable(p, c)
        /\ succeeds \/ (c \in t.rows[n].for /\ ~ Passed(p, c, n))
        /\ tx' = [tx EXCEPT ![p] = IF c < Registry THEN [asked EXCEPT !.next = c + 1]
                                   ELSE Finished(asked, n)]
        /\ UNCHANGED <<events, mark, applied, letters>>

\* A checkpoint is written if the session inserted or changed it, over whatever is
\* there by then: the row has no version to compare.
Marked(t, c) ==
    IF t.applied[c] # <<>> \/ (t.seen[c] # Unread /\ mark[c] = NoRow) THEN t.seen[c]
    ELSE mark[c]

\* Nothing is left to dispatch.
Done(p) == tx[p].open /\ tx[p].queue = {}

\* The desk commits if the gate is decided.  A handler that fails may have decided
\* it before, so a failed delivery is committed or given up.
Commit(p) ==
    LET t == tx[p]
    IN  /\ Done(p)
        /\ events' = [n \in DOMAIN events \cup DOMAIN t.rows |->
                         IF n \in DOMAIN t.rows THEN t.rows[n] ELSE events[n]]
        /\ mark' = [c \in Consumer |-> Marked(t, c)]
        /\ applied' = [c \in Consumer |-> applied[c] \o t.applied[c]]
        /\ letters' = letters \cup t.letters
        /\ tx' = [tx EXCEPT ![p] = None]

\* The transaction fails and all of it is undone: a handler broke it, a row was
\* inserted twice, the process died.  When it fails makes no difference to others.
Abort(p) ==
    /\ Done(p)
    /\ tx' = [tx EXCEPT ![p] = None]
    /\ UNCHANGED <<events, mark, applied, letters>>

-----------------------------------------------------------------------------
Produce == \E for \in SUBSET Consumer : Emit(for) \/ (for # {} /\ Decide(for))

Handling(p) == \E n \in tx[p].queue, succeeds \in BOOLEAN : Deliver(p, n, succeeds)

Next ==
    \/ Produce
    \/ \E r \in Relay : Poll(r)
    \/ \E p \in Process : Handling(p) \/ Commit(p) \/ Abort(p)

Spec == Init /\ [][Next]_vars

\* The loops poll for ever, what they do does not always fail, and whoever waits for
\* the row of a checkpoint gets it when the transaction that inserted it has ended.
FairSpec ==
    /\ Spec
    /\ \A r \in Relay : WF_vars(Poll(r)) /\ SF_vars(Commit(r))
    /\ \A p \in Process : SF_vars(Handling(p))
    /\ WF_vars(Commit(Desk) \/ Abort(Desk))

-----------------------------------------------------------------------------
\* With one registered consumer, as the code has it, no event is handled twice,
\* however the ticks of two relays and a decision overlap.
HandledOnce == \A c \in Consumer : IsInjective(applied[c])

\* An event is left alone only when each of its consumers has handled it, or
\* has handled a later one (it is overtaken, and passed over when it comes
\* up again), or has exhausted it and left a letter.
NothingForgotten ==
    \A n \in DOMAIN events : events[n].status # "pending" =>
       \A c \in events[n].for :
          \/ \E m \in ToSet(applied[c]) : m >= n
          \/ events[n].status = "poison" /\ <<c, n>> \in letters

\* A checkpoint stands at an event whose handling has been committed, never ahead of it.
MarksAreEarned == \A c \in Consumer : mark[c] > 0 => mark[c] \in ToSet(applied[c])

\* Every event ends as dispatched or poison: what fails is counted and given up.
EventsSettle ==
    \A n \in 1..MaxEvents :
       (n \in DOMAIN events) ~> (n \in DOMAIN events /\ events[n].status # "pending")

=============================================================================
