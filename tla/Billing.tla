-------------------------------- MODULE Billing --------------------------------
(***************************************************************************)
(* Billing of one workspace: checkouts, the events Stripe delivers about   *)
(* its subscriptions, and the entitlement that follows.                    *)
(*                                                                         *)
(* Stripe delivers events in any order and at once, and again until they   *)
(* are acknowledged.  A delivery is one transaction at READ COMMITTED: it  *)
(* claims the event's id and maps it to the workspace (Begin), and then    *)
(* locks the billing row, unless it is a completed checkout, compares the  *)
(* event with the receipts there are, and commits (End).  A delivery that  *)
(* fails leaves nothing and is repeated.                                   *)
(***************************************************************************)
EXTENDS Integers, FiniteSets

CONSTANTS
    EventId,       \* Stripe's ids of events
    Subscription,  \* subscriptions of the workspace's customer
    Session,       \* concurrent requests
    MaxCreated     \* bound of the model: Stripe's clock, in seconds

ASSUME BillingAssumption == MaxCreated \in Nat

VARIABLES
    events,      \* what Stripe has to say, chosen at the start
    row,         \* workspace_billing
    receipts,    \* billing_webhook_events, by event
    acked,       \* the events Stripe has been told of, and does not deliver again
    attributed,  \* the receipts that name the workspace
    tx,          \* the request each session is in
    raced        \* history: was an event applied to a copy of the row that had changed since?

billingVars == <<events, row, receipts, acked, attributed, tx, raced>>

\* trialing acts as active, unpaid and incomplete as past_due.  Stripe has other statuses,
\* such as paused, which the column does not take.
Status == {"inactive", "active", "past_due", "canceled"}
NoSubscription == "none"
Billing ==
    [plan : {"none", "pro"}, status : Status, customer : BOOLEAN,
     subscription : Subscription \cup {NoSubscription}]

\* A completed checkout names the workspace, a failed payment never does, and an event of
\* a subscription may: it does if the subscription was made by a checkout.
Checkout == [kind : {"checkout"}, created : {0}, status : {"inactive"}, named : {TRUE}, of : Subscription]
Change ==
    [kind : {"subscription"}, created : 1..MaxCreated, status : {"active", "past_due", "canceled", "paused"},
     named : BOOLEAN, of : Subscription]
Failure ==
    [kind : {"failure"}, created : 1..MaxCreated, status : {"past_due"}, named : {FALSE},
     of : Subscription]

NoRequest == [op |-> "idle"]

BillingTypeOK ==
    /\ events \in [EventId -> Checkout \cup Change \cup Failure]
    /\ row \in Billing
    /\ attributed \subseteq receipts /\ receipts \subseteq acked /\ acked \subseteq EventId
    /\ raced \in BOOLEAN

\* ensure_workspace_billing has made the row: nothing is paid for before.
BillingInit ==
    /\ events \in [EventId -> Checkout \cup Change \cup Failure]
    /\ row = [plan |-> "none", status |-> "inactive", customer |-> FALSE, subscription |-> NoSubscription]
    /\ receipts = {} /\ acked = {} /\ attributed = {}
    /\ tx = [s \in Session |-> NoRequest]
    /\ raced = FALSE

IsEntitled(r) == r.plan = "pro" /\ r.status = "active"

\* An UPDATE carries the attributes that differ from the copy the session has loaded, and
\* a lock does not load a row again that the session has.
Update(copy, new) == [f \in DOMAIN row |-> IF new[f] = copy[f] THEN row[f] ELSE new[f]]

-----------------------------------------------------------------------------
(* The workspace.                                                          *)

\* The customer is created under a key of the workspace: there is one, however often.
CreateCheckout ==
    /\ ~IsEntitled(row)
    /\ row' = [row EXCEPT !.customer = TRUE]
    /\ UNCHANGED <<events, receipts, acked, attributed, tx, raced>>

-----------------------------------------------------------------------------
(* Stripe.                                                                 *)

Dated(es) == {d \in es : events[d].kind # "checkout"}

\* Mutant: nothing is too old.
NeverStale(e) == FALSE

\* An event older than one there is a receipt of, or as old and in favour of the workspace.
Stale(e) ==
    \E d \in Dated(attributed) \ {e} :
        \/ events[d].created > events[e].created
        \/ events[d].created = events[e].created /\ events[e].status = "active"

\* Mutant: an event that is too old is refused with an error, and not acknowledged.
ClaimableIfNew(e) ==
    /\ e \notin acked /\ \A s \in Session : tx[s].op = "apply" => tx[s].event # e
    /\ events[e].kind = "checkout" \/ ~Stale(e)

\* An event that is received, or that another delivery has claimed, is a duplicate.
Claimable(e) == e \notin acked /\ \A s \in Session : tx[s].op = "apply" => tx[s].event # e

\* An event that does not name the workspace finds it by its subscription, or, but for a
\* failed payment, by its customer, whom Stripe knows before there are events.  The
\* session then has a copy of the row.
Found(e) == events[e].of = row.subscription
Begin(s, e) ==
    /\ tx[s] = NoRequest
    /\ row.customer
    /\ Claimable(e)
    /\ tx' = [tx EXCEPT ![s] =
           [op |-> "apply", event |-> e, copy |-> row,
            loaded |-> events[e].kind = "checkout" \/ (events[e].kind = "subscription" /\ ~events[e].named),
            mapped |-> events[e].kind = "failure" => Found(e)]]
    /\ UNCHANGED <<events, row, receipts, acked, attributed, raced>>

\* Mutant: a completed checkout is taken for a payment.
CheckoutGrants(r, ev) == [r EXCEPT !.subscription = ev.of, !.plan = "pro", !.status = "active"]

Linked(r, ev) == [r EXCEPT !.subscription = ev.of]

Changed(r, ev) ==
    [r EXCEPT !.subscription = ev.of, !.status = ev.status,
              !.plan = IF ev.status = "canceled" THEN "none" ELSE "pro"]

Lapsed(r) == [r EXCEPT !.status = "past_due"]

Applied(r, e) ==
    LET ev == events[e]
    IN CASE ev.kind = "checkout" -> Linked(r, ev)
         [] ev.kind # "checkout" /\ Stale(e) -> r
         [] ev.kind = "subscription" /\ ~Stale(e) -> Changed(r, ev)
         [] ev.kind = "failure" /\ ~Stale(e) -> Lapsed(r)

\* A row that breaks a constraint is taken for a duplicate event: the savepoint with the
\* receipt is rolled back, and Stripe is told that all is well.
End(s) ==
    LET t == tx[s]
        base == IF t.loaded THEN t.copy ELSE row
        new == IF t.mapped THEN Update(base, Applied(base, t.event)) ELSE row
        stands == new.status \in Status
    IN /\ t.op = "apply"
       /\ row' = IF stands THEN new ELSE row
       /\ receipts' = IF stands THEN receipts \cup {t.event} ELSE receipts
       /\ attributed' = IF stands /\ t.mapped THEN attributed \cup {t.event} ELSE attributed
       /\ acked' = acked \cup {t.event}
       /\ raced' = (raced \/ (t.event \in Dated(EventId) /\ base # row))
       /\ tx' = [tx EXCEPT ![s] = NoRequest]
       /\ UNCHANGED events

BillingNext ==
    \/ CreateCheckout
    \/ \E s \in Session : (\E e \in EventId : Begin(s, e)) \/ End(s)

\* Stripe repeats a delivery until it is acknowledged.
Fairness ==
    /\ WF_billingVars(CreateCheckout)
    /\ \A s \in Session : WF_billingVars(End(s))
    /\ \A e \in EventId : WF_billingVars(\E s \in Session : Begin(s, e))

BillingSpec == BillingInit /\ [][BillingNext]_billingVars
FairSpec == BillingSpec /\ Fairness

-----------------------------------------------------------------------------
(* Properties.                                                             *)

Newest == {e \in Dated(attributed) : \A d \in Dated(attributed) : events[d].created <= events[e].created}

\* In whatever order events come, and several at once, the workspace is entitled if its
\* newest events say so with one voice, and not if one of them says no; and its status is
\* that of one of them.  (Unless an event that does not name the workspace overlapped.)
NewestWins ==
    Newest # {} /\ ~raced =>
        /\ IsEntitled(row) <=> \A e \in Newest : events[e].status = "active"
        /\ \E e \in Newest : row.status = events[e].status

\* No one is entitled without an event of an active subscription, whatever overlapped: no
\* checkout and no mixture of attributes gives what is not paid.
EntitlementIsPaid ==
    IsEntitled(row) =>
        \E e \in attributed : events[e].kind = "subscription" /\ events[e].status = "active"

\* Stripe is told of every event in the end, and there is a receipt of each one whose
\* status the workspace can have.
Converges == <>[](acked = EventId /\ \A e \in EventId : e \in receipts \/ events[e].status \notin Status)
================================================================================
