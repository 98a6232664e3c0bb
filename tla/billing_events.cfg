\* Three events, two deliveries at a time.
CONSTANTS
    EventId = {e1, e2, e3}
    Subscription = {sub}
    Session = {s1, s2}
    MaxCreated = 2
SPECIFICATION FairSpec
INVARIANTS NewestWins EntitlementIsPaid
PROPERTY Converges
\* Stripe has nothing more to say when it has been told of every event.
CHECK_DEADLOCK FALSE
