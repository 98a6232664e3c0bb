-------------------------- MODULE OutboxRelayProofs --------------------------
(***************************************************************************)
(* Proofs about OutboxRelay, for any number of relays, events and          *)
(* deliveries.  That a checkpoint never stands ahead of what is handled    *)
(* holds for any number of consumers: whatever a session has read or set   *)
(* is committed or in its own transaction.  That nothing is handled twice  *)
(* or forgotten is a matter of the row locks, and holds for one consumer.  *)
(***************************************************************************)
EXTENDS OutboxRelay, TLAPS

Row == [for : SUBSET Consumer, status : {"pending", "dispatched", "poison"}, attempts : Nat]

Work ==
    [open : BOOLEAN, queue : SUBSET Nat, rows : UNION {[S -> Row] : S \in SUBSET Nat},
     next : Consumer, waits : BOOLEAN, seen : [Consumer -> Int],
     applied : [Consumer -> Seq(Nat)], letters : SUBSET (Consumer \X Nat)]

\* The types that the proofs need, and which rows a transaction holds: those of
\* a relay are committed, and the desk's is the next.
Shape ==
    /\ events \in Seq(Row)
    /\ mark \in [Consumer -> Int]
    /\ tx \in [Process -> Work]
    /\ applied \in [Consumer -> Seq(Nat)]
    /\ \A p \in Process : /\ tx[p].queue \subseteq DOMAIN tx[p].rows
                          /\ ~tx[p].open => tx[p] = None
    /\ \A r \in Relay : DOMAIN tx[r].rows \subseteq DOMAIN events
    /\ tx[Desk].open => DOMAIN tx[Desk].rows = {Len(events) + 1}

\* What consumer c has handled as far as the transaction in t can tell.
Known(t, done, c) == ToSet(done[c]) \cup ToSet(t.applied[c])

SeenIsKnown(t, done) == \A c \in Consumer : t.seen[c] > 0 => t.seen[c] \in Known(t, done, c)

Earned == MarksAreEarned /\ \A p \in Process : SeenIsKnown(tx[p], applied)

\* Two relays never hold the same event, and what one holds is still pending.
Apart == \A r, q \in Relay : r # q => DOMAIN tx[r].rows \cap DOMAIN tx[q].rows = {}
Held == \A r \in Relay : \A n \in DOMAIN tx[r].rows : events[n].status = "pending"

\* What is left to dispatch is pending; what has been handled in the transaction is
\* dispatched, once; and what is no longer pending has not been forgotten.
InHand(t, done) ==
    /\ ~t.waits
    /\ \A n \in t.queue : t.rows[n].status = "pending"
    /\ \A c \in Consumer :
          /\ IsInjective(t.applied[c])
          /\ \A m \in ToSet(t.applied[c]) :
                m \in DOMAIN t.rows /\ m \notin t.queue /\ t.rows[m].status = "dispatched"
    /\ \A n \in DOMAIN t.rows : t.rows[n].status # "pending" =>
          \A c \in t.rows[n].for :
             \/ \E m \in Known(t, done, c) : m >= n
             \/ t.rows[n].status = "poison" /\ <<c, n>> \in t.letters

HandledIsDispatched ==
    \A c \in Consumer : \A m \in ToSet(applied[c]) :
       m \in DOMAIN events /\ events[m].status = "dispatched"

Locking ==
    /\ Apart
    /\ Held
    /\ \A p \in Process : InHand(tx[p], applied)
    /\ HandledIsDispatched
    /\ HandledOnce
    /\ NothingForgotten

-----------------------------------------------------------------------------
(* Sequences *)

LEMMA AppendKnows ==
    ASSUME NEW s \in Seq(Nat), NEW n \in Nat
    PROVE  /\ ToSet(Append(s, n)) = ToSet(s) \cup {n}
           /\ IsInjective(s) /\ n \notin ToSet(s) => IsInjective(Append(s, n))
<1>1. /\ DOMAIN s = 1..Len(s) /\ Len(s) \in Nat
      /\ DOMAIN Append(s, n) = 1..(Len(s) + 1)
      /\ \A i \in 1..Len(s) : Append(s, n)[i] = s[i]
      /\ Append(s, n)[Len(s) + 1] = n
  OBVIOUS
<1>2. \A i \in 1..(Len(s) + 1) : i \in 1..Len(s) \/ i = Len(s) + 1
  BY <1>1
<1>3. ToSet(Append(s, n)) = ToSet(s) \cup {n}
  BY <1>1, <1>2 DEF ToSet
<1>4. IsInjective(s) /\ n \notin ToSet(s) => IsInjective(Append(s, n))
  BY <1>1, <1>2 DEF ToSet, IsInjective
<1>5. QED
  BY <1>3, <1>4

LEMMA ConcatKnows ==
    ASSUME NEW s \in Seq(Nat), NEW u \in Seq(Nat)
    PROVE  /\ ToSet(s \o u) = ToSet(s) \cup ToSet(u)
           /\ IsInjective(s) /\ IsInjective(u) /\ ToSet(s) \cap ToSet(u) = {} => IsInjective(s \o u)
<1>1. /\ DOMAIN s = 1..Len(s) /\ Len(s) \in Nat /\ DOMAIN u = 1..Len(u) /\ Len(u) \in Nat
      /\ DOMAIN (s \o u) = 1..(Len(s) + Len(u))
      /\ \A i \in 1..Len(s) : (s \o u)[i] = s[i]
      /\ \A i \in 1..Len(u) : (s \o u)[Len(s) + i] = u[i]
  OBVIOUS
<1>2. \A i \in 1..(Len(s) + Len(u)) :
         i \in 1..Len(s) \/ \E k \in 1..Len(u) : i = Len(s) + k
  <2>1. TAKE i \in 1..(Len(s) + Len(u))
  <2>2. CASE i > Len(s)
    <3>1. i - Len(s) \in 1..Len(u) /\ i = Len(s) + (i - Len(s))
      BY <1>1, <2>2
    <3>2. QED
      BY <3>1
  <2>3. QED
    BY <1>1, <2>2
<1>3. \A k \in 1..Len(u) : Len(s) + k \in 1..(Len(s) + Len(u))
  BY <1>1
<1>4. \A i \in 1..Len(s) : i \in 1..(Len(s) + Len(u))
  BY <1>1
<1>5. ToSet(s \o u) = ToSet(s) \cup ToSet(u)
  <2>1. \A x : x \in ToSet(s) => x \in ToSet(s \o u)
    BY <1>1, <1>4 DEF ToSet
  <2>2. \A x : x \in ToSet(u) => x \in ToSet(s \o u)
    BY <1>1, <1>3 DEF ToSet
  <2>3. \A x : x \in ToSet(s \o u) => x \in ToSet(s) \cup ToSet(u)
    <3>1. SUFFICES ASSUME NEW i \in 1..(Len(s) + Len(u))
                   PROVE  (s \o u)[i] \in ToSet(s) \cup ToSet(u)
      BY <1>1 DEF ToSet
    <3>2. CASE i \in 1..Len(s)
      BY <1>1, <3>2 DEF ToSet
    <3>3. CASE i \notin 1..Len(s)
      <4>1. PICK k \in 1..Len(u) : i = Len(s) + k
        BY <1>2, <3>3
      <4>2. (s \o u)[i] = u[k]
        BY <1>1, <4>1
      <4>3. QED
        BY <1>1, <4>2 DEF ToSet
    <3>4. QED
      BY <3>2, <3>3
  <2>4. QED
    BY <2>1, <2>2, <2>3
<1>6. ASSUME IsInjective(s), IsInjective(u), ToSet(s) \cap ToSet(u) = {}
      PROVE  IsInjective(s \o u)
  <2>1. SUFFICES ASSUME NEW i \in DOMAIN (s \o u), NEW k \in DOMAIN (s \o u),
                        (s \o u)[i] = (s \o u)[k]
                 PROVE  i = k
    BY DEF IsInjective
  <2>2. ASSUME NEW j \in 1..Len(s), NEW l \in 1..Len(u) PROVE s[j] # u[l]
    BY <1>1, <1>6 DEF ToSet
  <2>3. CASE i \in 1..Len(s) /\ k \in 1..Len(s)
    BY <1>1, <1>6, <2>1, <2>3 DEF IsInjective
  <2>4. CASE i \notin 1..Len(s) /\ k \notin 1..Len(s)
    <3>1. PICK j \in 1..Len(u), l \in 1..Len(u) : i = Len(s) + j /\ k = Len(s) + l
      BY <1>1, <1>2, <2>4
    <3>2. u[j] = u[l]
      BY <1>1, <2>1, <3>1
    <3>3. QED
      BY <1>1, <1>6, <3>1, <3>2 DEF IsInjective
  <2>5. CASE i \in 1..Len(s) /\ k \notin 1..Len(s)
    <3>1. PICK l \in 1..Len(u) : k = Len(s) + l
      BY <1>1, <1>2, <2>5
    <3>2. s[i] = u[l]
      BY <1>1, <2>1, <2>5, <3>1
    <3>3. QED
      BY <2>2, <2>5, <3>2
  <2>6. CASE i \notin 1..Len(s) /\ k \in 1..Len(s)
    <3>1. PICK l \in 1..Len(u) : i = Len(s) + l
      BY <1>1, <1>2, <2>6
    <3>2. s[k] = u[l]
      BY <1>1, <2>1, <2>6, <3>1
    <3>3. QED
      BY <2>2, <2>6, <3>2
  <2>7. QED
    BY <2>3, <2>4, <2>5, <2>6
<1>7. QED
  BY <1>5, <1>6

-----------------------------------------------------------------------------
(* One turn of dispatch_one *)

\* What asking the consumer whose turn it is about n makes of the transaction t.
AskedFrom(a, t, n, seen) ==
    /\ a \in Work
    /\ a.open = t.open /\ a.queue = t.queue
    /\ DOMAIN a.rows = DOMAIN t.rows
    /\ a.rows[n].for = t.rows[n].for
    /\ \A m \in DOMAIN t.rows : m # n => a.rows[m] = t.rows[m]
    /\ t.letters \subseteq a.letters
    /\ \/ a = t /\ t.next \notin t.rows[n].for
       \/ /\ a.seen = [t.seen EXCEPT ![t.next] = seen]
          /\ a.applied = t.applied
          /\ \/ seen >= n /\ a.rows[n] = t.rows[n] /\ a.waits = t.waits
             \/ a.rows[n].status = "poison" /\ <<t.next, n>> \in a.letters /\ a.waits = t.waits
             \/ a.rows[n].status = t.rows[n].status /\ a.waits = TRUE
       \/ /\ a.seen = [t.seen EXCEPT ![t.next] = n]
          /\ a.applied = [t.applied EXCEPT ![t.next] = Append(@, n)]
          /\ a.rows[n] = t.rows[n] /\ a.waits = t.waits

\* What the end of the loop over the consumers makes of it.
FinishedFrom(f, t, n) ==
    /\ f \in Work
    /\ f.open = t.open /\ f.queue = t.queue \ {n}
    /\ f.next = 1 /\ f.waits = FALSE
    /\ f.seen = t.seen /\ f.applied = t.applied /\ f.letters = t.letters
    /\ DOMAIN f.rows = DOMAIN t.rows
    /\ \A m \in DOMAIN t.rows : m # n => f.rows[m] = t.rows[m]
    /\ f.rows[n].for = t.rows[n].for
    /\ f.rows[n].status = IF t.rows[n].status = "poison" \/ t.waits
                          THEN t.rows[n].status ELSE "dispatched"

\* And both, to what it knows.
TurnedFrom(new, t, n, seen) ==
    \/ new.seen = t.seen /\ new.applied = t.applied
    \/ /\ new.seen = [t.seen EXCEPT ![t.next] = seen]
       /\ new.applied = t.applied
    \/ /\ new.seen = [t.seen EXCEPT ![t.next] = n]
       /\ new.applied = [t.applied EXCEPT ![t.next] = Append(@, n)]

LEMMA AskedKeeps ==
    ASSUME NEW t \in Work, NEW n \in Nat, n \in DOMAIN t.rows, NEW seen \in Int,
           NEW succeeds \in BOOLEAN, NEW a, a = Asked(t, n, seen, succeeds)
    PROVE  AskedFrom(a, t, n, seen)
<1> DEFINE c == t.next
           read == [t EXCEPT !.seen[c] = seen]
           k == t.rows[n].attempts + 1
           handled == Handled(read, c, n)
           failed == HandlerFailed(read, c, n, k)
<1>1. PICK S \in SUBSET Nat : t.rows \in [S -> Row]
  BY DEF Work
<1>2. c \in Consumer /\ n \in S /\ k \in Nat /\ t.rows[n] \in Row /\ DOMAIN t.rows = S
  BY <1>1 DEF Work, Row
<1>3. CASE c \notin t.rows[n].for
  <2>1. a = t
    BY <1>3 DEF Asked
  <2>2. QED
    BY <1>3, <2>1 DEF AskedFrom
<1>4. c \in t.rows[n].for => (seen >= n /\ a = read) \/ a = handled \/ a = failed
  BY DEF Asked
<1>5. /\ read \in Work
      /\ read.open = t.open /\ read.queue = t.queue /\ read.rows = t.rows /\ read.next = c
      /\ read.letters = t.letters /\ read.applied = t.applied /\ read.waits = t.waits
      /\ read.seen = [t.seen EXCEPT ![c] = seen]
  BY <1>2 DEF Work
<1>6. /\ handled \in Work
      /\ handled.open = t.open /\ handled.queue = t.queue /\ handled.rows = t.rows
      /\ handled.letters = t.letters /\ handled.waits = t.waits
      /\ handled.applied = [t.applied EXCEPT ![c] = Append(@, n)]
      /\ handled.seen = [t.seen EXCEPT ![c] = n]
  <2>1. t.applied \in [Consumer -> Seq(Nat)] /\ t.seen \in [Consumer -> Int]
    BY DEF Work
  <2>2. Append(t.applied[c], n) \in Seq(Nat)
    BY <1>2, <2>1
  <2>3. handled = [t EXCEPT !.seen = [t.seen EXCEPT ![c] = n],
                            !.applied = [t.applied EXCEPT ![c] = Append(t.applied[c], n)]]
    BY <1>2, <1>5, <2>1 DEF Handled, Work
  <2>4. [t.seen EXCEPT ![c] = n] \in [Consumer -> Int]
    <3>1. n \in Int
      OBVIOUS
    <3>2. QED
      BY <2>1, <3>1, Zenon
  <2>5. [t.applied EXCEPT ![c] = Append(t.applied[c], n)] \in [Consumer -> Seq(Nat)]
    BY <2>1, <2>2, Zenon
  <2>6. QED
    BY <2>3, <2>4, <2>5 DEF Work
<1>7. PICK row \in Row : /\ row.for = t.rows[n].for
                         /\ failed.rows = [t.rows EXCEPT ![n] = row]
                         /\ failed.letters \in {t.letters, t.letters \cup {<<c, n>>}}
                         /\ failed.waits \in BOOLEAN
                         /\ \/ /\ row.status = "poison" /\ failed.waits = t.waits
                               /\ <<c, n>> \in failed.letters
                            \/ row.status = t.rows[n].status /\ failed.waits = TRUE
                         /\ failed = [read EXCEPT !.rows = failed.rows, !.letters = failed.letters,
                                                  !.waits = failed.waits]
  <2>1. CASE k >= MaxDeliveries
    <3>1. PICK row : row = [t.rows[n] EXCEPT !.attempts = k, !.status = "poison"]
      OBVIOUS
    <3>2. row \in Row /\ row.for = t.rows[n].for /\ row.status = "poison"
      <4>1. PICK old \in Row : old = t.rows[n]
        BY <1>2, Zenon
      <4>2. row = [old EXCEPT !.attempts = k, !.status = "poison"] /\ k \in Nat
        BY <1>2, <3>1, <4>1, Zenon
      <4>3. row \in Row /\ row.for = old.for /\ row.status = "poison"
        BY <4>2 DEF Row
      <4>4. QED
        BY <4>1, <4>3, Zenon
    <3>3. failed = [read EXCEPT !.rows = [read.rows EXCEPT ![n] = [read.rows[n] EXCEPT !.attempts = k,
                                                                                    !.status = "poison"]],
                                !.letters = read.letters \cup {<<c, n>>}]
      <4>1. failed = [read EXCEPT !.rows[n].attempts = k, !.rows[n].status = "poison",
                                  !.letters = @ \cup {<<c, n>>}]
        BY <2>1, Zenon DEF HandlerFailed
      <4>2. PICK w \in Work : w = read
        BY <1>5, Zenon
      <4>3. DOMAIN w.rows = DOMAIN t.rows /\ n \in DOMAIN w.rows /\ w.rows[n] \in Row
        BY <1>2, <1>5, <4>2, Zenon
      <4>4. [w EXCEPT !.rows[n].attempts = k, !.rows[n].status = "poison", !.letters = @ \cup {<<c, n>>}]
            = [w EXCEPT !.rows = [w.rows EXCEPT ![n] = [w.rows[n] EXCEPT !.attempts = k, !.status = "poison"]],
                        !.letters = w.letters \cup {<<c, n>>}]
        BY <4>3 DEF Work, Row
      <4>5. QED
        BY <4>1, <4>2, <4>4, Zenon
    <3>4. failed = [read EXCEPT !.rows = [t.rows EXCEPT ![n] = row],
                                !.letters = t.letters \cup {<<c, n>>}]
      BY <1>5, <3>1, <3>3, Zenon
    <3>5. /\ failed.rows = [t.rows EXCEPT ![n] = row]
          /\ failed.letters = t.letters \cup {<<c, n>>}
          /\ failed.waits = t.waits /\ t.waits \in BOOLEAN
          /\ failed = [read EXCEPT !.rows = failed.rows, !.letters = failed.letters,
                                   !.waits = failed.waits]
      BY <1>5, <3>4 DEF Work
    <3>6. <<c, n>> \in failed.letters
      BY <3>5
    <3>7. QED
      BY <3>2, <3>5, <3>6
  <2>2. CASE ~(k >= MaxDeliveries)
    <3>1. PICK row : row = [t.rows[n] EXCEPT !.attempts = k]
      OBVIOUS
    <3>2. row \in Row /\ row.for = t.rows[n].for /\ row.status = t.rows[n].status
      BY <1>2, <3>1 DEF Row
    <3>3. failed = [read EXCEPT !.rows = [read.rows EXCEPT ![n] = [read.rows[n] EXCEPT !.attempts = k]],
                                !.waits = TRUE]
      BY <1>2, <1>5, <2>2 DEF HandlerFailed, Work
    <3>4. failed = [read EXCEPT !.rows = [t.rows EXCEPT ![n] = row], !.waits = TRUE]
      BY <1>5, <3>1, <3>3, Zenon
    <3>5. /\ failed.rows = [t.rows EXCEPT ![n] = row]
          /\ failed.letters = t.letters
          /\ failed.waits = TRUE
          /\ failed = [read EXCEPT !.rows = failed.rows, !.letters = failed.letters,
                                   !.waits = failed.waits]
      BY <1>5, <3>4 DEF Work
    <3>6. QED
      BY <3>2, <3>5
  <2>3. QED
    BY <2>1, <2>2
<1>8. /\ failed.rows \in [S -> Row]
      /\ failed.letters \in SUBSET (Consumer \X Nat) /\ t.letters \subseteq failed.letters
  <2>1. failed.rows \in [S -> Row]
    BY <1>1, <1>2, <1>7
  <2>2. t.letters \in SUBSET (Consumer \X Nat) /\ <<c, n>> \in Consumer \X Nat
    BY <1>2 DEF Work
  <2>3. QED
    BY <1>7, <2>1, <2>2
<1>9. /\ failed \in Work
      /\ failed.open = t.open /\ failed.queue = t.queue
      /\ failed.applied = t.applied
      /\ failed.seen = [t.seen EXCEPT ![c] = seen]
  <2>1. /\ failed.open = t.open /\ failed.queue = t.queue /\ failed.next = c
        /\ failed.applied = t.applied
        /\ failed.seen = [t.seen EXCEPT ![c] = seen]
    BY <1>5, <1>7 DEF Work
  <2>2. failed.rows \in UNION {[R -> Row] : R \in SUBSET Nat}
    BY <1>8
  <2>3. failed = [open |-> failed.open, queue |-> failed.queue, rows |-> failed.rows,
                  next |-> failed.next, waits |-> failed.waits, seen |-> failed.seen,
                  applied |-> failed.applied, letters |-> failed.letters]
    BY <1>5, <1>7 DEF Work
  <2>4. /\ failed.open \in BOOLEAN /\ failed.queue \in SUBSET Nat /\ failed.next \in Consumer
        /\ failed.seen \in [Consumer -> Int] /\ failed.applied \in [Consumer -> Seq(Nat)]
    BY <1>5, <2>1 DEF Work
  <2>5. failed.waits \in BOOLEAN /\ failed.letters \in SUBSET (Consumer \X Nat)
    BY <1>7, <1>8, Zenon
  <2>6. failed \in Work
    BY <2>2, <2>3, <2>4, <2>5, Zenon DEF Work
  <2>7. QED
    BY <2>1, <2>6
<1> HIDE DEF read, handled, failed, k
<1>10. CASE seen >= n /\ a = read
  BY <1>2, <1>5, <1>10 DEF AskedFrom
<1>11. CASE a = handled
  BY <1>2, <1>6, <1>11 DEF AskedFrom
<1>12. CASE a = failed
  BY <1>2, <1>7, <1>8, <1>9, <1>12 DEF AskedFrom
<1>13. QED
  BY <1>3, <1>4, <1>10, <1>11, <1>12

LEMMA FinishedKeeps ==
    ASSUME NEW t \in Work, NEW n \in Nat, n \in DOMAIN t.rows,
           NEW f, f = Finished(t, n)
    PROVE  FinishedFrom(f, t, n)
<1> DEFINE status == IF t.rows[n].status = "poison" \/ t.waits
                     THEN t.rows[n].status ELSE "dispatched"
<1>1. PICK S \in SUBSET Nat : t.rows \in [S -> Row]
  BY DEF Work
<1>2. n \in S /\ t.rows[n] \in Row /\ DOMAIN t.rows = S /\ 1 \in Consumer
  BY <1>1, RelayAssumption DEF Work, Row, Consumer
<1>3. PICK row \in Row : row = [t.rows[n] EXCEPT !.status = status]
  BY <1>2 DEF Row
<1>4. row.for = t.rows[n].for /\ row.status = status
  BY <1>2, <1>3 DEF Row
<1>5. f = [t EXCEPT !.rows = [t.rows EXCEPT ![n] = row], !.queue = t.queue \ {n},
                    !.next = 1, !.waits = FALSE]
  BY <1>1, <1>2, <1>3 DEF Finished, Work, Row
<1>6. [t.rows EXCEPT ![n] = row] \in [S -> Row]
  BY <1>1, <1>3
<1>7. /\ f.rows = [t.rows EXCEPT ![n] = row] /\ f.queue = t.queue \ {n}
      /\ f.next = 1 /\ f.waits = FALSE /\ f.open = t.open
      /\ f.seen = t.seen /\ f.applied = t.applied /\ f.letters = t.letters
  BY <1>5 DEF Work
<1>8. f \in Work
  <2>1. f.rows \in UNION {[R -> Row] : R \in SUBSET Nat}
    BY <1>6, <1>7
  <2>2. f.queue \in SUBSET Nat /\ f.next \in Consumer /\ f.waits \in BOOLEAN
    BY <1>2, <1>7 DEF Work
  <2>3. f = [open |-> f.open, queue |-> f.queue, rows |-> f.rows, next |-> f.next, waits |-> f.waits,
             seen |-> f.seen, applied |-> f.applied, letters |-> f.letters]
    BY <1>5 DEF Work
  <2>4. QED
    BY <1>7, <2>1, <2>2, <2>3 DEF Work
<1>9. /\ DOMAIN f.rows = DOMAIN t.rows
      /\ \A m \in DOMAIN t.rows : m # n => f.rows[m] = t.rows[m]
      /\ f.rows[n] = row
  BY <1>1, <1>2, <1>7
<1>10. QED
  BY <1>4, <1>7, <1>8, <1>9 DEF FinishedFrom

\* A turn keeps the shape of the state, and what it sees of the checkpoint is its own
\* copy, the one committed, or none.
LEMMA TurnKeeps ==
    ASSUME Shape, NEW p \in Process, NEW n \in tx[p].queue, NEW succeeds \in BOOLEAN,
           Deliver(p, n, succeeds)
    PROVE  /\ Shape'
           /\ \E new \in Work :
                 /\ tx' = [tx EXCEPT ![p] = new]
                 /\ DOMAIN new.rows = DOMAIN tx[p].rows
                 /\ TurnedFrom(new, tx[p], n, Seen(p, tx[p].next))
<1>1. PICK t \in Work : t = tx[p]
  BY DEF Shape
<1>2. PICK c \in Consumer : c = t.next
  BY DEF Work
<1>3. n \in t.queue /\ n \in DOMAIN t.rows /\ n \in Nat
  BY <1>1 DEF Shape, Work
<1>4. PICK s \in Int : s = Seen(p, c)
  <2>1. t.seen[c] \in Int /\ mark[c] \in Int
    BY DEF Shape, Work
  <2>2. QED
    BY <1>1, <2>1 DEF Seen
<1>5. PICK a : a = Asked(t, n, s, succeeds)
  OBVIOUS
<1>6. AskedFrom(a, t, n, s)
  BY <1>3, <1>5, AskedKeeps, Zenon
<1>7. PICK new : new = IF c < Registry THEN [a EXCEPT !.next = c + 1] ELSE Finished(a, n)
  OBVIOUS
<1>8. /\ new \in Work
      /\ new.open = t.open /\ new.queue \subseteq t.queue
      /\ DOMAIN new.rows = DOMAIN t.rows
      /\ new.seen = a.seen /\ new.applied = a.applied
  <2>1. CASE c < Registry
    <3>1. c + 1 \in Consumer
      BY <2>1, RelayAssumption DEF Consumer
    <3>2. QED
      BY <1>6, <1>7, <2>1, <3>1 DEF Work, AskedFrom
  <2>2. CASE ~(c < Registry)
    <3>1. new = Finished(a, n) /\ n \in DOMAIN a.rows
      BY <1>3, <1>6, <1>7, <2>2 DEF AskedFrom
    <3>2. FinishedFrom(new, a, n)
      BY <1>3, <1>6, <3>1, FinishedKeeps, Zenon DEF AskedFrom
    <3>3. QED
      BY <1>6, <3>2 DEF AskedFrom, FinishedFrom
  <2>3. QED
    BY <2>1, <2>2
<1>9. tx' = [tx EXCEPT ![p] = new] /\ UNCHANGED <<events, mark, applied, letters>>
  BY <1>1, <1>2, <1>4, <1>5, <1>7 DEF Deliver
<1>10. t.open
  BY <1>1, <1>3 DEF Shape, None
<1>11. Shape'
  <2>1. tx' \in [Process -> Work] /\ tx'[p] = new /\ \A q \in Process : q # p => tx'[q] = tx[q]
    BY <1>8, <1>9 DEF Shape
  <2>2. \A q \in Process : /\ tx'[q].queue \subseteq DOMAIN tx'[q].rows
                           /\ ~tx'[q].open => tx'[q] = None
    BY <1>1, <1>8, <1>10, <2>1 DEF Shape
  <2>3. \A q \in Process : tx'[q].open = tx[q].open /\ DOMAIN tx'[q].rows = DOMAIN tx[q].rows
    BY <1>1, <1>8, <2>1
  <2>4. QED
    BY <1>9, <2>1, <2>2, <2>3 DEF Shape, Process
<1>12. TurnedFrom(new, t, n, s)
  BY <1>2, <1>6, <1>8 DEF AskedFrom, TurnedFrom
<1>13. QED
  BY <1>1, <1>2, <1>4, <1>8, <1>9, <1>11, <1>12

-----------------------------------------------------------------------------
(* Types, and checkpoints that are earned *)

LEMMA NoneIsWork == None \in Work /\ \A done : SeenIsKnown(None, done)
<1>1. 1 \in Consumer /\ <<>> \in UNION {[S -> Row] : S \in SUBSET Nat}
  <2>1. <<>> \in [{} -> Row]
    OBVIOUS
  <2>2. {} \in SUBSET Nat
    OBVIOUS
  <2>3. 1 \in Consumer
    BY RelayAssumption DEF Consumer
  <2>4. QED
    BY <2>1, <2>2, <2>3
<1>2. /\ [c \in Consumer |-> Unread] \in [Consumer -> Int]
      /\ [c \in Consumer |-> <<>>] \in [Consumer -> Seq(Nat)]
  BY DEF Unread
<1>3. QED
  BY <1>1, <1>2 DEF Work, None, SeenIsKnown, Unread

LEMMA InitShape == Init => Shape /\ Earned
<1>1. SUFFICES ASSUME Init PROVE Shape /\ Earned
  OBVIOUS
<1>2. None \in Work
  BY NoneIsWork
<1>3. Shape
  <2>1. events \in Seq(Row) /\ mark \in [Consumer -> Int] /\ applied \in [Consumer -> Seq(Nat)]
    BY <1>1 DEF Init, NoRow
  <2>2. tx \in [Process -> Work] /\ \A p \in Process : tx[p] = None
    BY <1>1, <1>2 DEF Init
  <2>3. None.queue = {} /\ None.rows = <<>> /\ ~None.open
    BY DEF None
  <2>4. QED
    BY <2>1, <2>2, <2>3 DEF Shape, Process
<1>4. Earned
  BY <1>1 DEF Init, Earned, MarksAreEarned, SeenIsKnown, None, NoRow, Unread
<1>5. QED
  BY <1>3, <1>4

\* Emitting adds a row that no transaction holds.
LEMMA EmitKeeps ==
    ASSUME Shape, Earned, NEW for \in SUBSET Consumer, Emit(for)
    PROVE  Shape' /\ Earned'
<1>1. New(for) \in Row
  BY DEF New, Row
<1>2. /\ events' \in Seq(Row)
      /\ DOMAIN events \subseteq DOMAIN events'
  BY <1>1 DEF Emit, Shape
<1>3. ~tx[Desk].open /\ UNCHANGED <<mark, tx, applied, letters>>
  BY DEF Emit, LockFree
<1>4. Shape'
  BY <1>2, <1>3 DEF Shape
<1>5. Earned'
  BY <1>3 DEF Earned, MarksAreEarned, SeenIsKnown, Known
<1>6. QED
  BY <1>4, <1>5

\* A transaction that opens knows nothing yet.
LEMMA OpenKeeps ==
    ASSUME Shape, Earned, NEW p \in Process, NEW S \in SUBSET Nat, NEW rows \in [S -> Row],
           tx' = [tx EXCEPT ![p] = [None EXCEPT !.open = TRUE, !.queue = S, !.rows = rows]],
           UNCHANGED <<events, mark, applied, letters>>,
           p \in Relay => S \subseteq DOMAIN events,
           p = Desk => S = {Len(events) + 1}
    PROVE  Shape' /\ Earned'
<1>1. PICK new : new = [None EXCEPT !.open = TRUE, !.queue = S, !.rows = rows]
  OBVIOUS
<1>2. /\ new \in Work /\ new.open /\ new.queue = S /\ DOMAIN new.rows = S
      /\ new.seen = None.seen
  <2>1. rows \in UNION {[R -> Row] : R \in SUBSET Nat}
    OBVIOUS
  <2>2. QED
    BY <1>1, <2>1, NoneIsWork DEF Work
<1>3. /\ tx' \in [Process -> Work] /\ tx'[p] = new
      /\ \A q \in Process : q # p => tx'[q] = tx[q]
  BY <1>1, <1>2 DEF Shape
<1>4. Shape'
  BY <1>2, <1>3, RelayAssumption DEF Shape, Process
<1>5. \A c \in Consumer : ~(new.seen[c] > 0)
  BY <1>2 DEF None, Unread
<1>6. Earned'
  BY <1>3, <1>5 DEF Earned, MarksAreEarned, SeenIsKnown, Known
<1>7. QED
  BY <1>4, <1>6

LEMMA TurnEarned ==
    ASSUME Shape, Earned, NEW p \in Process, NEW n \in tx[p].queue, NEW succeeds \in BOOLEAN,
           Deliver(p, n, succeeds)
    PROVE  Earned'
<1>1. PICK t \in Work : t = tx[p]
  BY DEF Shape
<1>2. PICK c \in Consumer : c = t.next
  BY DEF Work
<1>3. PICK new \in Work : /\ tx' = [tx EXCEPT ![p] = new]
                          /\ TurnedFrom(new, t, n, Seen(p, c))
  BY <1>1, <1>2, TurnKeeps, Zenon
<1>4. n \in Nat /\ t.applied \in [Consumer -> Seq(Nat)] /\ t.seen \in [Consumer -> Int]
  BY <1>1 DEF Work
<1>5. Seen(p, c) > 0 => Seen(p, c) \in Known(t, applied, c)
  BY <1>1 DEF Seen, Earned, MarksAreEarned, SeenIsKnown, Known
<1>6. SeenIsKnown(new, applied)
  <2>1. SUFFICES ASSUME NEW d \in Consumer, new.seen[d] > 0
                 PROVE  new.seen[d] \in Known(new, applied, d)
    BY DEF SeenIsKnown
  <2>2. t.seen[d] > 0 => t.seen[d] \in Known(t, applied, d)
    BY <1>1 DEF Earned, SeenIsKnown
  <2>3. CASE new.applied = t.applied
    <3>1. Known(new, applied, d) = Known(t, applied, d)
      BY <2>3 DEF Known
    <3>2. CASE new.seen = t.seen
      BY <2>1, <2>2, <3>1, <3>2
    <3>3. CASE new.seen = [t.seen EXCEPT ![c] = Seen(p, c)]
      BY <1>4, <1>5, <2>1, <2>2, <3>1, <3>3
    <3>4. CASE new.seen = [t.seen EXCEPT ![c] = n] /\ new.applied = [t.applied EXCEPT ![c] = Append(@, n)]
      BY <1>4, <2>3, <3>4, AppendKnows
    <3>5. QED
      BY <1>2, <1>3, <3>2, <3>3, <3>4 DEF TurnedFrom
  <2>4. CASE /\ new.seen = [t.seen EXCEPT ![c] = n]
             /\ new.applied = [t.applied EXCEPT ![c] = Append(@, n)]
    <3>1. ToSet(Append(t.applied[c], n)) = ToSet(t.applied[c]) \cup {n}
      BY <1>4, AppendKnows
    <3>2. CASE d = c
      BY <1>4, <2>4, <3>1, <3>2 DEF Known
    <3>3. CASE d # c
      BY <1>4, <2>1, <2>2, <2>4, <3>3 DEF Known
    <3>4. QED
      BY <3>2, <3>3
  <2>5. QED
    BY <1>2, <1>3, <2>3, <2>4 DEF TurnedFrom
<1>7. UNCHANGED <<mark, applied>> /\ \A q \in Process : tx'[q] = IF q = p THEN new ELSE tx[q]
  BY <1>3 DEF Deliver, Shape
<1>8. QED
  BY <1>6, <1>7 DEF Earned, MarksAreEarned, SeenIsKnown, Known

LEMMA AbortKeeps ==
    ASSUME Shape, Earned, NEW p \in Process, Abort(p)
    PROVE  Shape' /\ Earned'
<1>1. /\ tx' = [tx EXCEPT ![p] = None]
      /\ UNCHANGED <<events, mark, applied, letters>>
  BY DEF Abort
<1>2. /\ tx' \in [Process -> Work] /\ tx'[p] = None
      /\ \A q \in Process : q # p => tx'[q] = tx[q]
  BY <1>1, NoneIsWork DEF Shape
<1>3. None.queue = {} /\ DOMAIN None.rows = {} /\ ~None.open
  BY DEF None
<1>4. Shape'
  BY <1>1, <1>2, <1>3 DEF Shape, Process
<1>5. \A c \in Consumer : ~(None.seen[c] > 0)
  BY DEF None, Unread
<1>6. Earned'
  BY <1>1, <1>2, <1>5 DEF Earned, MarksAreEarned, SeenIsKnown, Known
<1>7. QED
  BY <1>4, <1>6

\* What a transaction writes to outbox_events when it commits.
LEMMA CommitRows ==
    ASSUME Shape, NEW p \in Process, Commit(p)
    PROVE  /\ events' \in Seq(Row)
           /\ DOMAIN events \subseteq DOMAIN events'
           /\ p \in Relay => DOMAIN events' = DOMAIN events
           /\ DOMAIN events' = DOMAIN events \cup DOMAIN tx[p].rows
           /\ \A n \in DOMAIN tx[p].rows : events'[n] = tx[p].rows[n]
           /\ \A n \in DOMAIN events : n \notin DOMAIN tx[p].rows => events'[n] = events[n]
<1>1. PICK t \in Work : t = tx[p]
  BY DEF Shape
<1>2. PICK S \in SUBSET Nat : t.rows \in [S -> Row]
  BY DEF Work
<1>3. events' = [n \in DOMAIN events \cup S |-> IF n \in S THEN t.rows[n] ELSE events[n]]
  BY <1>1, <1>2 DEF Commit
<1>4. DOMAIN events = 1..Len(events) /\ Len(events) \in Nat
  BY DEF Shape
<1>5. p \in Relay => DOMAIN events \cup S = DOMAIN events
  BY <1>1, <1>2 DEF Shape
<1>6. p = Desk => DOMAIN events \cup S = 1..(Len(events) + 1)
  <2>1. p = Desk => S = {Len(events) + 1}
    BY <1>1, <1>2 DEF Shape, Commit, Done
  <2>2. QED
    BY <1>4, <2>1
<1>7. PICK k \in Nat : DOMAIN events \cup S = 1..k
  BY <1>4, <1>5, <1>6 DEF Process
<1>8. \A n \in 1..k : events'[n] \in Row
  <2>1. \A n \in DOMAIN events : events[n] \in Row
    BY <1>4 DEF Shape
  <2>2. \A n \in S : t.rows[n] \in Row
    BY <1>2
  <2>3. QED
    BY <1>3, <1>7, <2>1, <2>2
<1>9. events' = [n \in 1..k |-> events'[n]]
  BY <1>3, <1>7
<1>10. events' \in Seq(Row)
  BY <1>8, <1>9
<1>11. QED
  BY <1>1, <1>2, <1>3, <1>5, <1>10

LEMMA CommitKeeps ==
    ASSUME Shape, Earned, NEW p \in Process, Commit(p)
    PROVE  Shape' /\ Earned'
<1>1. PICK t \in Work : t = tx[p]
  BY DEF Shape
<1>2. /\ mark' = [c \in Consumer |-> Marked(t, c)]
      /\ applied' = [c \in Consumer |-> applied[c] \o t.applied[c]]
      /\ tx' = [tx EXCEPT ![p] = None]
      /\ t.open
  BY <1>1 DEF Commit, Done
<1>3. /\ tx' \in [Process -> Work] /\ tx'[p] = None
      /\ \A q \in Process : q # p => tx'[q] = tx[q]
  BY <1>2, NoneIsWork DEF Shape
<1>4. None.queue = {} /\ DOMAIN None.rows = {} /\ ~None.open
  BY DEF None
<1>5. t.applied \in [Consumer -> Seq(Nat)] /\ t.seen \in [Consumer -> Int]
  BY DEF Work
<1>6. ASSUME NEW c \in Consumer
      PROVE  /\ applied'[c] = applied[c] \o t.applied[c] /\ applied'[c] \in Seq(Nat)
             /\ ToSet(applied'[c]) = ToSet(applied[c]) \cup ToSet(t.applied[c])
  BY <1>2, <1>5, ConcatKnows DEF Shape
<1>7. ASSUME NEW c \in Consumer
      PROVE  mark'[c] \in Int /\ (mark'[c] > 0 => mark'[c] \in ToSet(applied'[c]))
  <2>1. mark'[c] = t.seen[c] \/ mark'[c] = mark[c]
    BY <1>2 DEF Marked
  <2>2. mark[c] \in Int /\ t.seen[c] \in Int
    BY <1>5 DEF Shape
  <2>3. /\ mark[c] > 0 => mark[c] \in ToSet(applied[c])
        /\ t.seen[c] > 0 => t.seen[c] \in ToSet(applied[c]) \cup ToSet(t.applied[c])
    BY <1>1 DEF Earned, MarksAreEarned, SeenIsKnown, Known
  <2>4. QED
    BY <1>6, <2>1, <2>2, <2>3
<1>8. Shape'
  <2>1. /\ events' \in Seq(Row)
        /\ DOMAIN events \subseteq DOMAIN events'
        /\ p \in Relay => DOMAIN events' = DOMAIN events
    BY CommitRows
  <2>2. mark' \in [Consumer -> Int] /\ applied' \in [Consumer -> Seq(Nat)]
    BY <1>2, <1>6, <1>7
  <2>3. \A q \in Process : /\ tx'[q].queue \subseteq DOMAIN tx'[q].rows
                           /\ ~tx'[q].open => tx'[q] = None
    BY <1>3, <1>4 DEF Shape
  <2>4. \A r \in Relay : DOMAIN tx'[r].rows \subseteq DOMAIN events'
    BY <1>3, <1>4, <2>1 DEF Shape, Process
  <2>5. tx'[Desk].open => DOMAIN tx'[Desk].rows = {Len(events') + 1}
    <3>1. CASE p = Desk
      BY <1>3, <1>4, <3>1
    <3>2. CASE p \in Relay
      <4>1. Len(events') = Len(events)
        BY <2>1, <3>2 DEF Shape
      <4>2. p # Desk
        BY <3>2, RelayAssumption
      <4>3. QED
        BY <1>3, <4>1, <4>2 DEF Shape, Process
    <3>3. QED
      BY <3>1, <3>2 DEF Process
  <2>6. QED
    BY <1>3, <2>1, <2>2, <2>3, <2>4, <2>5 DEF Shape
<1>9. \A c \in Consumer : ~(None.seen[c] > 0)
  BY DEF None, Unread
<1>10. \A q \in Process : SeenIsKnown(tx'[q], applied')
  <2>1. ASSUME NEW q \in Process, NEW c \in Consumer, tx'[q].seen[c] > 0
        PROVE  tx'[q].seen[c] \in Known(tx'[q], applied', c)
    <3>1. q # p /\ tx'[q] = tx[q]
      BY <1>3, <1>9, <2>1
    <3>2. tx[q].seen[c] \in Known(tx[q], applied, c)
      BY <2>1, <3>1 DEF Earned, SeenIsKnown
    <3>3. QED
      BY <1>6, <3>1, <3>2 DEF Known
  <2>2. QED
    BY <2>1 DEF SeenIsKnown
<1>11. Earned'
  BY <1>7, <1>10 DEF Earned, MarksAreEarned
<1>12. QED
  BY <1>8, <1>11

LEMMA NextEarned == Shape /\ Earned /\ [Next]_vars => Shape' /\ Earned'
<1>1. SUFFICES ASSUME Shape, Earned, [Next]_vars PROVE Shape' /\ Earned'
  OBVIOUS
<1>2. ASSUME NEW for \in SUBSET Consumer, Emit(for) PROVE Shape' /\ Earned'
  BY <1>1, <1>2, EmitKeeps
<1>3. ASSUME NEW for \in SUBSET Consumer, Decide(for) PROVE Shape' /\ Earned'
  <2>1. PICK n \in Nat : n = Len(events) + 1
    BY <1>1 DEF Shape
  <2>2. PICK rows \in [{n} -> Row] : rows = [k \in {n} |-> New(for)]
    BY DEF New, Row
  <2>3. /\ tx' = [tx EXCEPT ![Desk] = [None EXCEPT !.open = TRUE, !.queue = {n}, !.rows = rows]]
        /\ UNCHANGED <<events, mark, applied, letters>>
    BY <1>3, <2>1, <2>2 DEF Decide
  <2>4. Desk \in Process /\ Desk \notin Relay /\ {n} \in SUBSET Nat
    BY RelayAssumption DEF Process
  <2>5. QED
    BY <1>1, <2>1, <2>3, <2>4, OpenKeeps
<1>4. ASSUME NEW r \in Relay, Poll(r) PROVE Shape' /\ Earned'
  <2>1. PICK m \in DOMAIN events :
           /\ tx' = [tx EXCEPT ![r] = [None EXCEPT !.open = TRUE, !.queue = Batch(m),
                                                   !.rows = [n \in Batch(m) |-> events[n]]]]
           /\ UNCHANGED <<events, mark, applied, letters>>
    BY <1>4 DEF Poll
  <2>2. PICK S : S = Batch(m)
    OBVIOUS
  <2>3. DOMAIN events = 1..Len(events) /\ Len(events) \in Nat
    BY <1>1 DEF Shape
  <2>4. S \in SUBSET Nat /\ S \subseteq DOMAIN events
    BY <2>2, <2>3 DEF Batch
  <2>5. PICK rows \in [S -> Row] : rows = [n \in S |-> events[n]]
    <3>1. \A n \in DOMAIN events : events[n] \in Row
      BY <1>1, <2>3 DEF Shape
    <3>2. QED
      BY <2>4, <3>1
  <2>6. r \in Process /\ r # Desk
    BY RelayAssumption DEF Process
  <2>7. tx' = [tx EXCEPT ![r] = [None EXCEPT !.open = TRUE, !.queue = S, !.rows = rows]]
    BY <2>1, <2>2, <2>5, Zenon
  <2>8. /\ r \in Process /\ (r \in Relay => S \subseteq DOMAIN events)
        /\ (r = Desk => S = {Len(events) + 1})
    BY <2>4, <2>6, Zenon
  <2>9. Shape /\ Earned /\ UNCHANGED <<events, mark, applied, letters>>
    BY <1>1, <2>1, Zenon
  <2>10. QED
    BY <2>4, <2>7, <2>8, <2>9, OpenKeeps, Zenon
<1>5. ASSUME NEW p \in Process, Handling(p) PROVE Shape' /\ Earned'
  <2>1. PICK n \in tx[p].queue, succeeds \in BOOLEAN : Deliver(p, n, succeeds)
    BY <1>5, Zenon DEF Handling
  <2>2. Shape'
    BY <1>1, <2>1, TurnKeeps, Zenon
  <2>3. Earned'
    BY <1>1, <2>1, TurnEarned, Zenon
  <2>4. QED
    BY <2>2, <2>3
<1>6. ASSUME NEW p \in Process, Commit(p) PROVE Shape' /\ Earned'
  BY <1>1, <1>6, CommitKeeps
<1>7. ASSUME NEW p \in Process, Abort(p) PROVE Shape' /\ Earned'
  BY <1>1, <1>7, AbortKeeps
<1>8. CASE UNCHANGED vars
  BY <1>1, <1>8 DEF vars, Shape, Earned, MarksAreEarned, SeenIsKnown, Known
<1>9. QED
  BY <1>1, <1>2, <1>3, <1>4, <1>5, <1>6, <1>7, <1>8 DEF Next, Produce

\* However relays and the desk overlap, and with any number of consumers, a checkpoint
\* stands at an event its consumer has handled: dispatch_one advances it only when the
\* handler has returned, and both are committed together.
THEOREM CheckpointsAreEarned == Spec => []MarksAreEarned
<1>1. Init => Shape /\ Earned
  BY InitShape
<1>2. Shape /\ Earned /\ [Next]_vars => Shape' /\ Earned'
  BY NextEarned
<1>3. Earned => MarksAreEarned
  BY DEF Earned
<1>4. QED
  BY <1>1, <1>2, <1>3, PTL DEF Spec

-----------------------------------------------------------------------------
(* One consumer *)

\* After a turn: the event is dispatched if it was handled, or a later one was;
\* otherwise it waits, or is poison and has a letter.
LEMMA TurnInHand ==
    ASSUME Registry = 1, NEW t \in Work, NEW n \in t.queue, t.queue \subseteq DOMAIN t.rows,
           n \in DOMAIN t.rows, n > 0,
           NEW s \in Int, NEW done, s > 0 => s \in Known(t, done, 1), InHand(t, done),
           NEW a \in Work, AskedFrom(a, t, n, s), NEW f \in Work, FinishedFrom(f, a, n)
    PROVE  InHand(f, done)
<1>1. /\ Consumer = {1} /\ t.next = 1 /\ n \in Nat
      /\ t.applied \in [Consumer -> Seq(Nat)] /\ t.applied[1] \in Seq(Nat)
  BY DEF Consumer, Work
<1>2. ~t.waits /\ t.rows[n].status = "pending"
  BY DEF InHand
<1>3. /\ f.queue = t.queue \ {n} /\ n \notin f.queue /\ ~f.waits
      /\ DOMAIN f.rows = DOMAIN t.rows
      /\ \A m \in DOMAIN t.rows : m # n => f.rows[m] = t.rows[m]
      /\ f.rows[n].for = t.rows[n].for
      /\ f.applied = a.applied /\ t.letters \subseteq f.letters
  BY DEF AskedFrom, FinishedFrom
<1>4. \/ f.applied = t.applied
      \/ /\ f.applied[1] = Append(t.applied[1], n)
         /\ f.rows[n].status = "dispatched"
  BY <1>1, <1>2 DEF AskedFrom, FinishedFrom
<1>5. ToSet(t.applied[1]) \subseteq ToSet(f.applied[1])
  BY <1>1, <1>4, AppendKnows
<1>6. \A m \in f.queue : f.rows[m].status = "pending"
  BY <1>3 DEF InHand
<1>7. ASSUME NEW m \in ToSet(t.applied[1])
      PROVE  m \in DOMAIN f.rows /\ m \notin f.queue /\ f.rows[m].status = "dispatched" /\ m # n
  <2>1. m \in DOMAIN t.rows /\ m \notin t.queue /\ t.rows[m].status = "dispatched"
    BY <1>1, <1>7 DEF InHand
  <2>2. QED
    BY <1>3, <2>1
<1>8. /\ IsInjective(f.applied[1])
      /\ \A m \in ToSet(f.applied[1]) :
            m \in DOMAIN f.rows /\ m \notin f.queue /\ f.rows[m].status = "dispatched"
  <2>1. IsInjective(t.applied[1])
    BY <1>1 DEF InHand
  <2>2. CASE f.applied = t.applied
    BY <1>7, <2>1, <2>2
  <2>3. CASE f.applied[1] = Append(t.applied[1], n) /\ f.rows[n].status = "dispatched"
    <3>1. n \notin ToSet(t.applied[1])
      BY <1>7
    <3>2. ToSet(f.applied[1]) = ToSet(t.applied[1]) \cup {n} /\ IsInjective(f.applied[1])
      BY <1>1, <2>1, <2>3, <3>1, AppendKnows
    <3>3. QED
      BY <1>3, <1>7, <2>3, <3>2
  <2>4. QED
    BY <1>4, <2>2, <2>3
<1>9. ASSUME NEW m \in DOMAIN f.rows, f.rows[m].status # "pending", NEW c \in f.rows[m].for, c = 1
      PROVE  \/ \E k \in Known(f, done, c) : k >= m
             \/ f.rows[m].status = "poison" /\ <<c, m>> \in f.letters
  <2>1. Known(t, done, 1) \subseteq Known(f, done, 1)
    BY <1>5 DEF Known
  <2>2. CASE m # n
    <3>1. \/ \E k \in Known(t, done, c) : k >= m
          \/ t.rows[m].status = "poison" /\ <<c, m>> \in t.letters
      BY <1>3, <1>9, <2>2 DEF InHand
    <3>2. QED
      BY <1>3, <1>9, <2>1, <2>2, <3>1
  <2>3. CASE m = n
    <3>1. \/ s >= n
          \/ f.rows[n].status = "poison" /\ <<1, n>> \in f.letters
          \/ f.applied[1] = Append(t.applied[1], n)
      BY <1>1, <1>2, <1>3, <1>9, <2>3 DEF AskedFrom, FinishedFrom
    <3>2. CASE s >= n
      <4>1. s \in Known(f, done, 1)
        BY <1>1, <2>1, <3>2
      <4>2. QED
        BY <1>9, <2>3, <3>2, <4>1
    <3>3. CASE f.applied[1] = Append(t.applied[1], n)
      <4>1. n \in Known(f, done, 1) /\ n >= n
        BY <1>1, <3>3, AppendKnows DEF Known
      <4>2. QED
        BY <1>9, <2>3, <4>1
    <3>4. QED
      BY <1>9, <2>3, <3>1, <3>2, <3>3
  <2>4. QED
    BY <2>2, <2>3
<1>10. \A m \in DOMAIN f.rows : f.rows[m].for \subseteq {1}
  <2>1. PICK S \in SUBSET Nat : f.rows \in [S -> Row]
    BY DEF Work
  <2>2. QED
    BY <1>1, <2>1 DEF Row
<1>11. QED
  BY <1>1, <1>3, <1>6, <1>8, <1>9, <1>10 DEF InHand

LEMMA NoneInHand == \A done : InHand(None, done)
<1>1. \A c \in Consumer : None.applied[c] = <<>>
  BY DEF None
<1>2. IsInjective(<<>>) /\ ToSet(<<>>) = {}
  BY DEF IsInjective, ToSet
<1>3. None.queue = {} /\ DOMAIN None.rows = {} /\ ~None.waits
  BY DEF None
<1>4. QED
  BY <1>1, <1>2, <1>3 DEF InHand

LEMMA EmitLocking ==
    ASSUME Shape, Locking, NEW for \in SUBSET Consumer, Emit(for)
    PROVE  Locking'
<1>1. New(for) \in Row /\ New(for).status = "pending"
  BY DEF New, Row
<1>2. /\ DOMAIN events = 1..Len(events) /\ Len(events) \in Nat
      /\ events' = Append(events, New(for)) /\ UNCHANGED <<mark, tx, applied, letters>>
  BY DEF Emit, Shape
<1>3. /\ DOMAIN events' = 1..(Len(events) + 1)
      /\ \A n \in DOMAIN events : n \in DOMAIN events' /\ events'[n] = events[n]
      /\ events'[Len(events) + 1].status = "pending"
  BY <1>1, <1>2 DEF Shape
<1>4. Apart' /\ HandledOnce'
  BY <1>2 DEF Locking, Apart, HandledOnce
<1>5. Held'
  BY <1>2, <1>3 DEF Locking, Held, Shape
<1>6. \A p \in Process : InHand(tx'[p], applied')
  BY <1>2 DEF Locking
<1>7. HandledIsDispatched'
  BY <1>2, <1>3 DEF Locking, HandledIsDispatched
<1>8. NothingForgotten'
  <2>1. SUFFICES ASSUME NEW n \in DOMAIN events', events'[n].status # "pending",
                        NEW c \in events'[n].for
                 PROVE  \/ \E m \in ToSet(applied'[c]) : m >= n
                        \/ events'[n].status = "poison" /\ <<c, n>> \in letters'
    BY DEF NothingForgotten
  <2>2. n \in DOMAIN events /\ events'[n] = events[n]
    BY <1>2, <1>3, <2>1
  <2>3. QED
    BY <1>2, <2>1, <2>2 DEF Locking, NothingForgotten
<1>9. QED
  BY <1>4, <1>5, <1>6, <1>7, <1>8 DEF Locking

LEMMA OpenLocking ==
    ASSUME Shape, Locking, NEW p \in Process, NEW S \in SUBSET Nat, NEW rows \in [S -> Row],
           tx' = [tx EXCEPT ![p] = [None EXCEPT !.open = TRUE, !.queue = S, !.rows = rows]],
           UNCHANGED <<events, mark, applied, letters>>,
           \A n \in S : rows[n].status = "pending",
           p \in Relay => \A n \in S : ~Locked(n) /\ n \in DOMAIN events /\ events[n] = rows[n]
    PROVE  Locking'
<1>1. PICK new : new = [None EXCEPT !.open = TRUE, !.queue = S, !.rows = rows]
  OBVIOUS
<1>2. /\ new.queue = S /\ new.rows = rows /\ ~new.waits /\ new.applied = None.applied
      /\ DOMAIN new.rows = S
  BY <1>1 DEF None
<1>3. tx'[p] = new /\ \A q \in Process : q # p => tx'[q] = tx[q]
  BY <1>1 DEF Shape
<1>4. InHand(new, applied)
  <2>1. \A c \in Consumer : IsInjective(new.applied[c]) /\ ToSet(new.applied[c]) = {}
    <3>1. IsInjective(<<>>) /\ ToSet(<<>>) = {}
      BY DEF IsInjective, ToSet
    <3>2. QED
      BY <1>2, <3>1 DEF None
  <2>2. \A n \in DOMAIN new.rows : new.rows[n].status = "pending"
    BY <1>2
  <2>3. QED
    BY <1>2, <2>1, <2>2 DEF InHand
<1>5. Apart'
  <2>1. SUFFICES ASSUME NEW r \in Relay, NEW q \in Relay, r # q
                 PROVE  DOMAIN tx'[r].rows \cap DOMAIN tx'[q].rows = {}
    BY DEF Apart
  <2>2. DOMAIN tx[r].rows \cap DOMAIN tx[q].rows = {} /\ r \in Process /\ q \in Process
    BY <2>1 DEF Locking, Apart, Process
  <2>3. ASSUME p \in Relay, NEW n \in S, NEW k \in Relay PROVE n \notin DOMAIN tx[k].rows
    BY <2>3 DEF Locked
  <2>4. QED
    BY <1>2, <1>3, <2>1, <2>2, <2>3
<1>6. Held'
  <2>1. SUFFICES ASSUME NEW r \in Relay, NEW n \in DOMAIN tx'[r].rows
                 PROVE  events[n].status = "pending"
    BY DEF Held
  <2>2. CASE r = p
    BY <1>2, <1>3, <2>1, <2>2
  <2>3. CASE r # p
    BY <1>3, <2>1, <2>3 DEF Locking, Held, Process
  <2>4. QED
    BY <2>2, <2>3
<1>7. \A q \in Process : InHand(tx'[q], applied')
  BY <1>3, <1>4 DEF Locking
<1>8. QED
  BY <1>5, <1>6, <1>7 DEF Locking, HandledIsDispatched, HandledOnce, NothingForgotten

LEMMA TurnLocking ==
    ASSUME Registry = 1, Shape, Earned, Locking, NEW p \in Process, NEW n \in tx[p].queue,
           NEW succeeds \in BOOLEAN, Deliver(p, n, succeeds)
    PROVE  Locking'
<1>1. PICK t \in Work : t = tx[p]
  BY DEF Shape
<1>2. t.next = 1 /\ Consumer = {1}
  BY DEF Work, Consumer
<1>3. n \in t.queue /\ n \in DOMAIN t.rows /\ n \in Nat /\ t.queue \subseteq DOMAIN t.rows
  BY <1>1 DEF Shape, Work
<1>4. n > 0
  <2>1. DOMAIN events = 1..Len(events) /\ Len(events) \in Nat
    BY DEF Shape
  <2>2. t.open
    BY <1>1, <1>3 DEF Shape, None
  <2>3. QED
    BY <1>1, <1>3, <2>1, <2>2 DEF Shape, Process
<1>5. PICK s \in Int : s = Seen(p, 1)
  <2>1. t.seen[1] \in Int /\ mark[1] \in Int
    BY <1>2 DEF Shape, Work
  <2>2. QED
    BY <1>1, <2>1 DEF Seen
<1>6. s > 0 => s \in Known(t, applied, 1)
  BY <1>1, <1>2, <1>5 DEF Seen, Earned, MarksAreEarned, SeenIsKnown, Known
<1>7. PICK a : a = Asked(t, n, s, succeeds)
  OBVIOUS
<1>8. AskedFrom(a, t, n, s)
  BY <1>3, <1>7, AskedKeeps, Zenon
<1>9. a \in Work /\ n \in DOMAIN a.rows
  BY <1>3, <1>8 DEF AskedFrom
<1>10. PICK f : f = Finished(a, n)
  OBVIOUS
<1>11. FinishedFrom(f, a, n)
  BY <1>3, <1>9, <1>10, FinishedKeeps, Zenon
<1>12. f \in Work /\ DOMAIN f.rows = DOMAIN t.rows
  BY <1>8, <1>11 DEF AskedFrom, FinishedFrom
<1>13. InHand(t, applied)
  BY <1>1 DEF Locking
<1>14. InHand(f, applied)
  BY <1>3, <1>4, <1>6, <1>8, <1>9, <1>11, <1>12, <1>13, TurnInHand, Zenon
<1>15. tx' = [tx EXCEPT ![p] = f] /\ UNCHANGED <<events, mark, applied, letters>>
  <2>1. ~(1 < Registry)
    OBVIOUS
  <2>2. QED
    BY <1>1, <1>2, <1>5, <1>7, <1>10, <2>1 DEF Deliver
<1>16. tx'[p] = f /\ \A q \in Process : q # p => tx'[q] = tx[q]
  BY <1>15 DEF Shape
<1>17. \A q \in Process : InHand(tx'[q], applied')
  BY <1>14, <1>15, <1>16 DEF Locking
<1>18. \A r \in Relay : DOMAIN tx'[r].rows = DOMAIN tx[r].rows
  BY <1>1, <1>12, <1>16 DEF Process
<1>19. QED
  BY <1>15, <1>17, <1>18
     DEF Locking, Apart, Held, HandledIsDispatched, HandledOnce, NothingForgotten

LEMMA AbortLocking ==
    ASSUME Shape, Locking, NEW p \in Process, Abort(p)
    PROVE  Locking'
<1>1. /\ tx'[p] = None /\ \A q \in Process : q # p => tx'[q] = tx[q]
      /\ UNCHANGED <<events, mark, applied, letters>>
  BY DEF Abort, Shape
<1>2. \A q \in Process : InHand(tx'[q], applied')
  BY <1>1, NoneInHand DEF Locking
<1>3. DOMAIN None.rows = {}
  BY DEF None
<1>4. \A r \in Relay : DOMAIN tx'[r].rows \subseteq DOMAIN tx[r].rows
  BY <1>1, <1>3 DEF Process
<1>5. Apart'
  BY <1>4 DEF Locking, Apart
<1>6. Held'
  BY <1>1, <1>4 DEF Locking, Held
<1>7. QED
  BY <1>1, <1>2, <1>5, <1>6 DEF Locking, HandledIsDispatched, HandledOnce, NothingForgotten

\* What a relay commits nobody else holds and nobody has handled before, for it was
\* pending until then; what the desk commits is new.
LEMMA CommitLocking ==
    ASSUME Registry = 1, Shape, Locking, NEW p \in Process, Commit(p)
    PROVE  Locking'
<1>1. PICK t \in Work : t = tx[p]
  BY DEF Shape
<1>2. PICK S \in SUBSET Nat : t.rows \in [S -> Row]
  BY DEF Work
<1>3. Consumer = {1} /\ t.applied[1] \in Seq(Nat) /\ applied[1] \in Seq(Nat)
  BY DEF Consumer, Work, Shape
<1>4. /\ applied'[1] = applied[1] \o t.applied[1]
      /\ ToSet(applied'[1]) = ToSet(applied[1]) \cup ToSet(t.applied[1])
  BY <1>1, <1>3, ConcatKnows DEF Commit
<1>5. letters' = letters \cup t.letters
  BY <1>1 DEF Commit
<1>6. tx'[p] = None /\ \A q \in Process : q # p => tx'[q] = tx[q]
  BY DEF Commit, Shape
<1>7. /\ DOMAIN events' = DOMAIN events \cup S /\ DOMAIN t.rows = S
      /\ \A n \in S : events'[n] = t.rows[n]
      /\ \A n \in DOMAIN events : n \notin S => events'[n] = events[n]
  BY <1>1, <1>2, CommitRows
<1>8. \A n \in S : n \in DOMAIN events => events[n].status = "pending"
  <2>1. CASE p \in Relay
    BY <1>1, <1>7, <2>1 DEF Locking, Held
  <2>2. CASE p = Desk
    <3>1. S = {Len(events) + 1}
      BY <1>1, <1>7, <2>2 DEF Shape, Commit, Done
    <3>2. DOMAIN events = 1..Len(events) /\ Len(events) \in Nat
      BY DEF Shape
    <3>3. QED
      BY <3>1, <3>2
  <2>3. QED
    BY <2>1, <2>2 DEF Process
<1>9. InHand(t, applied)
  BY <1>1 DEF Locking
<1>10. \A m \in ToSet(t.applied[1]) : m \in S /\ t.rows[m].status = "dispatched"
  BY <1>3, <1>7, <1>9 DEF InHand
<1>11. \A m \in ToSet(applied[1]) : m \in DOMAIN events /\ events[m].status = "dispatched" /\ m \notin S
  BY <1>3, <1>8 DEF Locking, HandledIsDispatched
<1>12. HandledOnce'
  <2>1. IsInjective(applied[1]) /\ IsInjective(t.applied[1])
    BY <1>3, <1>9 DEF Locking, HandledOnce, InHand
  <2>2. ToSet(applied[1]) \cap ToSet(t.applied[1]) = {}
    BY <1>10, <1>11
  <2>3. IsInjective(applied'[1])
    BY <1>3, <1>4, <2>1, <2>2, ConcatKnows
  <2>4. QED
    BY <1>3, <2>3 DEF HandledOnce
<1>13. HandledIsDispatched'
  <2>1. ASSUME NEW m \in ToSet(applied'[1])
        PROVE  m \in DOMAIN events' /\ events'[m].status = "dispatched"
    <3>1. CASE m \in ToSet(applied[1])
      BY <1>7, <1>11, <3>1
    <3>2. CASE m \in ToSet(t.applied[1])
      BY <1>7, <1>10, <3>2
    <3>3. QED
      BY <1>4, <3>1, <3>2
  <2>2. QED
    BY <1>3, <2>1 DEF HandledIsDispatched
<1>14. DOMAIN None.rows = {}
  BY DEF None
<1>15. Apart'
  <2>1. \A r \in Relay : DOMAIN tx'[r].rows \subseteq DOMAIN tx[r].rows
    BY <1>6, <1>14 DEF Process
  <2>2. QED
    BY <2>1 DEF Locking, Apart
<1>16. Held'
  <2>1. SUFFICES ASSUME NEW r \in Relay, NEW n \in DOMAIN tx'[r].rows
                 PROVE  events'[n].status = "pending"
    BY DEF Held
  <2>2. r # p /\ n \in DOMAIN tx[r].rows /\ n \in DOMAIN events
    BY <1>6, <1>14 DEF Shape, Process
  <2>3. n \notin S
    <3>1. CASE p \in Relay
      BY <1>1, <1>7, <2>2, <3>1 DEF Locking, Apart
    <3>2. CASE p = Desk
      <4>1. S = {Len(events) + 1}
        BY <1>1, <1>7, <3>2 DEF Shape, Commit, Done
      <4>2. DOMAIN events = 1..Len(events) /\ Len(events) \in Nat
        BY DEF Shape
      <4>3. QED
        BY <2>2, <4>1, <4>2
    <3>3. QED
      BY <3>1, <3>2 DEF Process
  <2>4. QED
    BY <1>7, <2>2, <2>3 DEF Locking, Held
<1>17. \A q \in Process : InHand(tx'[q], applied')
  <2>1. InHand(tx'[p], applied')
    BY <1>6, NoneInHand
  <2>2. ASSUME NEW q \in Process, q # p PROVE InHand(tx'[q], applied')
    <3>1. PICK u : u = tx[q] /\ u = tx'[q]
      BY <1>6, <2>2
    <3>2. InHand(u, applied)
      BY <3>1 DEF Locking
    <3>3. Known(u, applied, 1) \subseteq Known(u, applied', 1)
      BY <1>4 DEF Known
    <3>4. \A c \in Consumer : Known(u, applied, c) \subseteq Known(u, applied', c)
      BY <1>3, <3>3
    <3>5. PICK R \in SUBSET Nat : u.rows \in [R -> Row]
      <4>1. u \in Work
        BY <3>1 DEF Shape
      <4>2. QED
        BY <4>1 DEF Work
    <3>6. \A n \in DOMAIN u.rows : u.rows[n].for \subseteq Consumer
      BY <3>5 DEF Row
    <3>7. InHand(u, applied')
      BY <3>2, <3>4, <3>6 DEF InHand
    <3>8. QED
      BY <3>1, <3>7
  <2>3. QED
    BY <2>1, <2>2
<1>18. NothingForgotten'
  <2>1. SUFFICES ASSUME NEW n \in DOMAIN events', events'[n].status # "pending",
                        NEW c \in events'[n].for
                 PROVE  \/ \E m \in ToSet(applied'[c]) : m >= n
                        \/ events'[n].status = "poison" /\ <<c, n>> \in letters'
    BY DEF NothingForgotten
  <2>2. c = 1
    <3>1. events'[n] \in Row
      <4>1. events' \in Seq(Row)
        BY CommitRows
      <4>2. PICK e \in Seq(Row) : e = events'
        BY <4>1
      <4>3. DOMAIN e = 1..Len(e) /\ n \in DOMAIN e
        BY <2>1, <4>2
      <4>4. e[n] \in Row
        BY <4>3
      <4>5. QED
        BY <4>2, <4>4
    <3>2. QED
      BY <1>3, <3>1 DEF Row
  <2>3. CASE n \in S
    <3>1. \/ \E m \in Known(t, applied, c) : m >= n
          \/ t.rows[n].status = "poison" /\ <<c, n>> \in t.letters
      BY <1>7, <1>9, <2>1, <2>3 DEF InHand
    <3>2. Known(t, applied, c) = ToSet(applied'[c])
      BY <1>4, <2>2 DEF Known
    <3>3. QED
      BY <1>5, <1>7, <2>3, <3>1, <3>2
  <2>4. CASE n \notin S
    <3>1. n \in DOMAIN events /\ events'[n] = events[n]
      BY <1>7, <2>4
    <3>2. \/ \E m \in ToSet(applied[c]) : m >= n
          \/ events[n].status = "poison" /\ <<c, n>> \in letters
      BY <2>1, <3>1 DEF Locking, NothingForgotten
    <3>3. QED
      BY <1>4, <1>5, <2>2, <3>1, <3>2
  <2>5. QED
    BY <2>3, <2>4
<1>19. QED
  BY <1>12, <1>13, <1>15, <1>16, <1>17, <1>18 DEF Locking

LEMMA InitLocking == Init => Locking
<1>1. SUFFICES ASSUME Init PROVE Locking
  OBVIOUS
<1>2. IsInjective(<<>>) /\ ToSet(<<>>) = {} /\ DOMAIN None.rows = {}
  BY DEF IsInjective, ToSet, None
<1>3. \A p \in Process : tx[p] = None
  BY <1>1 DEF Init
<1>4. Apart /\ Held
  BY <1>2, <1>3 DEF Apart, Held, Process
<1>5. \A p \in Process : InHand(tx[p], applied)
  BY <1>3, NoneInHand
<1>6. HandledOnce /\ HandledIsDispatched /\ NothingForgotten
  BY <1>1, <1>2 DEF Init, HandledOnce, HandledIsDispatched, NothingForgotten
<1>7. QED
  BY <1>4, <1>5, <1>6 DEF Locking

LEMMA NextLocking ==
    ASSUME Registry = 1, Shape, Earned, Locking, [Next]_vars
    PROVE  Locking'
<1>1. ASSUME NEW for \in SUBSET Consumer, Emit(for) PROVE Locking'
  BY <1>1, EmitLocking
<1>2. ASSUME NEW for \in SUBSET Consumer, Decide(for) PROVE Locking'
  <2>1. PICK n \in Nat : n = Len(events) + 1
    BY DEF Shape
  <2>2. PICK rows \in [{n} -> Row] : rows = [k \in {n} |-> New(for)]
    BY DEF New, Row
  <2>3. /\ tx' = [tx EXCEPT ![Desk] = [None EXCEPT !.open = TRUE, !.queue = {n}, !.rows = rows]]
        /\ UNCHANGED <<events, mark, applied, letters>>
    BY <1>2, <2>1, <2>2 DEF Decide
  <2>4. Desk \in Process /\ Desk \notin Relay /\ {n} \in SUBSET Nat
    BY RelayAssumption DEF Process
  <2>5. \A k \in {n} : rows[k].status = "pending"
    BY <2>2 DEF New
  <2>6. QED
    BY <2>3, <2>4, <2>5, OpenLocking
<1>3. ASSUME NEW r \in Relay, Poll(r) PROVE Locking'
  <2>1. PICK m \in DOMAIN events :
           /\ tx' = [tx EXCEPT ![r] = [None EXCEPT !.open = TRUE, !.queue = Batch(m),
                                                   !.rows = [n \in Batch(m) |-> events[n]]]]
           /\ UNCHANGED <<events, mark, applied, letters>>
    BY <1>3 DEF Poll
  <2>2. PICK S : S = Batch(m)
    OBVIOUS
  <2>3. DOMAIN events = 1..Len(events) /\ Len(events) \in Nat
    BY DEF Shape
  <2>4. /\ S \in SUBSET Nat
        /\ \A n \in S : n \in DOMAIN events /\ events[n].status = "pending" /\ ~Locked(n)
    BY <2>2, <2>3 DEF Batch
  <2>5. PICK rows \in [S -> Row] : rows = [n \in S |-> events[n]]
    <3>1. \A n \in DOMAIN events : events[n] \in Row
      BY <2>3 DEF Shape
    <3>2. QED
      BY <2>4, <3>1
  <2>6. r \in Process
    BY DEF Process
  <2>7. \A n \in S : rows[n] = events[n]
    BY <2>5
  <2>8. tx' = [tx EXCEPT ![r] = [None EXCEPT !.open = TRUE, !.queue = S, !.rows = rows]]
    BY <2>1, <2>2, <2>5
  <2>9. \A n \in S : rows[n].status = "pending"
    BY <2>4, <2>7
  <2>10. r \in Relay => \A n \in S : ~Locked(n) /\ n \in DOMAIN events /\ events[n] = rows[n]
    BY <2>4, <2>7
  <2>11. S \in SUBSET Nat /\ UNCHANGED <<events, mark, applied, letters>>
    BY <2>1, <2>4
  <2>12. QED
    BY <2>6, <2>8, <2>9, <2>10, <2>11, OpenLocking, Zenon
<1>4. ASSUME NEW p \in Process, Handling(p) PROVE Locking'
  <2>1. PICK n \in tx[p].queue, succeeds \in BOOLEAN : Deliver(p, n, succeeds)
    BY <1>4 DEF Handling
  <2>2. QED
    BY <2>1, TurnLocking, Zenon
<1>5. ASSUME NEW p \in Process, Commit(p) PROVE Locking'
  BY <1>5, CommitLocking
<1>6. ASSUME NEW p \in Process, Abort(p) PROVE Locking'
  BY <1>6, AbortLocking
<1>7. CASE UNCHANGED vars
  BY <1>7 DEF vars, Locking, Apart, Held, HandledIsDispatched, HandledOnce, NothingForgotten
<1>8. QED
  BY <1>1, <1>2, <1>3, <1>4, <1>5, <1>6, <1>7 DEF Next, Produce

\* The invariant of a relay with one registered consumer.
IInv == Shape /\ Earned /\ Locking

LEMMA SpecIInv == ASSUME Registry = 1 PROVE Spec => []IInv
<1>1. Init => IInv
  BY InitShape, InitLocking DEF IInv
<1>2. IInv /\ [Next]_vars => IInv'
  BY NextEarned, NextLocking DEF IInv
<1>3. QED
  BY <1>1, <1>2, PTL DEF Spec

\* With the one consumer the code registers, no event is handled twice, with any number
\* of relays beside the desk: the checkpoint is read without a lock, but an event that
\* can be delivered is pending and locked by one relay, and what is handled is
\* dispatched by the transaction that handled it.
THEOREM NothingIsHandledTwice == ASSUME Registry = 1 PROVE Spec => []HandledOnce
<1>1. IInv => HandledOnce
  BY DEF IInv, Locking
<1>2. QED
  BY <1>1, SpecIInv, PTL

\* And none is dropped: what is no longer pending has been handled, or overtaken by a
\* later event that was, or it is poison and has a letter.
THEOREM NothingIsForgotten == ASSUME Registry = 1 PROVE Spec => []NothingForgotten
<1>1. IInv => NothingForgotten
  BY DEF IInv, Locking
<1>2. QED
  BY <1>1, SpecIInv, PTL

=============================================================================
