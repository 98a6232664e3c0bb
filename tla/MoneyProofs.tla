------------------------------ MODULE MoneyProofs ------------------------------
(***************************************************************************)
(* Proofs about what a workspace spends (SpendControl) and what it pays    *)
(* (Billing).                                                              *)
(*                                                                         *)
(* The inductive invariant of SpendControl follows the one check that may  *)
(* be in progress through its four sums and says, after each of them, how  *)
(* far what it saw can be from what is true by now.  That of Billing says  *)
(* what the newest receipts say of the row; a delivery that overlaps       *)
(* another one is followed through the attributes its update carries.      *)
(***************************************************************************)
EXTENDS SpendControl, Billing, FiniteSetTheorems, TLAPS

Others(t) == Task \ {t}

\* The cap's lock: there is one check at a time.
Exclusive ==
    \A t, u \in Task : check[t].at > 0 /\ check[u].at > 0 => t = u

\* The sum of the logs of window w is statement First(w), the sum of the
\* reservations the one after it.
First(w) == IF w = "day" THEN 1 ELSE 3

\* What check c of a task knows of window w, where s is spent by now, all
\* is reserved by everybody and others by the other tasks.
Knows(c, w, s, all, others) ==
    /\ c.at > 0 => s + others <= c.used[w]
    /\ c.at <= First(w) => c.saw[w] = 0
    /\ c.at > First(w) => s + all <= c.saw[w] + Ceiling[w]
    /\ c.at = First(w) + 1 => c.saw[w] + others <= c.used[w]
    /\ c.at > First(w) + 1 => others <= c.saw[w] /\ c.saw[w] <= c.used[w]

Checked ==
    \A t \in Task, w \in Window :
        Knows(check[t], w, spent[w], Reserved(Task), Reserved(Others(t)))

Affordable == \A w \in Window : Reserved(Task) <= Ceiling[w]

IInv == TypeOK /\ Exclusive /\ Checked /\ Affordable /\ BoundedOvershoot

-----------------------------------------------------------------------------
(* Sums of reservations.                                                   *)

LEMMA TimesMonotone ==
    ASSUME NEW e \in Nat, NEW a \in Nat, NEW b \in Nat, a <= b
    PROVE  e * a <= e * b
<1>1. PICK d \in Nat : b = a + d
    <2>1. b - a \in Nat /\ b = a + (b - a)
        OBVIOUS
    <2> QED BY <2>1
<1>2. e * b = e * a + e * d
    BY <1>1
<1>3. e * d \in Nat /\ e * a \in Nat
    OBVIOUS
<1> QED BY <1>2, <1>3

\* A sum of reservations is a natural number.
LEMMA ReservedNat ==
    ASSUME open \subseteq Task, NEW S \in SUBSET Task
    PROVE  IsFiniteSet(open \cap S) /\ Cardinality(open \cap S) \in Nat /\ Reserved(S) \in Nat
<1>1. IsFiniteSet(open \cap S)
    BY FS_Subset, SpendAssumption
<1>2. Cardinality(open \cap S) \in Nat
    BY <1>1, FS_CardinalityType
<1> QED BY <1>1, <1>2, SpendAssumption DEF Reserved

\* It does not grow when reservations end.
LEMMA ReservedShrinks ==
    ASSUME open \subseteq Task, open' \subseteq open, NEW S \in SUBSET Task
    PROVE  Reserved(S)' \in Nat /\ Reserved(S)' <= Reserved(S)
<1>1. IsFiniteSet(open \cap S) /\ Cardinality(open \cap S) \in Nat
    BY ReservedNat
<1>2. open' \cap S \subseteq open \cap S
    OBVIOUS
<1>3. Cardinality(open' \cap S) <= Cardinality(open \cap S) /\ IsFiniteSet(open' \cap S)
    BY <1>1, <1>2, FS_Subset
<1>4. Cardinality(open' \cap S) \in Nat
    BY <1>3, FS_CardinalityType
<1>5. Est * Cardinality(open' \cap S) <= Est * Cardinality(open \cap S)
    BY <1>1, <1>3, <1>4, TimesMonotone, SpendAssumption
<1> QED BY <1>4, <1>5, SpendAssumption DEF Reserved

\* It loses one estimate when one of its reservations ends.
LEMMA ReservedCloses ==
    ASSUME open \subseteq Task, NEW t \in open, open' = open \ {t},
           NEW S \in SUBSET Task, t \in S
    PROVE  Reserved(S)' = Reserved(S) - Est
<1> DEFINE X == open \cap S
<1>1. IsFiniteSet(X) /\ Cardinality(X) \in Nat
    BY ReservedNat
<1>2. t \in X /\ open' \cap S = X \ {t}
    OBVIOUS
<1>3. Cardinality(X \ {t}) = Cardinality(X) - 1
    <2> HIDE DEF X
    <2> QED BY <1>1, <1>2, FS_RemoveElement
<1>4. Est * (Cardinality(X) - 1) = Est * Cardinality(X) - Est
    <2> HIDE DEF X
    <2> QED BY <1>1, SpendAssumption
<1> QED BY <1>2, <1>3, <1>4 DEF Reserved

\* It is that of the others and one estimate more once a task has one.
LEMMA ReservedOpens ==
    ASSUME open \subseteq Task, NEW t \in Task, open' = open \cup {t}
    PROVE  Reserved(Task)' = Reserved(Others(t)) + Est
<1> DEFINE X == open \cap Others(t)
<1>1. Others(t) \in SUBSET Task
    BY DEF Others
<1>2. IsFiniteSet(X) /\ Cardinality(X) \in Nat
    BY <1>1, ReservedNat
<1>3. t \notin X /\ open' \cap Task = X \cup {t}
    BY DEF Others
<1>4. Cardinality(X \cup {t}) = Cardinality(X) + 1
    BY <1>2, <1>3, FS_AddElement
<1>5. Est * (Cardinality(X) + 1) = Est * Cardinality(X) + Est
    BY <1>2, SpendAssumption
<1> QED BY <1>3, <1>4, <1>5 DEF Reserved

\* What some tasks have reserved is part of what all have.
LEMMA ReservedOthers ==
    ASSUME open \subseteq Task, NEW t \in Task
    PROVE  Reserved(Others(t)) \in Nat /\ Reserved(Others(t)) <= Reserved(Task)
<1>1. Others(t) \in SUBSET Task /\ Task \in SUBSET Task
    BY DEF Others
<1>2. IsFiniteSet(open \cap Task) /\ Cardinality(open \cap Task) \in Nat
    BY ReservedNat
<1>3. Cardinality(open \cap Others(t)) \in Nat
    BY <1>1, ReservedNat
<1>4. open \cap Others(t) \subseteq open \cap Task
    BY <1>1
<1>5. Cardinality(open \cap Others(t)) <= Cardinality(open \cap Task)
    BY <1>2, <1>4, FS_Subset
<1>6. Est * Cardinality(open \cap Others(t)) <= Est * Cardinality(open \cap Task)
    BY <1>2, <1>3, <1>5, TimesMonotone, SpendAssumption
<1> QED BY <1>1, <1>3, <1>6, SpendAssumption DEF Reserved

-----------------------------------------------------------------------------
(* The steps that do not check: they end reservations, and charge no more  *)
(* than these held.                                                        *)

LEMMA Settles ==
    ASSUME IInv, UNCHANGED <<cap, check>>, held' \subseteq Task,
           open' \subseteq open, spent' \in [Window -> Nat],
           \A w \in Window :
               /\ spent'[w] + Reserved(Task)' <= spent[w] + Reserved(Task)
               /\ \A u \in Task : check[u].at > 0 =>
                     spent'[w] + Reserved(Others(u))' <= spent[w] + Reserved(Others(u))
    PROVE  IInv'
<1>1. TypeOK' /\ Exclusive'
    BY DEF IInv, TypeOK, Exclusive
<1>2. Task \in SUBSET Task /\ \A u \in Task : Others(u) \in SUBSET Task
    BY DEF Others
<1>3. open \subseteq Task
    BY DEF IInv, TypeOK
<1>4. /\ Reserved(Task) \in Nat /\ Reserved(Task)' \in Nat
      /\ Reserved(Task)' <= Reserved(Task)
    BY <1>2, <1>3, ReservedNat, ReservedShrinks
<1>5. ASSUME NEW u \in Task
      PROVE  /\ Reserved(Others(u)) \in Nat /\ Reserved(Others(u))' \in Nat
             /\ Reserved(Others(u))' <= Reserved(Others(u))
    BY <1>2, <1>3, ReservedNat, ReservedShrinks
<1>6. Affordable' /\ BoundedOvershoot'
    <2> SUFFICES ASSUME NEW w \in Window
                 PROVE  /\ Reserved(Task)' <= Ceiling[w]
                        /\ spent'[w] + Reserved(Task)' <= 2 * Ceiling[w]
        BY DEF Affordable, BoundedOvershoot
    <2>1. Ceiling[w] \in Nat /\ spent[w] \in Nat /\ spent'[w] \in Nat
        BY SpendAssumption DEF IInv, TypeOK
    <2>2. /\ Reserved(Task) <= Ceiling[w]
          /\ spent[w] + Reserved(Task) <= 2 * Ceiling[w]
        BY DEF IInv, Affordable, BoundedOvershoot
    <2> QED BY <1>4, <2>1, <2>2
<1>7. Checked'
    <2> SUFFICES ASSUME NEW u \in Task, NEW w \in Window
                 PROVE  Knows(check[u], w, spent'[w], Reserved(Task)', Reserved(Others(u))')
        BY DEF Checked
    <2>1. /\ Ceiling[w] \in Nat /\ spent[w] \in Nat /\ spent'[w] \in Nat
          /\ check[u].at \in 0..5 /\ check[u].saw[w] \in Nat /\ check[u].used[w] \in Nat
        BY SpendAssumption DEF IInv, TypeOK, Check
    <2>2. Knows(check[u], w, spent[w], Reserved(Task), Reserved(Others(u)))
        BY DEF IInv, Checked
    <2>3. First(w) \in {1, 3}
        BY DEF First
    <2> QED BY <1>4, <1>5, <2>1, <2>2, <2>3 DEF Knows
<1> QED BY <1>1, <1>6, <1>7 DEF IInv

\* commit_spend takes at most what was reserved from the same reservation.
LEMMA CommitSettles ==
    ASSUME IInv, NEW t \in Task, NEW r \in Reports, Commit(t, r)
    PROVE  IInv'
<1>1. Est \in Nat /\ r \in Int /\ r >= 0
    BY SpendAssumption DEF Reports, Commit, Chargeable
<1>2. Charged(r) \in Nat /\ Charged(r) <= Est
    BY <1>1 DEF Charged
<1>3. /\ open \subseteq Task /\ t \in open /\ open' = open \ {t} /\ check[t].at = 0
      /\ spent \in [Window -> Nat] /\ spent' = [w \in Window |-> spent[w] + Charged(r)]
      /\ held' = held /\ held \subseteq Task /\ cap' = cap /\ check' = check
    BY DEF IInv, TypeOK, Commit, Settleable
<1>4. spent' \in [Window -> Nat] /\ \A w \in Window : spent'[w] <= spent[w] + Est
    BY <1>1, <1>2, <1>3
<1>5. ASSUME NEW w \in Window
      PROVE  spent'[w] + Reserved(Task)' <= spent[w] + Reserved(Task)
    <2>1. Reserved(Task)' = Reserved(Task) - Est
        BY <1>3, ReservedCloses
    <2>2. Reserved(Task) \in Nat
        BY <1>3, ReservedNat
    <2> QED BY <1>1, <1>3, <1>4, <2>1, <2>2
<1>6. ASSUME NEW w \in Window, NEW u \in Task, check[u].at > 0
      PROVE  spent'[w] + Reserved(Others(u))' <= spent[w] + Reserved(Others(u))
    <2>1. t \in Others(u) /\ Others(u) \in SUBSET Task
        BY <1>3, <1>6 DEF Others
    <2>2. Reserved(Others(u))' = Reserved(Others(u)) - Est
        BY <1>3, <2>1, ReservedCloses
    <2>3. Reserved(Others(u)) \in Nat
        BY <1>3, <2>1, ReservedNat
    <2> QED BY <1>1, <1>3, <1>4, <2>2, <2>3
<1> QED BY <1>3, <1>4, <1>5, <1>6, Settles

\* A release charges nothing, and at midnight charges leave the window.
LEMMA OthersSettle ==
    ASSUME IInv, (\E t \in Task : Release(t)) \/ NewDay \/ NewMonth
    PROVE  IInv'
<1>1. /\ open \subseteq Task /\ open' \subseteq open /\ spent \in [Window -> Nat]
      /\ held' = held /\ held \subseteq Task /\ cap' = cap /\ check' = check
    BY DEF IInv, TypeOK, Release, NewDay, NewMonth
<1>2. spent' \in [Window -> Nat] /\ \A w \in Window : spent'[w] <= spent[w]
    BY <1>1 DEF Release, NewDay, NewMonth, Nothing, Window
<1>3. \A S \in SUBSET Task :
          Reserved(S) \in Nat /\ Reserved(S)' \in Nat /\ Reserved(S)' <= Reserved(S)
    BY <1>1, ReservedNat, ReservedShrinks
<1>4. Task \in SUBSET Task /\ \A u \in Task : Others(u) \in SUBSET Task
    BY DEF Others
<1>5. ASSUME NEW w \in Window, NEW S \in SUBSET Task
      PROVE  spent'[w] + Reserved(S)' <= spent[w] + Reserved(S)
    <2>1. spent[w] \in Nat /\ spent'[w] \in Nat /\ spent'[w] <= spent[w]
        BY <1>1, <1>2
    <2> QED BY <1>3, <2>1
<1> QED BY <1>1, <1>2, <1>4, <1>5, Settles

-----------------------------------------------------------------------------
(* The end of a check.                                                     *)

\* No check is in progress after it: there was only the one.
LEMMA ChecksOver ==
    ASSUME IInv, NEW t \in Task, check[t].at > 0, check' = [check EXCEPT ![t] = Idle],
           open' \subseteq Task, spent' \in [Window -> Nat]
    PROVE  check' \in [Task -> Check] /\ Exclusive' /\ Checked'
<1>1. check \in [Task -> Check]
    BY DEF IInv, TypeOK
<1>2. Idle \in Check /\ Idle.at = 0 /\ \A w \in Window : Idle.saw[w] = 0
    BY DEF Idle, Check, Nothing
<1>3. check' \in [Task -> Check]
    BY <1>1, <1>2
<1>4. ASSUME NEW u \in Task
      PROVE  check'[u].at = 0 /\ \A w \in Window : check'[u].saw[w] = 0
    <2>1. CASE u = t
        BY <1>1, <1>2, <2>1
    <2>2. CASE u # t
        <3>1. check'[u] = check[u] /\ check[u].at \in 0..5
            BY <1>1, <2>2 DEF Check
        <3>2. check[u].at = 0
            BY <2>2, <3>1 DEF IInv, Exclusive
        <3>3. \A w \in Window : check[u].at <= First(w)
            BY <3>2 DEF First
        <3>4. \A w \in Window : check[u].saw[w] = 0
            BY <3>3 DEF IInv, Checked, Knows
        <3> QED BY <3>1, <3>2, <3>4
    <2> QED BY <2>1, <2>2
<1>5. Exclusive'
    BY <1>4 DEF Exclusive
<1>6. Checked'
    <2> SUFFICES ASSUME NEW u \in Task, NEW w \in Window
                 PROVE  Knows(check'[u], w, spent'[w], Reserved(Task)', Reserved(Others(u))')
        BY DEF Checked
    <2>1. First(w) \in {1, 3}
        BY DEF First
    <2> QED BY <1>4, <2>1 DEF Knows
<1> QED BY <1>3, <1>5, <1>6

\* What a check that fits has established when it is over: there is room
\* for the estimate among the reservations, and nearly so among all usage.
LEMMA Fitting ==
    ASSUME IInv, NEW t \in Task, check[t].at = 5, Fits(t), NEW w \in Window
    PROVE  /\ Reserved(Others(t)) + Est <= cap[w] /\ cap[w] <= Ceiling[w]
           /\ spent[w] + Reserved(Task) + Est <= 2 * Ceiling[w]
<1>1. /\ Est \in Nat /\ Ceiling[w] \in Nat /\ cap[w] \in Nat /\ cap[w] <= Ceiling[w]
      /\ spent[w] \in Nat /\ check[t].saw[w] \in Nat
    BY SpendAssumption DEF IInv, TypeOK, Check
<1>2. /\ Reserved(Task) \in Nat /\ Reserved(Others(t)) \in Nat
    BY ReservedNat, ReservedOthers DEF IInv, TypeOK
<1>3. 5 > First(w) /\ 5 > First(w) + 1
    BY DEF First
<1>4. /\ Reserved(Others(t)) <= check[t].saw[w]
      /\ spent[w] + Reserved(Task) <= check[t].saw[w] + Ceiling[w]
    BY <1>3 DEF IInv, Checked, Knows
<1>5. check[t].saw[w] + Est <= cap[w]
    BY DEF Fits
<1> QED BY <1>1, <1>2, <1>4, <1>5

LEMMA GrantPreserves ==
    ASSUME IInv, NEW t \in Task, Grant(t)
    PROVE  IInv'
<1>1. /\ check[t].at = 5 /\ Fits(t) /\ open \subseteq Task /\ open' = open \cup {t}
      /\ spent \in [Window -> Nat] /\ UNCHANGED <<held, spent, cap>>
      /\ check' = [check EXCEPT ![t] = Idle]
    BY DEF IInv, TypeOK, Grant
<1>2. check' \in [Task -> Check] /\ Exclusive' /\ Checked'
    <2>1. check[t].at > 0 /\ open' \subseteq Task /\ spent' \in [Window -> Nat]
        BY <1>1
    <2> QED BY <1>1, <2>1, ChecksOver
<1>3. TypeOK'
    BY <1>1, <1>2 DEF IInv, TypeOK
<1>4. Reserved(Task)' = Reserved(Others(t)) + Est
    BY <1>1, ReservedOpens
<1>5. Affordable' /\ BoundedOvershoot'
    <2> SUFFICES ASSUME NEW w \in Window
                 PROVE  /\ Reserved(Task)' <= Ceiling[w]
                        /\ spent[w] + Reserved(Task)' <= 2 * Ceiling[w]
        BY <1>1 DEF Affordable, BoundedOvershoot
    <2>1. /\ Reserved(Others(t)) + Est <= cap[w] /\ cap[w] <= Ceiling[w]
          /\ spent[w] + Reserved(Task) + Est <= 2 * Ceiling[w]
        BY <1>1, Fitting
    <2>2. /\ Reserved(Task) \in Nat /\ Reserved(Others(t)) \in Nat
          /\ Reserved(Others(t)) <= Reserved(Task)
        BY <1>1, ReservedNat, ReservedOthers
    <2>3. Est \in Nat /\ Ceiling[w] \in Nat /\ cap[w] \in Nat /\ spent[w] \in Nat
        BY SpendAssumption DEF IInv, TypeOK
    <2> QED BY <1>4, <2>1, <2>2, <2>3
<1> QED BY <1>2, <1>3, <1>5 DEF IInv

LEMMA GrantDeskPreserves ==
    ASSUME IInv, NEW t \in Task, GrantDesk(t)
    PROVE  IInv'
<1>1. /\ check[t].at = 5 /\ Fits(t) /\ open \subseteq Task
      /\ spent \in [Window -> Nat] /\ UNCHANGED <<open, held, cap>>
      /\ spent' = [w \in Window |-> spent[w] + Est]
      /\ check' = [check EXCEPT ![t] = Idle]
    BY DEF IInv, TypeOK, GrantDesk
<1>2. spent' \in [Window -> Nat]
    BY <1>1, SpendAssumption
<1>3. check' \in [Task -> Check] /\ Exclusive' /\ Checked'
    <2>1. check[t].at > 0 /\ open' \subseteq Task
        BY <1>1
    <2> QED BY <1>1, <1>2, <2>1, ChecksOver
<1>4. TypeOK'
    BY <1>1, <1>2, <1>3 DEF IInv, TypeOK
<1>5. Reserved(Task)' = Reserved(Task)
    BY <1>1 DEF Reserved
<1>6. Affordable'
    BY <1>5 DEF IInv, Affordable
<1>7. BoundedOvershoot'
    <2> SUFFICES ASSUME NEW w \in Window
                 PROVE  spent'[w] + Reserved(Task) <= 2 * Ceiling[w]
        BY <1>5 DEF BoundedOvershoot
    <2>1. spent[w] + Reserved(Task) + Est <= 2 * Ceiling[w]
        BY <1>1, Fitting
    <2>2. Reserved(Task) \in Nat /\ Est \in Nat /\ Ceiling[w] \in Nat /\ spent[w] \in Nat
        BY <1>1, ReservedNat, SpendAssumption
    <2> QED BY <1>1, <2>1, <2>2
<1> QED BY <1>3, <1>4, <1>6, <1>7 DEF IInv

LEMMA HoldOrAbortPreserves ==
    ASSUME IInv, NEW t \in Task, Hold(t) \/ Abort(t)
    PROVE  IInv'
<1>1. /\ check[t].at > 0 /\ open \subseteq Task /\ open' \subseteq open
      /\ spent \in [Window -> Nat] /\ held' \subseteq Task /\ UNCHANGED <<spent, cap>>
      /\ check' = [check EXCEPT ![t] = Idle]
    BY DEF IInv, TypeOK, Hold, Abort
<1>2. check' \in [Task -> Check] /\ Exclusive' /\ Checked'
    BY <1>1, ChecksOver
<1>3. TypeOK'
    BY <1>1, <1>2 DEF IInv, TypeOK
<1>4. /\ Reserved(Task) \in Nat /\ Reserved(Task)' \in Nat
      /\ Reserved(Task)' <= Reserved(Task)
    BY <1>1, ReservedNat, ReservedShrinks
<1>5. Affordable' /\ BoundedOvershoot'
    <2> SUFFICES ASSUME NEW w \in Window
                 PROVE  /\ Reserved(Task)' <= Ceiling[w]
                        /\ spent[w] + Reserved(Task)' <= 2 * Ceiling[w]
        BY <1>1 DEF Affordable, BoundedOvershoot
    <2>1. /\ Reserved(Task) <= Ceiling[w]
          /\ spent[w] + Reserved(Task) <= 2 * Ceiling[w]
        BY DEF IInv, Affordable, BoundedOvershoot
    <2>2. Ceiling[w] \in Nat /\ spent[w] \in Nat
        BY <1>1, SpendAssumption
    <2> QED BY <1>4, <2>1, <2>2
<1> QED BY <1>2, <1>3, <1>5 DEF IInv

-----------------------------------------------------------------------------
(* The steps of a check.                                                   *)

LEMMA LockPreserves ==
    ASSUME IInv, NEW t \in Task, Lock(t)
    PROVE  IInv'
<1> DEFINE c == [at |-> 1, saw |-> Nothing,
                 used |-> [w \in Window |-> spent[w] + Reserved(Others(t))]]
<1>1. /\ open \subseteq Task /\ spent \in [Window -> Nat] /\ check \in [Task -> Check]
      /\ UNCHANGED <<open, held, spent, cap>>
      /\ check' = [check EXCEPT ![t] = c]
      /\ \A u \in Task : check[u].at = 0
    BY DEF IInv, TypeOK, Lock, CapFree, Others
<1>2. Reserved(Others(t)) \in Nat /\ \A S : Reserved(S)' = Reserved(S)
    BY <1>1, ReservedOthers DEF Reserved
<1>3. c \in Check
    BY <1>1, <1>2 DEF Check, Nothing
<1>4. check'[t] = c /\ \A u \in Task \ {t} : check'[u] = check[u]
    BY <1>1
<1>5. TypeOK' /\ Exclusive'
    <2>1. check' \in [Task -> Check]
        BY <1>1, <1>3
    <2> QED BY <1>1, <1>4, <2>1 DEF IInv, TypeOK, Exclusive
<1>6. Affordable' /\ BoundedOvershoot'
    BY <1>1, <1>2 DEF IInv, Affordable, BoundedOvershoot
<1>7. ASSUME NEW u \in Task, NEW w \in Window
      PROVE  Knows(check'[u], w, spent[w], Reserved(Task), Reserved(Others(u)))
    <2>1. CASE u # t
        BY <1>4, <2>1 DEF IInv, Checked
    <2>2. CASE u = t
        <3>1. First(w) \in {1, 3} /\ c.at = 1 /\ c.saw[w] = 0
            BY DEF First, Nothing
        <3>2. c.used[w] = spent[w] + Reserved(Others(t)) /\ spent[w] \in Nat
            BY <1>1
        <3> HIDE DEF c
        <3> QED BY <1>2, <1>4, <2>2, <3>1, <3>2 DEF Knows
    <2> QED BY <2>1, <2>2
<1>8. Checked'
    BY <1>1, <1>2, <1>7 DEF Checked
<1> QED BY <1>5, <1>6, <1>8 DEF IInv

\* One more sum: the check knows more.
LEMMA ReadPreserves ==
    ASSUME IInv, NEW t \in Task, Read(t)
    PROVE  IInv'
<1> DEFINE i == check[t].at
           v == WindowOf(i)
           c == [check[t] EXCEPT !.saw[v] = @ + Sum(i, t), !.at = @ + 1]
<1>1. /\ open \subseteq Task /\ spent \in [Window -> Nat] /\ check \in [Task -> Check]
      /\ UNCHANGED <<open, held, spent, cap>> /\ i \in 1..4
      /\ check' = [check EXCEPT ![t].saw[v] = @ + Sum(i, t), ![t].at = @ + 1]
    BY DEF IInv, TypeOK, Read
<1>2. /\ Reserved(Others(t)) \in Nat /\ Reserved(Others(t)) <= Reserved(Task)
      /\ Reserved(Task) \in Nat /\ \A S : Reserved(S)' = Reserved(S)
    BY <1>1, ReservedOthers, ReservedNat DEF Reserved
<1>3. v \in Window /\ Sum(i, t) = IF i \in {1, 3} THEN spent[v] ELSE Reserved(Others(t))
    BY <1>1 DEF WindowOf, Window, Sum, Others
<1>4. check[t] \in Check /\ Sum(i, t) \in Nat
    BY <1>1, <1>2, <1>3
<1>5. /\ check'[t] = c /\ c \in Check /\ c.at = i + 1 /\ c.used = check[t].used
      /\ c.saw[v] = check[t].saw[v] + Sum(i, t)
      /\ \A w \in Window \ {v} : c.saw[w] = check[t].saw[w]
    BY <1>1, <1>3, <1>4 DEF Check
<1>6. \A u \in Task \ {t} : check'[u] = check[u]
    BY <1>1
<1> HIDE DEF c
<1>7. TypeOK' /\ Exclusive'
    <2>1. check' \in [Task -> Check]
        BY <1>1, <1>5, <1>6
    <2>2. \A u \in Task : check'[u].at > 0 => check[u].at > 0
        BY <1>1, <1>6
    <2> QED BY <1>1, <2>1, <2>2 DEF IInv, TypeOK, Exclusive
<1>8. Affordable' /\ BoundedOvershoot'
    BY <1>1, <1>2 DEF IInv, Affordable, BoundedOvershoot
<1>9. ASSUME NEW u \in Task, NEW w \in Window
      PROVE  Knows(check'[u], w, spent[w], Reserved(Task), Reserved(Others(u)))
    <2>1. CASE u # t
        BY <1>6, <2>1 DEF IInv, Checked
    <2>2. CASE u = t
        <3> DEFINE saw == check[t].saw[w]
                   used == check[t].used[w]
        <3>1. Knows(check[t], w, spent[w], Reserved(Task), Reserved(Others(t)))
            BY DEF IInv, Checked
        <3>2. /\ saw \in Nat /\ used \in Nat /\ spent[w] \in Nat /\ Ceiling[w] \in Nat
              /\ Reserved(Task) <= Ceiling[w]
            BY <1>1, <1>4, SpendAssumption DEF Check, IInv, Affordable
        <3>3. CASE i = First(w)
            <4>1. v = w /\ i \in {1, 3}
                BY <3>3 DEF First, WindowOf, Window
            <4>2. saw = 0 /\ spent[w] + Reserved(Others(t)) <= used
                BY <1>1, <3>1, <3>3 DEF Knows
            <4>3. c.saw[w] = spent[w] /\ c.at = First(w) + 1 /\ c.used[w] = used
                BY <1>3, <1>5, <3>2, <3>3, <4>1, <4>2
            <4>4. First(w) \in {1, 3}
                BY DEF First
            <4> QED BY <1>2, <1>5, <2>2, <3>2, <4>2, <4>3, <4>4 DEF Knows
        <3>4. CASE i = First(w) + 1
            <4>1. v = w /\ i \in {2, 4}
                BY <3>4 DEF First, WindowOf, Window
            <4>2. /\ spent[w] + Reserved(Others(t)) <= used
                  /\ spent[w] + Reserved(Task) <= saw + Ceiling[w]
                  /\ saw + Reserved(Others(t)) <= used
                <5>1. First(w) \in {1, 3}
                    BY DEF First
                <5> QED BY <1>1, <3>1, <3>4, <5>1 DEF Knows
            <4>3. c.saw[w] = saw + Reserved(Others(t)) /\ c.at = First(w) + 2
                  /\ c.used[w] = used
                <5>1. First(w) \in {1, 3}
                    BY DEF First
                <5> QED BY <1>3, <1>5, <3>4, <4>1, <5>1
            <4>4. First(w) \in {1, 3}
                BY DEF First
            <4> QED BY <1>2, <1>5, <2>2, <3>2, <4>2, <4>3, <4>4 DEF Knows
        <3>5. CASE i \notin {First(w), First(w) + 1}
            <4>1. /\ v # w /\ First(w) \in {1, 3}
                  /\ i > First(w) + 1 \/ i + 1 <= First(w)
                BY <1>1, <3>5 DEF First, WindowOf, Window
            <4>2. c.saw[w] = saw /\ c.at = i + 1 /\ c.used[w] = used
                BY <1>5, <4>1
            <4> QED BY <1>1, <1>2, <1>5, <2>2, <3>1, <3>2, <4>1, <4>2 DEF Knows
        <3> QED BY <3>3, <3>4, <3>5
    <2> QED BY <2>1, <2>2
<1>10. Checked'
    BY <1>1, <1>2, <1>9 DEF Checked
<1> QED BY <1>7, <1>8, <1>10 DEF IInv

-----------------------------------------------------------------------------
(* The invariant.                                                          *)

LEMMA InitIInv == Init => IInv
<1> SUFFICES ASSUME Init PROVE IInv
    OBVIOUS
<1>1. open = {} /\ held = {} /\ spent = Nothing /\ cap \in Caps
      /\ check = [t \in Task |-> Idle]
    BY DEF Init
<1>2. \A S : Reserved(S) = 0
    <2> TAKE S
    <2>1. {} \cap S = {}
        OBVIOUS
    <2>2. Cardinality({} \cap S) = 0
        BY <2>1, FS_EmptySet
    <2> QED BY <1>1, <2>2, SpendAssumption DEF Reserved
<1>3. \A w \in Window : Nothing[w] = 0
    BY DEF Nothing
<1>4. TypeOK
    BY <1>1 DEF TypeOK, Idle, Check, Nothing
<1>5. Exclusive
    BY <1>1 DEF Exclusive, Idle
<1>6. Checked
    <2> SUFFICES ASSUME NEW t \in Task, NEW w \in Window
                 PROVE  Knows(check[t], w, spent[w], Reserved(Task), Reserved(Others(t)))
        BY DEF Checked
    <2>1. check[t].at = 0 /\ check[t].saw[w] = 0
        BY <1>1, <1>3 DEF Idle
    <2>2. First(w) \in {1, 3}
        BY DEF First
    <2> QED BY <2>1, <2>2 DEF Knows
<1>7. Affordable /\ BoundedOvershoot
    BY <1>1, <1>2, <1>3, SpendAssumption DEF Affordable, BoundedOvershoot
<1> QED BY <1>4, <1>5, <1>6, <1>7 DEF IInv

LEMMA NextIInv == IInv /\ [Next]_vars => IInv'
<1> SUFFICES ASSUME IInv, [Next]_vars PROVE IInv'
    OBVIOUS
<1>1. ASSUME NEW t \in Task, Lock(t) PROVE IInv'
    BY <1>1, LockPreserves
<1>2. ASSUME NEW t \in Task, Read(t) PROVE IInv'
    BY <1>2, ReadPreserves
<1>3. ASSUME NEW t \in Task, Grant(t) PROVE IInv'
    BY <1>3, GrantPreserves
<1>4. ASSUME NEW t \in Task, GrantDesk(t) PROVE IInv'
    BY <1>4, GrantDeskPreserves
<1>5. ASSUME NEW t \in Task, Hold(t) \/ Abort(t) PROVE IInv'
    BY <1>5, HoldOrAbortPreserves
<1>6. ASSUME NEW t \in Task, NEW r \in Reports, Commit(t, r) PROVE IInv'
    BY <1>6, CommitSettles
<1>7. ASSUME NEW t \in Task, Release(t) PROVE IInv'
    BY <1>7, OthersSettle
<1>8. CASE NewDay \/ NewMonth
    BY <1>8, OthersSettle
<1>9. ASSUME NEW c \in Caps, UpdateCap(c) PROVE IInv'
    <2>1. /\ UNCHANGED <<open, held, spent, check>> /\ cap' \in Caps
          /\ \A S : Reserved(S)' = Reserved(S)
        BY <1>9 DEF UpdateCap, Reserved
    <2> QED BY <2>1 DEF IInv, TypeOK, Exclusive, Checked, Affordable, BoundedOvershoot
<1>10. CASE UNCHANGED vars
    BY <1>10 DEF vars, IInv, TypeOK, Exclusive, Checked, Affordable, BoundedOvershoot, Reserved
<1> QED BY <1>1, <1>2, <1>3, <1>4, <1>5, <1>6, <1>7, <1>8, <1>9, <1>10 DEF Next

LEMMA SpecIInv == Spec => []IInv
BY InitIInv, NextIInv, PTL DEF Spec

-----------------------------------------------------------------------------
(* The theorems.                                                           *)

\* Every reachable state of the budget is well typed; among other things a
\* reported cost never makes the sum of a window negative.
THEOREM SpendTypes == Spec => []TypeOK
<1>1. IInv => TypeOK
    BY DEF IInv
<1> QED BY <1>1, SpecIInv, PTL

\* For any number of tasks and any caps, reserve_spend racing commit_spend
\* leaves what is spent and reserved within twice the highest cap.
THEOREM Overshoot == Spec => []BoundedOvershoot
<1>1. IInv => BoundedOvershoot
    BY DEF IInv
<1> QED BY <1>1, SpecIInv, PTL

\* reserve_spend holds a run only if there was no room for it.
THEOREM HeldForAReason == Spec => []HeldOnlyWhenFull
<1>1. IInv => HeldOnlyWhenFull
    <2> SUFFICES ASSUME IInv, NEW t \in Task, check[t].at = 5, ~ Fits(t)
                 PROVE  \E w \in Window : check[t].used[w] + Est > cap[w]
        BY DEF HeldOnlyWhenFull
    <2>1. PICK w \in Window : ~ (check[t].saw[w] + Est <= cap[w])
        BY DEF Fits
    <2>2. /\ check[t].saw[w] \in Nat /\ check[t].used[w] \in Nat /\ cap[w] \in Nat
          /\ Est \in Nat
        BY SpendAssumption DEF IInv, TypeOK, Check
    <2>3. check[t].saw[w] <= check[t].used[w]
        <3>1. check[t].at > First(w) + 1
            BY DEF First
        <3> QED BY <3>1 DEF IInv, Checked, Knows
    <2> QED BY <2>1, <2>2, <2>3
<1> QED BY <1>1, SpecIInv, PTL

\* The cap's lock serializes reservations: none takes the open ones over a
\* cap, however many are checked at once.
THEOREM Serialized == Spec => OpenWithinCap
<1> DEFINE Kept == Reserved(Task)' > Reserved(Task) =>
                       \A w \in Window : Reserved(Task)' <= cap[w]
<1>1. IInv /\ [Next]_vars => [Kept]_vars
    <2> SUFFICES ASSUME IInv, Next, Reserved(Task)' > Reserved(Task), NEW w \in Window
                 PROVE  Reserved(Task)' <= cap[w]
        OBVIOUS
    <2>1. open \subseteq Task /\ Task \in SUBSET Task
        BY DEF IInv, TypeOK
    <2>2. ~ (open' \subseteq open)
        <3>1. Reserved(Task) \in Nat
            BY <2>1, ReservedNat
        <3>2. open' \subseteq open =>
                  Reserved(Task)' \in Nat /\ Reserved(Task)' <= Reserved(Task)
            BY <2>1, ReservedShrinks
        <3> QED BY <3>1, <3>2
    <2>3. PICK t \in Task : Grant(t)
        BY <2>2 DEF Next, Lock, Read, GrantDesk, Hold, Abort, Commit, Release,
                    UpdateCap, NewDay, NewMonth
    <2>4. Reserved(Task)' = Reserved(Others(t)) + Est
        BY <2>1, <2>3, ReservedOpens DEF Grant
    <2> QED BY <2>3, <2>4, Fitting DEF Grant
<1>2. Spec => [][Kept]_vars
    BY <1>1, SpecIInv, PTL DEF Spec
<1> QED BY <1>2 DEF OpenWithinCap

-----------------------------------------------------------------------------
(* Billing: the requests, and what each event may do to the row.           *)

\* A delivery in progress: its event, the copy of the row that the session may have, and
\* whether the event is mapped to the workspace.
Delivery ==
    [op : {"apply"}, event : EventId, copy : Billing, loaded : BOOLEAN, mapped : BOOLEAN]

\* What an update may leave in the row, before the constraint on the status is checked.
Candidate ==
    [plan : {"none", "pro"}, status : Status \cup {"paused"}, customer : BOOLEAN,
     subscription : Subscription \cup {NoSubscription}]

BillingTypes ==
    /\ BillingTypeOK
    /\ tx \in [Session -> {NoRequest} \cup Delivery]

LEMMA BillingEvents ==
    ASSUME BillingTypeOK, NEW e \in EventId
    PROVE  /\ events[e].kind \in {"checkout", "subscription", "failure"}
           /\ events[e].created \in Nat
           /\ events[e].status \in Status \cup {"paused"}
           /\ events[e].of \in Subscription
           /\ events[e].kind = "failure" => events[e].status = "past_due"
<1>1. PICK ev \in Checkout \cup Change \cup Failure : ev = events[e]
  BY DEF BillingTypeOK
<1>2. CASE ev \in Checkout
  <2>1. ev.kind = "checkout" /\ ev.created = 0 /\ ev.status = "inactive" /\ ev.of \in Subscription
    BY <1>2 DEF Checkout
  <2>2. QED
    BY <1>1, <2>1 DEF Status
<1>3. CASE ev \in Change
  <2>1. ev.created \in Nat
    BY <1>3, BillingAssumption DEF Change
  <2>2. QED
    BY <1>1, <1>3, <2>1 DEF Change, Status
<1>4. CASE ev \in Failure
  <2>1. ev.created \in Nat
    BY <1>4, BillingAssumption DEF Failure
  <2>2. QED
    BY <1>1, <1>4, <2>1 DEF Failure, Status
<1>5. QED
  BY <1>1, <1>2, <1>3, <1>4

\* The row an event makes of a copy of it: only a subscription's event makes it active or
\* pro, and only as the event says.
LEMMA AppliedShape ==
    ASSUME BillingTypeOK, NEW r \in Billing, NEW e \in EventId
    PROVE  /\ Applied(r, e) \in Candidate
           /\ Applied(r, e).status # r.status /\ Applied(r, e).status = "active" =>
                 events[e].kind = "subscription" /\ events[e].status = "active"
           /\ events[e].kind = "checkout" =>
                 Applied(r, e).status = r.status /\ Applied(r, e).plan = r.plan
           /\ events[e].kind # "checkout" /\ Stale(e) => Applied(r, e) = r
           /\ events[e].kind = "subscription" /\ ~Stale(e) =>
                 /\ Applied(r, e).status = events[e].status
                 /\ Applied(r, e).plan = IF events[e].status = "canceled" THEN "none" ELSE "pro"
           /\ events[e].kind = "failure" /\ ~Stale(e) => Applied(r, e).status = "past_due"
<1>1. events[e].kind \in {"checkout", "subscription", "failure"}
  BY BillingEvents
<1>2. CASE events[e].kind = "checkout"
  <2>1. Applied(r, e) = Linked(r, events[e])
    BY <1>2 DEF Applied
  <2>2. events[e].of \in Subscription
    BY BillingEvents
  <2>3. QED
    BY <1>2, <2>1, <2>2 DEF Linked, Billing, Candidate
<1>3. CASE events[e].kind # "checkout" /\ Stale(e)
  <2>1. Applied(r, e) = r
    BY <1>3 DEF Applied
  <2>2. QED
    BY <1>3, <2>1 DEF Billing, Candidate
<1>4. CASE events[e].kind = "subscription" /\ ~Stale(e)
  <2>1. Applied(r, e) = Changed(r, events[e])
    BY <1>4 DEF Applied
  <2>2. events[e].of \in Subscription /\ events[e].status \in Status \cup {"paused"}
    BY BillingEvents
  <2>3. QED
    BY <1>4, <2>1, <2>2 DEF Changed, Billing, Candidate
<1>5. CASE events[e].kind = "failure" /\ ~Stale(e)
  <2>1. Applied(r, e) = Lapsed(r)
    BY <1>5 DEF Applied
  <2>2. QED
    BY <1>5, <2>1 DEF Lapsed, Billing, Status, Candidate
<1>6. QED
  BY <1>1, <1>2, <1>3, <1>4, <1>5

\* An UPDATE, attribute by attribute; of an unchanged copy it writes what it is given.
LEMMA UpdateShape ==
    ASSUME BillingTypeOK, NEW copy \in Billing, NEW new \in Candidate
    PROVE  /\ Update(copy, new) \in Candidate
           /\ Update(copy, new).status = IF new.status = copy.status THEN row.status ELSE new.status
           /\ Update(copy, new).plan = IF new.plan = copy.plan THEN row.plan ELSE new.plan
<1>1. DOMAIN row = {"plan", "status", "customer", "subscription"} /\ row \in Billing
  BY DEF BillingTypeOK, Billing
<1> DEFINE u == Update(copy, new)
<1>2. u = [f \in {"plan", "status", "customer", "subscription"} |->
              IF new[f] = copy[f] THEN row[f] ELSE new[f]]
  BY <1>1 DEF Update
<1>3. /\ u.plan = IF new.plan = copy.plan THEN row.plan ELSE new.plan
      /\ u.status = IF new.status = copy.status THEN row.status ELSE new.status
      /\ u.customer = IF new.customer = copy.customer THEN row.customer ELSE new.customer
      /\ u.subscription = IF new.subscription = copy.subscription THEN row.subscription ELSE new.subscription
  BY <1>2
<1>4. u = [plan |-> u.plan, status |-> u.status, customer |-> u.customer, subscription |-> u.subscription]
  BY <1>2
<1> HIDE DEF u
<1>5. /\ u.plan \in {"none", "pro"} /\ u.status \in Status \cup {"paused"} /\ u.customer \in BOOLEAN
      /\ u.subscription \in Subscription \cup {NoSubscription}
  BY <1>1, <1>3 DEF Billing, Candidate
<1>6. u \in Candidate
  BY <1>4, <1>5 DEF Candidate
<1>7. QED
  BY <1>3, <1>6 DEF u

\* What a delivery of event e leaves: nothing, or its receipt and what it makes of the row.
Settled(e) ==
    /\ row' \in Billing /\ events' = events /\ (raced => raced')
    /\ \/ row' = row /\ attributed' = attributed
       \/ /\ attributed' = attributed \cup {e}
          /\ \/ row'.status = row.status
             \/ row'.status = "active" => events[e].kind = "subscription" /\ events[e].status = "active"
          /\ events[e].kind = "checkout" => row'.status = row.status /\ row'.plan = row.plan
          /\ events[e].kind # "checkout" /\ ~raced' =>
                row'.status = Applied(row, e).status /\ row'.plan = Applied(row, e).plan

LEMMA EndShape ==
    ASSUME BillingTypes, NEW s \in Session, End(s)
    PROVE  /\ \E e \in EventId : Settled(e)
           /\ BillingTypes'
<1>1. PICK t \in Delivery : t = tx[s]
  <2>1. tx[s] \in {NoRequest} \cup Delivery /\ tx[s].op = "apply"
    BY DEF BillingTypes, End
  <2>2. QED
    BY <2>1 DEF NoRequest
<1>2. PICK e \in EventId : e = t.event
  BY DEF Delivery
<1>3. PICK base \in Billing : base = IF t.loaded THEN t.copy ELSE row
  BY DEF Delivery, BillingTypes, BillingTypeOK
<1>4. PICK made \in Candidate : made = Applied(base, e)
  BY AppliedShape DEF BillingTypes
<1>5. PICK new \in Candidate : new = IF t.mapped THEN Update(base, made) ELSE row
  <2>1. Update(base, made) \in Candidate
    BY UpdateShape DEF BillingTypes
  <2>2. row \in Candidate
    BY DEF BillingTypes, BillingTypeOK, Billing, Candidate
  <2>3. QED
    BY <2>1, <2>2
<1>6. /\ row' = IF new.status \in Status THEN new ELSE row
      /\ receipts' = IF new.status \in Status THEN receipts \cup {e} ELSE receipts
      /\ attributed' = IF new.status \in Status /\ t.mapped THEN attributed \cup {e} ELSE attributed
      /\ acked' = acked \cup {e}
      /\ raced' = (raced \/ (e \in Dated(EventId) /\ base # row))
      /\ tx' = [tx EXCEPT ![s] = NoRequest]
      /\ events' = events
  BY <1>1, <1>2, <1>3, <1>4, <1>5 DEF End
<1>7. row' \in Billing
  <2>1. new.status \in Status => new \in Billing
    BY DEF Candidate, Billing
  <2>2. QED
    BY <1>6, <2>1 DEF BillingTypes, BillingTypeOK
<1>8. BillingTypes'
  <2>1. attributed' \subseteq receipts' /\ receipts' \subseteq acked' /\ acked' \subseteq EventId
    BY <1>6 DEF BillingTypes, BillingTypeOK
  <2>2. raced' \in BOOLEAN
    BY <1>6 DEF BillingTypes, BillingTypeOK
  <2>3. QED
    BY <1>6, <1>7, <2>1, <2>2 DEF BillingTypes, BillingTypeOK
<1>9. CASE ~(new.status \in Status /\ t.mapped)
  <2>1. row' = row /\ attributed' = attributed
    BY <1>5, <1>6, <1>9
  <2>2. Settled(e)
    BY <1>6, <1>7, <2>1 DEF Settled
  <2>3. QED
    BY <1>8, <2>2
<1>10. CASE new.status \in Status /\ t.mapped
  <2>1. row' = new /\ attributed' = attributed \cup {e} /\ new = Update(base, made)
    BY <1>5, <1>6, <1>10
  <2>2. /\ new.status = IF made.status = base.status THEN row.status ELSE made.status
        /\ new.plan = IF made.plan = base.plan THEN row.plan ELSE made.plan
    BY <2>1, UpdateShape DEF BillingTypes
  <2>3. /\ made.status # base.status /\ made.status = "active" =>
               events[e].kind = "subscription" /\ events[e].status = "active"
        /\ events[e].kind = "checkout" => made.status = base.status /\ made.plan = base.plan
    BY <1>4, AppliedShape DEF BillingTypes
  <2>4. \/ row'.status = row.status
        \/ row'.status = "active" => events[e].kind = "subscription" /\ events[e].status = "active"
    BY <2>1, <2>2, <2>3
  <2>5. events[e].kind = "checkout" => row'.status = row.status /\ row'.plan = row.plan
    BY <2>1, <2>2, <2>3
  <2>6. ASSUME events[e].kind # "checkout", ~raced'
        PROVE  row'.status = Applied(row, e).status /\ row'.plan = Applied(row, e).plan
    <3>1. base = row
      BY <1>6, <2>6 DEF Dated
    <3>2. made = Applied(row, e)
      BY <1>4, <3>1
    <3>3. new.status = made.status /\ new.plan = made.plan
      BY <2>2, <3>1
    <3>4. QED
      BY <2>1, <3>2, <3>3
  <2>7. (raced => raced') /\ events' = events
    BY <1>6
  <2>8. Settled(e)
    BY <1>7, <2>1, <2>4, <2>5, <2>6, <2>7 DEF Settled
  <2>9. QED
    BY <1>8, <2>8
<1>11. QED
  BY <1>9, <1>10

\* A step is a delivery's end, or leaves the events, the receipts, the plan and the status.
LEMMA BillingStep ==
    ASSUME BillingTypes, [BillingNext]_billingVars
    PROVE  /\ BillingTypes'
           /\ \/ \E e \in EventId : Settled(e)
              \/ /\ UNCHANGED <<events, attributed, raced>>
                 /\ row'.status = row.status /\ row'.plan = row.plan
<1>1. CASE CreateCheckout
  <2>1. row \in Billing /\ row' = [row EXCEPT !.customer = TRUE]
    BY <1>1 DEF CreateCheckout, BillingTypes, BillingTypeOK
  <2>2. row' \in Billing /\ row'.status = row.status /\ row'.plan = row.plan
    BY <2>1 DEF Billing
  <2>3. UNCHANGED <<events, receipts, acked, attributed, tx, raced>>
    BY <1>1 DEF CreateCheckout
  <2>4. QED
    BY <2>2, <2>3 DEF BillingTypes, BillingTypeOK
<1>2. ASSUME NEW s \in Session, NEW e \in EventId, Begin(s, e)
      PROVE  BillingTypes' /\ UNCHANGED <<events, row, attributed, raced>>
  <2>1. PICK d : d = [op |-> "apply", event |-> e, copy |-> row,
            loaded |-> events[e].kind = "checkout" \/ (events[e].kind = "subscription" /\ ~events[e].named),
            mapped |-> events[e].kind = "failure" => Found(e)]
    OBVIOUS
  <2>2. tx' = [tx EXCEPT ![s] = d] /\ UNCHANGED <<events, row, receipts, acked, attributed, raced>>
    BY <1>2, <2>1 DEF Begin
  <2>3. d \in Delivery
    <3>1. /\ (events[e].kind = "checkout" \/ (events[e].kind = "subscription" /\ ~events[e].named)) \in BOOLEAN
          /\ (events[e].kind = "failure" => Found(e)) \in BOOLEAN
      OBVIOUS
    <3>2. row \in Billing
      BY DEF BillingTypes, BillingTypeOK
    <3>3. QED
      BY <2>1, <3>1, <3>2, Zenon DEF Delivery
  <2>4. QED
    BY <2>2, <2>3 DEF BillingTypes, BillingTypeOK
<1>3. CASE UNCHANGED billingVars
  BY <1>3 DEF billingVars, BillingTypes, BillingTypeOK
<1>4. QED
  BY <1>1, <1>2, <1>3, EndShape DEF BillingNext

\* What the newest dated events of those attributed say of the row.
NewestSpeak ==
    ~raced =>
        \/ Newest = {}
        \/ /\ IsEntitled(row) <=> \A e \in Newest : events[e].status = "active"
           /\ \E e \in Newest : row.status = events[e].status

\* Only an event of an active subscription makes the row active.
ActiveIsPaid ==
    row.status = "active" =>
        \E e \in attributed : events[e].kind = "subscription" /\ events[e].status = "active"

LEMMA SettledPaid ==
    ASSUME BillingTypes, ActiveIsPaid, NEW e \in EventId, Settled(e)
    PROVE  ActiveIsPaid'
  BY DEF ActiveIsPaid, Settled

LEMMA SettledSpeaks ==
    ASSUME BillingTypes, NewestSpeak, NEW e \in EventId, Settled(e)
    PROVE  NewestSpeak'
<1>1. SUFFICES ASSUME ~raced' PROVE NewestSpeak'
  BY DEF NewestSpeak
<1>2. events' = events /\ ~raced /\ row \in Billing /\ row' \in Billing /\ attributed \subseteq EventId
  BY <1>1 DEF Settled, BillingTypes, BillingTypeOK
<1>3. \A d \in EventId : events[d].created \in Nat
  BY BillingEvents DEF BillingTypes
<1>4. CASE row' = row /\ attributed' = attributed
  <2>1. Newest' = Newest
    BY <1>2, <1>4 DEF Newest, Dated
  <2>2. QED
    BY <1>2, <1>4, <2>1 DEF NewestSpeak, IsEntitled
<1>5. CASE attributed' = attributed \cup {e} /\ events[e].kind = "checkout"
  <2>1. Newest' = Newest
    BY <1>2, <1>5 DEF Newest, Dated
  <2>2. row'.status = row.status /\ row'.plan = row.plan
    BY <1>2, <1>4, <1>5 DEF Settled
  <2>3. QED
    BY <1>2, <2>1, <2>2 DEF NewestSpeak, IsEntitled
<1>6. CASE /\ attributed' = attributed \cup {e} /\ events[e].kind # "checkout"
           /\ ~(row' = row /\ attributed' = attributed)
  <2>1. row'.status = Applied(row, e).status /\ row'.plan = Applied(row, e).plan
    BY <1>1, <1>6 DEF Settled
  <2>2. PICK D : D = Dated(attributed)
    OBVIOUS
  <2>3. Dated(attributed)' = D \cup {e} /\ D \subseteq EventId
    BY <1>2, <1>6, <2>2 DEF Dated
  <2>4. Newest' = {x \in D \cup {e} : \A d \in D \cup {e} : events[d].created <= events[x].created}
    BY <1>2, <2>3 DEF Newest
  <2>5. Newest = {x \in D : \A d \in D : events[d].created <= events[x].created}
    BY <2>2 DEF Newest
  <2>6. Stale(e) <=> \E d \in D \ {e} :
                         \/ events[d].created > events[e].created
                         \/ /\ events[d].created = events[e].created
                            /\ events[e].status = "active"
    BY <2>2 DEF Stale
  <2>7. CASE Stale(e)
    <3>1. Applied(row, e) = row
      BY <1>2, <1>6, <2>7, AppliedShape DEF BillingTypes
    <3>2. row'.status = row.status /\ row'.plan = row.plan
      BY <2>1, <3>1
    <3>3. PICK d \in D \ {e} :
              \/ events[d].created > events[e].created
              \/ /\ events[d].created = events[e].created
                 /\ events[e].status = "active"
      BY <2>6, <2>7
    <3>4. Newest \subseteq Newest'
      <4>1. ASSUME NEW x \in Newest PROVE x \in Newest'
        <5>1. x \in D /\ \A c \in D : events[c].created <= events[x].created
          BY <2>5
        <5>2. events[e].created <= events[x].created
          BY <1>3, <2>3, <3>3, <5>1
        <5>3. QED
          BY <2>4, <5>1, <5>2
      <4>2. QED
        BY <4>1
    <3>5. ASSUME NEW x \in Newest'
          PROVE  \/ x \in Newest
                 \/ events[x].status = "active" /\ d \in Newest
      <4>1. x \in D \cup {e} /\ \A c \in D \cup {e} : events[c].created <= events[x].created
        BY <2>4
      <4>2. CASE x \in D
        BY <2>5, <4>1, <4>2
      <4>3. CASE x = e
        <5>1. events[d].created = events[e].created /\ events[e].status = "active"
          BY <1>3, <2>3, <3>3, <4>1, <4>3
        <5>2. d \in Newest
          BY <2>5, <3>3, <4>1, <4>3, <5>1
        <5>3. QED
          BY <4>3, <5>1, <5>2
      <4>4. QED
        BY <4>1, <4>2, <4>3
    <3>6. CASE Newest = {}
      BY <3>5, <3>6 DEF NewestSpeak
    <3>7. CASE Newest # {}
      <4>1. /\ IsEntitled(row) <=> \A x \in Newest : events[x].status = "active"
            /\ \E x \in Newest : row.status = events[x].status
        BY <1>2, <3>7 DEF NewestSpeak
      <4>2. IsEntitled(row)' <=> IsEntitled(row)
        BY <3>2 DEF IsEntitled
      <4>3. (\A x \in Newest' : events[x].status = "active") <=> \A x \in Newest : events[x].status = "active"
        BY <3>4, <3>5
      <4>4. \E x \in Newest' : row'.status = events[x].status
        BY <3>2, <3>4, <4>1
      <4>5. QED
        BY <1>2, <4>1, <4>2, <4>3, <4>4 DEF NewestSpeak
    <3>8. QED
      BY <3>6, <3>7
  <2>8. CASE ~Stale(e)
    <3>1. \A d \in D \ {e} : /\ events[d].created <= events[e].created
                             /\ events[d].created = events[e].created => events[e].status # "active"
      BY <1>3, <2>3, <2>6, <2>8
    <3>2. e \in Newest'
      BY <1>3, <2>3, <2>4, <3>1
    <3>3. events[e].status = "active" => Newest' = {e}
      <4>1. ASSUME events[e].status = "active", NEW x \in Newest' PROVE x = e
        <5>1. x \in D \cup {e} /\ events[e].created <= events[x].created
          BY <2>4
        <5>2. x # e => events[x].created <= events[e].created /\ events[x].created # events[e].created
          BY <3>1, <4>1, <5>1
        <5>3. QED
          BY <1>3, <2>3, <5>1, <5>2
      <4>2. QED
        BY <3>2, <4>1
    <3>4. /\ row'.status = events[e].status
          /\ row'.plan = "pro" \/ row'.status # "active"
      <4>1. CASE events[e].kind = "subscription"
        <5>1. /\ Applied(row, e).status = events[e].status
              /\ Applied(row, e).plan = IF events[e].status = "canceled" THEN "none" ELSE "pro"
          BY <1>2, <2>8, <4>1, AppliedShape DEF BillingTypes
        <5>2. QED
          BY <2>1, <5>1
      <4>2. CASE events[e].kind = "failure"
        <5>1. Applied(row, e).status = "past_due"
          BY <1>2, <2>8, <4>2, AppliedShape DEF BillingTypes
        <5>2. events[e].status = "past_due"
          BY <4>2, BillingEvents DEF BillingTypes
        <5>3. QED
          BY <2>1, <5>1, <5>2
      <4>3. QED
        BY <1>6, <4>1, <4>2, BillingEvents DEF BillingTypes
    <3>5. IsEntitled(row)' <=> events[e].status = "active"
      BY <3>4 DEF IsEntitled
    <3>6. IsEntitled(row)' <=> \A x \in Newest' : events[x].status = "active"
      BY <3>2, <3>3, <3>5
    <3>7. QED
      BY <1>2, <3>2, <3>4, <3>6 DEF NewestSpeak
  <2>9. QED
    BY <2>7, <2>8
<1>7. QED
  BY <1>4, <1>5, <1>6 DEF Settled

\* What the proofs need of every reachable state.
BillingInv == BillingTypes /\ NewestSpeak /\ ActiveIsPaid

LEMMA BillingAlways == BillingSpec => []BillingInv
<1>1. BillingInit => BillingInv
  <2>1. SUFFICES ASSUME BillingInit PROVE BillingInv
    OBVIOUS
  <2>2. BillingTypes
    BY <2>1 DEF BillingInit, BillingTypes, BillingTypeOK, Billing, Status
  <2>3. Newest = {}
    BY <2>1 DEF BillingInit, Newest, Dated
  <2>4. row.status # "active"
    BY <2>1 DEF BillingInit
  <2>5. QED
    BY <2>2, <2>3, <2>4 DEF BillingInv, NewestSpeak, ActiveIsPaid
<1>2. BillingInv /\ [BillingNext]_billingVars => BillingInv'
  <2>1. SUFFICES ASSUME BillingInv, [BillingNext]_billingVars PROVE BillingInv'
    OBVIOUS
  <2>2. BillingTypes'
    BY <2>1, BillingStep DEF BillingInv
  <2>3. ASSUME NEW e \in EventId, Settled(e) PROVE NewestSpeak' /\ ActiveIsPaid'
    BY <2>1, <2>3, SettledSpeaks, SettledPaid DEF BillingInv
  <2>4. ASSUME UNCHANGED <<events, attributed, raced>>, row'.status = row.status, row'.plan = row.plan
        PROVE  NewestSpeak' /\ ActiveIsPaid'
    <3>1. Newest' = Newest
      BY <2>4 DEF Newest, Dated
    <3>2. QED
      BY <2>1, <2>4, <3>1 DEF BillingInv, NewestSpeak, ActiveIsPaid, IsEntitled
  <2>5. QED
    BY <2>1, <2>2, <2>3, <2>4, BillingStep DEF BillingInv
<1>3. QED
  BY <1>1, <1>2, PTL DEF BillingSpec

\* In whatever order Stripe's events come, and several at once, the workspace is entitled
\* exactly if its newest events say so with one voice, and its status is that of one of
\* them, unless _apply_subscription wrote to a copy of the row that had changed.
THEOREM NewestStand == BillingSpec => []NewestWins
<1>1. BillingInv => NewestWins
  BY DEF BillingInv, NewestSpeak, NewestWins
<1>2. QED
  BY <1>1, BillingAlways, PTL

\* Nothing that overlaps, no checkout and no mixture of the attributes that two updates of
\* the billing row carry, entitles a workspace that no active subscription's event paid for.
THEOREM NothingUnpaid == BillingSpec => []EntitlementIsPaid
<1>1. BillingInv => EntitlementIsPaid
  BY DEF BillingInv, ActiveIsPaid, EntitlementIsPaid, IsEntitled
<1>2. QED
  BY <1>1, BillingAlways, PTL

\* Types of the billing row, the receipts and the deliveries in progress.
THEOREM BillingTypesHold == BillingSpec => []BillingTypes
<1>1. BillingInv => BillingTypes
  BY DEF BillingInv
<1>2. QED
  BY <1>1, BillingAlways, PTL
================================================================================
