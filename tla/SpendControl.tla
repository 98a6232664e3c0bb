----------------------------- MODULE SpendControl -----------------------------
(***************************************************************************)
(* The budget of one workspace: the estimate of a stage is reserved before *)
(* its work starts, the actual cost is committed when it ends, and no      *)
(* reservation may take the workspace over its daily or its monthly cap.   *)
(*                                                                         *)
(* A reservation is checked under the lock of the cap's row, by four sums  *)
(* that are four statements: under READ COMMITTED each of them sees what   *)
(* other transactions have committed by then, and those that commit or     *)
(* release a reservation take no lock on the cap.                          *)
(***************************************************************************)
EXTENDS Integers, FiniteSets

CONSTANTS
    Task,         \* a run and a stage; also later ones, once it is over
    Est,          \* settings.default_stage_estimate_usd
    Caps,         \* what an admin may set the caps to
    Ceiling       \* per window, the largest of them

Window == {"day", "month"}

ASSUME SpendAssumption ==
    /\ IsFiniteSet(Task)
    /\ Est \in Nat \ {0}
    /\ Caps \subseteq [Window -> Nat]
    /\ Ceiling \in [Window -> Nat]
    /\ \A c \in Caps, w \in Window : c[w] <= Ceiling[w]

VARIABLES
    open,         \* tasks with a spend_reservations row in status reserved
    held,         \* tasks whose run is paused with reason spend_hold
    spent,        \* spent[w]: the sum of spend_logs since window w began
    cap,          \* cap[w]: the workspace's spend_caps row
    check         \* check[t]: reserve_spend in progress for task t

vars == <<open, held, spent, cap, check>>

\* at counts the statements of a check: 0 is none in progress, 1 to 4 the
\* sums, 5 the verdict.  used is a history variable: the usage, this task
\* apart, when the cap was locked.
Check == [at : 0..5, saw : [Window -> Nat], used : [Window -> Nat]]

TypeOK ==
    /\ open \subseteq Task
    /\ held \subseteq Task
    /\ spent \in [Window -> Nat]
    /\ cap \in Caps
    /\ check \in [Task -> Check]

Nothing == [w \in Window |-> 0]
Idle == [at |-> 0, saw |-> Nothing, used |-> Nothing]

Init ==
    /\ open = {} /\ held = {}
    /\ spent = Nothing
    /\ cap \in Caps
    /\ check = [t \in Task |-> Idle]

Reserved(S) == Est * Cardinality(open \cap S)

-----------------------------------------------------------------------------
(* reserve_spend.                                                          *)

\* Mutant of CapFree: the cap is read without FOR UPDATE.
CapFreeAlways == TRUE

CapFree == \A u \in Task : check[u].at = 0

\* A prior reservation of the same task is released first; the others see
\* it as open until this transaction commits.
Lock(t) ==
    /\ CapFree
    /\ check' = [check EXCEPT ![t] =
            [at |-> 1, saw |-> Nothing,
             used |-> [w \in Window |-> spent[w] + Reserved(Task \ {t})]]]
    /\ UNCHANGED <<open, held, spent, cap>>

\* The order of the sums: spend_logs of the day, open reservations,
\* spend_logs of the month, open reservations again.
WindowOf(i) == IF i <= 2 THEN "day" ELSE "month"

\* Mutant of Sum: the reservations are summed before the logs.
SumReversed(i, t) ==
    IF i \in {2, 4} THEN spent[WindowOf(i)] ELSE Reserved(Task \ {t})

Sum(i, t) ==
    IF i \in {1, 3} THEN spent[WindowOf(i)] ELSE Reserved(Task \ {t})

Read(t) ==
    /\ check[t].at \in 1..4
    /\ check' = [check EXCEPT
            ![t].saw[WindowOf(check[t].at)] = @ + Sum(check[t].at, t),
            ![t].at = @ + 1]
    /\ UNCHANGED <<open, held, spent, cap>>

Fits(t) == \A w \in Window : check[t].saw[w] + Est <= cap[w]

\* For a worker, at dispatch or at claim.
Grant(t) ==
    /\ check[t].at = 5
    /\ Fits(t)
    /\ open' = open \cup {t}
    /\ check' = [check EXCEPT ![t] = Idle]
    /\ UNCHANGED <<held, spent, cap>>

\* For a content job, a new run, which commits its estimate in the same
\* transaction.
GrantDesk(t) ==
    /\ check[t].at = 5
    /\ t \notin open \cup held
    /\ Fits(t)
    /\ spent' = [w \in Window |-> spent[w] + Est]
    /\ check' = [check EXCEPT ![t] = Idle]
    /\ UNCHANGED <<open, held, cap>>

\* Over a cap: the run is paused, and a prior reservation stays released.
Hold(t) ==
    /\ check[t].at = 5
    /\ ~ Fits(t)
    /\ held' = held \cup {t}
    /\ open' = open \ {t}
    /\ check' = [check EXCEPT ![t] = Idle]
    /\ UNCHANGED <<spent, cap>>

\* The transaction rolls back: its caller raised, as create_content_job
\* does when it is over a cap, or died.
Abort(t) ==
    /\ check[t].at > 0
    /\ check' = [check EXCEPT ![t] = Idle]
    /\ UNCHANGED <<open, held, spent, cap>>

-----------------------------------------------------------------------------
(* The end of a reservation.  A task that is being checked has locked its  *)
(* prior reservation.                                                      *)

Settleable(t) == t \in open /\ check[t].at = 0

Reports == -1..(Est + 1)

Chargeable(r) == r >= 0

\* Mutant of Charged: what the worker reports is charged as it is.
ChargedAsReported(r) == r

Charged(r) == IF r > Est THEN Est ELSE r

\* commit_spend with the cost a worker reports.
Commit(t, r) ==
    /\ Settleable(t)
    /\ Chargeable(r)
    /\ open' = open \ {t}
    /\ spent' = [w \in Window |-> spent[w] + Charged(r)]
    /\ UNCHANGED <<held, cap, check>>

\* release_spend: the stage failed, its row was recovered or its run ended.
Release(t) ==
    /\ Settleable(t)
    /\ open' = open \ {t}
    /\ UNCHANGED <<held, spent, cap, check>>

-----------------------------------------------------------------------------
\* update_workspace_spend_cap: the update waits for a check's lock.
UpdateCap(c) ==
    /\ CapFree
    /\ cap' = c
    /\ UNCHANGED <<open, held, spent, check>>

\* The clock passes midnight, at the end of a month or not.
NewDay ==
    /\ spent' = [spent EXCEPT !["day"] = 0]
    /\ UNCHANGED <<open, held, cap, check>>

NewMonth ==
    /\ spent' = Nothing
    /\ UNCHANGED <<open, held, cap, check>>

Next ==
    \/ \E t \in Task :
        \/ Lock(t) \/ Read(t)
        \/ Grant(t) \/ GrantDesk(t) \/ Hold(t) \/ Abort(t)
        \/ \E r \in Reports : Commit(t, r)
        \/ Release(t)
    \/ \E c \in Caps : UpdateCap(c)
    \/ NewDay
    \/ NewMonth

Spec == Init /\ [][Next]_vars

-----------------------------------------------------------------------------
(* Properties.                                                             *)

\* Whatever is checked at the same time, a new reservation leaves the open
\* reservations within both caps: the lock on the cap serializes them.
OpenWithinCap ==
    [][Reserved(Task)' > Reserved(Task) =>
          \A w \in Window : Reserved(Task)' <= cap[w]]_vars

\* What a commit between two sums hides is at most what was open then: with
\* any number of races, what is spent and reserved stays within twice the
\* cap.
BoundedOvershoot ==
    \A w \in Window : spent[w] + Reserved(Task) <= 2 * Ceiling[w]

\* No dollar is counted twice: a run is put on hold only if, when the cap
\* was locked, the workspace had no room for its estimate.
HeldOnlyWhenFull ==
    \A t \in Task :
        check[t].at = 5 /\ ~ Fits(t) =>
            \E w \in Window : check[t].used[w] + Est > cap[w]

=============================================================================
