---------------------------- MODULE MCSpendControl ----------------------------
(* Instances of SpendControl for TLC. *)
EXTENDS SpendControl, TLC

\* An admin who sets the daily cap below the monthly one, or equal to it, or
\* takes the budget away.
MCCaps == {[day |-> 2, month |-> 3], [day |-> 2, month |-> 2], [day |-> 0, month |-> 3]}

MCCeiling == [day |-> 2, month |-> 3]

\* Tasks are interchangeable: no action orders them.
Symmetry == Permutations(Task)

=============================================================================
