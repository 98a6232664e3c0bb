---------------------------- MODULE MCPackageDesk ----------------------------
(* Model checking PackageDesk: scripts, requests and, but for the fact auditor, *)
(* auditors are alike.                                                          *)
EXTENDS PackageDesk, TLC

Symmetry ==
    Permutations(Script) \cup Permutations(Session) \cup Permutations(Auditor \ {FactAuditor})
==============================================================================
