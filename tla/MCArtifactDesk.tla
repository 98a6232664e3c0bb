---------------------------- MODULE MCArtifactDesk ----------------------------
(* Model checking ArtifactDesk: the requests are alike.                        *)
EXTENDS ArtifactDesk, TLC

Symmetry == Permutations(Session)
===============================================================================
