---------------------------- MODULE MCAuditChain ----------------------------
(* Model checking AuditChain: pages, texts and requests are alike. *)
EXTENDS AuditChain, TLC

Symmetry == Permutations(Page) \cup Permutations(Text) \cup Permutations(Session)
=============================================================================
