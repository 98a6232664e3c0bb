--------------------------- MODULE MCWorkerProtocol ---------------------------
(* Instances of WorkerProtocol for TLC. *)
EXTENDS WorkerProtocol, TLC

\* Rows, tokens and workers are interchangeable when all workers are pinned
\* or none is.

ProtocolSymmetry ==
    Permutations(Assignment) \cup Permutations(Token) \cup Permutations(Worker)

=============================================================================
