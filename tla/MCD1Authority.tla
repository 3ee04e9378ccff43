--------------------------- MODULE MCD1Authority ---------------------------
(* Instances of the authority over a SQL database for TLC. *)
EXTENDS D1Invariant, TLC

\* Calls, operation ids and clients are interchangeable.
Symmetry == Permutations(Handlers) \cup Permutations(OperationIds)
                \cup Permutations(Clients)
=============================================================================
