---------------------------- MODULE MCSyncSystem ----------------------------
(* Instances of the replicated log for TLC. *)
EXTENDS SyncRefinement, TLC

\* Operation ids are interchangeable, and so are clients.
Symmetry == Permutations(OperationIds) \cup Permutations(Clients)
=============================================================================
