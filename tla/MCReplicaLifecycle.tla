-------------------------- MODULE MCReplicaLifecycle --------------------------
(* Instances of the database lifecycle for TLC. *)
EXTENDS LifecycleProperties, TLC

CONSTANTS TabA, TabB, Installation

\* One tab leaves the client id to the code, the other passes its own.
MixedIds == TabA :> NoId @@ TabB :> Installation
=============================================================================
