--------------------------- MODULE MCServerRestore ---------------------------
(* Instances of the restored authority for TLC. *)
EXTENDS RestoreProperties

CONSTANTS First, Second, Third, A, B, Hash

Proposed(id, client, sequence) ==
    [operationId |-> id, clientId |-> client, clientSequence |-> sequence,
     intentHash |-> Hash]

\* Two operations of one client, and one of another installation with its id and position,
\* or of a second client.
Reused == {Proposed(First, A, 1), Proposed(Second, A, 2), Proposed(Third, A, 1)}
=============================================================================
