---------------------------- MODULE MCD1Bootstrap ----------------------------
(* Instances of the bootstrap for TLC. *)
EXTENDS BootstrapProperties, TLC

CONSTANTS RunA, RunB

\* RunA and RunB leave the client id to its default, a third names its own.
Clients == [b \in Bootstraps |-> IF b \in {RunA, RunB} THEN RunA ELSE b]

\* The runs of one client are interchangeable.
Symmetry == Permutations({RunA, RunB} \cap Bootstraps)
=============================================================================
