--------------------------- MODULE SyncRefinement ---------------------------
(***************************************************************************)
(* SyncSystem implements CanonicalLog: its authority variables are those   *)
(* of the abstract log.                                                    *)
(***************************************************************************)
EXTENDS SyncInvariant

Canonical == INSTANCE CanonicalLog

\* Replicas, messages of any age and retries are invisible to the history:
\* each call of synchronize is one step that decides the proposals no call
\* decided before, and nothing else touches the authority.
ImplementsCanonicalLog == Canonical!Spec
=============================================================================
