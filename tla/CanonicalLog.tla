----------------------------- MODULE CanonicalLog -----------------------------
(***************************************************************************)
(* What an authority promises its clients: one log that only grows at its  *)
(* end, permanent decisions, and a state that follows the log.  A step     *)
(* decides any number of new proposals at once; how the authority reads,   *)
(* stages, retries and answers is not visible here.                        *)
(***************************************************************************)
EXTENDS LogServer

VARIABLES
    log,             \* canonical log
    decisions,       \* permanent decisions, by operation id
    authorityState   \* materialized state

Init ==
    /\ log = <<>>
    /\ decisions = [id \in {} |-> {}]
    /\ authorityState = <<>>

Kept ==
    /\ Len(log) <= Len(log')
    /\ SubSeq(log', 1, Len(log)) = log
    /\ \A id \in DOMAIN decisions :
           id \in DOMAIN decisions' /\ decisions'[id] = decisions[id]

\* Each new entry is a proposal decided in this very step, where its
\* decision says.
EntriesDecided ==
    \A i \in Len(log) + 1 .. Len(log') :
        LET id == log'[i].operationId IN
        /\ log'[i].sequence = i
        /\ id \in DOMAIN decisions' \ DOMAIN decisions
        /\ decisions'[id].decision = AcceptedFor(log'[i])
        /\ OriginOf(decisions'[id].identity) = log'[i].origin

\* Each new decision rejects its proposal or names one of the new entries.
DecisionsLogged ==
    \A id \in DOMAIN decisions' \ DOMAIN decisions :
        \/ decisions'[id].decision = RejectedFor(id)
        \/ \E i \in Len(log) + 1 .. Len(log') : log'[i].operationId = id

\* The state applies the new entries, in order and nothing else.
StateFollows ==
    authorityState' = authorityState \o
        [k \in 1 .. Len(log') - Len(log) |-> log'[Len(log) + k].operation]

Decide == Kept /\ EntriesDecided /\ DecisionsLogged /\ StateFollows

Spec == Init /\ [][Decide]_<<log, decisions, authorityState>>
=============================================================================
