--------------------------- MODULE SyncProperties ---------------------------
(***************************************************************************)
(* What the replicated log promises, stated over SyncSystem.               *)
(***************************************************************************)
EXTENDS SyncSystem

\* Every variable has its type; records are those IndexedDB stores.
TypeOK ==
    /\ log \in Seq(CommittedOperation)
    /\ DOMAIN decisions \subseteq OperationIds
    /\ \A id \in DOMAIN decisions : decisions[id] \in StoredProposalDecision
    /\ authorityState \in Seq(Operations)
    /\ DOMAIN replicas = Clients
    /\ \A client \in Clients : replicas[client] \in ReplicaRecord
    /\ requests \subseteq SyncRequest
    /\ responses \subseteq SyncResponse
    /\ issued \subseteq Proposal
    /\ acknowledged \in [Clients -> SUBSET OperationIds]

-----------------------------------------------------------------------------
(* Safety. *)

\* No handler ever throws on what the other parts of the system hand it:
\* the authority refuses no request a replica sent, however late and however
\* often it arrives, its responses pass assertSyncResponse, every response
\* merges into the record as it is by then, and no update leaves a record
\* that the next transaction would refuse to read.
NoFailure == failures = {}

\* Each replica's confirmed log is the canonical one, entry for entry, and
\* its confirmed state applied each operation of that prefix exactly once in
\* order, whichever pages arrived in whichever order and whatever has been
\* compacted meanwhile (architecture/README, safety invariants 3, 9 and 11).
ConfirmedPrefix ==
    /\ authorityState = OperationsOf(log)
    /\ \A client \in Clients :
        LET record == replicas[client] IN
        /\ record.confirmedSequence <= Len(log)
        /\ record.confirmedState =
               OperationsOf(SubSeq(log, 1, record.confirmedSequence))
        /\ record.confirmedLog = SubSeq(log, RetainedBase(record) + 1,
                                        record.confirmedSequence)

\* The log holds each operation and each client position at most once, and
\* it holds exactly the proposals decided as accepted, where their decision
\* says (safety invariants 1 and 5 to 8): a retry can neither append twice nor
\* get an answer the log contradicts.
CommittedOnce ==
    /\ \A i \in DOMAIN log :
        /\ log[i].sequence = i
        /\ \A j \in DOMAIN log : i # j =>
               /\ log[i].operationId # log[j].operationId
               /\ ~ SamePosition(log[i].origin, log[j].origin)
        /\ log[i].operationId \in DOMAIN decisions
        /\ decisions[log[i].operationId].decision = AcceptedFor(log[i])
        /\ OriginOf(decisions[log[i].operationId].identity) = log[i].origin
    /\ \A id \in DOMAIN decisions :
        decisions[id].decision.status = "accepted" =>
            \E i \in DOMAIN log : log[i].operationId = id

\* One client's operations enter the canonical log in the order it issued
\* them, although requests overlap, are retried, and arrive in any order.
ClientOrderKept ==
    \A i, j \in DOMAIN log :
        (i < j /\ log[i].origin.clientId = log[j].origin.clientId) =>
            log[i].origin.clientSequence < log[j].origin.clientSequence

Confirmed(proposal) ==
    \E i \in 1..replicas[proposal.clientId].confirmedSequence :
        log[i].operationId = proposal.operationId

InOutbox(proposal) ==
    \E entry \in replicas[proposal.clientId].outbox :
        entry.proposal = proposal

RejectedForever(proposal) ==
    /\ proposal.operationId \in DOMAIN decisions
    /\ decisions[proposal.operationId].decision.status = "rejected"

\* An issued operation is durable until it is settled: its replica holds it
\* in the outbox, or in its confirmed prefix, or the authority rejected it
\* for good.  It is never both in the overlay and in the confirmed state, so
\* the optimistic view shows its effect once.
NoProposalLost ==
    \A proposal \in issued :
        /\ InOutbox(proposal) \/ Confirmed(proposal) \/ RejectedForever(proposal)
        /\ ~ (InOutbox(proposal) /\ Confirmed(proposal))

PendingLocally(proposal) ==
    \E entry \in Pending(replicas[proposal.clientId]) :
        entry.proposal = proposal

\* The application learns every outcome, as the authority decided it, and
\* learns it once: an operation is no longer pending exactly when its outcome
\* is in the inbox or was acknowledged, and no retry, late page or duplicated
\* response puts an acknowledged outcome back (safety invariant 13).
OutcomeToldOnce ==
    \A client \in Clients :
        LET inbox == replicas[client].resolutions
            told == {d.operationId : d \in inbox} IN
        /\ \A d \in inbox : /\ d.operationId \in DOMAIN decisions
                            /\ decisions[d.operationId].decision = d
        /\ told \cap acknowledged[client] = {}
        /\ \A proposal \in issued : proposal.clientId = client =>
               (PendingLocally(proposal) <=>
                   proposal.operationId \notin told \cup acknowledged[client])

-----------------------------------------------------------------------------
(* Action properties. *)

\* The authority never revises: the log only grows at its end and a
\* decision, once stored, stays (safety invariants 2 and 5).
AuthorityPermanent ==
    [][ /\ Len(log) <= Len(log')
        /\ SubSeq(log', 1, Len(log)) = log
        /\ \A id \in DOMAIN decisions :
               /\ id \in DOMAIN decisions'
               /\ decisions'[id] = decisions[id] ]_authorityVars

\* A replica never goes back: its confirmed position and its next client
\* sequence do not decrease (safety invariant 4), and an operation that left
\* the pending state never becomes pending again, so it is not resubmitted.
NeverReopened ==
    [][ \A client \in Clients :
            /\ replicas[client].confirmedSequence <=
                   replicas'[client].confirmedSequence
            /\ replicas[client].nextClientSequence <=
                   replicas'[client].nextClientSequence
            /\ \A entry \in Pending(replicas'[client]) :
                   entry.proposal \in issued => entry \in Pending(replicas[client])
      ]_replicas
=============================================================================
