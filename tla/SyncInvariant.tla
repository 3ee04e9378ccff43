---------------------------- MODULE SyncInvariant ----------------------------
(***************************************************************************)
(* The inductive invariant behind the safety properties of SyncSystem.     *)
(* Sequences are compared element by element, so that every conjunct is a  *)
(* first-order statement about positions, ids and entries.                 *)
(***************************************************************************)
EXTENDS SyncProperties

\* The log and the decision table describe each other.
LogSound ==
    \A i \in 1..Len(log) :
        /\ log[i].sequence = i
        /\ log[i].operationId \in DOMAIN decisions
        /\ decisions[log[i].operationId].decision = AcceptedFor(log[i])
        /\ OriginOf(decisions[log[i].operationId].identity) = log[i].origin

DecisionsSound ==
    \A id \in DOMAIN decisions :
        /\ decisions[id].identity \in issued
        /\ decisions[id].identity.operationId = id
        /\ decisions[id].decision.operationId = id
        /\ decisions[id].decision.status = "accepted" =>
               /\ decisions[id].decision.sequence \in 1..Len(log)
               /\ log[decisions[id].decision.sequence].operationId = id

StateSound ==
    /\ Len(authorityState) = Len(log)
    /\ \A i \in 1..Len(log) : authorityState[i] = log[i].operation

\* Ids and client positions name issued proposals.
IssuedSound ==
    \A p, q \in issued :
        (p.operationId = q.operationId \/ SamePosition(p, q)) => p = q

\* Decisions are taken in client order: whatever a client issued before a
\* decided operation is decided too.
DecidedInOrder ==
    \A id \in DOMAIN decisions, p \in issued :
        (/\ p.clientId = decisions[id].identity.clientId
         /\ p.clientSequence < decisions[id].identity.clientSequence) =>
            p.operationId \in DOMAIN decisions

-----------------------------------------------------------------------------
(* What holds of the record of each client. *)

PrefixSound(record) ==
    /\ record.confirmedSequence <= Len(log)
    /\ Len(record.confirmedState) = record.confirmedSequence
    /\ \A i \in 1..record.confirmedSequence :
           record.confirmedState[i] = log[i].operation
    /\ Len(record.confirmedLog) <= record.confirmedSequence
    /\ \A i \in 1..Len(record.confirmedLog) :
           record.confirmedLog[i] = log[RetainedBase(record) + i]

\* An outbox entry is an issued proposal beyond the confirmed prefix, and a
\* receipt repeats the authority's decision.
OutboxSound(client, record) ==
    \A entry \in record.outbox :
        /\ entry.proposal \in issued
        /\ entry.proposal.clientId = client
        /\ \A other \in record.outbox :
               other.proposal = entry.proposal => other = entry
        /\ \A i \in 1..record.confirmedSequence :
               log[i].operationId # entry.proposal.operationId
        /\ entry.status = "accepted" =>
               /\ entry.proposal.operationId \in DOMAIN decisions
               /\ LET decision == decisions[entry.proposal.operationId].decision
                  IN  /\ decision.status = "accepted"
                      /\ decision.sequence = entry.sequence
                      /\ decision.operation = entry.operation

\* A proposal that left the outbox is settled.
SettledSound(client, record) ==
    \A p \in issued : p.clientId = client =>
        /\ p.clientSequence < record.nextClientSequence
        /\ \/ \E entry \in record.outbox : entry.proposal = p
           \/ RejectedForever(p)
           \/ \E i \in 1..record.confirmedSequence :
                  log[i].operationId = p.operationId

Told(record) == {d.operationId : d \in record.resolutions}

\* Outcomes are the authority's, and exactly those no longer pending.
InboxSound(client, record, done) ==
    /\ \A d \in record.resolutions :
           /\ d.operationId \in DOMAIN decisions
           /\ decisions[d.operationId].decision = d
           /\ d.operationId \notin done
    /\ done \subseteq DOMAIN decisions
    /\ \A p \in issued : p.clientId = client =>
           ((\E entry \in Pending(record) : entry.proposal = p) <=>
               p.operationId \notin Told(record) \cup done)

RecordSound(client, record, done) ==
    /\ record \in ReplicaRecord
    /\ PrefixSound(record)
    /\ OutboxSound(client, record)
    /\ SettledSound(client, record)
    /\ InboxSound(client, record, done)

-----------------------------------------------------------------------------
(* What holds of every message, however old. *)

RequestSound(request) ==
    /\ AssertSyncRequest(request)
    /\ request.baseSequence <= replicas[request.replica].confirmedSequence
    /\ \A i \in 1..Len(request.proposals) :
        /\ request.proposals[i] \in issued
        /\ request.proposals[i].clientId = request.replica
        /\ \A p \in issued :
               (/\ p.clientId = request.replica
                /\ p.clientSequence < request.proposals[i].clientSequence) =>
                   \/ p.operationId \in DOMAIN decisions
                   \/ \E j \in 1..Len(request.proposals) :
                          request.proposals[j] = p

ResponseSound(response) ==
    /\ AssertSyncResponse(response)
    /\ response.requestedBaseSequence <=
           replicas[response.replica].confirmedSequence
    /\ response.headSequence <= Len(log)
    /\ \A i \in 1..Len(response.entries) :
           response.entries[i] = log[response.requestedBaseSequence + i]
    /\ \A d \in DecisionsIn(response) :
           /\ d.operationId \in DOMAIN decisions
           /\ decisions[d.operationId].decision = d

IInv ==
    /\ TypeOK
    /\ NoFailure
    /\ LogSound
    /\ DecisionsSound
    /\ StateSound
    /\ IssuedSound
    /\ DecidedInOrder
    /\ ClientOrderKept
    /\ \A client \in Clients :
           RecordSound(client, replicas[client], acknowledged[client])
    /\ \A request \in requests : RequestSound(request)
    /\ \A response \in responses : ResponseSound(response)
=============================================================================
