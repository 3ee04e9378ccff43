---------------------------- MODULE SyncProtocol ----------------------------
(***************************************************************************)
(* The values the sync protocol exchanges and the validations both ends    *)
(* run on them: src/protocol.ts, src/limits.ts and src/invariants.ts.      *)
(*                                                                         *)
(* Identifiers, hashes and committed operations are members of small sets. *)
(* A proposal's intent is named by its hash: the fingerprint is the only   *)
(* thing the protocol compares.  A rejection's reason is data no step of   *)
(* the protocol reads, and is left out.                                    *)
(***************************************************************************)
EXTENDS Integers, Sequences, FiniteSets

CONSTANTS
    Clients,       \* installed replicas, one durable client id each
    OperationIds,  \* the ids the applications draw (unique, never reused)
    IntentHashes,  \* fingerprints of intents
    Operations,    \* deterministic operations an interpreter may emit
    MaximumProposalsPerRequest,  \* ProtocolLimits of the authority
    MaximumEntriesPerResponse

ASSUME LimitsAssumption ==
    /\ MaximumProposalsPerRequest \in Nat \ {0}
    /\ MaximumEntriesPerResponse \in Nat \ {0}

-----------------------------------------------------------------------------
(* Message types. *)

LogSequence == Nat \ {0}
ClientSequence == Nat \ {0}

Proposal ==
    [operationId : OperationIds, clientId : Clients,
     clientSequence : ClientSequence, intentHash : IntentHashes]

OperationOrigin ==
    [clientId : Clients, clientSequence : ClientSequence,
     intentHash : IntentHashes]

CommittedOperation ==
    [sequence : LogSequence, operationId : OperationIds,
     origin : OperationOrigin, operation : Operations]

AcceptedDecision ==
    [operationId : OperationIds, status : {"accepted"},
     sequence : LogSequence, operation : Operations]

RejectedDecision ==
    [operationId : OperationIds, status : {"rejected"}]

ProposalDecision == AcceptedDecision \cup RejectedDecision

\* The envelope's stream is fixed; "replica" stands for the connection the
\* response comes back on.
SyncRequest ==
    [replica : Clients, baseSequence : Nat, maximumEntries : LogSequence,
     proposals : Seq(Proposal)]

SyncResponse ==
    [replica : Clients, requestedBaseSequence : Nat, throughSequence : Nat,
     headSequence : Nat, entries : Seq(CommittedOperation),
     decisions : Seq(ProposalDecision)]

\* The origin a committed entry records for a proposal.
OriginOf(proposal) ==
    [clientId |-> proposal.clientId,
     clientSequence |-> proposal.clientSequence,
     intentHash |-> proposal.intentHash]

SamePosition(left, right) ==
    /\ left.clientId = right.clientId
    /\ left.clientSequence = right.clientSequence

-----------------------------------------------------------------------------
(* Validations. *)

\* Operation ids are distinct and each client's sequences increase.
AssertProposalBatch(proposals) ==
    \A i, j \in DOMAIN proposals : i < j =>
        /\ proposals[i].operationId # proposals[j].operationId
        /\ proposals[i].clientId = proposals[j].clientId =>
               proposals[i].clientSequence < proposals[j].clientSequence

AssertSyncRequest(request) ==
    /\ Len(request.proposals) <= MaximumProposalsPerRequest
    /\ AssertProposalBatch(request.proposals)

\* The cursors of a page: ordered, matching its entries, and advancing
\* whenever the requester is behind the head.
AssertPage(response) ==
    /\ response.requestedBaseSequence <= response.throughSequence
    /\ response.throughSequence <= response.headSequence
    /\ Len(response.entries) =
           response.throughSequence - response.requestedBaseSequence
    /\ response.requestedBaseSequence < response.headSequence =>
           Len(response.entries) # 0

\* Entries are contiguous from the requested base, and name each operation
\* and each client position once.
AssertEntries(response) ==
    \A i \in DOMAIN response.entries :
        /\ response.entries[i].sequence = response.requestedBaseSequence + i
        /\ \A j \in DOMAIN response.entries : i # j =>
               /\ response.entries[i].operationId #
                      response.entries[j].operationId
               /\ ~ SamePosition(response.entries[i].origin,
                                 response.entries[j].origin)

\* Decisions are distinct and agree with the head and with the page.
AssertDecisions(response) ==
    \A i \in DOMAIN response.decisions :
        LET decision == response.decisions[i] IN
        /\ \A j \in DOMAIN response.decisions :
               i # j => decision.operationId #
                            response.decisions[j].operationId
        /\ decision.status = "accepted" =>
               decision.sequence <= response.headSequence
        /\ \A k \in DOMAIN response.entries :
               response.entries[k].operationId = decision.operationId =>
                   /\ decision.status = "accepted"
                   /\ response.entries[k].sequence = decision.sequence

AssertSyncResponse(response) ==
    AssertPage(response) /\ AssertEntries(response) /\ AssertDecisions(response)

\* The authority also bounds what it sends.
AssertResponseLimits(response) ==
    /\ Len(response.entries) <= MaximumEntriesPerResponse
    /\ Len(response.decisions) <= MaximumProposalsPerRequest
=============================================================================
