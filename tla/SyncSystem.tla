----------------------------- MODULE SyncSystem -----------------------------
(***************************************************************************)
(* The replicated log: client replicas, each one durable IndexedDB record  *)
(* shared by any number of tabs, an authority, and a network that may      *)
(* lose, delay, duplicate and reorder what it carries.                     *)
(*                                                                         *)
(* Every operation of the store is one IndexedDB transaction and every     *)
(* call of synchronize runs to completion, so each is one action.  Tabs of *)
(* one replica interleave their actions; a tab that crashes loses only the *)
(* messages it was waiting for.                                            *)
(***************************************************************************)
EXTENDS Replica, LogServer

CONSTANTS
    ProposalLimits,  \* maximumProposals that sync sessions pass
    EntryLimits,     \* maximumEntries that sync sessions pass
    MaxRequests,     \* bound on the distinct requests sent
    MaxResponses     \* bound on the distinct responses sent

ASSUME OptionsAssumption ==
    /\ ProposalLimits \subseteq 0..MaximumProposalsPerRequest
    /\ EntryLimits \subseteq Nat \ {0}

VARIABLES
    log,             \* canonical log of the authority
    decisions,       \* permanent decisions, by operation id
    authorityState,  \* materialized state of the authority
    replicas,        \* durable record of each client
    requests,        \* every request ever sent: any may arrive, any time
    responses,       \* every response ever sent: any may arrive, any time
    issued,          \* history: proposals the applications were given
    acknowledged,    \* history: outcomes each application acknowledged
    failures         \* history: errors a handler threw at correct input

authorityVars == <<log, decisions, authorityState>>
networkVars == <<requests, responses>>
vars == <<log, decisions, authorityState, replicas, requests, responses,
          issued, acknowledged, failures>>

Init ==
    /\ log = <<>>
    /\ decisions = [id \in {} |-> {}]
    /\ authorityState = <<>>
    /\ replicas = [client \in Clients |-> EmptyRecord]
    /\ requests = {}
    /\ responses = {}
    /\ issued = {}
    /\ acknowledged = [client \in Clients |-> {}]
    /\ failures = {}

Fail(where) == failures' = failures \cup {where}

-----------------------------------------------------------------------------
(* The store: each update is validated before and after, or aborted. *)

UpdateAllowed(client, record) ==
    /\ AssertReplicaRecord(client, replicas[client])
    /\ AssertReplicaRecord(client, record)

StoreRecord(client, record) ==
    IF UpdateAllowed(client, record)
    THEN /\ replicas' = [replicas EXCEPT ![client] = record]
         /\ UNCHANGED failures
    ELSE /\ Fail("record")
         /\ UNCHANGED replicas

\* The application draws an id it never drew before.
Fresh(id) == \A proposal \in issued : proposal.operationId # id

EnqueueOperation(client, id, hash) ==
    LET proposal == NextProposal(client, replicas[client], id, hash)
        next == Enqueued(replicas[client], proposal) IN
    /\ Fresh(id)
    /\ UNCHANGED <<authorityVars, networkVars, acknowledged>>
    /\ IF DuplicateOperationId(replicas[client], id)
       THEN Fail("enqueue") /\ UNCHANGED <<replicas, issued>>
       ELSE /\ StoreRecord(client, next)
            /\ issued' = IF UpdateAllowed(client, next)
                         THEN issued \cup {proposal} ELSE issued

DeleteCommittedLogPrefix(client, through) ==
    /\ through <= replicas[client].confirmedSequence
    /\ StoreRecord(client, PrefixDeleted(replicas[client], through))
    /\ UNCHANGED <<authorityVars, networkVars, issued, acknowledged>>

AcknowledgeResolutions(client, ids) ==
    LET next == Acknowledged(replicas[client], ids) IN
    /\ ids # {}
    /\ StoreRecord(client, next)
    /\ acknowledged' =
           IF UpdateAllowed(client, next)
           THEN [acknowledged EXCEPT ![client] = @ \cup ids]
           ELSE acknowledged
    /\ UNCHANGED <<authorityVars, networkVars, issued>>

-----------------------------------------------------------------------------
(* A sync session: a request snapshot, the authority's batch, the merge.   *)

\* Nothing durable records that a request is in flight.
PrepareSyncRequest(client, limit, maximumEntries) ==
    /\ Cardinality(requests) < MaxRequests
    /\ UNCHANGED <<authorityVars, responses, replicas, issued, acknowledged>>
    /\ IF ~ AssertReplicaRecord(client, replicas[client])
       THEN Fail("record") /\ UNCHANGED requests
       ELSE \E count \in 0..limit :
            \E picked \in [1..count -> Pending(replicas[client])] :
                /\ Transmits(replicas[client], picked, count, limit)
                /\ requests' = requests \cup
                      {RequestFrom(client, replicas[client], maximumEntries,
                                   picked, count)}
                /\ UNCHANGED failures

\* The batch is published only when the response it leads to is valid.
Publish(request, staged) ==
    LET nextLog == log \o staged
        nextDecisions == DecisionsAfter(decisions, request.proposals, staged)
        response == ResponseTo(request, nextLog, nextDecisions) IN
    IF AssertSyncResponse(response) /\ AssertResponseLimits(response)
    THEN /\ log' = nextLog
         /\ decisions' = nextDecisions
         /\ authorityState' = authorityState \o OperationsOf(staged)
         /\ responses' = responses \cup {response}
         /\ UNCHANGED failures
    ELSE Fail("response") /\ UNCHANGED <<authorityVars, responses>>

Synchronize(request) ==
    /\ Cardinality(responses) < MaxResponses
    /\ UNCHANGED <<requests, replicas, issued, acknowledged>>
    /\ IF RequestRefused(log, decisions, request)
       THEN Fail("request") /\ UNCHANGED <<authorityVars, responses>>
       ELSE \E count \in 0..Len(request.proposals) :
            \E accepted \in
                   [1..count -> Undecided(decisions, request.proposals)],
               drafts \in [1..count -> Operations] :
                /\ InRequestOrder(accepted, count)
                /\ Publish(request, StagedEntries(log, request.proposals,
                                                  accepted, drafts, count))

MergeSyncResponse(response) ==
    LET client == response.replica IN
    /\ UNCHANGED <<authorityVars, networkVars, issued, acknowledged>>
    /\ IF MergeRefused(replicas[client], response)
       THEN Fail("merge") /\ UNCHANGED replicas
       ELSE StoreRecord(client, Merged(replicas[client], response))

-----------------------------------------------------------------------------

EnqueueStep ==
    \E client \in Clients, id \in OperationIds, hash \in IntentHashes :
        EnqueueOperation(client, id, hash)

DeleteStep ==
    \E client \in Clients :
        \E through \in 0..replicas[client].confirmedSequence :
            DeleteCommittedLogPrefix(client, through)

AcknowledgeStep ==
    \E client \in Clients :
        \E ids \in SUBSET {d.operationId : d \in replicas[client].resolutions} :
            AcknowledgeResolutions(client, ids)

PrepareStep ==
    \E client \in Clients, limit \in ProposalLimits, size \in EntryLimits :
        PrepareSyncRequest(client, limit, size)

SynchronizeStep == \E request \in requests : Synchronize(request)

MergeStep == \E response \in responses : MergeSyncResponse(response)

Next ==
    \/ EnqueueStep
    \/ DeleteStep
    \/ AcknowledgeStep
    \/ PrepareStep
    \/ SynchronizeStep
    \/ MergeStep

Spec == Init /\ [][Next]_vars
=============================================================================
