------------------------------ MODULE LogServer ------------------------------
(***************************************************************************)
(* The authority's transition, src/server.ts: what one call of             *)
(* InMemoryLogServer.synchronize computes from the log and the decision    *)
(* table it holds.  The interpreter is arbitrary: "decide" accepts or      *)
(* rejects as it likes, and a state is the sequence of the operations      *)
(* applied to reach it, so two states are equal exactly when every         *)
(* deterministic interpreter makes them equal.                             *)
(***************************************************************************)
EXTENDS SyncProtocol

StoredProposalDecision == [identity : Proposal, decision : ProposalDecision]

\* Mutant: the client position is checked before the stored decision.
PositionTaken(decisions, proposal) ==
    \E id \in DOMAIN decisions : SamePosition(decisions[id].identity, proposal)

\* A retry must repeat the identity and the intent it was decided for; a
\* new id must not take a client position another id holds.  Ids and
\* positions inside one batch are distinct (AssertProposalBatch), so the
\* decisions staged earlier in the batch never match.
ProposalConflict(decisions, proposal) ==
    IF proposal.operationId \in DOMAIN decisions
    THEN decisions[proposal.operationId].identity # proposal
    ELSE \E id \in DOMAIN decisions :
             SamePosition(decisions[id].identity, proposal)

\* synchronize throws before it stages anything.
RequestRefused(log, decisions, request) ==
    \/ ~ AssertSyncRequest(request)
    \/ request.baseSequence > Len(log)
    \/ \E i \in DOMAIN request.proposals :
           ProposalConflict(decisions, request.proposals[i])

\* Mutant: stored decisions are not looked up.
UndecidedAll(decisions, proposals) == DOMAIN proposals

\* Indexes of the proposals that the interpreter still has to decide.
Undecided(decisions, proposals) ==
    {i \in DOMAIN proposals :
        proposals[i].operationId \notin DOMAIN decisions}

\* "accepted" lists, in request order, the undecided proposals that the
\* interpreter accepts.
InRequestOrder(accepted, count) ==
    \A j, k \in 1..count : j < k => accepted[j] < accepted[k]

CommittedEntry(proposal, sequence, operation) ==
    [sequence |-> sequence, operationId |-> proposal.operationId,
     origin |-> OriginOf(proposal), operation |-> operation]

StagedEntries(log, proposals, accepted, drafts, count) ==
    [j \in 1..count |->
        CommittedEntry(proposals[accepted[j]], Len(log) + j, drafts[j])]

AcceptedFor(entry) ==
    [operationId |-> entry.operationId, status |-> "accepted",
     sequence |-> entry.sequence, operation |-> entry.operation]

RejectedFor(id) == [operationId |-> id, status |-> "rejected"]

\* Mutant: decisions record the operation of the last draft of the batch.
DecisionWithLastDraft(id, staged) ==
    IF \E j \in DOMAIN staged : staged[j].operationId = id
    THEN [AcceptedFor(staged[CHOOSE j \in DOMAIN staged :
                                 staged[j].operationId = id])
              EXCEPT !.operation = staged[Len(staged)].operation]
    ELSE RejectedFor(id)

\* The decision a staged batch stores for an id decided in it.
StagedDecision(id, staged) ==
    IF \E j \in DOMAIN staged : staged[j].operationId = id
    THEN AcceptedFor(staged[CHOOSE j \in DOMAIN staged :
                                staged[j].operationId = id])
    ELSE RejectedFor(id)

\* Mutant: a batch stores a decision for every proposal, decided before or not.
DecisionsReplaced(decisions, proposals, staged) ==
    LET ids == {proposals[i].operationId : i \in DOMAIN proposals} IN
    [id \in DOMAIN decisions \cup ids |->
        IF id \notin ids
        THEN decisions[id]
        ELSE [identity |-> proposals[CHOOSE i \in DOMAIN proposals :
                                        proposals[i].operationId = id],
              decision |-> StagedDecision(id, staged)]]

\* Decisions are permanent: a stored one is kept, and every undecided
\* proposal of the batch gets one together with its identity.
DecisionsAfter(decisions, proposals, staged) ==
    LET new == Undecided(decisions, proposals)
        ids == {proposals[i].operationId : i \in new} IN
    [id \in DOMAIN decisions \cup ids |->
        IF id \in DOMAIN decisions
        THEN decisions[id]
        ELSE [identity |-> proposals[CHOOSE i \in new :
                                        proposals[i].operationId = id],
              decision |-> StagedDecision(id, staged)]]

\* The operations a sequence of entries applies to a state.
OperationsOf(entries) == [i \in 1..Len(entries) |-> entries[i].operation]

\* The page after the requester's base, no longer than either side allows.
PageEnd(request, head) ==
    LET size == IF request.maximumEntries < MaximumEntriesPerResponse
                THEN request.maximumEntries ELSE MaximumEntriesPerResponse
    IN  IF request.baseSequence + size < head
        THEN request.baseSequence + size ELSE head

\* The response, built from the log and the decisions after the batch.
ResponseTo(request, log, decisions) ==
    [replica |-> request.replica,
     requestedBaseSequence |-> request.baseSequence,
     throughSequence |-> PageEnd(request, Len(log)),
     headSequence |-> Len(log),
     entries |-> SubSeq(log, request.baseSequence + 1,
                        PageEnd(request, Len(log))),
     decisions |-> [i \in 1..Len(request.proposals) |->
                       decisions[request.proposals[i].operationId].decision]]
=============================================================================
