------------------------------- MODULE Replica -------------------------------
(***************************************************************************)
(* One client's durable record and the reducers that change it:            *)
(* src/replica.ts and src/indexeddb/record.ts.                             *)
(*                                                                         *)
(* A record keeps the confirmed prefix (position, materialized state and   *)
(* the retained suffix of its log), the outbox of local proposals and the  *)
(* inbox of resolutions the application has not acknowledged.  The outbox  *)
(* is a set: its array order is the order of its client sequences.  The    *)
(* confirmed state is the sequence of operations applied to reach it.      *)
(***************************************************************************)
EXTENDS SyncProtocol

PendingEntry == [status : {"pending"}, proposal : Proposal]

AcceptedEntry ==
    [status : {"accepted"}, proposal : Proposal,
     sequence : LogSequence, operation : Operations]

OutboxEntry == PendingEntry \cup AcceptedEntry

ReplicaRecord ==
    [nextClientSequence : ClientSequence, confirmedSequence : Nat,
     confirmedState : Seq(Operations), confirmedLog : Seq(CommittedOperation),
     outbox : SUBSET OutboxEntry, resolutions : SUBSET ProposalDecision]

EmptyRecord ==
    [nextClientSequence |-> 1, confirmedSequence |-> 0,
     confirmedState |-> <<>>, confirmedLog |-> <<>>,
     outbox |-> {}, resolutions |-> {}]

\* Entries at or below this position have been deleted from the log.
RetainedBase(record) == record.confirmedSequence - Len(record.confirmedLog)

Pending(record) == {entry \in record.outbox : entry.status = "pending"}

-----------------------------------------------------------------------------
(* The check every IndexedDB transaction makes before and after a change. *)

RetainedLogValid(client, record) ==
    /\ RetainedBase(record) >= 0
    /\ \A i \in DOMAIN record.confirmedLog :
        LET entry == record.confirmedLog[i] IN
        /\ entry.sequence = RetainedBase(record) + i
        /\ entry.origin.clientId = client =>
               entry.origin.clientSequence < record.nextClientSequence
        /\ \A j \in DOMAIN record.confirmedLog : i # j =>
               /\ entry.operationId # record.confirmedLog[j].operationId
               /\ ~ SamePosition(entry.origin, record.confirmedLog[j].origin)

OutboxValid(client, record) ==
    \A entry \in record.outbox :
        /\ entry.proposal.clientId = client
        /\ entry.proposal.clientSequence < record.nextClientSequence
        /\ \A other \in record.outbox : other # entry =>
               /\ other.proposal.operationId # entry.proposal.operationId
               /\ other.proposal.clientSequence # entry.proposal.clientSequence
        /\ \A i \in DOMAIN record.confirmedLog :
               /\ record.confirmedLog[i].operationId #
                      entry.proposal.operationId
               /\ ~ SamePosition(record.confirmedLog[i].origin, entry.proposal)
        /\ entry.status = "accepted" =>
               entry.sequence > record.confirmedSequence

ResolutionsValid(record) ==
    \A left, right \in record.resolutions :
        left.operationId = right.operationId => left = right

AssertReplicaRecord(client, record) ==
    /\ RetainedLogValid(client, record)
    /\ OutboxValid(client, record)
    /\ ResolutionsValid(record)

-----------------------------------------------------------------------------
(* enqueueOperation, deleteCommittedLogPrefix, acknowledgeResolutions. *)

\* DuplicateOperationIdError: only the retained log and the outbox are read.
DuplicateOperationId(record, id) ==
    \/ \E i \in DOMAIN record.confirmedLog :
           record.confirmedLog[i].operationId = id
    \/ \E entry \in record.outbox : entry.proposal.operationId = id

NextProposal(client, record, id, hash) ==
    [operationId |-> id, clientId |-> client,
     clientSequence |-> record.nextClientSequence, intentHash |-> hash]

Enqueued(record, proposal) ==
    [record EXCEPT
        !.nextClientSequence = @ + 1,
        !.outbox = @ \cup {[status |-> "pending", proposal |-> proposal]}]

PrefixDeleted(record, through) ==
    IF through <= RetainedBase(record)
    THEN record
    ELSE [record EXCEPT
             !.confirmedLog = SubSeq(@, through - RetainedBase(record) + 1,
                                     Len(@))]

Acknowledged(record, ids) ==
    [record EXCEPT
        !.resolutions = {decision \in @ : decision.operationId \notin ids}]

-----------------------------------------------------------------------------
(* prepareSyncRequest: the first pending proposals in outbox order. *)

\* Mutant: the last pending proposals are sent instead of the first.
TransmitsLast(record, picked, count, limit) ==
    /\ \A i, j \in 1..count : i < j =>
           picked[i].proposal.clientSequence < picked[j].proposal.clientSequence
    /\ \A entry \in Pending(record) :
           \/ \E i \in 1..count : picked[i] = entry
           \/ /\ count = limit
              /\ \A i \in 1..count : picked[i].proposal.clientSequence >
                                         entry.proposal.clientSequence

\* "picked" lists the pending entries a request of that limit transmits.
Transmits(record, picked, count, limit) ==
    /\ \A i, j \in 1..count : i < j =>
           picked[i].proposal.clientSequence < picked[j].proposal.clientSequence
    /\ \A entry \in Pending(record) :
           \/ \E i \in 1..count : picked[i] = entry
           \/ /\ count = limit
              /\ \A i \in 1..count : picked[i].proposal.clientSequence <
                                         entry.proposal.clientSequence

RequestFrom(client, record, maximumEntries, picked, count) ==
    [replica |-> client, baseSequence |-> record.confirmedSequence,
     maximumEntries |-> maximumEntries,
     proposals |-> [i \in 1..count |-> picked[i].proposal]]

-----------------------------------------------------------------------------
(* mergeSyncResponse.  The code walks the decisions, then the entries,     *)
(* then the outbox.  Decisions name distinct operations and so do entries, *)
(* so each walk is a set operation on the outbox the previous one left.    *)

DecisionsIn(response) ==
    {response.decisions[i] : i \in DOMAIN response.decisions}

Match(entry, decision) == entry.proposal.operationId = decision.operationId

AcceptedBy(entry, decision) ==
    [status |-> "accepted", proposal |-> entry.proposal,
     sequence |-> decision.sequence, operation |-> decision.operation]

\* A pending entry takes its decision; an accepted one keeps its own.
Decided(entry, response) ==
    entry.status = "pending" /\ \E d \in DecisionsIn(response) : Match(entry, d)

\* Mutant: an accepted proposal leaves the outbox without a receipt.
OutboxWithoutReceipts(record, response) ==
    {entry \in record.outbox : ~ Decided(entry, response)}

OutboxAfterDecisions(record, response) ==
    {entry \in record.outbox : ~ Decided(entry, response)} \cup
    UNION {{AcceptedBy(entry, d) :
               d \in {d \in DecisionsIn(response) :
                          d.status = "accepted" /\ Match(entry, d)}} :
           entry \in Pending(record)}

\* Canonical entries the walk looks at: those not yet compacted away.
Visible(record, response) ==
    {i \in DOMAIN response.entries :
        response.entries[i].sequence > RetainedBase(record)}

Confirms(committed, entry) ==
    committed.operationId = entry.proposal.operationId

\* resolveOutboxFromCommitted drops the entry the committed operation is for.
OutboxAfterEntries(record, response) ==
    {entry \in OutboxAfterDecisions(record, response) :
        \A i \in Visible(record, response) :
            ~ Confirms(response.entries[i], entry)}

\* The part of the page beyond the confirmed prefix.
NewEntries(record, response) ==
    IF response.throughSequence <= record.confirmedSequence
    THEN <<>>
    ELSE SubSeq(response.entries,
                record.confirmedSequence - response.requestedBaseSequence + 1,
                Len(response.entries))

\* Mutant: the confirmed position follows the page, even an old one.
ConfirmedAsResponse(record, response) == response.throughSequence

ConfirmedThrough(record, response) ==
    record.confirmedSequence + Len(NewEntries(record, response))

\* Mutant: receipts are dropped up to the authority's head.
OutboxUpToHead(record, response) ==
    {entry \in OutboxAfterEntries(record, response) :
        entry.status = "accepted" => entry.sequence > response.headSequence}

\* The last walk drops the receipts that the confirmed prefix now covers.
OutboxAfterMerge(record, response) ==
    {entry \in OutboxAfterEntries(record, response) :
        entry.status = "accepted" =>
            entry.sequence > ConfirmedThrough(record, response)}

\* Mutant: every decision that arrives is news, pending or not.
EveryDecisionResolved(record, response) == DecisionsIn(response)

\* Outcomes learned for the first time: by a decision, or from the log.
NewlyResolved(record, response) ==
    {d \in DecisionsIn(response) :
        \E entry \in Pending(record) : Match(entry, d)} \cup
    {[operationId |-> response.entries[i].operationId, status |-> "accepted",
      sequence |-> response.entries[i].sequence,
      operation |-> response.entries[i].operation] :
        i \in {i \in Visible(record, response) :
                  \E entry \in OutboxAfterDecisions(record, response) :
                      /\ entry.status = "pending"
                      /\ Confirms(response.entries[i], entry)}}

\* appendUniqueResolutions keeps the first outcome stored for an operation.
ResolutionsAfterMerge(record, response) ==
    record.resolutions \cup
    {d \in NewlyResolved(record, response) :
        \A r \in record.resolutions : r.operationId # d.operationId}

\* Mutant: the whole page is applied to the state, not only its new part.
MergedWholePage(record, response) ==
    [nextClientSequence |-> record.nextClientSequence,
     confirmedSequence |-> ConfirmedThrough(record, response),
     confirmedState |-> record.confirmedState \o
                            [i \in DOMAIN response.entries |->
                                response.entries[i].operation],
     confirmedLog |-> record.confirmedLog \o NewEntries(record, response),
     outbox |-> OutboxAfterMerge(record, response),
     resolutions |-> ResolutionsAfterMerge(record, response)]

Merged(record, response) ==
    LET new == NewEntries(record, response) IN
    [nextClientSequence |-> record.nextClientSequence,
     confirmedSequence |-> ConfirmedThrough(record, response),
     confirmedState |-> record.confirmedState \o
                            [i \in 1..Len(new) |-> new[i].operation],
     confirmedLog |-> record.confirmedLog \o new,
     outbox |-> OutboxAfterMerge(record, response),
     resolutions |-> ResolutionsAfterMerge(record, response)]

\* The ways the walks throw.  DecisionConflictError:
DecisionConflicts(record, response) ==
    \E entry \in record.outbox, d \in DecisionsIn(response) :
        /\ entry.status = "accepted"
        /\ Match(entry, d)
        /\ d.status = "accepted" =>
               \/ entry.sequence # d.sequence
               \/ entry.operation # d.operation

\* LogDivergenceError: a canonical position already confirmed differs,
Diverges(record, response) ==
    \E i \in Visible(record, response) :
        LET received == response.entries[i]
            position == received.sequence - RetainedBase(record) IN
        /\ received.sequence <= record.confirmedSequence
        /\ record.confirmedLog[position] # received

\* or a committed operation is not the proposal the outbox holds for it.
Misattributes(record, response) ==
    \E i \in Visible(record, response),
       entry \in OutboxAfterDecisions(record, response) :
        LET received == response.entries[i] IN
        /\ Confirms(received, entry)
        /\ \/ received.origin # OriginOf(entry.proposal)
           \/ /\ entry.status = "accepted"
              /\ \/ entry.sequence # received.sequence
                 \/ entry.operation # received.operation

\* A receipt at or below the confirmed position must be in the retained log.
ReceiptUnaccounted(record, response) ==
    LET retained == record.confirmedLog \o NewEntries(record, response) IN
    \E entry \in OutboxAfterEntries(record, response) :
        /\ entry.status = "accepted"
        /\ entry.sequence <= ConfirmedThrough(record, response)
        /\ \/ entry.sequence <= RetainedBase(record)
           \/ LET committed == retained[entry.sequence - RetainedBase(record)]
              IN  \/ committed.operationId # entry.proposal.operationId
                  \/ committed.origin # OriginOf(entry.proposal)
                  \/ committed.operation # entry.operation

MergeRefused(record, response) ==
    \/ ~ AssertSyncResponse(response)
    \/ response.requestedBaseSequence > record.confirmedSequence
    \/ DecisionConflicts(record, response)
    \/ Diverges(record, response)
    \/ Misattributes(record, response)
    \/ ReceiptUnaccounted(record, response)
=============================================================================
