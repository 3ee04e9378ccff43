----------------------------- MODULE D1Invariant -----------------------------
(***************************************************************************)
(* The inductive invariant behind the properties of D1Authority: what the  *)
(* tables say of one another, and what the local variables of a call say   *)
(* of the tables, however many awaits ago they were read.                  *)
(***************************************************************************)
EXTENDS D1Properties

(* Types. *)

StoredRow == [identity : Proposal, decision : ProposalDecision,
              basis : Seq(Operations)]

\* A call that has read nothing yet.
NewCall ==
    [pc : {"stream"}, request : SyncRequest,
     attempt : 0..MaximumCommitRetries, disturbed : 0..MaximumCommitRetries]

\* A call that has read the stream.
StagingCall ==
    [pc : {"decision", "position", "commit", "page"}, request : SyncRequest,
     attempt : 0..MaximumCommitRetries, disturbed : 0..MaximumCommitRetries,
     readHead : Nat, state : Seq(Operations), staged : Seq(CommittedOperation),
     rows : SUBSET StoredRow, decided : Seq(ProposalDecision)]

CallsTyped == calls \in [Handlers -> {Idle} \cup NewCall \cup StagingCall]

-----------------------------------------------------------------------------
(* The tables. *)

\* The log table has one row for each position up to the head, and the state
\* applies their operations.
HistorySound ==
    /\ Len(stream.state) = stream.headSequence
    /\ \A row \in logEntries :
           /\ row.sequence \in 1..stream.headSequence
           /\ stream.state[row.sequence] = row.operation
    /\ \A i \in 1..stream.headSequence : \E row \in logEntries :
           row.sequence = i
    /\ \A left, right \in logEntries :
           left.sequence = right.sequence => left = right

EntriesStored ==
    \A row \in logEntries : \E d \in decisionRows :
        /\ d.decision = AcceptedFor(row)
        /\ OriginOf(d.identity) = row.origin

RowsSound ==
    /\ \A d \in decisionRows :
           /\ d.identity \in issued
           /\ d.decision.operationId = d.identity.operationId
           /\ d.decision.status = "accepted" =>
                  \E row \in logEntries : d.decision = AcceptedFor(row)
    /\ \A d, e \in decisionRows :
           d.identity.operationId = e.identity.operationId => d = e

\* Whatever a client issued before a decided operation is decided too.
StoredInOrder ==
    \A d \in decisionRows, p \in issued :
        (/\ p.clientId = d.identity.clientId
         /\ p.clientSequence < d.identity.clientSequence) =>
            Stored(p.operationId)

\* Clients number their proposals from 1 without gaps or repetitions.
IssuedNumbered ==
    /\ IsFiniteSet(issued)
    /\ \A p \in issued :
           p.clientSequence <= Cardinality(IssuedBy(p.clientId))
    /\ \A p, q \in issued :
           (p.operationId = q.operationId \/ SamePosition(p, q)) => p = q

-----------------------------------------------------------------------------
(* What holds of every message, however old. *)

RequestHonest(request) ==
    /\ AssertSyncRequest(request)
    /\ request.baseSequence <= stream.headSequence
    /\ \A i \in 1..Len(request.proposals) :
           /\ request.proposals[i] \in issued
           /\ request.proposals[i].clientId = request.replica
    /\ Complete(request.replica, request.proposals)

ResponseTrue(response) ==
    /\ response.headSequence <= stream.headSequence
    /\ response.requestedBaseSequence <= response.throughSequence
    /\ response.throughSequence <= response.headSequence
    /\ Len(response.entries) =
           response.throughSequence - response.requestedBaseSequence
    /\ \A i \in 1..Len(response.entries) :
           /\ response.entries[i] \in logEntries
           /\ response.entries[i].sequence = response.requestedBaseSequence + i
    /\ \A i \in 1..Len(response.decisions) : \E row \in decisionRows :
           row.decision = response.decisions[i]

-----------------------------------------------------------------------------
(* What holds of a call in progress, whatever the others commit meanwhile. *)

CallOwed(call) ==
    /\ call.request \in requests
    /\ call.attempt <= call.disturbed

\* The running state extends the state of the log as of the head that was
\* read, by the operations of the staged entries.
StateExtends(call) ==
    /\ call.request.baseSequence <= call.readHead
    /\ call.readHead <= stream.headSequence
    /\ Len(call.state) = call.readHead + Len(call.staged)
    /\ \A i \in 1..call.readHead : call.state[i] = stream.state[i]
    /\ \A i \in 1..Len(call.staged) :
           /\ call.staged[i].sequence = call.readHead + i
           /\ call.staged[i].operation = call.state[call.readHead + i]

\* A row staged by the call is the decision of one of the proposals it has
\* dealt with, taken on a state between the one it read and the running one.
RowStaged(call, new) ==
    /\ \E k \in 1..Len(call.decided) :
           /\ new.identity = call.request.proposals[k]
           /\ new.decision = call.decided[k]
    /\ Len(new.basis) \in call.readHead..Len(call.state)
    /\ \A i \in 1..Len(new.basis) : new.basis[i] = call.state[i]
    /\ new.decision.status = "accepted" =>
           /\ new.decision.sequence = Len(new.basis) + 1
           /\ \E i \in 1..Len(call.staged) :
                  new.decision = AcceptedFor(call.staged[i])

RowsStaged(call) ==
    /\ \A new \in call.rows : RowStaged(call, new)
    /\ \A left, right \in call.rows :
           left.identity.operationId = right.identity.operationId =>
               left = right
    /\ \A i \in 1..Len(call.staged) : \E new \in call.rows :
           /\ new.decision = AcceptedFor(call.staged[i])
           /\ OriginOf(new.identity) = call.staged[i].origin

\* One client's entries are staged in the order it issued them.
StagedInOrder(call) ==
    \A i, j \in 1..Len(call.staged) :
        (/\ i < j
         /\ call.staged[i].origin.clientId = call.staged[j].origin.clientId) =>
            call.staged[i].origin.clientSequence <
                call.staged[j].origin.clientSequence

\* The decision of a proposal is stored, or staged by the call.
HasRow(call, proposal, decision) ==
    \E row \in decisionRows \cup call.rows :
        row.identity = proposal /\ row.decision = decision

\* Every proposal dealt with has its decision.
DecidedRows(call) ==
    /\ Len(call.decided) <= Len(call.request.proposals)
    /\ \A k \in 1..Len(call.decided) :
           /\ call.decided[k].operationId =
                  call.request.proposals[k].operationId
           /\ HasRow(call, call.request.proposals[k], call.decided[k])

DecidedSound(call) ==
    /\ DecidedRows(call)
    /\ call.pc \in {"decision", "position"} =>
           Len(call.decided) < Len(call.request.proposals)
    /\ call.pc \in {"commit", "page"} =>
           Len(call.decided) = Len(call.request.proposals)

\* Nobody committed since this attempt began.
Undisturbed(call) ==
    call.disturbed = call.attempt /\ call.attempt < MaximumCommitRetries

\* Then the tables are still as this attempt read them.
StillCurrent(call) ==
    Undisturbed(call) /\ call.pc # "page" =>
        /\ call.readHead = stream.headSequence
        /\ \A new \in call.rows : ~ Stored(new.identity.operationId)
        /\ call.pc = "position" => ~ Stored(Current(call).operationId)

\* What the call staged is in the tables when it reads its page.
Published(call) ==
    call.pc = "page" =>
        /\ call.readHead + Len(call.staged) <= stream.headSequence
        /\ call.rows \subseteq decisionRows
        /\ \A i \in 1..Len(call.staged) : call.staged[i] \in logEntries

StagingSound(call) ==
    /\ StateExtends(call)
    /\ RowsStaged(call)
    /\ StagedInOrder(call)
    /\ DecidedSound(call)
    /\ StillCurrent(call)
    /\ Published(call)

CallSound(call) ==
    /\ call \in NewCall \cup StagingCall => CallOwed(call)
    /\ call \in StagingCall => StagingSound(call)

TablesSound ==
    /\ HistorySound
    /\ EntriesStored
    /\ RowsSound
    /\ StoredInOrder
    /\ D1ClientOrderKept

D1Inv ==
    /\ D1TypeOK
    /\ CallsTyped
    /\ IssuedNumbered
    /\ TablesSound
    /\ NeverRefused
    /\ \A request \in requests : RequestHonest(request)
    /\ \A response \in responses : ResponseTrue(response)
    /\ \A h \in Handlers : CallSound(calls[h])
=============================================================================
