----------------------------- MODULE D1Authority -----------------------------
(***************************************************************************)
(* The authority over a SQL database, src/next/d1.ts behind the guard of   *)
(* src/next/d1-correctness.ts.  A call of synchronize reads the stream,    *)
(* then for each proposal its stored decision and its client position,     *)
(* commits what it staged in one guarded batch, and reads a page of the    *)
(* log.  Every await is a step of its own, so concurrent calls interleave  *)
(* at each of them; a batch is one SQL transaction.                        *)
(*                                                                         *)
(* The interpreter decides arbitrarily and a state is the sequence of the  *)
(* operations applied, as in LogServer.  A stored decision carries, as a   *)
(* history field, the state it was taken on.                               *)
(***************************************************************************)
EXTENDS LogServer

CONSTANTS
    Handlers,              \* calls that may be in progress at once
    MaximumCommitRetries,  \* option of createD1LogSyncAuthority
    MaxRequests,           \* bound on the distinct requests sent
    PageSizes              \* maximumEntries of the requests

ASSUME RetriesAssumption == MaximumCommitRetries \in Nat

\* prepareSyncRequest and assertSyncRequest refuse any other limit.
ASSUME PageSizesAssumption == PageSizes \subseteq LogSequence

VARIABLES
    stream,        \* the row of the streams table
    logEntries,    \* rows of the log table
    decisionRows,  \* rows of the decisions table
    calls,         \* local state of each handler
    requests,      \* requests sent: each may arrive any number of times
    responses,     \* responses returned
    issued,        \* history: proposals the clients were given
    failures       \* history: kinds of refusal that calls threw

tables == <<stream, logEntries, decisionRows>>
clientVars == <<requests, issued>>
vars == <<stream, logEntries, decisionRows, calls, requests, responses,
          issued, failures>>

Idle == [pc |-> "idle"]

Init ==
    /\ stream = [headSequence |-> 0, state |-> <<>>]
    /\ logEntries = {}
    /\ decisionRows = {}
    /\ calls = [h \in Handlers |-> Idle]
    /\ requests = {}
    /\ responses = {}
    /\ issued = {}
    /\ failures = {}

-----------------------------------------------------------------------------
(* The clients, as SyncSystem has them: a request carries proposals of one *)
(* client in its order, and whatever that client issued before one of them *)
(* is in the request too or decided (SyncInvariant, RequestSound).         *)

IssuedBy(client) == {proposal \in issued : proposal.clientId = client}

Stored(id) == \E row \in decisionRows : row.identity.operationId = id

Issue(client, id, hash) ==
    /\ \A proposal \in issued : proposal.operationId # id
    /\ issued' = issued \cup
          {[operationId |-> id, clientId |-> client,
            clientSequence |-> Cardinality(IssuedBy(client)) + 1,
            intentHash |-> hash]}
    /\ UNCHANGED <<tables, calls, requests, responses, failures>>

Complete(client, proposals) ==
    \A i \in DOMAIN proposals, earlier \in IssuedBy(client) :
        earlier.clientSequence < proposals[i].clientSequence =>
            \/ Stored(earlier.operationId)
            \/ \E j \in DOMAIN proposals : proposals[j] = earlier

Send(client, base, size, proposals) ==
    LET request == [replica |-> client, baseSequence |-> base,
                    maximumEntries |-> size, proposals |-> proposals] IN
    /\ Cardinality(requests) < MaxRequests
    /\ AssertSyncRequest(request)
    /\ Complete(client, proposals)
    /\ requests' = requests \cup {request}
    /\ UNCHANGED <<tables, calls, responses, issued, failures>>

-----------------------------------------------------------------------------
(* One call of synchronize. *)

At(h, pc) == calls[h].pc = pc

Continue(h, call) == calls' = [calls EXCEPT ![h] = call]

Fail(h, kind) ==
    /\ failures' = failures \cup {kind}
    /\ Continue(h, Idle)
    /\ UNCHANGED <<tables, clientVars, responses>>

\* An attempt starts from the request alone.  "disturbed" counts, as history,
\* the batches other calls committed and the times the database was busy
\* since this call began.
Attempt(request, attempt, disturbed) ==
    [pc |-> "stream", request |-> request, attempt |-> attempt,
     disturbed |-> disturbed]

\* Counted as far as a call may retry.
Disturbed(call) ==
    [call EXCEPT !.disturbed = IF @ < MaximumCommitRetries THEN @ + 1 ELSE @]

Receive(h, request) ==
    /\ At(h, "idle")
    /\ Continue(h, Attempt(request, 0, 0))
    /\ UNCHANGED <<tables, clientVars, responses, failures>>

MayRetry(call) == call.attempt < MaximumCommitRetries

\* Mutant: the attempts are not counted.
NextAttemptUncounted(call) ==
    Attempt(call.request, call.attempt, call.disturbed)

\* A retry reads everything again.
NextAttempt(call) == Attempt(call.request, call.attempt + 1, call.disturbed)

\* The last attempt fails with an error that clients retry later.
Retry(h, call) ==
    /\ Continue(h, IF MayRetry(call) THEN NextAttempt(call) ELSE Idle)
    /\ UNCHANGED <<tables, clientVars, responses, failures>>

\* Mutant: a batch without log entries is not committed.
NeedsCommitIfAccepted(call) == call.staged # <<>>

\* Rejections are committed like acceptances.
NeedsCommit(call) == call.rows # {}

\* On to the next proposal, or past the last one.
Proceed(h, call) ==
    /\ Continue(h, [call EXCEPT !.pc =
           IF Len(call.decided) < Len(call.request.proposals) THEN "decision"
           ELSE IF NeedsCommit(call) THEN "commit" ELSE "page"])
    /\ UNCHANGED <<tables, clientVars, responses, failures>>

\* readOrCreateStream: the head and the state this attempt builds on.
ReadStream(h) ==
    LET call == calls[h] IN
    /\ At(h, "stream")
    /\ IF ~ AssertSyncRequest(call.request)
       THEN Fail(h, "invalid request")
       ELSE IF call.request.baseSequence > stream.headSequence
       THEN Fail(h, "unknown base")
       ELSE Proceed(h,
              [pc |-> "stream", request |-> call.request,
               attempt |-> call.attempt, disturbed |-> call.disturbed,
               readHead |-> stream.headSequence, state |-> stream.state,
               staged |-> <<>>, rows |-> {}, decided |-> <<>>])

\* Mutant: the proposals are decided from the last to the first.
CurrentFromLast(call) ==
    call.request.proposals[Len(call.request.proposals) - Len(call.decided)]

Current(call) == call.request.proposals[Len(call.decided) + 1]

\* readStoredDecision: a retry must repeat identity and intent.
ReadStoredDecision(h) ==
    LET call == calls[h]
        found == {row \in decisionRows :
                     row.identity.operationId = Current(call).operationId} IN
    /\ At(h, "decision")
    /\ IF found = {}
       THEN /\ Continue(h, [call EXCEPT !.pc = "position"])
            /\ UNCHANGED <<tables, clientVars, responses, failures>>
       ELSE \E row \in found :
            IF row.identity # Current(call)
            THEN Fail(h, "conflict")
            ELSE Proceed(h, [call EXCEPT !.decided = Append(@, row.decision)])

DecisionRow(call, decision) ==
    [identity |-> Current(call), decision |-> decision, basis |-> call.state]

Rejecting(call) ==
    LET decision == RejectedFor(Current(call).operationId) IN
    [call EXCEPT !.decided = Append(@, decision),
                 !.rows = @ \cup {DecisionRow(call, decision)}]

\* Mutant: every operation is applied to the state that was read.
AcceptingOnReadState(call, operation) ==
    LET entry == CommittedEntry(Current(call),
                                call.readHead + Len(call.staged) + 1,
                                operation)
        decision == AcceptedFor(entry) IN
    [call EXCEPT !.decided = Append(@, decision),
                 !.rows = @ \cup {DecisionRow(call, decision)},
                 !.staged = Append(@, entry),
                 !.state = Append(SubSeq(@, 1, call.readHead), operation)]

\* Mutant: rejected proposals take a position too.
AcceptingCountsRejected(call, operation) ==
    LET entry == CommittedEntry(Current(call),
                                call.readHead + Cardinality(call.rows) + 1,
                                operation)
        decision == AcceptedFor(entry) IN
    [call EXCEPT !.decided = Append(@, decision),
                 !.rows = @ \cup {DecisionRow(call, decision)},
                 !.staged = Append(@, entry),
                 !.state = Append(@, operation)]

\* The entry takes the position after the ones staged before it, and the
\* operation is applied to the running state.
Accepting(call, operation) ==
    LET entry == CommittedEntry(Current(call),
                                call.readHead + Len(call.staged) + 1,
                                operation)
        decision == AcceptedFor(entry) IN
    [call EXCEPT !.decided = Append(@, decision),
                 !.rows = @ \cup {DecisionRow(call, decision)},
                 !.staged = Append(@, entry),
                 !.state = Append(@, operation)]

\* Mutant: the row of the proposal itself counts.
HeldByAny(row, proposal) == SamePosition(row.identity, proposal)

HeldByOther(row, proposal) ==
    /\ SamePosition(row.identity, proposal)
    /\ row.identity.operationId # proposal.operationId

\* assertClientPositionAvailable, and then the interpreter's decision.  The
\* proposal may have been decided since readStoredDecision found nothing.
DecideProposal(h) ==
    LET call == calls[h] IN
    /\ At(h, "position")
    /\ IF \E row \in decisionRows : HeldByOther(row, Current(call))
       THEN Fail(h, "conflict")
       ELSE \/ Proceed(h, Rejecting(call))
            \/ \E operation \in Operations :
                   Proceed(h, Accepting(call, operation))

-----------------------------------------------------------------------------
(* The guarded batch. *)

\* Mutant: only the unique keys protect the batch, not the head it was
\* staged on.
UniqueOnly(call) ==
    \E row \in decisionRows, new \in call.rows :
        \/ row.identity.operationId = new.identity.operationId
        \/ SamePosition(row.identity, new.identity)

\* Mutant: the guard compares with the head after the batch.
GuardsNewHead(call) ==
    \/ stream.headSequence # call.readHead + Len(call.staged)
    \/ UniqueOnly(call)

\* SQLite aborts the batch on a duplicate key, or when the head is no longer
\* the one this attempt read (a NOT NULL violation, by the guard).
Aborts(call) ==
    \/ stream.headSequence # call.readHead
    \/ \E row \in decisionRows, new \in call.rows :
           \/ row.identity.operationId = new.identity.operationId
           \/ SamePosition(row.identity, new.identity)
    \/ \E row \in logEntries, i \in DOMAIN call.staged :
           \/ row.sequence = call.staged[i].sequence
           \/ row.operationId = call.staged[i].operationId
           \/ SamePosition(row.origin, call.staged[i].origin)

Apply(call) ==
    /\ stream' = [headSequence |-> call.readHead + Len(call.staged),
                  state |-> call.state]
    /\ logEntries' = logEntries \cup
                         {call.staged[i] : i \in DOMAIN call.staged}
    /\ decisionRows' = decisionRows \cup call.rows

\* Every other call in progress has seen one more commit.
Committed(h, call) ==
    calls' = [g \in Handlers |->
                 IF g = h THEN call
                 ELSE IF At(g, "idle") THEN calls[g]
                 ELSE Disturbed(calls[g])]

CommitBatch(h) ==
    LET call == calls[h] IN
    /\ At(h, "commit")
    /\ ~ Aborts(call)
    /\ Apply(call)
    /\ Committed(h, [call EXCEPT !.pc = "page"])
    /\ UNCHANGED <<clientVars, responses, failures>>

\* A conflict restarts the call.
RetryCommit(h) ==
    /\ At(h, "commit")
    /\ Aborts(calls[h])
    /\ Retry(h, calls[h])

\* Instead of its answer, the database says that it is locked.
Busy(h) ==
    /\ ~ At(h, "idle")
    /\ Retry(h, Disturbed(calls[h]))

\* The database applied the batch, but its answer was lost: the call fails.
LoseCommit(h) ==
    LET call == calls[h] IN
    /\ At(h, "commit")
    /\ ~ Aborts(call)
    /\ Apply(call)
    /\ Committed(h, Idle)
    /\ UNCHANGED <<clientVars, responses, failures>>

\* Any await may fail without effect, and the worker may stop there.
Abandon(h) ==
    /\ ~ At(h, "idle")
    /\ Continue(h, Idle)
    /\ UNCHANGED <<tables, clientVars, responses, failures>>

-----------------------------------------------------------------------------
(* The answer. *)

\* readLogPage: the first rows after the base, up to the head of this call.
Page(request, head) ==
    LET found == {row \in logEntries : /\ row.sequence > request.baseSequence
                                       /\ row.sequence <= head}
        limit == IF request.maximumEntries < MaximumEntriesPerResponse
                 THEN request.maximumEntries ELSE MaximumEntriesPerResponse
        size == IF Cardinality(found) < limit
                THEN Cardinality(found) ELSE limit
    IN  [i \in 1..size |->
            CHOOSE row \in found :
                Cardinality({r \in found : r.sequence <= row.sequence}) = i]

Answer(call) ==
    LET head == call.readHead + Len(call.staged)
        entries == Page(call.request, head)
    IN  [replica |-> call.request.replica,
         requestedBaseSequence |-> call.request.baseSequence,
         throughSequence |-> call.request.baseSequence + Len(entries),
         headSequence |-> head,
         entries |-> entries,
         decisions |-> call.decided]

ReadLogPage(h) ==
    LET response == Answer(calls[h]) IN
    /\ At(h, "page")
    /\ IF AssertSyncResponse(response) /\ AssertResponseLimits(response)
       THEN /\ responses' = responses \cup {response}
            /\ Continue(h, Idle)
            /\ UNCHANGED <<tables, clientVars, failures>>
       ELSE Fail(h, "malformed response")

-----------------------------------------------------------------------------

IssueStep ==
    \E client \in Clients, id \in OperationIds, hash \in IntentHashes :
        Issue(client, id, hash)

SendStep ==
    \E client \in Clients, base \in 0..stream.headSequence,
       size \in PageSizes, count \in 0..MaximumProposalsPerRequest :
        \E proposals \in [1..count -> IssuedBy(client)] :
            Send(client, base, size, proposals)

ReceiveStep == \E h \in Handlers, request \in requests : Receive(h, request)

HandlerStep(h) ==
    \/ ReadStream(h)
    \/ ReadStoredDecision(h)
    \/ DecideProposal(h)
    \/ CommitBatch(h)
    \/ RetryCommit(h)
    \/ ReadLogPage(h)
    \/ Busy(h)
    \/ LoseCommit(h)
    \/ Abandon(h)

Next ==
    \/ IssueStep
    \/ SendStep
    \/ ReceiveStep
    \/ \E h \in Handlers : HandlerStep(h)

Spec == Init /\ [][Next]_vars

\* Every await settles, with an answer or an error, and the event loop runs
\* what follows it.
FairSpec == Spec /\ \A h \in Handlers : WF_vars(HandlerStep(h))
=============================================================================
