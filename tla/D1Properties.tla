---------------------------- MODULE D1Properties ----------------------------
(***************************************************************************)
(* What the authority over a SQL database promises, stated over            *)
(* D1Authority.                                                            *)
(***************************************************************************)
EXTENDS D1Authority

Committed_log == [i \in 1..stream.headSequence |->
                     CHOOSE row \in logEntries : row.sequence = i]

Decided_table ==
    LET ids == {row.identity.operationId : row \in decisionRows}
        RowOf(id) == CHOOSE row \in decisionRows :
                         row.identity.operationId = id
    IN  [id \in ids |-> [identity |-> RowOf(id).identity,
                         decision |-> RowOf(id).decision]]

CallInProgress ==
    [attempt : 0..MaximumCommitRetries, disturbed : 0..MaximumCommitRetries,
     request : SyncRequest]

\* Tables, messages and calls have their types, and a call makes at most the
\* attempts it is allowed.
D1TypeOK ==
    /\ stream \in [headSequence : Nat, state : Seq(Operations)]
    /\ logEntries \subseteq CommittedOperation
    /\ decisionRows \subseteq [identity : Proposal,
                               decision : ProposalDecision,
                               basis : Seq(Operations)]
    /\ requests \subseteq SyncRequest
    /\ responses \subseteq SyncResponse
    /\ issued \subseteq Proposal
    /\ \A h \in Handlers : ~ At(h, "idle") =>
           [attempt |-> calls[h].attempt, disturbed |-> calls[h].disturbed,
            request |-> calls[h].request] \in CallInProgress

-----------------------------------------------------------------------------
(* Safety. *)

\* The tables have their types, and the three of them describe one history
\* whatever commits interleave, fail or are lost: positions 1 to the head,
\* one row each, the state their operations in order, and an accepted
\* decision for each of them and no other.
TablesAgree ==
    /\ D1TypeOK
    /\ {row.sequence : row \in logEntries} = 1..stream.headSequence
    /\ Cardinality(logEntries) = stream.headSequence
    /\ stream.state = OperationsOf(Committed_log)
    /\ \A row \in logEntries : \E d \in decisionRows :
           /\ d.decision = AcceptedFor(row)
           /\ OriginOf(d.identity) = row.origin
    /\ \A d \in decisionRows : d.decision.status = "accepted" =>
           \E row \in logEntries : d.decision = AcceptedFor(row)

\* One client's operations enter the log in the order it issued them.
D1ClientOrderKept ==
    \A left, right \in logEntries :
        (/\ left.origin.clientId = right.origin.clientId
         /\ left.sequence < right.sequence) =>
            left.origin.clientSequence < right.origin.clientSequence

\* Whatever a call answered, although its head, its decisions and its page
\* were read at different moments, is a page of the one log and the stored
\* decisions of its request.
AnswersTrue ==
    \A response \in responses :
        /\ response.headSequence <= stream.headSequence
        /\ response.entries =
               SubSeq(Committed_log, response.requestedBaseSequence + 1,
                      response.throughSequence)
        /\ \A i \in DOMAIN response.decisions : \E row \in decisionRows :
               row.decision = response.decisions[i]

\* No call is refused for its base, its identity or its position: clients
\* number their operations once, so only a lost race could look like a
\* conflict.
NeverRefused ==
    failures \cap {"invalid request", "unknown base", "conflict"} = {}

\* Each retry is owed to another call's commit or to a busy database: the
\* guard never aborts a batch that nobody raced.
RetryMeansProgress ==
    \A h \in Handlers : ~ At(h, "idle") =>
        calls[h].attempt <= calls[h].disturbed

\* docs/architecture/decisions/0004-at-least-once-and-idempotency.md, 12: the
\* server returns the stored decision on every retry.  A call that read the
\* stream before the original was committed, and the decision after it,
\* answers with a decision beyond its own head, which assertSyncResponse
\* refuses.
RetryReturnsDecision == "malformed response" \notin failures

-----------------------------------------------------------------------------
(* Action properties and liveness. *)

IsPrefixOf(left, right) ==
    /\ Len(left) <= Len(right)
    /\ SubSeq(right, 1, Len(left)) = left

\* Every decision that becomes permanent was taken by the interpreter on the
\* state of the log it is appended to: the state before the commit followed
\* by what the same batch staged before it, never a state that another call
\* has overtaken.
DecidedOnCurrentState ==
    [][ \A row \in decisionRows' \ decisionRows :
            /\ IsPrefixOf(stream.state, row.basis)
            /\ IsPrefixOf(row.basis, stream'.state)
            /\ row.decision.status = "accepted" =>
                   row.decision.sequence = Len(row.basis) + 1
      ]_tables

Canonical == INSTANCE CanonicalLog WITH
    log <- Committed_log,
    decisions <- Decided_table,
    authorityState <- stream.state

\* To its clients the database is the one growing log of CanonicalLog: each
\* commit is one step of it, and everything else a call does is invisible.
ImplementsCanonicalLog == Canonical!Spec

\* Every call comes to an end, however often the database is busy and
\* whatever the other calls commit.
CallsEnd == \A h \in Handlers : ~ At(h, "idle") ~> At(h, "idle")
=============================================================================
