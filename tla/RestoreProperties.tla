-------------------------- MODULE RestoreProperties --------------------------
(* What an authority keeps when its process ends and another one restores it. *)
EXTENDS ServerRestore

DecisionTable(decisions) ==
    /\ DOMAIN decisions \subseteq OperationIds
    /\ decisions \in [DOMAIN decisions -> StoredProposalDecision]

\* The parts of the server and of what is stored have their types; nothing waits for a save
\* while the process is down.
RestoreTypeOK ==
    /\ adapter \in {"atomic", "parts", "corruption"}
    /\ server # Down =>
          /\ server.log \in Seq(CommittedOperation)
          /\ DecisionTable(server.decisions)
          /\ server.state \in Seq(Operations)
    /\ disk \in [log : Seq(CommittedOperation), decisions : SUBSET StoredProposalDecision,
                 state : Seq(Operations)]
    /\ unsaved \cup told \subseteq ProposalDecision
    /\ server = Down => unsaved = {}

\* A snapshot that the server took itself is never refused, whatever sequence of calls, saves,
\* crashes and restorations led to it (server.ts:109-121, 317-388).
SnapshotsRestore ==
    adapter = "atomic" /\ server = Down => Restorable(disk)

\* log-replication.test.js:275 and decisions/0004-at-least-once-and-idempotency.md:12: what a
\* client was told is what every later server tells it, although the process may end between
\* a call, the save and the answer.
AnswersKept ==
    adapter = "atomic" /\ server # Down =>
        \A decision \in told :
            /\ decision.operationId \in DOMAIN server.decisions
            /\ server.decisions[decision.operationId].decision = decision

\* Entries and accepted decisions name each other with one identity, and no position or
\* operation is used twice.
HistorySound(log, decisions) ==
    /\ \A i \in DOMAIN log :
          /\ log[i].sequence = i
          /\ log[i].operationId \in DOMAIN decisions
          /\ AcceptedAt(decisions[log[i].operationId], i)
          /\ OriginOf(decisions[log[i].operationId].identity) = log[i].origin
    /\ \A id \in DOMAIN decisions :
          /\ decisions[id].identity.operationId = id
          /\ decisions[id].decision.operationId = id
          /\ decisions[id].decision.status = "accepted" =>
                \E i \in DOMAIN log : AcceptedAt(decisions[id], i) /\ log[i].operationId = id
    /\ \A left, right \in DOMAIN decisions :
          left # right => ~ SamePosition(decisions[left].identity, decisions[right].identity)

\* A server that runs has one history, although its snapshot was stored in parts of different
\* moments or one of its records was altered (server.ts:361-405).
RunningHistorySound == server # Down => HistorySound(server.log, server.decisions)

\* The decisions carry the operations of their entries, and the state applied these.
OperationsAgree(log, records, state) ==
    /\ state = OperationsOf(log)
    /\ \A record \in records, i \in DOMAIN log :
          AcceptedAt(record, i) => record.decision = AcceptedFor(log[i])

\* What an atomic adapter has stored can be restored, and has every answer that was given
\* (server.ts:91-92, 109-121).
SavedSound ==
    adapter = "atomic" =>
        /\ Restorable(disk)
        /\ OperationsAgree(disk.log, disk.decisions, disk.state)
        /\ \A decision \in told : \E record \in disk.decisions : record.decision = decision

\* The server continues the stored history, and will give the answers that wait for a save.
ServerContinues ==
    adapter = "atomic" /\ server # Down =>
        /\ Len(disk.log) <= Len(server.log)
        /\ \A i \in DOMAIN disk.log : server.log[i] = disk.log[i]
        /\ \A record \in disk.decisions :
              /\ record.identity.operationId \in DOMAIN server.decisions
              /\ server.decisions[record.identity.operationId] = record
        /\ OperationsAgree(server.log, Records(server.decisions), server.state)
        /\ \A decision \in unsaved :
              /\ decision.operationId \in DOMAIN server.decisions
              /\ server.decisions[decision.operationId].decision = decision

\* What holds of every process and every snapshot.
RestoreInv ==
    /\ RestoreTypeOK /\ SnapshotsRestore /\ AnswersKept /\ RunningHistorySound
    /\ SavedSound /\ ServerContinues

\* server.ts:91-92: "Real persistence adapters must atomically store the log append, permanent
\* decision, and materialized-state transition".  With one that does, what is stored is an
\* authority that never crashes: an operation is decided when it is saved, and a process that
\* ends before the save, or between the save and the answer, decides nothing or for good.
Durable(part, nothing) == IF adapter = "atomic" THEN part ELSE nothing

NoDecisions == [id \in {} |-> {}]

Abstract == INSTANCE CanonicalLog WITH
    log <- Durable(disk.log, <<>>),
    decisions <- Durable(Restored(disk).decisions, NoDecisions),
    authorityState <- Durable(disk.state, <<>>)

ImplementsDurableLog == Abstract!Spec
=============================================================================
