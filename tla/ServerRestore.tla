---------------------------- MODULE ServerRestore ----------------------------
(*****************************************************************************)
(* The in-memory authority with a life longer than its process: snapshot()   *)
(* is saved, the process ends, and the constructor restores what was saved   *)
(* or refuses it.  An "atomic" adapter saves a snapshot as a whole and then  *)
(* answers, as the class's comment asks.  One of "parts" saves the parts of  *)
(* a snapshot one after the other; with "corruption" a stored record changes *)
(* on its own.                                                               *)
(*****************************************************************************)
EXTENDS LogServer

CONSTANTS
    Proposals,       \* what the clients may propose; two may claim one position
    MaxCrashes,      \* bound: ends of the process
    MaxCorruptions   \* bound: stored records changed

ASSUME ProposalsAssumption == Proposals \subseteq Proposal /\ IsFiniteSet(Proposals)

VARIABLES
    adapter,      \* how snapshots are stored: "atomic", "parts" or "corruption"
    server,       \* [log, decisions, state] of the running process, or Down
    disk,         \* the snapshot as it is stored: [log, decisions, state]
    unsaved,      \* decisions whose answers wait for the next save
    told,         \* history: decisions that clients were answered
    crashes,
    corruptions

vars == <<adapter, server, disk, unsaved, told, crashes, corruptions>>

Down == [log |-> <<>>, decisions |-> [id \in {} |-> {}], state |-> <<"down">>]

Empty == [log |-> <<>>, decisions |-> [id \in {} |-> {}], state |-> <<>>]

Batches ==
    {proposals \in UNION {[1..n -> Proposals] : n \in 1..MaximumProposalsPerRequest} :
        AssertProposalBatch(proposals)}

RequestWith(proposals) ==
    [replica |-> proposals[1].clientId, baseSequence |-> 0, maximumEntries |-> 1,
     proposals |-> proposals]

Records(decisions) == {decisions[id] : id \in DOMAIN decisions}

Snapshot ==
    [log |-> server.log, state |-> server.state, decisions |-> Records(server.decisions)]

(* What the constructor checks. *)

AssertContiguousLog(entries) ==
    \A i, j \in DOMAIN entries :
        /\ entries[i].sequence = i
        /\ i # j => /\ entries[i].operationId # entries[j].operationId
                    /\ ~ SamePosition(entries[i].origin, entries[j].origin)

\* restoreDecision: no record names two operations, no operation has two
\* records, and no client position two operations.
DecisionsRestorable(records) ==
    /\ \A record \in records : record.decision.operationId = record.identity.operationId
    /\ \A left, right \in records : left # right =>
          /\ left.identity.operationId # right.identity.operationId
          /\ ~ SamePosition(left.identity, right.identity)

IdentityMatchesEntry(identity, entry) ==
    /\ identity.operationId = entry.operationId
    /\ OriginOf(identity) = entry.origin

AcceptedAt(record, sequence) ==
    record.decision.status = "accepted" /\ record.decision.sequence = sequence

\* Mutant: a decision without an entry is taken, as long as every entry has its decision.
EntriesDecidedOnly(entries, records) ==
    \A i \in DOMAIN entries : \E record \in records :
        AcceptedAt(record, i) /\ IdentityMatchesEntry(record.identity, entries[i])

\* validateRestoredSnapshot: entries and accepted decisions name each other.
HistoryRestorable(entries, records) ==
    /\ \A i \in DOMAIN entries : \E record \in records :
          AcceptedAt(record, i) /\ IdentityMatchesEntry(record.identity, entries[i])
    /\ \A record \in records : record.decision.status = "accepted" =>
          \E i \in DOMAIN entries :
              AcceptedAt(record, i) /\ IdentityMatchesEntry(record.identity, entries[i])

Restorable(snapshot) ==
    /\ AssertContiguousLog(snapshot.log)
    /\ DecisionsRestorable(snapshot.decisions)
    /\ HistoryRestorable(snapshot.log, snapshot.decisions)

\* Mutant: the restored server starts from the initial state.
RestoredFromInitial(snapshot) ==
    [log |-> snapshot.log, state |-> <<>>,
     decisions |-> [id \in {record.identity.operationId : record \in snapshot.decisions} |->
        CHOOSE record \in snapshot.decisions : record.identity.operationId = id]]

\* The state is taken as it is stored.
Restored(snapshot) ==
    [log |-> snapshot.log, state |-> snapshot.state,
     decisions |-> [id \in {record.identity.operationId : record \in snapshot.decisions} |->
        CHOOSE record \in snapshot.decisions : record.identity.operationId = id]]

Init ==
    /\ adapter \in {"atomic", "parts", "corruption"}
    /\ server = Empty
    /\ disk = [Empty EXCEPT !.decisions = {}]
    /\ unsaved = {}
    /\ told = {}
    /\ crashes = 0
    /\ corruptions = 0

Publish(request, staged) ==
    LET log == server.log \o staged
        decisions == DecisionsAfter(server.decisions, request.proposals, staged)
        response == ResponseTo(request, log, decisions) IN
    /\ AssertSyncResponse(response) /\ AssertResponseLimits(response)
    /\ server' = [log |-> log, decisions |-> decisions,
                  state |-> server.state \o OperationsOf(staged)]
    /\ unsaved' = unsaved \cup {response.decisions[i] : i \in DOMAIN response.decisions}

\* A call that is refused throws and leaves no trace.
Synchronize(proposals) ==
    LET request == RequestWith(proposals) IN
    /\ server # Down
    /\ ~ RequestRefused(server.log, server.decisions, request)
    /\ \E count \in 0..Len(proposals) :
       \E accepted \in [1..count -> Undecided(server.decisions, proposals)],
          drafts \in [1..count -> Operations] :
            /\ InRequestOrder(accepted, count)
            /\ Publish(request, StagedEntries(server.log, proposals, accepted, drafts, count))
    /\ UNCHANGED <<adapter, disk, told, crashes, corruptions>>

\* The whole snapshot is stored, and then the calls are answered.
Save ==
    /\ adapter # "parts"
    /\ server # Down
    /\ disk' = Snapshot
    /\ told' = told \cup unsaved
    /\ unsaved' = {}
    /\ UNCHANGED <<adapter, server, crashes, corruptions>>

SavePart(part) ==
    /\ adapter = "parts"
    /\ server # Down
    /\ disk' = [disk EXCEPT ![part] = Snapshot[part]]
    /\ UNCHANGED <<adapter, server, unsaved, told, crashes, corruptions>>

\* One stored record is replaced by another, or another one is added.
Corrupt(old, new) ==
    /\ adapter = "corruption"
    /\ corruptions < MaxCorruptions
    /\ disk' = [disk EXCEPT !.decisions = (@ \ {old}) \cup {new}]
    /\ corruptions' = corruptions + 1
    /\ UNCHANGED <<adapter, server, unsaved, told, crashes>>

Crash ==
    /\ server # Down
    /\ crashes < MaxCrashes
    /\ crashes' = crashes + 1
    /\ server' = Down
    /\ unsaved' = {}
    /\ UNCHANGED <<adapter, disk, told, corruptions>>

\* A refused snapshot leaves the authority down.
Restore ==
    /\ server = Down
    /\ Restorable(disk)
    /\ server' = Restored(disk)
    /\ UNCHANGED <<adapter, disk, unsaved, told, crashes, corruptions>>

\* The records a fault may leave: of a client's proposal, with any outcome.
FaultyRecords ==
    [identity : {[p EXCEPT !.intentHash = hash] : p \in Proposals, hash \in IntentHashes},
     decision : [operationId : OperationIds, status : {"accepted"},
                 sequence : 1..Cardinality(Proposals), operation : Operations]
                \cup RejectedDecision]

Next ==
    \/ \E proposals \in Batches : Synchronize(proposals)
    \/ Save
    \/ \E part \in {"log", "decisions", "state"} : SavePart(part)
    \/ \E old \in disk.decisions, new \in FaultyRecords : Corrupt(old, new)
    \/ Crash
    \/ Restore

Spec == Init /\ [][Next]_vars
=============================================================================
