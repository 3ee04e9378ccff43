-------------------------- MODULE SyncSystemProofs --------------------------
(***************************************************************************)
(* The safety properties of SyncSystem and its refinement of CanonicalLog, *)
(* for every value of its constants: any number of clients, ids, hashes    *)
(* and operations, any limits, any number of messages in flight.           *)
(***************************************************************************)
EXTENDS SyncRefinement, SequenceTheorems, TLAPS

-----------------------------------------------------------------------------
(***************************************************************************)
(* The steps of a client preserve IInv: enqueue, compaction,               *)
(* acknowledgement, the request snapshot, and the merge of a response,     *)
(* however old, into the record as it is now, which never throws.          *)
(***************************************************************************)

\* The initial state satisfies the inductive invariant.
LEMMA InitIInv == Init => IInv
<1> SUFFICES ASSUME Init PROVE IInv
  OBVIOUS
<1>1. TypeOK
  <2>1. EmptyRecord \in ReplicaRecord
    BY DEF EmptyRecord, ReplicaRecord, ClientSequence
  <2>2. DOMAIN decisions = {}
    BY DEF Init
  <2>. QED
    BY <2>1, <2>2 DEF Init, TypeOK
<1>2. \A client \in Clients :
        RecordSound(client, replicas[client], acknowledged[client])
  BY <1>1 DEF Init, TypeOK, RecordSound, PrefixSound, OutboxSound,
       SettledSound, InboxSound, EmptyRecord, RetainedBase, Told
<1>3. QED
  BY <1>1, <1>2 DEF Init, IInv, NoFailure, LogSound, DecisionsSound,
       StateSound, IssuedSound, DecidedInOrder, ClientOrderKept

-----------------------------------------------------------------------------
(* Consequences of the invariant that several steps need. *)

\* Two entries of the log never share an operation or a client position.
LEMMA LogDistinct ==
  ASSUME TypeOK, LogSound, DecisionsSound, IssuedSound,
         NEW i \in 1..Len(log), NEW j \in 1..Len(log), i # j
  PROVE  /\ log[i].operationId # log[j].operationId
         /\ ~ SamePosition(log[i].origin, log[j].origin)
<1>0. /\ log[i] \in CommittedOperation
      /\ log[j] \in CommittedOperation
  BY DEF TypeOK
<1>1. log[i].operationId # log[j].operationId
  <2>1. SUFFICES ASSUME log[i].operationId = log[j].operationId PROVE FALSE
    OBVIOUS
  <2>2. AcceptedFor(log[i]) = AcceptedFor(log[j])
    BY <2>1 DEF LogSound
  <2>3. log[i].sequence = log[j].sequence
    BY <2>2 DEF AcceptedFor
  <2>. QED
    BY <2>3 DEF LogSound
<1>2. ~ SamePosition(log[i].origin, log[j].origin)
  <2>1. SUFFICES ASSUME SamePosition(log[i].origin, log[j].origin) PROVE FALSE
    OBVIOUS
  <2> DEFINE p == decisions[log[i].operationId].identity
             q == decisions[log[j].operationId].identity
  <2>2. /\ p \in issued /\ q \in issued
        /\ p.operationId = log[i].operationId
        /\ q.operationId = log[j].operationId
        /\ OriginOf(p) = log[i].origin /\ OriginOf(q) = log[j].origin
    BY DEF LogSound, DecisionsSound
  <2>3. SamePosition(p, q)
    BY <2>1, <2>2 DEF SamePosition, OriginOf
  <2>4. p = q
    BY <2>2, <2>3 DEF IssuedSound
  <2>. QED
    BY <1>1, <2>2, <2>4
<1>. QED
  BY <1>1, <1>2

\* A committed entry is for exactly the issued proposal that has its id or
\* its client position.
LEMMA CommittedIdentity ==
  ASSUME TypeOK, LogSound, DecisionsSound, IssuedSound,
         NEW i \in 1..Len(log), NEW p \in issued,
         \/ log[i].operationId = p.operationId
         \/ SamePosition(log[i].origin, p)
  PROVE  /\ log[i].operationId = p.operationId
         /\ log[i].origin = OriginOf(p)
<1> DEFINE q == decisions[log[i].operationId].identity
<1>1. q \in issued /\ q.operationId = log[i].operationId
      /\ OriginOf(q) = log[i].origin
  BY DEF LogSound, DecisionsSound
<1>2. q.operationId = p.operationId \/ SamePosition(q, p)
  BY <1>1 DEF SamePosition, OriginOf
<1>3. q = p
  BY <1>1, <1>2 DEF IssuedSound
<1>. QED
  BY <1>1, <1>3

\* A sound record passes the check of the store.
LEMMA SoundRecordValid ==
  ASSUME TypeOK, LogSound, DecisionsSound, IssuedSound,
         NEW client \in Clients, NEW record, NEW done,
         RecordSound(client, record, done)
  PROVE  AssertReplicaRecord(client, record)
<1>0. /\ record \in ReplicaRecord
      /\ RetainedBase(record) \in Nat
      /\ RetainedBase(record) + Len(record.confirmedLog) = record.confirmedSequence
      /\ record.confirmedSequence \in Nat /\ Len(log) \in Nat
      /\ Len(record.confirmedLog) \in Nat
      /\ DOMAIN record.confirmedLog = 1..Len(record.confirmedLog)
      /\ record.confirmedSequence <= Len(log)
  BY DEF RecordSound, PrefixSound, ReplicaRecord, RetainedBase, TypeOK
<1>1. \A i \in DOMAIN record.confirmedLog :
        /\ RetainedBase(record) + i \in 1..Len(log)
        /\ RetainedBase(record) + i \in 1..record.confirmedSequence
        /\ record.confirmedLog[i] = log[RetainedBase(record) + i]
  BY <1>0 DEF RecordSound, PrefixSound
<1>2. RetainedLogValid(client, record)
  <2> SUFFICES ASSUME NEW i \in DOMAIN record.confirmedLog
      PROVE LET entry == record.confirmedLog[i] IN
        /\ entry.sequence = RetainedBase(record) + i
        /\ entry.origin.clientId = client =>
               entry.origin.clientSequence < record.nextClientSequence
        /\ \A j \in DOMAIN record.confirmedLog : i # j =>
               /\ entry.operationId # record.confirmedLog[j].operationId
               /\ ~ SamePosition(entry.origin, record.confirmedLog[j].origin)
    BY <1>0 DEF RetainedLogValid
  <2> DEFINE k == RetainedBase(record) + i
  <2>1. log[k].sequence = k
    BY <1>1 DEF LogSound
  <2>2. ASSUME log[k].origin.clientId = client
        PROVE  log[k].origin.clientSequence < record.nextClientSequence
    <3> DEFINE q == decisions[log[k].operationId].identity
    <3>1. q \in issued /\ OriginOf(q) = log[k].origin
      BY <1>1 DEF LogSound, DecisionsSound
    <3>2. q.clientId = client /\ q.clientSequence = log[k].origin.clientSequence
      BY <2>2, <3>1 DEF OriginOf
    <3>. QED
      BY <3>1, <3>2 DEF RecordSound, SettledSound
  <2>3. \A j \in DOMAIN record.confirmedLog : i # j =>
           /\ log[k].operationId # record.confirmedLog[j].operationId
           /\ ~ SamePosition(log[k].origin, record.confirmedLog[j].origin)
    <3> SUFFICES ASSUME NEW j \in DOMAIN record.confirmedLog, i # j
                 PROVE  /\ log[k].operationId # record.confirmedLog[j].operationId
                        /\ ~ SamePosition(log[k].origin,
                                          record.confirmedLog[j].origin)
      OBVIOUS
    <3>1. k \in 1..Len(log) /\ RetainedBase(record) + j \in 1..Len(log)
      BY <1>1
    <3>2. k # RetainedBase(record) + j
      BY <1>0
    <3>3. record.confirmedLog[j] = log[RetainedBase(record) + j]
      BY <1>1
    <3>. QED
      BY <3>1, <3>2, <3>3, LogDistinct
  <2>. QED
    BY <1>1, <2>1, <2>2, <2>3
<1>3. OutboxValid(client, record)
  <2> SUFFICES ASSUME NEW entry \in record.outbox
      PROVE
        /\ entry.proposal.clientId = client
        /\ entry.proposal.clientSequence < record.nextClientSequence
        /\ \A other \in record.outbox : other # entry =>
               /\ other.proposal.operationId # entry.proposal.operationId
               /\ other.proposal.clientSequence # entry.proposal.clientSequence
        /\ \A i \in DOMAIN record.confirmedLog :
               /\ record.confirmedLog[i].operationId #
                      entry.proposal.operationId
               /\ ~ SamePosition(record.confirmedLog[i].origin, entry.proposal)
        /\ entry.status = "accepted" =>
               entry.sequence > record.confirmedSequence
    BY DEF OutboxValid
  <2>1. /\ entry.proposal \in issued
        /\ entry.proposal.clientId = client
        /\ \A other \in record.outbox :
               other.proposal = entry.proposal => other = entry
        /\ \A i \in 1..record.confirmedSequence :
               log[i].operationId # entry.proposal.operationId
    BY DEF RecordSound, OutboxSound
  <2>2. entry.proposal.clientSequence < record.nextClientSequence
    BY <2>1 DEF RecordSound, SettledSound
  <2>3. ASSUME NEW other \in record.outbox, other # entry
        PROVE  /\ other.proposal.operationId # entry.proposal.operationId
               /\ other.proposal.clientSequence # entry.proposal.clientSequence
    <3>1. /\ other.proposal \in issued
          /\ other.proposal.clientId = client
          /\ other.proposal # entry.proposal
      BY <2>1, <2>3 DEF RecordSound, OutboxSound
    <3>. QED
      BY <2>1, <3>1 DEF IssuedSound, SamePosition
  <2>4. ASSUME NEW i \in DOMAIN record.confirmedLog
        PROVE  /\ record.confirmedLog[i].operationId #
                      entry.proposal.operationId
               /\ ~ SamePosition(record.confirmedLog[i].origin, entry.proposal)
    BY <1>1, <2>1, CommittedIdentity
  <2>5. ASSUME entry.status = "accepted"
        PROVE  entry.sequence > record.confirmedSequence
    <3> DEFINE id == entry.proposal.operationId
    <3>1. /\ id \in DOMAIN decisions
          /\ decisions[id].decision.status = "accepted"
          /\ decisions[id].decision.sequence = entry.sequence
      BY <2>5 DEF RecordSound, OutboxSound
    <3>2. entry.sequence \in 1..Len(log) /\ log[entry.sequence].operationId = id
      BY <3>1 DEF DecisionsSound
    <3>. QED
      BY <1>0, <2>1, <3>2
  <2>. QED
    BY <2>1, <2>2, <2>3, <2>4, <2>5
<1>4. ResolutionsValid(record)
  BY DEF ResolutionsValid, RecordSound, InboxSound
<1>. QED
  BY <1>2, <1>3, <1>4 DEF AssertReplicaRecord

-----------------------------------------------------------------------------
(* EnqueueOperation. *)

\* The proposal is new in every respect, and the store takes it.
LEMMA EnqueueEffect ==
  ASSUME IInv, NEW client \in Clients, NEW id \in OperationIds,
         NEW hash \in IntentHashes, EnqueueOperation(client, id, hash),
         NEW p, p = NextProposal(client, replicas[client], id, hash)
  PROVE  /\ p \in Proposal
         /\ \A q \in issued : /\ q.operationId # p.operationId
                              /\ ~ SamePosition(q, p)
         /\ replicas' = [replicas EXCEPT ![client] =
                            Enqueued(replicas[client], p)]
         /\ issued' = issued \cup {p}
         /\ UNCHANGED <<authorityVars, networkVars, acknowledged, failures>>
<1> DEFINE record == replicas[client]
           next == Enqueued(record, p)
<1>0. /\ TypeOK /\ LogSound /\ DecisionsSound /\ IssuedSound
      /\ RecordSound(client, record, acknowledged[client])
      /\ record \in ReplicaRecord
  BY DEF IInv, RecordSound
<1>1. /\ p \in Proposal /\ p.operationId = id /\ p.clientId = client
      /\ p.clientSequence = record.nextClientSequence
  BY <1>0 DEF NextProposal, Proposal, ReplicaRecord
<1>2. \A q \in issued : /\ q.operationId # p.operationId
                        /\ ~ SamePosition(q, p)
  <2> SUFFICES ASSUME NEW q \in issued
      PROVE q.operationId # p.operationId /\ ~ SamePosition(q, p)
    OBVIOUS
  <2>1. q.operationId # id
    BY DEF EnqueueOperation, Fresh
  <2>2. q.clientId = client => q.clientSequence < record.nextClientSequence
    BY <1>0 DEF RecordSound, SettledSound
  <2>3. /\ q.clientSequence \in Nat /\ record.nextClientSequence \in Nat
    BY <1>0 DEF TypeOK, Proposal, ReplicaRecord, ClientSequence
  <2>. QED
    BY <1>1, <2>1, <2>2, <2>3 DEF SamePosition
<1>3. AssertReplicaRecord(client, record)
  BY <1>0, SoundRecordValid
<1>4. /\ \A i \in DOMAIN record.confirmedLog :
            /\ record.confirmedLog[i].operationId # id
            /\ ~ SamePosition(record.confirmedLog[i].origin, p)
      /\ \A entry \in record.outbox : entry.proposal \in issued
  <2>1. ASSUME NEW i \in DOMAIN record.confirmedLog
        PROVE  /\ record.confirmedLog[i].operationId # id
               /\ ~ SamePosition(record.confirmedLog[i].origin, p)
    <3> DEFINE k == RetainedBase(record) + i
    <3>1. /\ DOMAIN record.confirmedLog = 1..Len(record.confirmedLog)
          /\ Len(record.confirmedLog) \in Nat
          /\ record.confirmedSequence \in Nat /\ Len(log) \in Nat
      BY <1>0 DEF ReplicaRecord, TypeOK
    <3>2. k \in 1..Len(log) /\ record.confirmedLog[i] = log[k]
      BY <1>0, <3>1, SMTT(30) DEF RecordSound, PrefixSound, RetainedBase
    <3> DEFINE q == decisions[log[k].operationId].identity
    <3>3. /\ q \in issued /\ q.operationId = log[k].operationId
          /\ OriginOf(q) = log[k].origin
      BY <1>0, <3>2 DEF LogSound, DecisionsSound
    <3>. QED
      BY <1>1, <1>2, <3>2, <3>3 DEF OriginOf, SamePosition
  <2>. QED
    BY <1>0, <2>1 DEF RecordSound, OutboxSound
<1>5. ~ DuplicateOperationId(record, id)
  BY <1>1, <1>2, <1>4 DEF DuplicateOperationId
<1>6. /\ next.nextClientSequence = record.nextClientSequence + 1
      /\ next.outbox = record.outbox \cup
                          {[status |-> "pending", proposal |-> p]}
      /\ next.confirmedSequence = record.confirmedSequence
      /\ next.confirmedLog = record.confirmedLog
      /\ next.resolutions = record.resolutions
  BY <1>0 DEF Enqueued, ReplicaRecord
<1>7. AssertReplicaRecord(client, next)
  <2>0. /\ record.nextClientSequence \in Nat
        /\ RetainedBase(next) = RetainedBase(record)
    BY <1>0, <1>6 DEF ReplicaRecord, ClientSequence, RetainedBase
  <2>1. RetainedLogValid(client, next)
    <3>1. \A i \in DOMAIN record.confirmedLog :
             record.confirmedLog[i].origin.clientSequence \in Nat
      <4>1. record.confirmedLog \in Seq(CommittedOperation)
        BY <1>0 DEF ReplicaRecord
      <4>2. \A i \in DOMAIN record.confirmedLog :
               record.confirmedLog[i] \in CommittedOperation
        BY <4>1
      <4>. QED
        BY <4>2 DEF CommittedOperation, OperationOrigin, ClientSequence
    <3>. QED
      BY <1>3, <1>6, <2>0, <3>1 DEF AssertReplicaRecord, RetainedLogValid
  <2>2. OutboxValid(client, next)
    <3> DEFINE new == [status |-> "pending", proposal |-> p]
    <3>1. \A entry \in record.outbox :
             /\ entry.proposal.operationId # id
             /\ entry.proposal.clientSequence \in Nat
             /\ entry.proposal.clientSequence < record.nextClientSequence
             /\ entry.proposal.clientId = client
      BY <1>0, <1>1, <1>2, <1>4 DEF RecordSound, OutboxSound, SettledSound,
         TypeOK, Proposal, ClientSequence
    <3>2. ASSUME NEW entry \in next.outbox
          PROVE  /\ entry.proposal.clientId = client
                 /\ entry.proposal.clientSequence < next.nextClientSequence
      BY <1>1, <1>6, <2>0, <3>1
    <3>3. ASSUME NEW entry \in next.outbox, NEW other \in next.outbox,
                 other # entry
          PROVE  /\ other.proposal.operationId # entry.proposal.operationId
                 /\ other.proposal.clientSequence #
                        entry.proposal.clientSequence
      BY <1>1, <1>3, <1>6, <2>0, <3>1, <3>3
         DEF AssertReplicaRecord, OutboxValid
    <3>4. ASSUME NEW entry \in next.outbox,
                 NEW i \in DOMAIN next.confirmedLog
          PROVE  /\ next.confirmedLog[i].operationId #
                        entry.proposal.operationId
                 /\ ~ SamePosition(next.confirmedLog[i].origin, entry.proposal)
      BY <1>1, <1>3, <1>4, <1>6 DEF AssertReplicaRecord, OutboxValid
    <3>5. ASSUME NEW entry \in next.outbox, entry.status = "accepted"
          PROVE  entry.sequence > next.confirmedSequence
      BY <1>3, <1>6, <3>5 DEF AssertReplicaRecord, OutboxValid
    <3>. QED
      BY <3>2, <3>3, <3>4, <3>5 DEF OutboxValid
  <2>3. ResolutionsValid(next)
    BY <1>3, <1>6 DEF AssertReplicaRecord, ResolutionsValid
  <2>. QED
    BY <2>1, <2>2, <2>3 DEF AssertReplicaRecord
<1>8. UpdateAllowed(client, next)
  BY <1>3, <1>7 DEF UpdateAllowed
<1>. QED
  BY <1>1, <1>2, <1>5, <1>8 DEF EnqueueOperation, StoreRecord

\* EnqueueOperation.
LEMMA EnqueueStepIInv == IInv /\ EnqueueStep => IInv'
<1> SUFFICES ASSUME IInv, NEW client \in Clients, NEW id \in OperationIds,
                    NEW hash \in IntentHashes,
                    EnqueueOperation(client, id, hash)
             PROVE  IInv'
  BY DEF EnqueueStep
<1>r. PICK record : record = replicas[client]
  OBVIOUS
<1>p. PICK p : p = NextProposal(client, record, id, hash)
  OBVIOUS
<1>n. PICK next : next = Enqueued(record, p)
  OBVIOUS
<1> DEFINE new == [status |-> "pending", proposal |-> p]
<1>1. /\ p \in Proposal
      /\ \A q \in issued : /\ q.operationId # p.operationId
                           /\ ~ SamePosition(q, p)
      /\ replicas' = [replicas EXCEPT ![client] = next]
      /\ issued' = issued \cup {p}
      /\ UNCHANGED <<authorityVars, networkVars, acknowledged, failures>>
  BY <1>r, <1>p, <1>n, EnqueueEffect
<1>2. /\ p.operationId = id /\ p.clientId = client
      /\ p.clientSequence = record.nextClientSequence
  BY <1>p DEF NextProposal
<1>3. /\ TypeOK /\ DOMAIN replicas = Clients
      /\ record \in ReplicaRecord
      /\ \A q \in issued : q \in Proposal
  BY <1>r DEF IInv, TypeOK
<1>4. UNCHANGED <<log, decisions, authorityState, requests, responses,
                  acknowledged, failures>>
  BY <1>1 DEF authorityVars, networkVars
<1>5. /\ next \in ReplicaRecord
      /\ next.nextClientSequence = record.nextClientSequence + 1
      /\ next.outbox = record.outbox \cup {new}
      /\ next.confirmedSequence = record.confirmedSequence
      /\ next.confirmedState = record.confirmedState
      /\ next.confirmedLog = record.confirmedLog
      /\ next.resolutions = record.resolutions
  <2>1. new \in OutboxEntry
    BY <1>1 DEF OutboxEntry, PendingEntry
  <2>2. record.nextClientSequence + 1 \in ClientSequence
    BY <1>3 DEF ReplicaRecord, ClientSequence
  <2>. QED
    BY <1>n, <1>3, <2>1, <2>2 DEF Enqueued, ReplicaRecord
<1>6. TypeOK'
  BY <1>1, <1>3, <1>4, <1>5 DEF TypeOK
<1>7. DecidedInOrder' /\ DecisionsSound' /\ IssuedSound'
  <2>1. IssuedSound'
    BY <1>1 DEF IInv, IssuedSound, SamePosition
  <2>2. \A i \in DOMAIN decisions : decisions[i].identity \in issued
    BY DEF IInv, DecisionsSound
  <2>3. \A q \in issued : q.clientId = client =>
           /\ q.clientSequence < p.clientSequence
           /\ q.clientSequence \in Nat
    BY <1>r, <1>2, <1>3 DEF IInv, RecordSound, SettledSound, Proposal, ClientSequence
  <2>4. p.clientSequence \in Nat
    BY <1>1 DEF Proposal, ClientSequence
  <2>5. DecidedInOrder'
    BY <1>1, <1>2, <1>4, <2>2, <2>3, <2>4 DEF IInv, DecidedInOrder
  <2>6. DecisionsSound'
    BY <1>1, <1>4 DEF IInv, DecisionsSound
  <2>. QED
    BY <2>1, <2>5, <2>6
<1>8. ASSUME NEW c \in Clients
      PROVE  RecordSound(c, replicas[c], acknowledged[c])'
  <2>0. RecordSound(c, replicas[c], acknowledged[c])
    BY DEF IInv
  <2>1. CASE c # client
    <3>1. replicas'[c] = replicas[c]
      BY <1>1, <1>3, <2>1
    <3>. QED
      BY <1>1, <1>2, <1>4, <2>0, <2>1, <3>1
         DEF RecordSound, PrefixSound, OutboxSound, SettledSound, InboxSound,
             RejectedForever
  <2>2. CASE c = client
    <3>s. RecordSound(client, record, acknowledged[client])
      BY <1>r, <2>0, <2>2
    <3>0. replicas'[c] = next
      BY <1>1, <1>3, <2>2
    <3>1. PrefixSound(next)'
      BY <1>4, <1>5, <3>s DEF RecordSound, PrefixSound, RetainedBase
    <3>2. OutboxSound(client, next)'
      <4>1. \A entry \in record.outbox :
               entry.proposal \in issued /\ entry.proposal # p
        BY <1>1, <3>s DEF RecordSound, OutboxSound
      <4>2. \A i \in 1..record.confirmedSequence :
               log[i].operationId # p.operationId
        <5> SUFFICES ASSUME NEW i \in 1..record.confirmedSequence
                     PROVE  log[i].operationId # p.operationId
          OBVIOUS
        <5>1. i \in 1..Len(log)
          BY <1>3, <3>s DEF RecordSound, PrefixSound, ReplicaRecord,
             TypeOK
        <5>2. LogSound /\ DecisionsSound
          BY DEF IInv
        <5>. QED
          BY <1>1, <5>1, <5>2 DEF LogSound, DecisionsSound
      <4>3. \A entry \in record.outbox :
               /\ \A other \in record.outbox :
                      other.proposal = entry.proposal => other = entry
               /\ entry.proposal.clientId = client
               /\ \A i \in 1..record.confirmedSequence :
                      log[i].operationId # entry.proposal.operationId
               /\ entry.status = "accepted" =>
                    /\ entry.proposal.operationId \in DOMAIN decisions
                    /\ LET decision ==
                             decisions[entry.proposal.operationId].decision
                       IN  /\ decision.status = "accepted"
                           /\ decision.sequence = entry.sequence
                           /\ decision.operation = entry.operation
        BY <3>s DEF RecordSound, OutboxSound
      <4>. QED
        BY <1>1, <1>2, <1>4, <1>5, <4>1, <4>2, <4>3 DEF OutboxSound
    <3>3. SettledSound(client, next)'
      <4>0. record.nextClientSequence \in Nat
        BY <1>3 DEF ReplicaRecord, ClientSequence
      <4>1. new \in next.outbox /\ p.clientSequence < next.nextClientSequence
        BY <1>2, <1>5, <4>0
      <4>2. ASSUME NEW q \in issued, q.clientId = client
            PROVE  /\ q.clientSequence < next.nextClientSequence
                   /\ \/ \E entry \in next.outbox : entry.proposal = q
                      \/ RejectedForever(q)
                      \/ \E i \in 1..next.confirmedSequence :
                             log[i].operationId = q.operationId
        <5>1. q.clientSequence \in Nat
          BY <1>3 DEF Proposal, ClientSequence
        <5>. QED
          BY <1>5, <3>s, <4>0, <4>2, <5>1 DEF RecordSound, SettledSound
      <4>. QED
        BY <1>1, <1>4, <4>1, <4>2 DEF SettledSound, RejectedForever
    <3>4. InboxSound(client, next, acknowledged[client])'
      <4>1. p.operationId \notin Told(next) \cup acknowledged[client]
        BY <1>1, <1>5, <3>s DEF RecordSound, InboxSound, Told, IInv,
           DecisionsSound
      <4>2. \A q \in issued :
               (\E entry \in Pending(next) : entry.proposal = q) <=>
               (\E entry \in Pending(record) : entry.proposal = q)
        BY <1>1, <1>5 DEF Pending
      <4>3. new \in Pending(next)
        BY <1>5 DEF Pending
      <4>4. Told(next) = Told(record)
        BY <1>5 DEF Told
      <4>. QED
        BY <1>1, <1>4, <1>5, <3>s, <4>1, <4>2, <4>3, <4>4
           DEF RecordSound, InboxSound, Told, Pending
    <3>. QED
      BY <1>4, <1>5, <2>2, <3>0, <3>1, <3>2, <3>3, <3>4 DEF RecordSound
  <2>. QED
    BY <2>1, <2>2
<1>9. \A c \in Clients :
        replicas'[c].confirmedSequence = replicas[c].confirmedSequence
  BY <1>r, <1>1, <1>3, <1>5
<1>10. ASSUME NEW request \in requests
       PROVE  RequestSound(request)'
  <2>1. /\ RequestSound(request)
        /\ request.replica \in Clients
    BY <1>3 DEF IInv, TypeOK, SyncRequest
  <2>2. \A q \in issued : q.clientId = client =>
           /\ q.clientSequence < p.clientSequence
           /\ q.clientSequence \in Nat
    BY <1>r, <1>2, <1>3 DEF IInv, RecordSound, SettledSound, Proposal, ClientSequence
  <2>3. p.clientSequence \in Nat
    BY <1>1 DEF Proposal, ClientSequence
  <2>. QED
    BY <1>1, <1>2, <1>4, <1>9, <2>1, <2>2, <2>3 DEF RequestSound
<1>11. ASSUME NEW response \in responses
       PROVE  ResponseSound(response)'
  <2>1. /\ ResponseSound(response)
        /\ response.replica \in Clients
    BY <1>3 DEF IInv, TypeOK, SyncResponse
  <2>. QED
    BY <1>4, <1>9, <2>1 DEF ResponseSound
<1>. QED
  BY <1>4, <1>6, <1>7, <1>8, <1>10, <1>11
     DEF IInv, NoFailure, LogSound, StateSound, ClientOrderKept

-----------------------------------------------------------------------------
(* Steps of the store that change one record and nothing at the authority. *)

\* A record that was sound stays so while the authority and what was issued do.
LEMMA RecordUnmoved ==
  ASSUME NEW client, NEW record, NEW done, RecordSound(client, record, done),
         replicas'[client] = record, acknowledged'[client] = done,
         log' = log, decisions' = decisions, issued' = issued
  PROVE  RecordSound(client, replicas[client], acknowledged[client])'
<1>1. /\ record \in ReplicaRecord
      /\ PrefixSound(record) /\ OutboxSound(client, record)
      /\ SettledSound(client, record) /\ InboxSound(client, record, done)
  BY DEF RecordSound
<1>2. PrefixSound(replicas[client])'
  BY <1>1 DEF PrefixSound
<1>3. OutboxSound(client, replicas[client])'
  BY <1>1 DEF OutboxSound
<1>4. SettledSound(client, replicas[client])'
  BY <1>1 DEF SettledSound, RejectedForever
<1>5. InboxSound(client, replicas[client], acknowledged[client])'
  BY <1>1 DEF InboxSound
<1>. QED
  BY <1>1, <1>2, <1>3, <1>4, <1>5 DEF RecordSound

\* The store takes a sound record, whatever the step was.
LEMMA SoundUpdateAllowed ==
  ASSUME IInv, NEW client \in Clients, NEW next, NEW done,
         RecordSound(client, next, done)
  PROVE  UpdateAllowed(client, next)
<1>1. TypeOK /\ LogSound /\ DecisionsSound /\ IssuedSound
  BY DEF IInv
<1>2. RecordSound(client, replicas[client], acknowledged[client])
  BY DEF IInv
<1>. QED
  BY <1>1, <1>2, SoundRecordValid DEF UpdateAllowed

\* Replacing one record by a sound one that is confirmed at least as far
\* preserves the invariant.
LEMMA StoreStep ==
  ASSUME IInv, NEW client \in Clients, NEW next,
         NEW done \in SUBSET OperationIds,
         RecordSound(client, next, done),
         replicas[client].confirmedSequence <= next.confirmedSequence,
         replicas' = [replicas EXCEPT ![client] = next],
         acknowledged' = [acknowledged EXCEPT ![client] = done],
         UNCHANGED <<authorityVars, networkVars, issued, failures>>
  PROVE  IInv'
<1>1. TypeOK
  BY DEF IInv
<1>2. UNCHANGED <<log, decisions, authorityState, requests, responses, issued,
                  failures>>
  BY DEF authorityVars, networkVars
<1>3. TypeOK'
  BY <1>1, <1>2 DEF TypeOK, RecordSound
<1>4. ASSUME NEW c \in Clients
      PROVE  RecordSound(c, replicas[c], acknowledged[c])'
  <2>1. CASE c = client
    <3>1. replicas'[c] = next /\ acknowledged'[c] = done
      BY <1>1, <2>1 DEF TypeOK
    <3>2. RecordSound(c, next, done)
      BY <2>1
    <3>. QED
      BY <1>2, <3>1, <3>2, RecordUnmoved
  <2>2. CASE c # client
    <3>1. replicas'[c] = replicas[c] /\ acknowledged'[c] = acknowledged[c]
      BY <1>1, <2>2 DEF TypeOK
    <3>2. RecordSound(c, replicas[c], acknowledged[c])
      BY DEF IInv
    <3>. QED
      BY <1>2, <3>1, <3>2, RecordUnmoved
  <2>. QED
    BY <2>1, <2>2
<1>5. \A c \in Clients : /\ replicas[c].confirmedSequence \in Nat
                         /\ replicas'[c].confirmedSequence \in Nat
                         /\ replicas[c].confirmedSequence <=
                                replicas'[c].confirmedSequence
  BY <1>1, <1>3 DEF TypeOK, ReplicaRecord
<1>6. ASSUME NEW request \in requests
      PROVE  RequestSound(request)'
  <2>1. /\ RequestSound(request)
        /\ request.replica \in Clients /\ request.baseSequence \in Nat
    BY <1>1 DEF IInv, TypeOK, SyncRequest
  <2>. QED
    BY <1>2, <1>5, <2>1 DEF RequestSound
<1>7. ASSUME NEW response \in responses
      PROVE  ResponseSound(response)'
  <2>1. /\ ResponseSound(response)
        /\ response.replica \in Clients
        /\ response.requestedBaseSequence \in Nat
    BY <1>1 DEF IInv, TypeOK, SyncResponse
  <2>. QED
    BY <1>2, <1>5, <2>1 DEF ResponseSound
<1>. QED
  BY <1>2, <1>3, <1>4, <1>6, <1>7 DEF IInv, NoFailure, LogSound,
     DecisionsSound, StateSound, IssuedSound, DecidedInOrder, ClientOrderKept

\* DeleteCommittedLogPrefix.
LEMMA DeleteStepIInv == IInv /\ DeleteStep => IInv'
<1> SUFFICES ASSUME IInv, NEW client \in Clients,
                    NEW through \in 0..replicas[client].confirmedSequence,
                    DeleteCommittedLogPrefix(client, through)
             PROVE  IInv'
  BY DEF DeleteStep
<1>r. PICK record : record = replicas[client]
  OBVIOUS
<1>n. PICK next : next = PrefixDeleted(record, through)
  OBVIOUS
<1>d. PICK done : done = acknowledged[client]
  OBVIOUS
<1>1. /\ TypeOK /\ record \in ReplicaRecord /\ done \in SUBSET OperationIds
      /\ RecordSound(client, record, done)
  BY <1>r, <1>d DEF IInv, TypeOK
<1>2. /\ RetainedBase(record) \in Nat
      /\ Len(record.confirmedLog) \in Nat
      /\ record.confirmedSequence \in Nat
      /\ RetainedBase(record) = record.confirmedSequence
                                  - Len(record.confirmedLog)
      /\ record.confirmedLog \in Seq(CommittedOperation)
  BY <1>1 DEF RecordSound, PrefixSound, RetainedBase, ReplicaRecord
<1>3. RecordSound(client, next, done) /\
      next.confirmedSequence = record.confirmedSequence
  <2>1. CASE through <= RetainedBase(record)
    BY <1>n, <1>1, <2>1 DEF PrefixDeleted
  <2>2. CASE ~ (through <= RetainedBase(record))
    <3>a. PICK count : count = Len(record.confirmedLog)
      OBVIOUS
    <3>b. PICK base : base = RetainedBase(record)
      OBVIOUS
    <3>c. PICK from : from = through - base + 1
      OBVIOUS
    <3> DEFINE kept == SubSeq(record.confirmedLog, from, count)
    <3>0. /\ base \in Nat /\ count \in Nat /\ from \in 1..count + 1
          /\ through \in Nat /\ base < through
          /\ record.confirmedSequence = base + count
          /\ from = through - base + 1
      <4>1. through \in Nat /\ through <= record.confirmedSequence
        BY <1>r, <1>2
      <4>2. /\ base \in Nat /\ count \in Nat /\ base < through
            /\ record.confirmedSequence = base + count
        BY <1>2, <2>2, <3>a, <3>b, <4>1
      <4>. QED
        BY <3>c, <4>1, <4>2
    <3>1. \A i \in from..count : record.confirmedLog[i] \in CommittedOperation
      <4>1. \A i \in from..count : i \in 1..count
        BY <3>0
      <4>. QED
        BY <1>2, <3>a, <4>1, ElementOfSeq
    <3>2. /\ kept \in Seq(CommittedOperation)
          /\ Len(kept) = IF from <= count THEN count - from + 1 ELSE 0
          /\ \A i \in 1..count - from + 1 :
                 kept[i] = record.confirmedLog[from + i - 1]
      <4>1. from \in Int /\ count \in Int
        BY <3>0
      <4>. QED
        BY <3>1, <4>1, SubSeqProperties
    <3>3. Len(kept) = record.confirmedSequence - through
      BY <3>0, <3>2
    <3> HIDE DEF kept
    <3>4. /\ next.nextClientSequence = record.nextClientSequence
          /\ next.confirmedSequence = record.confirmedSequence
          /\ next.confirmedState = record.confirmedState
          /\ next.confirmedLog = kept
          /\ next.outbox = record.outbox
          /\ next.resolutions = record.resolutions
          /\ next \in ReplicaRecord
      BY <1>n, <1>1, <2>2, <3>2, <3>a, <3>b, <3>c
         DEF PrefixDeleted, ReplicaRecord, kept
    <3>5. RetainedBase(next) = through
      BY <3>0, <3>3, <3>4 DEF RetainedBase
    <3>6. \A i \in 1..Len(kept) : kept[i] = log[through + i]
      <4> SUFFICES ASSUME NEW i \in 1..Len(kept)
                   PROVE  kept[i] = log[through + i]
        OBVIOUS
      <4>1. /\ from + i - 1 \in 1..count
            /\ base + (from + i - 1) = through + i
            /\ i \in 1..count - from + 1
        BY <3>0, <3>3
      <4>2. record.confirmedLog[from + i - 1] = log[base + (from + i - 1)]
        BY <1>1, <4>1, <3>a, <3>b DEF RecordSound, PrefixSound
      <4>. QED
        BY <3>2, <4>1, <4>2
    <3>7. PrefixSound(next)
      <4>1. PrefixSound(record)
        BY <1>1 DEF RecordSound
      <4>2. Len(kept) <= record.confirmedSequence
        BY <3>0, <3>3
      <4>. QED
        BY <3>4, <3>5, <3>6, <4>1, <4>2 DEF PrefixSound
    <3>. QED
      BY <1>1, <3>4, <3>7 DEF RecordSound, OutboxSound, SettledSound,
         InboxSound, Told, Pending
  <2>. QED
    BY <2>1, <2>2
<1>4. UpdateAllowed(client, next)
  BY <1>3, SoundUpdateAllowed
<1>5. /\ replicas' = [replicas EXCEPT ![client] = next]
      /\ UNCHANGED <<authorityVars, networkVars, issued, failures>>
      /\ acknowledged' = acknowledged
  BY <1>r, <1>n, <1>4 DEF DeleteCommittedLogPrefix, StoreRecord
<1>6. acknowledged' = [acknowledged EXCEPT ![client] = done]
  BY <1>1, <1>5, <1>d DEF TypeOK
<1>7. replicas[client].confirmedSequence <= next.confirmedSequence
  BY <1>2, <1>3, <1>r
<1>. QED
  BY <1>1, <1>3, <1>5, <1>6, <1>7, StoreStep

\* AcknowledgeResolutions.
LEMMA AcknowledgeStepIInv == IInv /\ AcknowledgeStep => IInv'
<1> SUFFICES ASSUME IInv, NEW client \in Clients,
                    NEW ids \in SUBSET {d.operationId :
                                          d \in replicas[client].resolutions},
                    AcknowledgeResolutions(client, ids)
             PROVE  IInv'
  BY DEF AcknowledgeStep
<1>r. PICK record : record = replicas[client]
  OBVIOUS
<1>n. PICK next : next = Acknowledged(record, ids)
  OBVIOUS
<1>d. PICK done : done = acknowledged[client] \cup ids
  OBVIOUS
<1>1. /\ TypeOK /\ record \in ReplicaRecord
      /\ RecordSound(client, record, acknowledged[client])
      /\ acknowledged[client] \in SUBSET OperationIds
  BY <1>r DEF IInv, TypeOK
<1>2. ids \subseteq Told(record) /\ ids \subseteq OperationIds
  <2>1. ids \subseteq Told(record)
    BY <1>r DEF Told
  <2>2. \A d \in record.resolutions : d.operationId \in OperationIds
    BY <1>1 DEF ReplicaRecord, ProposalDecision, AcceptedDecision,
                RejectedDecision
  <2>. QED
    BY <2>1, <2>2 DEF Told
<1>3. /\ next.nextClientSequence = record.nextClientSequence
      /\ next.confirmedSequence = record.confirmedSequence
      /\ next.confirmedState = record.confirmedState
      /\ next.confirmedLog = record.confirmedLog
      /\ next.outbox = record.outbox
      /\ next.resolutions = {d \in record.resolutions :
                                d.operationId \notin ids}
      /\ next \in ReplicaRecord
  BY <1>n, <1>1 DEF Acknowledged, ReplicaRecord
<1>4. InboxSound(client, next, done)
  <2>1. Told(next) = Told(record) \ ids
    BY <1>3 DEF Told
  <2>2. Told(next) \cup done = Told(record) \cup acknowledged[client]
    BY <1>2, <1>d, <2>1
  <2>3. Pending(next) = Pending(record)
    BY <1>3 DEF Pending
  <2>4. /\ \A d \in next.resolutions :
              /\ d.operationId \in DOMAIN decisions
              /\ decisions[d.operationId].decision = d
              /\ d.operationId \notin done
        /\ Told(record) \subseteq DOMAIN decisions
    BY <1>1, <1>3, <1>d DEF RecordSound, InboxSound, Told
  <2>5. done \subseteq DOMAIN decisions
    BY <1>1, <1>2, <1>d, <2>4 DEF RecordSound, InboxSound
  <2>. QED
    BY <1>1, <2>2, <2>3, <2>4, <2>5 DEF RecordSound, InboxSound
<1>5. RecordSound(client, next, done)
  BY <1>1, <1>3, <1>4 DEF RecordSound, PrefixSound, RetainedBase, OutboxSound,
     SettledSound
<1>6. UpdateAllowed(client, next)
  BY <1>5, SoundUpdateAllowed
<1>7. /\ replicas' = [replicas EXCEPT ![client] = next]
      /\ UNCHANGED <<authorityVars, networkVars, issued, failures>>
      /\ acknowledged' = [acknowledged EXCEPT ![client] = done]
  BY <1>r, <1>n, <1>d, <1>6 DEF AcknowledgeResolutions, StoreRecord
<1>8. replicas[client].confirmedSequence <= next.confirmedSequence
  BY <1>1, <1>3, <1>r DEF ReplicaRecord
<1>. QED
  BY <1>1, <1>2, <1>5, <1>7, <1>8, <1>d, StoreStep

-----------------------------------------------------------------------------
(* PrepareSyncRequest. *)

\* A request snapshot is sound when it is taken.
LEMMA SnapshotSound ==
  ASSUME IInv, NEW client \in Clients, NEW limit \in ProposalLimits,
         NEW maximumEntries \in EntryLimits, NEW count \in 0..limit,
         NEW picked \in [1..count -> Pending(replicas[client])],
         Transmits(replicas[client], picked, count, limit),
         NEW request,
         request = RequestFrom(client, replicas[client], maximumEntries,
                               picked, count)
  PROVE  request \in SyncRequest /\ RequestSound(request)
<1>r. PICK record : record = replicas[client]
  OBVIOUS
<1>1. /\ record \in ReplicaRecord
      /\ RecordSound(client, record, acknowledged[client])
      /\ \A q \in issued : q \in Proposal /\ q.clientSequence \in Nat
      /\ IssuedSound /\ LogSound /\ DecisionsSound
  BY <1>r DEF IInv, TypeOK, Proposal, ClientSequence
<1>2. /\ limit \in Nat /\ limit <= MaximumProposalsPerRequest
      /\ count \in Nat /\ count <= limit
      /\ MaximumProposalsPerRequest \in Nat
      /\ maximumEntries \in LogSequence
  BY OptionsAssumption, LimitsAssumption DEF LogSequence
<1>3. \A i \in 1..count : /\ picked[i] \in record.outbox
                          /\ picked[i].status = "pending"
                          /\ picked[i].proposal \in issued
                          /\ picked[i].proposal.clientId = client
  BY <1>r, <1>1 DEF Pending, RecordSound, OutboxSound
<1>p. PICK proposals : proposals = [i \in 1..count |-> picked[i].proposal]
  OBVIOUS
<1>4. /\ proposals \in Seq(Proposal) /\ Len(proposals) = count
      /\ DOMAIN proposals = 1..count
      /\ \A i \in 1..count : proposals[i] = picked[i].proposal
  <2>1. proposals \in [1..count -> Proposal]
    BY <1>1, <1>3, <1>p
  <2>. QED
    BY <1>2, <1>p, <2>1, SeqDef
<1>5. /\ request.replica = client
      /\ request.baseSequence = record.confirmedSequence
      /\ request.proposals = proposals
      /\ request \in SyncRequest
  BY <1>r, <1>p, <1>1, <1>2, <1>4 DEF RequestFrom, SyncRequest, ReplicaRecord
<1>6. \A i, j \in 1..count : i < j =>
         proposals[i].clientSequence < proposals[j].clientSequence
  BY <1>4 DEF Transmits
<1>7. AssertSyncRequest(request)
  <2>1. Len(request.proposals) <= MaximumProposalsPerRequest
    BY <1>2, <1>4, <1>5
  <2>2. ASSUME NEW i \in 1..count, NEW j \in 1..count, i < j
        PROVE  proposals[i].operationId # proposals[j].operationId
    <3>1. /\ proposals[i] \in issued /\ proposals[j] \in issued
          /\ proposals[i].clientSequence \in Nat
          /\ proposals[j].clientSequence \in Nat
      BY <1>1, <1>3, <1>4
    <3>2. proposals[i] # proposals[j]
      BY <1>6, <2>2, <3>1
    <3>. QED
      BY <1>1, <3>1, <3>2 DEF IssuedSound
  <2>3. AssertProposalBatch(proposals)
    BY <1>4, <1>6, <2>2 DEF AssertProposalBatch
  <2>. QED
    BY <1>5, <2>1, <2>3 DEF AssertSyncRequest
<1>8. ASSUME NEW i \in 1..count, NEW p \in issued, p.clientId = client,
             p.clientSequence < proposals[i].clientSequence
      PROVE  \/ p.operationId \in DOMAIN decisions
             \/ \E j \in 1..count : proposals[j] = p
  <2>0. \/ \E entry \in record.outbox : entry.proposal = p
        \/ RejectedForever(p)
        \/ \E k \in 1..record.confirmedSequence :
               log[k].operationId = p.operationId
    BY <1>1, <1>8 DEF RecordSound, SettledSound
  <2>1. CASE RejectedForever(p)
    BY <2>1 DEF RejectedForever
  <2>2. CASE \E k \in 1..record.confirmedSequence :
               log[k].operationId = p.operationId
    <3>1. \A k \in 1..record.confirmedSequence : k \in 1..Len(log)
      BY <1>1 DEF RecordSound, PrefixSound, IInv, TypeOK, ReplicaRecord
    <3>. QED
      BY <1>1, <2>2, <3>1 DEF LogSound
  <2>3. ASSUME NEW entry \in record.outbox, entry.proposal = p
        PROVE  \/ p.operationId \in DOMAIN decisions
               \/ \E j \in 1..count : proposals[j] = p
    <3>1. CASE entry.status = "pending"
      <4>1. entry \in Pending(record)
        BY <3>1 DEF Pending
      <4>2. ~ (proposals[i].clientSequence < p.clientSequence)
        BY <1>1, <1>3, <1>4, <1>8
      <4>3. \E j \in 1..count : picked[j] = entry
        BY <1>r, <1>4, <2>3, <4>1, <4>2 DEF Transmits
      <4>. QED
        BY <1>4, <2>3, <4>3
    <3>2. CASE entry.status = "accepted"
      BY <1>1, <2>3, <3>2 DEF RecordSound, OutboxSound
    <3>3. entry.status \in {"pending", "accepted"}
      BY <1>1 DEF ReplicaRecord, OutboxEntry, PendingEntry, AcceptedEntry
    <3>. QED
      BY <3>1, <3>2, <3>3
  <2>. QED
    BY <2>0, <2>1, <2>2, <2>3
<1>9. request.baseSequence <= replicas[request.replica].confirmedSequence
  BY <1>r, <1>1, <1>5 DEF ReplicaRecord
<1>. QED
  BY <1>3, <1>4, <1>5, <1>7, <1>8, <1>9 DEF RequestSound

\* PrepareSyncRequest.
LEMMA PrepareStepIInv == IInv /\ PrepareStep => IInv'
<1> SUFFICES ASSUME IInv, NEW client \in Clients, NEW limit \in ProposalLimits,
                    NEW maximumEntries \in EntryLimits,
                    PrepareSyncRequest(client, limit, maximumEntries)
             PROVE  IInv'
  BY DEF PrepareStep
<1>1. AssertReplicaRecord(client, replicas[client])
  BY SoundRecordValid DEF IInv
<1>2. /\ UNCHANGED <<log, decisions, authorityState, responses, replicas,
                     issued, acknowledged, failures>>
      /\ \E count \in 0..limit :
         \E picked \in [1..count -> Pending(replicas[client])] :
            /\ Transmits(replicas[client], picked, count, limit)
            /\ requests' = requests \cup
                 {RequestFrom(client, replicas[client], maximumEntries,
                              picked, count)}
  BY <1>1 DEF PrepareSyncRequest, authorityVars
<1>3. PICK request \in SyncRequest :
        RequestSound(request) /\ requests' = requests \cup {request}
  BY <1>2, SnapshotSound
<1>4. TypeOK'
  BY <1>2, <1>3 DEF IInv, TypeOK
<1>5. ASSUME NEW r \in requests'
      PROVE  RequestSound(r)'
  <2>1. RequestSound(r)
    BY <1>3 DEF IInv
  <2>. QED
    BY <1>2, <2>1 DEF RequestSound
<1>6. ASSUME NEW c \in Clients
      PROVE  RecordSound(c, replicas[c], acknowledged[c])'
  <2>1. RecordSound(c, replicas[c], acknowledged[c])
    BY DEF IInv
  <2>. QED
    BY <1>2, <2>1, RecordUnmoved
<1>7. ASSUME NEW response \in responses'
      PROVE  ResponseSound(response)'
  BY <1>2 DEF IInv, ResponseSound
<1>. QED
  BY <1>2, <1>4, <1>5, <1>6, <1>7 DEF IInv, NoFailure, LogSound,
     DecisionsSound, StateSound, IssuedSound, DecidedInOrder, ClientOrderKept

-----------------------------------------------------------------------------
(* Merging a response. *)

\* What the merge knows of the record and of the response it is given.
MergeContext(client, record, done, response) ==
    /\ client \in Clients
    /\ TypeOK /\ LogSound /\ DecisionsSound /\ IssuedSound
    /\ RecordSound(client, record, done)
    /\ response \in SyncResponse
    /\ AssertSyncResponse(response)
    /\ response.requestedBaseSequence <= record.confirmedSequence
    /\ response.headSequence <= Len(log)
    /\ \A i \in 1..Len(response.entries) :
           response.entries[i] = log[response.requestedBaseSequence + i]
    /\ \A d \in DecisionsIn(response) :
           /\ d \in ProposalDecision
           /\ d.operationId \in DOMAIN decisions
           /\ decisions[d.operationId].decision = d

\* The invariant gives a merge, however late, the context it needs.
LEMMA MergeHasContext ==
  ASSUME IInv, NEW response \in responses
  PROVE  MergeContext(response.replica, replicas[response.replica],
                      acknowledged[response.replica], response)
<1>1. /\ response \in SyncResponse /\ response.replica \in Clients
      /\ ResponseSound(response)
  BY DEF IInv, TypeOK, SyncResponse
<1>2. response.decisions \in Seq(ProposalDecision)
  BY <1>1 DEF SyncResponse
<1>3. \A d \in DecisionsIn(response) : d \in ProposalDecision
  BY <1>2, LenProperties, ElementOfSeq DEF DecisionsIn
<1>. QED
  BY <1>1, <1>3 DEF IInv, ResponseSound, MergeContext

\* The positions of a page, the retained log and the prefix.
LEMMA PagePositions ==
  ASSUME NEW client, NEW record, NEW done, NEW response,
         MergeContext(client, record, done, response)
  PROVE  /\ record \in ReplicaRecord
         /\ record.confirmedSequence \in Nat
         /\ record.confirmedSequence <= Len(log)
         /\ Len(log) \in Nat
         /\ RetainedBase(record) \in Nat
         /\ Len(record.confirmedLog) \in Nat
         /\ RetainedBase(record) + Len(record.confirmedLog) =
                record.confirmedSequence
         /\ response.requestedBaseSequence \in Nat
         /\ response.throughSequence \in Nat
         /\ response.throughSequence <= Len(log)
         /\ Len(response.entries) \in Nat
         /\ DOMAIN response.entries = 1..Len(response.entries)
         /\ response.requestedBaseSequence + Len(response.entries) =
                response.throughSequence
         /\ \A i \in 1..Len(response.entries) :
                /\ response.requestedBaseSequence + i \in 1..Len(log)
                /\ response.entries[i] =
                       log[response.requestedBaseSequence + i]
                /\ response.entries[i].sequence =
                       response.requestedBaseSequence + i
<1>1. /\ record \in ReplicaRecord
      /\ record.confirmedSequence \in Nat
      /\ record.confirmedSequence <= Len(log)
      /\ Len(log) \in Nat
      /\ Len(record.confirmedLog) \in Nat
      /\ Len(record.confirmedLog) <= record.confirmedSequence
  BY DEF MergeContext, RecordSound, PrefixSound, ReplicaRecord, TypeOK
<1>2. /\ RetainedBase(record) \in Nat
      /\ RetainedBase(record) + Len(record.confirmedLog) =
             record.confirmedSequence
  BY <1>1 DEF RetainedBase
<1>3. /\ response.requestedBaseSequence \in Nat
      /\ response.throughSequence \in Nat
      /\ response.headSequence \in Nat
      /\ response.entries \in Seq(CommittedOperation)
      /\ Len(response.entries) \in Nat
      /\ DOMAIN response.entries = 1..Len(response.entries)
  BY LenProperties DEF MergeContext, SyncResponse
<1>4. /\ response.throughSequence <= response.headSequence
      /\ Len(response.entries) =
             response.throughSequence - response.requestedBaseSequence
      /\ response.headSequence <= Len(log)
  BY DEF MergeContext, AssertSyncResponse, AssertPage
<1>5. /\ response.throughSequence <= Len(log)
      /\ response.requestedBaseSequence + Len(response.entries) =
             response.throughSequence
  BY <1>1, <1>3, <1>4
<1>6. ASSUME NEW i \in 1..Len(response.entries)
      PROVE  /\ response.requestedBaseSequence + i \in 1..Len(log)
             /\ response.entries[i] = log[response.requestedBaseSequence + i]
             /\ response.entries[i].sequence =
                    response.requestedBaseSequence + i
  <2>1. response.requestedBaseSequence + i \in 1..Len(log)
    BY <1>1, <1>3, <1>5
  <2>. QED
    BY <2>1 DEF MergeContext, LogSound
<1>. QED
  BY <1>1, <1>2, <1>3, <1>5, <1>6

\* What the walk over the decisions leaves in the outbox.
LEMMA AfterDecisions ==
  ASSUME NEW client, NEW record, NEW done, NEW response,
         MergeContext(client, record, done, response),
         NEW entry \in OutboxAfterDecisions(record, response)
  PROVE  /\ entry \in OutboxEntry
         /\ entry.proposal \in issued
         /\ entry.proposal.clientId = client
         /\ \A i \in 1..record.confirmedSequence :
                log[i].operationId # entry.proposal.operationId
         /\ entry.status = "accepted" =>
              /\ entry.proposal.operationId \in DOMAIN decisions
              /\ LET decision == decisions[entry.proposal.operationId].decision
                 IN  /\ decision.status = "accepted"
                     /\ decision.sequence = entry.sequence
                     /\ decision.operation = entry.operation
         /\ \/ entry \in record.outbox /\ ~ Decided(entry, response)
            \/ /\ entry.status = "accepted"
               /\ \E local \in Pending(record) :
                     /\ local.proposal = entry.proposal
                     /\ \E d \in DecisionsIn(response) : Match(local, d)
<1>1. /\ \A e \in record.outbox : e \in OutboxEntry
      /\ OutboxSound(client, record)
  BY DEF MergeContext, RecordSound, ReplicaRecord
<1>2. CASE entry \in record.outbox /\ ~ Decided(entry, response)
  BY <1>1, <1>2 DEF OutboxSound
<1>3. ASSUME NEW local \in Pending(record), NEW d \in DecisionsIn(response),
             d.status = "accepted", Match(local, d),
             entry = AcceptedBy(local, d)
      PROVE  /\ entry \in OutboxEntry
             /\ entry.proposal = local.proposal
             /\ entry.status = "accepted"
             /\ entry.proposal.operationId \in DOMAIN decisions
             /\ LET decision == decisions[entry.proposal.operationId].decision
                IN  /\ decision.status = "accepted"
                    /\ decision.sequence = entry.sequence
                    /\ decision.operation = entry.operation
  <2>1. /\ d \in AcceptedDecision
        /\ d.operationId \in DOMAIN decisions
        /\ decisions[d.operationId].decision = d
    BY <1>3 DEF MergeContext, ProposalDecision, RejectedDecision
  <2>2. local.proposal \in Proposal
    BY <1>1 DEF Pending, OutboxEntry, PendingEntry, AcceptedEntry
  <2>3. entry \in AcceptedEntry
    BY <1>3, <2>1, <2>2 DEF AcceptedBy, AcceptedEntry, AcceptedDecision
  <2>4. /\ entry.proposal = local.proposal /\ entry.status = "accepted"
        /\ entry.sequence = d.sequence /\ entry.operation = d.operation
    BY <1>3 DEF AcceptedBy
  <2>. QED
    BY <1>3, <2>1, <2>3, <2>4 DEF OutboxEntry, Match
<1>4. CASE \E local \in Pending(record) :
           \E d \in DecisionsIn(response) :
              d.status = "accepted" /\ Match(local, d)
              /\ entry = AcceptedBy(local, d)
  <2>1. PICK local \in Pending(record), d \in DecisionsIn(response) :
              d.status = "accepted" /\ Match(local, d)
              /\ entry = AcceptedBy(local, d)
    BY <1>4
  <2>2. local \in record.outbox
    BY DEF Pending
  <2>. QED
    BY <1>1, <1>3, <2>1, <2>2 DEF OutboxSound
<1>5. \/ entry \in record.outbox /\ ~ Decided(entry, response)
      \/ \E local \in Pending(record) :
         \E d \in DecisionsIn(response) :
              d.status = "accepted" /\ Match(local, d)
              /\ entry = AcceptedBy(local, d)
  BY DEF OutboxAfterDecisions
<1>. QED
  BY <1>2, <1>4, <1>5

\* The part of a page beyond the confirmed prefix continues it.
LEMMA NewEntriesContinue ==
  ASSUME NEW client, NEW record, NEW done, NEW response,
         MergeContext(client, record, done, response)
  PROVE  LET new == NewEntries(record, response) IN
         /\ new \in Seq(CommittedOperation)
         /\ Len(new) \in Nat
         /\ ConfirmedThrough(record, response) =
                record.confirmedSequence + Len(new)
         /\ ConfirmedThrough(record, response) \in Nat
         /\ ConfirmedThrough(record, response) <= Len(log)
         /\ response.throughSequence <= ConfirmedThrough(record, response)
         /\ Len(new) # 0 => ConfirmedThrough(record, response) =
                                response.throughSequence
         /\ \A i \in 1..Len(new) : new[i] = log[record.confirmedSequence + i]
<1> DEFINE new == NewEntries(record, response)
<1>1. /\ record.confirmedSequence \in Nat
      /\ record.confirmedSequence <= Len(log) /\ Len(log) \in Nat
      /\ response.requestedBaseSequence \in Nat
      /\ response.throughSequence \in Nat
      /\ response.throughSequence <= Len(log)
      /\ Len(response.entries) \in Nat
      /\ response.requestedBaseSequence + Len(response.entries) =
                response.throughSequence
      /\ \A i \in 1..Len(response.entries) :
                response.entries[i] = log[response.requestedBaseSequence + i]
  BY PagePositions
<1>2. response.requestedBaseSequence <= record.confirmedSequence
  BY DEF MergeContext
<1>3. CASE response.throughSequence <= record.confirmedSequence
  <2>1. new = <<>>
    BY <1>3 DEF NewEntries
  <2>2. new \in Seq(CommittedOperation) /\ Len(new) = 0
    BY <2>1
  <2>. QED
    BY <1>1, <1>3, <2>2 DEF ConfirmedThrough
<1>4. CASE ~ (response.throughSequence <= record.confirmedSequence)
  <2>a. PICK from : from = record.confirmedSequence
                             - response.requestedBaseSequence + 1
    OBVIOUS
  <2>b. PICK count : count = Len(response.entries)
    OBVIOUS
  <2>1. new = SubSeq(response.entries, from, count)
    BY <1>4, <2>a, <2>b DEF NewEntries
  <2>2. /\ from \in 1..count /\ count \in Nat /\ from \in Int /\ count \in Int
        /\ from + response.requestedBaseSequence =
               record.confirmedSequence + 1
        /\ response.requestedBaseSequence + count = response.throughSequence
    BY <1>1, <1>2, <1>4, <2>a, <2>b, SMTT(30)
  <2>3. \A i \in from..count : response.entries[i] \in CommittedOperation
    <3>1. response.entries \in Seq(CommittedOperation)
      BY DEF MergeContext, SyncResponse
    <3>2. \A i \in from..count : i \in 1..count
      BY <2>2
    <3>. QED
      BY <2>b, <3>1, <3>2, ElementOfSeq
  <2>4. /\ new \in Seq(CommittedOperation)
        /\ Len(new) = IF from <= count THEN count - from + 1 ELSE 0
        /\ \A i \in 1..count - from + 1 :
               new[i] = response.entries[from + i - 1]
    BY <2>1, <2>2, <2>3, SubSeqProperties
  <2> HIDE DEF new
  <2>5. Len(new) = count - from + 1
    BY <2>2, <2>4
  <2>c. PICK confirmed : confirmed = record.confirmedSequence
    OBVIOUS
  <2>d. PICK base : base = response.requestedBaseSequence
    OBVIOUS
  <2>e. /\ confirmed \in Nat /\ base \in Nat
        /\ from + base = confirmed + 1
        /\ base + count = response.throughSequence
    BY <1>1, <2>2, <2>c, <2>d
  <2>6. /\ Len(new) \in Nat
        /\ record.confirmedSequence + Len(new) = response.throughSequence
    <3>1. /\ count - from + 1 \in Nat
          /\ confirmed + (count - from + 1) = base + count
      BY <2>2, <2>e
    <3>. QED
      BY <2>5, <2>c, <2>e, <3>1
  <2>7. ASSUME NEW i \in 1..Len(new)
        PROVE  new[i] = log[record.confirmedSequence + i]
    <3>0. i \in 1..count - from + 1
      BY <2>5
    <3>1. /\ from + i - 1 \in 1..count
          /\ base + (from + i - 1) = confirmed + i
      BY <2>2, <2>e, <3>0
    <3>. QED
      BY <1>1, <2>4, <2>b, <2>c, <2>d, <3>0, <3>1
  <2>8. ConfirmedThrough(record, response) =
            record.confirmedSequence + Len(new)
    BY DEF ConfirmedThrough, new
  <2>. QED
    BY <1>1, <2>4, <2>6, <2>7, <2>8 DEF new
<1>. QED
  BY <1>3, <1>4

\* The positions between the old confirmed prefix and the new one are on the
\* page, and every visible entry of the page ends up confirmed.
LEMMA PageCovers ==
  ASSUME NEW client, NEW record, NEW done, NEW response,
         MergeContext(client, record, done, response)
  PROVE  /\ \A k \in 1..ConfirmedThrough(record, response) :
              k > record.confirmedSequence =>
                \E i \in Visible(record, response) :
                    response.entries[i] = log[k]
         /\ \A i \in Visible(record, response) :
              /\ response.entries[i].sequence \in
                     1..ConfirmedThrough(record, response)
              /\ response.entries[i].sequence \in 1..Len(log)
              /\ response.entries[i].sequence > RetainedBase(record)
              /\ response.entries[i] = log[response.entries[i].sequence]
<1>r. PICK confirmed : confirmed = record.confirmedSequence
  OBVIOUS
<1>b. PICK base : base = response.requestedBaseSequence
  OBVIOUS
<1>t. PICK through : through = ConfirmedThrough(record, response)
  OBVIOUS
<1>n. PICK new : new = Len(NewEntries(record, response))
  OBVIOUS
<1>c. PICK count : count = Len(response.entries)
  OBVIOUS
<1>a. PICK retained : retained = RetainedBase(record)
  OBVIOUS
<1>h. PICK head : head = Len(log)
  OBVIOUS
<1>1. /\ confirmed \in Nat /\ base \in Nat /\ count \in Nat /\ retained \in Nat
      /\ head \in Nat /\ through \in Nat /\ new \in Nat
      /\ retained <= confirmed
      /\ base <= confirmed
      /\ through = confirmed + new /\ through <= head
      /\ base + count <= through
      /\ new # 0 => through = base + count
      /\ DOMAIN response.entries = 1..count
  <2>1. /\ retained \in Nat /\ Len(record.confirmedLog) \in Nat
        /\ retained + Len(record.confirmedLog) = confirmed
    BY <1>r, <1>a, PagePositions
  <2>2. retained <= confirmed
    BY <2>1
  <2>3. base <= confirmed
    BY <1>r, <1>b DEF MergeContext
  <2>4. base + count = response.throughSequence
    BY <1>b, <1>c, PagePositions
  <2>. QED
    BY <1>r, <1>b, <1>t, <1>n, <1>c, <1>h, <2>1, <2>2, <2>3, <2>4,
       PagePositions, NewEntriesContinue
<1>2. \A i \in 1..count : /\ response.entries[i] = log[base + i]
                          /\ response.entries[i].sequence = base + i
  BY <1>b, <1>c, PagePositions
<1>3. ASSUME NEW k \in 1..through, k > confirmed
      PROVE  \E i \in Visible(record, response) : response.entries[i] = log[k]
  <2>1. /\ new # 0 /\ k - base \in 1..count /\ base + (k - base) = k
        /\ k > retained
    BY <1>1, <1>3
  <2>2. k - base \in Visible(record, response)
    BY <1>1, <1>2, <1>a, <2>1 DEF Visible
  <2>. QED
    BY <1>2, <2>1, <2>2
<1>4. ASSUME NEW i \in Visible(record, response)
      PROVE  /\ response.entries[i].sequence \in 1..through
             /\ response.entries[i].sequence \in 1..head
             /\ response.entries[i].sequence > retained
             /\ response.entries[i] = log[response.entries[i].sequence]
  <2>1. i \in 1..count /\ response.entries[i].sequence > retained
    BY <1>1, <1>a DEF Visible
  <2>2. base + i \in 1..through /\ base + i \in 1..head
    BY <1>1, <2>1
  <2>. QED
    BY <1>2, <2>1, <2>2
<1>. QED
  BY <1>3, <1>4, <1>r, <1>t, <1>a, <1>h

\* A receipt that survives the walk over the entries is still ahead of the
\* confirmed prefix: the last walk of the merge finds nothing to drop.
LEMMA ReceiptsAhead ==
  ASSUME NEW client, NEW record, NEW done, NEW response,
         MergeContext(client, record, done, response),
         NEW entry \in OutboxAfterEntries(record, response),
         entry.status = "accepted"
  PROVE  entry.sequence > ConfirmedThrough(record, response)
<1> DEFINE id == entry.proposal.operationId
<1>1. /\ entry \in OutboxAfterDecisions(record, response)
      /\ \A i \in Visible(record, response) :
            response.entries[i].operationId # id
  BY DEF OutboxAfterEntries, Confirms
<1>2. /\ id \in DOMAIN decisions
      /\ decisions[id].decision.status = "accepted"
      /\ decisions[id].decision.sequence = entry.sequence
      /\ \A i \in 1..record.confirmedSequence : log[i].operationId # id
  BY <1>1, AfterDecisions
<1>3. entry.sequence \in 1..Len(log) /\ log[entry.sequence].operationId = id
  BY <1>2 DEF MergeContext, DecisionsSound
<1>4. /\ record.confirmedSequence \in Nat /\ Len(log) \in Nat
      /\ ConfirmedThrough(record, response) \in Nat
  BY PagePositions, NewEntriesContinue
<1>5. SUFFICES ASSUME ~ (entry.sequence > ConfirmedThrough(record, response))
               PROVE  FALSE
  OBVIOUS
<1>6. /\ entry.sequence \in 1..ConfirmedThrough(record, response)
      /\ ~ (entry.sequence \in 1..record.confirmedSequence) =>
             entry.sequence > record.confirmedSequence
  BY <1>3, <1>4, <1>5
<1>. QED
  BY <1>1, <1>2, <1>3, <1>6, PageCovers

-----------------------------------------------------------------------------
(* The merge does not throw. *)

\* No sound response makes mergeSyncResponse throw.
LEMMA MergeNotRefused ==
  ASSUME NEW client, NEW record, NEW done, NEW response,
         MergeContext(client, record, done, response)
  PROVE  ~ MergeRefused(record, response)
<1>1. ~ DecisionConflicts(record, response)
  BY DEF MergeContext, RecordSound, OutboxSound, DecisionConflicts, Match
<1>2. ~ Diverges(record, response)
  <2> SUFFICES ASSUME NEW i \in Visible(record, response),
                      response.entries[i].sequence <= record.confirmedSequence
               PROVE  record.confirmedLog
                          [response.entries[i].sequence - RetainedBase(record)]
                        = response.entries[i]
    BY DEF Diverges
  <2>k. PICK k : k = response.entries[i].sequence
    OBVIOUS
  <2>b. PICK base : base = RetainedBase(record)
    OBVIOUS
  <2>1. k \in 1..Len(log) /\ k > base /\ response.entries[i] = log[k]
    BY <2>k, <2>b, PageCovers
  <2>2. /\ base \in Nat /\ Len(record.confirmedLog) \in Nat
        /\ base + Len(record.confirmedLog) = record.confirmedSequence
        /\ k <= record.confirmedSequence /\ Len(log) \in Nat
    BY <2>k, <2>b, PagePositions
  <2>3. k - base \in 1..Len(record.confirmedLog) /\ base + (k - base) = k
    BY <2>1, <2>2
  <2>4. record.confirmedLog[k - base] = log[base + (k - base)]
    BY <2>b, <2>3 DEF MergeContext, RecordSound, PrefixSound
  <2>. QED
    BY <2>k, <2>b, <2>1, <2>3, <2>4
<1>3. ~ Misattributes(record, response)
  <2> SUFFICES ASSUME NEW i \in Visible(record, response),
                      NEW entry \in OutboxAfterDecisions(record, response),
                      Confirms(response.entries[i], entry)
               PROVE  /\ response.entries[i].origin = OriginOf(entry.proposal)
                      /\ entry.status = "accepted" =>
                           /\ entry.sequence = response.entries[i].sequence
                           /\ entry.operation = response.entries[i].operation
    BY DEF Misattributes
  <2>k. PICK k : k = response.entries[i].sequence
    OBVIOUS
  <2>1. k \in 1..Len(log) /\ response.entries[i] = log[k]
    BY <2>k, PageCovers
  <2>2. log[k].operationId = entry.proposal.operationId
    BY <2>1 DEF Confirms
  <2>3. entry.proposal \in issued
    BY AfterDecisions
  <2>4. log[k].origin = OriginOf(entry.proposal)
    BY <2>1, <2>2, <2>3, CommittedIdentity DEF MergeContext
  <2>5. decisions[entry.proposal.operationId].decision = AcceptedFor(log[k])
    BY <2>1, <2>2 DEF MergeContext, LogSound
  <2>6. ASSUME entry.status = "accepted"
        PROVE  entry.sequence = log[k].sequence
               /\ entry.operation = log[k].operation
    BY <2>5, <2>6, AfterDecisions DEF AcceptedFor
  <2>. QED
    BY <2>1, <2>4, <2>6
<1>4. ~ ReceiptUnaccounted(record, response)
  <2>1. ASSUME NEW entry \in OutboxAfterEntries(record, response),
               entry.status = "accepted"
        PROVE  ~ (entry.sequence <= ConfirmedThrough(record, response))
    <3>1. entry \in OutboxAfterDecisions(record, response)
      BY DEF OutboxAfterEntries
    <3>2. entry \in OutboxEntry
      BY <3>1, AfterDecisions
    <3>3. entry.sequence \in Nat
      BY <2>1, <3>2 DEF OutboxEntry, PendingEntry, AcceptedEntry, LogSequence
    <3>. QED
      BY <2>1, <3>3, ReceiptsAhead, NewEntriesContinue
  <2>. QED
    BY <2>1 DEF ReceiptUnaccounted
<1>5. ~ (response.requestedBaseSequence > record.confirmedSequence)
  <2>1. response.requestedBaseSequence <= record.confirmedSequence
    BY DEF MergeContext
  <2>. QED
    BY <2>1, PagePositions
<1>. QED
  BY <1>1, <1>2, <1>3, <1>4, <1>5 DEF MergeRefused, MergeContext

-----------------------------------------------------------------------------
(* The merged record is sound. *)

\* What the walk over the decisions left is either kept or confirmed.
LEMMA KeptOrConfirmed ==
  ASSUME NEW client, NEW record, NEW done, NEW response,
         MergeContext(client, record, done, response),
         NEW entry \in OutboxAfterDecisions(record, response)
  PROVE  \/ entry \in OutboxAfterMerge(record, response)
         \/ \E i \in 1..ConfirmedThrough(record, response) :
                log[i].operationId = entry.proposal.operationId
<1>1. CASE entry \in OutboxAfterEntries(record, response)
  BY <1>1, ReceiptsAhead DEF OutboxAfterMerge
<1>2. CASE entry \notin OutboxAfterEntries(record, response)
  <2>1. PICK i \in Visible(record, response) :
            Confirms(response.entries[i], entry)
    BY <1>2 DEF OutboxAfterEntries
  <2>. QED
    BY <2>1, PageCovers DEF Confirms
<1>. QED
  BY <1>1, <1>2

\* The confirmed prefix stays a prefix of the log.
LEMMA MergedPrefix ==
  ASSUME NEW client, NEW record, NEW done, NEW response,
         MergeContext(client, record, done, response),
         NEW next, next = Merged(record, response)
  PROVE  /\ next.confirmedSequence \in Nat
         /\ next.confirmedSequence = ConfirmedThrough(record, response)
         /\ record.confirmedSequence <= next.confirmedSequence
         /\ next.confirmedState \in Seq(Operations)
         /\ next.confirmedLog \in Seq(CommittedOperation)
         /\ PrefixSound(next)
<1>r. PICK confirmed : confirmed = record.confirmedSequence
  OBVIOUS
<1>n. PICK new : new = NewEntries(record, response)
  OBVIOUS
<1>o. PICK operations : operations = [i \in 1..Len(new) |-> new[i].operation]
  OBVIOUS
<1>s. PICK state : state = record.confirmedState
  OBVIOUS
<1>l. PICK kept : kept = record.confirmedLog
  OBVIOUS
<1>1. /\ next.confirmedSequence = ConfirmedThrough(record, response)
      /\ next.confirmedState = state \o operations
      /\ next.confirmedLog = kept \o new
  BY <1>n, <1>o, <1>s, <1>l DEF Merged
<1>2. /\ new \in Seq(CommittedOperation) /\ Len(new) \in Nat
      /\ next.confirmedSequence = confirmed + Len(new)
      /\ confirmed + Len(new) <= Len(log)
      /\ \A i \in 1..Len(new) : new[i] = log[confirmed + i]
  BY <1>n, <1>r, <1>1, NewEntriesContinue
<1>3. /\ state \in Seq(Operations) /\ Len(state) = confirmed
      /\ \A i \in 1..confirmed : state[i] = log[i].operation
      /\ kept \in Seq(CommittedOperation) /\ Len(kept) \in Nat
      /\ Len(kept) <= confirmed
      /\ \A i \in 1..Len(kept) : kept[i] = log[confirmed - Len(kept) + i]
      /\ confirmed \in Nat /\ Len(log) \in Nat
  BY <1>r, <1>s, <1>l, PagePositions
     DEF MergeContext, RecordSound, PrefixSound, RetainedBase, ReplicaRecord
<1>4. /\ operations \in Seq(Operations)
      /\ Len(operations) = Len(new)
      /\ \A i \in 1..Len(new) : operations[i] = log[confirmed + i].operation
  <2>1. \A i \in 1..Len(new) : new[i] \in CommittedOperation
    BY <1>2, ElementOfSeq
  <2>2. \A i \in 1..Len(new) : new[i].operation \in Operations
    BY <2>1 DEF CommittedOperation
  <2>3. operations \in Seq(Operations)
    BY <1>o, <1>2, <2>2, SeqDef
  <2>. QED
    BY <1>o, <1>2, <2>3
<1>5. /\ state \o operations \in Seq(Operations)
      /\ Len(state \o operations) = confirmed + Len(new)
      /\ \A i \in 1..confirmed + Len(new) : (state \o operations)[i] =
             IF i <= confirmed THEN state[i] ELSE operations[i - confirmed]
  <2>1. /\ state \o operations \in Seq(Operations)
        /\ Len(state \o operations) = Len(state) + Len(operations)
        /\ \A i \in 1..Len(state) + Len(operations) :
               (state \o operations)[i] =
                   IF i <= Len(state) THEN state[i]
                   ELSE operations[i - Len(state)]
    <3>1. state \in Seq(Operations) /\ operations \in Seq(Operations)
      BY <1>3, <1>4
    <3>. QED
      BY <3>1, ConcatProperties
  <2>. QED
    BY <1>3, <1>4, <2>1
<1>6. /\ kept \o new \in Seq(CommittedOperation)
      /\ Len(kept \o new) = Len(kept) + Len(new)
      /\ \A i \in 1..Len(kept) + Len(new) : (kept \o new)[i] =
             IF i <= Len(kept) THEN kept[i] ELSE new[i - Len(kept)]
  BY <1>2, <1>3, ConcatProperties
<1>m. PICK added : added = Len(new)
  OBVIOUS
<1>k. PICK count : count = Len(kept)
  OBVIOUS
<1>7. /\ added \in Nat /\ count \in Nat /\ confirmed \in Nat
      /\ count <= confirmed
  BY <1>2, <1>3, <1>m, <1>k
<1>8. ASSUME NEW i \in 1..confirmed + added
      PROVE  (state \o operations)[i] = log[i].operation
  <2>1. CASE i <= confirmed
    BY <1>3, <1>5, <1>7, <1>m, <2>1
  <2>2. CASE ~ (i <= confirmed)
    <3>1. i - confirmed \in 1..added /\ confirmed + (i - confirmed) = i
      BY <1>7, <2>2
    <3>. QED
      BY <1>4, <1>5, <1>m, <2>2, <3>1
  <2>. QED
    BY <2>1, <2>2
<1>9. ASSUME NEW i \in 1..count + added
      PROVE  (kept \o new)[i] = log[confirmed - count + i]
  <2>1. CASE i <= count
    <3>1. i \in 1..count
      BY <1>7, <2>1
    <3>. QED
      BY <1>3, <1>6, <1>m, <1>k, <2>1, <3>1
  <2>2. CASE ~ (i <= count)
    <3>1. /\ i - count \in 1..added
          /\ confirmed + (i - count) = confirmed - count + i
      BY <1>7, <2>2
    <3>. QED
      BY <1>2, <1>6, <1>m, <1>k, <2>2, <3>1
  <2>. QED
    BY <2>1, <2>2
<1>10. RetainedBase(next) = confirmed - count
  <2>1. next.confirmedSequence = confirmed + added
        /\ Len(next.confirmedLog) = count + added
    BY <1>1, <1>2, <1>6, <1>m, <1>k
  <2>. QED
    BY <1>7, <2>1 DEF RetainedBase
<1>11. /\ Len(next.confirmedState) = next.confirmedSequence
       /\ next.confirmedSequence = confirmed + added
       /\ Len(next.confirmedLog) = count + added
       /\ count + added <= confirmed + added
       /\ confirmed <= confirmed + added
       /\ confirmed + added \in Nat
  BY <1>1, <1>2, <1>5, <1>6, <1>7, <1>m, <1>k
<1>12. PrefixSound(next)
  BY <1>1, <1>2, <1>8, <1>9, <1>10, <1>11, <1>m DEF PrefixSound
<1>. QED
  BY <1>r, <1>1, <1>5, <1>6, <1>11, <1>12

\* The entries left in the outbox are unconfirmed, one for each proposal.
LEMMA MergedOutbox ==
  ASSUME NEW client, NEW record, NEW done, NEW response,
         MergeContext(client, record, done, response),
         NEW next, next = Merged(record, response)
  PROVE  next.outbox \subseteq OutboxEntry /\ OutboxSound(client, next)
<1>0. /\ next.outbox = OutboxAfterMerge(record, response)
      /\ next.confirmedSequence = ConfirmedThrough(record, response)
  BY DEF Merged
<1>1. \A entry \in next.outbox :
         /\ entry \in OutboxAfterEntries(record, response)
         /\ entry \in OutboxAfterDecisions(record, response)
  BY <1>0 DEF OutboxAfterMerge, OutboxAfterEntries
<1>2. ASSUME NEW entry \in next.outbox, NEW other \in next.outbox,
             other.proposal = entry.proposal
      PROVE  other = entry
  <2>1. \A e, f \in record.outbox : e.proposal = f.proposal => e = f
    BY DEF MergeContext, RecordSound, OutboxSound
  <2>2. /\ entry \in OutboxEntry /\ other \in OutboxEntry
    BY <1>1, AfterDecisions
  <2>3. \A e \in {entry, other} :
           \/ e \in record.outbox /\ ~ Decided(e, response)
           \/ /\ e.status = "accepted"
              /\ \E local \in Pending(record) :
                    /\ local.proposal = e.proposal
                    /\ \E d \in DecisionsIn(response) : Match(local, d)
    BY <1>1, AfterDecisions
  <2>4. \A e, f \in {entry, other} :
           e \in record.outbox /\ ~ Decided(e, response) =>
             ~ \E local \in Pending(record) :
                    /\ local.proposal = f.proposal
                    /\ \E d \in DecisionsIn(response) : Match(local, d)
    BY <1>2, <2>1 DEF Pending, Decided
  <2>5. CASE entry \in record.outbox /\ other \in record.outbox
    BY <1>2, <2>1, <2>5
  <2>6. CASE entry.status = "accepted" /\ other.status = "accepted"
    <3>1. /\ entry \in AcceptedEntry /\ other \in AcceptedEntry
      BY <2>2, <2>6 DEF OutboxEntry, PendingEntry
    <3>2. /\ entry.sequence = other.sequence
          /\ entry.operation = other.operation
      BY <1>1, <1>2, <2>6, AfterDecisions
    <3>. QED
      BY <1>2, <2>6, <3>1, <3>2 DEF AcceptedEntry
  <2>. QED
    BY <2>3, <2>4, <2>5, <2>6
<1>3. ASSUME NEW entry \in next.outbox,
             NEW i \in 1..next.confirmedSequence
      PROVE  log[i].operationId # entry.proposal.operationId
  <2>1. CASE i > record.confirmedSequence
    <3>1. PICK j \in Visible(record, response) : response.entries[j] = log[i]
      BY <1>0, <2>1, PageCovers
    <3>2. ~ Confirms(response.entries[j], entry)
      BY <1>1 DEF OutboxAfterEntries
    <3>. QED
      BY <3>1, <3>2 DEF Confirms
  <2>2. CASE ~ (i > record.confirmedSequence)
    <3>1. i \in 1..record.confirmedSequence
      BY <2>2, PagePositions
    <3>. QED
      BY <1>1, <3>1, AfterDecisions
  <2>. QED
    BY <2>1, <2>2
<1>4. \A entry \in next.outbox :
         /\ entry \in OutboxEntry
         /\ entry.proposal \in issued
         /\ entry.proposal.clientId = client
         /\ entry.status = "accepted" =>
              /\ entry.proposal.operationId \in DOMAIN decisions
              /\ LET decision == decisions[entry.proposal.operationId].decision
                 IN  /\ decision.status = "accepted"
                     /\ decision.sequence = entry.sequence
                     /\ decision.operation = entry.operation
  BY <1>1, AfterDecisions
<1>. QED
  BY <1>2, <1>3, <1>4 DEF OutboxSound

\* What leaves the outbox is rejected or confirmed.
LEMMA MergedSettled ==
  ASSUME NEW client, NEW record, NEW done, NEW response,
         MergeContext(client, record, done, response),
         NEW next, next = Merged(record, response)
  PROVE  SettledSound(client, next)
<1>0. /\ next.outbox = OutboxAfterMerge(record, response)
      /\ next.confirmedSequence = ConfirmedThrough(record, response)
      /\ next.nextClientSequence = record.nextClientSequence
  BY DEF Merged
<1>1. \A i \in 1..record.confirmedSequence : i \in 1..next.confirmedSequence
  BY PagePositions, MergedPrefix
<1>2. SUFFICES ASSUME NEW p \in issued, p.clientId = client
      PROVE  /\ p.clientSequence < next.nextClientSequence
             /\ \/ \E entry \in next.outbox : entry.proposal = p
                \/ RejectedForever(p)
                \/ \E i \in 1..next.confirmedSequence :
                       log[i].operationId = p.operationId
  BY DEF SettledSound
<1>3. /\ p.clientSequence < record.nextClientSequence
      /\ \/ \E entry \in record.outbox : entry.proposal = p
         \/ RejectedForever(p)
         \/ \E i \in 1..record.confirmedSequence :
                log[i].operationId = p.operationId
  BY <1>2 DEF MergeContext, RecordSound, SettledSound
<1>4. ASSUME NEW entry \in OutboxAfterDecisions(record, response),
             entry.proposal = p
      PROVE  \/ \E e \in next.outbox : e.proposal = p
             \/ \E i \in 1..next.confirmedSequence :
                    log[i].operationId = p.operationId
  BY <1>0, <1>4, KeptOrConfirmed
<1>5. ASSUME NEW entry \in record.outbox, entry.proposal = p
      PROVE  \/ \E e \in next.outbox : e.proposal = p
             \/ RejectedForever(p)
             \/ \E i \in 1..next.confirmedSequence :
                    log[i].operationId = p.operationId
  <2>1. CASE ~ Decided(entry, response)
    <3>1. entry \in OutboxAfterDecisions(record, response)
      BY <2>1 DEF OutboxAfterDecisions
    <3>. QED
      BY <1>4, <1>5, <3>1
  <2>2. CASE Decided(entry, response)
    <3>1. PICK d \in DecisionsIn(response) : Match(entry, d)
      BY <2>2 DEF Decided
    <3>2. /\ p.operationId \in DOMAIN decisions
          /\ decisions[p.operationId].decision = d
          /\ d \in ProposalDecision
      BY <1>5, <3>1 DEF MergeContext, Match
    <3>3. CASE d.status = "rejected"
      BY <3>2, <3>3 DEF RejectedForever
    <3>4. CASE d.status = "accepted"
      <4>1. entry \in Pending(record)
        BY <2>2 DEF Decided, Pending
      <4>2. AcceptedBy(entry, d) \in OutboxAfterDecisions(record, response)
        BY <3>1, <3>4, <4>1 DEF OutboxAfterDecisions
      <4>3. AcceptedBy(entry, d).proposal = p
        BY <1>5 DEF AcceptedBy
      <4>. QED
        BY <1>4, <4>2, <4>3
    <3>5. d.status \in {"accepted", "rejected"}
      BY <3>2 DEF ProposalDecision, AcceptedDecision, RejectedDecision
    <3>. QED
      BY <3>3, <3>4, <3>5
  <2>. QED
    BY <2>1, <2>2
<1>. QED
  BY <1>0, <1>1, <1>3, <1>5

\* The inbox gains exactly the outcomes of what stopped being pending.
LEMMA MergedInbox ==
  ASSUME NEW client, NEW record, NEW done, NEW response,
         MergeContext(client, record, done, response),
         NEW next, next = Merged(record, response)
  PROVE  /\ next.resolutions \subseteq ProposalDecision
         /\ InboxSound(client, next, done)
<1> DEFINE new == NewlyResolved(record, response)
<1>0. /\ next.outbox = OutboxAfterMerge(record, response)
      /\ next.resolutions = record.resolutions \cup
            {d \in new : \A r \in record.resolutions :
                             r.operationId # d.operationId}
  BY DEF Merged, ResolutionsAfterMerge
<1>1. InboxSound(client, record, done)
      /\ record.resolutions \subseteq ProposalDecision
  BY DEF MergeContext, RecordSound, ReplicaRecord
<1>2. \A e \in record.outbox : e.proposal \in issued
                               /\ e.proposal.clientId = client
  BY DEF MergeContext, RecordSound, OutboxSound
<1>3. \A e \in Pending(record) :
         e \in record.outbox /\
         e.proposal.operationId \notin Told(record) \cup done
  <2>1. \A e \in Pending(record) : e \in record.outbox
    BY DEF Pending
  <2>. QED
    BY <1>1, <1>2, <2>1 DEF InboxSound
\* Entries that the walk over the decisions left pending.
<1>4. ASSUME NEW e \in OutboxAfterDecisions(record, response),
             e.status = "pending"
      PROVE  e \in Pending(record) /\ ~ Decided(e, response)
  BY <1>4, AfterDecisions DEF Pending
<1>5. ASSUME NEW d \in new
      PROVE  /\ d \in ProposalDecision
             /\ d.operationId \in DOMAIN decisions
             /\ decisions[d.operationId].decision = d
             /\ \E e \in Pending(record) :
                    e.proposal.operationId = d.operationId
  <2>1. CASE d \in DecisionsIn(response) /\
             \E e \in Pending(record) : Match(e, d)
    BY <2>1 DEF MergeContext, Match
  <2>2. ASSUME NEW i \in Visible(record, response),
               NEW e \in OutboxAfterDecisions(record, response),
               e.status = "pending", Confirms(response.entries[i], e),
               d = AcceptedFor(response.entries[i])
        PROVE  /\ d \in ProposalDecision
               /\ d.operationId \in DOMAIN decisions
               /\ decisions[d.operationId].decision = d
               /\ \E l \in Pending(record) :
                      l.proposal.operationId = d.operationId
    <3>k. PICK k : k = response.entries[i].sequence
      OBVIOUS
    <3>1. k \in 1..Len(log) /\ response.entries[i] = log[k]
      BY <3>k, PageCovers
    <3>2. /\ log[k].operationId \in DOMAIN decisions
          /\ decisions[log[k].operationId].decision = AcceptedFor(log[k])
      BY <3>1 DEF MergeContext, LogSound
    <3>3. d.operationId = log[k].operationId
      BY <2>2, <3>1 DEF AcceptedFor
    <3>4. e.proposal.operationId = d.operationId
      BY <2>2, <3>1, <3>3 DEF Confirms
    <3>5. d \in ProposalDecision
      <4>1. log[k] \in CommittedOperation
        BY <3>1, ElementOfSeq DEF MergeContext, TypeOK
      <4>. QED
        BY <2>2, <3>1, <4>1 DEF AcceptedFor, ProposalDecision,
           AcceptedDecision, CommittedOperation
    <3>. QED
      BY <1>4, <2>2, <3>1, <3>2, <3>3, <3>4, <3>5
  <2>3. \/ d \in DecisionsIn(response) /\
           \E e \in Pending(record) : Match(e, d)
        \/ \E i \in Visible(record, response) :
           \E e \in OutboxAfterDecisions(record, response) :
              /\ e.status = "pending"
              /\ Confirms(response.entries[i], e)
              /\ d = AcceptedFor(response.entries[i])
    BY DEF NewlyResolved, AcceptedFor
  <2>. QED
    BY <2>1, <2>2, <2>3
<1>6. \A d \in new : d.operationId \in Told(next)
  BY <1>0 DEF Told
<1>7. Told(record) \subseteq Told(next)
  BY <1>0 DEF Told
<1>8. \A id \in Told(next) : \/ id \in Told(record)
                             \/ \E d \in new : d.operationId = id
  BY <1>0 DEF Told
<1>9. ASSUME NEW d \in next.resolutions
      PROVE  /\ d \in ProposalDecision
             /\ d.operationId \in DOMAIN decisions
             /\ decisions[d.operationId].decision = d
             /\ d.operationId \notin done
  BY <1>0, <1>1, <1>3, <1>5 DEF InboxSound
<1>10. ASSUME NEW e \in Pending(next)
       PROVE  /\ e \in Pending(record)
              /\ e.proposal.operationId \notin Told(next)
  <2>1. /\ e \in OutboxAfterEntries(record, response)
        /\ e \in OutboxAfterDecisions(record, response)
        /\ e.status = "pending"
    BY <1>0 DEF Pending, OutboxAfterMerge, OutboxAfterEntries
  <2>2. e \in Pending(record) /\ ~ Decided(e, response)
    BY <1>4, <2>1
  <2>3. ASSUME NEW d \in new, d.operationId = e.proposal.operationId
        PROVE  FALSE
    <3>1. CASE d \in DecisionsIn(response)
      BY <2>1, <2>2, <2>3, <3>1 DEF Decided, Match
    <3>2. CASE \E i \in Visible(record, response) :
                  d.operationId = response.entries[i].operationId
      BY <2>1, <2>3, <3>2 DEF OutboxAfterEntries, Confirms
    <3>. QED
      BY <3>1, <3>2 DEF NewlyResolved
  <2>. QED
    BY <1>3, <1>8, <2>2, <2>3
<1>11. ASSUME NEW e \in Pending(record), e \notin Pending(next)
       PROVE  e.proposal.operationId \in Told(next)
  <2>0. e \in record.outbox /\ e.status = "pending"
    BY DEF Pending
  <2>1. CASE Decided(e, response)
    <3>1. PICK d \in DecisionsIn(response) : Match(e, d)
      BY <2>1 DEF Decided
    <3>2. d \in new
      BY <3>1 DEF NewlyResolved
    <3>. QED
      BY <1>6, <3>1, <3>2 DEF Match
  <2>2. CASE ~ Decided(e, response)
    <3>1. e \in OutboxAfterDecisions(record, response)
      BY <2>0, <2>2 DEF OutboxAfterDecisions
    <3>2. e \notin OutboxAfterEntries(record, response)
      BY <1>0, <1>11, <2>0 DEF OutboxAfterMerge, Pending
    <3>3. PICK i \in Visible(record, response) :
              Confirms(response.entries[i], e)
      BY <3>1, <3>2 DEF OutboxAfterEntries
    <3>4. AcceptedFor(response.entries[i]) \in new
      BY <2>0, <3>1, <3>3 DEF NewlyResolved, AcceptedFor
    <3>5. AcceptedFor(response.entries[i]).operationId =
              e.proposal.operationId
      BY <3>3 DEF AcceptedFor, Confirms
    <3>. QED
      BY <1>6, <3>4, <3>5
  <2>. QED
    BY <2>1, <2>2
<1>12. ASSUME NEW p \in issued, p.clientId = client
       PROVE  (\E e \in Pending(next) : e.proposal = p) <=>
                  p.operationId \notin Told(next) \cup done
  <2>1. (\E e \in Pending(record) : e.proposal = p) <=>
            p.operationId \notin Told(record) \cup done
    BY <1>1, <1>12 DEF InboxSound
  <2>2. ASSUME NEW e \in Pending(next), e.proposal = p
        PROVE  p.operationId \notin Told(next) \cup done
    BY <1>3, <1>10, <2>2
  <2>3. ASSUME p.operationId \notin Told(next) \cup done
        PROVE  \E e \in Pending(next) : e.proposal = p
    BY <1>7, <1>11, <2>1, <2>3
  <2>. QED
    BY <2>2, <2>3
<1>. QED
  BY <1>1, <1>9, <1>12 DEF InboxSound

\* The merged record is sound, and its position has not gone back.
LEMMA MergedRecordSound ==
  ASSUME NEW client, NEW record, NEW done, NEW response,
         MergeContext(client, record, done, response),
         NEW next, next = Merged(record, response)
  PROVE  /\ RecordSound(client, next, done)
         /\ record.confirmedSequence <= next.confirmedSequence
<1>1. next \in ReplicaRecord
  <2>1. record.nextClientSequence \in ClientSequence
    BY PagePositions DEF ReplicaRecord
  <2>. QED
    BY <2>1, MergedPrefix, MergedOutbox, MergedInbox DEF ReplicaRecord, Merged
<1>. QED
  BY <1>1, MergedPrefix, MergedOutbox, MergedSettled, MergedInbox
     DEF RecordSound

\* MergeSyncResponse.
LEMMA MergeStepIInv == IInv /\ MergeStep => IInv'
<1> SUFFICES ASSUME IInv, NEW response \in responses,
                    MergeSyncResponse(response)
             PROVE  IInv'
  BY DEF MergeStep
<1>c. PICK client : client = response.replica
  OBVIOUS
<1>r. PICK record : record = replicas[client]
  OBVIOUS
<1>n. PICK next : next = Merged(record, response)
  OBVIOUS
<1>d. PICK done : done = acknowledged[client]
  OBVIOUS
<1>1. MergeContext(client, record, done, response)
  BY <1>c, <1>r, <1>d, MergeHasContext
<1>2. /\ client \in Clients /\ TypeOK
      /\ RecordSound(client, next, done)
      /\ record.confirmedSequence <= next.confirmedSequence
  BY <1>1, <1>n, MergedRecordSound DEF MergeContext
<1>3. ~ MergeRefused(record, response)
  BY <1>1, MergeNotRefused
<1>4. UpdateAllowed(client, next)
  BY <1>2, SoundUpdateAllowed
<1>5. /\ replicas' = [replicas EXCEPT ![client] = next]
      /\ UNCHANGED <<authorityVars, networkVars, issued, acknowledged, failures>>
  BY <1>c, <1>r, <1>n, <1>3, <1>4 DEF MergeSyncResponse, StoreRecord
<1>6. /\ acknowledged' = [acknowledged EXCEPT ![client] = done]
      /\ done \in SUBSET OperationIds
  BY <1>d, <1>2, <1>5 DEF TypeOK
<1>. QED
  BY <1>r, <1>2, <1>5, <1>6, StoreStep

-----------------------------------------------------------------------------
(***************************************************************************)
(* A call of synchronize, on a request however old: it is never refused,   *)
(* its response is valid, and publishing the batch preserves IInv.         *)
(***************************************************************************)

\* LogSound and DecisionsSound, of any log and any decision table.
LogAgrees(l, d) ==
    \A i \in 1..Len(l) :
        /\ l[i].sequence = i
        /\ l[i].operationId \in DOMAIN d
        /\ d[l[i].operationId].decision = AcceptedFor(l[i])
        /\ OriginOf(d[l[i].operationId].identity) = l[i].origin

TableAgrees(l, d) ==
    \A id \in DOMAIN d :
        /\ d[id].identity \in issued
        /\ d[id].identity.operationId = id
        /\ d[id].decision.operationId = id
        /\ d[id].decision.status = "accepted" =>
               /\ d[id].decision.sequence \in 1..Len(l)
               /\ l[d[id].decision.sequence].operationId = id

\* Two entries of such a log never share an operation or a client position.
LEMMA AgreementDistinct ==
  ASSUME IssuedSound, NEW l, NEW d, LogAgrees(l, d), TableAgrees(l, d),
         NEW i \in 1..Len(l), NEW j \in 1..Len(l), i # j
  PROVE  /\ l[i].operationId # l[j].operationId
         /\ ~ SamePosition(l[i].origin, l[j].origin)
<1> DEFINE p == d[l[i].operationId].identity
           q == d[l[j].operationId].identity
<1>1. /\ p \in issued /\ q \in issued
      /\ p.operationId = l[i].operationId /\ q.operationId = l[j].operationId
      /\ OriginOf(p) = l[i].origin /\ OriginOf(q) = l[j].origin
      /\ l[i].sequence = i /\ l[j].sequence = j
      /\ d[l[i].operationId].decision = AcceptedFor(l[i])
      /\ d[l[j].operationId].decision = AcceptedFor(l[j])
  BY DEF LogAgrees, TableAgrees
<1>2. l[i].operationId # l[j].operationId
  BY <1>1 DEF AcceptedFor
<1>3. SamePosition(l[i].origin, l[j].origin) => SamePosition(p, q)
  BY <1>1 DEF SamePosition, OriginOf
<1>. QED
  BY <1>1, <1>2, <1>3 DEF IssuedSound

-----------------------------------------------------------------------------
(* The batch. *)

\* No request is refused: its base is on the log, and whatever it repeats
\* was decided for the very same proposal.
LEMMA RequestAccepted ==
  ASSUME IInv, NEW request \in requests
  PROVE  ~ RequestRefused(log, decisions, request)
<1>0. /\ TypeOK /\ DecisionsSound /\ IssuedSound /\ RequestSound(request)
      /\ request \in SyncRequest /\ request.replica \in Clients
      /\ request.baseSequence \in Nat
      /\ DOMAIN request.proposals = 1..Len(request.proposals)
  BY DEF IInv, TypeOK, SyncRequest
<1>1. ~ (request.baseSequence > Len(log))
  <2>1. /\ replicas[request.replica] \in ReplicaRecord
        /\ replicas[request.replica].confirmedSequence <= Len(log)
        /\ request.baseSequence <= replicas[request.replica].confirmedSequence
    BY <1>0 DEF IInv, RecordSound, PrefixSound, RequestSound
  <2>2. /\ replicas[request.replica].confirmedSequence \in Nat
        /\ Len(log) \in Nat
    BY <1>0, <2>1 DEF ReplicaRecord, TypeOK
  <2>. QED
    BY <1>0, <2>1, <2>2
<1>2. ASSUME NEW i \in DOMAIN request.proposals
      PROVE  ~ ProposalConflict(decisions, request.proposals[i])
  <2>1. request.proposals[i] \in issued
    BY <1>0 DEF RequestSound
  <2>2. \A id \in DOMAIN decisions :
           /\ decisions[id].identity \in issued
           /\ decisions[id].identity.operationId = id
    BY <1>0 DEF DecisionsSound
  <2>. QED
    BY <1>0, <2>1, <2>2 DEF ProposalConflict, IssuedSound
<1>. QED
  BY <1>0, <1>1, <1>2 DEF RequestRefused, RequestSound

\* What one batch makes of the log and of the decision table.
Batch(request, count, accepted, drafts, nextLog, nextDecisions) ==
    LET proposals == request.proposals
        new == Undecided(decisions, proposals) IN
    /\ count \in Nat
    /\ accepted \in [1..count -> new]
    /\ InRequestOrder(accepted, count)
    /\ nextLog \in Seq(CommittedOperation)
    /\ Len(nextLog) = Len(log) + count
    /\ \A k \in 1..Len(log) : nextLog[k] = log[k]
    /\ \A j \in 1..count :
           nextLog[Len(log) + j] =
               CommittedEntry(proposals[accepted[j]], Len(log) + j, drafts[j])
    /\ DOMAIN nextDecisions = DOMAIN decisions \cup
                                  {proposals[i].operationId : i \in new}
    /\ \A id \in DOMAIN decisions : nextDecisions[id] = decisions[id]
    /\ \A i \in new :
           /\ nextDecisions[proposals[i].operationId].identity = proposals[i]
           /\ \/ \E j \in 1..count :
                    /\ accepted[j] = i
                    /\ nextDecisions[proposals[i].operationId].decision =
                           AcceptedFor(nextLog[Len(log) + j])
              \/ nextDecisions[proposals[i].operationId].decision =
                     RejectedFor(proposals[i].operationId)
    /\ \A j \in 1..count :
           nextDecisions[proposals[accepted[j]].operationId].decision =
               AcceptedFor(nextLog[Len(log) + j])

\* What a sound request says of its proposals.
LEMMA RequestFacts ==
  ASSUME IInv, NEW request \in requests
  PROVE  /\ Len(request.proposals) \in Nat
         /\ DOMAIN request.proposals = 1..Len(request.proposals)
         /\ request.replica \in Clients
         /\ \A i \in DOMAIN request.proposals :
              /\ request.proposals[i] \in issued
              /\ request.proposals[i] \in Proposal
              /\ request.proposals[i].clientId = request.replica
         /\ \A i, j \in DOMAIN request.proposals :
              request.proposals[i].operationId = request.proposals[j].operationId
                => i = j
<1>1. /\ request \in SyncRequest /\ RequestSound(request)
      /\ issued \subseteq Proposal
  BY DEF IInv, TypeOK
<1>2. /\ Len(request.proposals) \in Nat
      /\ DOMAIN request.proposals = 1..Len(request.proposals)
      /\ request.replica \in Clients
  BY <1>1 DEF SyncRequest
<1>3. \A i \in DOMAIN request.proposals :
         /\ request.proposals[i] \in issued
         /\ request.proposals[i] \in Proposal
         /\ request.proposals[i].clientId = request.replica
  BY <1>1, <1>2 DEF RequestSound
<1>4. ASSUME NEW i \in DOMAIN request.proposals,
             NEW j \in DOMAIN request.proposals,
             request.proposals[i].operationId =
                 request.proposals[j].operationId
      PROVE  i = j
  <2>1. AssertProposalBatch(request.proposals)
    BY <1>1 DEF RequestSound, AssertSyncRequest
  <2>2. ~ (i < j) /\ ~ (j < i)
    BY <1>4, <2>1 DEF AssertProposalBatch
  <2>. QED
    BY <1>2, <2>2
<1>. QED
  BY <1>2, <1>3, <1>4

\* The staged entries are the accepted proposals at the next positions.
LEMMA StagedFacts ==
  ASSUME IInv, NEW request \in requests,
         NEW count \in Nat,
         NEW accepted \in [1..count -> Undecided(decisions, request.proposals)],
         NEW drafts \in [1..count -> Operations],
         NEW staged,
         staged = StagedEntries(log, request.proposals, accepted, drafts, count)
  PROVE  /\ staged \in Seq(CommittedOperation)
         /\ Len(staged) = count /\ DOMAIN staged = 1..count
         /\ \A j \in 1..count :
              /\ accepted[j] \in DOMAIN request.proposals
              /\ staged[j] = CommittedEntry(request.proposals[accepted[j]],
                                            Len(log) + j, drafts[j])
              /\ staged[j].operationId =
                     request.proposals[accepted[j]].operationId
<1>1. \A j \in 1..count : accepted[j] \in DOMAIN request.proposals
  BY DEF Undecided
<1>2. ASSUME NEW j \in 1..count
      PROVE  CommittedEntry(request.proposals[accepted[j]],
                            Len(log) + j, drafts[j]) \in CommittedOperation
  <2>1. request.proposals[accepted[j]] \in Proposal
    BY <1>1, RequestFacts
  <2>2. Len(log) + j \in LogSequence /\ drafts[j] \in Operations
    BY DEF LogSequence, IInv, TypeOK
  <2>. QED
    BY <2>1, <2>2 DEF CommittedEntry, CommittedOperation, OriginOf,
       OperationOrigin, Proposal
<1>3. staged = [j \in 1..count |->
                  CommittedEntry(request.proposals[accepted[j]],
                                 Len(log) + j, drafts[j])]
  BY DEF StagedEntries
<1>4. staged \in Seq(CommittedOperation)
  BY <1>2, <1>3, SeqDef
<1>5. Len(staged) = count /\ DOMAIN staged = 1..count
  BY <1>3, <1>4
<1>. QED
  BY <1>1, <1>3, <1>4, <1>5 DEF CommittedEntry

\* One call of synchronize appends and decides a batch, as Batch says.
LEMMA BatchFacts ==
  ASSUME IInv, NEW request \in requests,
         NEW count \in Nat,
         NEW accepted \in [1..count -> Undecided(decisions, request.proposals)],
         NEW drafts \in [1..count -> Operations],
         InRequestOrder(accepted, count),
         NEW staged,
         staged = StagedEntries(log, request.proposals, accepted, drafts, count),
         NEW nextLog, nextLog = log \o staged,
         NEW nextDecisions,
         nextDecisions = DecisionsAfter(decisions, request.proposals, staged)
  PROVE  Batch(request, count, accepted, drafts, nextLog, nextDecisions)
<1>p. PICK proposals : proposals = request.proposals
  OBVIOUS
<1>n. PICK new : new = Undecided(decisions, proposals)
  OBVIOUS
<1>h. PICK head : head = Len(log)
  OBVIOUS
<1>1. /\ staged \in Seq(CommittedOperation)
      /\ Len(staged) = count /\ DOMAIN staged = 1..count
      /\ \A j \in 1..count :
           /\ accepted[j] \in new
           /\ staged[j] = CommittedEntry(proposals[accepted[j]],
                                         head + j, drafts[j])
           /\ staged[j].operationId = proposals[accepted[j]].operationId
  <2>1. /\ staged \in Seq(CommittedOperation)
        /\ Len(staged) = count /\ DOMAIN staged = 1..count
        /\ \A j \in 1..count :
             /\ accepted[j] \in DOMAIN request.proposals
             /\ staged[j] = CommittedEntry(request.proposals[accepted[j]],
                                           Len(log) + j, drafts[j])
             /\ staged[j].operationId =
                    request.proposals[accepted[j]].operationId
    BY StagedFacts
  <2>2. \A j \in 1..count : accepted[j] \in new
    BY <1>p, <1>n
  <2>. QED
    BY <1>p, <1>h, <2>1, <2>2
<1>2. /\ new \subseteq DOMAIN proposals
      /\ \A i \in new : proposals[i].operationId \notin DOMAIN decisions
      /\ \A i, j \in new :
           proposals[i].operationId = proposals[j].operationId => i = j
  BY <1>p, <1>n, RequestFacts DEF Undecided
<1>3. log \in Seq(CommittedOperation) /\ head \in Nat
  BY <1>h DEF IInv, TypeOK
<1>4. /\ nextLog \in Seq(CommittedOperation)
      /\ Len(nextLog) = head + count
      /\ \A k \in 1..head + count :
            nextLog[k] = IF k <= head THEN log[k] ELSE staged[k - head]
  <2>1. /\ log \o staged \in Seq(CommittedOperation)
        /\ Len(log \o staged) = Len(log) + Len(staged)
        /\ \A k \in 1..Len(log) + Len(staged) :
              (log \o staged)[k] =
                 IF k <= Len(log) THEN log[k] ELSE staged[k - Len(log)]
    <3>1. log \in Seq(CommittedOperation) /\ staged \in Seq(CommittedOperation)
      BY <1>1, <1>3
    <3>. QED
      BY <3>1, ConcatProperties
  <2>. QED
    BY <1>h, <1>1, <2>1
<1>5. \A k \in 1..head : nextLog[k] = log[k]
  BY <1>3, <1>4
<1>6. ASSUME NEW j \in 1..count
      PROVE  nextLog[head + j] = staged[j]
  <2>1. /\ head + j \in 1..head + count /\ ~ (head + j <= head)
        /\ (head + j) - head = j
    BY <1>3
  <2>. QED
    BY <1>4, <2>1
<1>7. /\ DOMAIN nextDecisions = DOMAIN decisions \cup
                                  {proposals[i].operationId : i \in new}
      /\ \A id \in DOMAIN decisions : nextDecisions[id] = decisions[id]
  BY <1>p, <1>n DEF DecisionsAfter
<1>8. ASSUME NEW i \in new
      PROVE  /\ nextDecisions[proposals[i].operationId].identity = proposals[i]
             /\ nextDecisions[proposals[i].operationId].decision =
                    StagedDecision(proposals[i].operationId, staged)
  <2>1. (CHOOSE k \in new : proposals[k].operationId = proposals[i].operationId)
            = i
    BY <1>2
  <2>. QED
    BY <1>p, <1>n, <1>2, <1>7, <2>1 DEF DecisionsAfter
<1>9. ASSUME NEW j \in 1..count
      PROVE  StagedDecision(proposals[accepted[j]].operationId, staged) =
                 AcceptedFor(staged[j])
  <2> DEFINE id == proposals[accepted[j]].operationId
             chosen == CHOOSE k \in DOMAIN staged : staged[k].operationId = id
  <2>1. staged[j].operationId = id /\ j \in DOMAIN staged
    BY <1>1
  <2>2. chosen \in DOMAIN staged /\ staged[chosen].operationId = id
    BY <2>1
  <2> HIDE DEF chosen
  <2>3. accepted[chosen] = accepted[j]
    BY <1>1, <1>2, <2>2
  <2>4. chosen = j
    <3>1. /\ accepted[j] \in DOMAIN proposals
          /\ DOMAIN proposals = 1..Len(proposals)
      BY <1>p, <1>1, <1>2, RequestFacts
    <3>2. accepted[j] \in Int
      BY <3>1
    <3>3. chosen \in 1..count
      BY <1>1, <2>2
    <3>4. ~ (chosen < j) /\ ~ (j < chosen)
      BY <2>3, <3>2, <3>3 DEF InRequestOrder
    <3>. QED
      BY <3>3, <3>4
  <2>. QED
    BY <2>1, <2>4 DEF StagedDecision, chosen
<1>10. ASSUME NEW i \in new
       PROVE  \/ \E j \in 1..count :
                    /\ accepted[j] = i
                    /\ StagedDecision(proposals[i].operationId, staged) =
                           AcceptedFor(staged[j])
              \/ StagedDecision(proposals[i].operationId, staged) =
                     RejectedFor(proposals[i].operationId)
  <2>1. CASE \E j \in 1..count : accepted[j] = i
    BY <1>9, <2>1
  <2>2. CASE ~ \E j \in 1..count : accepted[j] = i
    <3>1. ~ \E j \in DOMAIN staged :
                 staged[j].operationId = proposals[i].operationId
      BY <1>1, <1>2, <2>2
    <3>. QED
      BY <3>1 DEF StagedDecision
  <2>. QED
    BY <2>1, <2>2
<1>11. \A j \in 1..count :
          nextLog[head + j] = CommittedEntry(proposals[accepted[j]],
                                             head + j, drafts[j])
  BY <1>1, <1>6
<1>12. \A i \in new :
          \/ \E j \in 1..count :
               /\ accepted[j] = i
               /\ nextDecisions[proposals[i].operationId].decision =
                      AcceptedFor(nextLog[head + j])
          \/ nextDecisions[proposals[i].operationId].decision =
                 RejectedFor(proposals[i].operationId)
  BY <1>6, <1>8, <1>10
<1>13. \A j \in 1..count :
          nextDecisions[proposals[accepted[j]].operationId].decision =
              AcceptedFor(nextLog[head + j])
  BY <1>1, <1>6, <1>8, <1>9
<1>. QED
  <2>1. /\ InRequestOrder(accepted, count)
        /\ accepted \in [1..count -> new]
    BY <1>p, <1>n
  <2>2. \A i \in new :
           /\ nextDecisions[proposals[i].operationId].identity = proposals[i]
           /\ \/ \E j \in 1..count :
                    /\ accepted[j] = i
                    /\ nextDecisions[proposals[i].operationId].decision =
                           AcceptedFor(nextLog[head + j])
              \/ nextDecisions[proposals[i].operationId].decision =
                     RejectedFor(proposals[i].operationId)
    BY <1>8, <1>12
  <2>3. DOMAIN nextDecisions = DOMAIN decisions \cup
            {request.proposals[i].operationId :
                 i \in Undecided(decisions, request.proposals)}
    BY <1>p, <1>n, <1>7
  <2>4. /\ \A k \in 1..Len(log) : nextLog[k] = log[k]
        /\ Len(nextLog) = Len(log) + count
        /\ \A j \in 1..count :
              nextLog[Len(log) + j] =
                  CommittedEntry(request.proposals[accepted[j]],
                                 Len(log) + j, drafts[j])
    BY <1>p, <1>h, <1>4, <1>5, <1>11
  <2>5. \A j \in 1..count :
           nextDecisions[request.proposals[accepted[j]].operationId].decision =
               AcceptedFor(nextLog[Len(log) + j])
    BY <1>p, <1>h, <1>13
  <2>6. \A i \in Undecided(decisions, request.proposals) :
           LET id == request.proposals[i].operationId IN
           /\ nextDecisions[id].identity = request.proposals[i]
           /\ \/ \E j \in 1..count :
                    /\ accepted[j] = i
                    /\ nextDecisions[id].decision =
                           AcceptedFor(nextLog[Len(log) + j])
              \/ nextDecisions[id].decision = RejectedFor(id)
    BY <1>p, <1>n, <1>h, <2>2
  <2>. QED
    BY <1>4, <1>7, <2>3, <2>4, <2>5, <2>6 DEF Batch

-----------------------------------------------------------------------------
(* The log and the decision table after a batch. *)

\* Log and table still name each other after a batch.
LEMMA BatchLog ==
  ASSUME IInv, NEW request \in requests, NEW count, NEW accepted, NEW drafts,
         NEW l, NEW d, Batch(request, count, accepted, drafts, l, d)
  PROVE  LogAgrees(l, d) /\ TableAgrees(l, d)
<1>h. PICK head : head = Len(log)
  OBVIOUS
<1>p. PICK proposals : proposals = request.proposals
  OBVIOUS
<1>n. PICK new : new = Undecided(decisions, proposals)
  OBVIOUS
<1>1. /\ head \in Nat /\ count \in Nat /\ Len(l) = head + count
      /\ \A k \in 1..head : l[k] = log[k]
      /\ LogSound /\ DecisionsSound
  BY <1>h DEF Batch, IInv, TypeOK
<1>2. \A j \in 1..count :
        /\ accepted[j] \in new
        /\ l[head + j] = CommittedEntry(proposals[accepted[j]],
                                        head + j, drafts[j])
        /\ d[proposals[accepted[j]].operationId].decision =
               AcceptedFor(l[head + j])
  BY <1>h, <1>p, <1>n DEF Batch
<1>3. /\ \A id \in DOMAIN decisions : id \in DOMAIN d /\ d[id] = decisions[id]
      /\ \A id \in DOMAIN d : \/ id \in DOMAIN decisions
                              \/ \E i \in new : id = proposals[i].operationId
      /\ \A i \in new : proposals[i].operationId \in DOMAIN d
  BY <1>p, <1>n DEF Batch
<1>4. \A i \in new :
        /\ proposals[i] \in issued
        /\ d[proposals[i].operationId].identity = proposals[i]
        /\ \/ \E j \in 1..count :
                 /\ accepted[j] = i
                 /\ d[proposals[i].operationId].decision =
                        AcceptedFor(l[head + j])
           \/ d[proposals[i].operationId].decision =
                  RejectedFor(proposals[i].operationId)
  <2>1. \A i \in new : proposals[i] \in issued
    BY <1>p, <1>n, RequestFacts DEF Undecided
  <2>2. \A i \in new :
          /\ d[proposals[i].operationId].identity = proposals[i]
          /\ \/ \E j \in 1..count :
                   /\ accepted[j] = i
                   /\ d[proposals[i].operationId].decision =
                          AcceptedFor(l[head + j])
             \/ d[proposals[i].operationId].decision =
                    RejectedFor(proposals[i].operationId)
    BY <1>h, <1>p, <1>n DEF Batch
  <2>. QED
    BY <2>1, <2>2
<1>5. ASSUME NEW i \in 1..Len(l)
      PROVE  /\ l[i].sequence = i
             /\ l[i].operationId \in DOMAIN d
             /\ d[l[i].operationId].decision = AcceptedFor(l[i])
             /\ OriginOf(d[l[i].operationId].identity) = l[i].origin
  <2>1. CASE i \in 1..head
    <3>1. l[i] = log[i]
      BY <1>1, <2>1
    <3>. QED
      BY <1>h, <1>1, <1>3, <2>1, <3>1 DEF LogSound
  <2>2. CASE i \notin 1..head
    <3>1. PICK j \in 1..count : i = head + j
      <4>1. i - head \in 1..count /\ i = head + (i - head)
        BY <1>1, <2>2
      <4>. QED
        BY <4>1
    <3>2. /\ l[i].sequence = i
          /\ l[i].operationId = proposals[accepted[j]].operationId
          /\ l[i].origin = OriginOf(proposals[accepted[j]])
      <4>1. l[i] = CommittedEntry(proposals[accepted[j]], i, drafts[j])
        BY <1>2, <3>1
      <4>. QED
        BY <4>1 DEF CommittedEntry
    <3>. QED
      BY <1>2, <1>3, <1>4, <3>1, <3>2
  <2>. QED
    BY <2>1, <2>2
<1>6. ASSUME NEW id \in DOMAIN d
      PROVE  /\ d[id].identity \in issued
             /\ d[id].identity.operationId = id
             /\ d[id].decision.operationId = id
             /\ d[id].decision.status = "accepted" =>
                  /\ d[id].decision.sequence \in 1..Len(l)
                  /\ l[d[id].decision.sequence].operationId = id
  <2>1. CASE id \in DOMAIN decisions
    <3>1. /\ d[id].identity \in issued
          /\ d[id].identity.operationId = id
          /\ d[id].decision.operationId = id
          /\ d[id].decision.status = "accepted" =>
               /\ d[id].decision.sequence \in 1..head
               /\ log[d[id].decision.sequence].operationId = id
      BY <1>h, <1>1, <1>3, <2>1 DEF DecisionsSound
    <3>2. \A k \in 1..head : k \in 1..Len(l)
      BY <1>1
    <3>. QED
      BY <1>1, <3>1, <3>2
  <2>2. ASSUME NEW i \in new, id = proposals[i].operationId
        PROVE  /\ d[id].identity \in issued
               /\ d[id].identity.operationId = id
               /\ d[id].decision.operationId = id
               /\ d[id].decision.status = "accepted" =>
                    /\ d[id].decision.sequence \in 1..Len(l)
                    /\ l[d[id].decision.sequence].operationId = id
    <3>1. ASSUME NEW j \in 1..count, accepted[j] = i,
                 d[id].decision = AcceptedFor(l[head + j])
          PROVE  /\ d[id].decision.operationId = id
                 /\ d[id].decision.sequence \in 1..Len(l)
                 /\ l[d[id].decision.sequence].operationId = id
      <4>1. /\ l[head + j].operationId = id /\ l[head + j].sequence = head + j
        <5>k. PICK k : k = head + j
          OBVIOUS
        <5>1. l[k] = CommittedEntry(proposals[i], k, drafts[j])
          BY <1>2, <3>1, <5>k
        <5>. QED
          BY <2>2, <5>k, <5>1 DEF CommittedEntry
      <4>2. head + j \in 1..Len(l)
        BY <1>1
      <4>. QED
        BY <3>1, <4>1, <4>2 DEF AcceptedFor
    <3>2. CASE d[id].decision = RejectedFor(id)
      BY <1>4, <2>2, <3>2 DEF RejectedFor
    <3>. QED
      BY <1>4, <2>2, <3>1, <3>2
  <2>. QED
    BY <1>3, <2>1, <2>2
<1>. QED
  BY <1>5, <1>6 DEF LogAgrees, TableAgrees

-----------------------------------------------------------------------------
(* The response of a batch. *)

\* The page a response carries of a log.
PageOf(request, response, l) ==
    /\ request.baseSequence \in Nat /\ Len(l) \in Nat
    /\ request.baseSequence <= Len(l)
    /\ response.requestedBaseSequence = request.baseSequence
    /\ response.headSequence = Len(l)
    /\ response.throughSequence \in Nat
    /\ response.throughSequence <= Len(l)
    /\ request.baseSequence <= response.throughSequence
    /\ request.baseSequence < Len(l) =>
           request.baseSequence < response.throughSequence
    /\ response.throughSequence <=
           request.baseSequence + MaximumEntriesPerResponse
    /\ response.entries \in Seq(CommittedOperation)
    /\ Len(response.entries) =
           response.throughSequence - request.baseSequence
    /\ \A i \in 1..Len(response.entries) :
         /\ request.baseSequence + i \in 1..Len(l)
         /\ response.entries[i] = l[request.baseSequence + i]

\* The page a response carries.
LEMMA PageFacts ==
  ASSUME IInv, NEW request \in requests, NEW count, NEW accepted, NEW drafts,
         NEW l, NEW d, Batch(request, count, accepted, drafts, l, d),
         NEW response, response = ResponseTo(request, l, d)
  PROVE  PageOf(request, response, l)
<1>b. PICK base : base = request.baseSequence
  OBVIOUS
<1>m. PICK asked : asked = request.maximumEntries
  OBVIOUS
<1>t. PICK through : through = PageEnd(request, Len(l))
  OBVIOUS
<1>h. PICK head : head = Len(l)
  OBVIOUS
<1>1. /\ base \in Nat /\ asked \in Nat \ {0}
      /\ MaximumEntriesPerResponse \in Nat \ {0}
  BY <1>b, <1>m, LimitsAssumption DEF IInv, TypeOK, SyncRequest, LogSequence
<1>2. /\ l \in Seq(CommittedOperation) /\ head \in Nat
      /\ base <= head
  <2>1. ~ (base > Len(log))
    BY <1>b, RequestAccepted DEF RequestRefused
  <2>2. /\ Len(log) \in Nat /\ count \in Nat /\ head = Len(log) + count
        /\ l \in Seq(CommittedOperation)
    BY <1>h DEF Batch, IInv, TypeOK
  <2>. QED
    BY <1>1, <2>1, <2>2
<1>3. /\ through \in Nat /\ base <= through /\ through <= head
      /\ base < head => base < through
      /\ through <= base + MaximumEntriesPerResponse
  <2>1. through = LET size == IF asked < MaximumEntriesPerResponse
                              THEN asked ELSE MaximumEntriesPerResponse
                  IN  IF base + size < head THEN base + size ELSE head
    BY <1>b, <1>m, <1>t, <1>h DEF PageEnd
  <2>. QED
    BY <1>1, <1>2, <2>1
<1>4. /\ response.requestedBaseSequence = base
      /\ response.headSequence = head
      /\ response.throughSequence = through
      /\ response.entries = SubSeq(l, base + 1, through)
  BY <1>b, <1>t, <1>h DEF ResponseTo
<1>5. \A i \in base + 1 .. through : l[i] \in CommittedOperation
  <2>1. \A i \in base + 1 .. through : i \in 1..head
    BY <1>1, <1>2, <1>3
  <2>. QED
    BY <1>h, <1>2, <2>1, ElementOfSeq
<1>6. /\ response.entries \in Seq(CommittedOperation)
      /\ Len(response.entries) =
             IF base + 1 <= through THEN through - (base + 1) + 1 ELSE 0
      /\ \A i \in 1..through - (base + 1) + 1 :
             response.entries[i] = l[base + 1 + i - 1]
  <2>1. base + 1 \in Int /\ through \in Int
    BY <1>1, <1>3
  <2>. QED
    BY <1>4, <1>5, <2>1, SubSeqProperties
<1>7. Len(response.entries) = through - base
  BY <1>1, <1>3, <1>6
<1>8. ASSUME NEW i \in 1..Len(response.entries)
      PROVE  base + i \in 1..head /\ response.entries[i] = l[base + i]
  <2>0. i \in 1..through - base
    BY <1>7
  <2>1. /\ i \in 1..through - (base + 1) + 1
        /\ base + 1 + i - 1 = base + i
        /\ base + i \in 1..head
    BY <1>1, <1>2, <1>3, <2>0
  <2>. QED
    BY <1>6, <2>1
<1>. QED
  BY <1>b, <1>h, <1>1, <1>2, <1>3, <1>4, <1>6, <1>7, <1>8 DEF PageOf

\* The response carries the stored decision of each of its proposals.
LEMMA ResponseDecisions ==
  ASSUME IInv, NEW request \in requests, NEW count, NEW accepted, NEW drafts,
         NEW l, NEW d, Batch(request, count, accepted, drafts, l, d),
         NEW response, response = ResponseTo(request, l, d)
  PROVE  /\ Len(response.decisions) = Len(request.proposals)
         /\ DOMAIN response.decisions = DOMAIN request.proposals
         /\ \A i \in DOMAIN response.decisions :
              LET id == request.proposals[i].operationId IN
              /\ id \in DOMAIN d
              /\ response.decisions[i] = d[id].decision
              /\ response.decisions[i].operationId = id
<1>1. /\ Len(request.proposals) \in Nat
      /\ DOMAIN request.proposals = 1..Len(request.proposals)
      /\ response.decisions = [i \in 1..Len(request.proposals) |->
                                d[request.proposals[i].operationId].decision]
  BY RequestFacts DEF ResponseTo
<1>2. ASSUME NEW i \in DOMAIN request.proposals
      PROVE  request.proposals[i].operationId \in DOMAIN d
  BY <1>2 DEF Batch, Undecided
<1>3. TableAgrees(l, d)
  BY BatchLog
<1>. QED
  BY <1>1, <1>2, <1>3 DEF TableAgrees

\* The authority's own checks of its response succeed.
LEMMA ResponseValid ==
  ASSUME IInv, NEW request \in requests, NEW count, NEW accepted, NEW drafts,
         NEW l, NEW d, Batch(request, count, accepted, drafts, l, d),
         NEW response, response = ResponseTo(request, l, d)
  PROVE  AssertSyncResponse(response) /\ AssertResponseLimits(response)
<1>b. PICK base : base = request.baseSequence
  OBVIOUS
<1>1. /\ base \in Nat /\ Len(l) \in Nat
      /\ response.requestedBaseSequence = base
      /\ response.headSequence = Len(l)
      /\ response.throughSequence \in Nat
      /\ response.throughSequence <= Len(l)
      /\ base <= response.throughSequence
      /\ base < Len(l) => base < response.throughSequence
      /\ response.throughSequence <= base + MaximumEntriesPerResponse
      /\ response.entries \in Seq(CommittedOperation)
      /\ Len(response.entries) = response.throughSequence - base
      /\ \A i \in 1..Len(response.entries) :
           base + i \in 1..Len(l) /\ response.entries[i] = l[base + i]
  BY <1>b, PageFacts DEF PageOf
<1>2. /\ DOMAIN response.entries = 1..Len(response.entries)
      /\ LogAgrees(l, d) /\ TableAgrees(l, d) /\ IssuedSound
  BY <1>1, BatchLog DEF IInv
<1>3. AssertPage(response)
  <2>1. base < Len(l) => Len(response.entries) # 0
    BY <1>1
  <2>. QED
    BY <1>1, <2>1 DEF AssertPage
<1>4. AssertEntries(response)
  <2>1. ASSUME NEW i \in 1..Len(response.entries)
        PROVE  response.entries[i].sequence = base + i
    BY <1>1, <1>2 DEF LogAgrees
  <2>2. ASSUME NEW i \in 1..Len(response.entries),
               NEW j \in 1..Len(response.entries), i # j
        PROVE  /\ response.entries[i].operationId #
                      response.entries[j].operationId
               /\ ~ SamePosition(response.entries[i].origin,
                                 response.entries[j].origin)
    <3>i. PICK m : m = base + i
      OBVIOUS
    <3>j. PICK n : n = base + j
      OBVIOUS
    <3>1. /\ m # n /\ m \in 1..Len(l) /\ n \in 1..Len(l)
          /\ response.entries[i] = l[m] /\ response.entries[j] = l[n]
      BY <1>1, <2>2, <3>i, <3>j, SMTT(30)
    <3>2. /\ l[m].operationId # l[n].operationId
          /\ ~ SamePosition(l[m].origin, l[n].origin)
      BY <1>2, <3>1, AgreementDistinct
    <3>. QED
      BY <3>1, <3>2
  <2>. QED
    BY <1>1, <1>2, <2>1, <2>2 DEF AssertEntries
<1>5. AssertDecisions(response)
  <2> SUFFICES ASSUME NEW i \in DOMAIN response.decisions
        PROVE /\ \A j \in DOMAIN response.decisions :
                   i # j => response.decisions[i].operationId #
                                response.decisions[j].operationId
              /\ response.decisions[i].status = "accepted" =>
                   response.decisions[i].sequence <= response.headSequence
              /\ \A k \in DOMAIN response.entries :
                   response.entries[k].operationId =
                           response.decisions[i].operationId =>
                     /\ response.decisions[i].status = "accepted"
                     /\ response.entries[k].sequence =
                            response.decisions[i].sequence
    BY DEF AssertDecisions
  <2>i. PICK id : id = request.proposals[i].operationId
    OBVIOUS
  <2>1. /\ id \in DOMAIN d
        /\ response.decisions[i] = d[id].decision
        /\ response.decisions[i].operationId = id
    BY <2>i, ResponseDecisions
  <2>2. \A j \in DOMAIN response.decisions :
          i # j => response.decisions[i].operationId #
                       response.decisions[j].operationId
    BY ResponseDecisions, RequestFacts
  <2>3. response.decisions[i].status = "accepted" =>
          response.decisions[i].sequence <= response.headSequence
    BY <1>1, <1>2, <2>1 DEF TableAgrees
  <2>4. ASSUME NEW k \in DOMAIN response.entries,
               response.entries[k].operationId = id
        PROVE  /\ response.decisions[i].status = "accepted"
               /\ response.entries[k].sequence = response.decisions[i].sequence
    <3>1. d[id].decision = AcceptedFor(l[base + k])
          /\ response.entries[k] = l[base + k]
      BY <1>1, <1>2, <2>4 DEF LogAgrees
    <3>. QED
      BY <2>1, <3>1 DEF AcceptedFor
  <2>. QED
    BY <2>1, <2>2, <2>3, <2>4
<1>6. AssertResponseLimits(response)
  <2>1. Len(response.entries) <= MaximumEntriesPerResponse
    BY <1>1, LimitsAssumption
  <2>2. Len(response.decisions) <= MaximumProposalsPerRequest
    BY ResponseDecisions DEF IInv, RequestSound, AssertSyncRequest
  <2>. QED
    BY <2>1, <2>2 DEF AssertResponseLimits
<1>. QED
  BY <1>3, <1>4, <1>5, <1>6 DEF AssertSyncResponse

-----------------------------------------------------------------------------
(* Publishing the batch. *)

\* Decisions are still taken in client order.
LEMMA BatchInOrder ==
  ASSUME IInv, NEW request \in requests, NEW count, NEW accepted, NEW drafts,
         NEW l, NEW d, Batch(request, count, accepted, drafts, l, d)
  PROVE  \A id \in DOMAIN d, p \in issued :
           (/\ p.clientId = d[id].identity.clientId
            /\ p.clientSequence < d[id].identity.clientSequence) =>
               p.operationId \in DOMAIN d
<1>p. PICK proposals : proposals = request.proposals
  OBVIOUS
<1>1. SUFFICES ASSUME NEW id \in DOMAIN d, NEW p \in issued,
                      p.clientId = d[id].identity.clientId,
                      p.clientSequence < d[id].identity.clientSequence
               PROVE  p.operationId \in DOMAIN d
  OBVIOUS
<1>2. /\ \A k \in DOMAIN decisions : k \in DOMAIN d /\ d[k] = decisions[k]
      /\ id \notin DOMAIN decisions =>
           \E i \in DOMAIN proposals :
              /\ id = proposals[i].operationId
              /\ d[id].identity = proposals[i]
      /\ \A i \in DOMAIN proposals : proposals[i].operationId \in DOMAIN d
  BY <1>p, SMTT(30) DEF Batch, Undecided
<1>3. CASE id \in DOMAIN decisions
  BY <1>1, <1>2, <1>3 DEF IInv, DecidedInOrder
<1>4. CASE id \notin DOMAIN decisions
  <2>1. PICK i \in DOMAIN proposals : d[id].identity = proposals[i]
    BY <1>2, <1>4
  <2>2. /\ DOMAIN proposals = 1..Len(proposals)
        /\ proposals[i].clientId = request.replica
    BY <1>p, RequestFacts
  <2>3. \/ p.operationId \in DOMAIN decisions
        \/ \E j \in DOMAIN proposals : proposals[j] = p
    BY <1>p, <1>1, <2>1, <2>2, SMTT(30) DEF IInv, RequestSound
  <2>. QED
    BY <1>2, <2>3
<1>. QED
  BY <1>3, <1>4

\* Staged entries come after everything their client had committed.
LEMMA BatchClientOrder ==
  ASSUME IInv, NEW request \in requests, NEW count, NEW accepted, NEW drafts,
         NEW l, NEW d, Batch(request, count, accepted, drafts, l, d),
         NEW i \in DOMAIN l, NEW j \in DOMAIN l, i < j,
         l[i].origin.clientId = l[j].origin.clientId
  PROVE  l[i].origin.clientSequence < l[j].origin.clientSequence
<1>h. PICK head : head = Len(log)
  OBVIOUS
<1>p. PICK proposals : proposals = request.proposals
  OBVIOUS
<1>0. /\ head \in Nat /\ count \in Nat /\ Len(l) = head + count
      /\ DOMAIN l = 1..Len(l) /\ DOMAIN log = 1..head
      /\ \A k \in 1..head : l[k] = log[k]
      /\ LogSound /\ DecisionsSound /\ IssuedSound
      /\ DOMAIN proposals = 1..Len(proposals)
      /\ \A q \in issued : q.clientSequence \in Nat
  <2>1. /\ l \in Seq(CommittedOperation) /\ log \in Seq(CommittedOperation)
        /\ issued \subseteq Proposal
    BY DEF Batch, IInv, TypeOK
  <2>. QED
    BY <1>h, <1>p, <2>1, RequestFacts
       DEF Batch, IInv, Proposal, ClientSequence
<1>1. \A k \in 1..count :
        /\ accepted[k] \in DOMAIN proposals
        /\ proposals[accepted[k]].operationId \notin DOMAIN decisions
        /\ proposals[accepted[k]] \in issued
        /\ l[head + k].origin = OriginOf(proposals[accepted[k]])
  <2>1. \A k \in 1..count :
          /\ accepted[k] \in Undecided(decisions, proposals)
          /\ l[head + k] = CommittedEntry(proposals[accepted[k]],
                                          head + k, drafts[k])
    BY <1>h, <1>p DEF Batch
  <2>2. \A k \in 1..count :
          l[head + k].origin = OriginOf(proposals[accepted[k]])
    <3> SUFFICES ASSUME NEW k \in 1..count
                 PROVE  l[head + k].origin = OriginOf(proposals[accepted[k]])
      OBVIOUS
    <3>n. PICK n : n = head + k
      OBVIOUS
    <3>1. l[n] = CommittedEntry(proposals[accepted[k]], n, drafts[k])
      BY <2>1, <3>n
    <3>. QED
      BY <3>n, <3>1 DEF CommittedEntry
  <2>. QED
    BY <1>p, <2>1, <2>2, RequestFacts DEF Undecided
<1>2. CASE j \in 1..head
  <2>1. /\ i \in DOMAIN log /\ j \in DOMAIN log
        /\ l[i] = log[i] /\ l[j] = log[j]
    BY <1>0, <1>2
  <2>. QED
    BY <2>1 DEF IInv, ClientOrderKept
<1>3. CASE j \notin 1..head /\ i \in 1..head
  <2>1. PICK k \in 1..count : j = head + k
    <3>1. j - head \in 1..count /\ j = head + (j - head)
      BY <1>0, <1>3
    <3>. QED
      BY <3>1
  <2>q. PICK q : q = proposals[accepted[k]]
    OBVIOUS
  <2>2. /\ q \in issued /\ q.operationId \notin DOMAIN decisions
        /\ l[j].origin = OriginOf(q)
    BY <1>1, <2>1, <2>q
  <2>o. PICK o : o = decisions[log[i].operationId].identity
    OBVIOUS
  <2>3. /\ log[i].operationId \in DOMAIN decisions
        /\ o \in issued /\ o.operationId = log[i].operationId
        /\ l[i].origin = OriginOf(o)
    BY <1>h, <1>0, <1>3, <2>o DEF LogSound, DecisionsSound
  <2>4. o.clientId = q.clientId
    BY <2>2, <2>3 DEF OriginOf
  <2>5. ~ (q.clientSequence < o.clientSequence)
    BY <2>2, <2>3, <2>4, <2>o DEF IInv, DecidedInOrder
  <2>6. q.clientSequence # o.clientSequence
    BY <1>0, <2>2, <2>3, <2>4 DEF IssuedSound, SamePosition
  <2>7. o.clientSequence < q.clientSequence
    BY <1>0, <2>2, <2>3, <2>5, <2>6
  <2>. QED
    BY <2>2, <2>3, <2>7 DEF OriginOf
<1>4. CASE j \notin 1..head /\ i \notin 1..head
  <2>1. PICK m \in 1..count : i = head + m
    <3>1. i - head \in 1..count /\ i = head + (i - head)
      BY <1>0, <1>4
    <3>. QED
      BY <3>1
  <2>2. PICK k \in 1..count : j = head + k
    <3>1. j - head \in 1..count /\ j = head + (j - head)
      BY <1>0, <1>4
    <3>. QED
      BY <3>1
  <2>3. m < k
    BY <1>0, <2>1, <2>2
  <2>4. accepted[m] < accepted[k]
    BY <2>3 DEF Batch, InRequestOrder
  <2>5. AssertProposalBatch(proposals)
    BY <1>p DEF IInv, RequestSound, AssertSyncRequest
  <2>6. /\ l[i].origin = OriginOf(proposals[accepted[m]])
        /\ l[j].origin = OriginOf(proposals[accepted[k]])
    BY <1>1, <2>1, <2>2
  <2>7. proposals[accepted[m]].clientSequence <
            proposals[accepted[k]].clientSequence
    BY <1>1, <2>4, <2>5, <2>6 DEF AssertProposalBatch, OriginOf
  <2>. QED
    BY <2>6, <2>7 DEF OriginOf
<1>5. i \in 1..head \/ i \notin 1..head
  OBVIOUS
<1>. QED
  BY <1>2, <1>3, <1>4, <1>5

Applies(state, l) ==
    /\ state \in Seq(Operations)
    /\ Len(state) = Len(l)
    /\ \A k \in 1..Len(l) : state[k] = l[k].operation

\* The state applies the operations of the log, also after a batch.
LEMMA BatchState ==
  ASSUME IInv, NEW request \in requests, NEW count, NEW accepted,
         NEW drafts \in [1..count -> Operations],
         NEW l, NEW d, Batch(request, count, accepted, drafts, l, d),
         NEW state, state = authorityState \o drafts
  PROVE  Applies(state, l)
<1>h. PICK head : head = Len(log)
  OBVIOUS
<1>a. PICK old : old = authorityState
  OBVIOUS
<1>1. /\ head \in Nat /\ count \in Nat /\ Len(l) = head + count
      /\ old \in Seq(Operations) /\ Len(old) = head
      /\ \A k \in 1..head : old[k] = log[k].operation
      /\ \A k \in 1..head : l[k] = log[k]
  BY <1>h, <1>a DEF Batch, IInv, TypeOK, StateSound
<1>3. drafts \in Seq(Operations) /\ Len(drafts) = count
  BY <1>1, SeqDef
<1>4. \A j \in 1..count : l[head + j].operation = drafts[j]
  <2> SUFFICES ASSUME NEW j \in 1..count
               PROVE  l[head + j].operation = drafts[j]
    OBVIOUS
  <2>n. PICK n : n = head + j
    OBVIOUS
  <2>1. l[n] = CommittedEntry(request.proposals[accepted[j]], n, drafts[j])
    BY <1>h, <2>n DEF Batch
  <2>. QED
    BY <2>n, <2>1 DEF CommittedEntry
<1>5. /\ state \in Seq(Operations)
      /\ Len(state) = Len(old) + Len(drafts)
      /\ \A k \in 1..Len(old) + Len(drafts) :
            state[k] = IF k <= Len(old) THEN old[k] ELSE drafts[k - Len(old)]
  <2>1. old \in Seq(Operations) /\ drafts \in Seq(Operations)
    BY <1>1, <1>3
  <2>2. state = old \o drafts
    BY <1>a
  <2>. QED
    BY <2>1, <2>2, ConcatProperties
<1>6. ASSUME NEW k \in 1..head + count
      PROVE  state[k] = l[k].operation
  <2>1. CASE k <= head
    <3>1. k \in 1..head
      BY <1>1, <2>1
    <3>. QED
      BY <1>1, <1>3, <1>5, <2>1, <3>1
  <2>2. CASE ~ (k <= head)
    <3>1. k - head \in 1..count /\ head + (k - head) = k
      BY <1>1, <2>2
    <3>. QED
      BY <1>1, <1>3, <1>4, <1>5, <2>2, <3>1
  <2>. QED
    BY <2>1, <2>2
<1>. QED
  BY <1>1, <1>3, <1>5, <1>6 DEF Applies

\* What was sound of a record, a request or a response still is: the log and
\* the table only grew.
LEMMA RecordKept ==
  ASSUME IInv, NEW request \in requests, NEW count, NEW accepted, NEW drafts,
         Batch(request, count, accepted, drafts, log', decisions'),
         UNCHANGED <<requests, replicas, issued, acknowledged>>,
         NEW c \in Clients
  PROVE  RecordSound(c, replicas[c], acknowledged[c])'
<1>r. PICK record : record = replicas[c]
  OBVIOUS
<1>a. PICK done : done = acknowledged[c]
  OBVIOUS
<1>h. PICK head : head = Len(log)
  OBVIOUS
<1>1. RecordSound(c, record, done)
  BY <1>r, <1>a DEF IInv
<1>2. /\ record \in ReplicaRecord
      /\ record.confirmedSequence \in Nat /\ Len(record.confirmedLog) \in Nat
      /\ head \in Nat /\ count \in Nat
      /\ Len(log') = head + count
      /\ record.confirmedSequence <= head
      /\ \A i \in 1..head : log'[i] = log[i]
      /\ \A id \in DOMAIN decisions :
            id \in DOMAIN decisions' /\ decisions'[id] = decisions[id]
  BY <1>1, <1>h DEF Batch, RecordSound, PrefixSound, ReplicaRecord, IInv, TypeOK
<1>3. \A i \in 1..record.confirmedSequence : i \in 1..head /\ log'[i] = log[i]
  BY <1>2
<1>4. PrefixSound(record)'
  <2>1. record.confirmedSequence <= Len(log')
    BY <1>2
  <2>2. \A i \in 1..Len(record.confirmedLog) :
           RetainedBase(record) + i \in 1..record.confirmedSequence
    BY <1>1, <1>2, SMTT(30) DEF RecordSound, PrefixSound, RetainedBase
  <2>. QED
    BY <1>1, <1>3, <2>1, <2>2 DEF RecordSound, PrefixSound, RetainedBase
<1>5. OutboxSound(c, record)'
  BY <1>1, <1>2, <1>3 DEF RecordSound, OutboxSound
<1>6. SettledSound(c, record)'
  BY <1>1, <1>2, <1>3 DEF RecordSound, SettledSound, RejectedForever
<1>7. InboxSound(c, record, done)'
  BY <1>1, <1>2 DEF RecordSound, InboxSound
<1>. QED
  BY <1>r, <1>a, <1>2, <1>4, <1>5, <1>6, <1>7 DEF RecordSound

\* A request of any age stays sound,
LEMMA RequestKept ==
  ASSUME IInv, NEW request \in requests, NEW count, NEW accepted, NEW drafts,
         Batch(request, count, accepted, drafts, log', decisions'),
         UNCHANGED <<requests, replicas, issued, acknowledged>>,
         NEW r \in requests
  PROVE  RequestSound(r)'
<1>1. RequestSound(r)
  BY DEF IInv
<1>2. \A id \in DOMAIN decisions : id \in DOMAIN decisions'
  BY DEF Batch
<1>. QED
  BY <1>1, <1>2 DEF RequestSound

\* and so does a response, since nothing it says is ever revised.
LEMMA ResponseKept ==
  ASSUME IInv, NEW request \in requests, NEW count, NEW accepted, NEW drafts,
         Batch(request, count, accepted, drafts, log', decisions'),
         UNCHANGED <<requests, replicas, issued, acknowledged>>,
         NEW r \in responses
  PROVE  ResponseSound(r)'
<1>h. PICK head : head = Len(log)
  OBVIOUS
<1>b. PICK base : base = r.requestedBaseSequence
  OBVIOUS
<1>1. ResponseSound(r) /\ r \in SyncResponse
  BY DEF IInv, TypeOK
<1>2. /\ head \in Nat /\ count \in Nat /\ base \in Nat
      /\ r.headSequence \in Nat /\ r.throughSequence \in Nat
      /\ Len(log') = head + count
      /\ \A i \in 1..head : log'[i] = log[i]
      /\ \A id \in DOMAIN decisions :
            id \in DOMAIN decisions' /\ decisions'[id] = decisions[id]
      /\ r.headSequence <= head
      /\ r.throughSequence <= r.headSequence
      /\ Len(r.entries) = r.throughSequence - base
  BY <1>1, <1>h, <1>b DEF Batch, IInv, TypeOK, SyncResponse, ResponseSound,
     AssertSyncResponse, AssertPage
<1>3. r.headSequence <= Len(log')
  BY <1>2
<1>4. ASSUME NEW i \in 1..Len(r.entries)
      PROVE  r.entries[i] = log'[base + i]
  <2>1. base + i \in 1..head
    BY <1>2
  <2>. QED
    BY <1>1, <1>2, <1>b, <2>1 DEF ResponseSound
<1>. QED
  BY <1>1, <1>2, <1>3, <1>4, <1>b DEF ResponseSound

\* The new response tells the log and the table as they are.
LEMMA ResponseNew ==
  ASSUME IInv, NEW request \in requests, NEW count, NEW accepted, NEW drafts,
         Batch(request, count, accepted, drafts, log', decisions'),
         UNCHANGED <<requests, replicas, issued, acknowledged>>,
         NEW response, response = ResponseTo(request, log', decisions')
  PROVE  ResponseSound(response)'
<1>l. PICK l : l = log'
  OBVIOUS
<1>d. PICK d : d = decisions'
  OBVIOUS
<1>1. /\ Batch(request, count, accepted, drafts, l, d)
      /\ response = ResponseTo(request, l, d)
  BY <1>l, <1>d
<1>2. AssertSyncResponse(response)
  BY <1>1, ResponseValid
<1>3. /\ response.replica = request.replica
      /\ response.requestedBaseSequence = request.baseSequence
      /\ response.headSequence = Len(l) /\ Len(l) \in Nat
      /\ \A i \in 1..Len(response.entries) :
            response.entries[i] = l[request.baseSequence + i]
  <2>1. response.replica = request.replica
    BY <1>1 DEF ResponseTo
  <2>2. /\ response.requestedBaseSequence = request.baseSequence
        /\ response.headSequence = Len(l) /\ Len(l) \in Nat
        /\ \A i \in 1..Len(response.entries) :
              /\ request.baseSequence + i \in 1..Len(l)
              /\ response.entries[i] = l[request.baseSequence + i]
    <3>1. PageOf(request, response, l)
      BY <1>1, PageFacts
    <3>. QED
      BY <3>1 DEF PageOf
  <2>. QED
    BY <2>1, <2>2
<1>4. \A x \in DecisionsIn(response) :
         x.operationId \in DOMAIN d /\ d[x.operationId].decision = x
  BY <1>1, ResponseDecisions DEF DecisionsIn
<1>5. request.baseSequence <= replicas[request.replica].confirmedSequence
  BY DEF IInv, RequestSound
<1>. QED
  BY <1>l, <1>d, <1>2, <1>3, <1>4, <1>5 DEF ResponseSound

\* What DecisionsAfter stores has an identity and a decision.
LEMMA DecisionsShape ==
  ASSUME IInv, NEW proposals, NEW staged,
         NEW d, d = DecisionsAfter(decisions, proposals, staged),
         NEW id \in DOMAIN d
  PROVE  d[id] = [identity |-> d[id].identity, decision |-> d[id].decision]
<1>1. CASE id \in DOMAIN decisions
  <2>1. d[id] = decisions[id] /\ decisions[id] \in StoredProposalDecision
    BY <1>1 DEF DecisionsAfter, IInv, TypeOK
  <2>. QED
    BY <2>1 DEF StoredProposalDecision
<1>2. CASE id \notin DOMAIN decisions
  BY <1>2 DEF DecisionsAfter
<1>. QED
  BY <1>1, <1>2

\* Log, table and response keep their types.
LEMMA BatchTypes ==
  ASSUME IInv, NEW request \in requests, NEW count, NEW accepted, NEW drafts,
         NEW l, NEW d, Batch(request, count, accepted, drafts, l, d),
         \A id \in DOMAIN d :
             d[id] = [identity |-> d[id].identity, decision |-> d[id].decision],
         NEW response, response = ResponseTo(request, l, d)
  PROVE  /\ l \in Seq(CommittedOperation)
         /\ DOMAIN d \subseteq OperationIds
         /\ \A id \in DOMAIN d : d[id] \in StoredProposalDecision
         /\ response \in SyncResponse
<1>0. TypeOK
  BY DEF IInv
<1>1. l \in Seq(CommittedOperation)
  BY DEF Batch
<1>2. /\ LogAgrees(l, d) /\ TableAgrees(l, d)
  BY BatchLog
<1>3. ASSUME NEW id \in DOMAIN d
      PROVE  id \in OperationIds
  BY <1>0, <1>2 DEF TableAgrees, TypeOK, Proposal
<1>4. ASSUME NEW id \in DOMAIN d
      PROVE  d[id] \in StoredProposalDecision
  <2>1. CASE id \in DOMAIN decisions
    BY <1>0, <2>1 DEF Batch, TypeOK
  <2>2. CASE id \notin DOMAIN decisions
    <3>1. PICK i \in Undecided(decisions, request.proposals) :
              id = request.proposals[i].operationId
      BY <2>2 DEF Batch
    <3>2. /\ i \in DOMAIN request.proposals
          /\ request.proposals[i] \in Proposal
      BY RequestFacts DEF Undecided
    <3>3. d[id].decision \in ProposalDecision
      <4>1. ASSUME NEW j \in 1..count,
                   d[id].decision = AcceptedFor(l[Len(log) + j])
            PROVE  d[id].decision \in ProposalDecision
        <5>1. Len(log) + j \in 1..Len(l)
          BY <1>0 DEF Batch, TypeOK
        <5>2. l[Len(log) + j] \in CommittedOperation
          BY <1>1, <5>1, ElementOfSeq
        <5>. QED
          BY <4>1, <5>2 DEF AcceptedFor, ProposalDecision, AcceptedDecision,
             CommittedOperation
      <4>2. CASE d[id].decision = RejectedFor(id)
        BY <1>3, <4>2 DEF RejectedFor, ProposalDecision, RejectedDecision
      <4>. QED
        BY <3>1, <4>1, <4>2 DEF Batch
    <3>. QED
      <4>1. d[id].identity = request.proposals[i]
        BY <3>1 DEF Batch
      <4>. QED
        BY <3>2, <3>3, <4>1 DEF StoredProposalDecision
  <2>. QED
    BY <2>1, <2>2
<1>5. response \in SyncResponse
  <2>1. response.decisions \in Seq(ProposalDecision)
    <3>1. /\ response.decisions = [i \in 1..Len(request.proposals) |->
                                d[request.proposals[i].operationId].decision]
          /\ Len(request.proposals) \in Nat
      BY RequestFacts DEF ResponseTo
    <3>2. \A i \in 1..Len(request.proposals) :
             d[request.proposals[i].operationId].decision \in ProposalDecision
      BY <1>4, RequestFacts, ResponseDecisions DEF StoredProposalDecision
    <3>. QED
      BY <3>1, <3>2, SeqDef
  <2>2. request.replica \in Clients
    BY RequestFacts
  <2>3. response = [replica |-> request.replica,
                    requestedBaseSequence |-> response.requestedBaseSequence,
                    throughSequence |-> response.throughSequence,
                    headSequence |-> response.headSequence,
                    entries |-> response.entries,
                    decisions |-> response.decisions]
    BY DEF ResponseTo
  <2>4. /\ response.requestedBaseSequence \in Nat
        /\ response.throughSequence \in Nat
        /\ response.headSequence \in Nat
        /\ response.entries \in Seq(CommittedOperation)
    BY PageFacts DEF PageOf
  <2>. QED
    BY <2>1, <2>2, <2>3, <2>4 DEF SyncResponse
<1>. QED
  BY <1>1, <1>3, <1>4, <1>5

\* A step of the authority is such a batch, whether or not it decides anything.
LEMMA SynchronizeEffect ==
  ASSUME IInv, NEW request \in requests, Synchronize(request)
  PROVE  \E count \in Nat :
         \E accepted \in
              [1..count -> Undecided(decisions, request.proposals)] :
         \E drafts \in [1..count -> Operations] :
           /\ Batch(request, count, accepted, drafts, log', decisions')
           /\ authorityState' \in Seq(Operations)
           /\ Len(authorityState') = Len(log')
           /\ \A k \in 1..Len(log') : authorityState'[k] = log'[k].operation
           /\ log' \in Seq(CommittedOperation)
           /\ DOMAIN decisions' \subseteq OperationIds
           /\ \A id \in DOMAIN decisions' :
                  decisions'[id] \in StoredProposalDecision
           /\ ResponseTo(request, log', decisions') \in SyncResponse
           /\ responses' = responses \cup
                              {ResponseTo(request, log', decisions')}
           /\ UNCHANGED <<requests, replicas, issued, acknowledged, failures>>
<1>0. /\ UNCHANGED <<requests, replicas, issued, acknowledged>>
      /\ \E count \in 0..Len(request.proposals) :
         \E accepted \in
              [1..count -> Undecided(decisions, request.proposals)],
            drafts \in [1..count -> Operations] :
            /\ InRequestOrder(accepted, count)
            /\ Publish(request, StagedEntries(log, request.proposals,
                                              accepted, drafts, count))
  BY RequestAccepted DEF Synchronize
<1>1. PICK count \in 0..Len(request.proposals) :
         \E accepted \in
              [1..count -> Undecided(decisions, request.proposals)],
            drafts \in [1..count -> Operations] :
            /\ InRequestOrder(accepted, count)
            /\ Publish(request, StagedEntries(log, request.proposals,
                                              accepted, drafts, count))
  BY <1>0
<1>2. PICK accepted \in [1..count -> Undecided(decisions, request.proposals)],
           drafts \in [1..count -> Operations] :
            /\ InRequestOrder(accepted, count)
            /\ Publish(request, StagedEntries(log, request.proposals,
                                              accepted, drafts, count))
  BY <1>1
<1>s. PICK staged : staged = StagedEntries(log, request.proposals, accepted,
                                           drafts, count)
  OBVIOUS
<1>l. PICK l : l = log \o staged
  OBVIOUS
<1>d. PICK d : d = DecisionsAfter(decisions, request.proposals, staged)
  OBVIOUS
<1>r. PICK response : response = ResponseTo(request, l, d)
  OBVIOUS
<1>3. count \in Nat
  BY RequestFacts
<1>4. Batch(request, count, accepted, drafts, l, d)
  BY <1>2, <1>3, <1>s, <1>l, <1>d, BatchFacts
<1>5. AssertSyncResponse(response) /\ AssertResponseLimits(response)
  BY <1>4, <1>r, ResponseValid
<1>6. /\ log' = l /\ decisions' = d
      /\ authorityState' = authorityState \o OperationsOf(staged)
      /\ responses' = responses \cup {response}
      /\ UNCHANGED failures
  BY <1>2, <1>5, <1>s, <1>l, <1>d, <1>r DEF Publish
<1>7. /\ Len(staged) = count
      /\ \A j \in 1..count : staged[j].operation = drafts[j]
  <2>1. /\ Len(staged) = count
        /\ \A j \in 1..count :
              staged[j] = CommittedEntry(request.proposals[accepted[j]],
                                         Len(log) + j, drafts[j])
    BY <1>3, <1>s, StagedFacts
  <2>2. \A j \in 1..count : staged[j].operation = drafts[j]
    BY <2>1 DEF CommittedEntry
  <2>. QED
    BY <2>1, <2>2
<1>t. PICK state : state = authorityState \o drafts
  OBVIOUS
<1>o. OperationsOf(staged) = drafts
  BY <1>7 DEF OperationsOf
<1>8. /\ authorityState' \in Seq(Operations)
      /\ Len(authorityState') = Len(l)
      /\ \A k \in 1..Len(l) : authorityState'[k] = l[k].operation
  <2>1. Applies(state, l)
    BY <1>4, <1>t, BatchState
  <2>. QED
    BY <1>6, <1>t, <1>o, <2>1 DEF Applies
<1>9. \A id \in DOMAIN d :
         d[id] = [identity |-> d[id].identity, decision |-> d[id].decision]
  BY <1>d, DecisionsShape
<1>10. /\ l \in Seq(CommittedOperation)
       /\ DOMAIN d \subseteq OperationIds
       /\ \A id \in DOMAIN d : d[id] \in StoredProposalDecision
       /\ response \in SyncResponse
  BY <1>4, <1>9, <1>r, BatchTypes
<1>11. ResponseTo(request, log', decisions') = response
  BY <1>6, <1>r
<1>. QED
  BY <1>0, <1>3, <1>4, <1>6, <1>8, <1>10, <1>11

\* Synchronize.
LEMMA SynchronizeStepIInv == IInv /\ SynchronizeStep => IInv'
<1> SUFFICES ASSUME IInv, NEW request \in requests, Synchronize(request)
             PROVE  IInv'
  BY DEF SynchronizeStep
<1>1. PICK count \in Nat :
        \E accepted \in [1..count -> Undecided(decisions, request.proposals)] :
        \E drafts \in [1..count -> Operations] :
           /\ Batch(request, count, accepted, drafts, log', decisions')
           /\ authorityState' \in Seq(Operations)
           /\ Len(authorityState') = Len(log')
           /\ \A k \in 1..Len(log') : authorityState'[k] = log'[k].operation
           /\ log' \in Seq(CommittedOperation)
           /\ DOMAIN decisions' \subseteq OperationIds
           /\ \A id \in DOMAIN decisions' :
                  decisions'[id] \in StoredProposalDecision
           /\ ResponseTo(request, log', decisions') \in SyncResponse
           /\ responses' = responses \cup
                              {ResponseTo(request, log', decisions')}
           /\ UNCHANGED <<requests, replicas, issued, acknowledged, failures>>
  BY SynchronizeEffect
<1>2. PICK accepted \in [1..count -> Undecided(decisions, request.proposals)],
           drafts \in [1..count -> Operations] :
           /\ Batch(request, count, accepted, drafts, log', decisions')
           /\ authorityState' \in Seq(Operations)
           /\ Len(authorityState') = Len(log')
           /\ \A k \in 1..Len(log') : authorityState'[k] = log'[k].operation
           /\ log' \in Seq(CommittedOperation)
           /\ DOMAIN decisions' \subseteq OperationIds
           /\ \A id \in DOMAIN decisions' :
                  decisions'[id] \in StoredProposalDecision
           /\ ResponseTo(request, log', decisions') \in SyncResponse
           /\ responses' = responses \cup
                              {ResponseTo(request, log', decisions')}
           /\ UNCHANGED <<requests, replicas, issued, acknowledged, failures>>
  BY <1>1
<1>l. PICK l : l = log'
  OBVIOUS
<1>d. PICK d : d = decisions'
  OBVIOUS
<1>3. Batch(request, count, accepted, drafts, l, d)
  BY <1>2, <1>l, <1>d
<1>4. TypeOK'
  BY <1>2 DEF IInv, TypeOK
<1>5. LogSound' /\ DecisionsSound'
  <2>1. LogAgrees(l, d) /\ TableAgrees(l, d)
    BY <1>3, BatchLog
  <2>. QED
    BY <1>2, <1>l, <1>d, <2>1 DEF LogAgrees, TableAgrees, LogSound,
       DecisionsSound
<1>6. StateSound'
  BY <1>2 DEF StateSound
<1>7. IssuedSound' /\ NoFailure'
  BY <1>2 DEF IInv, IssuedSound, NoFailure
<1>8. DecidedInOrder'
  <2>1. \A id \in DOMAIN d, p \in issued :
           (/\ p.clientId = d[id].identity.clientId
            /\ p.clientSequence < d[id].identity.clientSequence) =>
               p.operationId \in DOMAIN d
    BY <1>3, BatchInOrder
  <2>. QED
    BY <1>2, <1>d, <2>1 DEF DecidedInOrder
<1>9. ClientOrderKept'
  <2>1. \A i, j \in DOMAIN l :
           (i < j /\ l[i].origin.clientId = l[j].origin.clientId) =>
               l[i].origin.clientSequence < l[j].origin.clientSequence
    BY <1>3, BatchClientOrder
  <2>. QED
    BY <1>l, <2>1 DEF ClientOrderKept
<1>10. \A c \in Clients : RecordSound(c, replicas[c], acknowledged[c])'
  BY <1>2, RecordKept
<1>11. \A r \in requests' : RequestSound(r)'
  <2>1. \A r \in requests : RequestSound(r)'
    BY <1>2, RequestKept
  <2>. QED
    BY <1>2, <2>1
<1>12. \A r \in responses' : ResponseSound(r)'
  <2>1. \A r \in responses : ResponseSound(r)'
    BY <1>2, ResponseKept
  <2>r. PICK response : response = ResponseTo(request, log', decisions')
    OBVIOUS
  <2>2. ResponseSound(response)'
    BY <1>2, <2>r, ResponseNew
  <2>. QED
    BY <1>2, <2>1, <2>2, <2>r
<1>. QED
  BY <1>4, <1>5, <1>6, <1>7, <1>8, <1>9, <1>10, <1>11, <1>12 DEF IInv

-----------------------------------------------------------------------------
(***************************************************************************)
(* The composition: the theorems of the system.                            *)
(***************************************************************************)

\* Every step of the system preserves the inductive invariant.
LEMMA NextIInv == IInv /\ [Next]_vars => IInv'
<1> SUFFICES ASSUME IInv, [Next]_vars
             PROVE  IInv'
  OBVIOUS
<1>1. CASE EnqueueStep
  BY <1>1, EnqueueStepIInv
<1>2. CASE DeleteStep
  BY <1>2, DeleteStepIInv
<1>3. CASE AcknowledgeStep
  BY <1>3, AcknowledgeStepIInv
<1>4. CASE PrepareStep
  BY <1>4, PrepareStepIInv
<1>5. CASE SynchronizeStep
  BY <1>5, SynchronizeStepIInv
<1>6. CASE MergeStep
  BY <1>6, MergeStepIInv
<1>7. CASE UNCHANGED vars
  <2>1. /\ UNCHANGED <<log, decisions, authorityState, replicas>>
        /\ UNCHANGED <<requests, responses, issued, acknowledged, failures>>
    BY <1>7 DEF vars
  <2>2. \A client \in Clients :
           RecordSound(client, replicas[client], acknowledged[client])'
    <3>1. ASSUME NEW client \in Clients
          PROVE  RecordSound(client, replicas[client], acknowledged[client])'
      <4>1. RecordSound(client, replicas[client], acknowledged[client])
        BY DEF IInv
      <4>. QED
        BY <2>1, <4>1, RecordUnmoved
    <3>. QED
      BY <3>1
  <2>3. \A request \in requests' : RequestSound(request)'
    BY <2>1 DEF IInv, RequestSound
  <2>4. \A response \in responses' : ResponseSound(response)'
    BY <2>1 DEF IInv, ResponseSound
  <2>5. TypeOK'
    BY <2>1 DEF IInv, TypeOK
  <2>. QED
    BY <2>1, <2>2, <2>3, <2>4, <2>5 DEF IInv, NoFailure, LogSound,
       DecisionsSound, StateSound, IssuedSound, DecidedInOrder,
       ClientOrderKept
<1>. QED
  BY <1>1, <1>2, <1>3, <1>4, <1>5, <1>6, <1>7 DEF Next

\* The inductive invariant holds always: records, requests and responses,
\* however old, stay consistent with the canonical log and with the
\* permanent decisions.
THEOREM Inductive == Spec => []IInv
<1>1. Init => IInv
  BY InitIInv
<1>2. IInv /\ [Next]_vars => IInv'
  BY NextIInv
<1>. QED
  BY <1>1, <1>2, PTL DEF Spec

-----------------------------------------------------------------------------
(* Consequences of the invariant. *)

\* Every variable keeps its type.
THEOREM Typed == Spec => []TypeOK
<1>1. IInv => TypeOK
  BY DEF IInv
<1>. QED
  BY <1>1, Inductive, PTL

\* No handler throws: a replica's request, however late or repeated, is not
\* refused by synchronize, its response is valid, mergeSyncResponse accepts
\* it at any later time, and no update leaves an invalid record.
THEOREM NeverFails == Spec => []NoFailure
<1>1. IInv => NoFailure
  BY DEF IInv
<1>. QED
  BY <1>1, Inductive, PTL

\* The operations of a log, entry by entry.
LEMMA OperationsOfEntries ==
  ASSUME NEW entries \in Seq(CommittedOperation)
  PROVE  /\ OperationsOf(entries) \in Seq(Operations)
         /\ Len(OperationsOf(entries)) = Len(entries)
         /\ \A i \in 1..Len(entries) :
                OperationsOf(entries)[i] = entries[i].operation
<1>n. PICK n : n = Len(entries)
  OBVIOUS
<1>1. n \in Nat /\ \A i \in 1..n : entries[i].operation \in Operations
  <2>1. n \in Nat
    BY <1>n
  <2>2. \A i \in 1..n : entries[i] \in CommittedOperation
    BY <1>n, ElementOfSeq
  <2>. QED
    BY <2>1, <2>2 DEF CommittedOperation
<1>2. OperationsOf(entries) = [i \in 1..n |-> entries[i].operation]
  BY <1>n DEF OperationsOf
<1>3. OperationsOf(entries) \in Seq(Operations)
  BY <1>1, <1>2, SeqDef
<1>. QED
  BY <1>1, <1>2, <1>3, <1>n

\* A record that agrees with the log entry by entry holds a prefix of it,
\* and the part of the log it retains is a suffix of that prefix.
LEMMA SoundRecordPrefix ==
  ASSUME log \in Seq(CommittedOperation), NEW record \in ReplicaRecord,
         PrefixSound(record)
  PROVE  /\ record.confirmedSequence <= Len(log)
         /\ record.confirmedState =
                OperationsOf(SubSeq(log, 1, record.confirmedSequence))
         /\ record.confirmedLog = SubSeq(log, RetainedBase(record) + 1,
                                         record.confirmedSequence)
<1>c. PICK confirmed : confirmed = record.confirmedSequence
  OBVIOUS
<1>k. PICK kept : kept = record.confirmedLog
  OBVIOUS
<1>s. PICK state : state = record.confirmedState
  OBVIOUS
<1>b. PICK base : base = RetainedBase(record)
  OBVIOUS
<1>1. /\ confirmed \in Nat /\ Len(log) \in Nat /\ confirmed <= Len(log)
      /\ state \in Seq(Operations) /\ Len(state) = confirmed
      /\ \A i \in 1..confirmed : state[i] = log[i].operation
      /\ kept \in Seq(CommittedOperation) /\ Len(kept) <= confirmed
      /\ base = confirmed - Len(kept) /\ base \in Nat
      /\ \A i \in 1..Len(kept) : kept[i] = log[base + i]
  BY <1>c, <1>k, <1>s, <1>b DEF PrefixSound, ReplicaRecord, RetainedBase
<1>2. state = OperationsOf(SubSeq(log, 1, confirmed))
  <2>p. PICK prefix : prefix = SubSeq(log, 1, confirmed)
    OBVIOUS
  <2>1. \A i \in 1..confirmed : log[i] \in CommittedOperation
    BY <1>1, ElementOfSeq
  <2>2. /\ prefix \in Seq(CommittedOperation)
        /\ Len(prefix) = confirmed
        /\ \A i \in 1..confirmed : prefix[i] = log[i]
    BY <1>1, <2>1, <2>p, SubSeqProperties
  <2>3. /\ OperationsOf(prefix) \in Seq(Operations)
        /\ Len(OperationsOf(prefix)) = confirmed
        /\ \A i \in 1..confirmed :
               OperationsOf(prefix)[i] = prefix[i].operation
    BY <2>2, OperationsOfEntries
  <2>4. state = OperationsOf(prefix)
    BY <1>1, <2>2, <2>3, SeqEqual
  <2>. QED
    BY <2>p, <2>4
<1>3. kept = SubSeq(log, base + 1, confirmed)
  <2>p. PICK suffix : suffix = SubSeq(log, base + 1, confirmed)
    OBVIOUS
  <2>f. PICK from : from = base + 1
    OBVIOUS
  <2>1. \A i \in from..confirmed : log[i] \in CommittedOperation
    BY <1>1, <2>f, ElementOfSeq
  <2>2. /\ suffix \in Seq(CommittedOperation)
        /\ Len(suffix) = IF from <= confirmed THEN confirmed - from + 1 ELSE 0
        /\ \A i \in 1..confirmed - from + 1 : suffix[i] = log[from + i - 1]
    <3>1. from \in Int /\ confirmed \in Int
      BY <1>1, <2>f
    <3>. QED
      BY <2>1, <2>p, <2>f, <3>1, SubSeqProperties
  <2>3. Len(suffix) = Len(kept)
    BY <1>1, <2>2, <2>f
  <2>4. \A i \in 1..Len(kept) : kept[i] = suffix[i]
    <3> SUFFICES ASSUME NEW i \in 1..Len(kept)
                 PROVE  kept[i] = suffix[i]
      OBVIOUS
    <3>1. i \in 1..confirmed - from + 1 /\ from + i - 1 = base + i
      BY <1>1, <2>f
    <3>. QED
      BY <1>1, <2>2, <3>1
  <2>5. kept = suffix
    BY <1>1, <2>2, <2>3, <2>4, SeqEqual
  <2>. QED
    BY <2>p, <2>5
<1>. QED
  BY <1>1, <1>2, <1>3, <1>c, <1>k, <1>s, <1>b

\* Replicas never diverge: whatever pages arrived, in whichever order and
\* however often, a replica's confirmed log and state are those of a prefix of
\* the canonical log.
THEOREM PrefixesAgree == Spec => []ConfirmedPrefix
<1>1. IInv => ConfirmedPrefix
  <2> SUFFICES ASSUME IInv
               PROVE  ConfirmedPrefix
    OBVIOUS
  <2>1. /\ log \in Seq(CommittedOperation)
        /\ authorityState \in Seq(Operations)
        /\ Len(authorityState) = Len(log)
        /\ \A i \in 1..Len(log) : authorityState[i] = log[i].operation
    BY DEF IInv, TypeOK, StateSound
  <2>2. authorityState = OperationsOf(log)
    <3>1. /\ OperationsOf(log) \in Seq(Operations)
          /\ Len(OperationsOf(log)) = Len(log)
          /\ \A i \in 1..Len(log) : OperationsOf(log)[i] = log[i].operation
      BY <2>1, OperationsOfEntries
    <3>. QED
      BY <2>1, <3>1, SeqEqual
  <2>3. \A client \in Clients : /\ replicas[client] \in ReplicaRecord
                                /\ PrefixSound(replicas[client])
    BY DEF IInv, RecordSound
  <2>. QED
    BY <2>1, <2>2, <2>3, SoundRecordPrefix DEF ConfirmedPrefix
<1>. QED
  BY <1>1, Inductive, PTL

\* Exactly once: the log holds an operation, and a client position, at most
\* once, and holds it exactly if and where its permanent decision says.
THEOREM ExactlyOnce == Spec => []CommittedOnce
<1>1. IInv => CommittedOnce
  <2> SUFFICES ASSUME IInv
               PROVE  CommittedOnce
    OBVIOUS
  <2>1. TypeOK /\ LogSound /\ DecisionsSound /\ IssuedSound
    BY DEF IInv
  <2>2. DOMAIN log = 1..Len(log)
    BY <2>1 DEF TypeOK
  <2>3. \A i, j \in 1..Len(log) : i # j =>
            /\ log[i].operationId # log[j].operationId
            /\ ~ SamePosition(log[i].origin, log[j].origin)
    BY <2>1, LogDistinct
  <2>4. \A id \in DOMAIN decisions :
           decisions[id].decision.status = "accepted" =>
               \E i \in DOMAIN log : log[i].operationId = id
    BY <2>1, <2>2 DEF DecisionsSound
  <2>. QED
    BY <2>1, <2>2, <2>3, <2>4 DEF CommittedOnce, LogSound
<1>. QED
  BY <1>1, Inductive, PTL

\* Operations of one client are committed in the order it issued them, even
\* though its requests overlap and arrive in any order.
THEOREM OrderKept == Spec => []ClientOrderKept
<1>1. IInv => ClientOrderKept
  BY DEF IInv
<1>. QED
  BY <1>1, Inductive, PTL

\* An issued operation is in the outbox until it is confirmed or rejected,
\* and never both in the outbox and in the confirmed prefix.
THEOREM NothingLost == Spec => []NoProposalLost
<1>1. IInv => NoProposalLost
  <2> SUFFICES ASSUME IInv, NEW p \in issued
               PROVE  /\ InOutbox(p) \/ Confirmed(p) \/ RejectedForever(p)
                      /\ ~ (InOutbox(p) /\ Confirmed(p))
    BY DEF NoProposalLost
  <2>1. p.clientId \in Clients
    BY DEF IInv, TypeOK, Proposal
  <2>2. RecordSound(p.clientId, replicas[p.clientId],
                    acknowledged[p.clientId])
    BY <2>1 DEF IInv
  <2>3. InOutbox(p) \/ Confirmed(p) \/ RejectedForever(p)
    BY <2>2 DEF RecordSound, SettledSound, InOutbox, Confirmed
  <2>4. ~ (InOutbox(p) /\ Confirmed(p))
    BY <2>2 DEF RecordSound, OutboxSound, InOutbox, Confirmed
  <2>. QED
    BY <2>3, <2>4
<1>. QED
  BY <1>1, Inductive, PTL

\* The application learns the authority's outcome of each of its operations,
\* once: no retry and no late page puts an acknowledged outcome back.
THEOREM ToldOnce == Spec => []OutcomeToldOnce
<1>1. IInv => OutcomeToldOnce
  <2> SUFFICES ASSUME IInv, NEW client \in Clients
               PROVE  LET inbox == replicas[client].resolutions
                          told == {d.operationId : d \in inbox} IN
                      /\ \A d \in inbox :
                            /\ d.operationId \in DOMAIN decisions
                            /\ decisions[d.operationId].decision = d
                      /\ told \cap acknowledged[client] = {}
                      /\ \A p \in issued : p.clientId = client =>
                            (PendingLocally(p) <=>
                               p.operationId \notin
                                   told \cup acknowledged[client])
    BY DEF OutcomeToldOnce
  <2>1. InboxSound(client, replicas[client], acknowledged[client])
    BY DEF IInv, RecordSound
  <2>2. Told(replicas[client]) \cap acknowledged[client] = {}
    BY <2>1 DEF InboxSound, Told
  <2>3. ASSUME NEW p \in issued, p.clientId = client
        PROVE  PendingLocally(p) <=>
                   p.operationId \notin
                       Told(replicas[client]) \cup acknowledged[client]
    BY <2>1, <2>3 DEF InboxSound, PendingLocally
  <2>. QED
    BY <2>1, <2>2, <2>3 DEF InboxSound, Told
<1>. QED
  BY <1>1, Inductive, PTL

-----------------------------------------------------------------------------
(* What no step may do. *)

\* Whatever a client does leaves the authority alone.
LEMMA StoreLeavesAuthority ==
  ASSUME \/ EnqueueStep \/ DeleteStep \/ AcknowledgeStep
         \/ PrepareStep \/ MergeStep
  PROVE  UNCHANGED authorityVars
<1>1. CASE EnqueueStep
  BY <1>1 DEF EnqueueStep, EnqueueOperation
<1>2. CASE DeleteStep
  BY <1>2 DEF DeleteStep, DeleteCommittedLogPrefix
<1>3. CASE AcknowledgeStep
  BY <1>3 DEF AcknowledgeStep, AcknowledgeResolutions
<1>4. CASE PrepareStep
  BY <1>4 DEF PrepareStep, PrepareSyncRequest
<1>5. CASE MergeStep
  BY <1>5 DEF MergeStep, MergeSyncResponse
<1>. QED
  BY <1>1, <1>2, <1>3, <1>4, <1>5

\* The log only grows at its end and a stored decision is never revised,
\* whatever is retried.
THEOREM NeverRevised == Spec => AuthorityPermanent
<1> DEFINE Grows == /\ Len(log) <= Len(log')
                    /\ SubSeq(log', 1, Len(log)) = log
                    /\ \A id \in DOMAIN decisions :
                          /\ id \in DOMAIN decisions'
                          /\ decisions'[id] = decisions[id]
<1>1. ASSUME IInv, [Next]_vars
      PROVE  [Grows]_authorityVars
  <2>1. CASE SynchronizeStep
    <3>1. PICK request \in requests : Synchronize(request)
      BY <2>1 DEF SynchronizeStep
    <3>2. PICK count, accepted, drafts :
            Batch(request, count, accepted, drafts, log', decisions')
      BY <1>1, <3>1, SynchronizeEffect
    <3>h. PICK head : head = Len(log)
      OBVIOUS
    <3>3. /\ log' \in Seq(CommittedOperation)
          /\ count \in Nat
          /\ Len(log') = head + count
          /\ \A k \in 1..head : log'[k] = log[k]
      BY <3>2, <3>h DEF Batch
    <3>4. \A id \in DOMAIN decisions : /\ id \in DOMAIN decisions'
                                      /\ decisions'[id] = decisions[id]
      BY <3>2 DEF Batch
    <3>5. log \in Seq(CommittedOperation) /\ head \in Nat
      BY <1>1, <3>h DEF IInv, TypeOK
    <3>6. SubSeq(log', 1, head) = log
      <4>1. \A k \in 1..head : log'[k] \in CommittedOperation
        BY <3>3, <3>5, <3>h, ElementOfSeq
      <4>2. /\ SubSeq(log', 1, head) \in Seq(CommittedOperation)
            /\ Len(SubSeq(log', 1, head)) = head
            /\ \A k \in 1..head : SubSeq(log', 1, head)[k] = log'[k]
        BY <3>5, <4>1, SubSeqProperties
      <4>. QED
        BY <3>3, <3>5, <3>h, <4>2, SeqEqual
    <3>. QED
      BY <3>3, <3>4, <3>5, <3>6, <3>h
  <2>2. CASE UNCHANGED vars
    BY <2>2 DEF vars, authorityVars
  <2>. QED
    BY <1>1, <2>1, <2>2, StoreLeavesAuthority DEF Next
<1>2. Spec => []IInv
  BY Inductive
<1>. QED
  BY <1>1, <1>2, PTL DEF Spec, AuthorityPermanent, Grows

\* What NeverReopened asks of one client's record.
Advances(record, next) ==
    /\ record.confirmedSequence <= next.confirmedSequence
    /\ record.nextClientSequence <= next.nextClientSequence
    /\ \A entry \in Pending(next) :
           entry.proposal \in issued => entry \in Pending(record)

\* When one record advances and the others stay, all of them advance.
LEMMA OneRecordAdvances ==
  ASSUME TypeOK, NEW client \in Clients, NEW next,
         replicas' = [replicas EXCEPT ![client] = next],
         Advances(replicas[client], next)
  PROVE  \A c \in Clients : Advances(replicas[c], replicas'[c])
<1> SUFFICES ASSUME NEW c \in Clients
             PROVE  Advances(replicas[c], replicas'[c])
  OBVIOUS
<1>1. CASE c = client
  BY <1>1 DEF TypeOK
<1>2. CASE c # client
  <2>1. replicas'[c] = replicas[c] /\ replicas[c] \in ReplicaRecord
    BY <1>2 DEF TypeOK
  <2>. QED
    BY <2>1 DEF Advances, ReplicaRecord, ClientSequence
<1>. QED
  BY <1>1, <1>2

\* A replica never goes back and never resubmits what it knows the outcome
\* of, whatever tabs, late pages and duplicated responses do to its record.
THEOREM NeverBack == Spec => NeverReopened
<1> DEFINE Forward == \A c \in Clients : Advances(replicas[c], replicas'[c])
           Step == \A client \in Clients :
             /\ replicas[client].confirmedSequence <=
                    replicas'[client].confirmedSequence
             /\ replicas[client].nextClientSequence <=
                    replicas'[client].nextClientSequence
             /\ \A entry \in Pending(replicas'[client]) :
                    entry.proposal \in issued =>
                        entry \in Pending(replicas[client])
<1>1. ASSUME IInv, [Next]_vars
      PROVE  Forward \/ UNCHANGED replicas
  <2>0. /\ TypeOK
        /\ \A c \in Clients : /\ replicas[c] \in ReplicaRecord
                              /\ replicas[c].confirmedSequence \in Nat
                              /\ replicas[c].nextClientSequence \in Nat
    BY <1>1 DEF IInv, TypeOK, ReplicaRecord, ClientSequence
  <2>1. CASE EnqueueStep
    <3>1. PICK client \in Clients, id \in OperationIds, hash \in IntentHashes :
            EnqueueOperation(client, id, hash)
      BY <2>1 DEF EnqueueStep
    <3>p. PICK p : p = NextProposal(client, replicas[client], id, hash)
      OBVIOUS
    <3>n. PICK next : next = Enqueued(replicas[client], p)
      OBVIOUS
    <3>2. /\ \A q \in issued : q.operationId # p.operationId
          /\ replicas' = [replicas EXCEPT ![client] = next]
      BY <1>1, <3>1, <3>p, <3>n, EnqueueEffect
    <3>3. Advances(replicas[client], next)
      <4>1. /\ next.confirmedSequence = replicas[client].confirmedSequence
            /\ next.nextClientSequence =
                   replicas[client].nextClientSequence + 1
            /\ next.outbox = replicas[client].outbox \cup
                   {[status |-> "pending", proposal |-> p]}
        BY <2>0, <3>n DEF Enqueued, ReplicaRecord
      <4>. QED
        BY <2>0, <3>2, <4>1 DEF Advances, Pending
    <3>. QED
      BY <2>0, <3>2, <3>3, OneRecordAdvances
  <2>2. CASE DeleteStep
    <3>0. PICK client \in Clients :
            \E through : DeleteCommittedLogPrefix(client, through)
      BY <2>2 DEF DeleteStep
    <3>1. PICK through : DeleteCommittedLogPrefix(client, through)
      BY <3>0
    <3>n. PICK next : next = PrefixDeleted(replicas[client], through)
      OBVIOUS
    <3>2. \/ replicas' = [replicas EXCEPT ![client] = next]
          \/ UNCHANGED replicas
      BY <3>1, <3>n DEF DeleteCommittedLogPrefix, StoreRecord
    <3>3. Advances(replicas[client], next)
      <4>1. /\ next.confirmedSequence = replicas[client].confirmedSequence
            /\ next.nextClientSequence = replicas[client].nextClientSequence
            /\ next.outbox = replicas[client].outbox
        BY <2>0, <3>n DEF PrefixDeleted, ReplicaRecord
      <4>. QED
        BY <2>0, <4>1 DEF Advances, Pending
    <3>. QED
      BY <2>0, <3>2, <3>3, OneRecordAdvances
  <2>3. CASE AcknowledgeStep
    <3>0. PICK client \in Clients :
            \E ids : AcknowledgeResolutions(client, ids)
      BY <2>3 DEF AcknowledgeStep
    <3>1. PICK ids : AcknowledgeResolutions(client, ids)
      BY <3>0
    <3>n. PICK next : next = Acknowledged(replicas[client], ids)
      OBVIOUS
    <3>2. \/ replicas' = [replicas EXCEPT ![client] = next]
          \/ UNCHANGED replicas
      BY <3>1, <3>n DEF AcknowledgeResolutions, StoreRecord
    <3>3. Advances(replicas[client], next)
      <4>1. /\ next.confirmedSequence = replicas[client].confirmedSequence
            /\ next.nextClientSequence = replicas[client].nextClientSequence
            /\ next.outbox = replicas[client].outbox
        BY <2>0, <3>n DEF Acknowledged, ReplicaRecord
      <4>. QED
        BY <2>0, <4>1 DEF Advances, Pending
    <3>. QED
      BY <2>0, <3>2, <3>3, OneRecordAdvances
  <2>4. CASE PrepareStep
    BY <2>4 DEF PrepareStep, PrepareSyncRequest
  <2>5. CASE SynchronizeStep
    BY <2>5 DEF SynchronizeStep, Synchronize
  <2>6. CASE MergeStep
    <3>1. PICK response \in responses : MergeSyncResponse(response)
      BY <2>6 DEF MergeStep
    <3>c. PICK client : client = response.replica
      OBVIOUS
    <3>r. PICK record : record = replicas[client]
      OBVIOUS
    <3>n. PICK next : next = Merged(record, response)
      OBVIOUS
    <3>d. PICK done : done = acknowledged[client]
      OBVIOUS
    <3>2. \/ replicas' = [replicas EXCEPT ![client] = next]
          \/ UNCHANGED replicas
      BY <3>1, <3>c, <3>r, <3>n DEF MergeSyncResponse, StoreRecord
    <3>3. MergeContext(client, record, done, response)
      BY <1>1, <3>c, <3>r, <3>d, MergeHasContext
    <3>4. client \in Clients
      BY <3>3 DEF MergeContext
    <3>5. record.confirmedSequence <= next.confirmedSequence
      BY <3>3, <3>n, MergedPrefix
    <3>6. next.nextClientSequence = record.nextClientSequence
      BY <3>n DEF Merged
    <3>7. \A entry \in Pending(next) : entry \in Pending(record)
      <4> SUFFICES ASSUME NEW entry \in next.outbox, entry.status = "pending"
                   PROVE  entry \in record.outbox
        BY DEF Pending
      <4>1. entry \in OutboxAfterDecisions(record, response)
        BY <3>n DEF Merged, OutboxAfterMerge, OutboxAfterEntries
      <4>2. \/ entry \in record.outbox
            \/ entry.status = "accepted"
        BY <3>3, <4>1, AfterDecisions
      <4>. QED
        BY <4>2
    <3>8. Advances(replicas[client], next)
      BY <2>0, <3>r, <3>4, <3>5, <3>6, <3>7 DEF Advances
    <3>. QED
      BY <2>0, <3>2, <3>4, <3>8, OneRecordAdvances
  <2>7. CASE UNCHANGED vars
    BY <2>7 DEF vars
  <2>. QED
    BY <1>1, <2>1, <2>2, <2>3, <2>4, <2>5, <2>6, <2>7 DEF Next
<1>2. Spec => []IInv
  BY Inductive
<1>3. ASSUME IInv, [Next]_vars
      PROVE  [Step]_replicas
  BY <1>1, <1>3 DEF Advances
<1>. QED
  BY <1>2, <1>3, PTL DEF Spec, NeverReopened, Step

-----------------------------------------------------------------------------
(* The refinement. *)

\* The four conjuncts of an abstract step, for a batch: what was decided
\* stays,
LEMMA BatchKept ==
  ASSUME IInv, NEW request, NEW count, NEW accepted, NEW drafts,
         Batch(request, count, accepted, drafts, log', decisions')
  PROVE  Canonical!Kept
<1>h. PICK head : head = Len(log)
  OBVIOUS
<1>1. /\ log \in Seq(CommittedOperation) /\ head \in Nat
      /\ log' \in Seq(CommittedOperation)
      /\ count \in Nat
      /\ Len(log') = head + count
      /\ \A k \in 1..head : log'[k] = log[k]
      /\ \A id \in DOMAIN decisions : /\ id \in DOMAIN decisions'
                                      /\ decisions'[id] = decisions[id]
  BY <1>h DEF Batch, IInv, TypeOK
<1>2. SubSeq(log', 1, head) = log
  <2>1. \A k \in 1..head : log'[k] \in CommittedOperation
    BY <1>1, <1>h, ElementOfSeq
  <2>2. /\ SubSeq(log', 1, head) \in Seq(CommittedOperation)
        /\ Len(SubSeq(log', 1, head)) = head
        /\ \A k \in 1..head : SubSeq(log', 1, head)[k] = log'[k]
    BY <1>1, <2>1, SubSeqProperties
  <2>. QED
    BY <1>1, <1>h, <2>2, SeqEqual
<1>3. Len(log) <= Len(log')
  BY <1>1, <1>h
<1>. QED
  BY <1>1, <1>2, <1>3, <1>h DEF Canonical!Kept

\* each new entry was decided by this batch,
LEMMA BatchEntriesDecided ==
  ASSUME IInv, NEW request \in requests, NEW count, NEW accepted, NEW drafts,
         Batch(request, count, accepted, drafts, log', decisions')
  PROVE  Canonical!EntriesDecided
<1> SUFFICES ASSUME NEW i \in Len(log) + 1 .. Len(log')
             PROVE  /\ log'[i].sequence = i
                    /\ log'[i].operationId \in
                           DOMAIN decisions' \ DOMAIN decisions
                    /\ decisions'[log'[i].operationId].decision =
                           Canonical!AcceptedFor(log'[i])
                    /\ Canonical!OriginOf(
                           decisions'[log'[i].operationId].identity) =
                           log'[i].origin
  BY DEF Canonical!EntriesDecided
<1>h. PICK head : head = Len(log)
  OBVIOUS
<1>l. PICK l : l = log'
  OBVIOUS
<1>d. PICK d : d = decisions'
  OBVIOUS
<1>1. LogAgrees(l, d)
  BY <1>l, <1>d, BatchLog
<1>2. /\ head \in Nat /\ count \in Nat /\ Len(l) = head + count
  BY <1>h, <1>l DEF Batch, IInv, TypeOK
<1>3. /\ i \in 1..Len(l)
      /\ i - head \in 1..count /\ head + (i - head) = i
  BY <1>2, <1>h, <1>l
<1>4. /\ l[i].sequence = i
      /\ l[i].operationId \in DOMAIN d
      /\ d[l[i].operationId].decision = AcceptedFor(l[i])
      /\ OriginOf(d[l[i].operationId].identity) = l[i].origin
  BY <1>1, <1>3 DEF LogAgrees
<1>5. l[i].operationId \notin DOMAIN decisions
  <2>n. PICK j \in 1..count : head + j = i
    BY <1>3
  <2>1. l[i] = CommittedEntry(request.proposals[accepted[j]], i, drafts[j])
    BY <1>h, <1>l, <2>n DEF Batch
  <2>2. accepted[j] \in Undecided(decisions, request.proposals)
    BY <2>n DEF Batch
  <2>. QED
    BY <2>1, <2>2 DEF CommittedEntry, Undecided
<1>. QED
  BY <1>4, <1>5, <1>l, <1>d DEF Canonical!AcceptedFor, AcceptedFor,
     Canonical!OriginOf, OriginOf

\* each new decision rejects or names one of the new entries,
LEMMA BatchDecisionsLogged ==
  ASSUME IInv, NEW request \in requests, NEW count, NEW accepted, NEW drafts,
         Batch(request, count, accepted, drafts, log', decisions')
  PROVE  Canonical!DecisionsLogged
<1> SUFFICES ASSUME NEW id \in DOMAIN decisions' \ DOMAIN decisions
             PROVE  \/ decisions'[id].decision = Canonical!RejectedFor(id)
                    \/ \E i \in Len(log) + 1 .. Len(log') :
                           log'[i].operationId = id
  BY DEF Canonical!DecisionsLogged
<1>h. PICK head : head = Len(log)
  OBVIOUS
<1>l. PICK l : l = log'
  OBVIOUS
<1>d. PICK d : d = decisions'
  OBVIOUS
<1>1. /\ head \in Nat /\ count \in Nat /\ Len(l) = head + count
  BY <1>h, <1>l DEF Batch, IInv, TypeOK
<1>2. PICK i \in Undecided(decisions, request.proposals) :
         id = request.proposals[i].operationId
  BY DEF Batch
<1>3. \/ \E j \in 1..count :
             /\ accepted[j] = i
             /\ d[id].decision = AcceptedFor(l[head + j])
      \/ d[id].decision = RejectedFor(id)
  BY <1>h, <1>l, <1>d, <1>2 DEF Batch
<1>4. CASE d[id].decision = RejectedFor(id)
  BY <1>4, <1>d DEF RejectedFor, Canonical!RejectedFor
<1>5. ASSUME NEW j \in 1..count, accepted[j] = i
      PROVE  \E k \in Len(log) + 1 .. Len(log') : log'[k].operationId = id
  <2>1. l[head + j] = CommittedEntry(request.proposals[i], head + j, drafts[j])
    BY <1>5, <1>h, <1>l DEF Batch
  <2>2. l[head + j].operationId = id
    BY <2>1, <1>2 DEF CommittedEntry
  <2>3. head + j \in head + 1 .. head + count
    BY <1>1
  <2>. QED
    BY <2>2, <2>3, <1>1, <1>h, <1>l
<1>. QED
  BY <1>3, <1>4, <1>5

\* and the state applies them.
LEMMA BatchStateFollows ==
  ASSUME IInv, NEW request \in requests, NEW count, NEW accepted, NEW drafts,
         Batch(request, count, accepted, drafts, log', decisions'),
         authorityState' \in Seq(Operations),
         Len(authorityState') = Len(log'),
         \A k \in 1..Len(log') : authorityState'[k] = log'[k].operation
  PROVE  Canonical!StateFollows
<1>h. PICK head : head = Len(log)
  OBVIOUS
<1>l. PICK l : l = log'
  OBVIOUS
<1>o. PICK old : old = authorityState
  OBVIOUS
<1>w. PICK new : new = authorityState'
  OBVIOUS
<1>a. PICK added : added = [k \in 1..count |-> l[head + k].operation]
  OBVIOUS
<1>1. /\ head \in Nat /\ count \in Nat /\ Len(l) = head + count
      /\ \A k \in 1..head : l[k] = log[k]
      /\ old \in Seq(Operations) /\ Len(old) = head
      /\ \A k \in 1..head : old[k] = log[k].operation
  BY <1>h, <1>l, <1>o DEF Batch, IInv, TypeOK, StateSound
<1>2. /\ new \in Seq(Operations) /\ Len(new) = head + count
      /\ \A k \in 1..head + count : new[k] = l[k].operation
  BY <1>1, <1>l, <1>w
<1>3. /\ added \in Seq(Operations) /\ Len(added) = count
      /\ \A k \in 1..count : added[k] = l[head + k].operation
  <2>1. ASSUME NEW k \in 1..count
        PROVE  l[head + k].operation \in Operations
    <3>1. head + k \in 1..head + count
      BY <1>1
    <3>2. new[head + k] \in Operations
      BY <1>2, <3>1, ElementOfSeq
    <3>. QED
      BY <1>2, <3>1, <3>2
  <2>2. added \in [1..count -> Operations]
    BY <1>a, <2>1
  <2>3. added \in Seq(Operations) /\ Len(added) = count
    BY <1>1, <2>2, SeqDef
  <2>4. \A k \in 1..count : added[k] = l[head + k].operation
    BY <1>a
  <2>. QED
    BY <2>3, <2>4
<1>4. /\ old \o added \in Seq(Operations)
      /\ Len(old \o added) = head + count
      /\ \A k \in 1..head + count :
            (old \o added)[k] = IF k <= head THEN old[k] ELSE added[k - head]
  BY <1>1, <1>3, ConcatProperties
<1>5. ASSUME NEW k \in 1..head + count
      PROVE  new[k] = (old \o added)[k]
  <2>1. CASE k <= head
    <3>1. k \in 1..head
      BY <1>1, <2>1
    <3>. QED
      BY <1>1, <1>2, <1>4, <2>1, <3>1
  <2>2. CASE ~ (k <= head)
    <3>1. k - head \in 1..count /\ head + (k - head) = k
      BY <1>1, <2>2
    <3>. QED
      BY <1>2, <1>3, <1>4, <2>2, <3>1
  <2>. QED
    BY <2>1, <2>2
<1>6. new = old \o added
  BY <1>1, <1>2, <1>4, <1>5, SeqEqual
<1>7. Len(log') - Len(log) = count
  BY <1>1, <1>h, <1>l
<1>. QED
  BY <1>6, <1>7, <1>a, <1>h, <1>l, <1>o, <1>w DEF Canonical!StateFollows

-----------------------------------------------------------------------------

\* The replicated log is a canonical log: every behaviour of clients,
\* authority and network is, on the authority's variables, one history that
\* grows at its end, with permanent decisions and the state that follows it.
THEOREM Refines == Spec => ImplementsCanonicalLog
<1>1. Init => Canonical!Init
  BY DEF Init, Canonical!Init
<1>2. ASSUME IInv, [Next]_vars
      PROVE  [Canonical!Decide]_<<log, decisions, authorityState>>
  <2>1. CASE SynchronizeStep
    <3>1. PICK request \in requests : Synchronize(request)
      BY <2>1 DEF SynchronizeStep
    <3>2. PICK count, accepted, drafts :
             /\ Batch(request, count, accepted, drafts, log', decisions')
             /\ authorityState' \in Seq(Operations)
             /\ Len(authorityState') = Len(log')
             /\ \A k \in 1..Len(log') :
                    authorityState'[k] = log'[k].operation
      BY <1>2, <3>1, SynchronizeEffect
    <3>3. Canonical!Kept
      BY <1>2, <3>2, BatchKept
    <3>4. Canonical!EntriesDecided
      BY <1>2, <3>2, BatchEntriesDecided
    <3>5. Canonical!DecisionsLogged
      BY <1>2, <3>2, BatchDecisionsLogged
    <3>6. Canonical!StateFollows
      BY <1>2, <3>2, BatchStateFollows
    <3>. QED
      BY <3>3, <3>4, <3>5, <3>6 DEF Canonical!Decide
  <2>2. CASE UNCHANGED vars
    BY <2>2 DEF vars
  <2>3. CASE EnqueueStep \/ DeleteStep \/ AcknowledgeStep \/ PrepareStep
                \/ MergeStep
    BY <2>3, StoreLeavesAuthority DEF authorityVars
  <2>. QED
    BY <1>2, <2>1, <2>2, <2>3 DEF Next
<1>3. Spec => []IInv
  BY Inductive
<1>. QED
  BY <1>1, <1>2, <1>3, PTL DEF Spec, ImplementsCanonicalLog, Canonical!Spec
=============================================================================
