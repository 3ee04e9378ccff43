------------------------------- MODULE D1Proofs -------------------------------
(***************************************************************************)
(* The steps of D1Authority preserve D1Inv: the clients' steps, what a     *)
(* call does before its commit, and the commit.  From the invariant follow *)
(* the properties of D1Properties and the refinement of CanonicalLog, for  *)
(* every value of the constants.                                           *)
(***************************************************************************)
EXTENDS D1Invariant, SequenceTheorems, FiniteSetTheorems, TLAPS

\* The initial state satisfies the inductive invariant.
LEMMA InitD1Inv == Init => D1Inv
<1> SUFFICES ASSUME Init PROVE D1Inv
  OBVIOUS
<1>0. \A h \in Handlers : calls[h] = Idle /\ Idle.pc = "idle"
  BY DEF Init, Idle
<1>1. D1TypeOK
  BY <1>0 DEF Init, D1TypeOK, At
<1>2. CallsTyped
  BY DEF Init, CallsTyped
<1>3. IssuedNumbered
  BY FS_EmptySet DEF Init, IssuedNumbered
<1>4. TablesSound
  BY DEF Init, TablesSound, HistorySound, EntriesStored, RowsSound,
     StoredInOrder, D1ClientOrderKept
<1>5. \A h \in Handlers : CallSound(calls[h])
  BY <1>0 DEF CallSound, NewCall, StagingCall
<1>. QED
  BY <1>1, <1>2, <1>3, <1>4, <1>5 DEF Init, D1Inv, NeverRefused

\* A call in progress has the type its program counter says.
LEMMA CallTypes ==
  ASSUME D1Inv, NEW h \in Handlers
  PROVE  /\ calls[h] \in {Idle} \cup NewCall \cup StagingCall
         /\ CallSound(calls[h])
         /\ calls \in [Handlers -> {Idle} \cup NewCall \cup StagingCall]
         /\ At(h, "stream") => calls[h] \in NewCall
         /\ (\/ At(h, "decision") \/ At(h, "position")
             \/ At(h, "commit") \/ At(h, "page")) => calls[h] \in StagingCall
         /\ ~ At(h, "idle") => calls[h] \in NewCall \cup StagingCall
  BY DEF D1Inv, CallsTyped, At, Idle, NewCall, StagingCall

\* What holds of a call says nothing of the other calls.
LEMMA CallSoundKept ==
  ASSUME NEW call, CallSound(call), UNCHANGED <<tables, requests>>,
         NEW g, call = calls[g]'
  PROVE  CallSound(calls[g])'
<1>1. /\ stream' = stream /\ logEntries' = logEntries
      /\ decisionRows' = decisionRows /\ requests' = requests
  BY DEF tables
<1>. QED
  BY <1>1 DEF CallSound, CallOwed, StagingSound, StateExtends, RowsStaged,
     RowStaged, StagedInOrder, DecidedSound, DecidedRows, HasRow, StillCurrent, Undisturbed,
     Published, Stored, Current

\* The tables and the messages are as sound as they were.
LEMMA TablesSoundKept ==
  ASSUME TablesSound, UNCHANGED <<tables, issued>>
  PROVE  TablesSound'
<1>1. /\ stream' = stream /\ logEntries' = logEntries
      /\ decisionRows' = decisionRows /\ issued' = issued
  BY DEF tables
<1>. QED
  BY <1>1 DEF TablesSound, HistorySound, EntriesStored, RowsSound,
     StoredInOrder, D1ClientOrderKept, Stored

\* Neither does what is true of the messages.
LEMMA MessagesKept ==
  ASSUME UNCHANGED <<tables, issued>>
  PROVE  /\ \A request : RequestHonest(request) => RequestHonest(request)'
         /\ \A response : ResponseTrue(response) => ResponseTrue(response)'
<1>1. /\ stream' = stream /\ logEntries' = logEntries
      /\ decisionRows' = decisionRows /\ issued' = issued
  BY DEF tables
<1>. QED
  BY <1>1 DEF RequestHonest, ResponseTrue, Complete, IssuedBy, Stored

\* A step of one call that leaves tables and messages alone only has to
\* leave the call itself sound.
LEMMA CallStep ==
  ASSUME D1Inv, NEW h \in Handlers, NEW call, Continue(h, call),
         call \in {Idle} \cup NewCall \cup StagingCall, CallSound(call),
         UNCHANGED <<tables, clientVars>>, NeverRefused',
         responses' \subseteq SyncResponse,
         \A response \in responses' \ responses : ResponseTrue(response)
  PROVE  D1Inv'
<1>1. /\ stream' = stream /\ logEntries' = logEntries
      /\ decisionRows' = decisionRows /\ requests' = requests
      /\ issued' = issued
  BY DEF tables, clientVars
<1>2. calls' \in [Handlers -> {Idle} \cup NewCall \cup StagingCall]
  BY DEF D1Inv, CallsTyped, Continue
<1>3. ASSUME NEW g \in Handlers
      PROVE  CallSound(calls[g])'
  <2>1. PICK c : c = calls[g]'
    OBVIOUS
  <2>2. CallSound(c)
    BY <2>1, CallTypes DEF Continue, D1Inv, CallsTyped
  <2>. QED
    BY <1>1, <2>1, <2>2, CallSoundKept DEF tables
<1>4. D1TypeOK'
  <2>1. ASSUME NEW g \in Handlers, calls'[g].pc # "idle"
        PROVE  [attempt |-> calls'[g].attempt,
                disturbed |-> calls'[g].disturbed,
                request |-> calls'[g].request] \in CallInProgress
    BY <1>2, <2>1 DEF CallInProgress, Idle, NewCall, StagingCall
  <2>. QED
    BY <1>1, <2>1 DEF D1TypeOK, D1Inv, At
<1>5. IssuedNumbered'
  BY <1>1 DEF D1Inv, IssuedNumbered, IssuedBy
<1>6. TablesSound'
  BY <1>1, TablesSoundKept DEF D1Inv, tables
<1>7. \A request \in requests' : RequestHonest(request)'
  BY <1>1, MessagesKept DEF D1Inv, tables
<1>8. \A response \in responses' : ResponseTrue(response)'
  BY <1>1, MessagesKept DEF D1Inv, tables
<1>. QED
  BY <1>2, <1>3, <1>4, <1>5, <1>6, <1>7, <1>8 DEF D1Inv, CallsTyped

\* A call that ends without an answer leaves nothing behind, and is refused
\* for nothing but its answer.
LEMMA EndKeepsInv ==
  ASSUME D1Inv, NEW h \in Handlers, Continue(h, Idle),
         UNCHANGED <<tables, clientVars, responses>>,
         failures' \subseteq failures \cup {"malformed response"}
  PROVE  D1Inv'
<1>1. CallSound(Idle)
  BY DEF CallSound, Idle, NewCall, StagingCall
<1>2. NeverRefused'
  BY DEF D1Inv, NeverRefused
<1>3. responses' \subseteq SyncResponse
  BY DEF D1Inv, D1TypeOK
<1>. QED
  BY <1>1, <1>2, <1>3, CallStep

\* A call that is received, or restarts, has read nothing yet.
LEMMA AttemptKeepsInv ==
  ASSUME D1Inv, NEW h \in Handlers, NEW request \in requests,
         NEW attempt \in 0..MaximumCommitRetries,
         NEW disturbed \in 0..MaximumCommitRetries, attempt <= disturbed,
         Continue(h, Attempt(request, attempt, disturbed)),
         UNCHANGED <<tables, clientVars, responses, failures>>
  PROVE  D1Inv'
<1> DEFINE call == Attempt(request, attempt, disturbed)
<1>1. call \in NewCall /\ call \notin StagingCall
  BY DEF D1Inv, D1TypeOK, Attempt, NewCall, StagingCall
<1>2. CallSound(call)
  BY <1>1 DEF CallSound, CallOwed, Attempt
<1>3. NeverRefused' /\ responses' \subseteq SyncResponse
  BY DEF D1Inv, D1TypeOK, NeverRefused
<1>. QED
  BY <1>1, <1>2, <1>3, CallStep

-----------------------------------------------------------------------------
(* The clients. *)

\* The new proposal comes after everything its client has issued, so no
\* request in flight lacks anything it should have carried.
LEMMA IssueKeepsInv == D1Inv /\ IssueStep => D1Inv'
<1> SUFFICES ASSUME D1Inv, NEW client \in Clients, NEW id \in OperationIds,
                    NEW hash \in IntentHashes, Issue(client, id, hash)
             PROVE  D1Inv'
  BY DEF IssueStep
<1>0. PICK p : p = [operationId |-> id, clientId |-> client,
                    clientSequence |-> Cardinality(IssuedBy(client)) + 1,
                    intentHash |-> hash]
  OBVIOUS
<1>1. /\ stream' = stream /\ logEntries' = logEntries
      /\ decisionRows' = decisionRows /\ requests' = requests
      /\ calls' = calls /\ responses' = responses /\ failures' = failures
      /\ issued' = issued \cup {p}
      /\ \A q \in issued : q.operationId # id
  BY <1>0 DEF Issue, tables
<1>2. /\ IsFiniteSet(issued) /\ issued \subseteq Proposal
      /\ \A q \in issued :
             q.clientSequence <= Cardinality(IssuedBy(q.clientId))
  BY DEF D1Inv, D1TypeOK, IssuedNumbered
<1>3. \A c : /\ IsFiniteSet(IssuedBy(c))
             /\ Cardinality(IssuedBy(c)) \in Nat
  BY <1>2, FS_Subset, FS_CardinalityType DEF IssuedBy
<1>4. /\ p \in Proposal /\ p.operationId = id /\ p.clientId = client
      /\ p.clientSequence = Cardinality(IssuedBy(client)) + 1
  BY <1>0, <1>3 DEF Proposal, ClientSequence
<1>5. ASSUME NEW q \in issued, q.clientId = client
      PROVE  q.clientSequence < p.clientSequence
  BY <1>2, <1>3, <1>4, <1>5 DEF Proposal, ClientSequence
<1>6. IssuedNumbered'
  <2>1. IsFiniteSet(issued')
    BY <1>1, <1>2, FS_AddElement
  <2>2. ASSUME NEW q \in issued'
        PROVE  q.clientSequence <= Cardinality(IssuedBy(q.clientId)')
    <3>1. CASE q.clientId = client
      <4>1. IssuedBy(client)' = IssuedBy(client) \cup {p}
        BY <1>1, <1>4 DEF IssuedBy
      <4>2. p \notin IssuedBy(client)
        BY <1>1, <1>4 DEF IssuedBy
      <4>3. Cardinality(IssuedBy(client)') = Cardinality(IssuedBy(client)) + 1
        BY <1>3, <4>1, <4>2, FS_AddElement
      <4>4. PICK n \in Nat : n = Cardinality(IssuedBy(client))
        BY <1>3
      <4>5. CASE q = p
        BY <3>1, <4>3, <4>4, <4>5, <1>4
      <4>6. CASE q \in issued
        <5>1. q.clientSequence \in Nat /\ q.clientSequence <= n
          BY <1>2, <3>1, <4>4, <4>6 DEF Proposal, ClientSequence
        <5>. QED
          BY <3>1, <4>3, <4>4, <5>1
      <4>. QED
        BY <1>1, <4>5, <4>6
    <3>2. CASE q.clientId # client
      <4>1. IssuedBy(q.clientId)' = IssuedBy(q.clientId) /\ q \in issued
        BY <1>1, <1>4, <3>2 DEF IssuedBy
      <4>. QED
        BY <1>2, <4>1
    <3>. QED
      BY <3>1, <3>2
  <2>3. ASSUME NEW q \in issued', NEW r \in issued',
               q.operationId = r.operationId \/ SamePosition(q, r)
        PROVE  q = r
    <3>1. CASE q \in issued /\ r \in issued
      BY <2>3, <3>1 DEF D1Inv, IssuedNumbered
    <3>2. ASSUME NEW old \in issued
          PROVE  ~ (old.operationId = p.operationId \/ SamePosition(old, p)
                    \/ SamePosition(p, old))
      <4>1. old.clientSequence \in Nat /\ p.clientSequence \in Nat
        BY <1>2, <1>4 DEF Proposal, ClientSequence
      <4>. QED
        BY <1>1, <1>4, <1>5, <4>1 DEF SamePosition
    <3>. QED
      BY <1>1, <2>3, <3>1, <3>2
  <2>. QED
    BY <2>1, <2>2, <2>3 DEF IssuedNumbered
<1>7. ASSUME NEW request \in requests
      PROVE  RequestHonest(request)'
  <2>1. /\ RequestHonest(request) /\ request \in SyncRequest
    BY DEF D1Inv, D1TypeOK
  <2>2. PICK ps : ps = request.proposals
    OBVIOUS
  <2>3. /\ DOMAIN ps = 1..Len(ps)
        /\ \A i \in 1..Len(ps) : /\ ps[i] \in issued
                                 /\ ps[i].clientId = request.replica
    BY <2>1, <2>2 DEF RequestHonest, SyncRequest
  <2>4. Complete(request.replica, ps)'
    <3> SUFFICES ASSUME NEW i \in DOMAIN ps,
                        NEW earlier \in IssuedBy(request.replica)',
                        earlier.clientSequence < ps[i].clientSequence
                 PROVE  \/ Stored(earlier.operationId)'
                        \/ \E j \in DOMAIN ps : ps[j] = earlier
      BY DEF Complete
    <3>1. ps[i] \in issued /\ ps[i].clientId = request.replica
      BY <2>3
    <3>2. earlier # p
      <4>1. SUFFICES ASSUME earlier = p PROVE FALSE
        OBVIOUS
      <4>2. request.replica = client
        BY <1>4, <4>1 DEF IssuedBy
      <4>3. ps[i].clientSequence < p.clientSequence
        BY <1>5, <3>1, <4>2
      <4>4. ps[i].clientSequence \in Nat /\ p.clientSequence \in Nat
        BY <1>2, <1>4, <3>1 DEF Proposal, ClientSequence
      <4>. QED
        BY <4>1, <4>3, <4>4
    <3>3. earlier \in IssuedBy(request.replica)
      BY <1>1, <3>2 DEF IssuedBy
    <3>. QED
      BY <1>1, <2>1, <2>2, <3>3 DEF RequestHonest, Complete, Stored
  <2>. QED
    BY <1>1, <2>1, <2>2, <2>4 DEF RequestHonest
<1>8. TablesSound'
  <2>1. ASSUME NEW d \in decisionRows, NEW q \in issued',
               q.clientId = d.identity.clientId,
               q.clientSequence < d.identity.clientSequence
        PROVE  Stored(q.operationId)
    <3>1. d.identity \in issued
      BY DEF D1Inv, TablesSound, RowsSound
    <3>2. q # p
      <4>1. SUFFICES ASSUME q = p PROVE FALSE
        OBVIOUS
      <4>2. d.identity.clientSequence < p.clientSequence
        BY <1>4, <1>5, <2>1, <3>1, <4>1
      <4>3. /\ d.identity.clientSequence \in Nat
            /\ p.clientSequence \in Nat
        BY <1>2, <1>4, <3>1 DEF Proposal, ClientSequence
      <4>. QED
        BY <2>1, <4>1, <4>2, <4>3
    <3>. QED
      BY <1>1, <2>1, <3>2 DEF D1Inv, TablesSound, StoredInOrder
  <2>. QED
    BY <1>1, <2>1 DEF D1Inv, TablesSound, HistorySound, EntriesStored,
       RowsSound, StoredInOrder, D1ClientOrderKept, Stored
<1>9. \A h \in Handlers : CallSound(calls[h])'
  BY <1>1, CallSoundKept DEF D1Inv, tables
<1>10. \A response \in responses' : ResponseTrue(response)'
  BY <1>1 DEF D1Inv, ResponseTrue
<1>11. D1TypeOK' /\ CallsTyped' /\ NeverRefused'
  BY <1>1, <1>4 DEF D1Inv, D1TypeOK, CallsTyped, NeverRefused, At
<1>. QED
  BY <1>1, <1>6, <1>7, <1>8, <1>9, <1>10, <1>11 DEF D1Inv

\* What a client sends it has issued, and it knows no head the authority
\* has not had.
LEMMA SendKeepsInv == D1Inv /\ SendStep => D1Inv'
<1> SUFFICES ASSUME D1Inv, NEW client \in Clients,
                    NEW base \in 0..stream.headSequence,
                    NEW size \in PageSizes,
                    NEW count \in 0..MaximumProposalsPerRequest,
                    NEW proposals \in [1..count -> IssuedBy(client)],
                    Send(client, base, size, proposals)
             PROVE  D1Inv'
  BY DEF SendStep
<1>0. PICK request : request =
          [replica |-> client, baseSequence |-> base,
           maximumEntries |-> size, proposals |-> proposals]
  OBVIOUS
<1>1. /\ stream' = stream /\ logEntries' = logEntries
      /\ decisionRows' = decisionRows /\ issued' = issued
      /\ calls' = calls /\ responses' = responses /\ failures' = failures
      /\ requests' = requests \cup {request}
      /\ AssertSyncRequest(request) /\ Complete(client, proposals)
  BY <1>0 DEF Send, tables
<1>2. /\ stream.headSequence \in Nat /\ issued \subseteq Proposal
  BY DEF D1Inv, D1TypeOK
<1>3. /\ count \in Nat
      /\ proposals \in [1..count -> Proposal]
      /\ proposals \in Seq(Proposal) /\ Len(proposals) = count
      /\ \A i \in 1..count : /\ proposals[i] \in issued
                             /\ proposals[i].clientId = client
  <2>1. count \in Nat
    BY LimitsAssumption
  <2>2. \A i \in 1..count : /\ proposals[i] \in issued
                            /\ proposals[i].clientId = client
    BY DEF IssuedBy
  <2>3. proposals \in [1..count -> Proposal]
    BY <1>2, <2>2
  <2>4. proposals \in Seq(Proposal) /\ Len(proposals) = count
    BY <2>1, <2>3, SeqDef
  <2>. QED
    BY <2>1, <2>2, <2>3, <2>4
<1>4. request \in SyncRequest
  BY <1>0, <1>2, <1>3, PageSizesAssumption DEF SyncRequest, LogSequence
<1>5. RequestHonest(request)
  BY <1>0, <1>1, <1>2, <1>3 DEF RequestHonest
<1>6. \A r \in requests' : RequestHonest(r)'
  BY <1>1, <1>5, MessagesKept DEF D1Inv, tables
<1>7. TablesSound' /\ \A r \in responses' : ResponseTrue(r)'
  BY <1>1, TablesSoundKept, MessagesKept DEF D1Inv, tables
<1>8. ASSUME NEW g \in Handlers
      PROVE  CallSound(calls[g])'
  <2>1. CallSound(calls[g])
    BY DEF D1Inv
  <2>. QED
    BY <1>1, <2>1 DEF CallSound, CallOwed, StagingSound, StateExtends,
       RowsStaged, RowStaged, StagedInOrder, DecidedSound, DecidedRows, HasRow, StillCurrent,
       Undisturbed, Published, Stored, Current
<1>9. D1TypeOK' /\ CallsTyped' /\ NeverRefused' /\ IssuedNumbered'
  BY <1>1, <1>4 DEF D1Inv, D1TypeOK, CallsTyped, NeverRefused, At,
     IssuedNumbered, IssuedBy
<1>. QED
  BY <1>6, <1>7, <1>8, <1>9 DEF D1Inv

-----------------------------------------------------------------------------
(* Calls. *)

\* The proposals a call works through: issued, and distinct in their ids,
\* in their client's order.
LEMMA CallProposals ==
  ASSUME D1Inv, NEW call \in NewCall \cup StagingCall, CallSound(call),
         NEW ps, ps = call.request.proposals
  PROVE  /\ RequestHonest(call.request) /\ call.request \in requests
         /\ call.request \in SyncRequest
         /\ ps \in Seq(Proposal) /\ Len(ps) \in Nat
         /\ DOMAIN ps = 1..Len(ps)
         /\ \A i \in 1..Len(ps) :
                /\ ps[i] \in issued /\ ps[i] \in Proposal
                /\ ps[i].clientId = call.request.replica
         /\ \A i, j \in 1..Len(ps) : i < j =>
                /\ ps[i].operationId # ps[j].operationId
                /\ ps[i].clientSequence < ps[j].clientSequence
<1>1. /\ RequestHonest(call.request) /\ call.request \in requests
      /\ call.request \in SyncRequest /\ issued \subseteq Proposal
  BY DEF CallSound, CallOwed, D1Inv, D1TypeOK
<1>2. ps \in Seq(Proposal) /\ Len(ps) \in Nat /\ DOMAIN ps = 1..Len(ps)
  BY <1>1 DEF SyncRequest
<1>3. \A i \in 1..Len(ps) : /\ ps[i] \in issued /\ ps[i] \in Proposal
                            /\ ps[i].clientId = call.request.replica
  BY <1>1 DEF RequestHonest
<1>. QED
  BY <1>1, <1>2, <1>3 DEF RequestHonest, AssertSyncRequest,
     AssertProposalBatch

\* The fields of a call that has read the stream.
LEMMA StagingTypes ==
  ASSUME NEW call \in StagingCall
  PROVE  /\ call.pc \in {"decision", "position", "commit", "page"}
         /\ call.attempt \in 0..MaximumCommitRetries
         /\ call.disturbed \in 0..MaximumCommitRetries
         /\ call.readHead \in Nat
         /\ call.state \in Seq(Operations) /\ Len(call.state) \in Nat
         /\ call.staged \in Seq(CommittedOperation) /\ Len(call.staged) \in Nat
         /\ call.rows \subseteq StoredRow
         /\ call.decided \in Seq(ProposalDecision) /\ Len(call.decided) \in Nat
         /\ call \notin NewCall
  BY DEF StagingCall, NewCall

\* Receive.
LEMMA ReceiveKeepsInv == D1Inv /\ ReceiveStep => D1Inv'
<1> SUFFICES ASSUME D1Inv, NEW h \in Handlers, NEW request \in requests,
                    Receive(h, request)
             PROVE  D1Inv'
  BY DEF ReceiveStep
<1>1. 0 \in 0..MaximumCommitRetries
  BY RetriesAssumption
<1>. QED
  BY <1>1, AttemptKeepsInv DEF Receive

\* A retry in general.
LEMMA RetryKeepsInv ==
  ASSUME D1Inv, NEW h \in Handlers, NEW call, Retry(h, call),
         calls[h] \in NewCall \cup StagingCall,
         call.request = calls[h].request, call.attempt = calls[h].attempt,
         call.disturbed \in 0..MaximumCommitRetries,
         MayRetry(call) => call.attempt < call.disturbed
  PROVE  D1Inv'
<1>1. /\ call.request \in requests
      /\ call.attempt \in 0..MaximumCommitRetries
  BY CallTypes DEF CallSound, CallOwed, NewCall, StagingCall
<1>2. CASE MayRetry(call)
  <2>1. Continue(h, Attempt(call.request, call.attempt + 1, call.disturbed))
    BY <1>2 DEF Retry, NextAttempt
  <2>2. /\ call.attempt + 1 \in 0..MaximumCommitRetries
        /\ call.attempt + 1 <= call.disturbed
    BY <1>1, <1>2, RetriesAssumption DEF MayRetry
  <2>. QED
    BY <1>1, <2>1, <2>2, AttemptKeepsInv DEF Retry
<1>3. CASE ~ MayRetry(call)
  BY <1>3, EndKeepsInv DEF Retry
<1>. QED
  BY <1>2, <1>3

\* The history fields of a call that was disturbed.
LEMMA DisturbedCall ==
  ASSUME NEW call \in NewCall \cup StagingCall,
         call.attempt <= call.disturbed
  PROVE  /\ call \in NewCall => Disturbed(call) \in NewCall
         /\ call \in StagingCall => Disturbed(call) \in StagingCall
         /\ Disturbed(call).disturbed \in 0..MaximumCommitRetries
         /\ \A field \in {"pc", "request", "attempt", "readHead", "state",
                          "staged", "rows", "decided"} :
                Disturbed(call)[field] = call[field]
         /\ call.attempt <= Disturbed(call).disturbed
         /\ MayRetry(call) => call.attempt < Disturbed(call).disturbed
         /\ ~ Undisturbed(Disturbed(call))
<1>1. /\ call.attempt \in 0..MaximumCommitRetries
      /\ call.disturbed \in 0..MaximumCommitRetries
  BY DEF NewCall, StagingCall
<1>2. PICK d : d = IF call.disturbed < MaximumCommitRetries
                   THEN call.disturbed + 1 ELSE call.disturbed
  OBVIOUS
<1>3. Disturbed(call) = [call EXCEPT !.disturbed = d]
  BY <1>2 DEF Disturbed
<1>4. /\ d \in 0..MaximumCommitRetries /\ call.attempt <= d
      /\ call.attempt < MaximumCommitRetries => call.attempt < d
  BY <1>1, <1>2, RetriesAssumption
<1>5. /\ call \in NewCall => Disturbed(call) \in NewCall
      /\ call \in StagingCall => Disturbed(call) \in StagingCall
  BY <1>3, <1>4 DEF NewCall, StagingCall
<1>6. /\ Disturbed(call).disturbed = d
      /\ \A field \in {"pc", "request", "attempt", "readHead", "state",
                       "staged", "rows", "decided"} :
             Disturbed(call)[field] = call[field]
  BY <1>3 DEF NewCall, StagingCall
<1>7. Disturbed(call).attempt = call.attempt
  BY <1>6
<1>. QED
  BY <1>1, <1>4, <1>5, <1>6, <1>7 DEF MayRetry, Undisturbed

\* A busy database owes the call a retry.
LEMMA BusyKeepsInv ==
  ASSUME D1Inv, NEW h \in Handlers, Busy(h)
  PROVE  D1Inv'
<1>1. /\ calls[h] \in NewCall \cup StagingCall
      /\ calls[h].attempt <= calls[h].disturbed
  BY CallTypes DEF Busy, CallSound, CallOwed
<1>2. PICK call : call = Disturbed(calls[h])
  OBVIOUS
<1>3. /\ call.disturbed \in 0..MaximumCommitRetries
      /\ call.request = calls[h].request /\ call.attempt = calls[h].attempt
      /\ MayRetry(calls[h]) => calls[h].attempt < call.disturbed
  BY <1>1, <1>2, DisturbedCall
<1>4. Retry(h, call) /\ (MayRetry(call) <=> MayRetry(calls[h]))
  BY <1>2, <1>3 DEF Busy, MayRetry
<1>. QED
  BY <1>1, <1>3, <1>4, RetryKeepsInv

\* Abandon.
LEMMA AbandonKeepsInv ==
  ASSUME D1Inv, NEW h \in Handlers, Abandon(h)
  PROVE  D1Inv'
  BY EndKeepsInv DEF Abandon

\* An attempt starts on the head and the state of one moment, and the
\* request of an honest client is never refused.
LEMMA ReadStreamKeepsInv ==
  ASSUME D1Inv, NEW h \in Handlers, ReadStream(h)
  PROVE  D1Inv'
<1>1. PICK old : old = calls[h]
  OBVIOUS
<1>2. /\ old \in NewCall /\ old \in NewCall \cup StagingCall
      /\ CallSound(old) /\ old.attempt <= old.disturbed
      /\ old.request \in requests
  BY <1>1, CallTypes DEF ReadStream, CallSound, CallOwed
<1>3. PICK ps : ps = old.request.proposals
  OBVIOUS
<1>4. /\ RequestHonest(old.request) /\ old.request \in SyncRequest
      /\ ps \in Seq(Proposal) /\ Len(ps) \in Nat
  BY <1>2, <1>3, CallProposals
<1>5. /\ AssertSyncRequest(old.request)
      /\ old.request.baseSequence \in Nat
      /\ old.request.baseSequence <= stream.headSequence
      /\ stream.headSequence \in Nat
      /\ stream.state \in Seq(Operations)
      /\ Len(stream.state) = stream.headSequence
  BY <1>4 DEF RequestHonest, SyncRequest, D1Inv, D1TypeOK, TablesSound,
     HistorySound
<1>6. PICK read : read =
          [pc |-> "stream", request |-> old.request,
           attempt |-> old.attempt, disturbed |-> old.disturbed,
           readHead |-> stream.headSequence, state |-> stream.state,
           staged |-> <<>>, rows |-> {}, decided |-> <<>>]
  OBVIOUS
<1>7. Proceed(h, read)
  <2>1. ~ (calls[h].request.baseSequence > stream.headSequence)
    BY <1>1, <1>5
  <2>2. AssertSyncRequest(calls[h].request)
    BY <1>1, <1>5
  <2>3. read = [pc |-> "stream", request |-> calls[h].request,
                attempt |-> calls[h].attempt,
                disturbed |-> calls[h].disturbed,
                readHead |-> stream.headSequence, state |-> stream.state,
                staged |-> <<>>, rows |-> {}, decided |-> <<>>]
    BY <1>1, <1>6
  <2>. QED
    BY <2>1, <2>2, <2>3, Zenon DEF ReadStream
<1>8. PICK pc : pc = IF 0 < Len(ps) THEN "decision" ELSE "page"
  OBVIOUS
<1>9. PICK new : new = [read EXCEPT !.pc = pc]
  OBVIOUS
<1>10. /\ Continue(h, new)
       /\ UNCHANGED <<tables, clientVars, responses, failures>>
  <2>1. /\ Len(read.decided) = 0 /\ read.request.proposals = ps
        /\ ~ NeedsCommit(read)
    BY <1>3, <1>6 DEF NeedsCommit
  <2>. QED
    BY <1>7, <1>8, <1>9, <2>1 DEF Proceed
<1>11. new = [pc |-> pc, request |-> old.request,
              attempt |-> old.attempt, disturbed |-> old.disturbed,
              readHead |-> stream.headSequence, state |-> stream.state,
              staged |-> <<>>, rows |-> {}, decided |-> <<>>]
  BY <1>6, <1>9
<1>12. new \in StagingCall /\ new \notin NewCall
  BY <1>2, <1>4, <1>5, <1>8, <1>11 DEF NewCall, StagingCall
<1>13. StagingSound(new)
  <2>1. StateExtends(new)
    BY <1>5, <1>11 DEF StateExtends
  <2>2. RowsStaged(new) /\ StagedInOrder(new)
    BY <1>11 DEF RowsStaged, StagedInOrder
  <2>3. DecidedSound(new)
    BY <1>3, <1>4, <1>8, <1>11 DEF DecidedSound, DecidedRows
  <2>4. StillCurrent(new)
    BY <1>8, <1>11 DEF StillCurrent
  <2>5. Published(new)
    BY <1>5, <1>11 DEF Published
  <2>. QED
    BY <2>1, <2>2, <2>3, <2>4, <2>5 DEF StagingSound
<1>14. CallSound(new)
  BY <1>2, <1>11, <1>12, <1>13 DEF CallSound, CallOwed
<1>15. NeverRefused' /\ responses' \subseteq SyncResponse
  BY <1>10 DEF D1Inv, D1TypeOK, NeverRefused
<1>. QED
  BY <1>10, <1>12, <1>14, <1>15, CallStep

\* A stored decision is the one of this very proposal: the ids are unique.
LEMMA StoredIdentity ==
  ASSUME D1Inv, NEW row \in decisionRows, NEW p \in issued,
         \/ row.identity.operationId = p.operationId
         \/ SamePosition(row.identity, p)
  PROVE  row.identity = p /\ row.decision.operationId = p.operationId
  BY DEF D1Inv, TablesSound, RowsSound, IssuedNumbered

\* Nothing that a call did is undone by going on to the next proposal, with
\* one more decision, staged entries or rows: what is common to the two
\* ways to decide one, and to finding it decided.
LEMMA ProceedKeepsInv ==
  ASSUME D1Inv, NEW h \in Handlers, NEW call \in StagingCall,
         Proceed(h, call), CallOwed(call),
         StateExtends(call), RowsStaged(call), StagedInOrder(call),
         call.request.proposals \in Seq(Proposal),
         DecidedRows(call),
         Undisturbed(call) =>
             /\ call.readHead = stream.headSequence
             /\ \A new \in call.rows : ~ Stored(new.identity.operationId)
  PROVE  D1Inv'
<1>1. PICK pc : pc = IF Len(call.decided) < Len(call.request.proposals)
                     THEN "decision"
                     ELSE IF NeedsCommit(call) THEN "commit" ELSE "page"
  OBVIOUS
<1>2. PICK new : new = [call EXCEPT !.pc = pc]
  OBVIOUS
<1>3. /\ Continue(h, new)
      /\ UNCHANGED <<tables, clientVars, responses, failures>>
  BY <1>1, <1>2 DEF Proceed
<1>4. /\ new \in StagingCall /\ new \notin NewCall
      /\ new.pc = pc /\ new.request = call.request
      /\ new.attempt = call.attempt /\ new.disturbed = call.disturbed
      /\ new.readHead = call.readHead /\ new.state = call.state
      /\ new.staged = call.staged /\ new.rows = call.rows
      /\ new.decided = call.decided
  BY <1>1, <1>2 DEF StagingCall, NewCall
<1>5. StagingSound(new)
  <2>1. StateExtends(new) /\ StagedInOrder(new)
    BY <1>4 DEF StateExtends, StagedInOrder
  <2>5. RowsStaged(new)
    <3>1. ASSUME NEW row \in call.rows
          PROVE  RowStaged(new, row)
      <4>1. RowStaged(call, row)
        BY DEF RowsStaged
      <4>. QED
        BY <1>4, <4>1 DEF RowStaged
    <3>. QED
      BY <1>4, <3>1 DEF RowsStaged
  <2>2. DecidedSound(new)
    <3>1. /\ Len(call.decided) \in Nat
          /\ Len(call.request.proposals) \in Nat
      BY StagingTypes
    <3>. QED
      BY <1>1, <1>4, <3>1 DEF DecidedSound, DecidedRows, HasRow
  <2>3. StillCurrent(new)
    BY <1>1, <1>4 DEF StillCurrent, Undisturbed
  <2>4. Published(new)
    <3>1. SUFFICES ASSUME pc = "page" PROVE Published(new)
      BY <1>4 DEF Published
    <3>2. call.rows = {}
      BY <1>1, <3>1 DEF NeedsCommit
    <3>3. Len(call.staged) = 0
      <4>1. Len(call.staged) \in Nat
        BY StagingTypes
      <4>2. ~ (1 \in 1..Len(call.staged))
        BY <3>2 DEF RowsStaged
      <4>. QED
        BY <4>1, <4>2
    <3>4. /\ call.readHead \in Nat /\ call.readHead <= stream.headSequence
      BY StagingTypes DEF StateExtends
    <3>. QED
      BY <1>4, <3>2, <3>3, <3>4 DEF Published
  <2>. QED
    BY <2>1, <2>2, <2>3, <2>4, <2>5 DEF StagingSound
<1>6. CallSound(new)
  BY <1>4, <1>5 DEF CallSound, CallOwed
<1>7. NeverRefused' /\ responses' \subseteq SyncResponse
  BY <1>3 DEF D1Inv, D1TypeOK, NeverRefused
<1>. QED
  BY <1>3, <1>4, <1>6, <1>7, CallStep

\* The proposal a call is about to decide, or to find decided.
LEMMA CurrentProposal ==
  ASSUME D1Inv, NEW h \in Handlers, At(h, "decision") \/ At(h, "position"),
         NEW call, call = calls[h], NEW p, p = Current(call)
  PROVE  /\ call \in StagingCall /\ CallSound(call)
         /\ CallOwed(call) /\ StagingSound(call)
         /\ call.request.proposals \in Seq(Proposal)
         /\ Len(call.request.proposals) \in Nat
         /\ Len(call.decided) \in Nat
         /\ Len(call.decided) + 1 \in 1..Len(call.request.proposals)
         /\ p = call.request.proposals[Len(call.decided) + 1]
         /\ p \in issued /\ p \in Proposal
<1>1. /\ call \in StagingCall /\ CallSound(call)
      /\ call.pc \in {"decision", "position"}
  BY CallTypes DEF At
<1>2. /\ CallOwed(call) /\ StagingSound(call)
      /\ Len(call.decided) < Len(call.request.proposals)
  BY <1>1 DEF CallSound, StagingSound, DecidedSound
<1>3. /\ call.request.proposals \in Seq(Proposal)
      /\ Len(call.request.proposals) \in Nat
      /\ \A i \in 1..Len(call.request.proposals) :
             /\ call.request.proposals[i] \in issued
             /\ call.request.proposals[i] \in Proposal
  BY <1>1, CallProposals
<1>4. Len(call.decided) \in Nat
  BY <1>1, StagingTypes
<1>5. Len(call.decided) + 1 \in 1..Len(call.request.proposals)
  BY <1>2, <1>3, <1>4
<1>. QED
  BY <1>1, <1>2, <1>3, <1>4, <1>5 DEF Current

\* A call has dealt with its next proposal, the outcome of which has a row.
DealtWith(call, new, p, decision) ==
    /\ call \in StagingCall /\ DecidedSound(call)
    /\ call.request.proposals \in Seq(Proposal)
    /\ Len(call.decided) + 1 \in 1..Len(call.request.proposals)
    /\ p = call.request.proposals[Len(call.decided) + 1]
    /\ decision \in ProposalDecision /\ decision.operationId = p.operationId
    /\ new.request = call.request
    /\ new.decided = Append(call.decided, decision)
    /\ call.rows \subseteq new.rows /\ HasRow(new, p, decision)

\* The decisions of a call that has dealt with one more proposal.
LEMMA OneMoreDecided ==
  ASSUME NEW call, NEW new, NEW p, NEW decision, DealtWith(call, new, p, decision)
  PROVE  /\ new.decided \in Seq(ProposalDecision)
         /\ Len(new.decided) = Len(call.decided) + 1
         /\ DecidedRows(new)
<1> DEFINE decided == new.decided
<1>. /\ call \in StagingCall /\ DecidedSound(call)
     /\ call.request.proposals \in Seq(Proposal)
     /\ Len(call.decided) + 1 \in 1..Len(call.request.proposals)
     /\ p = call.request.proposals[Len(call.decided) + 1]
     /\ decision \in ProposalDecision /\ decision.operationId = p.operationId
     /\ new.request = call.request
     /\ new.decided = Append(call.decided, decision)
     /\ call.rows \subseteq new.rows /\ HasRow(new, p, decision)
  BY DEF DealtWith
<1>1. /\ call.decided \in Seq(ProposalDecision) /\ Len(call.decided) \in Nat
  BY StagingTypes
<1>2. /\ decided \in Seq(ProposalDecision)
      /\ Len(decided) = Len(call.decided) + 1
      /\ \A k \in 1..Len(call.decided) : decided[k] = call.decided[k]
      /\ decided[Len(decided)] = decision
  BY <1>1, AppendProperties
<1>3. /\ Len(decided) <= Len(call.request.proposals)
      /\ \A k \in 1..Len(call.decided) : k \in 1..Len(decided)
  BY <1>1, <1>2
<1>4. ASSUME NEW k \in 1..Len(decided)
      PROVE  /\ decided[k].operationId =
                    call.request.proposals[k].operationId
             /\ HasRow(new, call.request.proposals[k], decided[k])
  <2>1. CASE k = Len(decided)
    BY <1>2, <2>1
  <2>2. CASE k \in 1..Len(call.decided)
    BY <1>2, <2>2 DEF DecidedSound, DecidedRows, HasRow
  <2>. QED
    BY <1>1, <1>2, <2>1, <2>2
<1>. QED
  BY <1>2, <1>3, <1>4 DEF DecidedRows

\* A retry finds the decision of the very proposal it repeats.
LEMMA ReadStoredDecisionKeepsInv ==
  ASSUME D1Inv, NEW h \in Handlers, ReadStoredDecision(h)
  PROVE  D1Inv'
<1>1. PICK call : call = calls[h]
  OBVIOUS
<1>2. PICK p : p = Current(call)
  OBVIOUS
<1>3. /\ call \in StagingCall /\ CallSound(call) /\ call.pc = "decision"
      /\ CallOwed(call) /\ StagingSound(call)
      /\ call.request.proposals \in Seq(Proposal)
      /\ Len(call.decided) + 1 \in 1..Len(call.request.proposals)
      /\ p = call.request.proposals[Len(call.decided) + 1]
      /\ p \in issued
  BY <1>1, <1>2, CurrentProposal DEF ReadStoredDecision, At
<1>4. CASE ~ Stored(p.operationId)
  <2>1. PICK new : new = [call EXCEPT !.pc = "position"]
    OBVIOUS
  <2>2. /\ Continue(h, new)
        /\ UNCHANGED <<tables, clientVars, responses, failures>>
    BY <1>1, <1>2, <1>4, <2>1 DEF ReadStoredDecision, Stored
  <2>3. /\ new \in StagingCall /\ new \notin NewCall
        /\ new.pc = "position" /\ new.request = call.request
        /\ new.attempt = call.attempt /\ new.disturbed = call.disturbed
        /\ new.readHead = call.readHead /\ new.state = call.state
        /\ new.staged = call.staged /\ new.rows = call.rows
        /\ new.decided = call.decided
    BY <1>3, <2>1 DEF StagingCall, NewCall
  <2>4. StateExtends(new) /\ StagedInOrder(new)
    BY <1>3, <2>3 DEF StagingSound, StateExtends, StagedInOrder
  <2>5. RowsStaged(new)
    <3>1. ASSUME NEW row \in call.rows
          PROVE  RowStaged(new, row)
      <4>1. RowStaged(call, row)
        BY <1>3 DEF StagingSound, RowsStaged
      <4>. QED
        BY <2>3, <4>1 DEF RowStaged
    <3>. QED
      BY <1>3, <2>3, <3>1 DEF StagingSound, RowsStaged
  <2>6. DecidedSound(new) /\ Published(new)
    BY <1>3, <2>3 DEF StagingSound, DecidedSound, DecidedRows,
       HasRow, Published
  <2>7. StillCurrent(new)
    BY <1>2, <1>3, <1>4, <2>3 DEF StagingSound, StillCurrent, Undisturbed,
       Current
  <2>8. CallSound(new)
    BY <1>3, <2>3, <2>4, <2>5, <2>6, <2>7 DEF CallSound, CallOwed,
       StagingSound
  <2>9. NeverRefused' /\ responses' \subseteq SyncResponse
    BY <2>2 DEF D1Inv, D1TypeOK, NeverRefused
  <2>. QED
    BY <2>2, <2>3, <2>8, <2>9, CallStep
<1>5. CASE Stored(p.operationId)
  <2>1. PICK row \in decisionRows :
           /\ row.identity.operationId = p.operationId
           /\ IF row.identity # p THEN Fail(h, "conflict")
              ELSE Proceed(h, [call EXCEPT !.decided =
                                   Append(@, row.decision)])
    BY <1>1, <1>2, <1>5 DEF ReadStoredDecision, Stored
  <2>2. row.identity = p /\ row.decision.operationId = p.operationId
    BY <1>3, <2>1, StoredIdentity
  <2>3. row.decision \in ProposalDecision
    BY DEF D1Inv, D1TypeOK
  <2>4. PICK new : new = [call EXCEPT !.decided = Append(@, row.decision)]
    OBVIOUS
  <2>5. Proceed(h, new)
    BY <2>1, <2>2, <2>4
  <2>6. /\ new.request = call.request /\ new.rows = call.rows
        /\ new.decided = Append(call.decided, row.decision)
    BY <1>3, <2>4 DEF StagingCall
  <2>7. /\ new.decided \in Seq(ProposalDecision)
        /\ \A k \in 1..Len(call.decided) : /\ k \in 1..Len(new.decided)
                                          /\ new.decided[k] = call.decided[k]
        /\ DecidedRows(new)
    <3>1. DecidedSound(call)
      BY <1>3 DEF StagingSound
    <3>2. /\ HasRow(new, p, row.decision) /\ call.rows \subseteq new.rows
      BY <2>2, <2>6 DEF HasRow
    <3>3. /\ new.decided \in Seq(ProposalDecision)
          /\ Len(new.decided) = Len(call.decided) + 1
          /\ DecidedRows(new)
      <4>1. DealtWith(call, new, p, row.decision)
        BY <1>3, <2>2, <2>3, <2>6, <3>1, <3>2 DEF DealtWith
      <4>. QED
        BY <4>1, OneMoreDecided
    <3>4. /\ call.decided \in Seq(ProposalDecision)
          /\ Len(call.decided) \in Nat
      BY <1>3, StagingTypes
    <3>5. ASSUME NEW k \in 1..Len(call.decided)
          PROVE  /\ k \in 1..Len(new.decided)
                 /\ new.decided[k] = call.decided[k]
      BY <2>3, <2>6, <3>3, <3>4, AppendProperties
    <3>. QED
      BY <3>3, <3>5
  <2>8. /\ new \in StagingCall /\ new.pc = call.pc
        /\ new.attempt = call.attempt /\ new.disturbed = call.disturbed
        /\ new.readHead = call.readHead /\ new.state = call.state
        /\ new.staged = call.staged
    BY <1>3, <2>4, <2>6, <2>7 DEF StagingCall
  <2>9. StateExtends(new) /\ StagedInOrder(new) /\ CallOwed(new)
    BY <1>3, <2>6, <2>8 DEF StagingSound, StateExtends, StagedInOrder, CallOwed
  <2>10. RowsStaged(new)
    <3>1. ASSUME NEW r \in call.rows
          PROVE  RowStaged(new, r)
      <4>1. RowStaged(call, r)
        BY <1>3 DEF StagingSound, RowsStaged
      <4>. QED
        BY <2>6, <2>7, <2>8, <4>1 DEF RowStaged
    <3>. QED
      BY <1>3, <2>6, <2>8, <3>1 DEF StagingSound, RowsStaged
  <2>11. Undisturbed(new) =>
             /\ new.readHead = stream.headSequence
             /\ \A r \in new.rows : ~ Stored(r.identity.operationId)
    BY <1>3, <2>6, <2>8 DEF StagingSound, StillCurrent, Undisturbed
  <2>. QED
    BY <1>3, <2>5, <2>6, <2>7, <2>8, <2>9, <2>10, <2>11, ProceedKeepsInv
<1>. QED
  BY <1>4, <1>5

\* "new" is "call" with one more decision staged, and at most one more
\* entry with it.
StagesDecision(call, new, decision) ==
    /\ new.request = call.request /\ new.attempt = call.attempt
    /\ new.disturbed = call.disturbed /\ new.readHead = call.readHead
    /\ new.decided = Append(call.decided, decision)
    /\ new.rows = call.rows \cup {DecisionRow(call, decision)}
    /\ Len(call.state) <= Len(new.state)
    /\ \A i \in 1..Len(call.state) : new.state[i] = call.state[i]
    /\ \A i \in 1..Len(call.staged) : /\ i \in 1..Len(new.staged)
                                     /\ new.staged[i] = call.staged[i]
    /\ \A i \in 1..Len(new.staged) :
           \/ i \in 1..Len(call.staged)
           \/ /\ i = Len(call.staged) + 1
              /\ decision = AcceptedFor(new.staged[i])
              /\ OriginOf(Current(call)) = new.staged[i].origin
    /\ decision.status = "accepted" =>
           /\ decision.sequence = Len(call.state) + 1
           /\ \E i \in 1..Len(new.staged) :
                  decision = AcceptedFor(new.staged[i])

\* Staging a decision keeps the call sound: its proposal comes after those
\* staged before it.
LEMMA DecidingKeepsInv ==
  ASSUME D1Inv, NEW h \in Handlers, At(h, "position"),
         NEW call, call = calls[h], NEW p, p = Current(call),
         NEW decision \in ProposalDecision,
         decision.operationId = p.operationId,
         NEW new \in StagingCall, Proceed(h, new), StateExtends(new),
         StagesDecision(call, new, decision)
  PROVE  D1Inv'
<1>0. PICK row : row = DecisionRow(call, decision)
  OBVIOUS
<1>00. /\ new.request = call.request /\ new.attempt = call.attempt
       /\ new.disturbed = call.disturbed /\ new.readHead = call.readHead
       /\ new.decided = Append(call.decided, decision)
       /\ new.rows = call.rows \cup {row}
       /\ Len(call.state) <= Len(new.state)
       /\ \A i \in 1..Len(call.state) : new.state[i] = call.state[i]
       /\ \A i \in 1..Len(call.staged) : /\ i \in 1..Len(new.staged)
                                        /\ new.staged[i] = call.staged[i]
       /\ \A i \in 1..Len(new.staged) :
              \/ i \in 1..Len(call.staged)
              \/ /\ i = Len(call.staged) + 1
                 /\ decision = AcceptedFor(new.staged[i])
                 /\ OriginOf(p) = new.staged[i].origin
       /\ decision.status = "accepted" =>
              /\ decision.sequence = Len(call.state) + 1
              /\ \E i \in 1..Len(new.staged) :
                     decision = AcceptedFor(new.staged[i])
  BY <1>0 DEF StagesDecision
<1>1. /\ call \in StagingCall /\ CallSound(call) /\ call.pc = "position"
      /\ CallOwed(call) /\ StagingSound(call) /\ DecidedSound(call)
      /\ RowsStaged(call)
      /\ call.request.proposals \in Seq(Proposal)
      /\ Len(call.decided) \in Nat
      /\ Len(call.decided) + 1 \in 1..Len(call.request.proposals)
      /\ p = call.request.proposals[Len(call.decided) + 1]
      /\ p \in issued /\ p \in Proposal
  BY CurrentProposal DEF At, StagingSound
<1>2. /\ row.identity = p /\ row.decision = decision
      /\ row.basis = call.state
  BY <1>00, <1>0 DEF DecisionRow
<1>3. /\ new.decided \in Seq(ProposalDecision)
      /\ Len(new.decided) = Len(call.decided) + 1
      /\ DecidedRows(new)
  <2>1. HasRow(new, p, decision) /\ call.rows \subseteq new.rows
    BY <1>00, <1>2 DEF HasRow
  <2>2. /\ call \in StagingCall /\ DecidedSound(call)
        /\ call.request.proposals \in Seq(Proposal)
        /\ Len(call.decided) + 1 \in 1..Len(call.request.proposals)
        /\ p = call.request.proposals[Len(call.decided) + 1]
    BY <1>00, <1>1
  <2>3. /\ new.request = call.request
        /\ new.decided = Append(call.decided, decision)
    BY <1>00
  <2>4. DealtWith(call, new, p, decision)
    BY <2>1, <2>2, <2>3 DEF DealtWith
  <2>. QED
    BY <2>4, OneMoreDecided
<1>4. /\ \A k \in 1..Len(call.decided) : /\ k \in 1..Len(new.decided)
                                         /\ new.decided[k] = call.decided[k]
      /\ Len(new.decided) \in 1..Len(new.decided)
      /\ new.decided[Len(new.decided)] = decision
  <2>1. call.decided \in Seq(ProposalDecision)
    BY <1>00, <1>1, StagingTypes
  <2>. QED
    BY <1>00, <1>1, <1>3, <2>1, AppendProperties
<1>5. /\ Len(call.state) \in Nat /\ Len(new.state) \in Nat
      /\ Len(call.staged) \in Nat /\ Len(new.staged) \in Nat
      /\ call.readHead \in Nat
  BY <1>00, <1>1, StagingTypes
\* Whatever is in the rows belongs to an earlier proposal of the request.
<1>6. ASSUME NEW old \in call.rows
      PROVE  /\ old.identity.operationId # p.operationId
             /\ old.identity.clientId = p.clientId
             /\ old.identity.clientSequence < p.clientSequence
  <2>1. PICK k \in 1..Len(call.decided) :
           old.identity = call.request.proposals[k]
    BY <1>00, <1>1, SMTT(30) DEF RowsStaged, RowStaged
  <2>2. /\ k \in 1..Len(call.request.proposals)
        /\ k < Len(call.decided) + 1
    BY <1>1, <2>1
  <2>3. PICK ps : ps = call.request.proposals
    OBVIOUS
  <2>4. /\ \A i \in 1..Len(ps) : ps[i].clientId = call.request.replica
        /\ \A i, j \in 1..Len(ps) : i < j =>
               /\ ps[i].operationId # ps[j].operationId
               /\ ps[i].clientSequence < ps[j].clientSequence
    <3>1. call \in NewCall \cup StagingCall /\ CallSound(call)
      BY <1>1
    <3>2. RequestHonest(call.request)
      BY <3>1, <2>3, CallProposals
    <3>3. DOMAIN ps = 1..Len(ps)
      BY <3>1, <2>3, CallProposals
    <3>. QED
      BY <3>2, <3>3, <2>3 DEF RequestHonest, AssertSyncRequest,
         AssertProposalBatch
  <2>5. PICK n : n = Len(call.decided) + 1
    OBVIOUS
  <2>6. /\ k \in 1..Len(ps) /\ n \in 1..Len(ps) /\ k < n
        /\ p = ps[n] /\ old.identity = ps[k]
    BY <1>1, <2>1, <2>2, <2>3, <2>5
  <2>. QED
    BY <2>4, <2>6
<1>7. RowsStaged(new)
  <2>1. ASSUME NEW old \in call.rows
        PROVE  RowStaged(new, old)
    <3>1. RowStaged(call, old)
      BY <1>00, <1>1 DEF RowsStaged
    <3>2. \E k \in 1..Len(new.decided) :
             /\ old.identity = new.request.proposals[k]
             /\ old.decision = new.decided[k]
      BY <1>00, <1>4, <3>1 DEF RowStaged
    <3>3. /\ old.basis \in Seq(Operations) /\ Len(old.basis) \in Nat
      BY <1>00, <1>1, StagingTypes DEF StoredRow
    <3>4. /\ Len(old.basis) \in new.readHead..Len(new.state)
          /\ \A i \in 1..Len(old.basis) : old.basis[i] = new.state[i]
      <4>1. /\ new.readHead = call.readHead
            /\ Len(call.state) <= Len(new.state)
            /\ \A i \in 1..Len(call.state) : new.state[i] = call.state[i]
        BY <1>00
      <4>2. /\ Len(old.basis) \in call.readHead..Len(call.state)
            /\ \A i \in 1..Len(old.basis) : old.basis[i] = call.state[i]
        BY <3>1 DEF RowStaged
      <4>3. /\ Len(old.basis) \in Nat
            /\ Len(call.state) \in Nat /\ Len(new.state) \in Nat
            /\ call.readHead \in Nat
        BY <1>5, <3>3
      <4>4. Len(old.basis) \in new.readHead..Len(new.state)
        BY <4>1, <4>2, <4>3
      <4>5. \A i \in 1..Len(old.basis) : i \in 1..Len(call.state)
        BY <4>2, <4>3
      <4>. QED
        BY <4>1, <4>2, <4>4, <4>5
    <3>5. old.decision.status = "accepted" =>
             /\ old.decision.sequence = Len(old.basis) + 1
             /\ \E i \in 1..Len(new.staged) :
                    old.decision = AcceptedFor(new.staged[i])
      BY <1>00, <3>1 DEF RowStaged
    <3>. QED
      BY <1>00, <3>2, <3>4, <3>5 DEF RowStaged
  <2>2. RowStaged(new, row)
    <3>1. \E k \in 1..Len(new.decided) :
             /\ row.identity = new.request.proposals[k]
             /\ row.decision = new.decided[k]
      <4>1. new.request = call.request
        BY <1>00
      <4>2. /\ Len(new.decided) \in 1..Len(new.decided)
            /\ row.decision = new.decided[Len(new.decided)]
        BY <1>2, <1>4
      <4>3. row.identity = new.request.proposals[Len(new.decided)]
        BY <1>1, <1>2, <1>3, <4>1
      <4>. QED
        BY <4>2, <4>3
    <3>2. /\ Len(row.basis) \in new.readHead..Len(new.state)
          /\ \A i \in 1..Len(row.basis) : row.basis[i] = new.state[i]
      <4>1. /\ new.readHead = call.readHead
            /\ Len(call.state) <= Len(new.state)
            /\ \A i \in 1..Len(call.state) : new.state[i] = call.state[i]
        BY <1>00
      <4>2. call.readHead <= Len(call.state)
        <5>1. Len(call.state) = call.readHead + Len(call.staged)
          BY <1>1 DEF StagingSound, StateExtends
        <5>. QED
          BY <1>5, <5>1
      <4>. QED
        BY <1>2, <1>5, <4>1, <4>2
    <3>. QED
      BY <1>00, <1>2, <3>1, <3>2 DEF RowStaged
  <2>3. ASSUME NEW left \in new.rows, NEW right \in new.rows,
               left.identity.operationId = right.identity.operationId
        PROVE  left = right
    <3>1. new.rows = call.rows \cup {row} /\ row.identity = p
      BY <1>00, <1>2
    <3>2. CASE left \in call.rows /\ right \in call.rows
      BY <1>1, <2>3, <3>2 DEF RowsStaged
    <3>3. CASE left = row \/ right = row
      BY <1>6, <2>3, <3>1, <3>3
    <3>. QED
      BY <2>3, <3>1, <3>2, <3>3
  <2>4. ASSUME NEW i \in 1..Len(new.staged)
        PROVE  \E r \in new.rows :
                  /\ r.decision = AcceptedFor(new.staged[i])
                  /\ OriginOf(r.identity) = new.staged[i].origin
    <3>1. CASE i \in 1..Len(call.staged)
      <4>1. new.staged[i] = call.staged[i]
        BY <1>00, <3>1
      <4>2. PICK r \in call.rows :
               /\ r.decision = AcceptedFor(call.staged[i])
               /\ OriginOf(r.identity) = call.staged[i].origin
        BY <1>00, <1>1, <3>1 DEF RowsStaged
      <4>. QED
        BY <1>00, <4>1, <4>2
    <3>2. CASE i \notin 1..Len(call.staged)
      BY <1>00, <1>2, <3>2
    <3>. QED
      BY <1>00, <3>1, <3>2
  <2>. QED
    BY <1>00, <2>1, <2>2, <2>3, <2>4 DEF RowsStaged
<1>8. StagedInOrder(new)
  <2> SUFFICES ASSUME NEW i \in 1..Len(new.staged),
                      NEW j \in 1..Len(new.staged), i < j,
                      new.staged[i].origin.clientId =
                          new.staged[j].origin.clientId
               PROVE  new.staged[i].origin.clientSequence <
                          new.staged[j].origin.clientSequence
    BY DEF StagedInOrder
  <2>1. CASE j \in 1..Len(call.staged)
    <3>1. i \in 1..Len(call.staged)
      BY <1>00, <1>5, <2>1
    <3>. QED
      <4>1. new.staged[i] = call.staged[i] /\ new.staged[j] = call.staged[j]
        BY <1>00, <2>1, <3>1
      <4>2. StagedInOrder(call)
        BY <1>1 DEF StagingSound
      <4>. QED
        BY <2>1, <3>1, <4>1, <4>2 DEF StagedInOrder
  <2>2. CASE j \notin 1..Len(call.staged)
    <3>1. j = Len(call.staged) + 1 /\ OriginOf(p) = new.staged[j].origin
      BY <1>00, <2>2
    <3>2. i \in 1..Len(call.staged)
      BY <1>00, <1>5, <3>1
    <3>3. PICK old \in call.rows : OriginOf(old.identity) =
                                       call.staged[i].origin
      BY <1>00, <1>1, <3>2 DEF RowsStaged
    <3>4. new.staged[i].origin.clientSequence = old.identity.clientSequence
      BY <1>00, <3>2, <3>3 DEF OriginOf
    <3>5. new.staged[j].origin.clientSequence = p.clientSequence
      BY <1>00, <3>1 DEF OriginOf
    <3>. QED
      BY <1>00, <1>6, <3>4, <3>5
  <2>. QED
    BY <1>00, <2>1, <2>2
<1>9. Undisturbed(new) =>
          /\ new.readHead = stream.headSequence
          /\ \A r \in new.rows : ~ Stored(r.identity.operationId)
  <2>1. SUFFICES ASSUME Undisturbed(new)
                 PROVE  /\ call.readHead = stream.headSequence
                        /\ \A r \in call.rows :
                               ~ Stored(r.identity.operationId)
                        /\ ~ Stored(p.operationId)
    BY <1>00, <1>2
  <2>. QED
    BY <1>00, <1>1, <2>1 DEF StagingSound, StillCurrent, Undisturbed
<1>10. CallOwed(new) /\ new.request.proposals \in Seq(Proposal)
  BY <1>00, <1>1 DEF CallOwed
<1>. QED
  BY <1>00, <1>3, <1>7, <1>8, <1>9, <1>10, ProceedKeepsInv

\* The interpreter rejects the proposal.
LEMMA RejectingKeepsInv ==
  ASSUME D1Inv, NEW h \in Handlers, At(h, "position"),
         Proceed(h, Rejecting(calls[h]))
  PROVE  D1Inv'
<1>1. PICK call : call = calls[h]
  OBVIOUS
<1>2. PICK p : p = Current(call)
  OBVIOUS
<1>3. /\ call \in StagingCall /\ StagingSound(call)
      /\ p \in issued /\ p \in Proposal
  BY <1>1, <1>2, CurrentProposal
<1>4. PICK decision : decision = RejectedFor(p.operationId)
  OBVIOUS
<1>5. /\ decision \in ProposalDecision /\ decision.operationId = p.operationId
      /\ decision.status # "accepted"
  BY <1>3, <1>4 DEF RejectedFor, ProposalDecision, RejectedDecision, Proposal
<1>6. PICK row : row = DecisionRow(call, decision)
  OBVIOUS
<1>7. row \in StoredRow
  BY <1>2, <1>3, <1>5, <1>6, StagingTypes DEF DecisionRow, StoredRow
<1>8. PICK new : new = [call EXCEPT !.decided = Append(@, decision),
                                    !.rows = @ \cup {row}]
  OBVIOUS
<1>9. Proceed(h, new)
  <2>1. new = Rejecting(call)
    BY <1>2, <1>4, <1>6, <1>8 DEF Rejecting
  <2>. QED
    BY <1>1, <2>1
<1>10. /\ new.request = call.request /\ new.attempt = call.attempt
       /\ new.disturbed = call.disturbed /\ new.readHead = call.readHead
       /\ new.state = call.state /\ new.staged = call.staged
       /\ new.decided = Append(call.decided, decision)
       /\ new.rows = call.rows \cup {row}
  BY <1>3, <1>8 DEF StagingCall
<1>11. Append(call.decided, decision) \in Seq(ProposalDecision)
  BY <1>3, <1>5, StagingTypes, AppendProperties
<1>12. new \in StagingCall
  BY <1>3, <1>7, <1>8, <1>11 DEF StagingCall
<1>13. StateExtends(new)
  BY <1>3, <1>10 DEF StagingSound, StateExtends
<1>14. /\ Len(call.state) \in Nat /\ Len(call.state) <= Len(new.state)
       /\ \A i \in 1..Len(call.state) : new.state[i] = call.state[i]
       /\ \A i \in 1..Len(call.staged) : /\ i \in 1..Len(new.staged)
                                         /\ new.staged[i] = call.staged[i]
       /\ \A i \in 1..Len(new.staged) : i \in 1..Len(call.staged)
  BY <1>3, <1>10, StagingTypes
<1>15. StagesDecision(call, new, decision)
  BY <1>5, <1>6, <1>10, <1>14 DEF StagesDecision
<1>. QED
  BY <1>1, <1>2, <1>5, <1>9, <1>12, <1>13, <1>15, DecidingKeepsInv

\* The interpreter accepts it: the entry takes the next position, and the
\* running state takes its operation.
LEMMA AcceptingKeepsInv ==
  ASSUME D1Inv, NEW h \in Handlers, At(h, "position"),
         NEW operation \in Operations,
         Proceed(h, Accepting(calls[h], operation))
  PROVE  D1Inv'
<1>1. PICK call : call = calls[h]
  OBVIOUS
<1>2. PICK p : p = Current(call)
  OBVIOUS
<1>3. /\ call \in StagingCall /\ StagingSound(call) /\ StateExtends(call)
      /\ p \in issued /\ p \in Proposal
  BY <1>1, <1>2, CurrentProposal DEF StagingSound
<1>4. PICK n : n = Len(call.staged) + 1
  OBVIOUS
<1>5. /\ call.state \in Seq(Operations) /\ Len(call.state) \in Nat
      /\ call.staged \in Seq(CommittedOperation) /\ Len(call.staged) \in Nat
      /\ call.readHead \in Nat /\ n \in Nat
      /\ Len(call.state) = call.readHead + Len(call.staged)
  BY <1>3, <1>4, StagingTypes DEF StateExtends
<1>6. PICK entry : entry = CommittedEntry(p, call.readHead + n, operation)
  OBVIOUS
<1>7. /\ entry \in CommittedOperation /\ entry.sequence = call.readHead + n
      /\ entry.operation = operation /\ entry.operationId = p.operationId
      /\ entry.origin = OriginOf(p)
  <2>1. OriginOf(p) \in OperationOrigin
    BY <1>3 DEF OriginOf, OperationOrigin, Proposal
  <2>2. call.readHead + n \in LogSequence
    BY <1>4, <1>5 DEF LogSequence
  <2>3. entry = [sequence |-> call.readHead + n, operationId |-> p.operationId,
                 origin |-> OriginOf(p), operation |-> operation]
    BY <1>6 DEF CommittedEntry
  <2>4. p.operationId \in OperationIds
    BY <1>3 DEF Proposal
  <2>. QED
    BY <2>1, <2>2, <2>3, <2>4 DEF CommittedOperation
<1>8. PICK decision : decision = AcceptedFor(entry)
  OBVIOUS
<1>9. /\ decision \in ProposalDecision /\ decision.operationId = p.operationId
      /\ decision.sequence = Len(call.state) + 1
  BY <1>4, <1>5, <1>7, <1>8 DEF AcceptedFor, ProposalDecision,
     AcceptedDecision, CommittedOperation
<1>10. PICK row : row = DecisionRow(call, decision)
  OBVIOUS
<1>11. row \in StoredRow
  BY <1>2, <1>3, <1>5, <1>9, <1>10 DEF DecisionRow, StoredRow
<1>12. PICK new : new = [call EXCEPT !.decided = Append(@, decision),
                                     !.rows = @ \cup {row},
                                     !.staged = Append(@, entry),
                                     !.state = Append(@, operation)]
  OBVIOUS
<1>13. Proceed(h, new)
  <2>1. call.readHead + Len(call.staged) + 1 = call.readHead + n
    BY <1>4, <1>5
  <2>2. new = Accepting(call, operation)
    BY <1>2, <1>6, <1>8, <1>10, <1>12, <2>1 DEF Accepting
  <2>. QED
    BY <1>1, <2>2
<1>14. /\ new.request = call.request /\ new.attempt = call.attempt
       /\ new.disturbed = call.disturbed /\ new.readHead = call.readHead
       /\ new.state = Append(call.state, operation)
       /\ new.staged = Append(call.staged, entry)
       /\ new.decided = Append(call.decided, decision)
       /\ new.rows = call.rows \cup {row}
  BY <1>3, <1>12 DEF StagingCall
<1>15. /\ Append(call.decided, decision) \in Seq(ProposalDecision)
       /\ Append(call.staged, entry) \in Seq(CommittedOperation)
       /\ Append(call.state, operation) \in Seq(Operations)
  BY <1>3, <1>5, <1>7, <1>9, StagingTypes, AppendProperties
<1>16. new \in StagingCall
  BY <1>3, <1>11, <1>12, <1>15 DEF StagingCall
<1>17. /\ Len(new.state) = Len(call.state) + 1
       /\ \A i \in 1..Len(call.state) : new.state[i] = call.state[i]
       /\ new.state[Len(call.state) + 1] = operation
       /\ Len(new.staged) = n
       /\ \A i \in 1..Len(call.staged) : new.staged[i] = call.staged[i]
       /\ new.staged[n] = entry
  <2>1. /\ Len(new.state) = Len(call.state) + 1
        /\ \A i \in 1..Len(call.state) : new.state[i] = call.state[i]
        /\ new.state[Len(call.state) + 1] = operation
    <3>1. operation \in Operations /\ new.state = Append(call.state, operation)
      BY <1>7, <1>14 DEF CommittedOperation
    <3>. QED
      BY <1>5, <3>1, AppendProperties
  <2>2. /\ Len(new.staged) = Len(call.staged) + 1
        /\ \A i \in 1..Len(call.staged) : new.staged[i] = call.staged[i]
        /\ new.staged[Len(call.staged) + 1] = entry
    <3>1. new.staged = Append(call.staged, entry)
      BY <1>14
    <3>. QED
      BY <1>5, <1>7, <3>1, AppendProperties
  <2>. QED
    BY <1>4, <2>1, <2>2
<1>18. StateExtends(new)
  <2>1. /\ new.request.baseSequence <= new.readHead
        /\ new.readHead <= stream.headSequence
    BY <1>3, <1>14 DEF StateExtends
  <2>2. Len(new.state) = new.readHead + Len(new.staged)
    BY <1>4, <1>5, <1>14, <1>17
  <2>3. ASSUME NEW i \in 1..new.readHead
        PROVE  new.state[i] = stream.state[i]
    <3>1. i \in 1..Len(call.state) /\ i \in 1..call.readHead
      BY <1>5, <1>14
    <3>. QED
      BY <1>3, <1>17, <3>1 DEF StateExtends
  <2>4. ASSUME NEW i \in 1..Len(new.staged)
        PROVE  /\ new.staged[i].sequence = new.readHead + i
               /\ new.staged[i].operation = new.state[new.readHead + i]
    <3>1. CASE i \in 1..Len(call.staged)
      <4>1. call.readHead + i \in 1..Len(call.state)
        BY <1>5, <3>1
      <4>. QED
        BY <1>3, <1>14, <1>17, <3>1, <4>1 DEF StateExtends
    <3>2. CASE i = n
      <4>1. call.readHead + n = Len(call.state) + 1
        BY <1>4, <1>5
      <4>. QED
        BY <1>7, <1>14, <1>17, <3>2, <4>1
    <3>. QED
      BY <1>4, <1>5, <1>17, <3>1, <3>2
  <2>. QED
    BY <2>1, <2>2, <2>3, <2>4 DEF StateExtends
<1>19. /\ Len(call.state) <= Len(new.state)
       /\ \A i \in 1..Len(call.staged) : /\ i \in 1..Len(new.staged)
                                        /\ new.staged[i] = call.staged[i]
       /\ \A i \in 1..Len(new.staged) :
              \/ i \in 1..Len(call.staged)
              \/ /\ i = Len(call.staged) + 1
                 /\ decision = AcceptedFor(new.staged[i])
                 /\ OriginOf(p) = new.staged[i].origin
       /\ \E i \in 1..Len(new.staged) : decision = AcceptedFor(new.staged[i])
  <2>1. Len(call.state) <= Len(new.state)
    BY <1>5, <1>17
  <2>2. \A i \in 1..Len(call.staged) : /\ i \in 1..Len(new.staged)
                                       /\ new.staged[i] = call.staged[i]
    BY <1>4, <1>5, <1>17
  <2>3. /\ n \in 1..Len(new.staged)
        /\ \A i \in 1..Len(new.staged) : i \in 1..Len(call.staged) \/ i = n
    <3>1. Len(new.staged) = n
      BY <1>17
    <3>. QED
      BY <1>4, <1>5, <3>1
  <2>4. decision = AcceptedFor(new.staged[n]) /\ OriginOf(p) = new.staged[n].origin
    BY <1>7, <1>8, <1>17
  <2>. QED
    BY <1>4, <2>1, <2>2, <2>3, <2>4
<1>20. StagesDecision(call, new, decision)
  BY <1>2, <1>9, <1>10, <1>14, <1>17, <1>19 DEF StagesDecision
<1>. QED
  BY <1>1, <1>2, <1>9, <1>13, <1>16, <1>18, <1>20, DecidingKeepsInv

\* No other id holds the position of a proposal, so the call goes on.
LEMMA DecideProposalKeepsInv ==
  ASSUME D1Inv, NEW h \in Handlers, DecideProposal(h)
  PROVE  D1Inv'
<1>1. At(h, "position")
  BY DEF DecideProposal
<1>2. PICK p : p = Current(calls[h])
  OBVIOUS
<1>3. p \in issued
  BY <1>1, <1>2, CurrentProposal
<1>4. ~ \E row \in decisionRows : HeldByOther(row, p)
  BY <1>3, StoredIdentity DEF HeldByOther
<1>5. \/ Proceed(h, Rejecting(calls[h]))
      \/ \E operation \in Operations :
             Proceed(h, Accepting(calls[h], operation))
  BY <1>2, <1>4 DEF DecideProposal
<1>. QED
  BY <1>1, <1>5, RejectingKeepsInv, AcceptingKeepsInv

-----------------------------------------------------------------------------
(* The guard of the batch. *)

\* A row of the log table is the accepted decision of an issued proposal.
LEMMA LogRow ==
  ASSUME D1Inv, NEW row \in logEntries
  PROVE  \E d \in decisionRows : /\ d.decision = AcceptedFor(row)
                                 /\ d.identity \in issued
                                 /\ d.identity.operationId = row.operationId
                                 /\ OriginOf(d.identity) = row.origin
<1>1. PICK d \in decisionRows : /\ d.decision = AcceptedFor(row)
                                /\ OriginOf(d.identity) = row.origin
  BY DEF D1Inv, TablesSound, EntriesStored
<1>2. d.identity \in issued /\ d.decision.operationId = d.identity.operationId
  BY DEF D1Inv, TablesSound, RowsSound
<1>3. d.decision.operationId = row.operationId
  BY <1>1 DEF AcceptedFor
<1>. QED
  BY <1>1, <1>2, <1>3

\* A staged row is the decision of an issued proposal.
LEMMA StagedRow ==
  ASSUME D1Inv, NEW call \in StagingCall, CallSound(call), NEW new \in call.rows
  PROVE  /\ new.identity \in issued
         /\ new.decision.operationId = new.identity.operationId
<1>1. PICK ps : ps = call.request.proposals
  OBVIOUS
<1>2. /\ RowStaged(call, new) /\ DecidedRows(call)
      /\ Len(call.decided) \in Nat
  BY StagingTypes DEF CallSound, StagingSound, RowsStaged, DecidedSound
<1>3. PICK k \in 1..Len(call.decided) : /\ new.identity = ps[k]
                                        /\ new.decision = call.decided[k]
  BY <1>1, <1>2 DEF RowStaged
<1>4. /\ Len(ps) \in Nat /\ \A i \in 1..Len(ps) : ps[i] \in issued
  BY <1>1, CallProposals
<1>5. k \in 1..Len(ps) /\ call.decided[k].operationId = ps[k].operationId
  BY <1>1, <1>2, <1>4 DEF DecidedRows
<1>. QED
  BY <1>3, <1>4, <1>5

\* A staged entry is the accepted decision of such a row.
LEMMA StagedEntry ==
  ASSUME D1Inv, NEW call \in StagingCall, CallSound(call),
         NEW i \in 1..Len(call.staged)
  PROVE  \E new \in call.rows :
             /\ new.decision = AcceptedFor(call.staged[i])
             /\ new.identity \in issued
             /\ new.identity.operationId = call.staged[i].operationId
             /\ OriginOf(new.identity) = call.staged[i].origin
<1>1. PICK new \in call.rows :
         /\ new.decision = AcceptedFor(call.staged[i])
         /\ OriginOf(new.identity) = call.staged[i].origin
  BY DEF CallSound, StagingSound, RowsStaged
<1>2. /\ new.identity \in issued
      /\ new.decision.operationId = new.identity.operationId
  BY StagedRow
<1>3. new.decision.operationId = call.staged[i].operationId
  BY <1>1 DEF AcceptedFor
<1>. QED
  BY <1>1, <1>2, <1>3

\* Exactly the batches that are still current go through: with the head
\* they were staged on, and with nothing decided that they decide.
LEMMA GuardExact ==
  ASSUME D1Inv, NEW call \in StagingCall, CallSound(call)
  PROVE  Aborts(call) <=>
             \/ stream.headSequence # call.readHead
             \/ \E new \in call.rows : Stored(new.identity.operationId)
<1>1. ASSUME stream.headSequence # call.readHead
      PROVE  Aborts(call)
  BY <1>1 DEF Aborts
<1>2. ASSUME NEW new \in call.rows, Stored(new.identity.operationId)
      PROVE  Aborts(call)
  BY <1>2 DEF Aborts, Stored
<1>3. ASSUME stream.headSequence = call.readHead,
             \A new \in call.rows : ~ Stored(new.identity.operationId)
      PROVE  ~ Aborts(call)
  <2>1. ASSUME NEW row \in decisionRows, NEW new \in call.rows,
               \/ row.identity.operationId = new.identity.operationId
               \/ SamePosition(row.identity, new.identity)
        PROVE  FALSE
    <3>1. row.identity = new.identity
      BY <2>1, StagedRow, StoredIdentity
    <3>. QED
      BY <1>3, <3>1 DEF Stored
  <2>2. ASSUME NEW row \in logEntries, NEW i \in 1..Len(call.staged),
               \/ row.sequence = call.staged[i].sequence
               \/ row.operationId = call.staged[i].operationId
               \/ SamePosition(row.origin, call.staged[i].origin)
        PROVE  FALSE
    <3>1. row.sequence # call.staged[i].sequence
      <4>1. call.staged[i].sequence = call.readHead + i
        BY DEF CallSound, StagingSound, StateExtends
      <4>2. row.sequence \in 1..stream.headSequence
        BY DEF D1Inv, TablesSound, HistorySound
      <4>3. call.readHead \in Nat /\ Len(call.staged) \in Nat
        BY StagingTypes
      <4>. QED
        BY <1>3, <4>1, <4>2, <4>3
    <3>2. PICK d \in decisionRows : /\ d.identity \in issued
                                    /\ d.identity.operationId = row.operationId
                                    /\ OriginOf(d.identity) = row.origin
      BY LogRow
    <3>3. PICK new \in call.rows :
             /\ new.identity.operationId = call.staged[i].operationId
             /\ OriginOf(new.identity) = call.staged[i].origin
      BY StagedEntry
    <3>4. \/ d.identity.operationId = new.identity.operationId
          \/ SamePosition(d.identity, new.identity)
      BY <2>2, <3>1, <3>2, <3>3 DEF SamePosition, OriginOf
    <3>. QED
      BY <2>1, <3>4
  <2>3. DOMAIN call.staged = 1..Len(call.staged)
    BY StagingTypes
  <2>. QED
    BY <1>3, <2>1, <2>2, <2>3 DEF Aborts
<1>. QED
  BY <1>1, <1>2, <1>3

\* A batch that nobody raced is not aborted, so a retry is owed.
LEMMA RetryCommitKeepsInv ==
  ASSUME D1Inv, NEW h \in Handlers, RetryCommit(h)
  PROVE  D1Inv'
<1>1. PICK call : call = calls[h]
  OBVIOUS
<1>2. /\ call \in StagingCall /\ CallSound(call) /\ call.pc = "commit"
      /\ Aborts(call) /\ Retry(h, call)
  BY <1>1, CallTypes DEF RetryCommit, At
<1>3. ~ Undisturbed(call)
  BY <1>2, GuardExact DEF CallSound, StagingSound, StillCurrent
<1>4. /\ call.attempt <= call.disturbed
      /\ call.attempt \in 0..MaximumCommitRetries
      /\ call.disturbed \in 0..MaximumCommitRetries
  BY <1>2, StagingTypes DEF CallSound, CallOwed
<1>5. MayRetry(call) => call.attempt < call.disturbed
  BY <1>3, <1>4, RetriesAssumption DEF MayRetry, Undisturbed
<1>. QED
  BY <1>1, <1>2, <1>4, <1>5, RetryKeepsInv

-----------------------------------------------------------------------------
(* The page. *)

\* The log table has one row for each position of an interval.
LEMMA RowsBetween ==
  ASSUME D1Inv, NEW low \in Nat, NEW high \in Nat, low <= high,
         high <= stream.headSequence
  PROVE  LET between == {row \in logEntries : /\ row.sequence > low
                                              /\ row.sequence <= high}
         IN  IsFiniteSet(between) /\ Cardinality(between) = high - low
<1> DEFINE between == {row \in logEntries : /\ row.sequence > low
                                            /\ row.sequence <= high}
           n == high - low
           RowAt(i) == CHOOSE row \in logEntries : row.sequence = low + i
           f == [i \in 1..n |-> RowAt(i)]
<1>1. n \in Nat /\ stream.headSequence \in Nat
  BY DEF D1Inv, D1TypeOK
<1>2. /\ \A row \in logEntries : row.sequence \in 1..stream.headSequence
      /\ \A i \in 1..stream.headSequence : \E row \in logEntries :
             row.sequence = i
      /\ \A left, right \in logEntries :
             left.sequence = right.sequence => left = right
  BY DEF D1Inv, TablesSound, HistorySound
<1>3. ASSUME NEW i \in 1..n
      PROVE  /\ RowAt(i) \in logEntries /\ RowAt(i).sequence = low + i
             /\ RowAt(i) \in between
  <2>1. low + i \in 1..stream.headSequence
    BY <1>1
  <2>2. RowAt(i) \in logEntries /\ RowAt(i).sequence = low + i
    BY <1>2, <2>1
  <2>. QED
    BY <2>2
<1>4. f \in [1..n -> between]
  BY <1>3
<1>5. \A i, j \in 1..n : f[i] = f[j] => i = j
  <2> SUFFICES ASSUME NEW i \in 1..n, NEW j \in 1..n, f[i] = f[j]
               PROVE  i = j
    OBVIOUS
  <2>1. f[i] = RowAt(i) /\ f[j] = RowAt(j)
    OBVIOUS
  <2>2. low + i = low + j
    BY <1>3, <2>1
  <2>. QED
    BY <1>1, <2>2
<1>6. \A row \in between : \E i \in 1..n : f[i] = row
  <2> SUFFICES ASSUME NEW row \in between PROVE \E i \in 1..n : f[i] = row
    OBVIOUS
  <2>1. row \in logEntries /\ row.sequence > low /\ row.sequence <= high
    OBVIOUS
  <2>2. row.sequence \in Nat
    BY <1>1, <1>2, <2>1
  <2>3. PICK i \in 1..n : low + i = row.sequence
    <3>1. row.sequence - low \in 1..n /\ low + (row.sequence - low) = row.sequence
      BY <1>1, <2>1, <2>2
    <3>. QED
      BY <3>1
  <2>4. RowAt(i) = row
    BY <1>2, <1>3, <2>1, <2>3
  <2>. QED
    BY <2>4
<1>7. ExistsBijection(1..n, between)
  <2>1. f \in Bijection(1..n, between)
    BY <1>4, <1>5, <1>6 DEF Bijection, Injection, Surjection, IsInjective
  <2>. QED
    BY <2>1 DEF ExistsBijection
<1>. QED
  BY <1>1, <1>7, FS_CountingElements, FS_NatBijection

\* The page is the interval of the log that follows the base.
LEMMA PageRows ==
  ASSUME D1Inv, NEW request \in SyncRequest, NEW head \in Nat,
         request.baseSequence <= head, head <= stream.headSequence,
         NEW page, page = Page(request, head)
  PROVE  \E size \in 0..head - request.baseSequence :
             /\ page \in [1..size -> logEntries]
             /\ \A i \in 1..size :
                    page[i].sequence = request.baseSequence + i
<1> DEFINE found == {row \in logEntries :
                        /\ row.sequence > request.baseSequence
                        /\ row.sequence <= head}
           UpTo(row) == {r \in found : r.sequence <= row.sequence}
<1>1. PICK base : base = request.baseSequence
  OBVIOUS
<1>2. /\ base \in Nat /\ head - base \in Nat
      /\ stream.headSequence \in Nat
      /\ request.maximumEntries \in Nat /\ MaximumEntriesPerResponse \in Nat
  BY <1>1, LimitsAssumption DEF D1Inv, D1TypeOK, SyncRequest, LogSequence
<1>3. PICK limit \in Nat :
         limit = IF request.maximumEntries < MaximumEntriesPerResponse
                 THEN request.maximumEntries ELSE MaximumEntriesPerResponse
  BY <1>2
<1>4. Cardinality(found) = head - base
  BY <1>1, <1>2, RowsBetween
<1>5. PICK size \in 0..head - base :
         size = IF Cardinality(found) < limit
                THEN Cardinality(found) ELSE limit
  <2>1. PICK n : n = Cardinality(found)
    OBVIOUS
  <2>2. n \in Nat /\ n = head - base
    BY <1>2, <1>4, <2>1
  <2>3. (IF n < limit THEN n ELSE limit) \in 0..head - base
    BY <2>2
  <2>. QED
    BY <2>1, <2>3
<1>6. page = [i \in 1..size |-> CHOOSE row \in found :
                                    Cardinality(UpTo(row)) = i]
  BY <1>3, <1>5 DEF Page
<1>7. ASSUME NEW row \in found
      PROVE  Cardinality(UpTo(row)) = row.sequence - base
  <2>1. /\ row.sequence \in Nat /\ base <= row.sequence
        /\ row.sequence <= head /\ row.sequence <= stream.headSequence
    <3>1. row.sequence \in 1..stream.headSequence
      BY DEF D1Inv, TablesSound, HistorySound
    <3>. QED
      BY <1>1, <1>2, <3>1
  <2>2. UpTo(row) = {r \in logEntries : /\ r.sequence > base
                                        /\ r.sequence <= row.sequence}
    <3>1. \A r \in logEntries : r.sequence \in Nat
      BY <1>2 DEF D1Inv, TablesSound, HistorySound
    <3>. QED
      BY <1>1, <2>1, <3>1
  <2>. QED
    BY <1>2, <2>1, <2>2, RowsBetween
<1>8. ASSUME NEW i \in 1..size
      PROVE  \E row \in found : Cardinality(UpTo(row)) = i
  <2>1. base + i \in 1..stream.headSequence
    BY <1>1, <1>2
  <2>2. PICK row \in logEntries : row.sequence = base + i
    BY <2>1 DEF D1Inv, TablesSound, HistorySound
  <2>3. row \in found
    BY <1>1, <1>2, <2>2
  <2>. QED
    BY <1>2, <1>7, <2>2, <2>3
<1>9. ASSUME NEW i \in 1..size
      PROVE  page[i] \in found /\ page[i].sequence = base + i
  <2>1. page[i] \in found /\ Cardinality(UpTo(page[i])) = i
    BY <1>6, <1>8
  <2>2. page[i].sequence \in Nat
    BY <1>2, <2>1 DEF D1Inv, TablesSound, HistorySound
  <2>. QED
    BY <1>2, <1>7, <2>1, <2>2
<1>. QED
  BY <1>1, <1>5, <1>6, <1>9

\* Every answer is a page of the one log and the stored decisions.
LEMMA ReadLogPageKeepsInv ==
  ASSUME D1Inv, NEW h \in Handlers, ReadLogPage(h)
  PROVE  D1Inv'
<1>1. PICK call : call = calls[h]
  OBVIOUS
<1>2. PICK response : response = Answer(call)
  OBVIOUS
<1>3. /\ call \in StagingCall /\ CallSound(call) /\ StagingSound(call)
      /\ call.pc = "page"
  BY <1>1, CallTypes DEF ReadLogPage, At, CallSound
<1>4. CASE Fail(h, "malformed response")
  BY <1>4, EndKeepsInv DEF Fail
<1>5. CASE /\ responses' = responses \cup {response}
           /\ Continue(h, Idle)
           /\ UNCHANGED <<tables, clientVars, failures>>
  <2>1. PICK head : head = call.readHead + Len(call.staged)
    OBVIOUS
  <2>2. PICK request : request = call.request
    OBVIOUS
  <2>3. /\ request \in SyncRequest /\ request.baseSequence \in Nat
        /\ request.replica \in Clients
        /\ head \in Nat /\ request.baseSequence <= head
        /\ head <= stream.headSequence
    <3>1. request \in SyncRequest
      BY <1>3, <2>2, CallProposals
    <3>2. request.baseSequence \in Nat /\ request.replica \in Clients
      BY <3>1 DEF SyncRequest
    <3>3. call.readHead \in Nat /\ Len(call.staged) \in Nat
      BY <1>3, StagingTypes
    <3>4. /\ request.baseSequence <= call.readHead
          /\ head <= stream.headSequence
      BY <1>3, <2>1, <2>2 DEF StagingSound, StateExtends, Published
    <3>. QED
      BY <2>1, <3>1, <3>2, <3>3, <3>4
  <2>4. PICK page : page = Page(request, head)
    OBVIOUS
  <2>5. PICK size \in 0..head - request.baseSequence :
           /\ page \in [1..size -> logEntries]
           /\ \A i \in 1..size : page[i].sequence = request.baseSequence + i
    BY <2>3, <2>4, PageRows, SMTT(30)
  <2>6. /\ size \in Nat /\ page \in Seq(CommittedOperation)
        /\ Len(page) = size
    <3>1. size \in Nat
      BY <2>3
    <3>2. page \in [1..size -> CommittedOperation]
      BY <2>5 DEF D1Inv, D1TypeOK
    <3>. QED
      BY <3>1, <3>2, SeqDef
  <2>7. response = [replica |-> request.replica,
                    requestedBaseSequence |-> request.baseSequence,
                    throughSequence |-> request.baseSequence + Len(page),
                    headSequence |-> head, entries |-> page,
                    decisions |-> call.decided]
    BY <1>2, <2>1, <2>2, <2>4 DEF Answer
  <2>8. response \in SyncResponse
    <3>1. request.baseSequence + Len(page) \in Nat
      BY <2>3, <2>6
    <3>2. call.decided \in Seq(ProposalDecision)
      BY <1>3, StagingTypes
    <3>. QED
      BY <2>3, <2>6, <2>7, <3>1, <3>2 DEF SyncResponse
  <2>9. \A i \in 1..Len(call.decided) : \E row \in decisionRows :
            row.decision = call.decided[i]
    BY <1>3 DEF StagingSound, DecidedSound, DecidedRows, HasRow, Published
  <2>10. ResponseTrue(response)
    <3>1. /\ response.headSequence = head
          /\ response.requestedBaseSequence = request.baseSequence
          /\ response.throughSequence = request.baseSequence + size
          /\ response.entries = page /\ response.decisions = call.decided
      BY <2>6, <2>7
    <3>2. /\ request.baseSequence <= request.baseSequence + size
          /\ request.baseSequence + size <= head
          /\ size = (request.baseSequence + size) - request.baseSequence
      BY <2>3, <2>6
    <3>. QED
      BY <2>3, <2>5, <2>6, <2>9, <3>1, <3>2 DEF ResponseTrue
  <2>11. /\ CallSound(Idle)
         /\ NeverRefused' /\ responses' \subseteq SyncResponse
    BY <1>5, <2>8 DEF D1Inv, D1TypeOK, NeverRefused, CallSound, Idle, NewCall,
       StagingCall
  <2>. QED
    BY <1>5, <2>10, <2>11, CallStep
<1>. QED
  BY <1>1, <1>2, <1>4, <1>5 DEF ReadLogPage

-----------------------------------------------------------------------------
(* The commit. *)

\* A batch goes through.
Publishes(call) ==
    /\ call \in StagingCall /\ CallSound(call) /\ call.pc = "commit"
    /\ ~ Aborts(call)
    /\ Apply(call)
    /\ UNCHANGED <<clientVars, responses>>

\* The call that goes on to its page.
ToPage(call) == [call EXCEPT !.pc = "page"]

\* What the guard and the invariant say of such a batch.
LEMMA PublishedBatch ==
  ASSUME D1Inv, NEW call, Publishes(call)
  PROVE  /\ call \in StagingCall /\ CallSound(call) /\ StagingSound(call)
         /\ stream.headSequence \in Nat /\ Len(call.staged) \in Nat
         /\ call.readHead = stream.headSequence
         /\ \A new \in call.rows : ~ Stored(new.identity.operationId)
         /\ Len(call.state) = stream.headSequence + Len(call.staged)
         /\ stream'.headSequence = stream.headSequence + Len(call.staged)
         /\ stream'.state = call.state
         /\ \A i \in 1..stream.headSequence : call.state[i] = stream.state[i]
         /\ \A i \in 1..Len(call.staged) :
                /\ call.staged[i].sequence = stream.headSequence + i
                /\ call.staged[i].operation =
                       call.state[stream.headSequence + i]
                /\ call.staged[i] \in logEntries'
         /\ \A row \in logEntries' :
                \/ row \in logEntries
                \/ \E i \in 1..Len(call.staged) : row = call.staged[i]
         /\ logEntries \subseteq logEntries'
         /\ decisionRows' = decisionRows \cup call.rows
         /\ requests' = requests /\ issued' = issued
         /\ responses' = responses
<1>1. /\ call \in StagingCall /\ CallSound(call) /\ StagingSound(call)
      /\ StateExtends(call)
  BY DEF Publishes, CallSound, StagingSound
<1>2. /\ stream.headSequence \in Nat
      /\ Len(call.staged) \in Nat /\ DOMAIN call.staged = 1..Len(call.staged)
  BY <1>1, StagingTypes DEF D1Inv, D1TypeOK
<1>3. /\ call.readHead = stream.headSequence
      /\ \A new \in call.rows : ~ Stored(new.identity.operationId)
  BY <1>1, GuardExact DEF Publishes
<1>4. /\ stream' = [headSequence |-> call.readHead + Len(call.staged),
                    state |-> call.state]
      /\ logEntries' = logEntries \cup
                           {call.staged[i] : i \in 1..Len(call.staged)}
      /\ decisionRows' = decisionRows \cup call.rows
      /\ requests' = requests /\ issued' = issued /\ responses' = responses
  BY <1>2 DEF Publishes, Apply, clientVars
<1>5. /\ Len(call.state) = stream.headSequence + Len(call.staged)
      /\ \A i \in 1..stream.headSequence : call.state[i] = stream.state[i]
      /\ \A i \in 1..Len(call.staged) :
             /\ call.staged[i].sequence = stream.headSequence + i
             /\ call.staged[i].operation =
                    call.state[stream.headSequence + i]
  BY <1>1, <1>3 DEF StateExtends
<1>. QED
  BY <1>1, <1>2, <1>3, <1>4, <1>5

\* The history grows at its end, without a gap.
LEMMA PublishHistory ==
  ASSUME D1Inv, NEW call, Publishes(call)
  PROVE  HistorySound'
<1>1. PICK head \in Nat : head = stream.headSequence
  BY PublishedBatch
<1>2. PICK m \in Nat : m = Len(call.staged)
  BY PublishedBatch
<1>3. PICK entries : entries = logEntries'
  OBVIOUS
<1>4. /\ stream'.headSequence = head + m /\ stream'.state = call.state
      /\ Len(call.state) = head + m
      /\ \A i \in 1..head : call.state[i] = stream.state[i]
      /\ \A i \in 1..m : /\ call.staged[i].sequence = head + i
                         /\ call.staged[i].operation = call.state[head + i]
                         /\ call.staged[i] \in entries
      /\ \A row \in entries : \/ row \in logEntries
                              \/ \E i \in 1..m : row = call.staged[i]
      /\ logEntries \subseteq entries
  BY <1>1, <1>2, <1>3, PublishedBatch
<1>5. /\ \A row \in logEntries : /\ row.sequence \in 1..head
                                 /\ stream.state[row.sequence] = row.operation
      /\ \A i \in 1..head : \E row \in logEntries : row.sequence = i
      /\ \A left, right \in logEntries :
             left.sequence = right.sequence => left = right
  BY <1>1 DEF D1Inv, TablesSound, HistorySound
<1>6. ASSUME NEW row \in entries
      PROVE  /\ row.sequence \in 1..head + m
             /\ call.state[row.sequence] = row.operation
  <2>1. CASE row \in logEntries
    BY <1>4, <1>5, <2>1
  <2>2. ASSUME NEW i \in 1..m, row = call.staged[i]
        PROVE  /\ row.sequence \in 1..head + m
               /\ call.state[row.sequence] = row.operation
    <3>1. head + i \in 1..head + m
      OBVIOUS
    <3>. QED
      BY <1>4, <2>2, <3>1
  <2>. QED
    BY <1>4, <2>1, <2>2
<1>7. ASSUME NEW i \in 1..head + m
      PROVE  \E row \in entries : row.sequence = i
  <2>1. CASE i \in 1..head
    BY <1>4, <1>5, <2>1
  <2>2. CASE ~ (i \in 1..head)
    <3>1. i - head \in 1..m /\ head + (i - head) = i
      BY <2>2
    <3>. QED
      BY <1>4, <3>1
  <2>. QED
    BY <2>1, <2>2
<1>8. ASSUME NEW left \in entries, NEW right \in entries,
             left.sequence = right.sequence
      PROVE  left = right
  <2>1. CASE left \in logEntries /\ right \in logEntries
    BY <1>5, <1>8, <2>1
  <2>2. ASSUME NEW i \in 1..m, NEW j \in 1..m,
               left = call.staged[i], right = call.staged[j]
        PROVE  left = right
    <3>1. head + i = head + j
      BY <1>4, <1>8, <2>2
    <3>2. i = j
      BY <3>1
    <3>. QED
      BY <2>2, <3>2
  <2>3. ASSUME NEW i \in 1..m, NEW old \in logEntries
        PROVE  old.sequence # call.staged[i].sequence
    <3>1. old.sequence \in 1..head
      BY <1>5
    <3>2. call.staged[i].sequence = head + i
      BY <1>4
    <3>. QED
      BY <3>1, <3>2
  <2>. QED
    BY <1>4, <1>8, <2>1, <2>2, <2>3
<1>. QED
  BY <1>3, <1>4, <1>6, <1>7, <1>8 DEF HistorySound

\* Log and decisions still name each other, and no id is decided twice.
LEMMA PublishTables ==
  ASSUME D1Inv, NEW call, Publishes(call)
  PROVE  EntriesStored' /\ RowsSound'
<1>1. PICK m \in Nat : m = Len(call.staged)
  BY PublishedBatch
<1>2. PICK entries : entries = logEntries'
  OBVIOUS
<1>3. PICK rows : rows = decisionRows'
  OBVIOUS
<1>4. /\ call \in StagingCall /\ CallSound(call) /\ StagingSound(call)
      /\ \A new \in call.rows : ~ Stored(new.identity.operationId)
      /\ \A i \in 1..m : call.staged[i] \in entries
      /\ \A row \in entries : \/ row \in logEntries
                              \/ \E i \in 1..m : row = call.staged[i]
      /\ logEntries \subseteq entries
      /\ rows = decisionRows \cup call.rows
      /\ issued' = issued
  BY <1>1, <1>2, <1>3, PublishedBatch
<1>5. ASSUME NEW row \in entries
      PROVE  \E d \in rows : /\ d.decision = AcceptedFor(row)
                             /\ OriginOf(d.identity) = row.origin
  <2>1. CASE row \in logEntries
    BY <1>4, <2>1, LogRow
  <2>2. ASSUME NEW i \in 1..m, row = call.staged[i]
        PROVE  \E d \in rows : /\ d.decision = AcceptedFor(row)
                               /\ OriginOf(d.identity) = row.origin
    <3>1. i \in 1..Len(call.staged)
      BY <1>1
    <3>. QED
      BY <1>4, <2>2, <3>1, StagedEntry
  <2>. QED
    BY <1>4, <2>1, <2>2
<1>6. ASSUME NEW d \in rows
      PROVE  /\ d.identity \in issued
             /\ d.decision.operationId = d.identity.operationId
             /\ d.decision.status = "accepted" =>
                    \E row \in entries : d.decision = AcceptedFor(row)
  <2>1. CASE d \in decisionRows
    BY <1>4, <2>1 DEF D1Inv, TablesSound, RowsSound
  <2>2. CASE d \in call.rows
    <3>1. /\ d.identity \in issued
          /\ d.decision.operationId = d.identity.operationId
      BY <1>4, <2>2, StagedRow
    <3>2. RowStaged(call, d)
      BY <1>4, <2>2 DEF StagingSound, RowsStaged
    <3>3. d.decision.status = "accepted" =>
              \E i \in 1..m : d.decision = AcceptedFor(call.staged[i])
      BY <1>1, <3>2 DEF RowStaged
    <3>. QED
      BY <1>4, <3>1, <3>3
  <2>. QED
    BY <1>4, <2>1, <2>2
<1>7. ASSUME NEW d \in rows, NEW e \in rows,
             d.identity.operationId = e.identity.operationId
      PROVE  d = e
  <2>1. CASE d \in decisionRows /\ e \in decisionRows
    BY <1>7, <2>1 DEF D1Inv, TablesSound, RowsSound
  <2>2. CASE d \in call.rows /\ e \in call.rows
    BY <1>4, <1>7, <2>2 DEF StagingSound, RowsStaged
  <2>3. ASSUME NEW old \in decisionRows, NEW new \in call.rows
        PROVE  old.identity.operationId # new.identity.operationId
    BY <1>4 DEF Stored
  <2>. QED
    BY <1>4, <1>7, <2>1, <2>2, <2>3
<1>. QED
  BY <1>2, <1>3, <1>4, <1>5, <1>6, <1>7 DEF EntriesStored, RowsSound

\* A decided proposal of the batch leaves no earlier one of its client
\* undecided: the request had to carry those, and the call dealt with them.
LEMMA PublishStoredInOrder ==
  ASSUME D1Inv, NEW call, Publishes(call)
  PROVE  StoredInOrder'
<1>1. PICK rows : rows = decisionRows'
  OBVIOUS
<1>2. PICK ps : ps = call.request.proposals
  OBVIOUS
<1>3. /\ call \in StagingCall /\ CallSound(call) /\ StagingSound(call)
      /\ rows = decisionRows \cup call.rows /\ issued' = issued
  BY <1>1, PublishedBatch
<1>4. /\ RequestHonest(call.request) /\ Len(ps) \in Nat
      /\ DOMAIN ps = 1..Len(ps)
      /\ \A i \in 1..Len(ps) : /\ ps[i] \in Proposal
                               /\ ps[i].clientId = call.request.replica
      /\ \A i, j \in 1..Len(ps) : i < j =>
             ps[i].clientSequence < ps[j].clientSequence
  BY <1>2, <1>3, CallProposals
<1>5. DecidedRows(call) /\ Len(call.decided) \in Nat
  BY <1>3, StagingTypes DEF StagingSound, DecidedSound
<1>6. ASSUME NEW d \in rows, NEW p \in issued,
             p.clientId = d.identity.clientId,
             p.clientSequence < d.identity.clientSequence
      PROVE  \E row \in rows : row.identity.operationId = p.operationId
  <2>1. CASE d \in decisionRows
    <3>1. Stored(p.operationId)
      BY <1>6, <2>1 DEF D1Inv, TablesSound, StoredInOrder
    <3>. QED
      BY <1>3, <3>1 DEF Stored
  <2>2. CASE d \in call.rows
    <3>1. PICK k \in 1..Len(call.decided) : d.identity = ps[k]
      BY <1>2, <1>3, <2>2 DEF StagingSound, RowsStaged, RowStaged
    <3>2. k \in 1..Len(ps)
      BY <1>2, <1>4, <1>5 DEF DecidedRows
    <3>3. p \in IssuedBy(call.request.replica)
      BY <1>4, <1>6, <3>1, <3>2 DEF IssuedBy
    <3>4. \/ Stored(p.operationId)
          \/ \E j \in 1..Len(ps) : ps[j] = p
      BY <1>2, <1>4, <1>6, <3>1, <3>2, <3>3 DEF RequestHonest, Complete
    <3>5. CASE Stored(p.operationId)
      BY <1>3, <3>5 DEF Stored
    <3>6. ASSUME NEW j \in 1..Len(ps), ps[j] = p
          PROVE  \E row \in rows : row.identity.operationId = p.operationId
      <4>1. ps[j].clientSequence < ps[k].clientSequence
        BY <1>6, <3>1, <3>6
      <4>2. ps[j].clientSequence \in Nat /\ ps[k].clientSequence \in Nat
        BY <1>4, <3>2 DEF Proposal, ClientSequence
      <4>3. ~ (k < j) /\ k # j
        BY <1>4, <3>2, <4>1, <4>2
      <4>4. j \in 1..Len(call.decided)
        BY <1>4, <1>5, <4>3
      <4>5. HasRow(call, p, call.decided[j])
        BY <1>2, <1>5, <3>6, <4>4 DEF DecidedRows
      <4>. QED
        BY <1>3, <4>5 DEF HasRow
    <3>. QED
      BY <3>4, <3>5, <3>6
  <2>. QED
    BY <1>3, <2>1, <2>2
<1>. QED
  BY <1>1, <1>3, <1>6 DEF StoredInOrder, Stored

\* The new entries of a client come after all it has in the log: an entry
\* with a later position would have had to find theirs decided.
LEMMA PublishClientOrder ==
  ASSUME D1Inv, NEW call, Publishes(call)
  PROVE  D1ClientOrderKept'
<1>1. PICK head \in Nat : head = stream.headSequence
  BY PublishedBatch
<1>2. PICK m \in Nat : m = Len(call.staged)
  BY PublishedBatch
<1>3. PICK entries : entries = logEntries'
  OBVIOUS
<1>4. /\ call \in StagingCall /\ CallSound(call) /\ StagingSound(call)
      /\ \A new \in call.rows : ~ Stored(new.identity.operationId)
      /\ \A i \in 1..m : call.staged[i].sequence = head + i
      /\ \A row \in entries : \/ row \in logEntries
                              \/ \E i \in 1..m : row = call.staged[i]
      /\ \A row \in logEntries : row.sequence \in 1..head
  <2>1. \A row \in logEntries : row.sequence \in 1..head
    BY <1>1 DEF D1Inv, TablesSound, HistorySound
  <2>. QED
    BY <1>1, <1>2, <1>3, <2>1, PublishedBatch
<1>5. ASSUME NEW left \in entries, NEW right \in entries,
             left.origin.clientId = right.origin.clientId,
             left.sequence < right.sequence
      PROVE  left.origin.clientSequence < right.origin.clientSequence
  <2>1. CASE left \in logEntries /\ right \in logEntries
    BY <1>5, <2>1 DEF D1Inv, TablesSound, D1ClientOrderKept
  <2>2. ASSUME NEW i \in 1..m, left = call.staged[i], right \in logEntries
        PROVE  FALSE
    <3>1. left.sequence = head + i /\ right.sequence \in 1..head
      BY <1>4, <2>2
    <3>. QED
      BY <1>5, <3>1
  <2>3. ASSUME NEW i \in 1..m, NEW j \in 1..m,
               left = call.staged[i], right = call.staged[j]
        PROVE  left.origin.clientSequence < right.origin.clientSequence
    <3>1. left.sequence = head + i /\ right.sequence = head + j
      BY <1>4, <2>3
    <3>2. i < j
      BY <1>5, <3>1
    <3>3. StagedInOrder(call) /\ i \in 1..Len(call.staged)
          /\ j \in 1..Len(call.staged)
      BY <1>2, <1>4 DEF StagingSound
    <3>. QED
      BY <1>5, <2>3, <3>2, <3>3 DEF StagedInOrder
  <2>4. ASSUME NEW j \in 1..m, left \in logEntries, right = call.staged[j]
        PROVE  left.origin.clientSequence < right.origin.clientSequence
    <3>1. PICK d \in decisionRows : /\ d.identity \in issued
                                    /\ OriginOf(d.identity) = left.origin
      BY <2>4, LogRow
    <3>2. PICK new \in call.rows : /\ new.identity \in issued
                                   /\ OriginOf(new.identity) = right.origin
      <4>1. j \in 1..Len(call.staged)
        BY <1>2
      <4>. QED
        BY <1>4, <2>4, <4>1, StagedEntry
    <3>3. /\ d.identity.clientId = new.identity.clientId
          /\ left.origin.clientSequence = d.identity.clientSequence
          /\ right.origin.clientSequence = new.identity.clientSequence
      BY <1>5, <3>1, <3>2 DEF OriginOf
    <3>4. ~ Stored(new.identity.operationId)
      BY <1>4
    <3>5. d.identity.clientSequence # new.identity.clientSequence
      <4>1. SUFFICES ASSUME d.identity.clientSequence =
                                new.identity.clientSequence
                     PROVE  FALSE
        OBVIOUS
      <4>2. SamePosition(d.identity, new.identity)
        BY <3>3, <4>1 DEF SamePosition
      <4>3. d.identity = new.identity
        BY <3>1, <3>2, <4>2 DEF D1Inv, IssuedNumbered
      <4>. QED
        BY <3>4, <4>3 DEF Stored
    <3>6. ~ (new.identity.clientSequence < d.identity.clientSequence)
      BY <3>2, <3>3, <3>4 DEF D1Inv, TablesSound, StoredInOrder
    <3>7. /\ d.identity.clientSequence \in Nat
          /\ new.identity.clientSequence \in Nat
      BY <3>1, <3>2 DEF D1Inv, D1TypeOK, Proposal, ClientSequence
    <3>. QED
      BY <3>3, <3>5, <3>6, <3>7
  <2>. QED
    BY <1>4, <2>1, <2>2, <2>3, <2>4
<1>. QED
  BY <1>3, <1>5 DEF D1ClientOrderKept

\* Messages, however old, are as true of the longer history.
LEMMA PublishMessages ==
  ASSUME D1Inv, NEW call, Publishes(call)
  PROVE  /\ \A request \in requests' : RequestHonest(request)'
         /\ \A response \in responses' : ResponseTrue(response)'
<1>1. /\ stream.headSequence \in Nat
      /\ stream'.headSequence \in Nat
      /\ stream.headSequence <= stream'.headSequence
      /\ logEntries \subseteq logEntries'
      /\ decisionRows \subseteq decisionRows'
      /\ requests' = requests /\ issued' = issued /\ responses' = responses
  BY PublishedBatch
<1>2. ASSUME NEW request \in requests
      PROVE  RequestHonest(request)'
  <2>1. RequestHonest(request) /\ request.baseSequence \in Nat
    BY DEF D1Inv, D1TypeOK, SyncRequest
  <2>2. request.baseSequence <= stream'.headSequence
    BY <1>1, <2>1 DEF RequestHonest
  <2>3. Complete(request.replica, request.proposals)'
    <3>1. Complete(request.replica, request.proposals)
      BY <2>1 DEF RequestHonest
    <3>2. \A id : Stored(id) => Stored(id)'
      BY <1>1 DEF Stored
    <3>. QED
      BY <1>1, <3>1, <3>2 DEF Complete, IssuedBy
  <2>. QED
    BY <1>1, <2>1, <2>2, <2>3 DEF RequestHonest
<1>3. ASSUME NEW response \in responses
      PROVE  ResponseTrue(response)'
  <2>1. ResponseTrue(response) /\ response.headSequence \in Nat
    BY DEF D1Inv, D1TypeOK, SyncResponse
  <2>2. response.headSequence <= stream'.headSequence
    BY <1>1, <2>1 DEF ResponseTrue
  <2>. QED
    BY <1>1, <2>1, <2>2 DEF ResponseTrue
<1>. QED
  BY <1>1, <1>2, <1>3

\* The other calls have read a past that still stands, and know that they
\* were disturbed.
LEMMA PublishOthers ==
  ASSUME D1Inv, NEW call, Publishes(call), NEW g \in Handlers,
         ~ At(g, "idle"), calls[g]' = Disturbed(calls[g])
  PROVE  CallSound(calls[g])'
<1>1. PICK old : old = calls[g]
  OBVIOUS
<1>2. PICK new : new = calls[g]'
  OBVIOUS
<1>3. /\ old \in NewCall \cup StagingCall /\ CallSound(old) /\ CallOwed(old)
      /\ old.attempt <= old.disturbed
  BY <1>1, CallTypes DEF CallSound, CallOwed
<1>4. /\ old \in NewCall => new \in NewCall /\ new \notin StagingCall
      /\ old \in StagingCall => new \in StagingCall
      /\ new.pc = old.pc /\ new.request = old.request
      /\ new.attempt = old.attempt /\ old.attempt <= new.disturbed
      /\ ~ Undisturbed(new)
  <2>1. /\ old \in NewCall => new \in NewCall
        /\ old \in StagingCall => new \in StagingCall
        /\ old.attempt <= new.disturbed /\ ~ Undisturbed(new)
    BY <1>1, <1>2, <1>3, DisturbedCall
  <2>2. new.pc = old.pc /\ new.request = old.request
        /\ new.attempt = old.attempt
    BY <1>1, <1>2, <1>3, DisturbedCall
  <2>. QED
    BY <2>1, <2>2 DEF NewCall, StagingCall
<1>5. old \in StagingCall =>
          /\ new.readHead = old.readHead /\ new.state = old.state
          /\ new.staged = old.staged /\ new.rows = old.rows
          /\ new.decided = old.decided
  BY <1>1, <1>2, <1>3, DisturbedCall
<1>6. /\ stream.headSequence \in Nat /\ stream'.headSequence \in Nat
      /\ stream.headSequence <= stream'.headSequence
      /\ \A i \in 1..stream.headSequence : stream'.state[i] = stream.state[i]
      /\ logEntries \subseteq logEntries'
      /\ decisionRows \subseteq decisionRows'
      /\ requests' = requests
  BY PublishedBatch
<1>7. CASE old \in NewCall
  BY <1>2, <1>3, <1>4, <1>6, <1>7 DEF CallSound, CallOwed
<1>8. CASE old \in StagingCall
  <2>1. StagingSound(old) /\ old.readHead \in Nat /\ Len(old.staged) \in Nat
    BY <1>3, <1>8, StagingTypes DEF CallSound
  <2>2. StateExtends(calls[g])'
    <3>1. StateExtends(old) /\ old.readHead <= stream.headSequence
      BY <2>1 DEF StagingSound, StateExtends
    <3>2. /\ old.readHead <= stream'.headSequence
          /\ \A i \in 1..old.readHead : i \in 1..stream.headSequence
      BY <1>6, <2>1, <3>1
    <3>3. \A i \in 1..old.readHead : old.state[i] = stream'.state[i]
      BY <1>6, <3>1, <3>2 DEF StateExtends
    <3>. QED
      BY <1>2, <1>4, <1>5, <1>8, <3>1, <3>2, <3>3 DEF StateExtends
  <2>3. RowsStaged(calls[g])'
    <3>1. ASSUME NEW row \in old.rows
          PROVE  RowStaged(calls[g], row)'
      <4>1. RowStaged(old, row)
        BY <2>1 DEF StagingSound, RowsStaged
      <4>. QED
        BY <1>2, <1>4, <1>5, <1>8, <4>1 DEF RowStaged
    <3>2. RowsStaged(old)
      BY <2>1 DEF StagingSound
    <3>. QED
      BY <1>2, <1>5, <1>8, <3>1, <3>2 DEF RowsStaged
  <2>4. StagedInOrder(calls[g])'
    BY <1>2, <1>5, <1>8, <2>1 DEF StagingSound, StagedInOrder
  <2>5. DecidedSound(calls[g])'
    <3>1. DecidedSound(old)
      BY <2>1 DEF StagingSound
    <3>2. /\ calls'[g].request = old.request /\ calls'[g].rows = old.rows
          /\ calls'[g].decided = old.decided /\ calls'[g].pc = old.pc
      <4>1. calls'[g] = new
        BY <1>2
      <4>2. new.request = old.request /\ new.pc = old.pc
        BY <1>4
      <4>3. new.rows = old.rows /\ new.decided = old.decided
        BY <1>5, <1>8
      <4>. QED
        BY <4>1, <4>2, <4>3
    <3>3. decisionRows \subseteq decisionRows'
      BY <1>6
    <3>4. DecidedRows(calls[g])'
      <4>1. DecidedRows(old)
        BY <3>1 DEF DecidedSound
      <4>2. ASSUME NEW k \in 1..Len(old.decided)
            PROVE  HasRow(calls[g], old.request.proposals[k], old.decided[k])'
        <5>1. PICK row \in decisionRows \cup old.rows :
                 /\ row.identity = old.request.proposals[k]
                 /\ row.decision = old.decided[k]
          BY <4>1 DEF DecidedRows, HasRow
        <5>. QED
          BY <3>2, <3>3, <5>1 DEF HasRow
      <4>. QED
        BY <3>2, <4>1, <4>2 DEF DecidedRows
    <3>. QED
      BY <3>1, <3>2, <3>4 DEF DecidedSound
  <2>6. StillCurrent(calls[g])'
    BY <1>2, <1>4 DEF StillCurrent, Undisturbed
  <2>7. Published(calls[g])'
    <3>1. SUFFICES ASSUME old.pc = "page"
                   PROVE  /\ old.readHead + Len(old.staged)
                                 <= stream'.headSequence
                          /\ old.rows \subseteq decisionRows'
                          /\ \A i \in 1..Len(old.staged) :
                                 old.staged[i] \in logEntries'
      BY <1>2, <1>4, <1>5, <1>8 DEF Published
    <3>2. /\ old.readHead + Len(old.staged) <= stream.headSequence
          /\ old.rows \subseteq decisionRows
          /\ \A i \in 1..Len(old.staged) : old.staged[i] \in logEntries
      BY <2>1, <3>1 DEF StagingSound, Published
    <3>. QED
      BY <1>6, <2>1, <3>2
  <2>8. StagingSound(calls[g])'
    BY <2>2, <2>3, <2>4, <2>5, <2>6, <2>7 DEF StagingSound
  <2>9. CallOwed(calls[g])'
    BY <1>2, <1>3, <1>4, <1>6 DEF CallOwed
  <2>. QED
    BY <2>8, <2>9 DEF CallSound
<1>. QED
  BY <1>3, <1>7, <1>8

\* The call itself goes on to its page with everything it staged stored.
LEMMA PublishOwn ==
  ASSUME D1Inv, NEW call, Publishes(call), NEW h \in Handlers,
         calls[h]' = ToPage(call)
  PROVE  CallSound(calls[h])'
<1>1. PICK new : new = calls[h]'
  OBVIOUS
<1>2. /\ call \in StagingCall /\ CallSound(call) /\ StagingSound(call)
      /\ stream.headSequence \in Nat /\ Len(call.staged) \in Nat
      /\ call.readHead = stream.headSequence
      /\ Len(call.state) = stream.headSequence + Len(call.staged)
      /\ stream'.headSequence = stream.headSequence + Len(call.staged)
      /\ stream'.state = call.state
      /\ \A i \in 1..Len(call.staged) :
             /\ call.staged[i].sequence = stream.headSequence + i
             /\ call.staged[i].operation =
                    call.state[stream.headSequence + i]
             /\ call.staged[i] \in logEntries'
      /\ decisionRows' = decisionRows \cup call.rows
      /\ requests' = requests
      /\ call.pc = "commit"
  BY PublishedBatch DEF Publishes
<1>3. /\ new \in StagingCall /\ new \notin NewCall
      /\ new.pc = "page" /\ new.request = call.request
      /\ new.attempt = call.attempt /\ new.disturbed = call.disturbed
      /\ new.readHead = call.readHead /\ new.state = call.state
      /\ new.staged = call.staged /\ new.rows = call.rows
      /\ new.decided = call.decided
  BY <1>1, <1>2 DEF ToPage, StagingCall, NewCall
<1>4. StateExtends(calls[h])'
  <2>1. call.request.baseSequence <= call.readHead
    BY <1>2 DEF StagingSound, StateExtends
  <2>2. call.readHead <= stream'.headSequence
    BY <1>2
  <2>. QED
    BY <1>1, <1>2, <1>3, <2>1, <2>2 DEF StateExtends
<1>5. RowsStaged(calls[h])'
  <2>1. ASSUME NEW row \in call.rows
        PROVE  RowStaged(calls[h], row)'
    <3>1. RowStaged(call, row)
      BY <1>2 DEF StagingSound, RowsStaged
    <3>. QED
      BY <1>1, <1>3, <3>1 DEF RowStaged
  <2>2. RowsStaged(call)
    BY <1>2 DEF StagingSound
  <2>. QED
    BY <1>1, <1>3, <2>1, <2>2 DEF RowsStaged
<1>6. StagedInOrder(calls[h])'
  BY <1>1, <1>2, <1>3 DEF StagingSound, StagedInOrder
<1>7. DecidedSound(calls[h])'
  BY <1>1, <1>2, <1>3 DEF StagingSound, DecidedSound, DecidedRows, HasRow
<1>8. StillCurrent(calls[h])'
  BY <1>1, <1>3 DEF StillCurrent
<1>9. Published(calls[h])'
  <2>1. call.readHead + Len(call.staged) <= stream'.headSequence
    BY <1>2
  <2>. QED
    BY <1>1, <1>2, <1>3, <2>1 DEF Published
<1>10. CallOwed(calls[h])'
  BY <1>1, <1>2, <1>3 DEF CallSound, CallOwed
<1>. QED
  BY <1>4, <1>5, <1>6, <1>7, <1>8, <1>9, <1>10 DEF CallSound, StagingSound

\* A commit preserves the invariant, whether its answer arrives or is lost.
LEMMA PublishKeepsInv ==
  ASSUME D1Inv, NEW h \in Handlers, NEW call, call = calls[h],
         Publishes(call), UNCHANGED failures,
         NEW own, own = Idle \/ own = ToPage(call), Committed(h, own)
  PROVE  D1Inv'
<1>1. /\ call \in StagingCall /\ CallSound(call) /\ call.pc = "commit"
      /\ stream'.headSequence = stream.headSequence + Len(call.staged)
      /\ stream.headSequence \in Nat /\ Len(call.staged) \in Nat
      /\ stream'.state = call.state
      /\ \A row \in logEntries' :
             \/ row \in logEntries
             \/ \E i \in 1..Len(call.staged) : row = call.staged[i]
      /\ decisionRows' = decisionRows \cup call.rows
      /\ requests' = requests /\ issued' = issued /\ responses' = responses
  BY PublishedBatch DEF Publishes
<1>2. ToPage(call) \in StagingCall
  BY <1>1 DEF ToPage, StagingCall
<1>3. ASSUME NEW g \in Handlers
      PROVE  /\ calls'[g] = IF g = h THEN own
                            ELSE IF At(g, "idle") THEN calls[g]
                            ELSE Disturbed(calls[g])
             /\ calls'[g] \in {Idle} \cup NewCall \cup StagingCall
             /\ CallSound(calls[g])'
  <2>1. calls'[g] = IF g = h THEN own
                    ELSE IF At(g, "idle") THEN calls[g]
                    ELSE Disturbed(calls[g])
    BY DEF Committed
  <2>2. \A c : c = Idle => c \notin NewCall \cup StagingCall
    BY DEF Idle, NewCall, StagingCall
  <2>3. CASE g = h /\ own = Idle
    BY <2>1, <2>2, <2>3 DEF CallSound
  <2>4. CASE g = h /\ own = ToPage(call)
    <3>1. calls[g]' = ToPage(call)
      BY <2>1, <2>4
    <3>. QED
      BY <1>2, <2>1, <2>4, <3>1, PublishOwn
  <2>5. CASE g # h /\ At(g, "idle")
    <3>1. calls'[g] = calls[g] /\ calls[g] = Idle
      BY <2>1, <2>5, CallTypes DEF At, NewCall, StagingCall
    <3>2. CallSound(calls[g])'
      BY <2>2, <3>1 DEF CallSound
    <3>. QED
      BY <2>1, <3>1, <3>2
  <2>6. CASE g # h /\ ~ At(g, "idle")
    <3>1. calls[g]' = Disturbed(calls[g])
      BY <2>1, <2>6
    <3>2. /\ calls[g] \in NewCall \cup StagingCall
          /\ calls[g].attempt <= calls[g].disturbed
      BY <2>6, CallTypes DEF CallSound, CallOwed
    <3>3. calls'[g] \in NewCall \cup StagingCall
      BY <3>1, <3>2, DisturbedCall
    <3>4. CallSound(calls[g])'
      BY <2>6, <3>1, PublishOthers
    <3>. QED
      BY <2>1, <3>3, <3>4
  <2>. QED
    BY <2>3, <2>4, <2>5, <2>6
<1>4. CallsTyped'
  <2>1. calls' = [g \in Handlers |-> calls'[g]]
    BY DEF Committed
  <2>. QED
    BY <1>3, <2>1 DEF CallsTyped
<1>5. D1TypeOK'
  <2>1. stream' \in [headSequence : Nat, state : Seq(Operations)]
    <3>1. stream' = [headSequence |-> call.readHead + Len(call.staged),
                     state |-> call.state]
      BY DEF Publishes, Apply
    <3>. QED
      BY <1>1, <3>1, StagingTypes
  <2>2. logEntries' \subseteq CommittedOperation
    <3>1. \A i \in 1..Len(call.staged) : call.staged[i] \in CommittedOperation
      BY <1>1, StagingTypes, ElementOfSeq
    <3>. QED
      BY <1>1, <3>1 DEF D1Inv, D1TypeOK
  <2>3. decisionRows' \subseteq [identity : Proposal,
                                decision : ProposalDecision,
                                basis : Seq(Operations)]
    BY <1>1, StagingTypes DEF StoredRow, D1Inv, D1TypeOK
  <2>4. /\ requests' \subseteq SyncRequest /\ responses' \subseteq SyncResponse
        /\ issued' \subseteq Proposal
    BY <1>1 DEF D1Inv, D1TypeOK
  <2>5. ASSUME NEW g \in Handlers, calls'[g].pc # "idle"
        PROVE  [attempt |-> calls'[g].attempt,
                disturbed |-> calls'[g].disturbed,
                request |-> calls'[g].request] \in CallInProgress
    BY <1>3, <2>5 DEF CallInProgress, Idle, NewCall, StagingCall
  <2>. QED
    BY <2>1, <2>2, <2>3, <2>4, <2>5 DEF D1TypeOK, At
<1>6. TablesSound'
  BY PublishHistory, PublishTables, PublishStoredInOrder, PublishClientOrder
  DEF TablesSound
<1>7. IssuedNumbered' /\ NeverRefused'
  BY <1>1 DEF D1Inv, IssuedNumbered, IssuedBy, NeverRefused
<1>. QED
  BY <1>3, <1>4, <1>5, <1>6, <1>7, PublishMessages DEF D1Inv

\* CommitBatch and LoseCommit.
LEMMA CommitKeepsInv ==
  ASSUME D1Inv, NEW h \in Handlers, CommitBatch(h) \/ LoseCommit(h)
  PROVE  D1Inv'
<1>1. PICK call : call = calls[h]
  OBVIOUS
<1>2. PICK own :
         /\ own = Idle \/ own = ToPage(call)
         /\ At(h, "commit") /\ ~ Aborts(call) /\ Apply(call)
         /\ Committed(h, own)
         /\ UNCHANGED <<clientVars, responses, failures>>
  BY <1>1 DEF CommitBatch, LoseCommit, ToPage
<1>3. Publishes(call)
  BY <1>1, <1>2, CallTypes DEF Publishes, At
<1>. QED
  BY <1>1, <1>2, <1>3, PublishKeepsInv

-----------------------------------------------------------------------------

\* Every step preserves the invariant.
LEMMA D1Step ==
  ASSUME D1Inv, [Next]_vars
  PROVE  D1Inv'
<1>1. CASE IssueStep
  BY <1>1, IssueKeepsInv
<1>2. CASE SendStep
  BY <1>2, SendKeepsInv
<1>3. CASE ReceiveStep
  BY <1>3, ReceiveKeepsInv
<1>4. ASSUME NEW h \in Handlers, HandlerStep(h)
      PROVE  D1Inv'
  <2>1. CASE ReadStream(h)
    BY <2>1, ReadStreamKeepsInv
  <2>2. CASE ReadStoredDecision(h)
    BY <2>2, ReadStoredDecisionKeepsInv
  <2>3. CASE DecideProposal(h)
    BY <2>3, DecideProposalKeepsInv
  <2>4. CASE CommitBatch(h) \/ LoseCommit(h)
    BY <2>4, CommitKeepsInv
  <2>5. CASE RetryCommit(h)
    BY <2>5, RetryCommitKeepsInv
  <2>6. CASE ReadLogPage(h)
    BY <2>6, ReadLogPageKeepsInv
  <2>7. CASE Busy(h)
    BY <2>7, BusyKeepsInv
  <2>8. CASE Abandon(h)
    BY <2>8, AbandonKeepsInv
  <2>. QED
    BY <1>4, <2>1, <2>2, <2>3, <2>4, <2>5, <2>6, <2>7, <2>8 DEF HandlerStep
<1>5. CASE UNCHANGED vars
  <2>1. /\ UNCHANGED <<tables, requests, responses, issued, failures>>
        /\ calls' = calls
    BY <1>5 DEF vars, tables
  <2>2. \A h \in Handlers : CallSound(calls[h])'
    BY <2>1, CallSoundKept DEF D1Inv
  <2>3. D1TypeOK' /\ CallsTyped' /\ NeverRefused' /\ IssuedNumbered'
    BY <2>1 DEF D1Inv, D1TypeOK, CallsTyped, NeverRefused, At,
       IssuedNumbered, IssuedBy, tables
  <2>4. TablesSound'
    BY <2>1, TablesSoundKept DEF D1Inv
  <2>5. /\ \A request \in requests' : RequestHonest(request)'
        /\ \A response \in responses' : ResponseTrue(response)'
    BY <2>1, MessagesKept DEF D1Inv
  <2>. QED
    BY <2>2, <2>3, <2>4, <2>5 DEF D1Inv
<1>. QED
  BY <1>1, <1>2, <1>3, <1>4, <1>5 DEF Next

\* D1Inv is an invariant: whatever calls interleave, retry, fail or lose
\* their answer, the tables describe one history and every call in progress
\* builds on a part of it.
THEOREM D1Inductive == Spec => []D1Inv
<1>. QED
  BY InitD1Inv, D1Step, PTL DEF Spec

\* One client's operations are committed in the order it issued them.
THEOREM ClientOrder == Spec => []D1ClientOrderKept
<1>1. D1Inv => D1ClientOrderKept
  BY DEF D1Inv, TablesSound
<1>. QED
  BY <1>1, D1Inductive, PTL

\* No call is refused for its base, its identity or its position: requests
\* overtaken by commits, repeated or retried never look like a conflict.
THEOREM Accepted == Spec => []NeverRefused
<1>1. D1Inv => NeverRefused
  BY DEF D1Inv
<1>. QED
  BY <1>1, D1Inductive, PTL

\* Each retry is owed to another call's commit or to a busy database.
THEOREM RetriesOwed == Spec => []RetryMeansProgress
<1>1. D1Inv => RetryMeansProgress
  BY CallTypes DEF RetryMeansProgress, CallSound, CallOwed
<1>. QED
  BY <1>1, D1Inductive, PTL

-----------------------------------------------------------------------------
(* The log that the table holds. *)

\* Rows, one for each position, are a sequence.
LEMMA LogOfRows ==
  ASSUME NEW entries, NEW head \in Nat, NEW l,
         l = [i \in 1..head |-> CHOOSE row \in entries : row.sequence = i],
         \A row \in entries : row.sequence \in 1..head,
         \A i \in 1..head : \E row \in entries : row.sequence = i,
         \A left, right \in entries :
             left.sequence = right.sequence => left = right
  PROVE  /\ DOMAIN l = 1..head
         /\ \A i \in 1..head : l[i] \in entries /\ l[i].sequence = i
         /\ \A row \in entries : l[row.sequence] = row
  OBVIOUS

\* That sequence is the log of the history the invariant describes.
LEMMA CommittedLog ==
  ASSUME D1Inv, NEW head, head = stream.headSequence,
         NEW l, l = Committed_log
  PROVE  /\ head \in Nat /\ l \in Seq(CommittedOperation) /\ Len(l) = head
         /\ \A i \in 1..head : /\ l[i] \in logEntries /\ l[i].sequence = i
                               /\ stream.state[i] = l[i].operation
         /\ \A row \in logEntries : /\ row.sequence \in 1..head
                                   /\ l[row.sequence] = row
<1>1. /\ head \in Nat /\ logEntries \subseteq CommittedOperation
      /\ \A row \in logEntries : /\ row.sequence \in 1..head
                                /\ stream.state[row.sequence] = row.operation
      /\ \A i \in 1..head : \E row \in logEntries : row.sequence = i
      /\ \A left, right \in logEntries :
             left.sequence = right.sequence => left = right
  BY DEF D1Inv, D1TypeOK, TablesSound, HistorySound
<1>2. l = [i \in 1..head |-> CHOOSE row \in logEntries : row.sequence = i]
  BY DEF Committed_log
<1>3. /\ \A i \in 1..head : l[i] \in logEntries /\ l[i].sequence = i
      /\ \A row \in logEntries : l[row.sequence] = row
  BY <1>1, <1>2, LogOfRows
<1>4. l \in [1..head -> CommittedOperation]
  BY <1>1, <1>2, <1>3
<1>5. l \in Seq(CommittedOperation) /\ Len(l) = head
  BY <1>1, <1>4, SeqDef
<1>. QED
  BY <1>1, <1>3, <1>5

\* The three tables describe one history.
THEOREM TablesAlwaysAgree == Spec => []TablesAgree
<1>1. ASSUME D1Inv PROVE TablesAgree
  <2>1. PICK head : head = stream.headSequence
    OBVIOUS
  <2>2. PICK l : l = Committed_log
    OBVIOUS
  <2>3. /\ head \in Nat /\ Len(l) = head
        /\ \A i \in 1..head : /\ l[i] \in logEntries /\ l[i].sequence = i
                              /\ stream.state[i] = l[i].operation
        /\ \A row \in logEntries : row.sequence \in 1..head
    BY <1>1, <2>1, <2>2, CommittedLog
  <2>4. {row.sequence : row \in logEntries} = 1..head
    BY <2>3
  <2>5. Cardinality(logEntries) = head
    <3>1. logEntries = {row \in logEntries : /\ row.sequence > 0
                                             /\ row.sequence <= head}
      BY <2>3
    <3>2. 0 <= head /\ head <= stream.headSequence /\ head - 0 = head
      BY <2>1, <2>3
    <3>. QED
      BY <1>1, <2>3, <3>1, <3>2, RowsBetween
  <2>6. stream.state = OperationsOf(l)
    <3>1. /\ stream.state \in Seq(Operations) /\ Len(stream.state) = head
      BY <1>1, <2>1 DEF D1Inv, D1TypeOK, TablesSound, HistorySound
    <3>2. stream.state = [i \in 1..head |-> stream.state[i]]
      BY <3>1, LenProperties
    <3>. QED
      BY <2>3, <3>2 DEF OperationsOf
  <2>. QED
    BY <1>1, <2>1, <2>2, <2>4, <2>5, <2>6 DEF TablesAgree, D1Inv, TablesSound,
       EntriesStored, RowsSound
<1>. QED
  BY <1>1, D1Inductive, PTL

\* Every answer, however its parts were read, is a page of that log.
THEOREM AnswersAlwaysTrue == Spec => []AnswersTrue
<1>1. ASSUME D1Inv PROVE AnswersTrue
  <2> SUFFICES ASSUME NEW response \in responses
      PROVE  /\ response.headSequence <= stream.headSequence
             /\ response.entries =
                    SubSeq(Committed_log, response.requestedBaseSequence + 1,
                           response.throughSequence)
             /\ \A i \in DOMAIN response.decisions : \E row \in decisionRows :
                    row.decision = response.decisions[i]
    BY DEF AnswersTrue
  <2>1. ResponseTrue(response) /\ response \in SyncResponse
    BY <1>1 DEF D1Inv, D1TypeOK
  <2>2. PICK base : base = response.requestedBaseSequence
    OBVIOUS
  <2>3. PICK through : through = response.throughSequence
    OBVIOUS
  <2>4. PICK entries : entries = response.entries
    OBVIOUS
  <2>5. PICK head : head = stream.headSequence
    OBVIOUS
  <2>6. PICK l : l = Committed_log
    OBVIOUS
  <2>7. /\ base \in Nat /\ through \in Nat /\ response.headSequence \in Nat
        /\ entries \in Seq(CommittedOperation)
        /\ DOMAIN response.decisions = 1..Len(response.decisions)
    BY <2>1, <2>2, <2>3, <2>4 DEF SyncResponse
  <2>8. /\ head \in Nat /\ l \in Seq(CommittedOperation) /\ Len(l) = head
        /\ \A row \in logEntries : l[row.sequence] = row
    BY <1>1, <2>5, <2>6, CommittedLog
  <2>9. /\ base <= through /\ through <= head
        /\ Len(entries) = through - base
        /\ \A i \in 1..through - base : /\ entries[i] \in logEntries
                                        /\ entries[i].sequence = base + i
    BY <2>1, <2>2, <2>3, <2>4, <2>5, <2>7, <2>8 DEF ResponseTrue
  <2>10. \A i \in 1..through - base : entries[i] = l[base + i]
    BY <2>8, <2>9
  <2>11. \A i \in base + 1..through : l[i] \in CommittedOperation
    <3>1. \A i \in base + 1..through : i \in 1..Len(l)
      BY <2>7, <2>8, <2>9
    <3>. QED
      BY <2>8, <3>1, ElementOfSeq
  <2>12. PICK page : page = SubSeq(l, base + 1, through)
    OBVIOUS
  <2>13. /\ page \in Seq(CommittedOperation)
         /\ Len(page) = through - base
         /\ \A i \in 1..through - base : page[i] = l[base + i]
    <3>1. base + 1 \in Int /\ through \in Int
      BY <2>7
    <3>2. /\ page \in Seq(CommittedOperation)
          /\ Len(page) = IF base + 1 <= through
                         THEN through - (base + 1) + 1 ELSE 0
          /\ \A i \in 1..through - (base + 1) + 1 :
                 page[i] = l[base + 1 + i - 1]
      BY <2>11, <2>12, <3>1, SubSeqProperties
    <3>3. /\ through - (base + 1) + 1 = through - base
          /\ ~ (base + 1 <= through) => through - base = 0
          /\ \A i \in 1..through - base : base + 1 + i - 1 = base + i
      BY <2>7, <2>9
    <3>. QED
      BY <3>2, <3>3
  <2>14. entries = page
    BY <2>7, <2>9, <2>10, <2>13, SeqEqual
  <2>. QED
    BY <2>1, <2>2, <2>3, <2>4, <2>5, <2>6, <2>7, <2>12, <2>14 DEF ResponseTrue
<1>. QED
  BY <1>1, D1Inductive, PTL

-----------------------------------------------------------------------------
(* What a step may do to the tables. *)

\* Only a batch that goes through changes a table.
LEMMA TablesStep ==
  ASSUME D1Inv, [Next]_vars
  PROVE  UNCHANGED tables \/ \E call : Publishes(call)
<1>1. CASE IssueStep \/ SendStep \/ ReceiveStep \/ UNCHANGED vars
  BY <1>1 DEF IssueStep, Issue, SendStep, Send, ReceiveStep, Receive, vars,
     tables
<1>2. ASSUME NEW h \in Handlers, HandlerStep(h)
      PROVE  UNCHANGED tables \/ \E call : Publishes(call)
  <2>1. CASE ReadStream(h)
    BY <2>1 DEF ReadStream, Fail, Proceed
  <2>2. CASE ReadStoredDecision(h)
    BY <2>2 DEF ReadStoredDecision, Fail, Proceed
  <2>3. CASE DecideProposal(h)
    BY <2>3 DEF DecideProposal, Fail, Proceed
  <2>4. CASE RetryCommit(h) \/ Busy(h) \/ Abandon(h)
    BY <2>4 DEF RetryCommit, Busy, Abandon, Retry
  <2>5. CASE ReadLogPage(h)
    BY <2>5 DEF ReadLogPage, Fail
  <2>6. CASE CommitBatch(h) \/ LoseCommit(h)
    <3>1. PICK call : call = calls[h]
      OBVIOUS
    <3>2. /\ At(h, "commit") /\ ~ Aborts(call) /\ Apply(call)
          /\ UNCHANGED <<clientVars, responses>>
      BY <2>6, <3>1 DEF CommitBatch, LoseCommit
    <3>3. Publishes(call)
      BY <3>1, <3>2, CallTypes DEF Publishes, At
    <3>. QED
      BY <3>3
  <2>. QED
    BY <1>2, <2>1, <2>2, <2>3, <2>4, <2>5, <2>6 DEF HandlerStep
<1>. QED
  BY <1>1, <1>2 DEF Next

\* A sequence that agrees with the beginning of another is a prefix of it.
LEMMA Prefix ==
  ASSUME NEW S, NEW left \in Seq(S), NEW right \in Seq(S),
         Len(left) <= Len(right),
         \A i \in 1..Len(left) : left[i] = right[i]
  PROVE  IsPrefixOf(left, right) /\ SubSeq(right, 1, Len(left)) = left
<1>1. Len(left) \in Nat /\ Len(right) \in Nat
  BY LenProperties
<1>2. \A i \in 1..Len(left) : right[i] \in S
  BY ElementOfSeq
<1>3. /\ SubSeq(right, 1, Len(left)) \in Seq(S)
      /\ Len(SubSeq(right, 1, Len(left))) = Len(left)
      /\ \A i \in 1..Len(left) : SubSeq(right, 1, Len(left))[i] = right[i]
  BY <1>1, <1>2, SubSeqProperties
<1>4. SubSeq(right, 1, Len(left)) = left
  BY <1>3, SeqEqual
<1>. QED
  BY <1>4 DEF IsPrefixOf

\* A decision that becomes permanent was taken on the state it is appended
\* to, never on one that another call has overtaken.
THEOREM DecidedOnCurrent == Spec => DecidedOnCurrentState
<1>1. ASSUME D1Inv, NEW call, Publishes(call),
             NEW row \in decisionRows' \ decisionRows
      PROVE  /\ IsPrefixOf(stream.state, row.basis)
             /\ IsPrefixOf(row.basis, stream'.state)
             /\ row.decision.status = "accepted" =>
                    row.decision.sequence = Len(row.basis) + 1
  <2>1. PICK head : head = stream.headSequence
    OBVIOUS
  <2>2. PICK old : old = stream.state
    OBVIOUS
  <2>3. PICK new : new = stream'.state
    OBVIOUS
  <2>4. /\ call \in StagingCall /\ StagingSound(call)
        /\ call.readHead = head /\ head \in Nat /\ new = call.state
        /\ \A i \in 1..head : call.state[i] = old[i]
        /\ row \in call.rows
    BY <1>1, <2>1, <2>2, <2>3, PublishedBatch
  <2>5. /\ old \in Seq(Operations) /\ Len(old) = head
        /\ new \in Seq(Operations) /\ Len(new) \in Nat
        /\ row.basis \in Seq(Operations) /\ Len(row.basis) \in Nat
    BY <1>1, <2>1, <2>2, <2>4, StagingTypes DEF D1Inv, D1TypeOK, TablesSound,
       HistorySound, StoredRow
  <2>6. /\ Len(row.basis) \in head..Len(new)
        /\ \A i \in 1..Len(row.basis) : row.basis[i] = new[i]
        /\ row.decision.status = "accepted" =>
               row.decision.sequence = Len(row.basis) + 1
    BY <2>4 DEF StagingSound, RowsStaged, RowStaged
  <2>7. IsPrefixOf(row.basis, new)
    BY <2>5, <2>6, Prefix
  <2>8. /\ Len(old) <= Len(row.basis)
        /\ \A i \in 1..Len(old) : old[i] = row.basis[i]
    BY <2>4, <2>5, <2>6
  <2>9. IsPrefixOf(old, row.basis)
    BY <2>5, <2>8, Prefix
  <2>. QED
    BY <2>2, <2>3, <2>6, <2>7, <2>9
<1>2. ASSUME D1Inv, [Next]_vars
      PROVE  [ \A row \in decisionRows' \ decisionRows :
                  /\ IsPrefixOf(stream.state, row.basis)
                  /\ IsPrefixOf(row.basis, stream'.state)
                  /\ row.decision.status = "accepted" =>
                         row.decision.sequence = Len(row.basis) + 1
             ]_tables
  <2>1. CASE UNCHANGED tables
    BY <2>1
  <2>2. CASE \E call : Publishes(call)
    BY <1>1, <1>2, <2>2
  <2>. QED
    BY <1>2, <2>1, <2>2, TablesStep
<1>. QED
  BY <1>2, D1Inductive, PTL DEF Spec, DecidedOnCurrentState

-----------------------------------------------------------------------------
(* The refinement: a batch that goes through is one step of the log that   *)
(* CanonicalLog describes.                                                 *)

TableOf(rows) ==
    [id \in {row.identity.operationId : row \in rows} |->
        [identity |-> (CHOOSE row \in rows :
                           row.identity.operationId = id).identity,
         decision |-> (CHOOSE row \in rows :
                           row.identity.operationId = id).decision]]

\* The table holds the rows, each under its id.
Holds(table, rows) ==
    /\ \A row \in rows :
           /\ row.identity.operationId \in DOMAIN table
           /\ table[row.identity.operationId] =
                  [identity |-> row.identity, decision |-> row.decision]
    /\ \A id \in DOMAIN table : \E row \in rows :
           row.identity.operationId = id

\* Rows with different ids are a table by id.
LEMMA TableOfRows ==
  ASSUME NEW rows,
         \A d, e \in rows :
             d.identity.operationId = e.identity.operationId => d = e
  PROVE  Holds(TableOf(rows), rows)
<1>1. ASSUME NEW row \in rows
      PROVE  row = CHOOSE r \in rows :
                       r.identity.operationId = row.identity.operationId
  OBVIOUS
<1>. QED
  BY <1>1 DEF Holds, TableOf

\* The decisions a batch leaves are the ones before it and those of its rows.
LEMMA PublishedTable ==
  ASSUME D1Inv, NEW call, Publishes(call),
         NEW old, old = Decided_table, NEW new, new = Decided_table'
  PROVE  /\ \A id \in DOMAIN old : id \in DOMAIN new /\ new[id] = old[id]
         /\ \A row \in call.rows :
                /\ row.identity.operationId \in DOMAIN new \ DOMAIN old
                /\ new[row.identity.operationId].identity = row.identity
                /\ new[row.identity.operationId].decision = row.decision
         /\ \A id \in DOMAIN new \ DOMAIN old : \E row \in call.rows :
                row.identity.operationId = id
<1>1. PICK rows : rows = decisionRows
  OBVIOUS
<1>2. PICK later : later = decisionRows'
  OBVIOUS
<1>3. /\ later = rows \cup call.rows
      /\ \A row \in call.rows, other \in rows :
             row.identity.operationId # other.identity.operationId
  BY <1>1, <1>2, PublishedBatch DEF Stored
<1>4. Holds(old, rows)
  <2>1. \A d, e \in rows :
            d.identity.operationId = e.identity.operationId => d = e
    BY <1>1 DEF D1Inv, TablesSound, RowsSound
  <2>2. old = TableOf(rows)
    BY <1>1 DEF Decided_table, TableOf
  <2>. QED
    BY <2>1, <2>2, TableOfRows
<1>5. Holds(new, later)
  <2>1. \A d, e \in later :
            d.identity.operationId = e.identity.operationId => d = e
    BY <1>2, PublishTables DEF RowsSound
  <2>2. new = TableOf(later)
    BY <1>2 DEF Decided_table, TableOf
  <2>. QED
    BY <2>1, <2>2, TableOfRows
<1>6. ASSUME NEW id \in DOMAIN old
      PROVE  id \in DOMAIN new /\ new[id] = old[id]
  <2>1. PICK row \in rows : row.identity.operationId = id
    BY <1>4 DEF Holds
  <2>2. /\ row \in later
        /\ old[id] = [identity |-> row.identity, decision |-> row.decision]
    BY <1>3, <1>4, <2>1 DEF Holds
  <2>. QED
    BY <1>5, <2>1, <2>2 DEF Holds
<1>7. ASSUME NEW row \in call.rows
      PROVE  /\ row.identity.operationId \in DOMAIN new \ DOMAIN old
             /\ new[row.identity.operationId].identity = row.identity
             /\ new[row.identity.operationId].decision = row.decision
  <2>1. PICK id : id = row.identity.operationId
    OBVIOUS
  <2>2. id \notin DOMAIN old
    BY <1>3, <1>4, <2>1 DEF Holds
  <2>3. /\ id \in DOMAIN new
        /\ new[id] = [identity |-> row.identity, decision |-> row.decision]
    BY <1>3, <1>5, <2>1 DEF Holds
  <2>. QED
    BY <2>1, <2>2, <2>3
<1>8. ASSUME NEW id \in DOMAIN new \ DOMAIN old
      PROVE  \E row \in call.rows : row.identity.operationId = id
  <2>1. PICK row \in later : row.identity.operationId = id
    BY <1>5 DEF Holds
  <2>2. row \notin rows
    BY <1>4, <2>1 DEF Holds
  <2>. QED
    BY <1>3, <2>1, <2>2
<1>. QED
  BY <1>6, <1>7, <1>8

\* The log after a batch is the log before it and the staged entries.
LEMMA PublishedLog ==
  ASSUME D1Inv, NEW call, Publishes(call),
         NEW old, old = Committed_log, NEW new, new = Committed_log'
  PROVE  /\ old \in Seq(CommittedOperation) /\ Len(old) = stream.headSequence
         /\ new \in Seq(CommittedOperation)
         /\ Len(new) = Len(old) + Len(call.staged)
         /\ \A i \in 1..Len(old) : new[i] = old[i]
         /\ \A i \in 1..Len(call.staged) : new[Len(old) + i] = call.staged[i]
         /\ \A i \in 1..Len(new) : new[i].sequence = i
<1>1. PICK head : head = stream.headSequence
  OBVIOUS
<1>2. PICK m : m = Len(call.staged)
  OBVIOUS
<1>3. PICK entries : entries = logEntries'
  OBVIOUS
<1>4. /\ call \in StagingCall /\ head \in Nat /\ m \in Nat
      /\ stream'.headSequence = head + m
      /\ \A i \in 1..m : /\ call.staged[i].sequence = head + i
                         /\ call.staged[i] \in entries
      /\ \A row \in entries : \/ row \in logEntries
                              \/ \E i \in 1..m : row = call.staged[i]
      /\ logEntries \subseteq entries
  BY <1>1, <1>2, <1>3, PublishedBatch
<1>5. /\ old \in Seq(CommittedOperation) /\ Len(old) = head
      /\ \A i \in 1..head : old[i] \in logEntries /\ old[i].sequence = i
  BY <1>1, CommittedLog
<1>6. /\ \A row \in entries : row.sequence \in 1..head + m
      /\ \A i \in 1..head + m : \E row \in entries : row.sequence = i
      /\ \A left, right \in entries :
             left.sequence = right.sequence => left = right
  BY <1>3, <1>4, PublishHistory DEF HistorySound
<1>7. new = [i \in 1..head + m |-> CHOOSE row \in entries : row.sequence = i]
  BY <1>3, <1>4 DEF Committed_log
<1>8. /\ \A i \in 1..head + m : new[i] \in entries /\ new[i].sequence = i
      /\ \A row \in entries : new[row.sequence] = row
  <2>1. head + m \in Nat
    BY <1>4
  <2>. QED
    BY <1>6, <1>7, <2>1, LogOfRows
<1>9. entries \subseteq CommittedOperation
  <2>1. \A i \in 1..m : call.staged[i] \in CommittedOperation
    BY <1>2, <1>4, StagingTypes, ElementOfSeq
  <2>. QED
    BY <1>4, <2>1 DEF D1Inv, D1TypeOK
<1>10. new \in Seq(CommittedOperation) /\ Len(new) = head + m
  <2>1. head + m \in Nat /\ new \in [1..head + m -> CommittedOperation]
    BY <1>4, <1>7, <1>8, <1>9
  <2>. QED
    BY <2>1, SeqDef
<1>11. \A i \in 1..head : new[i] = old[i]
  BY <1>4, <1>5, <1>8
<1>12. \A i \in 1..m : new[head + i] = call.staged[i]
  BY <1>4, <1>8
<1>. QED
  BY <1>2, <1>1, <1>5, <1>8, <1>10, <1>11, <1>12

\* The four conjuncts of an abstract step, for a batch that goes through:
\* what was decided stays,
LEMMA PublishKept ==
  ASSUME D1Inv, NEW call, Publishes(call)
  PROVE  Canonical!Kept
<1>1. PICK old : old = Committed_log
  OBVIOUS
<1>2. PICK new : new = Committed_log'
  OBVIOUS
<1>3. PICK before : before = Decided_table
  OBVIOUS
<1>4. PICK after : after = Decided_table'
  OBVIOUS
<1>5. /\ old \in Seq(CommittedOperation) /\ new \in Seq(CommittedOperation)
      /\ Len(new) = Len(old) + Len(call.staged)
      /\ \A i \in 1..Len(old) : new[i] = old[i]
  BY <1>1, <1>2, PublishedLog
<1>6. Len(old) \in Nat /\ Len(call.staged) \in Nat
  BY <1>5, PublishedBatch
<1>7. Len(old) <= Len(new)
  BY <1>5, <1>6
<1>8. SubSeq(new, 1, Len(old)) = old
  BY <1>5, <1>7, Prefix
<1>9. \A id \in DOMAIN before : id \in DOMAIN after /\ after[id] = before[id]
  BY <1>3, <1>4, PublishedTable
<1>. QED
  BY <1>1, <1>2, <1>3, <1>4, <1>7, <1>8, <1>9 DEF Canonical!Kept

\* each new entry was decided by this batch,
LEMMA PublishEntriesDecided ==
  ASSUME D1Inv, NEW call, Publishes(call)
  PROVE  Canonical!EntriesDecided
<1>1. PICK old : old = Committed_log
  OBVIOUS
<1>2. PICK new : new = Committed_log'
  OBVIOUS
<1>3. PICK before : before = Decided_table
  OBVIOUS
<1>4. PICK after : after = Decided_table'
  OBVIOUS
<1>5. /\ call \in StagingCall /\ CallSound(call)
      /\ Len(old) \in Nat /\ Len(call.staged) \in Nat
      /\ Len(new) = Len(old) + Len(call.staged)
      /\ \A i \in 1..Len(call.staged) : new[Len(old) + i] = call.staged[i]
      /\ \A i \in 1..Len(new) : new[i].sequence = i
  BY <1>1, <1>2, PublishedLog, PublishedBatch
<1>6. \A row \in call.rows :
          /\ row.identity.operationId \in DOMAIN after \ DOMAIN before
          /\ after[row.identity.operationId].identity = row.identity
          /\ after[row.identity.operationId].decision = row.decision
  BY <1>3, <1>4, PublishedTable
<1>7. ASSUME NEW i \in Len(old) + 1 .. Len(new)
      PROVE  /\ new[i].sequence = i
             /\ new[i].operationId \in DOMAIN after \ DOMAIN before
             /\ after[new[i].operationId].decision = AcceptedFor(new[i])
             /\ OriginOf(after[new[i].operationId].identity) = new[i].origin
  <2>1. /\ i \in 1..Len(new)
        /\ i - Len(old) \in 1..Len(call.staged)
        /\ Len(old) + (i - Len(old)) = i
    BY <1>5
  <2>2. PICK k \in 1..Len(call.staged) : Len(old) + k = i
    BY <2>1
  <2>3. PICK row \in call.rows :
           /\ row.decision = AcceptedFor(call.staged[k])
           /\ row.identity.operationId = call.staged[k].operationId
           /\ OriginOf(row.identity) = call.staged[k].origin
    BY <1>5, StagedEntry
  <2>4. new[i] = call.staged[k]
    BY <1>5, <2>2
  <2>5. new[i].sequence = i
    BY <1>5, <2>1
  <2>. QED
    BY <1>6, <2>3, <2>4, <2>5
<1>. QED
  BY <1>1, <1>2, <1>3, <1>4, <1>7 DEF Canonical!EntriesDecided,
     Canonical!AcceptedFor, AcceptedFor, Canonical!OriginOf, OriginOf

\* each new decision rejects or names one of the new entries,
LEMMA PublishDecisionsLogged ==
  ASSUME D1Inv, NEW call, Publishes(call)
  PROVE  Canonical!DecisionsLogged
<1>1. PICK old : old = Committed_log
  OBVIOUS
<1>2. PICK new : new = Committed_log'
  OBVIOUS
<1>3. PICK before : before = Decided_table
  OBVIOUS
<1>4. PICK after : after = Decided_table'
  OBVIOUS
<1>5. /\ call \in StagingCall /\ CallSound(call) /\ StagingSound(call)
      /\ Len(old) \in Nat /\ Len(call.staged) \in Nat
      /\ Len(new) = Len(old) + Len(call.staged)
      /\ \A i \in 1..Len(call.staged) : new[Len(old) + i] = call.staged[i]
  BY <1>1, <1>2, PublishedLog, PublishedBatch
<1>6. ASSUME NEW id \in DOMAIN after \ DOMAIN before
      PROVE  \/ after[id].decision = RejectedFor(id)
             \/ \E i \in Len(old) + 1 .. Len(new) : new[i].operationId = id
  <2>1. PICK row \in call.rows : row.identity.operationId = id
    BY <1>3, <1>4, PublishedTable
  <2>2. after[id].decision = row.decision
    BY <1>3, <1>4, <2>1, PublishedTable
  <2>3. /\ row.decision.operationId = id
        /\ row.decision \in ProposalDecision
    BY <1>5, <2>1, StagedRow, StagingTypes DEF StoredRow
  <2>4. CASE row.decision.status = "accepted"
    <3>1. PICK k \in 1..Len(call.staged) :
             row.decision = AcceptedFor(call.staged[k])
      BY <1>5, <2>4 DEF StagingSound, RowsStaged, RowStaged
    <3>2. call.staged[k].operationId = id
      BY <2>3, <3>1 DEF AcceptedFor
    <3>3. Len(old) + k \in Len(old) + 1 .. Len(new)
      BY <1>5
    <3>. QED
      BY <1>5, <3>2, <3>3
  <2>5. CASE row.decision.status # "accepted"
    <3>1. row.decision \in RejectedDecision
      BY <2>3, <2>5 DEF ProposalDecision, AcceptedDecision
    <3>2. row.decision = RejectedFor(id)
      BY <2>3, <3>1 DEF RejectedDecision, RejectedFor
    <3>. QED
      BY <2>2, <3>2
  <2>. QED
    BY <2>4, <2>5
<1>. QED
  BY <1>1, <1>2, <1>3, <1>4, <1>6 DEF Canonical!DecisionsLogged,
     Canonical!RejectedFor, RejectedFor

\* and the state applies them.
LEMMA PublishStateFollows ==
  ASSUME D1Inv, NEW call, Publishes(call)
  PROVE  Canonical!StateFollows
<1>1. PICK l : l = Committed_log
  OBVIOUS
<1>2. PICK entries : entries = Committed_log'
  OBVIOUS
<1>3. PICK old : old = stream.state
  OBVIOUS
<1>4. PICK new : new = stream'.state
  OBVIOUS
<1>5. PICK head : head = stream.headSequence
  OBVIOUS
<1>6. PICK m : m = Len(call.staged)
  OBVIOUS
<1>7. PICK added : added = [k \in 1..m |-> entries[head + k].operation]
  OBVIOUS
<1>8. /\ call \in StagingCall /\ head \in Nat /\ m \in Nat
      /\ Len(l) = head /\ Len(entries) = head + m
      /\ \A i \in 1..m : entries[head + i] = call.staged[i]
      /\ new = call.state /\ Len(new) = head + m
      /\ \A i \in 1..head : new[i] = old[i]
      /\ \A i \in 1..m : call.staged[i].operation = new[head + i]
  <2>1. /\ call \in StagingCall /\ head \in Nat /\ m \in Nat
        /\ new = call.state /\ Len(new) = head + m
        /\ \A i \in 1..head : new[i] = old[i]
    BY <1>3, <1>4, <1>5, <1>6, PublishedBatch
  <2>2. \A i \in 1..m : call.staged[i].operation = new[head + i]
    BY <1>4, <1>5, <1>6, PublishedBatch
  <2>3. /\ Len(l) = head /\ Len(entries) = head + m
        /\ \A i \in 1..m : entries[head + i] = call.staged[i]
    <3>1. Len(l) = stream.headSequence
      BY <1>1, <1>2, PublishedLog
    <3>2. /\ Len(entries) = Len(l) + Len(call.staged)
          /\ \A i \in 1..Len(call.staged) :
                 entries[Len(l) + i] = call.staged[i]
      BY <1>1, <1>2, PublishedLog
    <3>. QED
      BY <1>5, <1>6, <3>1, <3>2
  <2>. QED
    BY <2>1, <2>2, <2>3
<1>9. /\ old \in Seq(Operations) /\ Len(old) = head
      /\ new \in Seq(Operations)
  BY <1>3, <1>5, <1>8, StagingTypes DEF D1Inv, D1TypeOK, TablesSound,
     HistorySound
<1>10. ASSUME NEW k \in 1..m
       PROVE  added[k] = new[head + k] /\ added[k] \in Operations
  <2>1. head + k \in 1..Len(new)
    BY <1>8
  <2>2. new[head + k] \in Operations
    BY <1>9, <2>1, ElementOfSeq
  <2>. QED
    BY <1>7, <1>8, <2>2
<1>11. added \in Seq(Operations) /\ Len(added) = m
  <2>1. added \in [1..m -> Operations]
    BY <1>7, <1>10
  <2>2. m \in Nat
    BY <1>8
  <2>. QED
    BY <2>1, <2>2, SeqDef
<1>12. /\ old \o added \in Seq(Operations)
       /\ Len(old \o added) = head + m
       /\ \A k \in 1..head + m :
             (old \o added)[k] = IF k <= head THEN old[k] ELSE added[k - head]
  BY <1>9, <1>11, ConcatProperties
<1>13. ASSUME NEW k \in 1..head + m
       PROVE  new[k] = (old \o added)[k]
  <2>1. CASE k <= head
    <3>1. k \in 1..head
      BY <1>8, <2>1
    <3>. QED
      BY <1>8, <1>12, <2>1, <3>1
  <2>2. CASE ~ (k <= head)
    <3>1. k - head \in 1..m /\ head + (k - head) = k
      BY <1>8, <2>2
    <3>. QED
      BY <1>10, <1>12, <2>2, <3>1
  <2>. QED
    BY <2>1, <2>2
<1>14. new = old \o added
  <2>1. /\ new \in Seq(Operations) /\ old \o added \in Seq(Operations)
        /\ Len(new) = head + m /\ Len(old \o added) = head + m
    BY <1>8, <1>9, <1>12
  <2>. QED
    BY <1>13, <2>1, SeqEqual
<1>15. Len(entries) - Len(l) = m
  BY <1>8
<1>. QED
  BY <1>1, <1>2, <1>3, <1>4, <1>7, <1>8, <1>14, <1>15
  DEF Canonical!StateFollows

\* To its clients the database is one log that only grows, with permanent
\* decisions and the state that follows it: each batch is one step of it, and
\* whatever else the calls do, attempt, lose or repeat is invisible.
THEOREM D1Refines == Spec => ImplementsCanonicalLog
<1>1. Init => Canonical!Init
  <2> SUFFICES ASSUME Init PROVE Canonical!Init
    OBVIOUS
  <2>1. stream.headSequence = 0 /\ stream.state = <<>> /\ decisionRows = {}
    BY DEF Init
  <2>2. Committed_log = <<>>
    <3>1. Committed_log = [i \in {} |-> CHOOSE row \in logEntries :
                                            row.sequence = i]
      BY <2>1 DEF Committed_log
    <3>. QED
      BY <3>1
  <2>3. Decided_table = [id \in {} |-> {}]
    BY <2>1 DEF Decided_table
  <2>. QED
    BY <2>1, <2>2, <2>3 DEF Canonical!Init
<1>2. ASSUME D1Inv, [Next]_vars
      PROVE  [Canonical!Decide]_<<Committed_log, Decided_table, stream.state>>
  <2>1. CASE UNCHANGED tables
    BY <2>1 DEF tables, Committed_log, Decided_table
  <2>2. ASSUME NEW call, Publishes(call)
        PROVE  Canonical!Decide
    BY <1>2, <2>2, PublishKept, PublishEntriesDecided, PublishDecisionsLogged,
       PublishStateFollows DEF Canonical!Decide
  <2>. QED
    BY <1>2, <2>1, <2>2, TablesStep
<1>. QED
  BY <1>1, <1>2, D1Inductive, PTL DEF Spec, ImplementsCanonicalLog,
     Canonical!Spec
=============================================================================
