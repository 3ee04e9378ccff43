---------------------------- MODULE RestoreProofs ----------------------------
(*****************************************************************************)
(* An authority whose process ends and begins again: RestoreInv holds, and   *)
(* with an atomic adapter the stored snapshots are the abstract log of an    *)
(* authority that never crashes.                                             *)
(*****************************************************************************)
EXTENDS RestoreProperties, SequenceTheorems, FiniteSetTheorems, TLAPS

-----------------------------------------------------------------------------
(* One call of synchronize, on any log and any table that agree. *)

\* A batch that passes its validation repeats neither an operation nor a position.
LEMMA BatchDistinct ==
  ASSUME NEW proposals \in Seq(Proposal), AssertProposalBatch(proposals),
         NEW i \in DOMAIN proposals, NEW j \in DOMAIN proposals, i # j
  PROVE  /\ proposals[i].operationId # proposals[j].operationId
         /\ ~ SamePosition(proposals[i], proposals[j])
<1>1. /\ i \in Nat /\ j \in Nat
      /\ proposals[i] \in Proposal /\ proposals[j] \in Proposal
  OBVIOUS
<1>2. proposals[i].clientSequence \in Nat /\ proposals[j].clientSequence \in Nat
  BY <1>1 DEF Proposal, ClientSequence
<1>3. CASE i < j
  <2>1. /\ proposals[i].operationId # proposals[j].operationId
        /\ proposals[i].clientId = proposals[j].clientId =>
               proposals[i].clientSequence < proposals[j].clientSequence
    BY <1>3 DEF AssertProposalBatch
  <2>. QED
    BY <1>2, <2>1 DEF SamePosition
<1>4. CASE j < i
  <2>1. /\ proposals[j].operationId # proposals[i].operationId
        /\ proposals[j].clientId = proposals[i].clientId =>
               proposals[j].clientSequence < proposals[i].clientSequence
    BY <1>4 DEF AssertProposalBatch
  <2>. QED
    BY <1>2, <2>1 DEF SamePosition
<1>. QED
  BY <1>1, <1>3, <1>4

\* The choices of the interpreter for the undecided proposals of a batch.
Choices(decisions, proposals, count, accepted, drafts) ==
    /\ count \in Nat
    /\ accepted \in [1..count -> Undecided(decisions, proposals)]
    /\ drafts \in [1..count -> Operations]
    /\ InRequestOrder(accepted, count)

\* What the batch stages are entries for what was accepted, after the log.
LEMMA StagedFacts ==
  ASSUME NEW log \in Seq(CommittedOperation), NEW decisions,
         NEW proposals \in Seq(Proposal),
         NEW count, NEW accepted, NEW drafts,
         Choices(decisions, proposals, count, accepted, drafts),
         NEW staged,
         staged = StagedEntries(log, proposals, accepted, drafts, count)
  PROVE  /\ staged \in Seq(CommittedOperation)
         /\ Len(staged) = count
         /\ \A j \in 1..count :
               /\ staged[j] = CommittedEntry(proposals[accepted[j]], Len(log) + j, drafts[j])
               /\ accepted[j] \in Undecided(decisions, proposals)
               /\ accepted[j] \in DOMAIN proposals
               /\ proposals[accepted[j]] \in Proposal
<1>1. /\ count \in Nat
      /\ accepted \in [1..count -> Undecided(decisions, proposals)]
      /\ drafts \in [1..count -> Operations]
  BY DEF Choices
<1>2. Len(log) \in Nat
  OBVIOUS
<1>3. ASSUME NEW j \in 1..count
      PROVE  /\ staged[j] = CommittedEntry(proposals[accepted[j]], Len(log) + j, drafts[j])
             /\ accepted[j] \in Undecided(decisions, proposals)
             /\ accepted[j] \in DOMAIN proposals
             /\ proposals[accepted[j]] \in Proposal
             /\ staged[j] \in CommittedOperation
  <2>1. staged[j] = CommittedEntry(proposals[accepted[j]], Len(log) + j, drafts[j])
    BY DEF StagedEntries
  <2>2. accepted[j] \in Undecided(decisions, proposals)
    BY <1>1
  <2>3. accepted[j] \in DOMAIN proposals
    BY <2>2 DEF Undecided
  <2>4. proposals[accepted[j]] \in Proposal
    BY <2>3
  <2>5. Len(log) + j \in LogSequence
    BY <1>1, <1>2 DEF LogSequence
  <2>6. drafts[j] \in Operations
    BY <1>1
  <2>7. CommittedEntry(proposals[accepted[j]], Len(log) + j, drafts[j]) \in CommittedOperation
    BY <2>4, <2>5, <2>6
    DEF CommittedEntry, CommittedOperation, OriginOf, OperationOrigin, Proposal
  <2>. QED
    BY <2>1, <2>2, <2>3, <2>4, <2>7
<1>4. staged = [j \in 1..count |->
                   CommittedEntry(proposals[accepted[j]], Len(log) + j, drafts[j])]
  BY DEF StagedEntries
<1>5. staged \in [1..count -> CommittedOperation]
  BY <1>3, <1>4
<1>6. staged \in Seq(CommittedOperation) /\ Len(staged) = count
  BY <1>1, <1>5
<1>. QED
  BY <1>3, <1>6

\* The log after the batch: the old one, then what was staged.
LEMMA LogAfter ==
  ASSUME NEW log \in Seq(CommittedOperation), NEW staged \in Seq(CommittedOperation),
         NEW after, after = log \o staged
  PROVE  /\ after \in Seq(CommittedOperation)
         /\ Len(after) = Len(log) + Len(staged)
         /\ \A i \in 1..Len(log) : after[i] = log[i]
         /\ \A j \in 1..Len(staged) : after[Len(log) + j] = staged[j]
<1>1. after \in Seq(CommittedOperation) /\ Len(after) = Len(log) + Len(staged)
  BY ConcatProperties
<1>2. \A i \in 1..Len(log) + Len(staged) :
         after[i] = IF i <= Len(log) THEN log[i] ELSE staged[i - Len(log)]
  BY ConcatProperties
<1>3. Len(log) \in Nat /\ Len(staged) \in Nat
  OBVIOUS
<1>4. ASSUME NEW i \in 1..Len(log)
      PROVE  after[i] = log[i]
  BY <1>2, <1>3
<1>5. ASSUME NEW j \in 1..Len(staged)
      PROVE  after[Len(log) + j] = staged[j]
  <2>1. Len(log) + j \in 1..Len(log) + Len(staged) /\ ~ (Len(log) + j <= Len(log))
        /\ Len(log) + j - Len(log) = j
    BY <1>3
  <2>. QED
    BY <1>2, <2>1
<1>. QED
  BY <1>1, <1>4, <1>5

\* The decision that a batch stores for an undecided proposal: it names its own entry, or
\* rejects.
LEMMA StagedDecisionFacts ==
  ASSUME NEW log \in Seq(CommittedOperation), NEW decisions,
         NEW proposals \in Seq(Proposal), AssertProposalBatch(proposals),
         NEW count, NEW accepted, NEW drafts,
         Choices(decisions, proposals, count, accepted, drafts),
         NEW staged,
         staged = StagedEntries(log, proposals, accepted, drafts, count),
         NEW i \in Undecided(decisions, proposals)
  PROVE  /\ \A j \in 1..count : staged[j].operationId = proposals[i].operationId
                                   => accepted[j] = i
         /\ \/ \E j \in 1..count :
                  /\ accepted[j] = i
                  /\ StagedDecision(proposals[i].operationId, staged) = AcceptedFor(staged[j])
            \/ StagedDecision(proposals[i].operationId, staged)
                  = RejectedFor(proposals[i].operationId)
         /\ \A j \in 1..count : accepted[j] = i =>
               StagedDecision(proposals[i].operationId, staged) = AcceptedFor(staged[j])
<1> DEFINE id == proposals[i].operationId
<1>0. i \in DOMAIN proposals
  BY DEF Undecided
<1>c. count \in Nat
  BY DEF Choices
<1>1. /\ staged \in Seq(CommittedOperation) /\ Len(staged) = count
      /\ \A j \in 1..count :
            /\ staged[j] = CommittedEntry(proposals[accepted[j]], Len(log) + j, drafts[j])
            /\ accepted[j] \in DOMAIN proposals
  BY StagedFacts
<1>2. DOMAIN staged = 1..count
  BY <1>c, <1>1
<1>3. ASSUME NEW j \in 1..count, staged[j].operationId = id
      PROVE  accepted[j] = i
  <2>1. staged[j].operationId = proposals[accepted[j]].operationId
    BY <1>1 DEF CommittedEntry
  <2>2. accepted[j] \in DOMAIN proposals
    BY <1>1
  <2>. QED
    BY <1>0, <1>3, <2>1, <2>2, BatchDistinct
<1>4. ASSUME NEW j \in 1..count, accepted[j] = i
      PROVE  staged[j].operationId = id
  BY <1>1, <1>4 DEF CommittedEntry
<1>5. ASSUME NEW j \in 1..count, NEW k \in 1..count, accepted[j] = accepted[k]
      PROVE  j = k
  <2>1. InRequestOrder(accepted, count)
    BY DEF Choices
  <2>2. accepted[j] \in Nat
    BY <1>1
  <2>3. j < k => accepted[j] < accepted[k]
    BY <2>1 DEF InRequestOrder
  <2>4. k < j => accepted[k] < accepted[j]
    BY <2>1 DEF InRequestOrder
  <2>. QED
    BY <1>5, <2>2, <2>3, <2>4
<1>6. CASE \E j \in DOMAIN staged : staged[j].operationId = id
  <2>1. PICK c : c = CHOOSE j \in DOMAIN staged : staged[j].operationId = id
    OBVIOUS
  <2>2. c \in 1..count /\ staged[c].operationId = id
    BY <1>2, <1>6, <2>1
  <2>3. StagedDecision(id, staged) = AcceptedFor(staged[c])
    BY <1>6, <2>1 DEF StagedDecision
  <2>4. accepted[c] = i
    BY <1>3, <2>2
  <2>5. \A j \in 1..count : accepted[j] = i => j = c
    BY <1>5, <2>2, <2>4
  <2>. QED
    BY <1>3, <2>2, <2>3, <2>4, <2>5
<1>7. CASE ~ \E j \in DOMAIN staged : staged[j].operationId = id
  <2>1. StagedDecision(id, staged) = RejectedFor(id)
    BY <1>7 DEF StagedDecision
  <2>2. \A j \in 1..count : accepted[j] # i
    BY <1>2, <1>4, <1>7
  <2>. QED
    BY <1>3, <2>1, <2>2
<1>. QED
  BY <1>6, <1>7

\* The operations that a batch decides.
NewIds(decisions, proposals) ==
    {proposals[i].operationId : i \in Undecided(decisions, proposals)}

\* The old table, and a decision with its identity for each proposal that was undecided.
TableExtended(decisions, proposals, staged, after) ==
    /\ DOMAIN after = DOMAIN decisions \cup NewIds(decisions, proposals)
    /\ \A id \in DOMAIN decisions : after[id] = decisions[id]
    /\ \A i \in Undecided(decisions, proposals) :
          /\ proposals[i].operationId \notin DOMAIN decisions
          /\ after[proposals[i].operationId] =
                [identity |-> proposals[i],
                 decision |-> StagedDecision(proposals[i].operationId, staged)]

\* A batch makes that of a table.
LEMMA TableAfter ==
  ASSUME NEW decisions, NEW proposals \in Seq(Proposal), AssertProposalBatch(proposals),
         NEW staged, NEW after,
         after = DecisionsAfter(decisions, proposals, staged)
  PROVE  TableExtended(decisions, proposals, staged, after)
<1> DEFINE new == Undecided(decisions, proposals)
           ids == NewIds(decisions, proposals)
<1>1. after = [id \in DOMAIN decisions \cup ids |->
                  IF id \in DOMAIN decisions
                  THEN decisions[id]
                  ELSE [identity |-> proposals[CHOOSE i \in new :
                                                  proposals[i].operationId = id],
                        decision |-> StagedDecision(id, staged)]]
  BY DEF DecisionsAfter, NewIds
<1>2. DOMAIN after = DOMAIN decisions \cup ids
  BY <1>1
<1>3. \A id \in DOMAIN decisions : after[id] = decisions[id]
  BY <1>1
<1>4. ASSUME NEW i \in new
      PROVE  /\ proposals[i].operationId \notin DOMAIN decisions
             /\ after[proposals[i].operationId] =
                   [identity |-> proposals[i],
                    decision |-> StagedDecision(proposals[i].operationId, staged)]
  <2>1. proposals[i].operationId \notin DOMAIN decisions
    BY DEF Undecided
  <2>2. PICK c : c = CHOOSE k \in new : proposals[k].operationId = proposals[i].operationId
    OBVIOUS
  <2>3. c \in new /\ proposals[c].operationId = proposals[i].operationId
    BY <2>2
  <2>4. c \in DOMAIN proposals /\ i \in DOMAIN proposals
    BY <2>3 DEF Undecided
  <2>5. c = i
    BY <2>3, <2>4, BatchDistinct
  <2>6. proposals[i].operationId \in DOMAIN decisions \cup ids
    BY DEF NewIds
  <2>7. after[proposals[i].operationId] =
           [identity |-> proposals[CHOOSE k \in new :
                                      proposals[k].operationId = proposals[i].operationId],
            decision |-> StagedDecision(proposals[i].operationId, staged)]
    BY <1>1, <2>1, <2>6
  <2>. QED
    BY <2>1, <2>2, <2>5, <2>7
<1>. QED
  BY <1>2, <1>3, <1>4 DEF TableExtended

\* A log and a table that agree, and a batch that is not refused.
Prepared(log, decisions, proposals) ==
    /\ log \in Seq(CommittedOperation)
    /\ DecisionTable(decisions)
    /\ HistorySound(log, decisions)
    /\ proposals \in Seq(Proposal)
    /\ AssertProposalBatch(proposals)
    /\ \A i \in DOMAIN proposals : ~ ProposalConflict(decisions, proposals[i])

\* What a batch makes of log and table: what was staged follows the log, and each new row of the
\* table names its own entry or rejects.
Effect(log, decisions, proposals, nextLog, nextTable, staged, accepted) ==
    /\ staged \in Seq(CommittedOperation)
    /\ nextLog = log \o staged
    /\ nextLog \in Seq(CommittedOperation)
    /\ Len(nextLog) = Len(log) + Len(staged)
    /\ \A i \in 1..Len(log) : nextLog[i] = log[i]
    /\ \A j \in 1..Len(staged) :
          /\ accepted[j] \in Undecided(decisions, proposals)
          /\ nextLog[Len(log) + j] = staged[j]
          /\ staged[j].sequence = Len(log) + j
          /\ staged[j].operationId = proposals[accepted[j]].operationId
          /\ staged[j].origin = OriginOf(proposals[accepted[j]])
          /\ nextTable[staged[j].operationId].decision = AcceptedFor(staged[j])
    /\ DOMAIN nextTable = DOMAIN decisions \cup NewIds(decisions, proposals)
    /\ \A id \in DOMAIN decisions : nextTable[id] = decisions[id]
    /\ \A i \in Undecided(decisions, proposals) :
          LET id == proposals[i].operationId IN
          /\ id \notin DOMAIN decisions
          /\ nextTable[id] = [identity |-> proposals[i],
                              decision |-> nextTable[id].decision]
          /\ \/ \E j \in 1..Len(staged) : accepted[j] = i /\
                   nextTable[id].decision = AcceptedFor(staged[j])
             \/ nextTable[id].decision = RejectedFor(id)
    /\ nextTable = [id \in DOMAIN nextTable |-> nextTable[id]]

\* A batch that is not refused has this effect.
LEMMA BatchFacts ==
  ASSUME NEW log \in Seq(CommittedOperation), NEW decisions,
         NEW proposals \in Seq(Proposal), NEW nextLog, NEW nextTable,
         Prepared(log, decisions, proposals),
         NEW count, NEW accepted, NEW drafts, NEW staged,
         Choices(decisions, proposals, count, accepted, drafts),
         staged = StagedEntries(log, proposals, accepted, drafts, count),
         nextLog = log \o staged,
         nextTable = DecisionsAfter(decisions, proposals, staged)
  PROVE  Effect(log, decisions, proposals, nextLog, nextTable, staged, accepted)
<1>0. AssertProposalBatch(proposals)
  BY DEF Prepared
<1>4. /\ staged \in Seq(CommittedOperation)
      /\ Len(staged) = count
      /\ \A j \in 1..count :
            /\ staged[j] = CommittedEntry(proposals[accepted[j]], Len(log) + j, drafts[j])
            /\ accepted[j] \in Undecided(decisions, proposals)
  BY StagedFacts
<1>6. /\ nextLog \in Seq(CommittedOperation)
      /\ Len(nextLog) = Len(log) + Len(staged)
      /\ \A i \in 1..Len(log) : nextLog[i] = log[i]
      /\ \A j \in 1..Len(staged) : nextLog[Len(log) + j] = staged[j]
  BY <1>4, LogAfter
<1>8. /\ DOMAIN nextTable = DOMAIN decisions \cup NewIds(decisions, proposals)
      /\ \A id \in DOMAIN decisions : nextTable[id] = decisions[id]
      /\ \A i \in Undecided(decisions, proposals) :
            /\ proposals[i].operationId \notin DOMAIN decisions
            /\ nextTable[proposals[i].operationId] =
                  [identity |-> proposals[i],
                   decision |-> StagedDecision(proposals[i].operationId, staged)]
  <2>1. TableExtended(decisions, proposals, staged, nextTable)
    BY <1>0, TableAfter
  <2>. QED
    BY <2>1 DEF TableExtended
<1>9. ASSUME NEW i \in Undecided(decisions, proposals)
      PROVE  LET id == proposals[i].operationId IN
             /\ id \notin DOMAIN decisions
             /\ nextTable[id] = [identity |-> proposals[i],
                                 decision |-> nextTable[id].decision]
             /\ \/ \E j \in 1..count : accepted[j] = i /\
                      nextTable[id].decision = AcceptedFor(staged[j])
                \/ nextTable[id].decision = RejectedFor(id)
             /\ \A j \in 1..count : accepted[j] = i =>
                   nextTable[id].decision = AcceptedFor(staged[j])
  <2>1. nextTable[proposals[i].operationId] =
           [identity |-> proposals[i],
            decision |-> StagedDecision(proposals[i].operationId, staged)]
    BY <1>8
  <2>2. /\ \/ \E j \in 1..count :
                 /\ accepted[j] = i
                 /\ StagedDecision(proposals[i].operationId, staged) = AcceptedFor(staged[j])
           \/ StagedDecision(proposals[i].operationId, staged)
                 = RejectedFor(proposals[i].operationId)
        /\ \A j \in 1..count : accepted[j] = i =>
              StagedDecision(proposals[i].operationId, staged) = AcceptedFor(staged[j])
    BY <1>0, StagedDecisionFacts
  <2>3. proposals[i].operationId \notin DOMAIN decisions
    BY <1>8
  <2>. QED
    BY <2>1, <2>2, <2>3
<1>10. ASSUME NEW j \in 1..count
       PROVE  /\ staged[j].sequence = Len(log) + j
              /\ staged[j].operationId = proposals[accepted[j]].operationId
              /\ staged[j].origin = OriginOf(proposals[accepted[j]])
              /\ nextTable[staged[j].operationId].decision = AcceptedFor(staged[j])
  <2>1. /\ staged[j].sequence = Len(log) + j
        /\ staged[j].operationId = proposals[accepted[j]].operationId
        /\ staged[j].origin = OriginOf(proposals[accepted[j]])
    BY <1>4 DEF CommittedEntry
  <2>2. nextTable[proposals[accepted[j]].operationId].decision = AcceptedFor(staged[j])
    BY <1>4, <1>9
  <2>. QED
    BY <2>1, <2>2
<1>11. nextTable = [id \in DOMAIN nextTable |-> nextTable[id]]
  BY DEF DecisionsAfter
<1>12. Effect(log, decisions, proposals, nextLog, nextTable, staged, accepted)
  <2>1. \A j \in 1..Len(staged) :
          /\ accepted[j] \in Undecided(decisions, proposals)
          /\ nextLog[Len(log) + j] = staged[j]
          /\ staged[j].sequence = Len(log) + j
          /\ staged[j].operationId = proposals[accepted[j]].operationId
          /\ staged[j].origin = OriginOf(proposals[accepted[j]])
          /\ nextTable[staged[j].operationId].decision = AcceptedFor(staged[j])
    BY <1>4, <1>6, <1>10
  <2>2. \A i \in Undecided(decisions, proposals) :
          LET id == proposals[i].operationId IN
          /\ id \notin DOMAIN decisions
          /\ nextTable[id] = [identity |-> proposals[i],
                              decision |-> nextTable[id].decision]
          /\ \/ \E j \in 1..Len(staged) : accepted[j] = i /\
                   nextTable[id].decision = AcceptedFor(staged[j])
             \/ nextTable[id].decision = RejectedFor(id)
    BY <1>4, <1>9
  <2>. QED
    BY <1>4, <1>6, <1>8, <1>11, <2>1, <2>2 DEF Effect
<1>. QED
  BY <1>12

\* The batch keeps the history in one piece: a new position is taken by no stored decision,
\* and twice by none of the batch.
LEMMA BatchHistory ==
  ASSUME NEW log \in Seq(CommittedOperation), NEW decisions,
         NEW proposals \in Seq(Proposal), NEW nextLog, NEW nextTable,
         Prepared(log, decisions, proposals),
         NEW staged, NEW accepted,
         Effect(log, decisions, proposals, nextLog, nextTable, staged, accepted)
  PROVE  HistorySound(nextLog, nextTable)
<1> DEFINE new == Undecided(decisions, proposals)
<1>1. /\ staged \in Seq(CommittedOperation)
      /\ nextLog \in Seq(CommittedOperation)
      /\ Len(nextLog) = Len(log) + Len(staged)
      /\ \A i \in 1..Len(log) : nextLog[i] = log[i]
  BY DEF Effect
<1>2. \A j \in 1..Len(staged) :
          /\ accepted[j] \in new
          /\ nextLog[Len(log) + j] = staged[j]
          /\ staged[j].sequence = Len(log) + j
          /\ staged[j].operationId = proposals[accepted[j]].operationId
          /\ staged[j].origin = OriginOf(proposals[accepted[j]])
          /\ nextTable[staged[j].operationId].decision = AcceptedFor(staged[j])
  BY DEF Effect
<1>3. /\ DOMAIN nextTable = DOMAIN decisions \cup NewIds(decisions, proposals)
      /\ \A id \in DOMAIN decisions : nextTable[id] = decisions[id]
  BY DEF Effect
<1>4. \A i \in new :
          LET id == proposals[i].operationId IN
          /\ id \notin DOMAIN decisions
          /\ nextTable[id].identity = proposals[i]
          /\ \/ \E j \in 1..Len(staged) : accepted[j] = i /\
                   nextTable[id].decision = AcceptedFor(staged[j])
             \/ nextTable[id].decision = RejectedFor(id)
  <2>1. ASSUME NEW i \in new
        PROVE  /\ proposals[i].operationId \notin DOMAIN decisions
               /\ nextTable[proposals[i].operationId] =
                     [identity |-> proposals[i],
                      decision |-> nextTable[proposals[i].operationId].decision]
               /\ \/ \E j \in 1..Len(staged) : accepted[j] = i /\
                        nextTable[proposals[i].operationId].decision = AcceptedFor(staged[j])
                  \/ nextTable[proposals[i].operationId].decision =
                        RejectedFor(proposals[i].operationId)
    BY DEF Effect
  <2>2. ASSUME NEW i \in new
        PROVE  nextTable[proposals[i].operationId].identity = proposals[i]
    <3>1. PICK d : d = nextTable[proposals[i].operationId].decision
      OBVIOUS
    <3>2. nextTable[proposals[i].operationId] = [identity |-> proposals[i], decision |-> d]
      BY <2>1, <3>1
    <3>. QED
      BY <3>2
  <2>. QED
    BY <2>1, <2>2
<1>5. \A i \in new : i \in DOMAIN proposals /\ proposals[i] \in Proposal
  BY DEF Undecided
<1>6. Len(log) \in Nat /\ Len(staged) \in Nat
      /\ DOMAIN log = 1..Len(log) /\ DOMAIN nextLog = 1..Len(nextLog)
  BY <1>1
<1>7. HistorySound(log, decisions)
  BY DEF Prepared
<1>8. ASSUME NEW i \in DOMAIN nextLog
      PROVE  /\ nextLog[i].sequence = i
             /\ nextLog[i].operationId \in DOMAIN nextTable
             /\ AcceptedAt(nextTable[nextLog[i].operationId], i)
             /\ OriginOf(nextTable[nextLog[i].operationId].identity) = nextLog[i].origin
  <2>1. CASE i \in 1..Len(log)
    <3>1. /\ log[i].sequence = i
          /\ log[i].operationId \in DOMAIN decisions
          /\ AcceptedAt(decisions[log[i].operationId], i)
          /\ OriginOf(decisions[log[i].operationId].identity) = log[i].origin
      BY <1>6, <1>7, <2>1 DEF HistorySound
    <3>. QED
      BY <1>1, <1>3, <2>1, <3>1
  <2>2. CASE i \notin 1..Len(log)
    <3>1. PICK j \in 1..Len(staged) : i = Len(log) + j
      <4>1. i \in 1..Len(log) + Len(staged)
        BY <1>1, <1>6
      <4>2. i - Len(log) \in 1..Len(staged) /\ i = Len(log) + (i - Len(log))
        BY <1>6, <2>2, <4>1
      <4>. QED
        BY <4>2
    <3>2. PICK a : a = accepted[j]
      OBVIOUS
    <3>3. /\ a \in new
          /\ nextLog[i] = staged[j]
          /\ staged[j].sequence = i
          /\ staged[j].operationId = proposals[a].operationId
          /\ staged[j].origin = OriginOf(proposals[a])
          /\ nextTable[staged[j].operationId].decision = AcceptedFor(staged[j])
      BY <1>2, <3>1, <3>2
    <3>4. nextTable[proposals[a].operationId].identity = proposals[a]
      BY <1>4, <3>3
    <3>5. proposals[a].operationId \in DOMAIN nextTable
      BY <1>3, <3>3 DEF NewIds
    <3>6. AcceptedAt(nextTable[staged[j].operationId], i)
      BY <3>3 DEF AcceptedAt, AcceptedFor
    <3>. QED
      BY <3>3, <3>4, <3>5, <3>6
  <2>. QED
    BY <2>1, <2>2
<1>9. ASSUME NEW id \in DOMAIN nextTable
      PROVE  /\ nextTable[id].identity.operationId = id
             /\ nextTable[id].decision.operationId = id
             /\ nextTable[id].decision.status = "accepted" =>
                   \E i \in DOMAIN nextLog :
                      AcceptedAt(nextTable[id], i) /\ nextLog[i].operationId = id
  <2>1. CASE id \in DOMAIN decisions
    <3>1. /\ decisions[id].identity.operationId = id
          /\ decisions[id].decision.operationId = id
          /\ decisions[id].decision.status = "accepted" =>
                \E i \in DOMAIN log : AcceptedAt(decisions[id], i) /\ log[i].operationId = id
      BY <1>7, <2>1 DEF HistorySound
    <3>2. nextTable[id] = decisions[id]
      BY <1>3, <2>1
    <3>3. ASSUME NEW i \in DOMAIN log, AcceptedAt(decisions[id], i), log[i].operationId = id
          PROVE  \E k \in DOMAIN nextLog :
                    AcceptedAt(nextTable[id], k) /\ nextLog[k].operationId = id
      <4>1. i \in DOMAIN nextLog /\ nextLog[i] = log[i]
        BY <1>1, <1>6
      <4>. QED
        BY <3>2, <3>3, <4>1
    <3>. QED
      BY <3>1, <3>2, <3>3
  <2>2. CASE id \in NewIds(decisions, proposals)
    <3>1. PICK i \in new : id = proposals[i].operationId
      BY <2>2 DEF NewIds
    <3>2. nextTable[id].identity = proposals[i]
      BY <1>4, <3>1
    <3>3. CASE nextTable[id].decision = RejectedFor(id)
      BY <3>1, <3>2, <3>3 DEF RejectedFor
    <3>4. CASE \E j \in 1..Len(staged) : accepted[j] = i /\
                   nextTable[id].decision = AcceptedFor(staged[j])
      <4>1. PICK j \in 1..Len(staged) : accepted[j] = i /\
                   nextTable[id].decision = AcceptedFor(staged[j])
        BY <3>4
      <4>2. /\ nextLog[Len(log) + j] = staged[j]
            /\ staged[j].sequence = Len(log) + j
            /\ staged[j].operationId = id
        BY <1>2, <3>1, <4>1
      <4>3. Len(log) + j \in DOMAIN nextLog
        BY <1>1, <1>6
      <4>4. AcceptedAt(nextTable[id], Len(log) + j)
        BY <4>1, <4>2 DEF AcceptedAt, AcceptedFor
      <4>5. nextTable[id].decision.operationId = id
        BY <4>1, <4>2 DEF AcceptedFor
      <4>. QED
        BY <3>1, <3>2, <4>2, <4>3, <4>4, <4>5
    <3>. QED
      BY <1>4, <3>1, <3>3, <3>4
  <2>. QED
    BY <1>3, <2>1, <2>2
<1>10. ASSUME NEW left \in DOMAIN nextTable, NEW right \in DOMAIN nextTable, left # right
       PROVE  ~ SamePosition(nextTable[left].identity, nextTable[right].identity)
  <2>1. ASSUME NEW id \in DOMAIN decisions, NEW i \in new
        PROVE  /\ ~ SamePosition(nextTable[id].identity, proposals[i])
               /\ ~ SamePosition(proposals[i], nextTable[id].identity)
    <3>1. ~ ProposalConflict(decisions, proposals[i])
      BY <1>5 DEF Prepared
    <3>2. proposals[i].operationId \notin DOMAIN decisions
      BY <1>4
    <3>3. ~ SamePosition(decisions[id].identity, proposals[i])
      BY <3>1, <3>2 DEF ProposalConflict
    <3>. QED
      BY <1>3, <3>3 DEF SamePosition
  <2>2. CASE left \in DOMAIN decisions /\ right \in DOMAIN decisions
    <3>1. ~ SamePosition(decisions[left].identity, decisions[right].identity)
      BY <1>7, <1>10, <2>2 DEF HistorySound
    <3>. QED
      BY <1>3, <2>2, <3>1
  <2>3. ASSUME NEW id \in NewIds(decisions, proposals)
        PROVE  \E i \in new : id = proposals[i].operationId /\
                  nextTable[id].identity = proposals[i]
    BY <1>4, <2>3 DEF NewIds
  <2>4. CASE left \in DOMAIN decisions /\ right \in NewIds(decisions, proposals)
    BY <2>1, <2>3, <2>4
  <2>5. CASE left \in NewIds(decisions, proposals) /\ right \in DOMAIN decisions
    BY <2>1, <2>3, <2>5
  <2>6. CASE left \in NewIds(decisions, proposals) /\ right \in NewIds(decisions, proposals)
    <3>1. PICK i \in new : left = proposals[i].operationId /\
                nextTable[left].identity = proposals[i]
      BY <2>3, <2>6
    <3>2. PICK j \in new : right = proposals[j].operationId /\
                nextTable[right].identity = proposals[j]
      BY <2>3, <2>6
    <3>3. i # j /\ i \in DOMAIN proposals /\ j \in DOMAIN proposals
      BY <1>5, <3>1, <3>2, <1>10
    <3>4. AssertProposalBatch(proposals)
      BY DEF Prepared
    <3>. QED
      BY <3>1, <3>2, <3>3, <3>4, BatchDistinct
  <2>. QED
    BY <1>3, <2>2, <2>4, <2>5, <2>6
<1>. QED
  BY <1>8, <1>9, <1>10 DEF HistorySound

\* The new rows have their types.
LEMMA BatchTable ==
  ASSUME NEW log \in Seq(CommittedOperation), NEW decisions,
         NEW proposals \in Seq(Proposal), NEW nextLog, NEW nextTable,
         Prepared(log, decisions, proposals),
         NEW staged, NEW accepted,
         Effect(log, decisions, proposals, nextLog, nextTable, staged, accepted)
  PROVE  DecisionTable(nextTable)
<1> DEFINE new == Undecided(decisions, proposals)
<1>1. /\ DOMAIN decisions \subseteq OperationIds
      /\ \A id \in DOMAIN decisions : decisions[id] \in StoredProposalDecision
  BY DEF Prepared, DecisionTable
<1>2. \A i \in new : proposals[i] \in Proposal /\ proposals[i].operationId \in OperationIds
  <2>1. \A i \in new : proposals[i] \in Proposal
    BY DEF Undecided
  <2>. QED
    BY <2>1 DEF Proposal
<1>3. \A j \in 1..Len(staged) : AcceptedFor(staged[j]) \in ProposalDecision
  <2>1. \A j \in 1..Len(staged) : staged[j] \in CommittedOperation
    BY DEF Effect
  <2>. QED
    BY <2>1 DEF AcceptedFor, CommittedOperation, ProposalDecision, AcceptedDecision
<1>4. ASSUME NEW id \in DOMAIN nextTable
      PROVE  id \in OperationIds /\ nextTable[id] \in StoredProposalDecision
  <2>1. CASE id \in DOMAIN decisions
    BY <1>1, <2>1 DEF Effect
  <2>2. CASE id \in NewIds(decisions, proposals)
    <3>1. PICK i \in new : id = proposals[i].operationId
      BY <2>2 DEF NewIds
    <3>2. /\ nextTable[id] = [identity |-> proposals[i], decision |-> nextTable[id].decision]
          /\ \/ \E j \in 1..Len(staged) : accepted[j] = i /\
                   nextTable[id].decision = AcceptedFor(staged[j])
             \/ nextTable[id].decision = RejectedFor(id)
      BY <3>1 DEF Effect
    <3>3. RejectedFor(id) \in ProposalDecision
      BY <1>2, <3>1 DEF RejectedFor, ProposalDecision, RejectedDecision
    <3>4. nextTable[id].decision \in ProposalDecision
      BY <1>3, <3>2, <3>3
    <3>5. [identity |-> proposals[i], decision |-> nextTable[id].decision]
             \in StoredProposalDecision
      BY <1>2, <3>4 DEF StoredProposalDecision
    <3>. QED
      BY <1>2, <3>1, <3>2, <3>5
  <2>. QED
    BY <2>1, <2>2 DEF Effect
<1>5. nextTable = [id \in DOMAIN nextTable |-> nextTable[id]]
  BY DEF Effect
<1>6. nextTable \in [DOMAIN nextTable -> StoredProposalDecision]
  BY <1>4, <1>5
<1>. QED
  BY <1>4, <1>6 DEF DecisionTable

-----------------------------------------------------------------------------
(* The steps of the authority and of its adapter. *)

\* A batch is a sequence of proposals, and not empty.
LEMMA BatchShape ==
  ASSUME NEW proposals \in Batches
  PROVE  /\ proposals \in Seq(Proposal)
         /\ 1 \in DOMAIN proposals
         /\ AssertProposalBatch(proposals)
<1>1. PICK n \in 1..MaximumProposalsPerRequest : proposals \in [1..n -> Proposals]
  BY DEF Batches
<1>2. n \in Nat /\ 1 \in 1..n
  BY LimitsAssumption
<1>3. proposals \in [1..n -> Proposal]
  BY <1>1, ProposalsAssumption
<1>4. proposals \in Seq(Proposal)
  BY <1>2, <1>3
<1>. QED
  BY <1>1, <1>2, <1>4 DEF Batches

\* The answers that wait for the next save.
Answers(table, proposals) ==
    {table[proposals[i].operationId].decision : i \in DOMAIN proposals}

\* A call of synchronize that is not refused adds its batch to the running server and owes
\* the answers to its proposals.
Called(proposals, staged, accepted) ==
    /\ server # Down
    /\ Prepared(server.log, server.decisions, proposals)
    /\ Effect(server.log, server.decisions, proposals, server'.log, server'.decisions,
              staged, accepted)
    /\ server'.state = server.state \o OperationsOf(staged)
    /\ unsaved' = unsaved \cup Answers(server'.decisions, proposals)
    /\ UNCHANGED <<adapter, disk, told, crashes, corruptions>>

\* Every step of Synchronize is such a call.
LEMMA SynchronizeEffect ==
  ASSUME RestoreInv, NEW proposals \in Batches, Synchronize(proposals)
  PROVE  \E staged, accepted : Called(proposals, staged, accepted)
<1> DEFINE request == RequestWith(proposals)
<1>1. /\ proposals \in Seq(Proposal) /\ 1 \in DOMAIN proposals
      /\ AssertProposalBatch(proposals)
  BY BatchShape
<1>2. /\ server # Down
      /\ ~ RequestRefused(server.log, server.decisions, request)
      /\ UNCHANGED <<adapter, disk, told, crashes, corruptions>>
  BY DEF Synchronize
<1>3. request.proposals = proposals
  BY DEF RequestWith
<1>4. \A i \in DOMAIN proposals : ~ ProposalConflict(server.decisions, proposals[i])
  BY <1>2, <1>3 DEF RequestRefused
<1>5. /\ server.log \in Seq(CommittedOperation) /\ DecisionTable(server.decisions)
      /\ HistorySound(server.log, server.decisions)
  BY <1>2 DEF RestoreInv, RestoreTypeOK, RunningHistorySound
<1>6. Prepared(server.log, server.decisions, proposals)
  BY <1>1, <1>4, <1>5 DEF Prepared
<1>7. \E count, accepted, drafts, staged :
         /\ Choices(server.decisions, proposals, count, accepted, drafts)
         /\ staged = StagedEntries(server.log, proposals, accepted, drafts, count)
         /\ Publish(request, staged)
  <2>1. Len(proposals) \in Nat
    BY <1>1
  <2>2. PICK count \in 0..Len(proposals) :
           \E accepted \in [1..count -> Undecided(server.decisions, proposals)],
              drafts \in [1..count -> Operations] :
                /\ InRequestOrder(accepted, count)
                /\ Publish(request,
                      StagedEntries(server.log, proposals, accepted, drafts, count))
    BY DEF Synchronize
  <2>3. PICK accepted \in [1..count -> Undecided(server.decisions, proposals)],
             drafts \in [1..count -> Operations] :
                /\ InRequestOrder(accepted, count)
                /\ Publish(request,
                      StagedEntries(server.log, proposals, accepted, drafts, count))
    BY <2>2
  <2>4. count \in Nat
    BY <2>1
  <2>5. Choices(server.decisions, proposals, count, accepted, drafts)
    BY <2>3, <2>4 DEF Choices
  <2>. QED
    BY <2>3, <2>5
<1>8. PICK count, accepted, drafts, staged :
         /\ Choices(server.decisions, proposals, count, accepted, drafts)
         /\ staged = StagedEntries(server.log, proposals, accepted, drafts, count)
         /\ Publish(request, staged)
  BY <1>7
<1>9. PICK log : log = server.log \o staged
  OBVIOUS
<1>10. PICK table : table = DecisionsAfter(server.decisions, proposals, staged)
  OBVIOUS
<1>11. /\ server' = [log |-> log, decisions |-> table,
                    state |-> server.state \o OperationsOf(staged)]
       /\ unsaved' = unsaved \cup {ResponseTo(request, log, table).decisions[i] :
                         i \in DOMAIN ResponseTo(request, log, table).decisions}
  BY <1>3, <1>8, <1>9, <1>10 DEF Publish
<1>12. Effect(server.log, server.decisions, proposals, log, table, staged, accepted)
  BY <1>1, <1>5, <1>6, <1>8, <1>9, <1>10, BatchFacts
<1>13. {ResponseTo(request, log, table).decisions[i] :
           i \in DOMAIN ResponseTo(request, log, table).decisions} = Answers(table, proposals)
  <2>1. ResponseTo(request, log, table).decisions =
           [i \in 1..Len(proposals) |-> table[proposals[i].operationId].decision]
    BY <1>3 DEF ResponseTo
  <2>2. DOMAIN proposals = 1..Len(proposals)
    BY <1>1
  <2>. QED
    BY <2>1, <2>2 DEF Answers
<1>14. server'.log = log /\ server'.decisions = table
       /\ server'.state = server.state \o OperationsOf(staged)
  BY <1>11
<1>. QED
  BY <1>2, <1>6, <1>11, <1>12, <1>13, <1>14 DEF Called

\* The answers of a call are the rows of the table after it.
LEMMA AnswersStored ==
  ASSUME NEW log \in Seq(CommittedOperation), NEW decisions,
         NEW proposals \in Seq(Proposal), NEW nextLog, NEW nextTable,
         Prepared(log, decisions, proposals),
         NEW staged, NEW accepted,
         Effect(log, decisions, proposals, nextLog, nextTable, staged, accepted),
         NEW answer \in Answers(nextTable, proposals)
  PROVE  /\ answer.operationId \in DOMAIN nextTable
         /\ nextTable[answer.operationId].decision = answer
<1>1. PICK i \in DOMAIN proposals : answer = nextTable[proposals[i].operationId].decision
  BY DEF Answers
<1>2. proposals[i].operationId \in DOMAIN nextTable
  <2>1. CASE proposals[i].operationId \in DOMAIN decisions
    BY <2>1 DEF Effect
  <2>2. CASE proposals[i].operationId \notin DOMAIN decisions
    <3>1. proposals[i].operationId \in NewIds(decisions, proposals)
      BY <2>2 DEF NewIds, Undecided
    <3>. QED
      BY <3>1 DEF Effect
  <2>. QED
    BY <2>1, <2>2
<1>3. HistorySound(nextLog, nextTable)
  BY BatchHistory
<1>4. nextTable[proposals[i].operationId].decision.operationId = proposals[i].operationId
  BY <1>2, <1>3 DEF HistorySound
<1>. QED
  BY <1>1, <1>2, <1>4

\* The operations of a longer log.
LEMMA OperationsOfLonger ==
  ASSUME NEW log \in Seq(CommittedOperation), NEW staged \in Seq(CommittedOperation)
  PROVE  /\ OperationsOf(log) \in Seq(Operations)
         /\ OperationsOf(log \o staged) = OperationsOf(log) \o OperationsOf(staged)
<1>1. \A i \in 1..Len(log) : log[i].operation \in Operations
  <2>1. \A i \in 1..Len(log) : log[i] \in CommittedOperation
    OBVIOUS
  <2>. QED
    BY <2>1 DEF CommittedOperation
<1>2. \A i \in 1..Len(staged) : staged[i].operation \in Operations
  <2>1. \A i \in 1..Len(staged) : staged[i] \in CommittedOperation
    OBVIOUS
  <2>. QED
    BY <2>1 DEF CommittedOperation
<1>3. /\ Len(log) \in Nat /\ Len(staged) \in Nat
  OBVIOUS
<1>4. /\ OperationsOf(log) \in Seq(Operations)
      /\ Len(OperationsOf(log)) = Len(log)
      /\ \A i \in 1..Len(log) : OperationsOf(log)[i] = log[i].operation
  BY <1>1, <1>3 DEF OperationsOf
<1>5. /\ OperationsOf(staged) \in Seq(Operations)
      /\ Len(OperationsOf(staged)) = Len(staged)
      /\ \A i \in 1..Len(staged) : OperationsOf(staged)[i] = staged[i].operation
  BY <1>2, <1>3 DEF OperationsOf
<1>6. PICK longer : longer = log \o staged
  OBVIOUS
<1>7. /\ longer \in Seq(CommittedOperation)
      /\ Len(longer) = Len(log) + Len(staged)
      /\ \A i \in 1..Len(log) : longer[i] = log[i]
      /\ \A j \in 1..Len(staged) : longer[Len(log) + j] = staged[j]
  BY <1>6, LogAfter
<1>8. PICK left : left = OperationsOf(longer)
  OBVIOUS
<1>9. PICK right : right = OperationsOf(log) \o OperationsOf(staged)
  OBVIOUS
<1>10. /\ right \in Seq(Operations)
       /\ Len(right) = Len(log) + Len(staged)
       /\ \A i \in 1..Len(log) + Len(staged) :
             right[i] = IF i <= Len(log) THEN log[i].operation
                        ELSE staged[i - Len(log)].operation
  <2> DEFINE a == OperationsOf(log)
             b == OperationsOf(staged)
  <2>0. /\ a \in Seq(Operations) /\ Len(a) = Len(log)
        /\ \A i \in 1..Len(log) : a[i] = log[i].operation
        /\ b \in Seq(Operations) /\ Len(b) = Len(staged)
        /\ \A i \in 1..Len(staged) : b[i] = staged[i].operation
        /\ right = a \o b
    BY <1>4, <1>5, <1>9
  <2> HIDE DEF a, b
  <2>1. /\ right \in Seq(Operations)
        /\ Len(right) = Len(log) + Len(staged)
        /\ \A i \in 1..Len(log) + Len(staged) :
              right[i] = IF i <= Len(a) THEN a[i] ELSE b[i - Len(a)]
    <3>1. /\ a \o b \in Seq(Operations)
          /\ Len(a \o b) = Len(a) + Len(b)
          /\ \A i \in 1..Len(a) + Len(b) :
                (a \o b)[i] = IF i <= Len(a) THEN a[i] ELSE b[i - Len(a)]
      <4>1. a \in Seq(Operations)
        BY <2>0
      <4>2. b \in Seq(Operations)
        BY <2>0
      <4>. QED
        BY ONLY <4>1, <4>2, ConcatProperties
    <3>. QED
      BY <2>0, <3>1
  <2>2. ASSUME NEW i \in 1..Len(log) + Len(staged)
        PROVE  right[i] = IF i <= Len(log) THEN log[i].operation
                          ELSE staged[i - Len(log)].operation
    <3>1. CASE i <= Len(log)
      <4>1. i \in 1..Len(log)
        BY <1>3, <3>1
      <4>. QED
        BY <2>0, <2>1, <3>1, <4>1
    <3>2. CASE ~ (i <= Len(log))
      <4>1. i - Len(log) \in 1..Len(staged)
        BY <1>3, <3>2
      <4>. QED
        BY <2>0, <2>1, <3>2, <4>1
    <3>. QED
      BY <3>1, <3>2
  <2>. QED
    BY <2>1, <2>2
<1>11. /\ left = [i \in 1..Len(log) + Len(staged) |-> longer[i].operation]
  BY <1>7, <1>8 DEF OperationsOf
<1>12. ASSUME NEW i \in 1..Len(log) + Len(staged)
       PROVE  longer[i].operation = right[i]
  <2>1. CASE i <= Len(log)
    <3>1. i \in 1..Len(log)
      BY <1>3, <2>1
    <3>. QED
      BY <1>7, <1>10, <2>1, <3>1
  <2>2. CASE ~ (i <= Len(log))
    <3>1. i - Len(log) \in 1..Len(staged) /\ Len(log) + (i - Len(log)) = i
      BY <1>3, <2>2
    <3>2. longer[i] = staged[i - Len(log)]
      BY <1>7, <3>1
    <3>. QED
      BY <1>10, <2>2, <3>2
  <2>. QED
    BY <2>1, <2>2
<1>13. right = [i \in 1..Len(log) + Len(staged) |-> right[i]]
  BY <1>3, <1>10
<1>14. left = right
  BY <1>11, <1>12, <1>13
<1>. QED
  BY <1>4, <1>6, <1>8, <1>9, <1>14

\* A batch keeps decisions, entries and state in agreement.
LEMMA BatchOperations ==
  ASSUME NEW log \in Seq(CommittedOperation), NEW decisions,
         NEW proposals \in Seq(Proposal), NEW nextLog, NEW nextTable,
         Prepared(log, decisions, proposals),
         NEW staged, NEW accepted,
         Effect(log, decisions, proposals, nextLog, nextTable, staged, accepted),
         NEW state,
         OperationsAgree(log, Records(decisions), state)
  PROVE  OperationsAgree(nextLog, Records(nextTable), state \o OperationsOf(staged))
<1>1. state \o OperationsOf(staged) = OperationsOf(nextLog)
  <2>1. staged \in Seq(CommittedOperation) /\ nextLog = log \o staged
    BY DEF Effect
  <2>2. state = OperationsOf(log)
    BY DEF OperationsAgree
  <2>. QED
    BY <2>1, <2>2, OperationsOfLonger
<1>2. /\ DOMAIN log = 1..Len(log) /\ Len(log) \in Nat
      /\ Len(staged) \in Nat
      /\ \A i \in DOMAIN log : nextLog[i] = log[i]
  BY DEF Effect
<1>3. ASSUME NEW id \in DOMAIN nextTable, NEW i \in DOMAIN nextLog, AcceptedAt(nextTable[id], i)
      PROVE  nextTable[id].decision = AcceptedFor(nextLog[i])
  <2>1. CASE id \in DOMAIN decisions
    <3>1. nextTable[id] = decisions[id]
      BY <2>1 DEF Effect
    <3>2. PICK k \in DOMAIN log : AcceptedAt(decisions[id], k)
      BY <1>3, <2>1, <3>1 DEF Prepared, HistorySound, AcceptedAt
    <3>3. k = i
      BY <1>3, <3>1, <3>2 DEF AcceptedAt
    <3>4. decisions[id] \in Records(decisions)
      BY <2>1 DEF Records
    <3>5. decisions[id].decision = AcceptedFor(log[i])
      BY <3>2, <3>3, <3>4 DEF OperationsAgree
    <3>. QED
      BY <1>2, <3>1, <3>2, <3>3, <3>5
  <2>2. CASE id \in NewIds(decisions, proposals)
    <3>1. PICK p \in Undecided(decisions, proposals) : id = proposals[p].operationId
      BY <2>2 DEF NewIds
    <3>2. \/ \E j \in 1..Len(staged) : accepted[j] = p /\
                nextTable[id].decision = AcceptedFor(staged[j])
          \/ nextTable[id].decision = RejectedFor(id)
      BY <3>1 DEF Effect
    <3>3. nextTable[id].decision # RejectedFor(id)
      BY <1>3 DEF AcceptedAt, RejectedFor
    <3>4. PICK j \in 1..Len(staged) : nextTable[id].decision = AcceptedFor(staged[j])
      BY <3>2, <3>3
    <3>5. staged[j].sequence = Len(log) + j /\ nextLog[Len(log) + j] = staged[j]
      BY DEF Effect
    <3>6. i = Len(log) + j
      BY <1>3, <3>4, <3>5 DEF AcceptedAt, AcceptedFor
    <3>. QED
      BY <3>4, <3>5, <3>6
  <2>. QED
    BY <2>1, <2>2 DEF Effect
<1>. QED
  BY <1>1, <1>3 DEF OperationsAgree, Records

\* A call keeps RestoreInv.
LEMMA SynchronizeKeeps ==
  ASSUME RestoreInv, NEW proposals \in Batches, Synchronize(proposals)
  PROVE  RestoreInv'
<1>1. PICK staged, accepted : Called(proposals, staged, accepted)
  BY SynchronizeEffect
<1>2. /\ server # Down
      /\ Prepared(server.log, server.decisions, proposals)
      /\ Effect(server.log, server.decisions, proposals, server'.log, server'.decisions,
                staged, accepted)
      /\ server'.state = server.state \o OperationsOf(staged)
      /\ unsaved' = unsaved \cup Answers(server'.decisions, proposals)
      /\ UNCHANGED <<adapter, disk, told, crashes, corruptions>>
  BY <1>1 DEF Called
<1>3. /\ server.log \in Seq(CommittedOperation) /\ server.state \in Seq(Operations)
      /\ RestoreTypeOK
  BY <1>2 DEF RestoreInv, RestoreTypeOK
<1>4. proposals \in Seq(Proposal) /\ 1 \in DOMAIN proposals
  BY BatchShape
<1>5. PICK log : log = server.log
  OBVIOUS
<1>6. PICK table : table = server.decisions
  OBVIOUS
<1>7. PICK nextLog : nextLog = server'.log
  OBVIOUS
<1>8. PICK nextTable : nextTable = server'.decisions
  OBVIOUS
<1>9. /\ log \in Seq(CommittedOperation)
      /\ Prepared(log, table, proposals)
      /\ Effect(log, table, proposals, nextLog, nextTable, staged, accepted)
  BY <1>2, <1>3, <1>5, <1>6, <1>7, <1>8
<1>10. HistorySound(nextLog, nextTable) /\ DecisionTable(nextTable)
  BY <1>4, <1>9, BatchHistory, BatchTable
<1>11. /\ nextLog \in Seq(CommittedOperation) /\ staged \in Seq(CommittedOperation)
       /\ Len(nextLog) = Len(log) + Len(staged)
       /\ \A i \in DOMAIN log : nextLog[i] = log[i]
       /\ \A id \in DOMAIN table : id \in DOMAIN nextTable /\ nextTable[id] = table[id]
  <2>1. DOMAIN log = 1..Len(log)
    BY <1>9
  <2>. QED
    BY <1>9, <2>1 DEF Effect
<1>12. \A answer \in Answers(nextTable, proposals) :
          /\ answer.operationId \in DOMAIN nextTable
          /\ nextTable[answer.operationId].decision = answer
  BY <1>4, <1>9, AnswersStored
<1>13. server' # Down
  <2>1. PICK answer : answer = nextTable[proposals[1].operationId].decision
    OBVIOUS
  <2>2. answer \in Answers(nextTable, proposals)
    BY <1>4, <2>1 DEF Answers
  <2>3. DOMAIN nextTable # {}
    BY <1>12, <2>2
  <2>. QED
    BY <1>8, <2>3 DEF Down
<1>14. RestoreTypeOK'
  <2>1. server'.state \in Seq(Operations)
    BY <1>2, <1>3, <1>11, OperationsOfLonger, ConcatProperties
  <2>2. Answers(nextTable, proposals) \subseteq ProposalDecision
    <3>1. \A id \in DOMAIN nextTable : nextTable[id] \in StoredProposalDecision
      BY <1>10 DEF DecisionTable
    <3>. QED
      BY <1>12, <3>1 DEF StoredProposalDecision
  <2>. QED
    BY <1>2, <1>3, <1>7, <1>8, <1>10, <1>11, <1>13, <2>1, <2>2 DEF RestoreTypeOK
<1>15. SnapshotsRestore'
  BY <1>13 DEF SnapshotsRestore
<1>16. AnswersKept'
  BY <1>2, <1>6, <1>8, <1>11 DEF RestoreInv, AnswersKept
<1>17. RunningHistorySound'
  BY <1>7, <1>8, <1>10 DEF RunningHistorySound
<1>18. SavedSound'
  BY <1>2 DEF RestoreInv, SavedSound
<1>19. ServerContinues'
  <2>. SUFFICES ASSUME adapter = "atomic"
                PROVE  /\ Len(disk.log) <= Len(nextLog)
                       /\ \A i \in DOMAIN disk.log : nextLog[i] = disk.log[i]
                       /\ \A record \in disk.decisions :
                             /\ record.identity.operationId \in DOMAIN nextTable
                             /\ nextTable[record.identity.operationId] = record
                       /\ OperationsAgree(nextLog, Records(nextTable), server'.state)
                       /\ \A decision \in unsaved' :
                             /\ decision.operationId \in DOMAIN nextTable
                             /\ nextTable[decision.operationId].decision = decision
    BY <1>2, <1>7, <1>8 DEF ServerContinues
  <2>1. /\ Len(disk.log) <= Len(log)
        /\ \A i \in DOMAIN disk.log : log[i] = disk.log[i]
        /\ \A record \in disk.decisions :
              /\ record.identity.operationId \in DOMAIN table
              /\ table[record.identity.operationId] = record
        /\ OperationsAgree(log, Records(table), server.state)
        /\ \A decision \in unsaved :
              /\ decision.operationId \in DOMAIN table
              /\ table[decision.operationId].decision = decision
    BY <1>2, <1>5, <1>6 DEF RestoreInv, ServerContinues
  <2>2. disk.log \in Seq(CommittedOperation)
    BY <1>3 DEF RestoreTypeOK
  <2>3. /\ Len(disk.log) \in Nat /\ Len(log) \in Nat /\ Len(staged) \in Nat
        /\ DOMAIN disk.log = 1..Len(disk.log) /\ DOMAIN log = 1..Len(log)
    BY <1>9, <1>11, <2>2
  <2>4. Len(disk.log) <= Len(nextLog)
    BY <1>11, <2>1, <2>3
  <2>5. ASSUME NEW i \in DOMAIN disk.log
        PROVE  nextLog[i] = disk.log[i]
    <3>1. i \in DOMAIN log
      BY <2>1, <2>3
    <3>. QED
      BY <1>11, <2>1, <3>1
  <2>6. \A record \in disk.decisions :
           /\ record.identity.operationId \in DOMAIN nextTable
           /\ nextTable[record.identity.operationId] = record
    BY <1>11, <2>1
  <2>7. OperationsAgree(nextLog, Records(nextTable), server.state \o OperationsOf(staged))
    BY <1>4, <1>9, <2>1, BatchOperations
  <2>8. \A decision \in unsaved' :
           /\ decision.operationId \in DOMAIN nextTable
           /\ nextTable[decision.operationId].decision = decision
    BY <1>2, <1>8, <1>11, <1>12, <2>1
  <2>. QED
    BY <1>2, <2>4, <2>5, <2>6, <2>7, <2>8
<1>. QED
  BY <1>14, <1>15, <1>16, <1>17, <1>18, <1>19 DEF RestoreInv

-----------------------------------------------------------------------------
(* Snapshots. *)

\* The constructor takes a snapshot of a history in one piece.
LEMMA SnapshotRestorable ==
  ASSUME NEW log \in Seq(CommittedOperation), NEW decisions, HistorySound(log, decisions),
         NEW snapshot, snapshot.log = log, snapshot.decisions = Records(decisions)
  PROVE  Restorable(snapshot)
<1>1. \A i \in DOMAIN log :
          /\ log[i].sequence = i
          /\ log[i].operationId \in DOMAIN decisions
          /\ AcceptedAt(decisions[log[i].operationId], i)
          /\ OriginOf(decisions[log[i].operationId].identity) = log[i].origin
  BY DEF HistorySound
<1>2. \A id \in DOMAIN decisions :
          /\ decisions[id].identity.operationId = id
          /\ decisions[id].decision.operationId = id
          /\ decisions[id].decision.status = "accepted" =>
                \E i \in DOMAIN log : AcceptedAt(decisions[id], i) /\ log[i].operationId = id
  BY DEF HistorySound
<1>3. \A left, right \in DOMAIN decisions :
          left # right => ~ SamePosition(decisions[left].identity, decisions[right].identity)
  BY DEF HistorySound
<1>4. ASSUME NEW i \in DOMAIN log, NEW j \in DOMAIN log, i # j
      PROVE  /\ log[i].operationId # log[j].operationId
             /\ ~ SamePosition(log[i].origin, log[j].origin)
  <2>1. log[i].operationId # log[j].operationId
    BY <1>1, <1>4 DEF AcceptedAt
  <2>2. ~ SamePosition(decisions[log[i].operationId].identity,
                       decisions[log[j].operationId].identity)
    BY <1>1, <1>3, <2>1
  <2>3. PICK p : p = decisions[log[i].operationId].identity
    OBVIOUS
  <2>4. PICK q : q = decisions[log[j].operationId].identity
    OBVIOUS
  <2>5. log[i].origin = OriginOf(p) /\ log[j].origin = OriginOf(q)
    BY <1>1, <2>3, <2>4
  <2>6. SamePosition(OriginOf(p), OriginOf(q)) => SamePosition(p, q)
    BY DEF SamePosition, OriginOf
  <2>. QED
    BY <2>1, <2>2, <2>3, <2>4, <2>5, <2>6
<1>5. AssertContiguousLog(log)
  BY <1>1, <1>4 DEF AssertContiguousLog
<1>6. \A record \in Records(decisions) : \E id \in DOMAIN decisions : record = decisions[id]
  BY DEF Records
<1>7. \A id \in DOMAIN decisions : decisions[id] \in Records(decisions)
  BY DEF Records
<1>8. DecisionsRestorable(Records(decisions))
  <2>1. ASSUME NEW record \in Records(decisions)
        PROVE  record.decision.operationId = record.identity.operationId
    BY <1>2, <1>6
  <2>2. ASSUME NEW left \in Records(decisions), NEW right \in Records(decisions), left # right
        PROVE  /\ left.identity.operationId # right.identity.operationId
               /\ ~ SamePosition(left.identity, right.identity)
    <3>1. PICK a \in DOMAIN decisions : left = decisions[a]
      BY <1>6
    <3>2. PICK b \in DOMAIN decisions : right = decisions[b]
      BY <1>6
    <3>. QED
      BY <1>2, <1>3, <2>2, <3>1, <3>2
  <2>. QED
    BY <2>1, <2>2 DEF DecisionsRestorable
<1>9. HistoryRestorable(log, Records(decisions))
  <2>1. ASSUME NEW i \in DOMAIN log
        PROVE  \E record \in Records(decisions) :
                  AcceptedAt(record, i) /\ IdentityMatchesEntry(record.identity, log[i])
    <3>1. /\ AcceptedAt(decisions[log[i].operationId], i)
          /\ IdentityMatchesEntry(decisions[log[i].operationId].identity, log[i])
      BY <1>1, <1>2 DEF IdentityMatchesEntry
    <3>. QED
      BY <1>1, <1>7, <3>1
  <2>2. ASSUME NEW record \in Records(decisions), record.decision.status = "accepted"
        PROVE  \E i \in DOMAIN log :
                  AcceptedAt(record, i) /\ IdentityMatchesEntry(record.identity, log[i])
    <3>1. PICK id \in DOMAIN decisions : record = decisions[id]
      BY <1>6
    <3>2. PICK i \in DOMAIN log : AcceptedAt(decisions[id], i) /\ log[i].operationId = id
      BY <1>2, <2>2, <3>1
    <3>3. IdentityMatchesEntry(record.identity, log[i])
      BY <1>1, <1>2, <3>1, <3>2 DEF IdentityMatchesEntry
    <3>. QED
      BY <3>1, <3>2, <3>3
  <2>. QED
    BY <2>1, <2>2 DEF HistoryRestorable
<1>. QED
  BY <1>5, <1>8, <1>9 DEF Restorable

\* The table that the constructor makes of stored records.
RestoredTable(records, table) ==
    /\ DOMAIN table = {record.identity.operationId : record \in records}
    /\ \A record \in records :
          /\ record.identity.operationId \in DOMAIN table
          /\ table[record.identity.operationId] = record
    /\ \A id \in DOMAIN table : table[id] \in records /\ table[id].identity.operationId = id
    /\ table = [id \in DOMAIN table |-> table[id]]

\* It has one row for each record.
LEMMA TableRestored ==
  ASSUME NEW snapshot, DecisionsRestorable(snapshot.decisions)
  PROVE  RestoredTable(snapshot.decisions, Restored(snapshot).decisions)
<1> DEFINE records == snapshot.decisions
           ids == {record.identity.operationId : record \in records}
<1>0. PICK table : table = Restored(snapshot).decisions
  OBVIOUS
<1>1. table = [id \in ids |-> CHOOSE record \in records : record.identity.operationId = id]
  BY <1>0 DEF Restored
<1>2. ASSUME NEW record \in records
      PROVE  /\ record.identity.operationId \in ids
             /\ table[record.identity.operationId] = record
  <2>1. record.identity.operationId \in ids
    OBVIOUS
  <2>2. PICK c : c = CHOOSE r \in records : r.identity.operationId = record.identity.operationId
    OBVIOUS
  <2>3. c \in records /\ c.identity.operationId = record.identity.operationId
    BY <2>2
  <2>4. c = record
    BY <2>3 DEF DecisionsRestorable
  <2>. QED
    BY <1>1, <2>1, <2>2, <2>4
<1>3. DOMAIN table = ids
  BY <1>1
<1>4. ASSUME NEW id \in ids
      PROVE  table[id] \in records /\ table[id].identity.operationId = id
  <2>1. PICK record \in records : id = record.identity.operationId
    OBVIOUS
  <2>. QED
    BY <1>2, <2>1
<1>5. table = [id \in DOMAIN table |-> table[id]]
  BY <1>1
<1>. QED
  BY <1>0, <1>2, <1>3, <1>4, <1>5 DEF RestoredTable

\* A server that restores a snapshot has a history in one piece.
LEMMA RestoredHistory ==
  ASSUME NEW log \in Seq(CommittedOperation), NEW records \in SUBSET StoredProposalDecision,
         NEW table, RestoredTable(records, table),
         AssertContiguousLog(log), DecisionsRestorable(records),
         HistoryRestorable(log, records)
  PROVE  DecisionTable(table) /\ HistorySound(log, table)
<1>1. /\ DOMAIN table = {record.identity.operationId : record \in records}
      /\ \A record \in records :
            /\ record.identity.operationId \in DOMAIN table
            /\ table[record.identity.operationId] = record
      /\ \A id \in DOMAIN table : table[id] \in records /\ table[id].identity.operationId = id
      /\ table = [id \in DOMAIN table |-> table[id]]
  BY DEF RestoredTable
<1>2. DecisionTable(table)
  <2>1. \A record \in records :
           record \in StoredProposalDecision /\ record.identity \in Proposal
    BY DEF StoredProposalDecision
  <2>2. \A record \in records : record.identity.operationId \in OperationIds
    BY <2>1 DEF Proposal
  <2>3. DOMAIN table \subseteq OperationIds
    BY <1>1, <2>2
  <2>4. table \in [DOMAIN table -> StoredProposalDecision]
    BY <1>1, <2>1
  <2>. QED
    BY <2>3, <2>4 DEF DecisionTable
<1>3. ASSUME NEW i \in DOMAIN log
      PROVE  /\ log[i].sequence = i
             /\ log[i].operationId \in DOMAIN table
             /\ AcceptedAt(table[log[i].operationId], i)
             /\ OriginOf(table[log[i].operationId].identity) = log[i].origin
  <2>1. log[i].sequence = i
    BY DEF AssertContiguousLog
  <2>2. PICK record \in records :
           AcceptedAt(record, i) /\ IdentityMatchesEntry(record.identity, log[i])
    BY DEF HistoryRestorable
  <2>3. record.identity.operationId = log[i].operationId
        /\ OriginOf(record.identity) = log[i].origin
    BY <2>2 DEF IdentityMatchesEntry
  <2>. QED
    BY <1>1, <2>1, <2>2, <2>3
<1>4. ASSUME NEW id \in DOMAIN table
      PROVE  /\ table[id].identity.operationId = id
             /\ table[id].decision.operationId = id
             /\ table[id].decision.status = "accepted" =>
                   \E i \in DOMAIN log : AcceptedAt(table[id], i) /\ log[i].operationId = id
  <2>1. table[id] \in records /\ table[id].identity.operationId = id
    BY <1>1
  <2>2. table[id].decision.operationId = id
    BY <2>1 DEF DecisionsRestorable
  <2>3. ASSUME table[id].decision.status = "accepted"
        PROVE  \E i \in DOMAIN log : AcceptedAt(table[id], i) /\ log[i].operationId = id
    BY <2>1, <2>3 DEF HistoryRestorable, IdentityMatchesEntry
  <2>. QED
    BY <2>1, <2>2, <2>3
<1>5. ASSUME NEW left \in DOMAIN table, NEW right \in DOMAIN table, left # right
      PROVE  ~ SamePosition(table[left].identity, table[right].identity)
  <2>1. /\ table[left] \in records /\ table[right] \in records
        /\ table[left] # table[right]
    BY <1>1, <1>5
  <2>. QED
    BY <2>1 DEF DecisionsRestorable
<1>. QED
  BY <1>2, <1>3, <1>4, <1>5 DEF HistorySound

\* A server that has just saved, or restored, continues what is stored.
LEMMA SaveKeeps ==
  ASSUME RestoreInv, Save
  PROVE  RestoreInv'
<1>1. /\ server # Down /\ UNCHANGED <<adapter, server>>
      /\ disk' = Snapshot /\ told' = told \cup unsaved /\ unsaved' = {}
  BY DEF Save
<1>2. /\ disk'.log = server.log
      /\ disk'.decisions = Records(server.decisions)
      /\ disk'.state = server.state
      /\ disk' = [log |-> server.log, state |-> server.state,
                  decisions |-> Records(server.decisions)]
  BY <1>1 DEF Snapshot
<1>3. /\ server.log \in Seq(CommittedOperation) /\ DecisionTable(server.decisions)
      /\ server.state \in Seq(Operations)
      /\ unsaved \cup told \subseteq ProposalDecision
      /\ HistorySound(server.log, server.decisions)
  BY <1>1 DEF RestoreInv, RestoreTypeOK, RunningHistorySound
<1>4. \A id \in DOMAIN server.decisions :
          /\ server.decisions[id] \in Records(server.decisions)
          /\ server.decisions[id].identity.operationId = id
          /\ server.decisions[id].decision.operationId = id
  BY <1>3 DEF Records, HistorySound
<1>5. \A record \in Records(server.decisions) : \E id \in DOMAIN server.decisions :
          record = server.decisions[id]
  BY DEF Records
<1>6. RestoreTypeOK'
  <2>1. Records(server.decisions) \subseteq StoredProposalDecision
    BY <1>3, <1>5 DEF DecisionTable
  <2>2. disk' \in [log : Seq(CommittedOperation), decisions : SUBSET StoredProposalDecision,
                   state : Seq(Operations)]
    BY <1>2, <1>3, <2>1
  <2>3. RestoreTypeOK
    BY DEF RestoreInv
  <2>. QED
    BY <1>1, <1>3, <2>2, <2>3 DEF RestoreTypeOK
<1>7. ASSUME adapter = "atomic"
      PROVE  /\ \A decision \in told \cup unsaved :
                   /\ decision.operationId \in DOMAIN server.decisions
                   /\ server.decisions[decision.operationId].decision = decision
             /\ OperationsAgree(server.log, Records(server.decisions), server.state)
  BY <1>1, <1>7 DEF RestoreInv, AnswersKept, ServerContinues
<1>8. SnapshotsRestore'
  BY <1>1 DEF SnapshotsRestore
<1>9. AnswersKept'
  BY <1>1, <1>7 DEF AnswersKept
<1>10. RunningHistorySound'
  BY <1>1, <1>3 DEF RunningHistorySound
<1>11. SavedSound'
  <2>. SUFFICES ASSUME adapter = "atomic"
                PROVE  /\ Restorable(disk')
                       /\ OperationsAgree(disk'.log, disk'.decisions, disk'.state)
                       /\ \A decision \in told' :
                             \E record \in disk'.decisions : record.decision = decision
    BY <1>1 DEF SavedSound
  <2>1. Restorable(disk')
    BY <1>2, <1>3, SnapshotRestorable
  <2>2. \A decision \in told' : \E record \in disk'.decisions : record.decision = decision
    BY <1>1, <1>2, <1>4, <1>7
  <2>. QED
    BY <1>2, <1>7, <2>1, <2>2
<1>12. ServerContinues'
  <2>. SUFFICES ASSUME adapter = "atomic"
                PROVE  /\ Len(disk'.log) <= Len(server.log)
                       /\ \A i \in DOMAIN disk'.log : server.log[i] = disk'.log[i]
                       /\ \A record \in disk'.decisions :
                             /\ record.identity.operationId \in DOMAIN server.decisions
                             /\ server.decisions[record.identity.operationId] = record
                       /\ OperationsAgree(server.log, Records(server.decisions), server.state)
    BY <1>1 DEF ServerContinues
  <2>1. Len(disk'.log) <= Len(server.log)
    <3>1. Len(server.log) \in Nat
      BY <1>3
    <3>. QED
      BY <1>2, <3>1
  <2>2. \A record \in disk'.decisions :
           /\ record.identity.operationId \in DOMAIN server.decisions
           /\ server.decisions[record.identity.operationId] = record
    BY <1>2, <1>4, <1>5
  <2>. QED
    BY <1>2, <1>7, <2>1, <2>2
<1>. QED
  BY <1>6, <1>8, <1>9, <1>10, <1>11, <1>12 DEF RestoreInv

\* An adapter that stores parts says nothing about what is stored but its types.
LEMMA SavePartKeeps ==
  ASSUME RestoreInv, NEW part \in {"log", "decisions", "state"}, SavePart(part)
  PROVE  RestoreInv'
<1>1. /\ adapter = "parts" /\ server # Down
      /\ disk' = [disk EXCEPT ![part] = Snapshot[part]]
      /\ UNCHANGED <<adapter, server, unsaved, told>>
  BY DEF SavePart
<1>2. RestoreTypeOK /\ AnswersKept /\ RunningHistorySound
  BY DEF RestoreInv
<1>3. disk' \in [log : Seq(CommittedOperation), decisions : SUBSET StoredProposalDecision,
                 state : Seq(Operations)]
  <2>1. /\ disk \in [log : Seq(CommittedOperation), decisions : SUBSET StoredProposalDecision,
                     state : Seq(Operations)]
        /\ server.log \in Seq(CommittedOperation) /\ DecisionTable(server.decisions)
        /\ server.state \in Seq(Operations)
    BY <1>1, <1>2 DEF RestoreTypeOK
  <2>2. Records(server.decisions) \in SUBSET StoredProposalDecision
    BY <2>1 DEF Records, DecisionTable
  <2>3. CASE part = "log"
    <3>1. disk' = [disk EXCEPT !.log = server.log]
      BY <1>1, <2>1, <2>3 DEF Snapshot
    <3>. QED
      BY <2>1, <3>1
  <2>4. CASE part = "decisions"
    <3>1. disk' = [disk EXCEPT !.decisions = Records(server.decisions)]
      BY <1>1, <2>1, <2>4 DEF Snapshot
    <3>. QED
      BY <2>1, <2>2, <3>1
  <2>5. CASE part = "state"
    <3>1. disk' = [disk EXCEPT !.state = server.state]
      BY <1>1, <2>1, <2>5 DEF Snapshot
    <3>. QED
      BY <2>1, <3>1
  <2>. QED
    BY <2>3, <2>4, <2>5
<1>4. RestoreTypeOK'
  BY <1>1, <1>2, <1>3 DEF RestoreTypeOK
<1>5. SnapshotsRestore' /\ SavedSound' /\ ServerContinues' /\ AnswersKept'
  BY <1>1 DEF SnapshotsRestore, SavedSound, ServerContinues, AnswersKept
<1>6. RunningHistorySound'
  BY <1>1, <1>2 DEF RunningHistorySound
<1>. QED
  BY <1>4, <1>5, <1>6 DEF RestoreInv

\* Nor does one whose records change.
LEMMA CorruptKeeps ==
  ASSUME RestoreInv, NEW old, NEW new \in FaultyRecords, Corrupt(old, new)
  PROVE  RestoreInv'
<1>1. /\ adapter = "corruption"
      /\ disk' = [disk EXCEPT !.decisions = (@ \ {old}) \cup {new}]
      /\ UNCHANGED <<adapter, server, unsaved, told>>
  BY DEF Corrupt
<1>2. RestoreTypeOK /\ AnswersKept /\ RunningHistorySound
  BY DEF RestoreInv
<1>3. new \in StoredProposalDecision
  <2>1. Cardinality(Proposals) \in Nat
    BY ProposalsAssumption, FS_CardinalityType
  <2>2. 1..Cardinality(Proposals) \subseteq LogSequence
    BY <2>1 DEF LogSequence
  <2>3. PICK identity \in {[p EXCEPT !.intentHash = hash] : p \in Proposals, hash \in IntentHashes},
             decision \in [operationId : OperationIds, status : {"accepted"},
                           sequence : 1..Cardinality(Proposals), operation : Operations]
                          \cup RejectedDecision :
             new = [identity |-> identity, decision |-> decision]
    BY DEF FaultyRecords
  <2>4. identity \in Proposal
    BY <2>3, ProposalsAssumption DEF Proposal
  <2>5. decision \in ProposalDecision
    BY <2>2, <2>3 DEF ProposalDecision, AcceptedDecision
  <2>. QED
    BY <2>3, <2>4, <2>5 DEF StoredProposalDecision
<1>4. RestoreTypeOK'
  <2>1. disk \in [log : Seq(CommittedOperation), decisions : SUBSET StoredProposalDecision,
                  state : Seq(Operations)]
    BY <1>2 DEF RestoreTypeOK
  <2>2. (disk.decisions \ {old}) \cup {new} \in SUBSET StoredProposalDecision
    BY <1>3, <2>1
  <2>3. disk' \in [log : Seq(CommittedOperation), decisions : SUBSET StoredProposalDecision,
                   state : Seq(Operations)]
    BY <1>1, <2>1, <2>2
  <2>. QED
    BY <1>1, <1>2, <2>3 DEF RestoreTypeOK
<1>5. SnapshotsRestore' /\ SavedSound' /\ ServerContinues' /\ AnswersKept'
  BY <1>1 DEF SnapshotsRestore, SavedSound, ServerContinues, AnswersKept
<1>6. RunningHistorySound'
  BY <1>1, <1>2 DEF RunningHistorySound
<1>. QED
  BY <1>4, <1>5, <1>6 DEF RestoreInv

\* A process that ends takes the answers with it that were not given.
LEMMA CrashKeeps == RestoreInv /\ Crash => RestoreInv'
<1> SUFFICES ASSUME RestoreInv, Crash
             PROVE  RestoreInv'
  OBVIOUS
<1>1. /\ server' = Down /\ unsaved' = {} /\ UNCHANGED <<adapter, disk, told>>
  BY DEF Crash
<1>2. RestoreTypeOK /\ SavedSound
  BY DEF RestoreInv
<1>3. RestoreTypeOK'
  BY <1>1, <1>2 DEF RestoreTypeOK
<1>4. SnapshotsRestore' /\ AnswersKept' /\ RunningHistorySound' /\ ServerContinues'
  BY <1>1, <1>2
  DEF SnapshotsRestore, AnswersKept, RunningHistorySound, ServerContinues, SavedSound
<1>5. SavedSound'
  BY <1>1, <1>2 DEF SavedSound
<1>. QED
  BY <1>3, <1>4, <1>5 DEF RestoreInv

\* The next process has what was stored, and with it every answer that was given.
LEMMA RestoreKeeps == RestoreInv /\ Restore => RestoreInv'
<1> SUFFICES ASSUME RestoreInv, Restore
             PROVE  RestoreInv'
  OBVIOUS
<1>1. /\ server = Down /\ Restorable(disk) /\ server' = Restored(disk)
      /\ UNCHANGED <<adapter, disk, unsaved, told>>
  BY DEF Restore
<1>2. RestoreTypeOK /\ SavedSound
  BY DEF RestoreInv
<1>3. PICK log : log = disk.log
  OBVIOUS
<1>4. PICK records : records = disk.decisions
  OBVIOUS
<1>5. PICK table : table = Restored(disk).decisions
  OBVIOUS
<1>6. /\ log \in Seq(CommittedOperation) /\ records \in SUBSET StoredProposalDecision
      /\ disk.state \in Seq(Operations) /\ unsaved = {}
  BY <1>1, <1>2, <1>3, <1>4 DEF RestoreTypeOK
<1>7. /\ AssertContiguousLog(log) /\ DecisionsRestorable(records)
      /\ HistoryRestorable(log, records)
  BY <1>1, <1>3, <1>4 DEF Restorable
<1>8. RestoredTable(records, table)
  BY <1>4, <1>5, <1>7, TableRestored
<1>9. DecisionTable(table) /\ HistorySound(log, table)
  BY <1>6, <1>7, <1>8, RestoredHistory
<1>10. server'.log = log /\ server'.decisions = table /\ server'.state = disk.state
  BY <1>1, <1>3, <1>5 DEF Restored
<1>11. /\ \A record \in records :
             /\ record.identity.operationId \in DOMAIN table
             /\ table[record.identity.operationId] = record
       /\ Records(table) = records
  <2>1. Records(table) = {table[id] : id \in DOMAIN table}
    BY DEF Records
  <2>. QED
    BY <1>8, <2>1 DEF RestoredTable
<1>12. RestoreTypeOK'
  BY <1>1, <1>2, <1>6, <1>9, <1>10 DEF RestoreTypeOK
<1>13. RunningHistorySound'
  BY <1>9, <1>10 DEF RunningHistorySound
<1>14. SavedSound' /\ SnapshotsRestore'
  BY <1>1, <1>2 DEF SavedSound, SnapshotsRestore
<1>15. AnswersKept'
  <2>. SUFFICES ASSUME adapter = "atomic", NEW decision \in told
                PROVE  /\ decision.operationId \in DOMAIN table
                       /\ table[decision.operationId].decision = decision
    BY <1>1, <1>10 DEF AnswersKept
  <2>1. PICK record \in records : record.decision = decision
    BY <1>2, <1>4 DEF SavedSound
  <2>2. record.decision.operationId = record.identity.operationId
    BY <1>7 DEF DecisionsRestorable
  <2>. QED
    BY <1>11, <2>1, <2>2
<1>16. ServerContinues'
  <2>. SUFFICES ASSUME adapter = "atomic"
                PROVE  /\ Len(log) <= Len(log)
                       /\ \A record \in records :
                             /\ record.identity.operationId \in DOMAIN table
                             /\ table[record.identity.operationId] = record
                       /\ OperationsAgree(log, Records(table), disk.state)
    BY <1>1, <1>3, <1>4, <1>6, <1>10 DEF ServerContinues
  <2>1. Len(log) \in Nat
    BY <1>6
  <2>2. OperationsAgree(log, records, disk.state)
    BY <1>2, <1>3, <1>4 DEF SavedSound
  <2>. QED
    BY <1>11, <2>1, <2>2
<1>. QED
  BY <1>12, <1>13, <1>14, <1>15, <1>16 DEF RestoreInv

\* It holds at the start, when nothing is stored.
LEMMA InitRestoreInv == Init => RestoreInv
<1> SUFFICES ASSUME Init
             PROVE  RestoreInv
  OBVIOUS
<1>1. /\ adapter \in {"atomic", "parts", "corruption"}
      /\ server = [log |-> <<>>, decisions |-> [id \in {} |-> {}], state |-> <<>>]
      /\ disk = [log |-> <<>>, decisions |-> {}, state |-> <<>>]
      /\ unsaved = {} /\ told = {}
  BY DEF Init, Empty
<1>2. /\ server.log = <<>> /\ server.decisions = [id \in {} |-> {}] /\ server.state = <<>>
      /\ disk.log = <<>> /\ disk.decisions = {} /\ disk.state = <<>>
      /\ DOMAIN server.decisions = {} /\ Records(server.decisions) = {}
  <2>1. /\ server.log = <<>> /\ server.decisions = [id \in {} |-> {}] /\ server.state = <<>>
        /\ disk.log = <<>> /\ disk.decisions = {} /\ disk.state = <<>>
    BY <1>1
  <2>. QED
    BY <2>1 DEF Records
<1>3. /\ <<>> \in Seq(CommittedOperation) /\ <<>> \in Seq(Operations)
      /\ DOMAIN <<>> = {} /\ Len(<<>>) = 0
  OBVIOUS
<1>4. RestoreTypeOK
  <2>1. DecisionTable(server.decisions)
    BY <1>2 DEF DecisionTable
  <2>. QED
    BY <1>1, <1>2, <1>3, <2>1 DEF RestoreTypeOK
<1>5. HistorySound(server.log, server.decisions)
  BY <1>2, <1>3 DEF HistorySound
<1>6. Restorable(disk)
  BY <1>2, <1>3
  DEF Restorable, AssertContiguousLog, DecisionsRestorable, HistoryRestorable
<1>7. OperationsOf(<<>>) = <<>>
  BY <1>3 DEF OperationsOf
<1>8. OperationsAgree(server.log, Records(server.decisions), server.state)
      /\ OperationsAgree(disk.log, disk.decisions, disk.state)
  BY <1>2, <1>7 DEF OperationsAgree
<1>. QED
  BY <1>1, <1>2, <1>3, <1>4, <1>5, <1>6, <1>8
  DEF RestoreInv, SnapshotsRestore, AnswersKept, RunningHistorySound, SavedSound,
      ServerContinues

\* Every step keeps RestoreInv.
LEMMA StepKeeps == RestoreInv /\ [Next]_vars => RestoreInv'
<1> SUFFICES ASSUME RestoreInv, [Next]_vars
             PROVE  RestoreInv'
  OBVIOUS
<1>1. ASSUME NEW proposals \in Batches, Synchronize(proposals)
      PROVE  RestoreInv'
  BY <1>1, SynchronizeKeeps
<1>2. CASE Save
  BY <1>2, SaveKeeps
<1>3. ASSUME NEW part \in {"log", "decisions", "state"}, SavePart(part)
      PROVE  RestoreInv'
  BY <1>3, SavePartKeeps
<1>4. ASSUME NEW old \in disk.decisions, NEW new \in FaultyRecords, Corrupt(old, new)
      PROVE  RestoreInv'
  BY <1>4, CorruptKeeps
<1>5. CASE Crash
  BY <1>5, CrashKeeps
<1>6. CASE Restore
  BY <1>6, RestoreKeeps
<1>7. CASE UNCHANGED vars
  BY <1>7
  DEF vars, RestoreInv, RestoreTypeOK, SnapshotsRestore, AnswersKept, RunningHistorySound,
      SavedSound, ServerContinues
<1>. QED
  BY <1>1, <1>2, <1>3, <1>4, <1>5, <1>6, <1>7 DEF Next

\* Every process and every snapshot is sound: what a server stored restores, what was answered
\* stays true, and a running server has one history (server.ts:91-121, 317-405).
THEOREM RestoreInductive == Spec => []RestoreInv
<1>1. Init => RestoreInv
  BY InitRestoreInv
<1>2. RestoreInv /\ [Next]_vars => RestoreInv'
  BY StepKeeps
<1>. QED
  BY <1>1, <1>2, PTL DEF Spec

-----------------------------------------------------------------------------
(* What is stored, as the log of an authority that never crashes. *)

\* A stored snapshot and the server that is about to be stored over it.
Continued(old, before, new, after) ==
    /\ old \in Seq(CommittedOperation) /\ new \in Seq(CommittedOperation)
    /\ Len(old) <= Len(new)
    /\ \A i \in 1..Len(old) : new[i] = old[i]
    /\ HistorySound(old, before) /\ HistorySound(new, after)
    /\ DecisionTable(after)
    /\ \A id \in DOMAIN before : id \in DOMAIN after /\ after[id] = before[id]
    /\ \A id \in DOMAIN after, i \in DOMAIN new :
          AcceptedAt(after[id], i) => after[id].decision = AcceptedFor(new[i])

\* Lengths and domains of the two logs.
LEMMA ContinuedLengths ==
  ASSUME NEW old, NEW before, NEW new, NEW after, Continued(old, before, new, after)
  PROVE  /\ Len(old) \in Nat /\ Len(new) \in Nat /\ Len(old) <= Len(new)
         /\ DOMAIN old = 1..Len(old) /\ DOMAIN new = 1..Len(new)
BY DEF Continued

\* Between two saves new entries belong to decisions made between them, and these to new
\* entries.
LEMMA ContinuedDecisions ==
  ASSUME NEW old, NEW before, NEW new, NEW after, Continued(old, before, new, after)
  PROVE  /\ \A i \in Len(old) + 1 .. Len(new) :
               /\ new[i].sequence = i
               /\ new[i].operationId \in DOMAIN after \ DOMAIN before
               /\ after[new[i].operationId].decision = AcceptedFor(new[i])
               /\ OriginOf(after[new[i].operationId].identity) = new[i].origin
         /\ \A id \in DOMAIN after \ DOMAIN before :
               \/ after[id].decision = RejectedFor(id)
               \/ \E i \in Len(old) + 1 .. Len(new) : new[i].operationId = id
<1>1. /\ Len(old) \in Nat /\ Len(new) \in Nat /\ Len(old) <= Len(new)
      /\ DOMAIN old = 1..Len(old) /\ DOMAIN new = 1..Len(new)
  BY ContinuedLengths
<1>2. /\ \A i \in 1..Len(old) : new[i] = old[i]
      /\ \A id \in DOMAIN before : id \in DOMAIN after /\ after[id] = before[id]
      /\ \A id \in DOMAIN after, i \in DOMAIN new :
            AcceptedAt(after[id], i) => after[id].decision = AcceptedFor(new[i])
  BY DEF Continued
<1>3. \A i \in DOMAIN new :
          /\ new[i].sequence = i
          /\ new[i].operationId \in DOMAIN after
          /\ AcceptedAt(after[new[i].operationId], i)
          /\ OriginOf(after[new[i].operationId].identity) = new[i].origin
  BY DEF Continued, HistorySound
<1>4. \A id \in DOMAIN after :
          /\ after[id].decision.operationId = id
          /\ after[id].decision.status = "accepted" =>
                \E i \in DOMAIN new : AcceptedAt(after[id], i) /\ new[i].operationId = id
  BY DEF Continued, HistorySound
<1>5. \A id \in DOMAIN before :
          before[id].decision.status = "accepted" =>
              \E i \in DOMAIN old : AcceptedAt(before[id], i) /\ old[i].operationId = id
  BY DEF Continued, HistorySound
<1>6. \A i \in DOMAIN old : old[i].operationId \in DOMAIN before
  BY DEF Continued, HistorySound
<1>7. ASSUME NEW i \in Len(old) + 1 .. Len(new)
      PROVE  /\ new[i].sequence = i
             /\ new[i].operationId \in DOMAIN after \ DOMAIN before
             /\ after[new[i].operationId].decision = AcceptedFor(new[i])
             /\ OriginOf(after[new[i].operationId].identity) = new[i].origin
  <2>1. i \in DOMAIN new /\ i \notin DOMAIN old
    BY <1>1
  <2>2. ASSUME new[i].operationId \in DOMAIN before
        PROVE  FALSE
    <3>1. AcceptedAt(before[new[i].operationId], i)
      BY <1>2, <1>3, <2>1, <2>2
    <3>2. PICK k \in DOMAIN old : AcceptedAt(before[new[i].operationId], k)
      BY <1>5, <2>2, <3>1 DEF AcceptedAt
    <3>. QED
      BY <2>1, <3>1, <3>2 DEF AcceptedAt
  <2>. QED
    BY <1>2, <1>3, <2>1, <2>2
<1>8. ASSUME NEW id \in DOMAIN after \ DOMAIN before
      PROVE  \/ after[id].decision = RejectedFor(id)
             \/ \E i \in Len(old) + 1 .. Len(new) : new[i].operationId = id
  <2>1. after[id].decision \in ProposalDecision
    BY DEF Continued, DecisionTable, StoredProposalDecision
  <2>2. CASE after[id].decision.status = "accepted"
    <3>1. PICK i \in DOMAIN new : new[i].operationId = id
      BY <1>4, <2>2
    <3>2. i \notin DOMAIN old
      BY <1>1, <1>2, <1>6, <3>1
    <3>3. i \in Len(old) + 1 .. Len(new)
      BY <1>1, <3>2
    <3>. QED
      BY <3>1, <3>3
  <2>3. CASE after[id].decision.status # "accepted"
    <3>1. after[id].decision \in RejectedDecision
      BY <2>1, <2>3 DEF ProposalDecision, AcceptedDecision
    <3>2. after[id].decision.operationId = id
      BY <1>4
    <3>. QED
      BY <3>1, <3>2 DEF RejectedDecision, RejectedFor
  <2>. QED
    BY <2>2, <2>3
<1>. QED
  BY <1>7, <1>8

\* The state applies the operations of the new entries.
LEMMA ContinuedState ==
  ASSUME NEW old, NEW before, NEW new, NEW after, Continued(old, before, new, after)
  PROVE  /\ SubSeq(new, 1, Len(old)) = old
         /\ OperationsOf(new) = OperationsOf(old) \o
               [k \in 1 .. Len(new) - Len(old) |-> new[Len(old) + k].operation]
<1>1. /\ Len(old) \in Nat /\ Len(new) \in Nat /\ Len(old) <= Len(new)
      /\ old \in Seq(CommittedOperation) /\ new \in Seq(CommittedOperation)
      /\ \A i \in 1..Len(old) : new[i] = old[i]
  BY ContinuedLengths DEF Continued
<1>2. PICK rest : rest = [k \in 1 .. Len(new) - Len(old) |-> new[Len(old) + k]]
  OBVIOUS
<1>3. Len(new) - Len(old) \in Nat
  BY <1>1
<1>4. \A k \in 1 .. Len(new) - Len(old) :
         Len(old) + k \in 1..Len(new) /\ new[Len(old) + k] \in CommittedOperation
  BY <1>1
<1>5. rest \in Seq(CommittedOperation) /\ Len(rest) = Len(new) - Len(old)
  <2>1. PICK n \in Nat : n = Len(new) - Len(old)
    BY <1>3
  <2>2. rest \in [1..n -> CommittedOperation]
    BY <1>2, <1>4, <2>1
  <2>. QED
    BY <2>1, <2>2
<1>6. PICK both : both = old \o rest
  OBVIOUS
<1>7. /\ both \in Seq(CommittedOperation)
      /\ Len(both) = Len(old) + Len(rest)
      /\ \A i \in 1..Len(old) : both[i] = old[i]
      /\ \A j \in 1..Len(rest) : both[Len(old) + j] = rest[j]
  BY <1>1, <1>5, <1>6, LogAfter
<1>8. ASSUME NEW i \in 1..Len(new)
      PROVE  both[i] = new[i]
  <2>1. CASE i \in 1..Len(old)
    BY <1>1, <1>7, <2>1
  <2>2. CASE i \notin 1..Len(old)
    <3>1. i - Len(old) \in 1..Len(rest) /\ Len(old) + (i - Len(old)) = i
      BY <1>1, <1>5, <2>2
    <3>. QED
      BY <1>2, <1>5, <1>7, <3>1
  <2>. QED
    BY <2>1, <2>2
<1>9. Len(both) = Len(new)
  BY <1>1, <1>5, <1>7
<1>10. both = new
  BY <1>1, <1>7, <1>8, <1>9, SeqEqual
<1>11. SubSeq(new, 1, Len(old)) = old
  <2>1. PICK s : s = SubSeq(new, 1, Len(old))
    OBVIOUS
  <2>2. /\ s \in Seq(CommittedOperation) /\ Len(s) = Len(old)
        /\ \A i \in 1..Len(old) : s[i] = new[i]
    BY <1>1, <2>1
  <2>. QED
    BY <1>1, <2>1, <2>2, SeqEqual
<1>12. OperationsOf(rest) =
          [k \in 1 .. Len(new) - Len(old) |-> new[Len(old) + k].operation]
  BY <1>2, <1>5 DEF OperationsOf
<1>13. OperationsOf(new) = OperationsOf(old) \o OperationsOf(rest)
  <2>1. OperationsOf(old \o rest) = OperationsOf(old) \o OperationsOf(rest)
    BY <1>1, <1>5, OperationsOfLonger
  <2>. QED
    BY <1>6, <1>10, <2>1
<1>. QED
  BY <1>11, <1>12, <1>13

\* A save is one step of the abstract log.
LEMMA SaveDecides ==
  ASSUME RestoreInv, Save, adapter = "atomic"
  PROVE  Abstract!Decide
<1>1. PICK old : old = disk.log
  OBVIOUS
<1>2. PICK new : new = server.log
  OBVIOUS
<1>3. PICK before : before = Restored(disk).decisions
  OBVIOUS
<1>4. PICK after : after = Restored(disk').decisions
  OBVIOUS
<1>5. /\ server # Down /\ adapter' = "atomic"
      /\ disk'.log = new /\ disk'.decisions = Records(server.decisions)
      /\ disk'.state = server.state
  BY <1>2 DEF Save, Snapshot
<1>6. /\ old \in Seq(CommittedOperation) /\ new \in Seq(CommittedOperation)
      /\ disk.decisions \in SUBSET StoredProposalDecision
      /\ HistorySound(new, server.decisions) /\ DecisionTable(server.decisions)
  BY <1>1, <1>2, <1>5 DEF RestoreInv, RestoreTypeOK, RunningHistorySound
<1>7. /\ Restorable(disk) /\ OperationsAgree(old, disk.decisions, disk.state)
      /\ Len(old) <= Len(new)
      /\ \A i \in DOMAIN old : new[i] = old[i]
      /\ \A record \in disk.decisions :
            /\ record.identity.operationId \in DOMAIN server.decisions
            /\ server.decisions[record.identity.operationId] = record
      /\ OperationsAgree(new, Records(server.decisions), server.state)
  BY <1>1, <1>2, <1>5 DEF RestoreInv, SavedSound, ServerContinues
<1>8. /\ RestoredTable(disk.decisions, before)
      /\ AssertContiguousLog(old) /\ DecisionsRestorable(disk.decisions)
      /\ HistoryRestorable(old, disk.decisions)
  BY <1>1, <1>3, <1>7, TableRestored DEF Restorable
<1>9. HistorySound(old, before)
  BY <1>6, <1>8, RestoredHistory
<1>10. RestoreInv'
  BY SaveKeeps
<1>11. /\ Restorable(disk')
       /\ Records(server.decisions) \in SUBSET StoredProposalDecision
  BY <1>5, <1>10 DEF RestoreInv, SavedSound, RestoreTypeOK
<1>12. /\ RestoredTable(Records(server.decisions), after)
       /\ AssertContiguousLog(new) /\ DecisionsRestorable(Records(server.decisions))
       /\ HistoryRestorable(new, Records(server.decisions))
  BY <1>4, <1>5, <1>11, TableRestored DEF Restorable
<1>13. HistorySound(new, after) /\ DecisionTable(after)
  BY <1>6, <1>11, <1>12, RestoredHistory
<1>14. ASSUME NEW id \in DOMAIN before
       PROVE  id \in DOMAIN after /\ after[id] = before[id]
  <2>1. before[id] \in disk.decisions /\ before[id].identity.operationId = id
    BY <1>8 DEF RestoredTable
  <2>2. before[id] \in Records(server.decisions)
    BY <1>7, <2>1 DEF Records
  <2>. QED
    BY <1>12, <2>1, <2>2 DEF RestoredTable
<1>15. \A id \in DOMAIN after, i \in DOMAIN new :
          AcceptedAt(after[id], i) => after[id].decision = AcceptedFor(new[i])
  BY <1>7, <1>12 DEF RestoredTable, OperationsAgree
<1>16. \A i \in 1..Len(old) : new[i] = old[i]
  BY <1>6, <1>7
<1>17. Continued(old, before, new, after)
  BY <1>6, <1>7, <1>9, <1>13, <1>14, <1>15, <1>16 DEF Continued
<1>18. /\ Durable(disk.log, <<>>) = old /\ Durable(disk.log, <<>>)' = new
       /\ Durable(Restored(disk).decisions, NoDecisions) = before
       /\ Durable(Restored(disk).decisions, NoDecisions)' = after
       /\ Durable(disk.state, <<>>) = OperationsOf(old)
       /\ Durable(disk.state, <<>>)' = OperationsOf(new)
  BY <1>1, <1>3, <1>4, <1>5, <1>7 DEF Durable, OperationsAgree
<1>19. Abstract!Kept
  BY <1>7, <1>14, <1>17, <1>18, ContinuedState DEF Abstract!Kept
<1>20. Abstract!EntriesDecided
  <2>1. \A i \in Len(old) + 1 .. Len(new) :
           /\ new[i].sequence = i
           /\ new[i].operationId \in DOMAIN after \ DOMAIN before
           /\ after[new[i].operationId].decision = AcceptedFor(new[i])
           /\ OriginOf(after[new[i].operationId].identity) = new[i].origin
    BY <1>17, ContinuedDecisions
  <2>. QED
    BY <1>18, <2>1 DEF Abstract!EntriesDecided, Abstract!AcceptedFor,
       Abstract!OriginOf, AcceptedFor, OriginOf
<1>21. Abstract!DecisionsLogged
  <2>1. \A id \in DOMAIN after \ DOMAIN before :
            \/ after[id].decision = RejectedFor(id)
            \/ \E i \in Len(old) + 1 .. Len(new) : new[i].operationId = id
    BY <1>17, ContinuedDecisions
  <2>2. \A id : Abstract!RejectedFor(id) = RejectedFor(id)
    BY DEF Abstract!RejectedFor, RejectedFor
  <2>. QED
    BY <1>18, <2>1, <2>2 DEF Abstract!DecisionsLogged
<1>22. Abstract!StateFollows
  BY <1>17, <1>18, ContinuedState DEF Abstract!StateFollows
<1>. QED
  BY <1>19, <1>20, <1>21, <1>22 DEF Abstract!Decide

\* What an atomic adapter stores is one log that only grows, with permanent decisions and the
\* state that follows it: each save is one step of it, and calls, crashes and restorations are
\* invisible (server.ts:91-92).
THEOREM RestoreRefines == Spec => ImplementsDurableLog
<1>1. Init => Abstract!Init
  <2> SUFFICES ASSUME Init PROVE Abstract!Init
    OBVIOUS
  <2>1. disk.log = <<>> /\ disk.decisions = {} /\ disk.state = <<>>
    <3>1. disk = [log |-> <<>>, decisions |-> {}, state |-> <<>>]
      BY DEF Init, Empty
    <3>. QED
      BY <3>1
  <2>2. Restored(disk).decisions = [id \in {} |-> {}]
    <3>1. Restored(disk).decisions = [id \in {} |->
              CHOOSE record \in {} : record.identity.operationId = id]
      BY <2>1 DEF Restored
    <3>. QED
      BY <3>1
  <2>3. /\ Durable(disk.log, <<>>) = <<>>
        /\ Durable(Restored(disk).decisions, NoDecisions) = [id \in {} |-> {}]
        /\ Durable(disk.state, <<>>) = <<>>
    BY <2>1, <2>2 DEF Durable, NoDecisions
  <2>. QED
    BY <2>3 DEF Abstract!Init
<1>2. ASSUME RestoreInv, [Next]_vars
      PROVE  [Abstract!Decide]_<<Durable(disk.log, <<>>),
                                 Durable(Restored(disk).decisions, NoDecisions),
                                 Durable(disk.state, <<>>)>>
  <2>1. CASE Save /\ adapter = "atomic"
    BY <1>2, <2>1, SaveDecides
  <2>2. CASE adapter' = adapter /\ adapter # "atomic"
    BY <2>2 DEF Durable
  <2>3. CASE adapter' = adapter /\ disk' = disk
    BY <2>3 DEF Durable
  <2>4. adapter' = adapter
    BY <1>2 DEF Next, vars, Synchronize, Save, SavePart, Corrupt, Crash, Restore
  <2>5. disk' = disk \/ Save \/ adapter # "atomic"
    BY <1>2 DEF Next, vars, Synchronize, SavePart, Corrupt, Crash, Restore
  <2>. QED
    BY <2>1, <2>2, <2>3, <2>4, <2>5
<1>. QED
  BY <1>1, <1>2, RestoreInductive, PTL DEF Spec, ImplementsDurableLog, Abstract!Spec
=============================================================================
