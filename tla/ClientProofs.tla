---------------------------- MODULE ClientProofs ----------------------------
(***************************************************************************)
(* ClientInv is an invariant of ClientRuntime, and what its promises and   *)
(* its view mean follows, for any number of tabs and calls and any options *)
(* of the client.                                                          *)
(***************************************************************************)
EXTENDS ClientProperties, SequenceTheorems, FiniteSetTheorems, TLAPS

(* Operators of the model. *)

\* Calls bound the operations, and these and the foreign entries the log.
LEMMA Numbers ==
  /\ Cardinality(Calls) \in Nat
  /\ MaxForeign \in Nat
  /\ Operation \subseteq Nat /\ IsFiniteSet(Operation)
  /\ Sequence \subseteq Nat
  /\ Calls \subseteq Nat /\ SessionOwner \notin Calls
<1>1. Cardinality(Calls) \in Nat /\ MaxForeign \in Nat
  BY FS_CardinalityType, CallsAssumption, RuntimeAssumption
<1>2. IsFiniteSet(1..Cardinality(Calls))
  BY <1>1, FS_Interval
<1>. QED
  BY <1>1, <1>2, CallsAssumption DEF Operation, Sequence, SessionOwner

\* The greater of two numbers.
LEMMA MaxOfTwo ==
  ASSUME NEW a \in Int, NEW b \in Int
  PROVE  /\ Max({a, b}) \in {a, b}
         /\ a <= Max({a, b}) /\ b <= Max({a, b})
<1>1. \E x \in {a, b} : \A y \in {a, b} : x >= y
  OBVIOUS
<1>2. /\ Max({a, b}) \in {a, b}
      /\ \A y \in {a, b} : Max({a, b}) >= y
  BY <1>1 DEF Max
<1>. QED
  BY <1>2

\* The smaller of two numbers.
LEMMA MinOfTwo ==
  ASSUME NEW a \in Int, NEW b \in Int
  PROVE  /\ Min({a, b}) \in {a, b}
         /\ Min({a, b}) <= a /\ Min({a, b}) <= b
<1>1. \E x \in {a, b} : \A y \in {a, b} : x <= y
  OBVIOUS
<1>2. /\ Min({a, b}) \in {a, b}
      /\ \A y \in {a, b} : Min({a, b}) <= y
  BY <1>1 DEF Min
<1>. QED
  BY <1>2

\* A page ends within the log, and moves on unless it starts at its end.
LEMMA PageOfLog ==
  ASSUME NEW base \in Nat, NEW head \in Nat, base <= head
  PROVE  /\ PageEnd(base, head) \in Nat
         /\ base <= PageEnd(base, head)
         /\ PageEnd(base, head) <= head
         /\ base < head => base < PageEnd(base, head)
<1>1. MaximumEntries \in Nat /\ MaximumEntries >= 1
  BY RuntimeAssumption
<1>2. PICK n \in Nat : n = base + MaximumEntries
  BY <1>1
<1>3. PICK m : m = Min({n, head})
  OBVIOUS
<1>4. m \in {n, head} /\ m <= n /\ m <= head
  BY <1>3, MinOfTwo
<1>. QED
  BY <1>1, <1>2, <1>3, <1>4 DEF PageEnd

Below(S, n) == {m \in S : m < n}

\* A set of numbers has a least one.
LEMMA Least ==
  ASSUME NEW S \in SUBSET Nat, IsFiniteSet(S), S # {}
  PROVE  \E n \in S : \A m \in S : ~ m < n
<1>1. PICK T : T = {Below(S, n) : n \in S}
  OBVIOUS
<1>2. T # {}
  BY <1>1
<1>3. ASSUME NEW U \in T PROVE U \in FiniteSubsetsOf(S)
  <2>1. U \in SUBSET S
    BY <1>1, <1>3 DEF Below
  <2>. QED
    BY <2>1, FS_FiniteSubsetsOfFinite
<1>4. IsWellFoundedOn(StrictSubsetOrdering(S), FiniteSubsetsOf(S))
  BY FS_StrictSubsetOrderingWellFounded
<1>5. PICK U \in T : \A V \in T : ~ (<<V, U>> \in StrictSubsetOrdering(S))
  BY <1>2, <1>3, <1>4, WFMin
<1>6. PICK n \in S : U = Below(S, n)
  BY <1>1
<1>7. ASSUME NEW m \in S, m < n PROVE FALSE
  <2>1. PICK V : V = Below(S, m)
    OBVIOUS
  <2>2. V \in T /\ m \in U
    BY <1>1, <1>6, <1>7, <2>1 DEF Below
  <2>3. m \notin V
    BY <2>1 DEF Below
  <2>4. ASSUME NEW k \in V PROVE k \in U
    <3>1. k \in S /\ k < m
      BY <2>1, <2>4 DEF Below
    <3>2. k < n
      BY <1>7, <3>1
    <3>. QED
      BY <1>6, <3>1, <3>2 DEF Below
  <2>5. U \in SUBSET S /\ V \in SUBSET S
    BY <1>6, <2>1 DEF Below
  <2>. QED
    BY <1>5, <2>2, <2>3, <2>4, <2>5 DEF StrictSubsetOrdering
<1>. QED
  BY <1>7

\* A request carries proposals of the outbox, and some if there are any.
LEMMA FirstOfPending ==
  ASSUME NEW rec \in RecordType
  PROVE  /\ FirstPending(rec) \subseteq rec.pending
         /\ FirstPending(rec) = {} => rec.pending = {}
<1>1. rec.pending \in SUBSET Nat /\ IsFiniteSet(rec.pending)
  BY Numbers, FS_Subset DEF RecordType
<1>2. ASSUME rec.pending # {} PROVE FirstPending(rec) # {}
  <2>1. PICK n \in rec.pending : \A m \in rec.pending : ~ m < n
    BY <1>1, <1>2, Least
  <2>2. {m \in rec.pending : m < n} = {}
    BY <2>1
  <2>3. Cardinality({m \in rec.pending : m < n}) < MaximumProposals
    BY <2>2, FS_EmptySet, RuntimeAssumption
  <2>. QED
    BY <2>1, <2>3 DEF FirstPending
<1>. QED
  BY <1>2 DEF FirstPending

\* The parts of a record.
LEMMA RecordParts ==
  ASSUME NEW rec \in RecordType
  PROVE  /\ rec.next \in Nat /\ rec.next >= 1 /\ rec.confirmed \in Nat
         /\ rec.pending \subseteq Nat
         /\ Unsettled(rec) \subseteq Nat
         /\ rec.pending \subseteq Unsettled(rec)
         /\ \A receipt \in rec.awaiting : receipt.sequence \in Nat
         /\ rec # Unread
<1>1. rec.next \in 1..Cardinality(Calls) + 1 /\ rec.confirmed \in Sequence
  BY DEF RecordType
<1>2. rec.next \in Nat /\ rec.next >= 1 /\ rec.confirmed \in Nat
  <2>1. Cardinality(Calls) \in Nat /\ Sequence \subseteq Nat
    BY Numbers
  <2>2. rec.confirmed \in Nat
    BY <1>1, <2>1
  <2>. QED
    BY <1>1, <2>1, <2>2
<1>3. /\ rec.pending \subseteq Operation
      /\ \A receipt \in rec.awaiting :
            receipt.op \in Operation /\ receipt.sequence \in Sequence
  BY DEF RecordType
<1>4. rec # Unread
  BY <1>2 DEF Unread
<1>. QED
  BY <1>2, <1>3, <1>4, Numbers DEF Unsettled

\* Older is an order on records.
LEMMA OlderOrders ==
  ASSUME NEW a \in RecordType, NEW b \in RecordType, NEW c \in RecordType,
         Older(a, b), Older(b, c)
  PROVE  Older(a, a) /\ Older(a, c)
<1>1. /\ a.next \in Nat /\ b.next \in Nat /\ c.next \in Nat
      /\ a.confirmed \in Nat /\ b.confirmed \in Nat /\ c.confirmed \in Nat
  BY RecordParts
<1>2. Unsettled(c) \subseteq Nat
  BY RecordParts
<1>3. Older(a, a)
  BY <1>1 DEF Older
<1>4. a.next <= c.next /\ a.confirmed <= c.confirmed
  BY <1>1 DEF Older
<1>5. ASSUME NEW op \in Unsettled(c), op < a.next PROVE op \in Unsettled(a)
  <2>1. op < b.next
    BY <1>1, <1>2, <1>5 DEF Older
  <2>. QED
    BY <1>5, <2>1 DEF Older
<1>. QED
  BY <1>3, <1>4, <1>5 DEF Older

\* The queue without its first refresh.
LEMMA QueueTail ==
  ASSUME NEW R, NEW q \in Seq(R), 1 \in DOMAIN q, NEW rest,
         rest = RemoveAt(q, 1)
  PROVE  /\ rest \in Seq(R)
         /\ Len(rest) = Len(q) - 1
         /\ \A i \in DOMAIN rest : i + 1 \in DOMAIN q /\ rest[i] = q[i + 1]
<1>1. Len(q) \in Nat /\ DOMAIN q = 1..Len(q) /\ Len(q) >= 1
  OBVIOUS
<1>2. PICK left : left = SubSeq(q, 1, 0)
  OBVIOUS
<1>3. PICK right : right = SubSeq(q, 2, Len(q))
  OBVIOUS
<1>4. left \in Seq(R) /\ Len(left) = 0
  BY <1>1, <1>2, SubSeqProperties
<1>5. /\ right \in Seq(R) /\ Len(right) = Len(q) - 1
      /\ \A i \in 1..Len(right) : right[i] = q[i + 1]
  BY <1>1, <1>3, SubSeqProperties
<1>6. rest = left \o right
  BY <1>2, <1>3 DEF RemoveAt
<1>7. /\ rest \in Seq(R) /\ Len(rest) = Len(right)
      /\ \A i \in 1..Len(right) : rest[i] = right[i]
  <2>1. left \in Seq(R) /\ right \in Seq(R) /\ Len(right) \in Nat
    BY <1>4, <1>5
  <2>2. PICK both : both = left \o right
    OBVIOUS
  <2>3. /\ both \in Seq(R) /\ Len(both) = Len(left) + Len(right)
        /\ \A i \in 1..Len(left) + Len(right) :
               both[i] = IF i <= Len(left) THEN left[i]
                                           ELSE right[i - Len(left)]
    BY <2>1, <2>2, ConcatProperties
  <2>4. /\ Len(both) = Len(right)
        /\ \A i \in 1..Len(right) : both[i] = right[i]
    BY <1>4, <2>1, <2>3
  <2>. QED
    BY <1>6, <2>2, <2>3, <2>4
<1>8. ASSUME NEW i \in DOMAIN rest
      PROVE  i + 1 \in DOMAIN q /\ rest[i] = q[i + 1]
  <2>1. i \in 1..Len(right) /\ Len(right) = Len(q) - 1
    BY <1>5, <1>7, <1>8
  <2>2. i + 1 \in DOMAIN q
    BY <1>1, <2>1
  <2>. QED
    BY <1>5, <1>7, <2>1, <2>2
<1>. QED
  BY <1>5, <1>7, <1>8

\* A session by where it stands.
LEMMA SessionParts ==
  ASSUME NEW s \in SessionType
  PROVE  /\ s.pc \in {"none", "prepare", "exchange", "merge", "refresh",
                    "backoff", "loop", "settling"}
         /\ s.pc \in {"prepare", "exchange", "merge", "refresh"} =>
                s.attempt \in Attempt /\ s.round \in Round
         /\ s.pc = "exchange" =>
                /\ s.base \in Sequence /\ s.proposals \in SUBSET Operation
                /\ s.basis \in RecordType
         /\ s.pc \in {"merge", "refresh"} => s \in AnswerType
         /\ s.pc = "backoff" => s.attempt \in 1..MaximumAttempts - 1
         /\ s.pc = "settling" => s = Settled(s.outcome)
BY DEF SessionType, AnswerType, Settled

\* A decided operation has a position or none.
LEMMA DecisionParts ==
  ASSUME NEW d \in Decisions
  PROVE  /\ DOMAIN d \subseteq Operation
         /\ \A op \in DOMAIN d : d[op] \in Sequence
         /\ d \in [DOMAIN d -> Sequence]
BY DEF Decisions

(* What the steps of the other tabs leave alone. *)

PhaseOf(tab) ==
    /\ (view[tab].phase = "syncing") = InSession(tab)
    /\ (view[tab].phase = "closed") = closed[tab].store
    /\ session[tab].pc = "backoff" => view[tab].phase = "error"
    /\ session[tab].pc = "loop" => view[tab].phase = "idle"

TabInv(tab) ==
    /\ PhaseOf(tab)
    /\ SessionSound(tab)
    /\ ClosedSound(tab)
    /\ ViewSound(tab)
    /\ PassSound(tab)

CallInv(call) ==
    /\ CallSound(call)
    /\ calls[call].status = "resolved" /\ calls[call].kind = "enqueue" =>
           calls[call].op < view[calls[call].tab].snapshot.next
    /\ calls[call].status = "resolved" /\ calls[call].kind = "sync" =>
           calls[call].late \/ CaughtUp(calls[call])

\* ClientInv, ReadYourWrites and SyncDrains, tab by tab and call by call.
Inv ==
    /\ ClientTypeOK
    /\ RecordSound
    /\ \A tab \in Tabs : TabInv(tab)
    /\ \A call \in Calls : CallInv(call)

\* Decisions stay, and a new one has its position after the head, or none.
LogGrows ==
    /\ authority.head <= authority'.head
    /\ DOMAIN authority.decided \subseteq DOMAIN authority'.decided
    /\ \A op \in DOMAIN authority.decided :
           authority'.decided[op] = authority.decided[op]
    /\ \A op \in DOMAIN authority'.decided \ DOMAIN authority.decided :
           \/ authority'.decided[op] = Rejected
           \/ authority.head < authority'.decided[op]

\* A step takes the record and the log forward.
Advance ==
    /\ Older(record, record')
    /\ \A op \in record'.pending : op < record.next => op \in record.pending
    /\ LogGrows

\* The types of the variables, one by one.
LEMMA Types ==
  ASSUME ClientTypeOK
  PROVE  /\ record \in RecordType
         /\ authority.head \in Nat /\ authority.decided \in Decisions
         /\ \A tab \in Tabs :
                /\ closed[tab] \in [client : BOOLEAN, store : BOOLEAN]
                /\ requested[tab] \in BOOLEAN
                /\ session[tab] \in SessionType
                /\ view[tab] \in ViewType
                /\ view[tab].snapshot \in RecordType
                /\ view[tab].queue \in Seq(RefreshType)
         /\ \A call \in Calls : calls[call] \in CallType
<1>1. authority.head \in Sequence /\ authority.decided \in Decisions
  BY DEF ClientTypeOK
<1>. QED
  BY <1>1, Numbers DEF ClientTypeOK, ViewType

\* The same after a step.
LEMMA TypesAfter ==
  ASSUME ClientTypeOK'
  PROVE  /\ record' \in RecordType
         /\ authority'.head \in Nat /\ authority'.decided \in Decisions
         /\ \A tab \in Tabs :
                /\ closed'[tab] \in [client : BOOLEAN, store : BOOLEAN]
                /\ requested'[tab] \in BOOLEAN
                /\ session'[tab] \in SessionType
                /\ view'[tab] \in ViewType
                /\ view'[tab].snapshot \in RecordType
                /\ view'[tab].queue \in Seq(RefreshType)
         /\ \A call \in Calls : calls'[call] \in CallType
<1>1. authority'.head \in Sequence /\ authority'.decided \in Decisions
  BY DEF ClientTypeOK
<1>. QED
  BY <1>1, Numbers DEF ClientTypeOK, ViewType

\* What was read at some time stays so.
LEMMA PastStays ==
  ASSUME ClientTypeOK, ClientTypeOK', Advance,
         NEW rec \in RecordType, Past(rec)
  PROVE  Past(rec)'
<1>1. record \in RecordType /\ record' \in RecordType
      /\ authority.head \in Nat /\ authority'.head \in Nat
  BY Types, TypesAfter
<1>2. Older(rec, record)'
  BY <1>1, OlderOrders DEF Past, Advance, Older
<1>3. Known(rec)'
  BY <1>1, RecordParts DEF Past, Known, Advance, LogGrows
<1>. QED
  BY <1>2, <1>3 DEF Past

\* The entries of a page that was read stay those of the log.
LEMMA PageStays ==
  ASSUME ClientTypeOK, ClientTypeOK', LogGrows, NEW base \in Nat,
         NEW through \in Nat, through <= authority.head
  PROVE  PageEntries(authority'.decided, base, through)
             = PageEntries(authority.decided, base, through)
<1>1. PICK d \in Decisions, e \in Decisions, head \in Nat :
          d = authority.decided /\ e = authority'.decided /\ head = authority.head
  BY Types, TypesAfter
<1>2. /\ \A op \in DOMAIN d : d[op] \in Nat
      /\ \A op \in DOMAIN e : e[op] \in Nat
  BY <1>1, DecisionParts, Numbers
<1>3. /\ \A op \in DOMAIN d : op \in DOMAIN e /\ e[op] = d[op]
      /\ \A op \in DOMAIN e \ DOMAIN d : e[op] = Rejected \/ head < e[op]
      /\ through <= head
  BY <1>1 DEF LogGrows
<1>4. ASSUME NEW op \in DOMAIN e, base < e[op], e[op] <= through
      PROVE  op \in DOMAIN d
  BY <1>1, <1>2, <1>3, <1>4 DEF Rejected
<1>5. PageEntries(e, base, through) = PageEntries(d, base, through)
  BY <1>3, <1>4 DEF PageEntries
<1>. QED
  BY <1>1, <1>5

\* An answer stays an answer.
LEMMA AnswerStays ==
  ASSUME ClientTypeOK, ClientTypeOK', Advance,
         NEW answer \in AnswerType, AnswerSound(answer)
  PROVE  AnswerSound(answer)'
<1>1. authority.head \in Nat /\ authority'.head \in Nat
      /\ authority.head <= authority'.head /\ LogGrows
  BY Types, TypesAfter DEF Advance, LogGrows
<1>2. answer.basis \in RecordType /\ answer.head \in Nat
      /\ answer.basis.confirmed \in Nat /\ answer.through \in Nat
  BY Numbers, RecordParts DEF AnswerType
<1>3. Past(answer.basis)'
  BY <1>2, PastStays DEF AnswerSound
<1>4. answer.through <= authority.head
  <2>1. PICK base, head, through \in Nat :
            /\ base = answer.basis.confirmed /\ head = answer.head
            /\ through = answer.through
    BY <1>2
  <2>2. base <= head /\ head <= authority.head /\ through = PageEnd(base, head)
    BY <2>1 DEF AnswerSound
  <2>3. through <= head
    BY <2>1, <2>2, PageOfLog
  <2>. QED
    BY <1>1, <2>1, <2>2, <2>3
<1>5. answer.entries
          = PageEntries(authority'.decided, answer.basis.confirmed, answer.through)
  BY <1>1, <1>2, <1>4, PageStays DEF AnswerSound
<1>. QED
  BY <1>1, <1>2, <1>3, <1>5 DEF AnswerSound

\* The proposals of an answer were numbered before the present.
LEMMA AnswerNumbered ==
  ASSUME ClientTypeOK, NEW answer \in AnswerType, AnswerSound(answer)
  PROVE  \A op \in DOMAIN answer.decisions : op \in Nat /\ op < record.next
<1>1. /\ answer.basis \in RecordType /\ record \in RecordType
      /\ Past(answer.basis)
  BY Types DEF AnswerType, AnswerSound
<1>2. /\ answer.basis.next \in Nat /\ record.next \in Nat
      /\ answer.basis.pending \subseteq Unsettled(answer.basis)
      /\ Unsettled(answer.basis) \subseteq 1..answer.basis.next - 1
      /\ answer.basis.next <= record.next
  BY <1>1, RecordParts DEF Past, Known, Older
<1>3. DOMAIN answer.decisions \subseteq answer.basis.pending
  BY <1>1, FirstOfPending DEF AnswerSound
<1>. QED
  BY <1>2, <1>3

\* An answer stays taken in.
LEMMA TakenStays ==
  ASSUME ClientTypeOK, ClientTypeOK', Advance,
         NEW answer \in AnswerType, AnswerSound(answer), Taken(answer, record)
  PROVE  Taken(answer, record')
<1>1. /\ record \in RecordType /\ record' \in RecordType
      /\ record.confirmed \in Nat /\ record'.confirmed \in Nat
      /\ answer.through \in Nat
  BY Types, TypesAfter, RecordParts, Numbers DEF AnswerType
<1>2. answer.through <= record'.confirmed
  BY <1>1 DEF Advance, Older, Taken
<1>3. ASSUME NEW op \in record'.pending, op \in DOMAIN answer.decisions
      PROVE  FALSE
  BY <1>3, AnswerNumbered DEF Advance, Taken
<1>. QED
  BY <1>2, <1>3 DEF Taken

\* What a session stands on stays.
LEMMA SessionStays ==
  ASSUME ClientTypeOK, ClientTypeOK', Advance,
         NEW tab \in Tabs, SessionSound(tab), session'[tab] = session[tab]
  PROVE  SessionSound(tab)'
<1>1. PICK s \in SessionType : s = session[tab] /\ s = session'[tab]
  BY Types
<1>2. s.pc = "exchange" => Past(s.basis)'
  <2>1. s.pc = "exchange" => s.basis \in RecordType /\ Past(s.basis)
    BY <1>1, SessionParts DEF SessionSound
  <2>. QED
    BY <2>1, PastStays
<1>3. s.pc \in {"merge", "refresh"} => AnswerSound(s)'
  <2>1. s.pc \in {"merge", "refresh"} => s \in AnswerType /\ AnswerSound(s)
    BY <1>1, SessionParts DEF SessionSound
  <2>. QED
    BY <2>1, AnswerStays
<1>4. s.pc = "refresh" => Taken(s, record')
  <2>1. s.pc = "refresh" =>
            s \in AnswerType /\ AnswerSound(s) /\ Taken(s, record)
    BY <1>1, SessionParts DEF SessionSound
  <2>. QED
    BY <2>1, TakenStays
<1>5. s.pc = "exchange" => /\ s.base = s.basis.confirmed
                           /\ s.proposals = FirstPending(s.basis)
  BY <1>1 DEF SessionSound
<1>. QED
  BY <1>1, <1>2, <1>3, <1>4, <1>5 DEF SessionSound, Taken

\* A refresh stays sound while its owner waits for it.
LEMMA RefreshStays ==
  ASSUME ClientTypeOK, ClientTypeOK', Advance, NEW tab \in Tabs,
         NEW refresh \in RefreshType, RefreshSound(tab, refresh),
         refresh.snapshot # Unread => view'[tab].snapshot = view[tab].snapshot,
         refresh.owner = SessionOwner => session'[tab] = session[tab],
         refresh.owner # SessionOwner =>
             calls'[refresh.owner] = calls[refresh.owner]
  PROVE  RefreshSound(tab, refresh)'
<1>1. refresh.snapshot # Unread => Past(refresh.snapshot)'
  <2>1. refresh.snapshot # Unread =>
            refresh.snapshot \in RecordType /\ Past(refresh.snapshot)
    BY DEF RefreshType, RefreshSound
  <2>. QED
    BY <2>1, PastStays
<1>. QED
  BY <1>1 DEF RefreshSound, Older, Taken

\* The entries of a queue have their type.
LEMMA QueueParts ==
  ASSUME ClientTypeOK, NEW tab \in Tabs
  PROVE  /\ view[tab].queue \in Seq(RefreshType)
         /\ DOMAIN view[tab].queue = 1..Len(view[tab].queue)
         /\ Len(view[tab].queue) \in Nat
         /\ \A i \in DOMAIN view[tab].queue :
                view[tab].queue[i] \in RefreshType
<1>1. PICK q \in Seq(RefreshType) : q = view[tab].queue
  BY Types
<1>2. DOMAIN q = 1..Len(q) /\ Len(q) \in Nat
  OBVIOUS
<1>3. \A i \in 1..Len(q) : q[i] \in RefreshType
  BY ElementOfSeq
<1>. QED
  BY <1>1, <1>2, <1>3

\* The owners in a queue go on waiting, but for some of them.
WaitFor(tab, q) ==
    \A i \in DOMAIN q :
        /\ q[i].owner = SessionOwner => session'[tab] = session[tab]
        /\ q[i].owner # SessionOwner => calls'[q[i].owner] = calls[q[i].owner]

\* What a view has to show stays, and who waits for it.
LEMMA ViewStays ==
  ASSUME ClientTypeOK, ClientTypeOK', Advance,
         NEW tab \in Tabs, ViewSound(tab),
         view'[tab].queue = view[tab].queue,
         view'[tab].snapshot = view[tab].snapshot,
         WaitFor(tab, view[tab].queue)
  PROVE  ViewSound(tab)'
<1>1. Past(view[tab].snapshot)'
  <2>1. PICK rec \in RecordType : rec = view[tab].snapshot
    BY Types
  <2>2. Past(rec)'
    BY <2>1, PastStays DEF ViewSound
  <2>. QED
    BY <2>1, <2>2
<1>2. PICK q : q = view[tab].queue /\ q = view'[tab].queue
  OBVIOUS
<1>3. ASSUME NEW i \in DOMAIN q
      PROVE  RefreshSound(tab, q[i])'
  <2>1. PICK refresh : refresh = q[i]
    OBVIOUS
  <2>2. refresh \in RefreshType
    BY <1>2, <1>3, <2>1, QueueParts
  <2>3. RefreshSound(tab, refresh)
    BY <1>2, <1>3, <2>1 DEF ViewSound
  <2>4. /\ refresh.owner = SessionOwner => session'[tab] = session[tab]
        /\ refresh.owner # SessionOwner =>
               calls'[refresh.owner] = calls[refresh.owner]
    BY <1>2, <1>3, <2>1 DEF WaitFor
  <2>5. RefreshSound(tab, refresh)'
    BY <2>2, <2>3, <2>4, RefreshStays
  <2>. QED
    BY <2>1, <2>5
<1>. QED
  BY <1>1, <1>2, <1>3 DEF ViewSound

\* A queue gets another refresh, of an owner that has none yet.
LEMMA ViewAppends ==
  ASSUME ClientTypeOK, ClientTypeOK', Advance,
         NEW tab \in Tabs, ViewSound(tab),
         NEW owner \in Calls \cup {SessionOwner},
         view'[tab].queue =
             Append(view[tab].queue, [owner |-> owner, snapshot |-> Unread]),
         view'[tab].snapshot = view[tab].snapshot,
         WaitFor(tab, view[tab].queue),
         \A i \in DOMAIN view[tab].queue : view[tab].queue[i].owner # owner,
         owner = SessionOwner => session'[tab].pc = "refresh",
         owner # SessionOwner => /\ calls'[owner].status = "refreshing"
                                 /\ calls'[owner].tab = tab
  PROVE  ViewSound(tab)'
<1>1. Past(view[tab].snapshot)'
  <2>1. PICK rec \in RecordType : rec = view[tab].snapshot
    BY Types
  <2>2. Past(rec)'
    BY <2>1, PastStays DEF ViewSound
  <2>. QED
    BY <2>1, <2>2
<1>2. PICK q : q = view[tab].queue
  OBVIOUS
<1>3. PICK new : new = [owner |-> owner, snapshot |-> Unread]
  OBVIOUS
<1>4. PICK next : next = view'[tab].queue
  OBVIOUS
<1>5. PICK n : n = Len(q)
  OBVIOUS
<1>6. new \in RefreshType /\ new.owner = owner /\ new.snapshot = Unread
  BY <1>3 DEF RefreshType
<1>7. q \in Seq(RefreshType) /\ n \in Nat /\ DOMAIN q = 1..n
  BY <1>2, <1>5, QueueParts
<1>8. next = Append(q, new)
  BY <1>2, <1>3, <1>4
<1>9. /\ DOMAIN next = 1..n + 1
      /\ \A i \in 1..n : next[i] = q[i]
      /\ next[n + 1] = new
  BY <1>5, <1>6, <1>7, <1>8, AppendProperties
<1>10. ASSUME NEW i \in 1..n
       PROVE  RefreshSound(tab, q[i])'
  <2>1. PICK refresh : refresh = q[i]
    OBVIOUS
  <2>2. refresh \in RefreshType
    BY <1>2, <1>7, <1>10, <2>1, QueueParts
  <2>3. RefreshSound(tab, refresh)
    BY <1>2, <1>7, <1>10, <2>1 DEF ViewSound
  <2>4. /\ refresh.owner = SessionOwner => session'[tab] = session[tab]
        /\ refresh.owner # SessionOwner =>
               calls'[refresh.owner] = calls[refresh.owner]
    BY <1>2, <1>7, <1>10, <2>1 DEF WaitFor
  <2>5. RefreshSound(tab, refresh)'
    BY <2>2, <2>3, <2>4, RefreshStays
  <2>. QED
    BY <2>1, <2>5
<1>11. RefreshSound(tab, new)'
  BY <1>6 DEF RefreshSound
<1>12. \A i \in 1..n : /\ q[i].owner # owner
                       /\ q[i].snapshot # Unread => i = 1
                       /\ \A j \in 1..n : q[i].owner = q[j].owner => i = j
  BY <1>2, <1>7 DEF ViewSound
<1>13. ASSUME NEW i \in 1..n + 1, NEW j \in 1..n + 1
       PROVE  /\ RefreshSound(tab, next[i])'
              /\ next[i].snapshot # Unread => i = 1
              /\ next[i].owner = next[j].owner => i = j
  <2>1. i \in 1..n \/ i = n + 1
    BY <1>7
  <2>2. j \in 1..n \/ j = n + 1
    BY <1>7
  <2>3. RefreshSound(tab, next[i])'
    BY <1>9, <1>10, <1>11, <2>1
  <2>4. next[i].snapshot # Unread => i = 1
    BY <1>6, <1>9, <1>12, <2>1
  <2>5. next[i].owner = next[j].owner => i = j
    BY <1>6, <1>9, <1>12, <2>1, <2>2
  <2>. QED
    BY <2>3, <2>4, <2>5
<1>. QED
  BY <1>1, <1>4, <1>9, <1>13 DEF ViewSound

\* The first refresh has been served, and its owner waits no longer.
LEMMA ViewServes ==
  ASSUME ClientTypeOK, ClientTypeOK', Advance,
         NEW tab \in Tabs, ViewSound(tab), 1 \in DOMAIN view[tab].queue,
         view'[tab].queue = RemoveAt(view[tab].queue, 1),
         view'[tab].snapshot \in {view[tab].snapshot, view[tab].queue[1].snapshot},
         view'[tab].snapshot # Unread,
         WaitFor(tab, RemoveAt(view[tab].queue, 1))
  PROVE  ViewSound(tab)'
<1>1. PICK q : q = view[tab].queue
  OBVIOUS
<1>2. PICK next : next = view'[tab].queue
  OBVIOUS
<1>3. q \in Seq(RefreshType) /\ 1 \in DOMAIN q /\ next = RemoveAt(q, 1)
  BY <1>1, <1>2, QueueParts
<1>4. /\ next \in Seq(RefreshType)
      /\ \A i \in DOMAIN next : i + 1 \in DOMAIN q /\ next[i] = q[i + 1]
  BY <1>3, QueueTail
<1>5. \A i \in DOMAIN next : i \in Nat /\ i >= 1
  BY <1>4
<1>6. \A i, j \in DOMAIN q : /\ RefreshSound(tab, q[i])
                             /\ q[i].snapshot # Unread => i = 1
                             /\ q[i].owner = q[j].owner => i = j
  BY <1>1 DEF ViewSound
<1>7. Past(view[tab].snapshot)'
  <2>1. PICK rec : rec = view'[tab].snapshot
    OBVIOUS
  <2>2. CASE rec = view[tab].snapshot
    BY <2>1, <2>2, Types, PastStays DEF ViewSound
  <2>3. CASE rec = q[1].snapshot
    <3>1. q[1] \in RefreshType /\ RefreshSound(tab, q[1])
      BY <1>1, <1>3, <1>6, QueueParts
    <3>2. rec \in RecordType /\ Past(rec)
      BY <2>1, <2>3, <3>1 DEF RefreshSound, RefreshType
    <3>3. Past(rec)'
      BY <3>2, PastStays
    <3>. QED
      BY <2>1, <3>3
  <2>. QED
    BY <1>1, <2>1, <2>2, <2>3
<1>8. ASSUME NEW i \in DOMAIN next
      PROVE  RefreshSound(tab, next[i])' /\ next[i].snapshot = Unread
  <2>1. PICK refresh : refresh = next[i]
    OBVIOUS
  <2>2. refresh \in RefreshType
    BY <1>1, <1>4, <1>8, <2>1, QueueParts
  <2>3. refresh.snapshot = Unread /\ RefreshSound(tab, refresh)
    BY <1>4, <1>5, <1>6, <1>8, <2>1
  <2>4. /\ refresh.owner = SessionOwner => session'[tab] = session[tab]
        /\ refresh.owner # SessionOwner =>
               calls'[refresh.owner] = calls[refresh.owner]
    BY <1>1, <1>3, <1>8, <2>1 DEF WaitFor
  <2>5. RefreshSound(tab, refresh)'
    BY <2>2, <2>3, <2>4, RefreshStays
  <2>. QED
    BY <2>1, <2>3, <2>5
<1>9. ASSUME NEW i \in DOMAIN next, NEW j \in DOMAIN next,
             next[i].owner = next[j].owner
      PROVE  i = j
  <2>1. i + 1 = j + 1
    BY <1>4, <1>6, <1>9
  <2>. QED
    BY <1>5, <2>1
<1>. QED
  BY <1>2, <1>7, <1>8, <1>9 DEF ViewSound

\* What is settled stays settled.
LEMMA CaughtUpStays ==
  ASSUME ClientTypeOK, ClientTypeOK', Advance, NEW call \in SyncType,
         call.owed \subseteq 1..record.next - 1, CaughtUp(call)
  PROVE  CaughtUp(call)'
<1>1. /\ record.next \in Nat /\ record.confirmed \in Nat
      /\ record'.confirmed \in Nat
      /\ call.head \in Nat
  BY Types, TypesAfter, RecordParts, Numbers DEF SyncType
<1>2. record'.confirmed >= call.head
  BY <1>1 DEF CaughtUp, Advance, Older
<1>3. ASSUME NEW op \in Unsettled(record'), op \in call.owed PROVE FALSE
  <2>1. op < record.next
    BY <1>1, <1>3
  <2>. QED
    BY <1>3, <2>1 DEF CaughtUp, Advance, Older
<1>. QED
  BY <1>2, <1>3 DEF CaughtUp

\* A request that waits has its type.
LEMMA SyncParts ==
  ASSUME ClientTypeOK, NEW call \in Calls, Made(call),
         calls[call].kind = "sync"
  PROVE  calls[call] \in SyncType
BY Types DEF CallType, SyncType, WriteType, Writes, Made

\* A pass goes on, or a request comes that it does not serve.
PassFollows(tab) ==
    /\ ~ requested'[tab] => ~ requested[tab]
    /\ session'[tab].pc \in {"merge", "refresh"} =>
           /\ session[tab].pc \in {"merge", "refresh"}
           /\ session'[tab].head = session[tab].head
    /\ session'[tab].pc = "loop" => session[tab].pc = "loop"
    /\ session'[tab] = Settled("resolved") => session[tab] = Settled("resolved")
    /\ \A i \in DOMAIN view'[tab].queue :
           /\ view'[tab].queue[i].owner = SessionOwner
           /\ view'[tab].queue[i].snapshot # Unread
           => \E j \in DOMAIN view[tab].queue :
                  view[tab].queue[j] = view'[tab].queue[i]
    /\ \A call \in Waiting(tab, "sync")' :
           \/ call \in Waiting(tab, "sync") /\ calls'[call] = calls[call]
           \/ /\ requested'[tab]
              /\ session'[tab] = Settled("resolved") => calls'[call].late

\* What a pass has done for its requests stays done.
LEMMA PassStays ==
  ASSUME ClientTypeOK, ClientTypeOK', Advance, \A call \in Calls : CallSound(call),
         NEW tab \in Tabs, PassSound(tab), PassFollows(tab)
  PROVE  PassSound(tab)'
<1>1. SUFFICES ASSUME NEW call \in Waiting(tab, "sync")'
      PROVE  /\ ~ requested'[tab] =>
                    /\ session'[tab].pc \in {"merge", "refresh"} =>
                           calls'[call].head <= session'[tab].head
                    /\ \A i \in DOMAIN view'[tab].queue :
                           /\ view'[tab].queue[i].owner = SessionOwner
                           /\ view'[tab].queue[i].snapshot # Unread
                           => \A op \in calls'[call].owed :
                                  op < view'[tab].queue[i].snapshot.next
                    /\ session'[tab].pc = "loop" => CaughtUp(calls[call])'
             /\ session'[tab] = Settled("resolved") =>
                    calls'[call].late \/ CaughtUp(calls[call])'
  BY DEF PassSound
<1>2. CASE call \in Waiting(tab, "sync") /\ calls'[call] = calls[call]
  <2>1. call \in Calls /\ Made(call) /\ calls[call].kind = "sync"
    BY <1>2 DEF Waiting, Made
  <2>2. PICK c : c = calls[call] /\ c = calls'[call]
    BY <1>2
  <2>3. CaughtUp(c) => CaughtUp(c)'
    <3>1. c \in SyncType /\ c.owed \subseteq 1..record.next - 1
      BY <2>1, <2>2, SyncParts DEF CallSound
    <3>. QED
      BY <3>1, CaughtUpStays
  <2>4. CaughtUp(c)' = CaughtUp(calls[call])'
    BY <2>2 DEF CaughtUp
  <2>5. ~ requested'[tab] =>
            /\ session'[tab].pc \in {"merge", "refresh"} =>
                   c.head <= session'[tab].head
            /\ session'[tab].pc = "loop" => CaughtUp(c)
    BY <1>2, <2>2 DEF PassSound, PassFollows
  <2>6. session'[tab] = Settled("resolved") => c.late \/ CaughtUp(c)
    BY <1>2, <2>2 DEF PassSound, PassFollows
  <2>7. ASSUME ~ requested'[tab], NEW i \in DOMAIN view'[tab].queue,
               view'[tab].queue[i].owner = SessionOwner,
               view'[tab].queue[i].snapshot # Unread
        PROVE  \A op \in c.owed : op < view'[tab].queue[i].snapshot.next
    <3>1. PICK j \in DOMAIN view[tab].queue :
              view[tab].queue[j] = view'[tab].queue[i]
      BY <2>7 DEF PassFollows
    <3>. QED
      BY <1>2, <2>2, <2>7, <3>1 DEF PassSound, PassFollows
  <2>. QED
    BY <2>2, <2>3, <2>4, <2>5, <2>6, <2>7
<1>3. CASE ~ (call \in Waiting(tab, "sync") /\ calls'[call] = calls[call])
  BY <1>1, <1>3 DEF PassFollows
<1>. QED
  BY <1>2, <1>3

\* A tab that does not move keeps its part of the invariant.
LEMMA TabStays ==
  ASSUME Inv, ClientTypeOK', Advance, NEW tab \in Tabs,
         session'[tab] = session[tab], view'[tab] = view[tab],
         requested'[tab] = requested[tab], closed'[tab] = closed[tab],
         \A call \in Calls :
             \/ calls'[call] = calls[call]
             \/ /\ Made(call) => calls[call].tab # tab
                /\ Made(call)' => calls'[call].tab # tab
  PROVE  TabInv(tab)'
<1>1. PhaseOf(tab)' /\ ClosedSound(tab)'
  BY DEF Inv, TabInv, PhaseOf, InSession, ClosedSound
<1>2. SessionSound(tab)'
  BY SessionStays DEF Inv, TabInv
<1>3. ViewSound(tab)'
  <2>1. ViewSound(tab) /\ ClientTypeOK
    BY DEF Inv, TabInv
  <2>2. \A i \in DOMAIN view[tab].queue :
            view[tab].queue[i] \in RefreshType
            /\ RefreshSound(tab, view[tab].queue[i])
    BY <2>1, QueueParts DEF ViewSound
  <2>3. WaitFor(tab, view[tab].queue)
    BY <2>2 DEF WaitFor, RefreshSound, RefreshType, Made
  <2>. QED
    BY <2>1, <2>3, ViewStays
<1>4. PassSound(tab)'
  <2>1. \A call \in Waiting(tab, "sync")' :
            call \in Waiting(tab, "sync") /\ calls'[call] = calls[call]
    BY DEF Waiting, Made
  <2>2. PassFollows(tab)
    BY <2>1 DEF PassFollows
  <2>. QED
    BY <2>2, PassStays DEF Inv, TabInv, CallInv
<1>. QED
  BY <1>1, <1>2, <1>3, <1>4 DEF TabInv

\* A call that does not move keeps its part of the invariant, as the view it
\* is shown by goes forward and a close is for good.
LEMMA CallStays ==
  ASSUME Inv, ClientTypeOK', Advance, NEW call \in Calls,
         calls'[call] = calls[call],
         \A tab \in Tabs :
             /\ closed[tab].client => closed'[tab].client
             /\ closed[tab].store => closed'[tab].store
             /\ view[tab].snapshot.next <= view'[tab].snapshot.next
  PROVE  CallInv(call)'
<1>1. PICK c \in CallType : c = calls[call] /\ c = calls'[call]
  BY Types DEF Inv
<1>2. Made(call)' = Made(call)
  BY <1>1 DEF Made
<1>3. Made(call) => c.tab \in Tabs
  BY <1>1 DEF Made, CallType, SyncType, WriteType
<1>4. /\ record.next \in Nat /\ record'.next \in Nat
      /\ record.next <= record'.next
      /\ authority.head \in Nat /\ authority'.head \in Nat
      /\ authority.head <= authority'.head
  BY Types, TypesAfter, RecordParts DEF Inv, Advance, LogGrows, Older
<1>5. CallSound(call)'
  <2>1. Made(call) /\ c.kind = "sync" => c \in SyncType /\ c.head \in Nat
    BY <1>1, SyncParts, Numbers DEF Inv, SyncType
  <2>2. Made(call) /\ c.kind \in Writes => c.op \in Nat
    BY <1>1, Numbers DEF CallType, SyncType, WriteType, Writes, Made
  <2>3. CallSound(call)
    BY DEF Inv, CallInv
  <2>4. Made(call) /\ c.kind \in Writes =>
            c.op < record'.next /\ (c.status = "waiting" => c.op = 0)
    BY <1>1, <1>4, <2>2, <2>3 DEF CallSound
  <2>5. Made(call) /\ c.kind = "close" => closed'[c.tab].client
    BY <1>1, <1>3, <2>3 DEF CallSound
  <2>6. Made(call) /\ c.kind = "sync" =>
            c.owed \subseteq 1..record'.next - 1 /\ c.head <= authority'.head
    BY <1>1, <1>4, <2>1, <2>3 DEF CallSound
  <2>. QED
    BY <1>1, <1>2, <2>4, <2>5, <2>6 DEF CallSound
<1>7. c.status = "resolved" /\ c.kind = "enqueue" =>
          c.op < view'[c.tab].snapshot.next
  <2>1. ASSUME c.status = "resolved", c.kind = "enqueue"
        PROVE  /\ c.tab \in Tabs /\ c.op \in Nat
               /\ c.op < view[c.tab].snapshot.next
    BY <1>1, <1>3, <2>1, Numbers
    DEF Inv, CallInv, Made, CallType, SyncType, WriteType, Writes
  <2>2. \A tab \in Tabs : /\ view[tab].snapshot.next \in Nat
                          /\ view'[tab].snapshot.next \in Nat
    BY Types, TypesAfter, RecordParts DEF Inv
  <2>. QED
    BY <2>1, <2>2
<1>8. c.status = "resolved" /\ c.kind = "sync" => c.late \/ CaughtUp(c)'
  <2>1. ASSUME c.status = "resolved", c.kind = "sync"
        PROVE  /\ c \in SyncType /\ c.owed \subseteq 1..record.next - 1
               /\ c.late \/ CaughtUp(c)
    BY <1>1, <2>1, SyncParts DEF Inv, CallInv, CallSound, Made
  <2>. QED
    BY <2>1, CaughtUpStays DEF Inv
<1>9. CaughtUp(c)' = CaughtUp(calls[call])'
  BY <1>1 DEF CaughtUp
<1>. QED
  BY <1>1, <1>5, <1>7, <1>8, <1>9 DEF CallInv

(* The steps, one tab at a time. *)

\* The step is one of tab t: of the other tabs and their calls it changes
\* nothing, what is closed stays so, and the view goes forward.
Apart(t) ==
    /\ \A tab \in Tabs \ {t} :
           /\ session'[tab] = session[tab] /\ view'[tab] = view[tab]
           /\ requested'[tab] = requested[tab] /\ closed'[tab] = closed[tab]
    /\ closed[t].client => closed'[t].client
    /\ closed[t].store => closed'[t].store
    /\ view[t].snapshot.next <= view'[t].snapshot.next
    /\ \A call \in Calls :
           \/ calls'[call] = calls[call]
           \/ /\ Made(call) => calls[call].tab = t
              /\ Made(call)' => calls'[call].tab = t

\* A step of a tab keeps the invariant if that tab and its calls do.
LEMMA StepKeeps ==
  ASSUME Inv, ClientTypeOK', RecordSound', Advance, NEW t \in Tabs, Apart(t),
         TabInv(t)',
         \A call \in Calls : calls'[call] # calls[call] => CallInv(call)'
  PROVE  Inv'
<1>1. ASSUME NEW tab \in Tabs PROVE TabInv(tab)'
  <2>1. CASE tab = t
    BY <2>1
  <2>2. CASE tab # t
    BY <2>2, TabStays DEF Apart
  <2>. QED
    BY <2>1, <2>2
<1>2. ASSUME NEW call \in Calls PROVE CallInv(call)'
  <2>1. CASE calls'[call] # calls[call]
    BY <2>1
  <2>2. CASE calls'[call] = calls[call]
    <3>1. \A tab \in Tabs :
              /\ closed[tab].client => closed'[tab].client
              /\ closed[tab].store => closed'[tab].store
              /\ view[tab].snapshot.next <= view'[tab].snapshot.next
      <4>1. \A tab \in Tabs : view[tab].snapshot.next \in Nat
        BY Types, RecordParts DEF Inv
      <4>. QED
        BY <4>1 DEF Apart
    <3>. QED
      BY <2>2, <3>1, CallStays
  <2>. QED
    BY <2>1, <2>2
<1>. QED
  BY <1>1, <1>2 DEF Inv

\* A step that leaves the record and the authority alone.
LEMMA DurableStays ==
  ASSUME Inv, UNCHANGED durable, Stored' = Stored
  PROVE  RecordSound' /\ Advance
<1>1. record' = record /\ authority' = authority /\ foreign' = foreign
  BY DEF durable
<1>2. record \in RecordType /\ authority.head \in Nat
  BY Types DEF Inv
<1>3. RecordSound'
  <2>1. Known(record)'
    BY <1>1 DEF Inv, RecordSound, Known
  <2>2. ConfirmedNotPending'
    BY <1>1 DEF Inv, RecordSound, ConfirmedNotPending
  <2>. QED
    BY <1>1, <2>1, <2>2 DEF Inv, RecordSound
<1>4. Older(record, record)
  BY <1>2, RecordParts DEF Older
<1>5. LogGrows
  BY <1>1, <1>2 DEF LogGrows
<1>. QED
  BY <1>1, <1>3, <1>4, <1>5 DEF Advance

\* No refresh in the queue belongs to the session.
NoSessionRefresh(tab) ==
    \A i \in DOMAIN view'[tab].queue :
        view'[tab].queue[i].owner # SessionOwner

\* A pass that has no answer yet owes its requests nothing.
LEMMA PassBegins ==
  ASSUME NEW tab \in Tabs, NoSessionRefresh(tab),
         session'[tab].pc \notin {"merge", "refresh", "loop"},
         session'[tab] # Settled("resolved")
  PROVE  PassSound(tab)'
BY DEF PassSound, NoSessionRefresh

\* Only a session that waits for its refresh has one.
LEMMA NoRefreshYet ==
  ASSUME Inv, NEW tab \in Tabs, session[tab].pc # "refresh"
  PROVE  \A i \in DOMAIN view[tab].queue :
             view[tab].queue[i].owner # SessionOwner
BY DEF Inv, TabInv, ViewSound, RefreshSound

\* A refresh of a call belongs to a call that waits for it.
LEMMA OwnerParts ==
  ASSUME Inv, NEW tab \in Tabs, NEW i \in DOMAIN view[tab].queue,
         view[tab].queue[i].owner # SessionOwner
  PROVE  /\ view[tab].queue[i].owner \in Calls
         /\ calls[view[tab].queue[i].owner].status = "refreshing"
         /\ calls[view[tab].queue[i].owner].tab = tab
         /\ calls[view[tab].queue[i].owner] \in WriteType
<1>1. PICK owner : owner = view[tab].queue[i].owner
  OBVIOUS
<1>2. /\ owner \in Calls /\ owner # SessionOwner
      /\ calls[owner].status = "refreshing" /\ calls[owner].tab = tab
  BY <1>1, QueueParts DEF Inv, TabInv, ViewSound, RefreshSound, RefreshType
<1>3. calls[owner] \in CallType
  BY <1>2, Types DEF Inv
<1>4. calls[owner] \in WriteType
  BY <1>2, <1>3 DEF CallType, SyncType, WriteType
<1>. QED
  BY <1>1, <1>2, <1>4

\* A step of a session that is not at its refresh, and leaves the calls and
\* the queue of its tab alone, keeps what refreshes wait for.
LEMMA QueueStays ==
  ASSUME Inv, ClientTypeOK', Advance, NEW tab \in Tabs,
         session[tab].pc # "refresh", calls' = calls,
         view'[tab].queue = view[tab].queue,
         view'[tab].snapshot = view[tab].snapshot
  PROVE  ViewSound(tab)' /\ NoSessionRefresh(tab)
<1>1. \A i \in DOMAIN view[tab].queue :
          view[tab].queue[i].owner # SessionOwner
  BY NoRefreshYet
<1>2. WaitFor(tab, view[tab].queue)
  BY <1>1 DEF WaitFor
<1>3. ViewSound(tab)'
  BY <1>2, ViewStays DEF Inv, TabInv
<1>. QED
  BY <1>1, <1>3 DEF NoSessionRefresh

\* A step of one session that changes at most the phase its tab shows and the
\* request for another pass, and has nothing to promise or can promise it.
LEMMA SessionMoves ==
  ASSUME Inv, NEW t \in Tabs, NEW s \in SessionType, NEW phase, NEW again,
         UNCHANGED <<record, foreign, closed, calls>>,
         authority' \in [head : Sequence, decided : Decisions],
         RecordSound', Advance,
         session' = [session EXCEPT ![t] = s],
         view' = [view EXCEPT ![t].phase = phase],
         requested' = [requested EXCEPT ![t] = again], again \in BOOLEAN,
         session[t].pc # "refresh", Running(t) \/ ~ closed[t].client,
         s.pc \notin {"merge", "refresh", "loop"},
         \/ s # Settled("resolved")
         \/ \A call \in Waiting(t, "sync") : CaughtUp(calls[call]),
         s.pc = "exchange" => /\ Past(s.basis)'
                              /\ s.base = s.basis.confirmed
                              /\ s.proposals = FirstPending(s.basis),
         phase \in {"idle", "syncing", "error"},
         (phase = "syncing") = (s.pc \in {"prepare", "exchange"}),
         s.pc = "backoff" => phase = "error"
  PROVE  Inv'
<1>1. /\ record' = record /\ foreign' = foreign
      /\ closed' = closed /\ calls' = calls
  OBVIOUS
<1>2. /\ session \in [Tabs -> SessionType] /\ view \in [Tabs -> ViewType]
      /\ requested \in [Tabs -> BOOLEAN] /\ view[t] \in ViewType
  BY DEF Inv, ClientTypeOK
<1>3. /\ session' \in [Tabs -> SessionType] /\ session'[t] = s
      /\ \A tab \in Tabs \ {t} : session'[tab] = session[tab]
  BY <1>2
<1>4. PICK v : v = [view[t] EXCEPT !.phase = phase]
  OBVIOUS
<1>5. /\ v \in ViewType /\ v.phase = phase /\ v.queue = view[t].queue
      /\ v.snapshot = view[t].snapshot
  BY <1>2, <1>4 DEF ViewType
<1>6. view' = [view EXCEPT ![t] = v]
  BY <1>4
<1>7. /\ view' \in [Tabs -> ViewType] /\ view'[t] = v
      /\ \A tab \in Tabs \ {t} : view'[tab] = view[tab]
  BY <1>2, <1>5, <1>6
<1>8. /\ requested' \in [Tabs -> BOOLEAN]
      /\ \A tab \in Tabs \ {t} : requested'[tab] = requested[tab]
  BY <1>2
<1>9. ClientTypeOK'
  BY <1>1, <1>3, <1>7, <1>8 DEF Inv, ClientTypeOK
<1>10. Apart(t)
  <2>1. view[t].snapshot.next \in Nat
    BY Types, RecordParts DEF Inv
  <2>. QED
    BY <1>1, <1>3, <1>5, <1>7, <1>8, <2>1 DEF Apart
<1>11. PhaseOf(t)' /\ ClosedSound(t)'
  <2>1. ClosedSound(t) /\ PhaseOf(t)
    BY DEF Inv, TabInv
  <2>2. ~ closed[t].store
    BY <2>1 DEF ClosedSound, Running
  <2>3. closed'[t].store = FALSE
    BY <1>1, <2>2, Types DEF Inv
  <2>4. ClosedSound(t)'
    BY <2>3 DEF ClosedSound
  <2>5. view'[t].phase = phase /\ session'[t].pc = s.pc
    BY <1>3, <1>5, <1>7
  <2>6. (view'[t].phase = "closed") = closed'[t].store
    BY <2>3, <2>5
  <2>7. (view'[t].phase = "syncing") = InSession(t)'
    BY <2>5 DEF InSession
  <2>. QED
    BY <2>4, <2>5, <2>6, <2>7 DEF PhaseOf
<1>12. SessionSound(t)'
  BY <1>3 DEF SessionSound
<1>13. ViewSound(t)' /\ NoSessionRefresh(t)
  BY <1>1, <1>5, <1>7, <1>9, QueueStays
<1>14. PassSound(t)'
  <2>1. CASE s # Settled("resolved")
    BY <1>3, <1>13, <2>1, PassBegins
  <2>2. CASE \A call \in Waiting(t, "sync") : CaughtUp(calls[call])
    <3>1. Waiting(t, "sync")' = Waiting(t, "sync")
      BY <1>1 DEF Waiting
    <3>2. \A call \in Waiting(t, "sync")' : CaughtUp(calls[call])'
      BY <1>1, <2>2, <3>1 DEF CaughtUp
    <3>. QED
      BY <1>3, <1>13, <3>2 DEF PassSound, NoSessionRefresh
  <2>. QED
    BY <2>1, <2>2
<1>. QED
  BY <1>1, <1>9, <1>10, <1>11, <1>12, <1>13, <1>14, StepKeeps DEF TabInv

\* Prepare.
LEMMA PrepareKeeps ==
  ASSUME Inv, NEW t \in Tabs, Prepare(t)
  PROVE  Inv'
<1>1. PICK s : s = [pc |-> "exchange", attempt |-> session[t].attempt,
                    round |-> session[t].round, base |-> record.confirmed,
                    proposals |-> FirstPending(record), basis |-> record]
  OBVIOUS
<1>2. /\ session[t].pc = "prepare" /\ session' = [session EXCEPT ![t] = s]
      /\ UNCHANGED <<record, authority, foreign, closed, requested, view, calls>>
  BY <1>1 DEF Prepare, Become, durable
<1>3. record \in RecordType /\ record.confirmed \in Sequence
      /\ FirstPending(record) \in SUBSET Operation
  <2>1. record \in RecordType
    BY Types DEF Inv
  <2>. QED
    BY <2>1, FirstOfPending DEF RecordType
<1>4. s \in SessionType
  <2>1. session[t].attempt \in Attempt /\ session[t].round \in Round
    BY <1>2, Types, SessionParts DEF Inv
  <2>. QED
    BY <1>1, <1>3, <2>1 DEF SessionType
<1>5. RecordSound' /\ Advance
  <2>1. Stored' = Stored
    BY <1>2 DEF Stored, Made
  <2>. QED
    BY <1>2, <2>1, DurableStays DEF durable
<1>6. Past(s.basis)'
  <2>1. PICK rec : rec = record
    OBVIOUS
  <2>2. Known(rec)
    BY <2>1 DEF Inv, RecordSound
  <2>3. Past(rec)'
    BY <1>2, <1>5, <2>1, <2>2 DEF Past, Known, Advance
  <2>4. s.basis = rec
    BY <1>1, <2>1
  <2>. QED
    BY <2>3, <2>4
<1>7. view[t].phase = "syncing"
  BY <1>2 DEF Inv, TabInv, PhaseOf, InSession
<1>8. view' = [view EXCEPT ![t].phase = "syncing"]
      /\ requested' = [requested EXCEPT ![t] = requested[t]]
      /\ requested[t] \in BOOLEAN
      /\ authority' \in [head : Sequence, decided : Decisions]
  BY <1>2, <1>7 DEF Inv, ClientTypeOK, ViewType
<1>9. /\ s.pc = "exchange" /\ s.base = s.basis.confirmed
      /\ s.proposals = FirstPending(s.basis) /\ s # Settled("resolved")
  BY <1>1 DEF Settled
<1>. QED
  BY <1>2, <1>4, <1>5, <1>6, <1>8, <1>9, SessionMoves DEF Running

\* Another attempt begins, or the closed client refuses it.
LEMMA BeginKeeps ==
  ASSUME Inv, NEW t \in Tabs, NEW attempt \in Attempt, NEW again \in BOOLEAN,
         session[t].pc \in {"backoff", "loop"}, BeginAttempt(t, attempt),
         requested' = [requested EXCEPT ![t] = again],
         UNCHANGED <<record, authority, foreign, closed, calls>>
  PROVE  Inv'
<1>1. RecordSound' /\ Advance
  <2>1. Stored' = Stored
    BY DEF Stored, Made
  <2>. QED
    BY <2>1, DurableStays DEF durable
<1>2. authority' \in [head : Sequence, decided : Decisions]
  BY DEF Inv, ClientTypeOK
<1>3. CASE closed[t].client
  <2>1. PICK s : s = Settled("rejected")
    OBVIOUS
  <2>2. /\ s \in SessionType /\ s # Settled("resolved")
        /\ s.pc = "settling"
    BY <2>1 DEF Settled, SessionType
  <2>3. PICK phase : phase = view[t].phase
    OBVIOUS
  <2>4. phase \in {"idle", "error"}
    BY <2>3 DEF Inv, TabInv, PhaseOf
  <2>5. session' = [session EXCEPT ![t] = s]
        /\ view' = [view EXCEPT ![t].phase = phase]
    BY <1>3, <2>1, <2>3 DEF BeginAttempt, Become, Inv, ClientTypeOK, ViewType
  <2>6. /\ (phase = "syncing") = (s.pc \in {"prepare", "exchange"})
        /\ s.pc \notin {"merge", "refresh", "loop"}
        /\ s.pc # "exchange" /\ s.pc # "backoff"
        /\ session[t].pc # "refresh" /\ Running(t)
        /\ phase \in {"idle", "syncing", "error"}
    BY <2>2, <2>4 DEF Running
  <2>. QED
    BY <1>1, <1>2, <2>2, <2>4, <2>5, <2>6, SessionMoves
<1>4. CASE ~ closed[t].client
  <2>1. PICK s : s = [pc |-> "prepare", attempt |-> attempt, round |-> 1]
    OBVIOUS
  <2>2. 1 \in Round
    BY RuntimeAssumption DEF Round
  <2>3. /\ s \in SessionType /\ s # Settled("resolved")
        /\ s.pc = "prepare"
    BY <2>1, <2>2 DEF Settled, SessionType
  <2>4. session' = [session EXCEPT ![t] = s]
        /\ view' = [view EXCEPT ![t].phase = "syncing"]
    BY <1>4, <2>1 DEF BeginAttempt, Become, Phase
  <2>. QED
    BY <1>1, <1>2, <2>3, <2>4, SessionMoves DEF Running
<1>. QED
  BY <1>3, <1>4

\* Retry.
LEMMA RetryKeeps ==
  ASSUME Inv, NEW t \in Tabs, Retry(t)
  PROVE  Inv'
<1>1. /\ session[t].pc = "backoff" /\ BeginAttempt(t, session[t].attempt + 1)
      /\ UNCHANGED <<record, authority, foreign, closed, calls>>
      /\ requested' = requested
  BY DEF Retry, durable
<1>2. session[t].attempt + 1 \in Attempt
  <2>1. session[t].attempt \in 1..MaximumAttempts - 1
    BY <1>1, Types, SessionParts DEF Inv
  <2>. QED
    BY <2>1, RuntimeAssumption DEF Attempt
<1>3. requested' = [requested EXCEPT ![t] = requested[t]]
      /\ requested[t] \in BOOLEAN
  BY <1>1 DEF Inv, ClientTypeOK
<1>. QED
  BY <1>1, <1>2, <1>3, BeginKeeps

\* Loop.
LEMMA LoopKeeps ==
  ASSUME Inv, NEW t \in Tabs, Loop(t)
  PROVE  Inv'
<1>1. /\ session[t].pc = "loop"
      /\ UNCHANGED <<record, authority, foreign, closed, calls>>
      /\ requested' = [requested EXCEPT ![t] = FALSE]
  BY DEF Loop, durable
<1>2. CASE requested[t]
  <2>1. BeginAttempt(t, 1)
    BY <1>2 DEF Loop
  <2>2. 1 \in Attempt
    BY RuntimeAssumption DEF Attempt
  <2>. QED
    BY <1>1, <2>1, <2>2, BeginKeeps
<1>3. CASE ~ requested[t]
  <2>1. PICK s : s = Settled("resolved")
    OBVIOUS
  <2>2. s \in SessionType /\ s.pc = "settling"
    BY <2>1 DEF Settled, SessionType
  <2>3. view[t].phase = "idle"
    BY <1>1 DEF Inv, TabInv, PhaseOf
  <2>4. session' = [session EXCEPT ![t] = s]
        /\ view' = [view EXCEPT ![t].phase = "idle"]
    BY <1>3, <2>1, <2>3 DEF Loop, Become, Inv, ClientTypeOK, ViewType
  <2>5. \A call \in Waiting(t, "sync") : CaughtUp(calls[call])
    BY <1>1, <1>3 DEF Inv, TabInv, PassSound
  <2>6. RecordSound' /\ Advance
    <3>1. Stored' = Stored
      BY <1>1 DEF Stored, Made
    <3>. QED
      BY <1>1, <3>1, DurableStays DEF durable
  <2>7. authority' \in [head : Sequence, decided : Decisions]
    BY <1>1 DEF Inv, ClientTypeOK
  <2>8. /\ ("idle" = "syncing") = (s.pc \in {"prepare", "exchange"})
        /\ s.pc \notin {"merge", "refresh", "loop"}
        /\ s.pc # "exchange" /\ s.pc # "backoff"
        /\ session[t].pc # "refresh" /\ Running(t)
    BY <1>1, <2>2 DEF Running
  <2>. QED
    BY <1>1, <2>2, <2>4, <2>5, <2>6, <2>7, <2>8, SessionMoves
<1>. QED
  BY <1>2, <1>3

\* An attempt fails, and the log may have gone on.
LEMMA ThrowKeeps ==
  ASSUME Inv, NEW t \in Tabs, NEW retryable \in BOOLEAN,
         session[t].pc \in {"prepare", "exchange", "merge"}, Throw(t, retryable),
         UNCHANGED <<record, foreign, closed, requested, calls>>,
         authority' \in [head : Sequence, decided : Decisions],
         RecordSound', Advance
  PROVE  Inv'
<1>1. PICK s : s = IF retryable /\ ~ LastAttempt(session[t].attempt)
                   THEN [pc |-> "backoff", attempt |-> session[t].attempt]
                   ELSE Settled("rejected")
  OBVIOUS
<1>2. session' = [session EXCEPT ![t] = s]
      /\ view' = [view EXCEPT ![t].phase = "error"]
  BY <1>1 DEF Throw, Become, Phase
<1>3. s \in SessionType /\ s.pc \in {"backoff", "settling"}
      /\ s # Settled("resolved")
  <2>1. CASE retryable /\ ~ LastAttempt(session[t].attempt)
    <3>1. session[t].attempt \in 1..MaximumAttempts
          /\ session[t].attempt # MaximumAttempts
      BY <2>1, Types, SessionParts DEF Inv, Attempt, LastAttempt
    <3>2. session[t].attempt \in 1..MaximumAttempts - 1
      BY <3>1, RuntimeAssumption
    <3>. QED
      BY <1>1, <2>1, <3>2 DEF SessionType, Settled
  <2>2. CASE ~ (retryable /\ ~ LastAttempt(session[t].attempt))
    BY <1>1, <2>2 DEF SessionType, Settled
  <2>. QED
    BY <2>1, <2>2
<1>4. requested' = [requested EXCEPT ![t] = requested[t]]
      /\ requested[t] \in BOOLEAN
  BY DEF Inv, ClientTypeOK
<1>5. /\ ("error" = "syncing") = (s.pc \in {"prepare", "exchange"})
      /\ s.pc \notin {"merge", "refresh", "loop"} /\ s.pc # "exchange"
      /\ session[t].pc # "refresh" /\ Running(t)
  BY <1>3 DEF Running
<1>. QED
  BY <1>2, <1>3, <1>4, <1>5, SessionMoves

\* Conflict.
LEMMA ConflictKeeps ==
  ASSUME Inv, NEW t \in Tabs, Conflict(t)
  PROVE  Inv'
<1>1. /\ session[t].pc = "exchange" /\ Throw(t, TRUE)
      /\ UNCHANGED <<record, authority, foreign, closed, requested, calls>>
  BY DEF Conflict, durable
<1>2. RecordSound' /\ Advance
  <2>1. Stored' = Stored
    BY <1>1 DEF Stored, Made
  <2>. QED
    BY <1>1, <2>1, DurableStays DEF durable
<1>3. authority' \in [head : Sequence, decided : Decisions]
  BY <1>1 DEF Inv, ClientTypeOK
<1>. QED
  BY <1>1, <1>2, <1>3, ThrowKeeps

\* The proposals of a request were numbered before the present.
LEMMA RequestNumbered ==
  ASSUME Inv, NEW t \in Tabs, session[t].pc = "exchange"
  PROVE  /\ session[t].proposals \in SUBSET Operation
         /\ \A op \in session[t].proposals : op < record.next
<1>1. PICK s \in SessionType : s = session[t]
  BY Types DEF Inv
<1>2. /\ s.basis \in RecordType /\ s.proposals \in SUBSET Operation
      /\ Past(s.basis) /\ s.proposals = FirstPending(s.basis)
      /\ record \in RecordType
  BY <1>1, Types, SessionParts DEF Inv, TabInv, SessionSound
<1>3. /\ s.basis.next \in Nat /\ record.next \in Nat
      /\ s.basis.pending \subseteq Unsettled(s.basis)
      /\ Unsettled(s.basis) \subseteq 1..s.basis.next - 1
      /\ s.basis.next <= record.next
      /\ s.proposals \subseteq s.basis.pending
  BY <1>2, RecordParts, FirstOfPending DEF Past, Known, Older
<1>. QED
  BY <1>1, <1>2, <1>3

\* FailStore.
LEMMA FailStoreKeeps ==
  ASSUME Inv, NEW t \in Tabs, FailStore(t)
  PROVE  Inv'
<1>1. /\ session[t].pc \in {"prepare", "exchange", "merge"} /\ Throw(t, FALSE)
      /\ UNCHANGED <<record, authority, foreign, closed, requested, calls>>
  BY DEF FailStore, durable
<1>2. RecordSound' /\ Advance
  <2>1. Stored' = Stored
    BY <1>1 DEF Stored, Made
  <2>. QED
    BY <1>1, <2>1, DurableStays DEF durable
<1>3. authority' \in [head : Sequence, decided : Decisions]
  BY <1>1 DEF Inv, ClientTypeOK
<1>. QED
  BY <1>1, <1>2, <1>3, ThrowKeeps

\* The authority decides a request.
LEMMA DecidedKeeps ==
  ASSUME Inv, NEW proposals \in SUBSET Operation,
         \A op \in proposals : op < record.next,
         NEW accepted \in SUBSET Undecided(proposals),
         DecidedBy(accepted, proposals),
         UNCHANGED <<record, foreign, calls>>
  PROVE  /\ authority' \in [head : Sequence, decided : Decisions]
         /\ RecordSound' /\ Advance
         /\ proposals \subseteq DOMAIN authority'.decided
<1>1. PICK D : D = DOMAIN authority.decided
  OBVIOUS
<1>2. PICK d : d = authority.decided
  OBVIOUS
<1>3. PICK head \in Nat : head = authority.head
  BY Types DEF Inv
<1>4. PICK k : k = Cardinality(accepted)
  OBVIOUS
<1>5. PICK e : e = DecidedWith(proposals, accepted)
  OBVIOUS
<1>6. authority' = [head |-> head + k, decided |-> e]
  BY <1>3, <1>4, <1>5 DEF DecidedBy
<1>7. D \subseteq Operation /\ accepted \subseteq proposals
      /\ accepted \cap D = {}
  BY <1>1, Types, DecisionParts DEF Inv, Undecided
<1>8. /\ IsFiniteSet(Operation) /\ IsFiniteSet(D) /\ IsFiniteSet(accepted)
      /\ IsFiniteSet(D \cup proposals) /\ Cardinality(D) \in Nat /\ k \in Nat
      /\ Cardinality(D \cup proposals) \in Nat
  <2>1. IsFiniteSet(Operation)
    BY Numbers
  <2>2. D \in SUBSET Operation /\ accepted \in SUBSET Operation
        /\ D \cup proposals \in SUBSET Operation
    BY <1>7
  <2>3. IsFiniteSet(D) /\ IsFiniteSet(accepted) /\ IsFiniteSet(D \cup proposals)
    BY <2>1, <2>2, FS_Subset
  <2>. QED
    BY <1>4, <2>1, <2>3, FS_CardinalityType
<1>9. Cardinality(D) + k <= Cardinality(D \cup proposals)
  <2>1. Cardinality(D \cup accepted)
            = Cardinality(D) + Cardinality(accepted) - Cardinality(D \cap accepted)
    BY <1>8, FS_Union
  <2>2. Cardinality(D \cap accepted) = 0
    <3>1. D \cap accepted = {}
      BY <1>7
    <3>. QED
      BY <3>1, FS_EmptySet
  <2>3. Cardinality(D \cup accepted) <= Cardinality(D \cup proposals)
    <3>1. D \cup accepted \in SUBSET (D \cup proposals)
      BY <1>7
    <3>. QED
      BY <1>8, <3>1, FS_Subset
  <2>. QED
    BY <1>4, <1>8, <2>1, <2>2, <2>3
<1>10. Cardinality(D \cup proposals) <= Cardinality(Calls)
  <2>1. D \cup proposals \in SUBSET Operation
    BY <1>7
  <2>2. Cardinality(D \cup proposals) <= Cardinality(Operation)
    BY <1>8, <2>1, FS_Subset
  <2>3. Cardinality(Operation) = Cardinality(Calls)
    BY Numbers, FS_Interval DEF Operation
  <2>. QED
    BY <2>2, <2>3
<1>11. /\ head <= foreign + Cardinality(D)
       /\ foreign \in Nat /\ foreign <= MaxForeign /\ MaxForeign \in Nat
       /\ Cardinality(Calls) \in Nat
  <2>1. foreign \in 0..MaxForeign
    BY DEF Inv, ClientTypeOK
  <2>. QED
    BY <1>1, <1>3, <2>1, Numbers DEF Inv, RecordSound
<1>12. /\ head + k <= foreign + Cardinality(D \cup proposals)
       /\ head + k \in Sequence
  <2>1. head + k <= foreign + Cardinality(D \cup proposals)
    BY <1>8, <1>9, <1>11
  <2>2. head + k <= MaxForeign + Cardinality(Calls)
    BY <1>8, <1>10, <1>11, <2>1
  <2>. QED
    BY <1>8, <1>11, <2>1, <2>2 DEF Sequence
<1>13. DOMAIN e = D \cup proposals
  BY <1>1, <1>5 DEF DecidedWith
<1>14. \A op \in D \cup proposals : e[op] \in Nat /\ e[op] <= head + k
  <2>1. ASSUME NEW op \in D PROVE e[op] \in Nat /\ e[op] <= head + k
    <3>1. e[op] = d[op]
      BY <1>1, <1>2, <1>5, <2>1 DEF DecidedWith
    <3>2. d[op] \in Nat /\ d[op] <= head
      BY <1>1, <1>2, <1>3, <2>1, Types, DecisionParts, Numbers
      DEF Inv, RecordSound
    <3>. QED
      BY <1>8, <3>1, <3>2
  <2>2. ASSUME NEW op \in proposals \ D
        PROVE  e[op] \in Nat /\ e[op] <= head + k
    <3>1. PICK n : n = Cardinality({o \in accepted : o <= op})
      OBVIOUS
    <3>2. n \in Nat /\ n <= k
      <4>1. {o \in accepted : o <= op} \in SUBSET accepted
        OBVIOUS
      <4>. QED
        BY <1>4, <1>8, <3>1, <4>1, FS_Subset, FS_CardinalityType
    <3>3. e[op] \in {head + n, Rejected}
      BY <1>1, <1>3, <1>5, <2>2, <3>1 DEF DecidedWith
    <3>. QED
      BY <1>8, <3>2, <3>3 DEF Rejected
  <2>. QED
    BY <2>1, <2>2
<1>15. e \in Decisions
  <2>1. D \cup proposals \in SUBSET Operation
    BY <1>7
  <2>2. \A op \in D \cup proposals : e[op] \in Sequence
    BY <1>8, <1>11, <1>12, <1>14 DEF Sequence
  <2>3. e = [op \in D \cup proposals |-> e[op]]
    BY <1>1, <1>5 DEF DecidedWith
  <2>4. e \in [D \cup proposals -> Sequence]
    BY <2>2, <2>3
  <2>. QED
    BY <2>1, <2>4 DEF Decisions
<1>16. authority' \in [head : Sequence, decided : Decisions]
       /\ authority'.head = head + k /\ authority'.decided = e
  BY <1>6, <1>12, <1>15
<1>17. Stored' = Stored /\ record \in RecordType
  BY Types DEF Inv, Stored, Made
<1>20. LogGrows
  <2>1. \A op \in D : e[op] = d[op]
    BY <1>1, <1>2, <1>5 DEF DecidedWith
  <2>2. ASSUME NEW op \in DOMAIN e \ D PROVE e[op] = Rejected \/ head < e[op]
    <3>1. PICK before : before = {o \in accepted : o <= op}
      OBVIOUS
    <3>2. op \in proposals \ D
      BY <1>13, <2>2
    <3>3. CASE op \in accepted
      <4>1. e[op] = head + Cardinality(before)
        BY <1>1, <1>3, <1>5, <3>1, <3>2, <3>3 DEF DecidedWith
      <4>2. before \in SUBSET accepted /\ op \in before
        BY <1>7, <3>1, <3>3, Numbers
      <4>3. Cardinality(before) \in Nat /\ Cardinality(before) # 0
        BY <1>8, <4>2, FS_Subset, FS_CardinalityType, FS_EmptySet
      <4>. QED
        BY <4>1, <4>3
    <3>4. CASE op \notin accepted
      BY <1>1, <1>5, <3>2, <3>4 DEF DecidedWith
    <3>. QED
      BY <3>3, <3>4
  <2>3. head <= head + k /\ D \subseteq DOMAIN e
    BY <1>8, <1>13
  <2>. QED
    BY <1>1, <1>2, <1>3, <1>16, <2>1, <2>2, <2>3 DEF LogGrows
<1>18. Advance
  <2>1. Older(record, record)
    BY <1>17, RecordParts DEF Older
  <2>. QED
    BY <1>17, <1>20, <2>1 DEF Advance
<1>19. RecordSound'
  <2>1. Known(record)'
    <3>1. /\ record.confirmed \in Nat
          /\ \A receipt \in record.awaiting : receipt.sequence \in Nat
      BY <1>17, RecordParts
    <3>. QED
      BY <1>3, <1>8, <1>16, <3>1 DEF Inv, RecordSound, Known
  <2>2. \A op \in D : op < record.next
    BY <1>1 DEF Inv, RecordSound
  <2>3. \A op \in DOMAIN e : op < record.next /\ e[op] <= head + k
    BY <1>13, <1>14, <2>2
  <2>4. ConfirmedNotPending'
    <3>1. record.confirmed \in Nat /\ record.confirmed <= head
      BY <1>3, <1>17, RecordParts DEF Inv, RecordSound, Known
    <3>2. \A op \in record.pending \cap D :
              e[op] = Rejected \/ e[op] > record.confirmed
      BY <1>1, <1>16, <1>20 DEF Inv, RecordSound, ConfirmedNotPending, LogGrows
    <3>3. ASSUME NEW op \in record.pending \cap DOMAIN e, op \notin D
          PROVE  e[op] = Rejected \/ e[op] > record.confirmed
      <4>1. e[op] = Rejected \/ head < e[op]
        BY <1>1, <1>3, <1>16, <1>20, <3>3 DEF LogGrows
      <4>2. e[op] \in Nat
        BY <1>13, <1>14, <3>3
      <4>. QED
        BY <1>3, <3>1, <4>1, <4>2
    <3>. QED
      BY <1>16, <1>17, <3>2, <3>3 DEF ConfirmedNotPending
  <2>. QED
    BY <1>12, <1>13, <1>16, <1>17, <2>1, <2>3, <2>4 DEF Inv, RecordSound
<1>. QED
  BY <1>13, <1>16, <1>18, <1>19

\* FailExchange.
LEMMA FailExchangeKeeps ==
  ASSUME Inv, NEW t \in Tabs, FailExchange(t)
  PROVE  Inv'
<1>1. /\ session[t].pc = "exchange" /\ Throw(t, FALSE)
      /\ UNCHANGED <<record, foreign, closed, requested, calls>>
  BY DEF FailExchange
<1>2. CASE UNCHANGED authority
  <2>1. RecordSound' /\ Advance
    <3>1. Stored' = Stored
      BY <1>1 DEF Stored, Made
    <3>. QED
      BY <1>1, <1>2, <3>1, DurableStays DEF durable
  <2>2. authority' \in [head : Sequence, decided : Decisions]
    BY <1>2 DEF Inv, ClientTypeOK
  <2>. QED
    BY <1>1, <2>1, <2>2, ThrowKeeps
<1>3. ASSUME NEW accepted \in SUBSET Undecided(session[t].proposals),
             DecidedBy(accepted, session[t].proposals)
      PROVE  Inv'
  <2>1. PICK proposals : proposals = session[t].proposals
    OBVIOUS
  <2>2. /\ proposals \in SUBSET Operation
        /\ \A op \in proposals : op < record.next
        /\ accepted \in SUBSET Undecided(proposals)
        /\ DecidedBy(accepted, proposals)
    BY <1>1, <1>3, <2>1, RequestNumbered
  <2>3. authority' \in [head : Sequence, decided : Decisions]
        /\ RecordSound' /\ Advance
    BY <1>1, <2>2, DecidedKeeps
  <2>. QED
    BY <1>1, <2>3, ThrowKeeps
<1>. QED
  BY <1>2, <1>3 DEF FailExchange

\* Exchange.
LEMMA ExchangeKeeps ==
  ASSUME Inv, NEW t \in Tabs, Exchange(t)
  PROVE  Inv'
<1>1. PICK request \in SessionType : request = session[t]
  BY Types DEF Inv
<1>2. /\ request.pc = "exchange" /\ request.attempt \in Attempt
      /\ request.round \in Round /\ request.basis \in RecordType
      /\ request.proposals \in SUBSET Operation
      /\ request.base = request.basis.confirmed
      /\ request.proposals = FirstPending(request.basis)
      /\ Past(request.basis)
      /\ \A op \in request.proposals : op < record.next
  <2>1. request.pc = "exchange"
    BY <1>1 DEF Exchange
  <2>. QED
    BY <1>1, <2>1, SessionParts, RequestNumbered DEF Inv, TabInv, SessionSound
<1>3. PICK accepted \in SUBSET Undecided(request.proposals) :
          /\ DecidedBy(accepted, request.proposals)
          /\ Become(t, [pc |-> "merge", attempt |-> request.attempt,
                        round |-> request.round, basis |-> request.basis,
                        head |-> authority'.head,
                        through |-> PageEnd(request.base, authority'.head),
                        entries |-> PageEntries(authority'.decided, request.base,
                                       PageEnd(request.base, authority'.head)),
                        decisions |-> [op \in request.proposals |->
                                          authority'.decided[op]]])
  BY <1>1 DEF Exchange
<1>4. /\ record' = record /\ foreign' = foreign /\ closed' = closed
      /\ requested' = requested /\ view' = view /\ calls' = calls
  BY DEF Exchange
<1>5. /\ authority' \in [head : Sequence, decided : Decisions]
      /\ RecordSound' /\ Advance
      /\ request.proposals \subseteq DOMAIN authority'.decided
  BY <1>2, <1>3, <1>4, DecidedKeeps
<1>6. PICK head \in Sequence : head = authority'.head
  BY <1>5
<1>7. PICK decisions :
          decisions = [op \in request.proposals |-> authority'.decided[op]]
  OBVIOUS
<1>22. PICK entries :
           entries = PageEntries(authority'.decided, request.base,
                                 PageEnd(request.base, head))
  OBVIOUS
<1>8. PICK s : s = [pc |-> "merge", attempt |-> request.attempt,
                    round |-> request.round, basis |-> request.basis,
                    head |-> head, through |-> PageEnd(request.base, head),
                    entries |-> entries, decisions |-> decisions]
  OBVIOUS
<1>9. session' = [session EXCEPT ![t] = s]
  BY <1>3, <1>6, <1>7, <1>8, <1>22 DEF Become
<1>10. /\ head \in Nat /\ request.basis.confirmed \in Nat
       /\ authority.head \in Nat /\ authority.head <= head
       /\ request.basis.confirmed <= head
  <2>1. head \in Nat /\ request.basis.confirmed \in Nat /\ authority.head \in Nat
    BY <1>2, Numbers, RecordParts, Types DEF Inv
  <2>. QED
    BY <1>2, <1>5, <1>6, <2>1 DEF Advance, LogGrows, Past, Known
<1>11. PageEnd(request.base, head) \in Sequence
  <2>1. PICK end : end = PageEnd(request.base, head)
    OBVIOUS
  <2>2. request.base \in Nat /\ request.base <= head /\ head \in Nat
    BY <1>2, <1>10
  <2>3. end \in Nat /\ end <= head
    BY <2>1, <2>2, PageOfLog
  <2>4. Cardinality(Calls) \in Nat /\ MaxForeign \in Nat
    BY Numbers
  <2>5. end \in Sequence
    BY <2>2, <2>3, <2>4 DEF Sequence
  <2>. QED
    BY <2>1, <2>5
<1>12. /\ decisions \in Decisions
       /\ DOMAIN decisions = request.proposals
       /\ \A op \in request.proposals : decisions[op] <= head
  <2>1. \A op \in request.proposals :
            authority'.decided[op] \in Sequence
            /\ authority'.decided[op] <= head
    BY <1>5, <1>6, DecisionParts DEF RecordSound
  <2>2. decisions \in [request.proposals -> Sequence]
    BY <1>7, <2>1
  <2>. QED
    BY <1>2, <1>7, <2>1, <2>2 DEF Decisions
<1>23. entries \in SUBSET Operation
  BY <1>5, <1>22, DecisionParts DEF PageEntries
<1>13. s \in AnswerType /\ s \in SessionType
  BY <1>2, <1>8, <1>11, <1>12, <1>23 DEF AnswerType, SessionType
<1>14. /\ session' \in [Tabs -> SessionType] /\ session'[t] = s
       /\ \A tab \in Tabs \ {t} : session'[tab] = session[tab]
  BY <1>9, <1>13 DEF Inv, ClientTypeOK
<1>15. ClientTypeOK'
  BY <1>4, <1>5, <1>14 DEF Inv, ClientTypeOK
<1>16. AnswerSound(s)'
  <2>1. PICK basis \in RecordType : basis = request.basis
    BY <1>2
  <2>2. Past(basis)'
    BY <1>2, <1>5, <1>15, <2>1, PastStays DEF Inv
  <2>3. \A receipt \in basis.awaiting : receipt.sequence <= head
    <3>1. \A receipt \in basis.awaiting : receipt.sequence \in Nat
      BY RecordParts
    <3>. QED
      BY <1>2, <1>10, <2>1, <3>1 DEF Past, Known
  <2>4. /\ s.basis = basis /\ s.head = head /\ s.decisions = decisions
        /\ s.through = PageEnd(basis.confirmed, head)
        /\ DOMAIN decisions = FirstPending(basis)
        /\ \A op \in DOMAIN decisions : decisions[op] <= head
        /\ basis.confirmed <= head
    BY <1>2, <1>8, <1>10, <1>12, <2>1
  <2>5. s.entries = PageEntries(authority'.decided, basis.confirmed, s.through)
    BY <1>2, <1>8, <1>22, <2>1
  <2>. QED
    BY <1>6, <1>10, <2>2, <2>3, <2>4, <2>5 DEF AnswerSound
<1>17. SessionSound(t)'
  BY <1>8, <1>14, <1>16 DEF SessionSound
<1>18. PhaseOf(t)' /\ ClosedSound(t)'
  <2>1. session[t].pc = "exchange" /\ session'[t].pc = "merge"
    BY <1>1, <1>2, <1>8, <1>14
  <2>2. PhaseOf(t) /\ ClosedSound(t)
    BY DEF Inv, TabInv
  <2>. QED
    BY <1>4, <2>1, <2>2 DEF PhaseOf, ClosedSound, InSession
<1>19. ViewSound(t)' /\ NoSessionRefresh(t)
  BY <1>1, <1>2, <1>4, <1>5, <1>15, QueueStays
<1>20. PassSound(t)'
  <2>1. ASSUME NEW call \in Waiting(t, "sync")' PROVE calls'[call].head <= head
    <3>1. /\ call \in Calls /\ Made(call) /\ calls[call].kind = "sync"
          /\ calls'[call] = calls[call]
      BY <1>4, <2>1 DEF Waiting, Made
    <3>2. calls[call].head \in Nat /\ calls[call].head <= authority.head
      BY <3>1, SyncParts, Numbers DEF SyncType, Inv, CallInv, CallSound
    <3>. QED
      BY <1>10, <3>1, <3>2
  <2>2. session'[t].pc = "merge" /\ session'[t].head = head
        /\ session'[t] # Settled("resolved")
    BY <1>8, <1>14 DEF Settled
  <2>. QED
    BY <1>19, <2>1, <2>2 DEF PassSound, NoSessionRefresh
<1>21. Apart(t)
  <2>1. view[t].snapshot.next \in Nat
    BY Types, RecordParts DEF Inv
  <2>. QED
    BY <1>4, <1>14, <2>1 DEF Apart
<1>. QED
  BY <1>4, <1>5, <1>15, <1>17, <1>18, <1>19, <1>20, <1>21, StepKeeps DEF TabInv

\* What mergeSyncResponse makes of a record.
LEMMA MergedRecord ==
  ASSUME ClientTypeOK, NEW rec \in RecordType, Known(rec),
         NEW answer \in AnswerType, AnswerSound(answer),
         NEW m, m = Merged(rec, answer)
  PROVE  /\ m \in RecordType /\ m.next = rec.next
         /\ m.pending \subseteq rec.pending
         /\ Older(rec, m) /\ Known(m) /\ Taken(answer, m)
         /\ m.pending \cap answer.entries = {}
         /\ m.confirmed \in {rec.confirmed, answer.through}
<1>1. PICK confirmed : confirmed = Max({rec.confirmed, answer.through})
  OBVIOUS
<1>2. PICK decided : decided = rec.pending \cap DOMAIN answer.decisions
  OBVIOUS
<1>17. PICK settled : settled = DOMAIN answer.decisions \cup answer.entries
  OBVIOUS
<1>3. PICK receipts :
          receipts = {[op |-> op, sequence |-> answer.decisions[op]] :
                         op \in {o \in decided :
                                    answer.decisions[o] # Rejected}}
  OBVIOUS
<1>4. PICK awaiting :
          awaiting = {receipt \in rec.awaiting \cup receipts :
                         /\ receipt.op \notin answer.entries
                         /\ receipt.sequence > confirmed}
  OBVIOUS
<1>5. m = [rec EXCEPT !.confirmed = confirmed,
                      !.pending = rec.pending \ settled,
                      !.awaiting = awaiting]
  BY <1>1, <1>2, <1>3, <1>4, <1>17 DEF Merged, Receipts
<1>6. /\ m.next = rec.next /\ m.confirmed = confirmed
      /\ m.pending = rec.pending \ settled /\ m.awaiting = awaiting
      /\ m = [next |-> m.next, confirmed |-> m.confirmed,
              pending |-> m.pending, awaiting |-> m.awaiting]
  BY <1>5 DEF RecordType
<1>7. /\ answer.through \in Sequence /\ rec.confirmed \in Sequence
      /\ answer.through \in Nat /\ rec.confirmed \in Nat
      /\ answer.head \in Nat /\ authority.head \in Nat
      /\ answer.decisions \in Decisions
  BY Numbers, Types DEF AnswerType, RecordType
<1>8. /\ confirmed \in {rec.confirmed, answer.through}
      /\ rec.confirmed <= confirmed /\ answer.through <= confirmed
  <2>1. PICK a, b : a = rec.confirmed /\ b = answer.through
    OBVIOUS
  <2>2. a \in Int /\ b \in Int
    BY <1>7, <2>1
  <2>3. /\ Max({a, b}) \in {a, b}
        /\ a <= Max({a, b}) /\ b <= Max({a, b})
    BY <2>2, MaxOfTwo
  <2>. QED
    BY <1>1, <2>1, <2>3
<1>9. confirmed \in Sequence /\ confirmed <= authority.head
  <2>1. answer.through <= answer.head
    <3>1. answer.basis.confirmed \in Nat
      BY RecordParts DEF AnswerType
    <3>. QED
      BY <1>7, <3>1, PageOfLog DEF AnswerSound
  <2>2. answer.through <= authority.head /\ rec.confirmed <= authority.head
    BY <1>7, <2>1 DEF AnswerSound, Known
  <2>. QED
    BY <1>7, <1>8, <2>2
<1>10. \A receipt \in receipts :
           /\ receipt \in [op : Operation, sequence : Sequence \ {0}]
           /\ receipt.op \in decided
           /\ receipt.sequence <= authority.head
  <2>1. ASSUME NEW op \in decided, answer.decisions[op] # Rejected
        PROVE  /\ op \in Operation
               /\ answer.decisions[op] \in Sequence \ {0}
               /\ answer.decisions[op] <= authority.head
    <3>1. op \in DOMAIN answer.decisions /\ op \in rec.pending
      BY <1>2, <2>1
    <3>2. answer.decisions[op] \in Sequence /\ op \in Operation
      BY <1>7, <3>1, DecisionParts
    <3>3. answer.decisions[op] <= answer.head /\ answer.decisions[op] \in Nat
      BY <3>1, <3>2, Numbers DEF AnswerSound
    <3>. QED
      BY <1>7, <2>1, <3>2, <3>3 DEF AnswerSound, Rejected
  <2>. QED
    BY <1>3, <2>1
<1>11. /\ rec.pending \in SUBSET Operation
       /\ rec.awaiting \in SUBSET [op : Operation, sequence : Sequence \ {0}]
       /\ rec.next \in 1..Cardinality(Calls) + 1
  BY DEF RecordType
<1>12. m \in RecordType
  <2>1. m.awaiting \in SUBSET [op : Operation, sequence : Sequence \ {0}]
    BY <1>4, <1>6, <1>10, <1>11
  <2>2. m.pending \in SUBSET Operation
    BY <1>6, <1>11
  <2>. QED
    BY <1>6, <1>9, <1>11, <2>1, <2>2 DEF RecordType
<1>13. Unsettled(m) \subseteq Unsettled(rec)
  <2>1. ASSUME NEW receipt \in m.awaiting PROVE receipt.op \in Unsettled(rec)
    BY <1>2, <1>4, <1>6, <1>10, <2>1 DEF Unsettled
  <2>2. m.pending \subseteq Unsettled(rec)
    BY <1>6 DEF Unsettled
  <2>. QED
    BY <2>1, <2>2 DEF Unsettled
<1>14. Older(rec, m)
  BY <1>6, <1>8, <1>11, <1>12, <1>13, RecordParts DEF Older
<1>15. Known(m)
  <2>1. \A receipt \in m.awaiting :
            confirmed < receipt.sequence /\ receipt.sequence <= authority.head
    <3>1. \A receipt \in m.awaiting : receipt.sequence \in Nat
      BY <1>12, RecordParts
    <3>2. confirmed \in Nat
      BY <1>9, Numbers
    <3>. QED
      BY <1>4, <1>6, <1>10, <3>1, <3>2 DEF Known
  <2>. QED
    BY <1>6, <1>9, <1>13, <2>1 DEF Known
<1>16. Taken(answer, m)
  BY <1>6, <1>8, <1>17 DEF Taken
<1>18. m.pending \cap answer.entries = {}
  BY <1>6, <1>17
<1>. QED
  BY <1>6, <1>8, <1>12, <1>14, <1>15, <1>16, <1>18

\* Merge.
LEMMA MergeKeeps ==
  ASSUME Inv, NEW t \in Tabs, Merge(t)
  PROVE  Inv'
<1>1. PICK answer : answer = session[t]
  OBVIOUS
<1>2. PICK rec : rec = record'
  OBVIOUS
<1>3. /\ answer.pc = "merge" /\ rec = Merged(record, answer)
      /\ authority' = authority /\ foreign' = foreign /\ closed' = closed
      /\ requested' = requested /\ calls' = calls
  BY <1>1, <1>2 DEF Merge
<1>4. answer \in AnswerType /\ AnswerSound(answer)
  <2>1. answer \in SessionType
    BY <1>1, Types DEF Inv
  <2>. QED
    BY <1>1, <1>3, <2>1, SessionParts DEF Inv, TabInv, SessionSound
<1>5. /\ rec \in RecordType /\ rec.next = record.next
      /\ rec.pending \subseteq record.pending
      /\ Older(record, rec) /\ Known(rec) /\ Taken(answer, rec)
      /\ rec.pending \cap answer.entries = {}
      /\ rec.confirmed \in {record.confirmed, answer.through}
  <2>1. record \in RecordType /\ Known(record) /\ ClientTypeOK
    BY Types DEF Inv, RecordSound
  <2>. QED
    BY <1>3, <1>4, <2>1, MergedRecord
<1>6. PICK s : s = [answer EXCEPT !.pc = "refresh"]
  OBVIOUS
<1>7. /\ s \in AnswerType /\ s.pc = "refresh" /\ s.basis = answer.basis
      /\ s.head = answer.head /\ s.through = answer.through
      /\ s.decisions = answer.decisions /\ s.entries = answer.entries
  BY <1>4, <1>6 DEF AnswerType
<1>8. /\ session' \in [Tabs -> SessionType] /\ session'[t] = s
      /\ \A tab \in Tabs \ {t} : session'[tab] = session[tab]
  <2>1. session' = [session EXCEPT ![t] = s]
    BY <1>1, <1>6 DEF Merge, Become
  <2>2. s \in SessionType
    BY <1>7 DEF SessionType
  <2>. QED
    BY <2>1, <2>2 DEF Inv, ClientTypeOK
<1>9. PICK new : new = [owner |-> SessionOwner, snapshot |-> Unread]
  OBVIOUS
<1>10. PICK q : q = view[t].queue
  OBVIOUS
<1>11. PICK v : v = [view[t] EXCEPT !.queue = Append(q, new)]
  OBVIOUS
<1>12. new \in RefreshType /\ q \in Seq(RefreshType)
  BY <1>9, <1>10, QueueParts DEF RefreshType, Inv
<1>13. /\ v \in ViewType /\ v.phase = view[t].phase
       /\ v.snapshot = view[t].snapshot /\ v.queue = Append(q, new)
  <2>1. Append(q, new) \in Seq(RefreshType) /\ view[t] \in ViewType
    BY <1>12, AppendProperties, Types DEF Inv
  <2>. QED
    BY <1>11, <2>1 DEF ViewType
<1>14. /\ view' \in [Tabs -> ViewType] /\ view'[t] = v
       /\ \A tab \in Tabs \ {t} : view'[tab] = view[tab]
  <2>1. view' = [view EXCEPT ![t] = v]
    BY <1>9, <1>10, <1>11 DEF Merge, RefreshFor
  <2>. QED
    BY <1>13, <2>1 DEF Inv, ClientTypeOK
<1>15. ClientTypeOK'
  BY <1>2, <1>3, <1>5, <1>8, <1>14 DEF Inv, ClientTypeOK
<1>16. Advance
  BY <1>2, <1>3, <1>5, Types DEF Inv, Advance, LogGrows
<1>17. RecordSound'
  <2>1. Stored' = Stored
    BY <1>3 DEF Stored, Made
  <2>2. Known(record)'
    BY <1>2, <1>3, <1>5 DEF Known
  <2>3. ConfirmedNotPending'
    <3>1. PICK d \in Decisions : d = authority.decided
      BY Types DEF Inv
    <3>2. PICK basis \in RecordType : basis = answer.basis
      BY <1>4 DEF AnswerType
    <3>3. /\ record.confirmed \in Nat /\ basis.confirmed \in Nat
          /\ answer.through \in Nat /\ basis.confirmed <= record.confirmed
          /\ answer.entries = PageEntries(d, basis.confirmed, answer.through)
      BY <1>4, <3>1, <3>2, Types, RecordParts, Numbers
      DEF Inv, AnswerType, AnswerSound, Past, Older
    <3>4. ASSUME NEW op \in rec.pending \cap DOMAIN d
          PROVE  d[op] = Rejected \/ d[op] > rec.confirmed
      <4>1. op \in record.pending /\ op \notin answer.entries /\ d[op] \in Nat
        BY <1>5, <3>4, DecisionParts, Numbers
      <4>2. d[op] = Rejected \/ d[op] > record.confirmed
        BY <3>1, <3>4, <4>1 DEF Inv, RecordSound, ConfirmedNotPending
      <4>3. ~ (basis.confirmed < d[op] /\ d[op] <= answer.through)
        BY <3>3, <3>4, <4>1 DEF PageEntries
      <4>. QED
        BY <1>5, <3>3, <4>1, <4>2, <4>3
    <3>. QED
      BY <1>2, <1>3, <3>1, <3>4 DEF ConfirmedNotPending
  <2>. QED
    BY <1>2, <1>3, <1>5, <2>1, <2>2, <2>3 DEF Inv, RecordSound
<1>18. SessionSound(t)'
  <2>1. AnswerSound(answer)'
    BY <1>4, <1>15, <1>16, AnswerStays DEF Inv
  <2>2. AnswerSound(s)'
    BY <1>7, <2>1 DEF AnswerSound
  <2>3. Taken(s, record')
    BY <1>2, <1>5, <1>7 DEF Taken
  <2>. QED
    BY <1>7, <1>8, <2>2, <2>3 DEF SessionSound, Taken
<1>19. PhaseOf(t)' /\ ClosedSound(t)'
  <2>1. session[t].pc = "merge" /\ session'[t].pc = "refresh"
    BY <1>1, <1>3, <1>7, <1>8
  <2>2. PhaseOf(t) /\ ClosedSound(t)
    BY DEF Inv, TabInv
  <2>. QED
    BY <1>3, <1>13, <1>14, <2>1, <2>2 DEF PhaseOf, ClosedSound, InSession
<1>20. \A i \in DOMAIN view[t].queue : view[t].queue[i].owner # SessionOwner
  BY <1>1, <1>3, NoRefreshYet
<1>21. ViewSound(t)'
  <2>1. WaitFor(t, view[t].queue)
    BY <1>3, <1>20 DEF WaitFor
  <2>2. /\ view'[t].queue =
               Append(view[t].queue, [owner |-> SessionOwner, snapshot |-> Unread])
        /\ view'[t].snapshot = view[t].snapshot
        /\ session'[t].pc = "refresh"
    BY <1>7, <1>8, <1>9, <1>10, <1>13, <1>14
  <2>. QED
    BY <1>15, <1>16, <1>20, <2>1, <2>2, ViewAppends DEF Inv, TabInv
<1>22. PassSound(t)'
  <2>1. \A i \in DOMAIN view'[t].queue :
            view'[t].queue[i].snapshot = Unread
            \/ view'[t].queue[i].owner # SessionOwner
    <3>1. PICK n : n = Len(q)
      OBVIOUS
    <3>2. n \in Nat /\ DOMAIN q = 1..n
      BY <1>12, <3>1
    <3>3. /\ DOMAIN Append(q, new) = 1..n + 1
          /\ \A i \in 1..n : Append(q, new)[i] = q[i]
          /\ Append(q, new)[n + 1] = new
      BY <1>12, <3>1, <3>2, AppendProperties
    <3>4. new.snapshot = Unread
      BY <1>9
    <3>. QED
      BY <1>10, <1>13, <1>14, <1>20, <3>2, <3>3, <3>4
  <2>2. /\ session'[t].pc = "refresh" /\ session[t].pc = "merge"
        /\ session'[t].head = session[t].head
        /\ session'[t] # Settled("resolved")
    BY <1>1, <1>3, <1>7, <1>8 DEF Settled
  <2>3. \A call \in Waiting(t, "sync")' :
            call \in Waiting(t, "sync") /\ calls'[call] = calls[call]
    BY <1>3 DEF Waiting
  <2>4. PassFollows(t)
    BY <1>3, <2>1, <2>2, <2>3 DEF PassFollows
  <2>. QED
    BY <1>15, <1>16, <2>4, PassStays DEF Inv, TabInv, CallInv
<1>23. Apart(t)
  <2>1. view[t].snapshot.next \in Nat
    BY Types, RecordParts DEF Inv
  <2>. QED
    BY <1>3, <1>8, <1>13, <1>14, <2>1 DEF Apart
<1>. QED
  BY <1>3, <1>15, <1>16, <1>17, <1>18, <1>19, <1>21, <1>22, <1>23, StepKeeps
  DEF TabInv

\* Settle.
LEMMA SettleKeeps ==
  ASSUME Inv, NEW t \in Tabs, Settle(t)
  PROVE  Inv'
<1>1. PICK s \in SessionType : s = session[t]
  BY Types DEF Inv
<1>2. /\ s.pc = "settling" /\ s = Settled(s.outcome)
      /\ s.outcome \in {"resolved", "rejected"}
      /\ record' = record /\ authority' = authority /\ foreign' = foreign
      /\ closed' = closed /\ requested' = requested /\ view' = view
      /\ session' = [session EXCEPT ![t] = NoSession]
  <2>1. s.pc = "settling"
    BY <1>1 DEF Settle
  <2>2. s.outcome \in {"resolved", "rejected"}
    BY <2>1 DEF SessionType, AnswerType
  <2>. QED
    BY <2>1, <2>2, SessionParts DEF Settle, durable, Become
<1>3. /\ session' \in [Tabs -> SessionType] /\ session'[t] = NoSession
      /\ \A tab \in Tabs \ {t} : session'[tab] = session[tab]
  <2>1. NoSession \in SessionType
    BY DEF NoSession, SessionType
  <2>. QED
    BY <1>2, <2>1 DEF Inv, ClientTypeOK
<1>4. PICK W : W = Waiting(t, "sync")
  OBVIOUS
<1>5. calls' = [call \in Calls |->
                   IF call \in W
                   THEN [calls[call] EXCEPT !.status = s.outcome]
                   ELSE calls[call]]
  BY <1>1, <1>4 DEF Settle
<1>6. ASSUME NEW call \in Calls, call \in W
      PROVE  /\ calls[call] \in SyncType /\ calls'[call] \in SyncType
             /\ Made(call) /\ Made(call)'
             /\ calls[call].tab = t
             /\ calls'[call].tab = t /\ calls'[call].status = s.outcome
             /\ calls'[call].kind = "sync"
             /\ calls'[call].owed = calls[call].owed
             /\ calls'[call].head = calls[call].head
             /\ calls'[call].late = calls[call].late
  <2>1. PICK c : c = calls[call]
    OBVIOUS
  <2>2. c.status = "waiting" /\ c.kind = "sync" /\ c.tab = t
    BY <1>4, <1>6, <2>1 DEF Waiting
  <2>3. Made(call)
    BY <2>1, <2>2 DEF Made
  <2>4. c \in SyncType
    BY <2>1, <2>2, <2>3, SyncParts DEF Inv
  <2>5. PICK d : d = [c EXCEPT !.status = s.outcome]
    OBVIOUS
  <2>6. /\ d \in SyncType /\ d.tab = t /\ d.status = s.outcome
        /\ d.kind = "sync" /\ d.owed = c.owed /\ d.head = c.head
        /\ d.late = c.late
    BY <1>2, <2>2, <2>4, <2>5 DEF SyncType
  <2>7. calls'[call] = d
    BY <1>5, <1>6, <2>1, <2>5
  <2>8. Made(call)'
    BY <1>2, <2>6, <2>7 DEF Made
  <2>. QED
    BY <2>1, <2>2, <2>3, <2>4, <2>6, <2>7, <2>8
<1>7. \A call \in Calls : call \notin W => calls'[call] = calls[call]
  BY <1>5
<1>8. calls' \in [Calls -> CallType]
  <2>1. \A call \in Calls : calls'[call] \in CallType
    BY <1>6, <1>7, Types DEF Inv, CallType
  <2>2. DOMAIN calls' = Calls
    BY <1>5
  <2>3. calls' = [call \in Calls |-> calls'[call]]
    BY <1>5
  <2>. QED
    BY <2>1, <2>3
<1>9. ClientTypeOK'
  BY <1>2, <1>3, <1>8 DEF Inv, ClientTypeOK
<1>10. RecordSound' /\ Advance
  <2>1. ASSUME NEW call \in Calls
        PROVE  (Made(call) /\ calls[call].kind = "enqueue" /\ calls[call].op # 0)
               = (Made(call)' /\ calls'[call].kind = "enqueue"
                              /\ calls'[call].op # 0)
    <3>1. CASE call \in W
      <4>1. calls[call].kind = "sync" /\ calls'[call].kind = "sync"
        BY <1>6, <3>1 DEF SyncType
      <4>. QED
        BY <4>1
    <3>2. CASE call \notin W
      BY <1>7, <3>2 DEF Made
    <3>. QED
      BY <3>1, <3>2
  <2>2. Stored' = Stored
    BY <2>1 DEF Stored
  <2>. QED
    BY <1>2, <2>2, DurableStays DEF durable
<1>11. SessionSound(t)' /\ ClosedSound(t)' /\ PhaseOf(t)'
  <2>1. PhaseOf(t) /\ ClosedSound(t) /\ session[t].pc = "settling"
        /\ session'[t].pc = "none"
    BY <1>1, <1>2, <1>3 DEF Inv, TabInv, NoSession
  <2>2. SessionSound(t)'
    BY <2>1 DEF SessionSound
  <2>3. ClosedSound(t)'
    BY <1>2, <2>1 DEF ClosedSound
  <2>4. PhaseOf(t)'
    BY <1>2, <2>1 DEF PhaseOf, InSession
  <2>. QED
    BY <2>2, <2>3, <2>4
<1>12. \A i \in DOMAIN view[t].queue : view[t].queue[i].owner # SessionOwner
  BY <1>1, <1>2, NoRefreshYet
<1>13. ViewSound(t)'
  <2>1. ASSUME NEW i \in DOMAIN view[t].queue
        PROVE  calls'[view[t].queue[i].owner] = calls[view[t].queue[i].owner]
    <3>1. PICK owner : owner = view[t].queue[i].owner
      OBVIOUS
    <3>2. owner \in Calls /\ calls[owner].status = "refreshing"
      BY <1>12, <3>1, OwnerParts
    <3>3. owner \notin W
      BY <1>4, <3>2 DEF Waiting
    <3>. QED
      BY <1>7, <3>1, <3>2, <3>3
  <2>2. WaitFor(t, view[t].queue)
    BY <1>12, <2>1 DEF WaitFor
  <2>3. view'[t].queue = view[t].queue /\ view'[t].snapshot = view[t].snapshot
    BY <1>2
  <2>. QED
    BY <1>9, <1>10, <2>2, <2>3, ViewStays DEF Inv, TabInv
<1>14. PassSound(t)'
  <2>1. ASSUME NEW call \in Waiting(t, "sync")' PROVE FALSE
    <3>1. call \in Calls /\ calls'[call].status = "waiting"
          /\ calls'[call].kind = "sync" /\ calls'[call].tab = t
      BY <2>1 DEF Waiting
    <3>2. call \notin W
      BY <1>2, <1>6, <3>1
    <3>3. call \in W
      BY <1>4, <1>7, <3>1, <3>2 DEF Waiting
    <3>. QED
      BY <3>2, <3>3
  <2>. QED
    BY <2>1 DEF PassSound
<1>15. ASSUME NEW call \in Calls, calls'[call] # calls[call]
       PROVE  CallInv(call)'
  <2>1. call \in W
    BY <1>7, <1>15
  <2>2. CallSound(call)'
    <3>1. CallSound(call) /\ Made(call) /\ calls[call].kind = "sync"
      BY <1>6, <2>1 DEF Inv, CallInv, SyncType
    <3>2. calls'[call].kind \notin Writes /\ calls'[call].kind # "close"
      BY <1>6, <2>1 DEF Writes
    <3>. QED
      BY <1>2, <1>6, <2>1, <3>1, <3>2 DEF CallSound
  <2>3. s.outcome = "resolved" => calls[call].late \/ CaughtUp(calls[call])
    BY <1>1, <1>2, <1>4, <2>1 DEF Inv, TabInv, PassSound
  <2>4. CaughtUp(calls[call])' = CaughtUp(calls[call])
    BY <1>2, <1>6, <2>1 DEF CaughtUp
  <2>5. calls'[call].kind \notin Writes /\ calls'[call].kind # "enqueue"
    BY <1>6, <2>1 DEF Writes
  <2>. QED
    BY <1>6, <2>1, <2>2, <2>3, <2>4, <2>5 DEF CallInv
<1>16. Apart(t)
  <2>1. view[t].snapshot.next \in Nat
    BY Types, RecordParts DEF Inv
  <2>2. \A call \in Calls :
            \/ calls'[call] = calls[call]
            \/ calls[call].tab = t /\ calls'[call].tab = t
    BY <1>6, <1>7
  <2>. QED
    BY <1>2, <1>3, <2>1, <2>2 DEF Apart
<1>. QED
  BY <1>9, <1>10, <1>11, <1>13, <1>14, <1>15, <1>16, StepKeeps DEF TabInv

\* ReadView.
LEMMA ReadViewKeeps ==
  ASSUME Inv, NEW t \in Tabs, ReadView(t)
  PROVE  Inv'
<1>1. PICK q : q = view[t].queue
  OBVIOUS
<1>2. PICK rec \in RecordType : rec = record
  BY Types DEF Inv
<1>3. PICK new : new = [q[1] EXCEPT !.snapshot = rec]
  OBVIOUS
<1>4. PICK next : next = [q EXCEPT ![1] = new]
  OBVIOUS
<1>5. PICK v : v = [view[t] EXCEPT !.queue = next]
  OBVIOUS
<1>6. /\ 1 \in DOMAIN q /\ view' = [view EXCEPT ![t] = v]
      /\ record' = record /\ authority' = authority /\ foreign' = foreign
      /\ closed' = closed /\ requested' = requested /\ calls' = calls
      /\ session' = session
  <2>1. PICK i \in DOMAIN q :
            /\ i = 1
            /\ view' = [view EXCEPT ![t].queue[i].snapshot = record]
    BY <1>1 DEF ReadView, InTurn
  <2>2. view' = [view EXCEPT ![t] = v]
    BY <1>1, <1>2, <1>3, <1>4, <1>5, <2>1
  <2>. QED
    BY <2>1, <2>2 DEF ReadView, durable
<1>7. /\ q \in Seq(RefreshType)
      /\ \A i \in DOMAIN q : q[i] \in RefreshType
  BY <1>1, QueueParts DEF Inv
<1>8. new \in RefreshType /\ new.owner = q[1].owner /\ new.snapshot = rec
  BY <1>2, <1>3, <1>6, <1>7 DEF RefreshType
<1>9. /\ next \in Seq(RefreshType) /\ DOMAIN next = DOMAIN q
      /\ next[1] = new
      /\ \A i \in DOMAIN q : i # 1 => next[i] = q[i]
  BY <1>4, <1>6, <1>7, <1>8
<1>10. /\ v \in ViewType /\ v.phase = view[t].phase
       /\ v.snapshot = view[t].snapshot /\ v.queue = next
  <2>1. view[t] \in ViewType
    BY Types DEF Inv
  <2>. QED
    BY <1>5, <1>9, <2>1 DEF ViewType
<1>11. /\ view' \in [Tabs -> ViewType] /\ view'[t] = v
       /\ \A tab \in Tabs \ {t} : view'[tab] = view[tab]
  BY <1>6, <1>10 DEF Inv, ClientTypeOK
<1>12. ClientTypeOK'
  BY <1>6, <1>11 DEF Inv, ClientTypeOK
<1>13. RecordSound' /\ Advance
  <2>1. Stored' = Stored
    BY <1>6 DEF Stored, Made
  <2>. QED
    BY <1>6, <2>1, DurableStays DEF durable
<1>14. SessionSound(t)' /\ ClosedSound(t)' /\ PhaseOf(t)'
  <2>1. SessionSound(t)'
    BY <1>6, <1>12, <1>13, SessionStays DEF Inv, TabInv
  <2>. QED
    BY <1>6, <1>10, <1>11, <2>1
    DEF Inv, TabInv, ClosedSound, PhaseOf, InSession
<1>15. PICK snapshot \in RecordType : snapshot = view[t].snapshot
  BY Types DEF Inv
<1>16. Past(rec) /\ Past(snapshot) /\ Older(snapshot, rec)
  <2>1. Older(rec, rec)
    BY RecordParts DEF Older
  <2>. QED
    BY <1>2, <1>15, <2>1 DEF Inv, RecordSound, TabInv, ViewSound, Past
<1>17. Past(rec)' /\ Past(snapshot)'
  BY <1>12, <1>13, <1>16, PastStays DEF Inv
<1>18. \A i \in DOMAIN q : /\ RefreshSound(t, q[i])
                           /\ q[i].snapshot # Unread => i = 1
                           /\ \A j \in DOMAIN q :
                                  q[i].owner = q[j].owner => i = j
  BY <1>1 DEF Inv, TabInv, ViewSound
<1>19. RefreshSound(t, new)'
  <2>1. Older(view[t].snapshot, new.snapshot)'
    BY <1>8, <1>10, <1>11, <1>15, <1>16 DEF Older
  <2>2. Past(new.snapshot)'
    BY <1>8, <1>17
  <2>3. ASSUME new.owner = SessionOwner
        PROVE  session'[t].pc = "refresh" /\ Taken(session[t], new.snapshot)'
    <3>1. session[t].pc = "refresh"
      BY <1>6, <1>8, <1>18, <2>3 DEF RefreshSound
    <3>2. Taken(session[t], record)
      BY <3>1 DEF Inv, TabInv, SessionSound
    <3>. QED
      BY <1>2, <1>6, <1>8, <3>1, <3>2 DEF Taken
  <2>4. ASSUME new.owner # SessionOwner
        PROVE  /\ calls'[new.owner].status = "refreshing"
               /\ calls'[new.owner].tab = t
               /\ calls'[new.owner].op < new.snapshot.next
    <3>1. PICK owner : owner = new.owner
      OBVIOUS
    <3>2. owner = view[t].queue[1].owner /\ 1 \in DOMAIN view[t].queue
      BY <1>1, <1>6, <1>8, <3>1
    <3>3. /\ owner \in Calls /\ calls[owner].status = "refreshing"
          /\ calls[owner].tab = t /\ calls[owner] \in WriteType
      BY <2>4, <3>1, <3>2, OwnerParts
    <3>4. Made(owner) /\ calls[owner].kind \in Writes
      BY <3>3 DEF Made, WriteType
    <3>5. calls[owner].op < record.next
      BY <3>3, <3>4 DEF Inv, CallInv, CallSound
    <3>. QED
      BY <1>2, <1>6, <1>8, <3>1, <3>3, <3>5
  <2>. QED
    BY <2>1, <2>2, <2>3, <2>4 DEF RefreshSound
<1>20. ASSUME NEW i \in DOMAIN q, i # 1
       PROVE  RefreshSound(t, q[i])'
  <2>1. PICK refresh : refresh = q[i]
    OBVIOUS
  <2>2. refresh \in RefreshType /\ RefreshSound(t, refresh)
    BY <1>7, <1>18, <1>20, <2>1
  <2>3. refresh.snapshot = Unread
    BY <1>18, <1>20, <2>1
  <2>4. RefreshSound(t, refresh)'
    BY <1>6, <1>12, <1>13, <2>2, <2>3, RefreshStays DEF Inv
  <2>. QED
    BY <2>1, <2>4
<1>21. ViewSound(t)'
  <2>1. Past(view[t].snapshot)'
    BY <1>10, <1>11, <1>15, <1>17
  <2>2. PICK shown : shown = view'[t].queue
    OBVIOUS
  <2>3. shown = next
    BY <1>10, <1>11, <2>2
  <2>4. ASSUME NEW i \in DOMAIN shown PROVE RefreshSound(t, shown[i])'
    BY <1>9, <1>19, <1>20, <2>3, <2>4
  <2>5. ASSUME NEW i \in DOMAIN shown, NEW j \in DOMAIN shown
        PROVE  /\ shown[i].snapshot # Unread => i = 1
               /\ shown[i].owner = shown[j].owner => i = j
    <3>1. shown[i].owner = q[i].owner /\ shown[j].owner = q[j].owner
      BY <1>8, <1>9, <2>3, <2>5
    <3>2. i # 1 => shown[i].snapshot = q[i].snapshot
      BY <1>9, <2>3, <2>5
    <3>. QED
      BY <1>9, <1>18, <2>3, <2>5, <3>1, <3>2
  <2>. QED
    BY <2>1, <2>2, <2>4, <2>5 DEF ViewSound
<1>22. PassSound(t)'
  <2>1. ASSUME NEW call \in Waiting(t, "sync")', NEW i \in DOMAIN next,
               next[i].owner = SessionOwner, next[i].snapshot # Unread
        PROVE  \A op \in calls'[call].owed : op < next[i].snapshot.next
    <3>1. next[i] = new
      BY <1>9, <1>18, <2>1
    <3>2. call \in Calls /\ Made(call) /\ calls[call].kind = "sync"
      BY <1>6, <2>1 DEF Waiting, Made
    <3>3. calls[call].owed \subseteq 1..record.next - 1
      BY <3>2 DEF Inv, CallInv, CallSound
    <3>4. record.next \in Nat
      BY <1>2, RecordParts
    <3>. QED
      BY <1>2, <1>6, <1>8, <3>1, <3>3, <3>4
  <2>2. PassSound(t) /\ Waiting(t, "sync")' = Waiting(t, "sync")
    BY <1>6 DEF Inv, TabInv, Waiting
  <2>3. view'[t].queue = next
    BY <1>10, <1>11
  <2>4. \A call \in Calls : CaughtUp(calls[call])' = CaughtUp(calls[call])
    BY <1>6 DEF CaughtUp
  <2>5. \A call \in Waiting(t, "sync") : call \in Calls
    BY DEF Waiting
  <2>6. ASSUME NEW call \in Waiting(t, "sync")'
        PROVE  /\ ~ requested'[t] =>
                      /\ session'[t].pc \in {"merge", "refresh"} =>
                             calls'[call].head <= session'[t].head
                      /\ session'[t].pc = "loop" => CaughtUp(calls[call])'
               /\ session'[t] = Settled("resolved") =>
                      calls'[call].late \/ CaughtUp(calls[call])'
    BY <1>6, <2>2, <2>4, <2>5, <2>6 DEF PassSound
  <2>. QED
    BY <2>1, <2>3, <2>6 DEF PassSound
<1>23. Apart(t)
  <2>1. view[t].snapshot.next \in Nat
    BY <1>15, RecordParts
  <2>. QED
    BY <1>6, <1>10, <1>11, <2>1 DEF Apart
<1>. QED
  BY <1>6, <1>12, <1>13, <1>14, <1>21, <1>22, <1>23, StepKeeps DEF TabInv

\* A write comes to another status; nothing else of any call changes.
LEMMA WriteMoves ==
  ASSUME Inv, NEW call \in Calls, calls[call] \in WriteType,
         NEW s \in {"refreshing", "resolved", "rejected"},
         calls' = [calls EXCEPT ![call].status = s]
  PROVE  /\ calls' \in [Calls -> CallType] /\ calls'[call] \in WriteType
         /\ calls'[call].status = s /\ calls'[call].op = calls[call].op
         /\ calls'[call].kind = calls[call].kind
         /\ calls'[call].tab = calls[call].tab
         /\ Made(call) /\ Made(call)'
         /\ \A other \in Calls : other # call => calls'[other] = calls[other]
         /\ Stored' = Stored
<1>1. PICK c : c = calls[call]
  OBVIOUS
<1>2. PICK d : d = [c EXCEPT !.status = s]
  OBVIOUS
<1>3. /\ d \in WriteType /\ d.status = s /\ d.op = c.op /\ d.kind = c.kind
      /\ d.tab = c.tab
  BY <1>1, <1>2 DEF WriteType
<1>4. calls' = [calls EXCEPT ![call] = d]
  BY <1>1, <1>2
<1>5. calls \in [Calls -> CallType] /\ d \in CallType
  BY <1>3 DEF Inv, ClientTypeOK, CallType
<1>6. /\ calls' \in [Calls -> CallType] /\ calls'[call] = d
      /\ \A other \in Calls : other # call => calls'[other] = calls[other]
  BY <1>4, <1>5
<1>7. Made(call) /\ Made(call)'
  BY <1>1, <1>3, <1>6 DEF Made, WriteType
<1>8. ASSUME NEW other \in Calls
      PROVE  (Made(other) /\ calls[other].kind = "enqueue"
                          /\ calls[other].op # 0)
             = (Made(other)' /\ calls'[other].kind = "enqueue"
                             /\ calls'[other].op # 0)
  BY <1>1, <1>3, <1>6, <1>7 DEF Made
<1>9. Stored' = Stored
  BY <1>8 DEF Stored
<1>. QED
  BY <1>1, <1>3, <1>6, <1>7, <1>9

\* The first refresh of a queue is done.
Serves(t, snapshot, v) ==
    v = [view[t] EXCEPT !.snapshot = snapshot,
                        !.queue = RemoveAt(view[t].queue, 1)]

\* What is left of the view then.
LEMMA ServedParts ==
  ASSUME Inv, NEW t \in Tabs, 1 \in DOMAIN view[t].queue,
         NEW snapshot \in RecordType, NEW v, Serves(t, snapshot, v)
  PROVE  /\ v \in ViewType /\ v.phase = view[t].phase
         /\ v.snapshot = snapshot /\ v.queue = RemoveAt(view[t].queue, 1)
         /\ \A i \in DOMAIN v.queue :
                /\ i + 1 \in DOMAIN view[t].queue
                /\ v.queue[i] = view[t].queue[i + 1]
                /\ v.queue[i].owner # view[t].queue[1].owner
<1>1. PICK q \in Seq(RefreshType) : q = view[t].queue
  BY QueueParts DEF Inv
<1>2. PICK rest : rest = RemoveAt(q, 1)
  OBVIOUS
<1>3. /\ rest \in Seq(RefreshType) /\ Len(rest) = Len(q) - 1
      /\ \A i \in DOMAIN rest : i + 1 \in DOMAIN q /\ rest[i] = q[i + 1]
  BY <1>1, <1>2, QueueTail
<1>4. /\ v \in ViewType /\ v.phase = view[t].phase /\ v.snapshot = snapshot
      /\ v.queue = rest
  <2>1. view[t] \in ViewType
    BY Types DEF Inv
  <2>2. v = [view[t] EXCEPT !.snapshot = snapshot, !.queue = rest]
    BY <1>1, <1>2 DEF Serves
  <2>. QED
    BY <1>3, <2>1, <2>2 DEF ViewType
<1>5. ASSUME NEW i \in DOMAIN rest, rest[i].owner = q[1].owner PROVE FALSE
  <2>1. \A k, l \in DOMAIN q : q[k].owner = q[l].owner => k = l
    BY <1>1 DEF Inv, TabInv, ViewSound
  <2>2. i + 1 = 1
    BY <1>1, <1>3, <1>5, <2>1
  <2>3. i >= 1 /\ i \in Nat
    BY <1>3
  <2>. QED
    BY <2>2, <2>3
<1>. QED
  BY <1>1, <1>2, <1>3, <1>4, <1>5

\* The first refresh is that of a call, which returns.
LEMMA CallReturns ==
  ASSUME Inv, NEW t \in Tabs, 1 \in DOMAIN view[t].queue,
         NEW owner, owner = view[t].queue[1].owner, owner # SessionOwner,
         NEW s \in {"resolved", "rejected"},
         calls' = [calls EXCEPT ![owner].status = s],
         NEW snapshot \in RecordType, NEW v, Serves(t, snapshot, v),
         view' = [view EXCEPT ![t] = v],
         UNCHANGED <<record, authority, foreign, closed, requested, session>>,
         snapshot \in {view[t].snapshot, view[t].queue[1].snapshot},
         view[t].snapshot.next <= snapshot.next,
         s = "resolved" => calls[owner].op < snapshot.next
  PROVE  Inv'
<1>1. /\ record' = record /\ authority' = authority /\ foreign' = foreign
      /\ closed' = closed /\ requested' = requested /\ session' = session
  OBVIOUS
<1>2. /\ owner \in Calls /\ calls[owner].status = "refreshing"
      /\ calls[owner].tab = t /\ calls[owner] \in WriteType
  <2>1. 1 \in DOMAIN view[t].queue /\ view[t].queue[1].owner # SessionOwner
    OBVIOUS
  <2>2. /\ view[t].queue[1].owner \in Calls
        /\ calls[view[t].queue[1].owner].status = "refreshing"
        /\ calls[view[t].queue[1].owner].tab = t
        /\ calls[view[t].queue[1].owner] \in WriteType
    BY <2>1, OwnerParts
  <2>3. owner = view[t].queue[1].owner
    OBVIOUS
  <2>. QED
    BY <2>2, <2>3
<1>3. /\ calls' \in [Calls -> CallType] /\ calls'[owner] \in WriteType
      /\ calls'[owner].status = s /\ calls'[owner].op = calls[owner].op
      /\ calls'[owner].kind = calls[owner].kind
      /\ calls'[owner].tab = calls[owner].tab
      /\ Made(owner) /\ Made(owner)'
      /\ \A other \in Calls : other # owner => calls'[other] = calls[other]
      /\ Stored' = Stored
  <2>1. s \in {"refreshing", "resolved", "rejected"}
    OBVIOUS
  <2>. QED
    BY <1>2, <2>1, WriteMoves
<1>4. /\ v \in ViewType /\ v.phase = view[t].phase
      /\ v.snapshot = snapshot /\ v.queue = RemoveAt(view[t].queue, 1)
      /\ \A i \in DOMAIN v.queue :
             /\ i + 1 \in DOMAIN view[t].queue
             /\ v.queue[i] = view[t].queue[i + 1]
             /\ v.queue[i].owner # owner
  BY ServedParts
<1>5. /\ view' \in [Tabs -> ViewType] /\ view'[t] = v
      /\ \A tab \in Tabs \ {t} : view'[tab] = view[tab]
  BY <1>4 DEF Inv, ClientTypeOK
<1>6. ClientTypeOK'
  BY <1>1, <1>3, <1>5 DEF Inv, ClientTypeOK
<1>7. RecordSound' /\ Advance
  BY <1>1, <1>3, DurableStays DEF durable
<1>8. SessionSound(t)' /\ ClosedSound(t)' /\ PhaseOf(t)'
  <2>1. SessionSound(t)'
    BY <1>1, <1>6, <1>7, SessionStays DEF Inv, TabInv
  <2>. QED
    BY <1>1, <1>4, <1>5, <2>1
    DEF Inv, TabInv, ClosedSound, PhaseOf, InSession
<1>9. ViewSound(t)'
  <2>1. ASSUME NEW i \in DOMAIN v.queue, v.queue[i].owner # SessionOwner
        PROVE  calls'[v.queue[i].owner] = calls[v.queue[i].owner]
    <3>1. v.queue[i].owner \in Calls /\ v.queue[i].owner # owner
      <4>1. /\ i + 1 \in DOMAIN view[t].queue
            /\ v.queue[i] = view[t].queue[i + 1]
            /\ v.queue[i].owner # owner
        BY <1>4, <2>1
      <4>2. PICK j \in DOMAIN view[t].queue : v.queue[i] = view[t].queue[j]
        BY <4>1
      <4>3. view[t].queue[j].owner # SessionOwner
        BY <2>1, <4>2
      <4>4. view[t].queue[j].owner \in Calls
        BY <4>3, OwnerParts
      <4>. QED
        BY <4>1, <4>2, <4>4
    <3>. QED
      BY <1>3, <3>1
  <2>2. WaitFor(t, RemoveAt(view[t].queue, 1))
    BY <1>1, <1>4, <2>1 DEF WaitFor
  <2>3. snapshot # Unread
    BY RecordParts
  <2>4. /\ view'[t].queue = RemoveAt(view[t].queue, 1)
        /\ view'[t].snapshot \in {view[t].snapshot, view[t].queue[1].snapshot}
        /\ view'[t].snapshot # Unread
    BY <1>4, <1>5, <2>3
  <2>. QED
    BY <1>6, <1>7, <2>2, <2>4, ViewServes DEF Inv, TabInv
<1>10. PassSound(t)'
  <2>1. \A call \in Waiting(t, "sync")' :
            call \in Waiting(t, "sync") /\ calls'[call] = calls[call]
    BY <1>3 DEF Waiting
  <2>2. \A i \in DOMAIN view'[t].queue :
            \E j \in DOMAIN view[t].queue :
                view[t].queue[j] = view'[t].queue[i]
    BY <1>4, <1>5
  <2>3. PassFollows(t)
    BY <1>1, <2>1, <2>2 DEF PassFollows
  <2>. QED
    BY <1>6, <1>7, <2>3, PassStays DEF Inv, TabInv, CallInv
<1>11. ASSUME NEW call \in Calls, calls'[call] # calls[call]
       PROVE  CallInv(call)'
  <2>1. call = owner
    BY <1>3, <1>11
  <2>2. CallSound(owner) /\ calls[owner].kind \in Writes
    BY <1>2 DEF Inv, CallInv, WriteType
  <2>3. calls[owner].kind # "sync" /\ calls[owner].kind # "close"
    BY <2>2 DEF Writes
  <2>4. CallSound(owner)'
    BY <1>1, <1>3, <2>2, <2>3 DEF CallSound
  <2>6. s = "resolved" =>
            calls'[owner].op < view'[calls'[owner].tab].snapshot.next
    <3>1. calls'[owner].tab = t /\ view'[t].snapshot = snapshot
      BY <1>2, <1>3, <1>4, <1>5
    <3>2. calls'[owner].op = calls[owner].op
      BY <1>3
    <3>. QED
      BY <3>1, <3>2
  <2>. QED
    BY <1>3, <2>1, <2>3, <2>4, <2>6 DEF CallInv
<1>12. Apart(t)
  BY <1>1, <1>2, <1>3, <1>4, <1>5 DEF Apart
<1>. QED
  BY <1>6, <1>7, <1>8, <1>9, <1>10, <1>11, <1>12, StepKeeps DEF TabInv

\* FailRefresh.
LEMMA FailRefreshKeeps ==
  ASSUME Inv, NEW t \in Tabs, FailRefresh(t)
  PROVE  Inv'
<1>1. /\ 1 \in DOMAIN view[t].queue
      /\ view[t].queue[1].owner # SessionOwner
      /\ view' = [view EXCEPT ![t].queue = RemoveAt(@, 1)]
      /\ calls' = [calls EXCEPT ![view[t].queue[1].owner].status = "rejected"]
      /\ UNCHANGED <<record, authority, foreign, closed, requested, session>>
  BY DEF FailRefresh, InTurn, Reject, durable
<1>2. PICK owner : owner = view[t].queue[1].owner
  OBVIOUS
<1>3. owner # SessionOwner
  BY <1>1, <1>2
<1>4. PICK snapshot \in RecordType : snapshot = view[t].snapshot
  BY Types DEF Inv
<1>5. PICK v : v = [view[t] EXCEPT !.snapshot = snapshot,
                                   !.queue = RemoveAt(view[t].queue, 1)]
  OBVIOUS
<1>6. view' = [view EXCEPT ![t] = v]
  <2>1. v = [view[t] EXCEPT !.queue = RemoveAt(view[t].queue, 1)]
    <3>1. view[t] \in ViewType
      BY Types DEF Inv
    <3>. QED
      BY <1>4, <1>5, <3>1 DEF ViewType
  <2>. QED
    BY <1>1, <2>1
<1>7. snapshot.next <= snapshot.next
  BY RecordParts
<1>8. Serves(t, snapshot, v)
  BY <1>5 DEF Serves
<1>9. calls' = [calls EXCEPT ![owner].status = "rejected"]
  BY <1>1, <1>2
<1>. QED
  BY <1>1, <1>2, <1>3, <1>4, <1>6, <1>7, <1>8, <1>9, CallReturns

\* ShowForCall.
LEMMA ShowForCallKeeps ==
  ASSUME Inv, NEW t \in Tabs, ShowForCall(t)
  PROVE  Inv'
<1>1. /\ 1 \in DOMAIN view[t].queue /\ view[t].queue[1].snapshot # Unread
      /\ view[t].queue[1].owner # SessionOwner
      /\ view' = [view EXCEPT
                    ![t].phase = view[t].phase,
                    ![t].snapshot = view[t].queue[1].snapshot,
                    ![t].queue = RemoveAt(@, 1)]
      /\ calls' = [calls EXCEPT ![view[t].queue[1].owner].status = "resolved"]
      /\ UNCHANGED <<record, authority, foreign, closed, requested, session>>
  BY DEF ShowForCall, Ready, InTurn, Show, Resolve, durable
<1>2. PICK owner : owner = view[t].queue[1].owner
  OBVIOUS
<1>3. view[t].queue[1] \in RefreshType /\ RefreshSound(t, view[t].queue[1])
  BY <1>1, QueueParts DEF Inv, TabInv, ViewSound
<1>4. PICK snapshot \in RecordType : snapshot = view[t].queue[1].snapshot
  BY <1>1, <1>3 DEF RefreshType
<1>5. /\ view[t].snapshot.next <= snapshot.next
      /\ calls[owner].op < snapshot.next
  BY <1>1, <1>2, <1>3, <1>4 DEF RefreshSound, Older
<1>6. PICK v : v = [view[t] EXCEPT !.snapshot = snapshot,
                                   !.queue = RemoveAt(view[t].queue, 1)]
  OBVIOUS
<1>7. view' = [view EXCEPT ![t] = v]
  <2>1. v = [view[t] EXCEPT !.phase = view[t].phase, !.snapshot = snapshot,
                            !.queue = RemoveAt(view[t].queue, 1)]
    <3>1. view[t] \in ViewType
      BY Types DEF Inv
    <3>. QED
      BY <1>6, <3>1 DEF ViewType
  <2>. QED
    BY <1>1, <1>4, <2>1
<1>8. Serves(t, snapshot, v)
  BY <1>6 DEF Serves
<1>9. calls' = [calls EXCEPT ![owner].status = "resolved"]
  BY <1>1, <1>2
<1>. QED
  BY <1>1, <1>2, <1>4, <1>5, <1>7, <1>8, <1>9, CallReturns

\* The refresh that a session waits for, once it has read.
LEMMA SessionRefresh ==
  ASSUME Inv, NEW t \in Tabs, 1 \in DOMAIN view[t].queue,
         view[t].queue[1].owner = SessionOwner,
         view[t].queue[1].snapshot # Unread
  PROVE  /\ view[t].queue[1].snapshot \in RecordType
         /\ Past(view[t].queue[1].snapshot)
         /\ Older(view[t].snapshot, view[t].queue[1].snapshot)
         /\ session[t].pc = "refresh" /\ session[t] \in AnswerType
         /\ AnswerSound(session[t])
         /\ Taken(session[t], view[t].queue[1].snapshot)
<1>1. view[t].queue[1] \in RefreshType /\ RefreshSound(t, view[t].queue[1])
  BY QueueParts DEF Inv, TabInv, ViewSound
<1>2. session[t].pc = "refresh"
  BY <1>1 DEF RefreshSound
<1>3. session[t] \in AnswerType /\ AnswerSound(session[t])
  <2>1. session[t] \in SessionType /\ SessionSound(t)
    BY Types DEF Inv, TabInv
  <2>. QED
    BY <1>2, <2>1, SessionParts DEF SessionSound
<1>. QED
  BY <1>1, <1>2, <1>3 DEF RefreshSound, RefreshType

\* A drained snapshot has settled what the requests of its pass owed.
LEMMA DrainedSettles ==
  ASSUME Inv, NEW t \in Tabs, 1 \in DOMAIN view[t].queue,
         view[t].queue[1].owner = SessionOwner,
         view[t].queue[1].snapshot # Unread,
         Drained(session[t], view[t].queue[1].snapshot), ~ requested[t],
         NEW call \in Waiting(t, "sync")
  PROVE  CaughtUp(calls[call])
<1>1. PICK snapshot \in RecordType : snapshot = view[t].queue[1].snapshot
  BY SessionRefresh
<1>2. PICK answer \in AnswerType : answer = session[t]
  BY SessionRefresh
<1>3. /\ answer.pc = "refresh" /\ Past(snapshot) /\ Taken(answer, snapshot)
      /\ answer.through = answer.head /\ Unsettled(snapshot) = {}
  BY <1>1, <1>2, SessionRefresh DEF Drained
<1>4. PICK c \in SyncType : c = calls[call]
  <2>1. call \in Calls /\ Made(call) /\ calls[call].kind = "sync"
    BY DEF Waiting, Made
  <2>. QED
    BY <2>1, SyncParts DEF Inv
<1>5. /\ c.head <= answer.head
      /\ \A op \in c.owed : op < snapshot.next
  BY <1>1, <1>2, <1>3, <1>4 DEF Inv, TabInv, PassSound
<1>6. /\ c.head \in Nat /\ answer.head \in Nat /\ snapshot.confirmed \in Nat
      /\ record.confirmed \in Nat
  BY Types, RecordParts, Numbers DEF Inv, SyncType, AnswerType
<1>7. record.confirmed >= c.head
  BY <1>3, <1>5, <1>6 DEF Past, Older, Taken
<1>8. Unsettled(record) \cap c.owed = {}
  BY <1>3, <1>5 DEF Past, Older
<1>. QED
  BY <1>4, <1>7, <1>8 DEF CaughtUp

\* The refresh of a session is over, and the session goes on to s.
LEMMA SessionServed ==
  ASSUME Inv, NEW t \in Tabs, 1 \in DOMAIN view[t].queue,
         view[t].queue[1].owner = SessionOwner,
         NEW snapshot \in RecordType,
         snapshot \in {view[t].snapshot, view[t].queue[1].snapshot},
         view[t].snapshot.next <= snapshot.next,
         NEW s \in SessionType, NEW phase \in {"idle", "syncing", "error"},
         UNCHANGED <<record, authority, foreign, closed, requested, calls>>,
         session' = [session EXCEPT ![t] = s],
         view' = [view EXCEPT ![t].phase = phase, ![t].snapshot = snapshot,
                              ![t].queue = RemoveAt(@, 1)],
         s.pc \in {"loop", "prepare", "settling"}, s # Settled("resolved"),
         (phase = "syncing") = (s.pc = "prepare"),
         s.pc = "loop" =>
             /\ phase = "idle"
             /\ ~ requested[t] => \A call \in Waiting(t, "sync") :
                                      CaughtUp(calls[call])
  PROVE  Inv'
<1>1. /\ record' = record /\ authority' = authority /\ foreign' = foreign
      /\ closed' = closed /\ requested' = requested /\ calls' = calls
  OBVIOUS
<1>2. session[t].pc = "refresh"
  BY DEF Inv, TabInv, ViewSound, RefreshSound
<1>3. PICK v : v = [view[t] EXCEPT !.snapshot = snapshot,
                                   !.queue = RemoveAt(view[t].queue, 1)]
  OBVIOUS
<1>4. /\ v \in ViewType
      /\ v.snapshot = snapshot /\ v.queue = RemoveAt(view[t].queue, 1)
      /\ \A i \in DOMAIN v.queue :
             /\ i + 1 \in DOMAIN view[t].queue
             /\ v.queue[i] = view[t].queue[i + 1]
             /\ v.queue[i].owner # SessionOwner
  <2>1. Serves(t, snapshot, v)
    BY <1>3 DEF Serves
  <2>. QED
    BY <2>1, ServedParts
<1>5. PICK w : w = [v EXCEPT !.phase = phase]
  OBVIOUS
<1>6. /\ w \in ViewType /\ w.phase = phase /\ w.snapshot = snapshot
      /\ w.queue = v.queue
  BY <1>4, <1>5 DEF ViewType
<1>7. view' = [view EXCEPT ![t] = w]
  <2>1. w = [view[t] EXCEPT !.phase = phase, !.snapshot = snapshot,
                            !.queue = RemoveAt(view[t].queue, 1)]
    <3>1. view[t] \in ViewType
      BY Types DEF Inv
    <3>. QED
      BY <1>3, <1>5, <3>1 DEF ViewType
  <2>. QED
    BY <2>1
<1>8. /\ view' \in [Tabs -> ViewType] /\ view'[t] = w
      /\ \A tab \in Tabs \ {t} : view'[tab] = view[tab]
  <2>1. PICK f \in [Tabs -> ViewType] : f = view
    BY DEF Inv, ClientTypeOK
  <2>2. PICK g : g = [f EXCEPT ![t] = w]
    OBVIOUS
  <2>3. g \in [Tabs -> ViewType] /\ g[t] = w /\ \A tab \in Tabs \ {t} : g[tab] = f[tab]
    BY <1>6, <2>2
  <2>4. view' = g
    BY <1>7, <2>1, <2>2
  <2>. QED
    BY <2>1, <2>3, <2>4
<1>9. /\ session' \in [Tabs -> SessionType] /\ session'[t] = s
      /\ \A tab \in Tabs \ {t} : session'[tab] = session[tab]
  BY DEF Inv, ClientTypeOK
<1>10. ClientTypeOK'
  BY <1>1, <1>8, <1>9 DEF Inv, ClientTypeOK
<1>11. RecordSound' /\ Advance
  <2>1. Stored' = Stored
    BY <1>1 DEF Stored, Made
  <2>. QED
    BY <1>1, <2>1, DurableStays DEF durable
<1>12. SessionSound(t)'
  BY <1>9 DEF SessionSound
<1>13. ClosedSound(t)' /\ PhaseOf(t)'
  <2>1. session[t].pc = "refresh" /\ ClosedSound(t)
    BY <1>2 DEF Inv, TabInv
  <2>2. ~ closed[t].store
    BY <2>1 DEF ClosedSound
  <2>3. closed'[t].store = FALSE
    BY <1>1, <2>2, Types DEF Inv
  <2>4. view'[t].phase = phase /\ session'[t].pc = s.pc
    BY <1>6, <1>8, <1>9
  <2>5. (view'[t].phase = "syncing") = InSession(t)'
    BY <2>4 DEF InSession
  <2>6. (view'[t].phase = "closed") = closed'[t].store
    BY <2>3, <2>4
  <2>. QED
    BY <2>3, <2>4, <2>5, <2>6 DEF ClosedSound, PhaseOf
<1>14. ViewSound(t)'
  <2>1. WaitFor(t, RemoveAt(view[t].queue, 1))
    BY <1>1, <1>4 DEF WaitFor
  <2>2. snapshot # Unread
    BY RecordParts
  <2>3. /\ view'[t].queue = RemoveAt(view[t].queue, 1)
        /\ view'[t].snapshot \in {view[t].snapshot, view[t].queue[1].snapshot}
        /\ view'[t].snapshot # Unread
    BY <1>4, <1>6, <1>8, <2>2
  <2>. QED
    BY <1>10, <1>11, <2>1, <2>3, ViewServes DEF Inv, TabInv
<1>15. NoSessionRefresh(t)
  BY <1>4, <1>6, <1>8 DEF NoSessionRefresh
<1>16. PassSound(t)'
  <2>1. CASE s.pc # "loop"
    BY <1>9, <1>15, <2>1, PassBegins
  <2>2. CASE s.pc = "loop"
    <3>1. ASSUME NEW call \in Waiting(t, "sync"), ~ requested[t]
          PROVE  CaughtUp(calls[call])'
      <4>1. CaughtUp(calls[call])
        BY <2>2, <3>1
      <4>. QED
        BY <1>1, <4>1 DEF CaughtUp
    <3>2. Waiting(t, "sync")' = Waiting(t, "sync")
      BY <1>1 DEF Waiting
    <3>. QED
      BY <1>1, <1>9, <1>15, <2>2, <3>1, <3>2 DEF PassSound, NoSessionRefresh
  <2>. QED
    BY <2>1, <2>2
<1>17. Apart(t)
  BY <1>1, <1>6, <1>8, <1>9 DEF Apart
<1>. QED
  BY <1>1, <1>10, <1>11, <1>12, <1>13, <1>14, <1>16, <1>17, StepKeeps
  DEF TabInv

\* A session shows what it has read, and goes on to s.
LEMMA SessionShows ==
  ASSUME Inv, NEW t \in Tabs, 1 \in DOMAIN view[t].queue,
         view[t].queue[1].owner = SessionOwner,
         view[t].queue[1].snapshot # Unread,
         NEW s \in SessionType, NEW phase \in {"idle", "syncing", "error"},
         UNCHANGED <<record, authority, foreign, closed, requested, calls>>,
         session' = [session EXCEPT ![t] = s], Show(t, 1, phase),
         s.pc \in {"loop", "prepare", "settling"}, s # Settled("resolved"),
         (phase = "syncing") = (s.pc = "prepare"),
         s.pc = "loop" =>
             phase = "idle" /\ Drained(session[t], view[t].queue[1].snapshot)
  PROVE  Inv'
<1>1. PICK snapshot \in RecordType : snapshot = view[t].queue[1].snapshot
  BY SessionRefresh
<1>2. view[t].snapshot.next <= snapshot.next
  BY <1>1, SessionRefresh DEF Older
<1>3. view' = [view EXCEPT ![t].phase = phase, ![t].snapshot = snapshot,
                           ![t].queue = RemoveAt(@, 1)]
  BY <1>1 DEF Show
<1>4. s.pc = "loop" =>
          /\ phase = "idle"
          /\ ~ requested[t] => \A call \in Waiting(t, "sync") :
                                   CaughtUp(calls[call])
  BY DrainedSettles
<1>. QED
  BY <1>1, <1>2, <1>3, <1>4, SessionServed

\* FailSessionRefresh.
LEMMA FailSessionRefreshKeeps ==
  ASSUME Inv, NEW t \in Tabs, FailSessionRefresh(t)
  PROVE  Inv'
<1>1. /\ 1 \in DOMAIN view[t].queue /\ view[t].queue[1].owner = SessionOwner
      /\ view' = [view EXCEPT ![t].phase = "error",
                              ![t].queue = RemoveAt(@, 1)]
      /\ Become(t, Settled("rejected"))
      /\ UNCHANGED <<record, authority, foreign, closed, requested, calls>>
  BY DEF FailSessionRefresh, InTurn, durable
<1>2. PICK snapshot \in RecordType : snapshot = view[t].snapshot
  BY Types DEF Inv
<1>3. view' = [view EXCEPT ![t].phase = "error", ![t].snapshot = snapshot,
                           ![t].queue = RemoveAt(@, 1)]
  <2>1. PICK old \in ViewType : old = view[t]
    BY Types DEF Inv
  <2>2. [old EXCEPT !.phase = "error", !.queue = RemoveAt(old.queue, 1)]
            = [old EXCEPT !.phase = "error", !.snapshot = snapshot,
                          !.queue = RemoveAt(old.queue, 1)]
    BY <1>2, <2>1 DEF ViewType
  <2>. QED
    BY <1>1, <2>1, <2>2
<1>4. PICK s : s = Settled("rejected")
  OBVIOUS
<1>5. s \in SessionType /\ s.pc = "settling" /\ s # Settled("resolved")
  BY <1>4 DEF SessionType, Settled
<1>6. session' = [session EXCEPT ![t] = s]
  BY <1>1, <1>4 DEF Become
<1>7. snapshot.next <= snapshot.next /\ ("error" = "syncing") = (s.pc = "prepare")
  BY <1>5, RecordParts
<1>. QED
  BY <1>1, <1>2, <1>3, <1>5, <1>6, <1>7, SessionServed

\* ShowForSession.
LEMMA ShowForSessionKeeps ==
  ASSUME Inv, NEW t \in Tabs, ShowForSession(t)
  PROVE  Inv'
<1>1. PICK answer : answer = session[t]
  OBVIOUS
<1>2. PICK snapshot : snapshot = view[t].queue[1].snapshot
  OBVIOUS
<1>3. /\ 1 \in DOMAIN view[t].queue /\ snapshot # Unread
      /\ view[t].queue[1].owner = SessionOwner
      /\ IF Drained(answer, snapshot)
         THEN /\ Show(t, 1, "idle")
              /\ Become(t, [pc |-> "loop"])
         ELSE IF answer.round = MaximumSyncRounds
         THEN /\ Show(t, 1, "error")
              /\ Become(t, Settled("rejected"))
         ELSE /\ Show(t, 1, view[t].phase)
              /\ Become(t, [pc |-> "prepare", attempt |-> answer.attempt,
                            round |-> answer.round + 1])
      /\ UNCHANGED <<record, authority, foreign, closed, requested, calls>>
  BY <1>1, <1>2 DEF ShowForSession, Ready, InTurn, durable
<1>4. answer.pc = "refresh" /\ answer \in AnswerType
  BY <1>1, <1>2, <1>3, SessionRefresh
<1>5. CASE Drained(answer, snapshot)
  <2>1. PICK s : s = [pc |-> "loop"]
    OBVIOUS
  <2>2. s \in SessionType /\ s.pc = "loop" /\ s # Settled("resolved")
    BY <2>1 DEF SessionType, Settled
  <2>3. session' = [session EXCEPT ![t] = s] /\ Show(t, 1, "idle")
    BY <1>3, <1>5, <2>1 DEF Become
  <2>4. ("idle" = "syncing") = (s.pc = "prepare")
    BY <2>2
  <2>. QED
    BY <1>1, <1>2, <1>3, <1>5, <2>2, <2>3, <2>4, SessionShows
<1>6. CASE ~ Drained(answer, snapshot) /\ answer.round = MaximumSyncRounds
  <2>1. PICK s : s = Settled("rejected")
    OBVIOUS
  <2>2. s \in SessionType /\ s.pc = "settling" /\ s # Settled("resolved")
    BY <2>1 DEF SessionType, Settled
  <2>3. session' = [session EXCEPT ![t] = s] /\ Show(t, 1, "error")
    BY <1>3, <1>6, <2>1 DEF Become
  <2>4. ("error" = "syncing") = (s.pc = "prepare") /\ s.pc # "loop"
    BY <2>2
  <2>. QED
    BY <1>2, <1>3, <2>2, <2>3, <2>4, SessionShows
<1>7. CASE ~ Drained(answer, snapshot) /\ answer.round # MaximumSyncRounds
  <2>1. PICK s : s = [pc |-> "prepare", attempt |-> answer.attempt,
                      round |-> answer.round + 1]
    OBVIOUS
  <2>2. answer.attempt \in Attempt /\ answer.round + 1 \in Round
    <3>1. answer.attempt \in Attempt /\ answer.round \in 1..MaximumSyncRounds
      BY <1>4 DEF AnswerType, Round
    <3>. QED
      BY <1>7, <3>1, RuntimeAssumption DEF Round
  <2>3. s \in SessionType /\ s.pc = "prepare" /\ s # Settled("resolved")
    BY <2>1, <2>2 DEF SessionType, Settled
  <2>4. session' = [session EXCEPT ![t] = s] /\ Show(t, 1, view[t].phase)
    BY <1>3, <1>7, <2>1 DEF Become
  <2>5. view[t].phase = "syncing"
    BY <1>1, <1>4 DEF Inv, TabInv, PhaseOf, InSession
  <2>6. Show(t, 1, "syncing")
    BY <2>4, <2>5
  <2>7. ("syncing" = "syncing") = (s.pc = "prepare") /\ s.pc # "loop"
    BY <2>3
  <2>. QED
    BY <1>2, <1>3, <2>3, <2>4, <2>6, <2>7, SessionShows
<1>. QED
  BY <1>5, <1>6, <1>7

\* A call that waits is in no queue, and the calls in the queues stay.
LEMMA OthersWait ==
  ASSUME Inv, NEW t \in Tabs, NEW call \in Calls, calls[call].status # "refreshing",
         \A other \in Calls : other # call => calls'[other] = calls[other],
         session'[t] = session[t] \/ session[t].pc # "refresh"
  PROVE  /\ \A i \in DOMAIN view[t].queue : view[t].queue[i].owner # call
         /\ WaitFor(t, view[t].queue)
<1>1. ASSUME NEW i \in DOMAIN view[t].queue PROVE view[t].queue[i].owner # call
  <2>1. CASE view[t].queue[i].owner = SessionOwner
    BY <2>1, Numbers
  <2>2. CASE view[t].queue[i].owner # SessionOwner
    BY <2>2, OwnerParts
  <2>. QED
    BY <2>1, <2>2
<1>2. ASSUME NEW i \in DOMAIN view[t].queue,
             view[t].queue[i].owner # SessionOwner
      PROVE  calls'[view[t].queue[i].owner] = calls[view[t].queue[i].owner]
  <2>1. view[t].queue[i].owner \in Calls
    BY <1>2, OwnerParts
  <2>. QED
    BY <1>1, <2>1
<1>3. ASSUME NEW i \in DOMAIN view[t].queue,
             view[t].queue[i].owner = SessionOwner
      PROVE  session'[t] = session[t]
  BY <1>3, NoRefreshYet
<1>. QED
  BY <1>1, <1>2, <1>3 DEF WaitFor

\* The transaction of a write has ended, well or not.
LEMMA WriteEnds ==
  ASSUME Inv, NEW call \in Calls, calls[call] \in WriteType,
         calls[call].status = "waiting", NEW t \in Tabs, t = calls[call].tab,
         UNCHANGED <<closed, requested, session>>, authority' = authority,
         ClientTypeOK', RecordSound', Advance,
         \A other \in Calls : other # call => calls'[other] = calls[other],
         calls'[call] \in WriteType, calls'[call].tab = t,
         calls'[call].op < record'.next,
         \/ calls'[call].status = "rejected" /\ view' = view
         \/ calls'[call].status = "refreshing" /\ RefreshFor(t, call)
  PROVE  Inv'
<1>1. closed' = closed /\ requested' = requested /\ session' = session
  OBVIOUS
<1>2. Made(call) /\ Made(call)' /\ calls'[call].kind \in Writes
  BY DEF Made, WriteType
<1>3. calls'[call].kind # "sync" /\ calls'[call].kind # "close"
      /\ calls[call].kind # "sync"
  BY <1>2 DEF Writes, WriteType
<1>4. /\ \A i \in DOMAIN view[t].queue : view[t].queue[i].owner # call
      /\ WaitFor(t, view[t].queue)
  <2>1. calls[call].status # "refreshing"
    OBVIOUS
  <2>. QED
    BY <1>1, <2>1, OthersWait
<1>5. PICK new : new = [owner |-> call, snapshot |-> Unread]
  OBVIOUS
<1>6. /\ view'[t].phase = view[t].phase
      /\ view'[t].snapshot = view[t].snapshot
      /\ \A tab \in Tabs \ {t} : view'[tab] = view[tab]
      /\ \/ view' = view /\ calls'[call].status = "rejected"
         \/ /\ view'[t].queue = Append(view[t].queue, new)
            /\ calls'[call].status = "refreshing"
  <2>1. CASE view' = view /\ calls'[call].status = "rejected"
    BY <2>1
  <2>2. CASE calls'[call].status = "refreshing" /\ RefreshFor(t, call)
    <3>1. view' = [view EXCEPT ![t].queue = Append(view[t].queue, new)]
      BY <1>5, <2>2 DEF RefreshFor
    <3>2. view \in [Tabs -> ViewType] /\ view[t] \in ViewType
      BY DEF Inv, ClientTypeOK
    <3>. QED
      BY <2>2, <3>1, <3>2 DEF ViewType
  <2>. QED
    BY <2>1, <2>2
<1>7. SessionSound(t)' /\ ClosedSound(t)' /\ PhaseOf(t)'
  <2>1. SessionSound(t)'
    BY <1>1, SessionStays DEF Inv, TabInv
  <2>. QED
    <3>1. ClosedSound(t) /\ PhaseOf(t)
      BY DEF Inv, TabInv
    <3>2. view'[t].phase = view[t].phase
      BY <1>6
    <3>. QED
      BY <1>1, <2>1, <3>1, <3>2 DEF ClosedSound, PhaseOf, InSession
<1>8. ViewSound(t)'
  <2>1. CASE view' = view
    BY <1>4, <2>1, ViewStays DEF Inv, TabInv
  <2>2. CASE view'[t].queue = Append(view[t].queue, new)
             /\ calls'[call].status = "refreshing"
    <3>1. /\ call # SessionOwner /\ call \in Calls \cup {SessionOwner}
          /\ view'[t].queue =
                 Append(view[t].queue, [owner |-> call, snapshot |-> Unread])
          /\ call = SessionOwner => session'[t].pc = "refresh"
          /\ call # SessionOwner =>
                 calls'[call].status = "refreshing" /\ calls'[call].tab = t
      BY <1>5, <2>2, Numbers
    <3>. QED
      BY <1>4, <1>6, <3>1, ViewAppends DEF Inv, TabInv
  <2>. QED
    BY <1>6, <2>1, <2>2
<1>9. PassSound(t)'
  <2>1. \A i \in DOMAIN view'[t].queue :
            \/ view'[t].queue[i].snapshot = Unread
            \/ \E j \in DOMAIN view[t].queue :
                   view[t].queue[j] = view'[t].queue[i]
    <3>1. CASE view' = view
      BY <3>1
    <3>2. CASE view'[t].queue = Append(view[t].queue, new)
      <4>1. PICK q : q = view[t].queue
        OBVIOUS
      <4>2. PICK n : n = Len(q)
        OBVIOUS
      <4>3. q \in Seq(RefreshType) /\ n \in Nat /\ DOMAIN q = 1..n
            /\ new \in RefreshType
        BY <1>5, <4>1, <4>2, QueueParts DEF Inv, RefreshType
      <4>4. /\ DOMAIN Append(q, new) = 1..n + 1
            /\ \A i \in 1..n : Append(q, new)[i] = q[i]
            /\ Append(q, new)[n + 1] = new
        BY <4>2, <4>3, AppendProperties
      <4>5. new.snapshot = Unread
        BY <1>5
      <4>6. \A i \in 1..n + 1 : i \in 1..n \/ i = n + 1
        BY <4>3
      <4>. QED
        BY <3>2, <4>1, <4>3, <4>4, <4>5, <4>6
    <3>. QED
      BY <1>6, <3>1, <3>2
  <2>2. \A other \in Waiting(t, "sync")' :
            other \in Waiting(t, "sync") /\ calls'[other] = calls[other]
    BY <1>3 DEF Waiting
  <2>3. PassFollows(t)
    BY <1>1, <2>1, <2>2 DEF PassFollows
  <2>. QED
    BY <2>3, PassStays DEF Inv, TabInv, CallInv
<1>10. CallInv(call)'
  <2>1. calls'[call].status # "waiting" /\ calls'[call].status # "resolved"
    OBVIOUS
  <2>2. CallSound(call)'
    BY <1>2, <1>3, <2>1 DEF CallSound
  <2>. QED
    BY <1>1, <2>1, <2>2 DEF CallInv
<1>11. Apart(t)
  <2>1. view[t].snapshot.next \in Nat
    BY Types, RecordParts DEF Inv
  <2>2. \A other \in Calls :
            \/ calls'[other] = calls[other]
            \/ calls[other].tab = t /\ calls'[other].tab = t
    OBVIOUS
  <2>. QED
    <3>1. \A tab \in Tabs \ {t} : view'[tab] = view[tab]
      BY <1>6
    <3>2. view[t].snapshot.next <= view'[t].snapshot.next
      <4>1. view'[t].snapshot = view[t].snapshot
        BY <1>6
      <4>. QED
        BY <2>1, <4>1
    <3>. QED
      BY <1>1, <2>2, <3>1, <3>2 DEF Apart
<1>12. \A other \in Calls : calls'[other] # calls[other] => CallInv(other)'
  BY <1>10
<1>. QED
  BY <1>7, <1>8, <1>9, <1>11, <1>12, StepKeeps DEF TabInv

\* An enqueue numbers its operation and puts it in the outbox.
LEMMA Enqueues ==
  ASSUME Inv, NEW call \in Calls, calls[call] \in WriteType,
         calls[call].status = "waiting", calls[call].kind = "enqueue",
         record' = [record EXCEPT !.next = @ + 1,
                                  !.pending = @ \cup {record.next}],
         calls' = [calls EXCEPT ![call].status = "refreshing",
                                ![call].op = record.next],
         authority' = authority, foreign' = foreign
  PROVE  /\ record' \in RecordType /\ RecordSound' /\ Advance
         /\ calls' \in [Calls -> CallType] /\ calls'[call] \in WriteType
         /\ calls'[call].status = "refreshing"
         /\ calls'[call].tab = calls[call].tab
         /\ calls'[call].op < record'.next
         /\ \A other \in Calls : other # call => calls'[other] = calls[other]
<1>1. PICK rec \in RecordType : rec = record
  BY Types DEF Inv
<1>2. PICK n \in Nat : n = rec.next
  BY RecordParts
<1>3. PICK new : new = record'
  OBVIOUS
<1>4. /\ new.next = n + 1 /\ new.pending = rec.pending \cup {n}
      /\ new.confirmed = rec.confirmed /\ new.awaiting = rec.awaiting
      /\ new = [next |-> new.next, confirmed |-> new.confirmed,
                pending |-> new.pending, awaiting |-> new.awaiting]
  BY <1>1, <1>2, <1>3 DEF RecordType
<1>5. PICK S : S = Stored
  OBVIOUS
<1>6. /\ IsFiniteSet(S) /\ call \notin S /\ n = Cardinality(S) + 1
      /\ n >= 1 /\ n <= Cardinality(Calls) /\ Cardinality(Calls) \in Nat
      /\ Cardinality(S \cup {call}) = Cardinality(S) + 1
  <2>1. S \in SUBSET Calls
    BY <1>5 DEF Stored
  <2>2. call \notin S
    BY <1>5 DEF Stored, Inv, CallInv, CallSound, Writes
  <2>3. IsFiniteSet(Calls) /\ IsFiniteSet(S) /\ Cardinality(S) \in Nat
    BY <2>1, CallsAssumption, FS_Subset, FS_CardinalityType
  <2>4. Cardinality(S \cup {call}) = Cardinality(S) + 1
    BY <2>2, <2>3, FS_AddElement
  <2>5. Cardinality(S \cup {call}) <= Cardinality(Calls)
    <3>1. S \cup {call} \in SUBSET Calls
      BY <2>1
    <3>. QED
      BY <2>3, <3>1, FS_Subset
  <2>6. n = Cardinality(S) + 1
    BY <1>1, <1>2, <1>5 DEF Inv, RecordSound
  <2>. QED
    BY <2>2, <2>3, <2>4, <2>5, <2>6, Numbers
<1>7. n \in Operation /\ n \in 0..Cardinality(Calls) /\ n # 0
      /\ n + 1 \in 1..Cardinality(Calls) + 1
  BY <1>6 DEF Operation
<1>8. new \in RecordType
  BY <1>4, <1>7 DEF RecordType
<1>9. PICK c : c = calls[call]
  OBVIOUS
<1>10. PICK d : d = [c EXCEPT !.status = "refreshing", !.op = n]
  OBVIOUS
<1>11. /\ d \in WriteType /\ d.status = "refreshing" /\ d.op = n
       /\ d.kind = c.kind /\ d.tab = c.tab
  BY <1>7, <1>9, <1>10 DEF WriteType
<1>12. calls' = [calls EXCEPT ![call] = d]
  BY <1>1, <1>2, <1>9, <1>10
<1>13. /\ calls' \in [Calls -> CallType] /\ calls'[call] = d
       /\ \A other \in Calls : other # call => calls'[other] = calls[other]
  <2>1. calls \in [Calls -> CallType] /\ d \in CallType
    BY <1>11 DEF Inv, ClientTypeOK, CallType
  <2>. QED
    BY <1>12, <2>1
<1>14. Stored' = S \cup {call}
  <2>1. Made(call)'
    BY <1>11, <1>13 DEF Made
  <2>2. call \in Stored'
    BY <1>7, <1>9, <1>11, <1>13, <2>1 DEF Stored
  <2>3. ASSUME NEW other \in Calls, other # call
        PROVE  other \in Stored' <=> other \in Stored
    BY <1>13, <2>3 DEF Stored, Made
  <2>4. Stored' \subseteq Calls /\ S \subseteq Calls
    BY <1>5 DEF Stored
  <2>. QED
    BY <1>5, <2>2, <2>3, <2>4
<1>15. Unsettled(new) = Unsettled(rec) \cup {n}
  BY <1>4 DEF Unsettled
<1>16. Known(rec)
  BY <1>1 DEF Inv, RecordSound
<1>17. RecordSound'
  <2>1. Known(new)'
    <3>1. Unsettled(new) \subseteq 1..new.next - 1
      <4>1. Unsettled(rec) \subseteq 1..n - 1
        BY <1>2, <1>16 DEF Known
      <4>. QED
        BY <1>4, <1>6, <1>15, <4>1
    <3>. QED
      BY <1>4, <1>16, <3>1 DEF Known
  <2>2. new.next = Cardinality(Stored)' + 1
    BY <1>4, <1>6, <1>14
  <2>3. \A op \in DOMAIN authority.decided :
            op < new.next /\ authority.decided[op] <= authority.head
    <3>1. \A op \in DOMAIN authority.decided : op \in Nat
      BY Types, DecisionParts, Numbers DEF Inv
    <3>. QED
      BY <1>1, <1>2, <1>4, <3>1 DEF Inv, RecordSound
  <2>4. ConfirmedNotPending'
    <3>1. n \notin DOMAIN authority.decided
      BY <1>1, <1>2 DEF Inv, RecordSound
    <3>2. \A op \in rec.pending \cap DOMAIN authority.decided :
              \/ authority.decided[op] = Rejected
              \/ authority.decided[op] > rec.confirmed
      BY <1>1 DEF Inv, RecordSound, ConfirmedNotPending
    <3>. QED
      BY <1>3, <1>4, <3>1, <3>2 DEF ConfirmedNotPending
  <2>. QED
    <3>1. RecordSound
      BY DEF Inv
    <3>. QED
      BY <1>3, <2>1, <2>2, <2>3, <2>4, <3>1 DEF RecordSound, Known
<1>18. Advance
  <2>1. rec.confirmed \in Nat /\ authority.head \in Nat
    BY RecordParts, Types DEF Inv
  <2>2. ASSUME NEW op \in Unsettled(new), op < n PROVE op \in Unsettled(rec)
    BY <1>15, <2>2
  <2>3. \A op \in new.pending : op < n => op \in rec.pending
    BY <1>4
  <2>4. Older(rec, new)
    BY <1>2, <1>4, <2>1, <2>2 DEF Older
  <2>. QED
    BY <1>1, <1>2, <1>3, <2>1, <2>3, <2>4 DEF Advance, LogGrows
<1>19. calls'[call].op < record'.next
  <2>1. calls'[call].op = n
    BY <1>11, <1>13
  <2>2. record'.next = n + 1
    BY <1>3, <1>4
  <2>3. n < n + 1
    OBVIOUS
  <2>. QED
    BY <2>1, <2>2, <2>3
<1>20. /\ calls'[call] \in WriteType /\ calls'[call].status = "refreshing"
       /\ calls'[call].tab = calls[call].tab
  BY <1>9, <1>11, <1>13
<1>21. record' \in RecordType
  BY <1>3, <1>8
<1>. QED
  BY <1>13, <1>17, <1>18, <1>19, <1>20, <1>21

\* Store.
LEMMA StoreKeeps ==
  ASSUME Inv, NEW call \in Calls, Store(call)
  PROVE  Inv'
<1>1. /\ calls[call].status = "waiting" /\ calls[call].kind \in Writes
      /\ authority' = authority /\ foreign' = foreign /\ closed' = closed
      /\ requested' = requested /\ session' = session
  BY DEF Store, WaitingWrite
<1>2. calls[call] \in WriteType
  BY <1>1, Types DEF Inv, CallType, SyncType, WriteType, Writes
<1>3. PICK t \in Tabs : t = calls[call].tab
  BY <1>2 DEF WriteType
<1>4. CallSound(call) /\ Made(call)
  BY <1>1 DEF Inv, CallInv, Made
<1>5. RefreshFor(t, call)
  BY <1>3 DEF Store
<1>6. view' \in [Tabs -> ViewType]
  <2>1. PICK new : new = [owner |-> call, snapshot |-> Unread]
    OBVIOUS
  <2>2. new \in RefreshType
    BY <2>1 DEF RefreshType
  <2>3. PICK v : v = [view[t] EXCEPT !.queue = Append(view[t].queue, new)]
    OBVIOUS
  <2>4. Append(view[t].queue, new) \in Seq(RefreshType)
    BY <2>2, QueueParts, AppendProperties DEF Inv
  <2>5. v \in ViewType
    <3>1. view[t] \in ViewType
      BY Types DEF Inv
    <3>. QED
      BY <2>3, <2>4, <3>1 DEF ViewType
  <2>6. view' = [view EXCEPT ![t] = v]
    BY <1>5, <2>1, <2>3 DEF RefreshFor
  <2>. QED
    BY <2>5, <2>6 DEF Inv, ClientTypeOK
<1>7. /\ record' \in RecordType /\ RecordSound' /\ Advance
      /\ calls' \in [Calls -> CallType] /\ calls'[call] \in WriteType
      /\ calls'[call].status = "refreshing"
      /\ calls'[call].tab = calls[call].tab
      /\ calls'[call].op < record'.next
      /\ \A other \in Calls : other # call => calls'[other] = calls[other]
  <2>1. CASE calls[call].kind = "enqueue"
    <3>1. /\ record' = [record EXCEPT !.next = @ + 1,
                                      !.pending = @ \cup {record.next}]
          /\ calls' = [calls EXCEPT ![call].status = "refreshing",
                                    ![call].op = record.next]
      BY <1>3, <2>1 DEF Store
    <3>. QED
      BY <1>1, <1>2, <2>1, <3>1, Enqueues
  <2>2. CASE calls[call].kind # "enqueue"
    <3>1. /\ record' = record
          /\ calls' = [calls EXCEPT ![call].status = "refreshing"]
      BY <1>3, <2>2 DEF Store
    <3>2. /\ calls' \in [Calls -> CallType] /\ calls'[call] \in WriteType
          /\ calls'[call].status = "refreshing"
          /\ calls'[call].op = calls[call].op
          /\ calls'[call].tab = calls[call].tab
          /\ \A other \in Calls : other # call => calls'[other] = calls[other]
          /\ Stored' = Stored
      <4>1. "refreshing" \in {"refreshing", "resolved", "rejected"}
        OBVIOUS
      <4>. QED
        BY <1>2, <3>1, <4>1, WriteMoves
    <3>3. RecordSound' /\ Advance
      BY <1>1, <3>1, <3>2, DurableStays DEF durable
    <3>4. calls'[call].op < record'.next
      BY <1>1, <1>4, <3>1, <3>2 DEF CallSound
    <3>5. record' \in RecordType
      BY <3>1, Types DEF Inv
    <3>. QED
      BY <3>2, <3>3, <3>4, <3>5
  <2>. QED
    BY <2>1, <2>2
<1>8. ClientTypeOK'
  BY <1>1, <1>6, <1>7 DEF Inv, ClientTypeOK
<1>. QED
  BY <1>1, <1>2, <1>3, <1>5, <1>7, <1>8, WriteEnds

\* FailWrite.
LEMMA FailWriteKeeps ==
  ASSUME Inv, NEW call \in Calls, FailWrite(call)
  PROVE  Inv'
<1>1. /\ calls[call].status = "waiting" /\ calls[call].kind \in Writes
      /\ record' = record /\ authority' = authority /\ foreign' = foreign
      /\ closed' = closed /\ requested' = requested /\ session' = session
      /\ view' = view /\ calls' = [calls EXCEPT ![call].status = "rejected"]
  BY DEF FailWrite, WaitingWrite, Reject, durable
<1>2. calls[call] \in WriteType
  BY <1>1, Types DEF Inv, CallType, SyncType, WriteType, Writes
<1>3. PICK t \in Tabs : t = calls[call].tab
  BY <1>2 DEF WriteType
<1>4. CallSound(call) /\ Made(call)
  BY <1>1 DEF Inv, CallInv, Made
<1>5. /\ calls' \in [Calls -> CallType] /\ calls'[call] \in WriteType
      /\ calls'[call].status = "rejected"
      /\ calls'[call].op = calls[call].op
      /\ calls'[call].tab = calls[call].tab
      /\ \A other \in Calls : other # call => calls'[other] = calls[other]
      /\ Stored' = Stored
  <2>1. "rejected" \in {"refreshing", "resolved", "rejected"}
    OBVIOUS
  <2>. QED
    BY <1>1, <1>2, <2>1, WriteMoves
<1>6. ClientTypeOK'
  BY <1>1, <1>5 DEF Inv, ClientTypeOK
<1>7. RecordSound' /\ Advance
  BY <1>1, <1>5, DurableStays DEF durable
<1>8. calls'[call].op < record'.next
  BY <1>1, <1>4, <1>5 DEF CallSound
<1>. QED
  BY <1>1, <1>2, <1>3, <1>5, <1>6, <1>7, <1>8, WriteEnds

\* CloseStore.
LEMMA CloseStoreKeeps ==
  ASSUME Inv, NEW call \in Calls, CloseStore(call)
  PROVE  Inv'
<1>1. PICK c : c = calls[call]
  OBVIOUS
<1>2. /\ c.status = "waiting" /\ c.kind = "close"
      /\ record' = record /\ authority' = authority /\ foreign' = foreign
      /\ requested' = requested /\ session' = session
  BY <1>1 DEF CloseStore, durable
<1>3. c \in [status : {"waiting", "resolved"}, kind : {"close"}, tab : Tabs]
  <2>1. c \in CallType
    BY <1>1, Types DEF Inv
  <2>. QED
    BY <1>2, <2>1 DEF CallType, SyncType, WriteType, Writes
<1>4. PICK t \in Tabs : t = c.tab
  BY <1>3
<1>5. /\ session[t].pc = "none"
      /\ closed' = [closed EXCEPT ![t].store = TRUE]
      /\ view' = [view EXCEPT ![t].phase = "closed"]
      /\ calls' = [calls EXCEPT ![call].status = "resolved"]
  BY <1>1, <1>4 DEF CloseStore, MayClose, Running, Phase, Resolve
<1>6. PICK d : d = [c EXCEPT !.status = "resolved"]
  OBVIOUS
<1>7. /\ d \in CallType /\ d.status = "resolved" /\ d.kind = "close"
      /\ d.tab = t
  BY <1>3, <1>4, <1>6 DEF CallType
<1>8. /\ calls' \in [Calls -> CallType] /\ calls'[call] = d
      /\ \A other \in Calls : other # call => calls'[other] = calls[other]
  <2>1. calls' = [calls EXCEPT ![call] = d]
    BY <1>1, <1>5, <1>6
  <2>. QED
    BY <1>7, <2>1 DEF Inv, ClientTypeOK
<1>9. PICK shut : shut = [closed[t] EXCEPT !.store = TRUE]
  OBVIOUS
<1>10. /\ closed' \in [Tabs -> [client : BOOLEAN, store : BOOLEAN]]
       /\ closed'[t] = shut /\ shut.store = TRUE
       /\ shut.client = closed[t].client
       /\ \A tab \in Tabs \ {t} : closed'[tab] = closed[tab]
  <2>1. closed[t] \in [client : BOOLEAN, store : BOOLEAN]
    BY Types DEF Inv
  <2>2. shut \in [client : BOOLEAN, store : BOOLEAN]
        /\ shut.store = TRUE /\ shut.client = closed[t].client
    BY <1>9, <2>1
  <2>3. closed' = [closed EXCEPT ![t] = shut]
    BY <1>5, <1>9
  <2>. QED
    BY <2>2, <2>3 DEF Inv, ClientTypeOK
<1>11. PICK v : v = [view[t] EXCEPT !.phase = "closed"]
  OBVIOUS
<1>12. /\ v \in ViewType /\ v.phase = "closed" /\ v.queue = view[t].queue
       /\ v.snapshot = view[t].snapshot
  <2>1. view[t] \in ViewType
    BY Types DEF Inv
  <2>. QED
    BY <1>11, <2>1 DEF ViewType
<1>13. /\ view' \in [Tabs -> ViewType] /\ view'[t] = v
       /\ \A tab \in Tabs \ {t} : view'[tab] = view[tab]
  <2>1. view' = [view EXCEPT ![t] = v]
    BY <1>5, <1>11
  <2>. QED
    BY <1>12, <2>1 DEF Inv, ClientTypeOK
<1>14. ClientTypeOK'
  BY <1>2, <1>8, <1>10, <1>13 DEF Inv, ClientTypeOK
<1>15. RecordSound' /\ Advance
  <2>1. \A other \in Calls :
            (Made(other) /\ calls[other].kind = "enqueue"
                         /\ calls[other].op # 0)
            = (Made(other)' /\ calls'[other].kind = "enqueue"
                            /\ calls'[other].op # 0)
    BY <1>1, <1>2, <1>7, <1>8 DEF Made
  <2>2. Stored' = Stored
    BY <2>1 DEF Stored
  <2>. QED
    BY <1>2, <2>2, DurableStays DEF durable
<1>16. Made(call) /\ Made(call)' /\ CallSound(call)
  BY <1>1, <1>2, <1>7, <1>8 DEF Made, Inv, CallInv
<1>17. closed[t].client
  BY <1>1, <1>2, <1>4, <1>16 DEF CallSound
<1>18. SessionSound(t)' /\ ClosedSound(t)' /\ PhaseOf(t)'
  <2>1. session'[t].pc = "none"
    BY <1>2, <1>5
  <2>2. closed'[t].store /\ closed'[t].client /\ view'[t].phase = "closed"
    BY <1>10, <1>12, <1>13, <1>17
  <2>3. closed'[t].store = TRUE
    BY <1>10
  <2>4. InSession(t)' = FALSE
    BY <2>1 DEF InSession
  <2>5. SessionSound(t)'
    BY <2>1 DEF SessionSound
  <2>6. ClosedSound(t)'
    BY <2>1, <2>2 DEF ClosedSound
  <2>7. PhaseOf(t)'
    BY <2>1, <2>2, <2>3, <2>4 DEF PhaseOf
  <2>. QED
    BY <2>5, <2>6, <2>7
<1>19. ViewSound(t)'
  <2>1. WaitFor(t, view[t].queue)
    <3>1. /\ session'[t] = session[t] \/ session[t].pc # "refresh"
          /\ calls[call].status # "refreshing"
      BY <1>1, <1>2
    <3>. QED
      BY <1>8, <3>1, OthersWait
  <2>. QED
    BY <1>12, <1>13, <1>14, <1>15, <2>1, ViewStays DEF Inv, TabInv
<1>20. PassSound(t)'
  <2>1. \A other \in Waiting(t, "sync")' :
            other \in Waiting(t, "sync") /\ calls'[other] = calls[other]
    BY <1>7, <1>8 DEF Waiting
  <2>2. PassFollows(t)
    BY <1>2, <1>12, <1>13, <2>1 DEF PassFollows
  <2>. QED
    BY <1>14, <1>15, <2>2, PassStays DEF Inv, TabInv, CallInv
<1>21. CallInv(call)'
  <2>1. calls'[call].status = "resolved" /\ calls'[call].kind = "close"
        /\ closed'[calls'[call].tab].client
    BY <1>7, <1>8, <1>10, <1>17
  <2>. QED
    BY <2>1 DEF CallInv, CallSound, Writes
<1>22. Apart(t)
  <2>1. view[t].snapshot.next \in Nat
    BY Types, RecordParts DEF Inv
  <2>. QED
    BY <1>1, <1>2, <1>4, <1>7, <1>8, <1>10, <1>12, <1>13, <2>1 DEF Apart
<1>23. \A other \in Calls : calls'[other] # calls[other] => CallInv(other)'
  BY <1>8, <1>21
<1>. QED
  BY <1>14, <1>15, <1>18, <1>19, <1>20, <1>22, <1>23, StepKeeps DEF TabInv

\* A call is made; it has no operation yet.
LEMMA CallMade ==
  ASSUME Inv, NEW call \in Calls, calls[call] = NoCall, NEW d \in CallType,
         d.status \in {"unused", "refused"} \/ d.kind # "enqueue" \/ d.op = 0,
         calls' = [calls EXCEPT ![call] = d]
  PROVE  /\ calls' \in [Calls -> CallType] /\ calls'[call] = d
         /\ \A other \in Calls : other # call => calls'[other] = calls[other]
         /\ ~ Made(call) /\ calls[call].status = "unused" /\ Stored' = Stored
<1>1. /\ calls' \in [Calls -> CallType] /\ calls'[call] = d
      /\ \A other \in Calls : other # call => calls'[other] = calls[other]
  BY DEF Inv, ClientTypeOK
<1>2. ~ Made(call) /\ calls[call].status = "unused"
  BY DEF Made, NoCall
<1>3. ASSUME NEW other \in Calls
      PROVE  (Made(other) /\ calls[other].kind = "enqueue"
                          /\ calls[other].op # 0)
             <=> (Made(other)' /\ calls'[other].kind = "enqueue"
                               /\ calls'[other].op # 0)
  <2>1. CASE other = call
    BY <1>1, <1>2, <2>1 DEF Made
  <2>2. CASE other # call
    BY <1>1, <2>2 DEF Made
  <2>. QED
    BY <2>1, <2>2
<1>4. Stored' = Stored
  BY <1>3 DEF Stored
<1>. QED
  BY <1>1, <1>2, <1>4

\* A call is made, or refused, that no session has to know of.
LEMMA CallComes ==
  ASSUME Inv, NEW call \in Calls, calls[call] = NoCall, NEW d \in CallType,
         calls' = [calls EXCEPT ![call] = d], NEW t \in Tabs,
         UNCHANGED <<record, authority, foreign, requested, session, view>>,
         closed' \in [Tabs -> [client : BOOLEAN, store : BOOLEAN]],
         \A tab \in Tabs \ {t} : closed'[tab] = closed[tab],
         closed[t].client => closed'[t].client,
         closed'[t].store = closed[t].store,
         \/ d.status = "refused"
         \/ /\ d.tab = t /\ d.kind \in Writes /\ d.status = "waiting"
            /\ d.op = 0
         \/ /\ d.tab = t /\ d.kind = "close"
            /\ d.status \in {"waiting", "resolved"} /\ closed'[t].client
  PROVE  Inv'
<1>1. /\ record' = record /\ authority' = authority /\ foreign' = foreign
      /\ requested' = requested /\ session' = session /\ view' = view
  OBVIOUS
<1>2. /\ calls' \in [Calls -> CallType] /\ calls'[call] = d
      /\ \A other \in Calls : other # call => calls'[other] = calls[other]
      /\ ~ Made(call) /\ calls[call].status = "unused" /\ Stored' = Stored
  <2>1. d.status \in {"unused", "refused"} \/ d.kind # "enqueue" \/ d.op = 0
    OBVIOUS
  <2>. QED
    BY <2>1, CallMade
<1>3. ClientTypeOK'
  BY <1>1, <1>2 DEF Inv, ClientTypeOK
<1>4. RecordSound' /\ Advance
  BY <1>1, <1>2, DurableStays DEF durable
<1>5. SessionSound(t)' /\ ClosedSound(t)' /\ PhaseOf(t)'
  <2>1. SessionSound(t)'
    BY <1>1, <1>3, <1>4, SessionStays DEF Inv, TabInv
  <2>. QED
    BY <1>1, <2>1 DEF Inv, TabInv, ClosedSound, PhaseOf, InSession
<1>6. ViewSound(t)'
  <2>1. WaitFor(t, view[t].queue)
    <3>1. /\ session'[t] = session[t] \/ session[t].pc # "refresh"
          /\ calls[call].status # "refreshing"
      BY <1>1, <1>2
    <3>. QED
      BY <1>2, <3>1, OthersWait
  <2>. QED
    BY <1>1, <1>3, <1>4, <2>1, ViewStays DEF Inv, TabInv
<1>7. PassSound(t)'
  <2>1. \A other \in Waiting(t, "sync")' :
            other \in Waiting(t, "sync") /\ calls'[other] = calls[other]
    BY <1>2 DEF Waiting, Writes
  <2>2. PassFollows(t)
    BY <1>1, <2>1 DEF PassFollows
  <2>. QED
    BY <1>3, <1>4, <2>2, PassStays DEF Inv, TabInv, CallInv
<1>8. CallInv(call)'
  <2>1. CASE d.status = "refused"
    BY <1>2, <2>1 DEF CallInv, CallSound, Made
  <2>2. CASE d.tab = t /\ d.kind \in Writes /\ d.status = "waiting" /\ d.op = 0
    <3>1. 0 < record'.next
      BY <1>3, TypesAfter, RecordParts
    <3>2. d.kind # "sync" /\ d.kind # "close"
      BY <2>2 DEF Writes
    <3>. QED
      BY <1>2, <2>2, <3>1, <3>2 DEF CallInv, CallSound
  <2>3. CASE d.tab = t /\ d.kind = "close"
             /\ d.status \in {"waiting", "resolved"} /\ closed'[t].client
    BY <1>2, <2>3 DEF CallInv, CallSound, Writes
  <2>. QED
    BY <2>1, <2>2, <2>3
<1>9. Apart(t)
  <2>1. view[t].snapshot.next \in Nat
    BY Types, RecordParts DEF Inv
  <2>2. Made(call)' => calls'[call].tab = t
    BY <1>2 DEF Made
  <2>. QED
    BY <1>1, <1>2, <2>1, <2>2 DEF Apart
<1>10. \A other \in Calls : calls'[other] # calls[other] => CallInv(other)'
  BY <1>2, <1>8
<1>. QED
  BY <1>3, <1>4, <1>5, <1>6, <1>7, <1>9, <1>10, StepKeeps DEF TabInv

\* Write.
LEMMA WriteKeeps ==
  ASSUME Inv, NEW call \in Calls, NEW t \in Tabs, NEW kind \in Writes,
         Write(call, t, kind)
  PROVE  Inv'
<1>1. PICK d : d = IF closed[t].client THEN [status |-> "refused"]
                   ELSE [status |-> "waiting", kind |-> kind, tab |-> t,
                         op |-> 0]
  OBVIOUS
<1>2. /\ calls[call] = NoCall /\ calls' = [calls EXCEPT ![call] = d]
      /\ UNCHANGED <<record, authority, foreign, closed, requested, session,
                     view>>
  BY <1>1 DEF Write, NextCall, Refused, durable
<1>3. d \in CallType
  <2>1. 0 \in 0..Cardinality(Calls)
    BY Numbers
  <2>. QED
    BY <1>1, <2>1 DEF CallType, WriteType
<1>4. \/ d.status = "refused"
      \/ /\ d.tab = t /\ d.kind \in Writes /\ d.status = "waiting"
         /\ d.op = 0
  BY <1>1
<1>5. /\ closed' \in [Tabs -> [client : BOOLEAN, store : BOOLEAN]]
      /\ \A tab \in Tabs \ {t} : closed'[tab] = closed[tab]
      /\ closed[t].client => closed'[t].client
      /\ closed'[t].store = closed[t].store
  BY <1>2 DEF Inv, ClientTypeOK
<1>. QED
  BY <1>2, <1>3, <1>4, <1>5, CallComes

\* Close.
LEMMA CloseKeeps ==
  ASSUME Inv, NEW call \in Calls, NEW t \in Tabs, Close(call, t)
  PROVE  Inv'
<1>1. PICK d : d = [status |-> IF closed[t].client THEN "resolved"
                               ELSE "waiting",
                    kind |-> "close", tab |-> t]
  OBVIOUS
<1>2. /\ calls[call] = NoCall /\ calls' = [calls EXCEPT ![call] = d]
      /\ UNCHANGED <<record, authority, foreign, requested, session, view>>
      /\ closed' = [closed EXCEPT ![t].client = TRUE]
  BY <1>1 DEF Close, NextCall, durable
<1>3. /\ d \in CallType /\ d.tab = t /\ d.kind = "close"
      /\ d.status \in {"waiting", "resolved"}
  BY <1>1 DEF CallType
<1>4. PICK shut : shut = [closed[t] EXCEPT !.client = TRUE]
  OBVIOUS
<1>5. /\ shut \in [client : BOOLEAN, store : BOOLEAN] /\ shut.client = TRUE
      /\ shut.store = closed[t].store
  <2>1. closed[t] \in [client : BOOLEAN, store : BOOLEAN]
    BY Types DEF Inv
  <2>. QED
    BY <1>4, <2>1
<1>6. closed' = [closed EXCEPT ![t] = shut]
  BY <1>2, <1>4
<1>7. /\ closed' \in [Tabs -> [client : BOOLEAN, store : BOOLEAN]]
      /\ \A tab \in Tabs \ {t} : closed'[tab] = closed[tab]
      /\ closed'[t].client /\ closed'[t].store = closed[t].store
  BY <1>5, <1>6 DEF Inv, ClientTypeOK
<1>8. closed[t].client => closed'[t].client
  BY <1>7
<1>9. /\ d.tab = t /\ d.kind = "close"
      /\ d.status \in {"waiting", "resolved"} /\ closed'[t].client
  BY <1>3, <1>7
<1>10. calls[call] = NoCall /\ calls' = [calls EXCEPT ![call] = d] /\ d \in CallType
  BY <1>2, <1>3
<1>11. UNCHANGED <<record, authority, foreign, requested, session, view>>
  BY <1>2
<1>. QED
  BY <1>7, <1>8, <1>9, <1>10, <1>11, CallComes

\* RequestSync.
LEMMA RequestSyncKeeps ==
  ASSUME Inv, NEW call \in Calls, NEW t \in Tabs, RequestSync(call, t)
  PROVE  Inv'
<1>1. CASE closed[t].client
  <2>1. PICK d : d = [status |-> "refused"]
    OBVIOUS
  <2>2. /\ calls[call] = NoCall /\ calls' = [calls EXCEPT ![call] = d]
        /\ UNCHANGED <<record, authority, foreign, closed, requested, session,
                       view>>
    BY <1>1, <2>1 DEF RequestSync, NextCall, Refused, durable
  <2>3. d \in CallType /\ d.status = "refused"
    BY <2>1 DEF CallType
  <2>4. /\ closed' \in [Tabs -> [client : BOOLEAN, store : BOOLEAN]]
        /\ \A tab \in Tabs \ {t} : closed'[tab] = closed[tab]
        /\ closed[t].client => closed'[t].client
        /\ closed'[t].store = closed[t].store
    BY <2>2 DEF Inv, ClientTypeOK
  <2>. QED
    BY <2>2, <2>3, <2>4, CallComes
<1>2. CASE ~ closed[t].client
  <2>1. PICK d : d = SyncCall(t)
    OBVIOUS
  <2>2. /\ calls[call] = NoCall /\ calls' = [calls EXCEPT ![call] = d]
        /\ record' = record /\ authority' = authority /\ foreign' = foreign
        /\ closed' = closed
        /\ requested' = [requested EXCEPT ![t] = Running(t)]
        /\ IF Running(t) THEN UNCHANGED <<session, view>>
           ELSE BeginAttempt(t, 1)
    BY <1>2, <2>1 DEF RequestSync, NextCall, durable
  <2>3. /\ d \in SyncType /\ d.status = "waiting" /\ d.kind = "sync"
        /\ d.tab = t /\ d.owed = Unsettled(record) /\ d.head = authority.head
        /\ d.late = (session[t].pc = "settling")
    <3>1. Unsettled(record) \in SUBSET Operation
      <4>1. record \in RecordType
        BY Types DEF Inv
      <4>2. /\ record.pending \in SUBSET Operation
            /\ \A receipt \in record.awaiting : receipt.op \in Operation
        BY <4>1 DEF RecordType
      <4>. QED
        BY <4>2 DEF Unsettled
    <3>2. authority.head \in Sequence
      BY DEF Inv, ClientTypeOK
    <3>. QED
      BY <2>1, <3>1, <3>2 DEF SyncCall, SyncType
  <2>4. d \in CallType /\ d.kind # "enqueue"
    BY <2>3 DEF CallType
  <2>5. /\ calls' \in [Calls -> CallType] /\ calls'[call] = d
        /\ \A other \in Calls : other # call => calls'[other] = calls[other]
        /\ ~ Made(call) /\ calls[call].status = "unused" /\ Stored' = Stored
    BY <2>2, <2>4, CallMade
  <2>6. /\ requested' \in [Tabs -> BOOLEAN] /\ requested'[t] = Running(t)
        /\ \A tab \in Tabs \ {t} : requested'[tab] = requested[tab]
    BY <2>2 DEF Inv, ClientTypeOK, Running
  <2>7. RecordSound' /\ Advance
    BY <2>2, <2>5, DurableStays DEF durable
  <2>8. CallInv(call)'
    <3>1. Known(record) /\ authority.head \in Nat
      BY Types DEF Inv, RecordSound
    <3>2. d.owed \subseteq 1..record'.next - 1 /\ d.head <= authority'.head
      BY <2>2, <2>3, <3>1 DEF Known
    <3>. QED
      BY <2>3, <2>5, <3>2 DEF CallInv, CallSound, Writes
  <2>9. \A other \in Calls : calls'[other] # calls[other] => CallInv(other)'
    BY <2>5, <2>8
  <2>10. \A other \in Calls :
             \/ calls'[other] = calls[other]
             \/ /\ Made(other) => calls[other].tab = t
                /\ Made(other)' => calls'[other].tab = t
    BY <2>3, <2>5
  <2>11. view[t].snapshot.next \in Nat
    BY Types, RecordParts DEF Inv
  <2>12. CASE Running(t)
    <3>1. session' = session /\ view' = view
      BY <2>2, <2>12
    <3>2. ClientTypeOK'
      BY <2>2, <2>5, <2>6, <3>1 DEF Inv, ClientTypeOK
    <3>3. SessionSound(t)' /\ ClosedSound(t)' /\ PhaseOf(t)'
      <4>1. SessionSound(t)'
        BY <2>7, <3>1, <3>2, SessionStays DEF Inv, TabInv
      <4>. QED
        BY <2>2, <3>1, <4>1 DEF Inv, TabInv, ClosedSound, PhaseOf, InSession
    <3>4. ViewSound(t)'
      <4>1. WaitFor(t, view[t].queue)
        <5>1. /\ session'[t] = session[t] \/ session[t].pc # "refresh"
              /\ calls[call].status # "refreshing"
          BY <2>5, <3>1
        <5>. QED
          BY <2>5, <5>1, OthersWait
      <4>. QED
        BY <2>7, <3>1, <3>2, <4>1, ViewStays DEF Inv, TabInv
    <3>5. PassSound(t)'
      <4>1. ASSUME NEW other \in Waiting(t, "sync")'
            PROVE  \/ /\ other \in Waiting(t, "sync")
                      /\ calls'[other] = calls[other]
                   \/ /\ requested'[t]
                      /\ session'[t] = Settled("resolved") => calls'[other].late
        <5>1. CASE other = call
          <6>1. session'[t] = Settled("resolved") => session[t].pc = "settling"
            BY <3>1 DEF Settled
          <6>. QED
            BY <2>3, <2>5, <2>6, <2>12, <5>1, <6>1
        <5>2. CASE other # call
          BY <2>5, <4>1, <5>2 DEF Waiting
        <5>. QED
          BY <5>1, <5>2
      <4>2. PassFollows(t)
        BY <2>6, <2>12, <3>1, <4>1 DEF PassFollows
      <4>. QED
        BY <2>7, <3>2, <4>2, PassStays DEF Inv, TabInv, CallInv
    <3>6. Apart(t)
      BY <2>2, <2>6, <2>10, <2>11, <3>1 DEF Apart
    <3>. QED
      BY <2>7, <2>9, <3>2, <3>3, <3>4, <3>5, <3>6, StepKeeps DEF TabInv
  <2>13. CASE ~ Running(t)
    <3>1. PICK s : s = [pc |-> "prepare", attempt |-> 1, round |-> 1]
      OBVIOUS
    <3>2. s \in SessionType /\ s.pc = "prepare" /\ s # Settled("resolved")
      <4>1. 1 \in Attempt /\ 1 \in Round
        BY RuntimeAssumption DEF Attempt, Round
      <4>. QED
        BY <3>1, <4>1 DEF SessionType, Settled
    <3>3. session' = [session EXCEPT ![t] = s]
          /\ view' = [view EXCEPT ![t].phase = "syncing"]
      BY <1>2, <2>2, <2>13, <3>1 DEF BeginAttempt, Become, Phase
    <3>4. /\ session' \in [Tabs -> SessionType] /\ session'[t] = s
          /\ \A tab \in Tabs \ {t} : session'[tab] = session[tab]
      BY <3>2, <3>3 DEF Inv, ClientTypeOK
    <3>5. PICK v : v = [view[t] EXCEPT !.phase = "syncing"]
      OBVIOUS
    <3>6. /\ v \in ViewType /\ v.phase = "syncing" /\ v.queue = view[t].queue
          /\ v.snapshot = view[t].snapshot
      <4>1. view[t] \in ViewType
        BY Types DEF Inv
      <4>. QED
        BY <3>5, <4>1 DEF ViewType
    <3>7. /\ view' \in [Tabs -> ViewType] /\ view'[t] = v
          /\ \A tab \in Tabs \ {t} : view'[tab] = view[tab]
      <4>1. view' = [view EXCEPT ![t] = v]
        BY <3>3, <3>5
      <4>. QED
        BY <3>6, <4>1 DEF Inv, ClientTypeOK
    <3>8. ClientTypeOK'
      BY <2>2, <2>5, <2>6, <3>4, <3>7 DEF Inv, ClientTypeOK
    <3>9. session[t].pc # "refresh"
      BY <2>13 DEF Running
    <3>10. SessionSound(t)' /\ ClosedSound(t)' /\ PhaseOf(t)'
      <4>1. ClosedSound(t)
        BY DEF Inv, TabInv
      <4>2. ~ closed[t].store
        BY <1>2, <4>1 DEF ClosedSound
      <4>3. closed'[t].store = FALSE
        BY <2>2, <4>2, Types DEF Inv
      <4>4. InSession(t)' = TRUE
        BY <3>2, <3>4 DEF InSession
      <4>. QED
        BY <3>2, <3>4, <3>6, <3>7, <4>3, <4>4
        DEF SessionSound, ClosedSound, PhaseOf
    <3>11. ViewSound(t)'
      <4>1. WaitFor(t, view[t].queue)
        BY <2>5, <3>9, OthersWait
      <4>. QED
        BY <2>7, <3>6, <3>7, <3>8, <4>1, ViewStays DEF Inv, TabInv
    <3>12. PassSound(t)'
      <4>1. NoSessionRefresh(t)
        BY <3>6, <3>7, <3>9, NoRefreshYet DEF NoSessionRefresh
      <4>. QED
        BY <3>2, <3>4, <4>1, PassBegins
    <3>13. Apart(t)
      BY <2>2, <2>6, <2>10, <2>11, <3>4, <3>6, <3>7 DEF Apart
    <3>. QED
      BY <2>7, <2>9, <3>8, <3>10, <3>11, <3>12, <3>13, StepKeeps DEF TabInv
  <2>. QED
    BY <2>12, <2>13
<1>. QED
  BY <1>1, <1>2

\* A step of nobody here.
LEMMA NobodyMoves ==
  ASSUME Inv, ClientTypeOK', RecordSound', Advance,
         UNCHANGED <<closed, requested, session, view, calls>>
  PROVE  Inv'
<1>1. ASSUME NEW tab \in Tabs PROVE TabInv(tab)'
  BY TabStays
<1>2. ASSUME NEW call \in Calls PROVE CallInv(call)'
  <2>1. \A tab \in Tabs :
            /\ closed[tab].client => closed'[tab].client
            /\ closed[tab].store => closed'[tab].store
            /\ view[tab].snapshot.next <= view'[tab].snapshot.next
    <3>1. \A tab \in Tabs : view[tab].snapshot.next \in Nat
      BY Types, RecordParts DEF Inv
    <3>. QED
      BY <3>1
  <2>. QED
    BY <2>1, CallStays
<1>. QED
  BY <1>1, <1>2 DEF Inv

\* AppendForeign.
LEMMA AppendForeignKeeps ==
  ASSUME Inv, AppendForeign
  PROVE  Inv'
<1>1. PICK head \in Nat : head = authority.head
  BY Types DEF Inv
<1>2. PICK D : D = DOMAIN authority.decided
  OBVIOUS
<1>3. /\ foreign \in Nat /\ foreign' = foreign + 1 /\ foreign' \in 0..MaxForeign
      /\ authority' = [authority EXCEPT !.head = head + 1]
      /\ UNCHANGED <<record, closed, requested, session, view, calls>>
  <2>1. foreign \in 0..MaxForeign /\ MaxForeign \in Nat
    BY Numbers DEF Inv, ClientTypeOK
  <2>. QED
    BY <1>1, <2>1 DEF AppendForeign
<1>4. head <= foreign + Cardinality(D)
  BY <1>1, <1>2 DEF Inv, RecordSound
<1>5. Cardinality(D) \in Nat /\ Cardinality(D) <= Cardinality(Calls)
      /\ Cardinality(Calls) \in Nat
  <2>1. D \in SUBSET Operation
    BY <1>2, Types, DecisionParts DEF Inv
  <2>2. IsFiniteSet(D) /\ Cardinality(D) <= Cardinality(Operation)
    BY <2>1, Numbers, FS_Subset
  <2>3. Cardinality(Operation) = Cardinality(Calls)
    BY Numbers, FS_Interval DEF Operation
  <2>. QED
    BY <2>2, <2>3, FS_CardinalityType, Numbers
<1>6. head + 1 \in Sequence
  <2>1. foreign + 1 <= MaxForeign /\ MaxForeign \in Nat
    BY <1>3, Numbers
  <2>2. head + 1 <= MaxForeign + Cardinality(Calls)
    BY <1>3, <1>4, <1>5, <2>1
  <2>. QED
    BY <1>5, <2>1, <2>2 DEF Sequence
<1>7. /\ authority' \in [head : Sequence, decided : Decisions]
      /\ authority'.head = head + 1
      /\ authority'.decided = authority.decided
  <2>1. authority \in [head : Sequence, decided : Decisions]
    BY DEF Inv, ClientTypeOK
  <2>. QED
    BY <1>3, <1>6, <2>1
<1>8. ClientTypeOK'
  BY <1>3, <1>7 DEF Inv, ClientTypeOK
<1>9. PICK rec \in RecordType : rec = record
  BY Types DEF Inv
<1>10. Advance
  <2>1. Older(rec, rec)
    BY RecordParts DEF Older
  <2>. QED
    BY <1>1, <1>3, <1>7, <1>9, <2>1 DEF Advance, LogGrows
<1>11. RecordSound'
  <2>1. Known(rec)'
    <3>1. Known(rec)
      BY <1>9 DEF Inv, RecordSound
    <3>. QED
      BY <1>1, <1>7, <3>1, RecordParts DEF Known
  <2>2. Stored' = Stored
    BY <1>3 DEF Stored, Made
  <2>3. \A op \in D : /\ op < record.next
                      /\ authority.decided[op] <= head + 1
    <3>1. \A op \in D : authority.decided[op] \in Nat
      BY <1>2, Types, DecisionParts, Numbers DEF Inv
    <3>. QED
      BY <1>1, <1>2, <3>1 DEF Inv, RecordSound
  <2>4. authority'.head <= foreign' + Cardinality(DOMAIN authority'.decided)
    BY <1>2, <1>3, <1>4, <1>5, <1>7
  <2>5. record.next = Cardinality(Stored) + 1
    BY DEF Inv, RecordSound
  <2>6. ConfirmedNotPending'
    BY <1>3, <1>7 DEF Inv, RecordSound, ConfirmedNotPending
  <2>. QED
    BY <1>2, <1>3, <1>7, <1>9, <2>1, <2>2, <2>3, <2>4, <2>5, <2>6 DEF RecordSound
<1>. QED
  BY <1>3, <1>8, <1>10, <1>11, NobodyMoves

\* The initial states.
LEMMA InitInv == Init => Inv
<1>. SUFFICES ASSUME Init PROVE Inv
  OBVIOUS
<1>1. /\ record = [next |-> 1, confirmed |-> 0, pending |-> {}, awaiting |-> {}]
      /\ authority = [head |-> 0, decided |-> [op \in {} |-> 0]]
      /\ foreign = 0
      /\ closed = [tab \in Tabs |-> [client |-> FALSE, store |-> FALSE]]
      /\ requested = [tab \in Tabs |-> FALSE]
      /\ session = [tab \in Tabs |-> NoSession]
      /\ view = [tab \in Tabs |-> [phase |-> "idle", snapshot |-> record,
                                   queue |-> <<>>]]
      /\ calls = [call \in Calls |-> NoCall]
  BY DEF Init
<1>2. Cardinality(Calls) \in Nat /\ MaxForeign \in Nat
  BY Numbers
<1>3. record \in RecordType
  <2>1. 1 \in 1..Cardinality(Calls) + 1 /\ 0 \in Sequence
    BY <1>2 DEF Sequence
  <2>. QED
    BY <1>1, <2>1 DEF RecordType
<1>4. PICK d : d = [op \in {} |-> 0]
  OBVIOUS
<1>5. d \in Decisions /\ DOMAIN d = {}
  <2>1. {} \in SUBSET Operation /\ d \in [{} -> Sequence]
    BY <1>4
  <2>. QED
    BY <1>4, <2>1 DEF Decisions
<1>6. ClientTypeOK
  <2>1. authority \in [head : Sequence, decided : Decisions]
    BY <1>1, <1>2, <1>4, <1>5 DEF Sequence
  <2>2. session \in [Tabs -> SessionType]
    BY <1>1 DEF NoSession, SessionType
  <2>3. view \in [Tabs -> ViewType]
    <3>1. PICK v : v = [phase |-> "idle", snapshot |-> record, queue |-> <<>>]
      OBVIOUS
    <3>2. v \in ViewType
      BY <1>3, <3>1 DEF ViewType
    <3>3. view = [tab \in Tabs |-> v]
      BY <1>1, <3>1
    <3>. QED
      BY <3>2, <3>3
  <2>4. calls \in [Calls -> CallType]
    BY <1>1 DEF NoCall, CallType
  <2>. QED
    BY <1>1, <1>2, <1>3, <2>1, <2>2, <2>3, <2>4 DEF ClientTypeOK
<1>7. \A call \in Calls : ~ Made(call) /\ calls[call] = NoCall
  BY <1>1 DEF Made, NoCall
<1>8. Known(record) /\ Older(record, record)
  <2>1. Unsettled(record) = {}
    BY <1>1 DEF Unsettled
  <2>. QED
    BY <1>1, <2>1 DEF Known, Older
<1>9. RecordSound
  <2>1. Stored = {}
    BY <1>7 DEF Stored
  <2>2. Cardinality(Stored) = 0 /\ Cardinality(DOMAIN authority.decided) = 0
    BY <1>1, <1>4, <1>5, <2>1, FS_EmptySet
  <2>3. DOMAIN authority.decided = {}
    BY <1>1, <1>4, <1>5
  <2>4. ConfirmedNotPending
    BY <1>1 DEF ConfirmedNotPending
  <2>. QED
    BY <1>1, <1>8, <2>2, <2>3, <2>4 DEF RecordSound
<1>10. ASSUME NEW tab \in Tabs PROVE TabInv(tab)
  <2>1. /\ session[tab].pc = "none" /\ closed[tab].store = FALSE
        /\ view[tab].phase = "idle" /\ view[tab].queue = <<>>
        /\ view[tab].snapshot = record
    BY <1>1 DEF NoSession
  <2>2. PhaseOf(tab)
    <3>1. (view[tab].phase = "syncing") = InSession(tab)
      BY <2>1 DEF InSession
    <3>2. (view[tab].phase = "closed") = closed[tab].store
      BY <2>1
    <3>. QED
      BY <2>1, <3>1, <3>2 DEF PhaseOf
  <2>3. SessionSound(tab) /\ ClosedSound(tab)
    BY <2>1 DEF SessionSound, ClosedSound
  <2>4. ViewSound(tab)
    BY <1>8, <2>1 DEF ViewSound, Past
  <2>5. PassSound(tab)
    BY <1>7 DEF PassSound, Waiting, NoCall
  <2>. QED
    BY <2>2, <2>3, <2>4, <2>5 DEF TabInv
<1>11. ASSUME NEW call \in Calls PROVE CallInv(call)
  BY <1>7 DEF CallInv, CallSound, NoCall
<1>. QED
  BY <1>6, <1>9, <1>10, <1>11 DEF Inv

\* Every step keeps the invariant.
LEMMA NextKeeps ==
  ASSUME Inv, [Next]_vars
  PROVE  Inv'
<1>1. ASSUME NEW t \in Tabs, ViewStep(t) PROVE Inv'
  BY <1>1, ReadViewKeeps, FailRefreshKeeps, FailSessionRefreshKeeps,
     ShowForCallKeeps, ShowForSessionKeeps DEF ViewStep
<1>2. ASSUME NEW t \in Tabs, SessionStep(t) PROVE Inv'
  <2>1. CASE Prepare(t)
    BY <2>1, PrepareKeeps
  <2>2. CASE Exchange(t)
    BY <2>2, ExchangeKeeps
  <2>3. CASE Conflict(t)
    BY <2>3, ConflictKeeps
  <2>4. CASE FailExchange(t)
    BY <2>4, FailExchangeKeeps
  <2>5. CASE Retry(t)
    BY <2>5, RetryKeeps
  <2>6. CASE Merge(t)
    BY <2>6, MergeKeeps
  <2>7. CASE FailStore(t)
    BY <2>7, FailStoreKeeps
  <2>8. CASE Loop(t)
    BY <2>8, LoopKeeps
  <2>9. CASE Settle(t)
    BY <2>9, SettleKeeps
  <2>. QED
    BY <1>2, <2>1, <2>2, <2>3, <2>4, <2>5, <2>6, <2>7, <2>8, <2>9 DEF SessionStep
<1>3. ASSUME NEW call \in Calls, CallStep(call) PROVE Inv'
  BY <1>3, StoreKeeps, FailWriteKeeps, CloseStoreKeeps DEF CallStep
<1>4. ASSUME ApplicationStep PROVE Inv'
  BY <1>4, RequestSyncKeeps, WriteKeeps, CloseKeeps DEF ApplicationStep
<1>5. CASE UNCHANGED vars
  <2>1. UNCHANGED <<record, authority, foreign, closed, requested, session,
                    view, calls>>
    BY <1>5 DEF vars
  <2>2. ClientTypeOK'
    BY <2>1 DEF Inv, ClientTypeOK
  <2>3. Stored' = Stored
    BY <2>1 DEF Stored, Made
  <2>4. RecordSound' /\ Advance
    BY <2>1, <2>3, DurableStays DEF durable
  <2>. QED
    BY <2>1, <2>2, <2>4, NobodyMoves
<1>. QED
  BY <1>1, <1>2, <1>3, <1>4, <1>5, AppendForeignKeeps DEF Next

\* Between any two awaits, in any tab, what sessions, refreshes and calls have
\* in hand is true of the record and the log, every reported phase has its
\* reason, and no proposal is pending whose entry is confirmed, whichever
\* transaction or exchange failed (client.ts, sync-session.ts,
\* replica-view.ts, replica.ts:236-380).
THEOREM ClientInductive == Spec => []ClientInv
<1>1. Inv => ClientInv
  BY DEF Inv, TabInv, CallInv, ClientInv, PhaseOf, PhaseTrue
<1>. QED
  BY <1>1, InitInv, NextKeeps, PTL DEF Spec

\* A sync() that resolves has drained what the record and the log owed when it
\* was called (client.ts:101, 187).
THEOREM ResolvedSyncDrained == Spec => []SyncDrains
<1>1. Inv => SyncDrains
  <2>. SUFFICES ASSUME Inv, NEW call \in Calls,
                       calls[call].status = "resolved",
                       calls[call].kind = "sync"
                PROVE  calls[call].late \/ CaughtUp(calls[call])
    BY DEF SyncDrains, Syncs
  <2>. QED
    BY DEF Inv, CallInv
<1>. QED
  BY <1>1, InitInv, NextKeeps, PTL DEF Spec

\* An enqueue that resolved is in the view of its client from then on
\* (client.ts:147).
THEOREM EnqueuedIsShown == Spec => []ReadYourWrites
<1>1. Inv => ReadYourWrites
  BY DEF Inv, CallInv, ReadYourWrites
<1>. QED
  BY <1>1, InitInv, NextKeeps, PTL DEF Spec

(* The view goes forward. *)

\* A snapshot that is not drained has moved since the request, which had
\* something to ask for then.
LEMMA RoundMoves ==
  ASSUME Inv, NEW t \in Tabs, 1 \in DOMAIN view[t].queue,
         view[t].queue[1].owner = SessionOwner,
         view[t].queue[1].snapshot # Unread,
         view[t].queue[1].snapshot = session[t].basis
  PROVE  Drained(session[t], view[t].queue[1].snapshot)
<1>1. PICK answer \in AnswerType : answer = session[t]
  BY SessionRefresh
<1>2. PICK basis \in RecordType : basis = answer.basis
  BY DEF AnswerType
<1>3. AnswerSound(answer) /\ Taken(answer, basis) /\ Past(basis)
  BY <1>1, <1>2, SessionRefresh
<1>4. basis.pending = {}
  <2>1. DOMAIN answer.decisions = FirstPending(basis)
    BY <1>2, <1>3 DEF AnswerSound
  <2>2. FirstPending(basis) = {}
    BY <1>3, <2>1, FirstOfPending DEF Taken
  <2>. QED
    BY <2>2, FirstOfPending
<1>5. PICK base, head \in Nat : base = basis.confirmed /\ head = answer.head
  BY <1>2, RecordParts, Numbers DEF AnswerType
<1>6. /\ base <= head /\ answer.through = PageEnd(base, head)
      /\ answer.through <= base
      /\ \A receipt \in basis.awaiting :
             base < receipt.sequence /\ receipt.sequence <= head
  BY <1>2, <1>3, <1>5 DEF AnswerSound, Taken, Past, Known
<1>7. PageEnd(base, head) = head /\ base = head
  <2>1. PICK end : end = PageEnd(base, head)
    OBVIOUS
  <2>2. end \in Nat /\ base <= end /\ end <= head /\ (base < head => base < end)
    BY <1>5, <1>6, <2>1, PageOfLog
  <2>3. end <= base
    BY <1>6, <2>1
  <2>4. ~ base < head
    BY <1>5, <2>2, <2>3
  <2>. QED
    BY <1>5, <1>6, <2>1, <2>2, <2>4
<1>8. basis.awaiting = {}
  <2>1. \A receipt \in basis.awaiting : receipt.sequence \in Nat
    BY RecordParts
  <2>. QED
    BY <1>5, <1>6, <1>7, <2>1
<1>9. Unsettled(basis) = {}
  BY <1>4, <1>8 DEF Unsettled
<1>. QED
  BY <1>1, <1>2, <1>5, <1>6, <1>7, <1>9 DEF Drained

\* What ViewForward says of one step and one tab.
Forward(tab) ==
    /\ Older(view[tab].snapshot, view'[tab].snapshot)
    /\ AnotherRound(tab) => view'[tab].snapshot # session[tab].basis

\* A step of tab t that shows nothing, and is not that of a session at its
\* refresh.
LEMMA ShowsNothing ==
  ASSUME Inv, NEW t \in Tabs,
         \/ session' = session
         \/ session[t].pc # "refresh" /\ \E s : Become(t, s),
         \/ view' = view
         \/ \E phase : Phase(t, phase)
         \/ \E q : view' = [view EXCEPT ![t].queue = q]
  PROVE  \A tab \in Tabs : Forward(tab)
<1>. SUFFICES ASSUME NEW tab \in Tabs PROVE Forward(tab)
  OBVIOUS
<1>1. view'[tab].snapshot = view[tab].snapshot
  <2>1. view \in [Tabs -> ViewType] /\ view[t] \in ViewType
    BY DEF Inv, ClientTypeOK
  <2>2. ASSUME NEW phase, Phase(t, phase)
        PROVE  view'[tab].snapshot = view[tab].snapshot
    <3>1. PICK v : v = [view[t] EXCEPT !.phase = phase]
      OBVIOUS
    <3>2. v.snapshot = view[t].snapshot
      BY <2>1, <3>1 DEF ViewType
    <3>3. view' = [view EXCEPT ![t] = v]
      BY <2>2, <3>1 DEF Phase
    <3>. QED
      BY <2>1, <3>2, <3>3
  <2>3. ASSUME NEW q, view' = [view EXCEPT ![t].queue = q]
        PROVE  view'[tab].snapshot = view[tab].snapshot
    <3>1. PICK v : v = [view[t] EXCEPT !.queue = q]
      OBVIOUS
    <3>2. v.snapshot = view[t].snapshot
      BY <2>1, <3>1 DEF ViewType
    <3>3. view' = [view EXCEPT ![t] = v]
      BY <2>3, <3>1
    <3>. QED
      BY <2>1, <3>2, <3>3
  <2>. QED
    BY <2>2, <2>3
<1>2. ~ AnotherRound(tab)
  <2>1. CASE session' = session
    BY <2>1 DEF AnotherRound
  <2>2. ASSUME session[t].pc # "refresh", NEW s, Become(t, s)
        PROVE  ~ AnotherRound(tab)
    <3>1. tab # t => session'[tab] = session[tab]
      BY <2>2 DEF Become, Inv, ClientTypeOK
    <3>. QED
      BY <2>2, <3>1 DEF AnotherRound
  <2>. QED
    BY <2>1, <2>2
<1>3. Older(view[tab].snapshot, view[tab].snapshot)
  <2>1. PICK rec \in RecordType : rec = view[tab].snapshot
    BY Types DEF Inv
  <2>2. Older(rec, rec)
    BY RecordParts DEF Older
  <2>. QED
    BY <2>1, <2>2
<1>. QED
  BY <1>1, <1>2, <1>3 DEF Forward

\* A step that shows what the first refresh of tab t has read.
LEMMA ShowsFirst ==
  ASSUME Inv, NEW t \in Tabs, ShowForCall(t) \/ ShowForSession(t)
  PROVE  \A tab \in Tabs : Forward(tab)
<1>1. PICK phase : Show(t, 1, phase)
  BY DEF ShowForCall, ShowForSession, Ready, InTurn
<1>2. PICK refresh : refresh = view[t].queue[1]
  OBVIOUS
<1>3. 1 \in DOMAIN view[t].queue /\ refresh.snapshot # Unread
  BY <1>2 DEF ShowForCall, ShowForSession, Ready, InTurn
<1>4. Older(view[t].snapshot, refresh.snapshot)
  BY <1>2, <1>3 DEF Inv, TabInv, ViewSound, RefreshSound
<1>5. /\ view'[t].snapshot = refresh.snapshot
      /\ \A tab \in Tabs \ {t} : view'[tab] = view[tab]
  <2>1. view \in [Tabs -> ViewType] /\ view[t] \in ViewType
    BY DEF Inv, ClientTypeOK
  <2>. QED
    BY <1>1, <1>2, <2>1 DEF Show, ViewType
<1>6. \A tab \in Tabs \ {t} : session'[tab] = session[tab]
  BY DEF ShowForCall, ShowForSession, Become, Inv, ClientTypeOK
<1>7. ASSUME NEW tab \in Tabs \ {t} PROVE Forward(tab)
  <2>1. PICK rec \in RecordType : rec = view[tab].snapshot
    BY <1>7, Types DEF Inv
  <2>2. Older(rec, rec)
    BY RecordParts DEF Older
  <2>. QED
    BY <1>5, <1>6, <1>7, <2>1, <2>2 DEF Forward, AnotherRound
<1>8. AnotherRound(t) => view'[t].snapshot # session[t].basis
  <2>1. CASE ShowForCall(t)
    BY <2>1 DEF ShowForCall, AnotherRound
  <2>2. CASE ShowForSession(t)
    <3>1. /\ refresh.owner = SessionOwner
          /\ Drained(session[t], refresh.snapshot) => Become(t, [pc |-> "loop"])
      BY <1>2, <2>2 DEF ShowForSession, Ready, InTurn
    <3>2. Drained(session[t], refresh.snapshot) => ~ AnotherRound(t)
      BY <3>1 DEF Become, AnotherRound, Inv, ClientTypeOK
    <3>3. refresh.snapshot = session[t].basis =>
              Drained(session[t], refresh.snapshot)
      BY <1>2, <1>3, <3>1, RoundMoves
    <3>. QED
      BY <1>5, <3>2, <3>3
  <2>. QED
    BY <2>1, <2>2
<1>9. Forward(t)
  BY <1>4, <1>5, <1>8 DEF Forward
<1>. QED
  BY <1>7, <1>9

\* A refresh of a session that fails shows nothing, and ends its session.
LEMMA ShowsFailure ==
  ASSUME Inv, NEW t \in Tabs, FailSessionRefresh(t)
  PROVE  \A tab \in Tabs : Forward(tab)
<1>. SUFFICES ASSUME NEW tab \in Tabs PROVE Forward(tab)
  OBVIOUS
<1>1. view'[tab].snapshot = view[tab].snapshot
  <2>1. view \in [Tabs -> ViewType] /\ view[t] \in ViewType
    BY DEF Inv, ClientTypeOK
  <2>2. PICK rest : view' = [view EXCEPT ![t].phase = "error", ![t].queue = rest]
    BY DEF FailSessionRefresh
  <2>3. PICK v : v = [view[t] EXCEPT !.phase = "error", !.queue = rest]
    OBVIOUS
  <2>4. v.snapshot = view[t].snapshot
    BY <2>1, <2>3 DEF ViewType
  <2>5. view' = [view EXCEPT ![t] = v]
    BY <2>2, <2>3
  <2>. QED
    BY <2>1, <2>4, <2>5
<1>2. ~ AnotherRound(tab)
  <2>1. PICK s : Become(t, s) /\ s.pc = "settling"
    BY DEF FailSessionRefresh, Settled
  <2>2. session'[t] = s /\ (tab # t => session'[tab] = session[tab])
    BY <2>1 DEF Become, Inv, ClientTypeOK
  <2>. QED
    BY <2>1, <2>2 DEF AnotherRound
<1>3. Older(view[tab].snapshot, view[tab].snapshot)
  <2>1. PICK rec \in RecordType : rec = view[tab].snapshot
    BY Types DEF Inv
  <2>2. Older(rec, rec)
    BY RecordParts DEF Older
  <2>. QED
    BY <2>1, <2>2
<1>. QED
  BY <1>1, <1>2, <1>3 DEF Forward

\* Every step takes every view forward.
LEMMA NextForward ==
  ASSUME Inv, Next
  PROVE  \A tab \in Tabs : Forward(tab)
<1>1. ASSUME NEW t \in Tabs, ViewStep(t) PROVE \A tab \in Tabs : Forward(tab)
  <2>1. CASE ReadView(t)
    <3>1. PICK i : view' = [view EXCEPT ![t].queue[i].snapshot = record]
      BY <2>1 DEF ReadView
    <3>2. PICK q : q = [view[t].queue EXCEPT ![i].snapshot = record]
      OBVIOUS
    <3>3. view' = [view EXCEPT ![t].queue = q] /\ session' = session
      BY <2>1, <3>1, <3>2 DEF ReadView
    <3>. QED
      BY <3>3, ShowsNothing
  <2>2. CASE FailRefresh(t)
    <3>1. PICK i : view' = [view EXCEPT ![t].queue = RemoveAt(@, i)]
      BY <2>2 DEF FailRefresh
    <3>2. PICK q : q = RemoveAt(view[t].queue, i)
      OBVIOUS
    <3>3. view' = [view EXCEPT ![t].queue = q] /\ session' = session
      BY <2>2, <3>1, <3>2 DEF FailRefresh
    <3>. QED
      BY <3>3, ShowsNothing
  <2>3. CASE FailSessionRefresh(t)
    BY <2>3, ShowsFailure
  <2>4. CASE ShowForCall(t) \/ ShowForSession(t)
    BY <2>4, ShowsFirst
  <2>. QED
    BY <1>1, <2>1, <2>2, <2>3, <2>4 DEF ViewStep
<1>2. ASSUME NEW t \in Tabs, SessionStep(t)
      PROVE  \A tab \in Tabs : Forward(tab)
  <2>1. session[t].pc # "refresh" /\ \E s : Become(t, s)
    BY <1>2 DEF SessionStep, Prepare, Exchange, Conflict, FailExchange, Retry,
       Merge, FailStore, Loop, Settle, Throw, BeginAttempt
  <2>2. \/ view' = view
        \/ \E phase : Phase(t, phase)
        \/ \E q : view' = [view EXCEPT ![t].queue = q]
    <3>1. CASE Merge(t)
      <4>1. PICK q : q = Append(view[t].queue, [owner |-> SessionOwner,
                                                snapshot |-> Unread])
        OBVIOUS
      <4>2. view' = [view EXCEPT ![t].queue = q]
        BY <3>1, <4>1 DEF Merge, RefreshFor
      <4>. QED
        BY <4>2
    <3>2. CASE ~ Merge(t)
      BY <1>2, <3>2 DEF SessionStep, Prepare, Exchange, Conflict, FailExchange,
         Retry, FailStore, Loop, Settle, Throw, BeginAttempt
    <3>. QED
      BY <3>1, <3>2
  <2>. QED
    BY <2>1, <2>2, ShowsNothing
<1>3. ASSUME NEW call \in Calls, CallStep(call)
      PROVE  \A tab \in Tabs : Forward(tab)
  <2>1. session' = session
    BY <1>3 DEF CallStep, Store, FailWrite, CloseStore
  <2>2. PICK t : t = calls[call].tab
    OBVIOUS
  <2>3. t \in Tabs
    <3>1. calls[call].status = "waiting" /\ calls[call] \in CallType
      BY <1>3, Types DEF CallStep, Store, FailWrite, WaitingWrite, CloseStore, Inv
    <3>. QED
      BY <2>2, <3>1 DEF CallType, SyncType, WriteType
  <2>4. \/ view' = view
        \/ \E phase : Phase(t, phase)
        \/ \E q : view' = [view EXCEPT ![t].queue = q]
    <3>1. CASE RefreshFor(t, call)
      <4>1. PICK q : q = Append(view[t].queue, [owner |-> call,
                                                snapshot |-> Unread])
        OBVIOUS
      <4>2. view' = [view EXCEPT ![t].queue = q]
        BY <3>1, <4>1 DEF RefreshFor
      <4>. QED
        BY <4>2
    <3>2. CASE ~ RefreshFor(t, call)
      BY <1>3, <2>2, <3>2 DEF CallStep, Store, FailWrite, CloseStore
    <3>. QED
      BY <3>1, <3>2
  <2>. QED
    BY <2>1, <2>3, <2>4, ShowsNothing
<1>4. ASSUME ApplicationStep PROVE \A tab \in Tabs : Forward(tab)
  <2>1. PICK call \in Calls, t \in Tabs :
            \/ RequestSync(call, t)
            \/ \E kind \in Writes : Write(call, t, kind)
            \/ Close(call, t)
    BY <1>4 DEF ApplicationStep
  <2>2. \/ session' = session
        \/ session[t].pc # "refresh" /\ \E s : Become(t, s)
    BY <2>1 DEF RequestSync, Write, Close, BeginAttempt, Running
  <2>3. view' = view \/ \E phase : Phase(t, phase)
    BY <2>1 DEF RequestSync, Write, Close, BeginAttempt
  <2>. QED
    BY <2>2, <2>3, ShowsNothing
<1>5. ASSUME AppendForeign PROVE \A tab \in Tabs : Forward(tab)
  BY <1>5, ShowsNothing DEF AppendForeign
<1>. QED
  BY <1>1, <1>2, <1>3, <1>4, <1>5 DEF Next

\* The view of a client never goes back to an older record, and a round that
\* is followed by another one has moved it (replica-view.ts:95,
\* sync-session.ts:38).
THEOREM ViewGoesForward == Spec => ViewForward
<1>1. ASSUME Inv, [Next]_vars
      PROVE  [\A tab \in Tabs :
                 /\ Older(view[tab].snapshot, view'[tab].snapshot)
                 /\ AnotherRound(tab) =>
                        view'[tab].snapshot # session[tab].basis]_vars
  BY <1>1, NextForward DEF Forward
<1>. QED
  BY <1>1, InitInv, NextKeeps, PTL DEF Spec, ViewForward

(* No call is stuck. *)

\* Whatever a session or a call waits for is still there.
Awaited ==
    /\ \A tab \in Tabs :
           session[tab].pc = "refresh" => RefreshQueued(tab, SessionOwner)
    /\ \A call \in Calls :
           /\ calls[call].status = "refreshing" =>
                  RefreshQueued(calls[call].tab, call)
           /\ calls[call].status = "waiting" /\ calls[call].kind = "sync" =>
                  Running(calls[call].tab)

\* A refresh leaves the queue only when its owner goes on.
QueuesKeep ==
    \A tab \in Tabs : \A owner \in Calls \cup {SessionOwner} :
        RefreshQueued(tab, owner) =>
            \/ RefreshQueued(tab, owner)'
            \/ owner = SessionOwner /\ session'[tab].pc # "refresh"
            \/ owner \in Calls /\ calls'[owner].status # "refreshing"

\* A session that comes to its refresh has asked for it, and one that ends
\* leaves no request behind.
SessionsKeep ==
    \A tab \in Tabs :
        /\ session'[tab].pc = "refresh" =>
               session[tab].pc = "refresh" \/ RefreshQueued(tab, SessionOwner)'
        /\ Running(tab) => Running(tab)' \/ Waiting(tab, "sync")' = {}

\* A call that begins to wait has what it waits for.
CallsKeep ==
    \A call \in Calls :
        \/ calls'[call] = calls[call]
        \/ /\ calls'[call].status = "refreshing" =>
                  RefreshQueued(calls[call].tab, call)'
           /\ calls'[call].status = "waiting" /\ calls'[call].kind = "sync" =>
                  Running(calls[call].tab)'

\* A call that waits belongs to a tab.
LEMMA WaitingParts ==
  ASSUME NEW c \in CallType, c.status \in {"waiting", "refreshing"}
  PROVE  /\ c.tab \in Tabs
         /\ c.kind \in Writes \cup {"sync", "close"}
         /\ c.status = "refreshing" => c.kind \in Writes
BY DEF CallType, SyncType, WriteType

\* These three keep Awaited.
LEMMA AwaitedStays ==
  ASSUME ClientTypeOK, Awaited, QueuesKeep, SessionsKeep, CallsKeep
  PROVE  Awaited'
<1>1. ASSUME NEW tab \in Tabs, session'[tab].pc = "refresh"
      PROVE  RefreshQueued(tab, SessionOwner)'
  <2>1. session[tab].pc = "refresh" => RefreshQueued(tab, SessionOwner)
    BY DEF Awaited
  <2>. QED
    BY <1>1, <2>1, Numbers DEF QueuesKeep, SessionsKeep
<1>2. ASSUME NEW call \in Calls, calls'[call].status = "refreshing"
      PROVE  RefreshQueued(calls[call].tab, call)'
  <2>1. CASE calls'[call] = calls[call]
    <3>1. PICK c \in CallType : c = calls[call]
      BY Types
    <3>2. c.status = "refreshing" /\ c.tab \in Tabs
      BY <1>2, <2>1, <3>1, WaitingParts
    <3>3. RefreshQueued(c.tab, call)
      BY <3>1, <3>2 DEF Awaited
    <3>4. RefreshQueued(c.tab, call)'
      BY <1>2, <3>2, <3>3, Numbers DEF QueuesKeep
    <3>. QED
      BY <2>1, <3>1, <3>4 DEF RefreshQueued
  <2>. QED
    BY <1>2, <2>1 DEF CallsKeep
<1>3. ASSUME NEW call \in Calls,
             calls'[call].status = "waiting", calls'[call].kind = "sync"
      PROVE  Running(calls[call].tab)'
  <2>1. CASE calls'[call] = calls[call]
    <3>1. PICK c \in CallType : c = calls[call]
      BY Types
    <3>2. c.status = "waiting" /\ c.kind = "sync" /\ c.tab \in Tabs
      BY <1>3, <2>1, <3>1, WaitingParts
    <3>3. Running(c.tab)
      BY <3>1, <3>2 DEF Awaited
    <3>4. call \in Waiting(c.tab, "sync")'
      BY <2>1, <3>1, <3>2 DEF Waiting
    <3>5. Running(c.tab)'
      BY <3>2, <3>3, <3>4 DEF SessionsKeep
    <3>. QED
      BY <2>1, <3>1, <3>5 DEF Running
  <2>. QED
    BY <1>3, <2>1 DEF CallsKeep
<1>. QED
  BY <1>1, <1>2, <1>3 DEF Awaited

\* A step that leaves the queues alone.
LEMMA QueuesAlone ==
  ASSUME ClientTypeOK, NEW t \in Tabs,
         view' = view \/ \E phase : Phase(t, phase)
  PROVE  QueuesKeep
<1>1. \A tab \in Tabs : view'[tab].queue = view[tab].queue
  <2>1. ASSUME NEW phase, Phase(t, phase)
        PROVE  \A tab \in Tabs : view'[tab].queue = view[tab].queue
    <3>1. view \in [Tabs -> ViewType] /\ view[t] \in ViewType
      BY DEF ClientTypeOK
    <3>2. PICK v : v = [view[t] EXCEPT !.phase = phase]
      OBVIOUS
    <3>3. v.queue = view[t].queue
      BY <3>1, <3>2 DEF ViewType
    <3>4. view' = [view EXCEPT ![t] = v]
      BY <2>1, <3>2 DEF Phase
    <3>. QED
      BY <3>1, <3>3, <3>4
  <2>. QED
    BY <2>1
<1>. QED
  BY <1>1 DEF QueuesKeep, RefreshQueued

\* A refresh is asked for.
LEMMA QueueGrows ==
  ASSUME ClientTypeOK, NEW t \in Tabs, NEW owner, RefreshFor(t, owner)
  PROVE  QueuesKeep /\ RefreshQueued(t, owner)'
<1>1. PICK q \in Seq(RefreshType) : q = view[t].queue
  BY Types
<1>2. PICK refresh : refresh = [owner |-> owner, snapshot |-> Unread]
  OBVIOUS
<1>3. PICK n \in Nat : n = Len(q)
  OBVIOUS
<1>4. PICK more : more = Append(q, refresh)
  OBVIOUS
<1>5. /\ DOMAIN q = 1..n /\ DOMAIN more = 1..n + 1
      /\ \A i \in 1..n : more[i] = q[i]
      /\ more[n + 1] = refresh
  BY <1>3, <1>4
<1>6. /\ view'[t].queue = more
      /\ \A tab \in Tabs \ {t} : view'[tab] = view[tab]
  <2>1. view \in [Tabs -> ViewType] /\ view[t] \in ViewType
    BY DEF ClientTypeOK
  <2>2. PICK v : v = [view[t] EXCEPT !.queue = more]
    OBVIOUS
  <2>3. v.queue = more
    BY <2>1, <2>2 DEF ViewType
  <2>4. view' = [view EXCEPT ![t] = v]
    BY <1>1, <1>2, <1>4, <2>2 DEF RefreshFor
  <2>. QED
    BY <2>1, <2>3, <2>4
<1>7. RefreshQueued(t, owner)'
  <2>1. n + 1 \in DOMAIN more /\ more[n + 1].owner = owner
    BY <1>2, <1>5
  <2>. QED
    BY <1>6, <2>1 DEF RefreshQueued
<1>8. ASSUME NEW tab \in Tabs, NEW o, RefreshQueued(tab, o)
      PROVE  RefreshQueued(tab, o)'
  <2>1. CASE tab = t
    <3>1. PICK i \in 1..n : q[i].owner = o
      BY <1>1, <1>5, <1>8, <2>1 DEF RefreshQueued
    <3>2. i \in DOMAIN more /\ more[i].owner = o
      BY <1>5, <3>1
    <3>. QED
      BY <1>6, <2>1, <3>2 DEF RefreshQueued
  <2>2. CASE tab # t
    BY <1>6, <1>8, <2>2 DEF RefreshQueued
  <2>. QED
    BY <2>1, <2>2
<1>. QED
  BY <1>7, <1>8 DEF QueuesKeep

\* The first refresh reads the record.
LEMMA QueueReads ==
  ASSUME ClientTypeOK, NEW t \in Tabs, ReadView(t)
  PROVE  QueuesKeep
<1>1. PICK q \in Seq(RefreshType) : q = view[t].queue
  BY Types
<1>2. PICK i \in DOMAIN q : view' = [view EXCEPT ![t].queue[i].snapshot = record]
  BY <1>1 DEF ReadView
<1>3. PICK new : new = [q[i] EXCEPT !.snapshot = record]
  OBVIOUS
<1>4. new.owner = q[i].owner
  <2>1. q[i] \in RefreshType
    BY <1>1, QueueParts
  <2>. QED
    BY <1>3, <2>1 DEF RefreshType
<1>5. PICK next : next = [q EXCEPT ![i] = new]
  OBVIOUS
<1>6. DOMAIN next = DOMAIN q /\ \A k \in DOMAIN q : next[k].owner = q[k].owner
  BY <1>1, <1>4, <1>5
<1>7. /\ view'[t].queue = next
      /\ \A tab \in Tabs \ {t} : view'[tab] = view[tab]
  <2>1. view \in [Tabs -> ViewType] /\ view[t] \in ViewType
    BY DEF ClientTypeOK
  <2>2. PICK v : v = [view[t] EXCEPT !.queue = next]
    OBVIOUS
  <2>3. v.queue = next
    BY <2>1, <2>2 DEF ViewType
  <2>4. view' = [view EXCEPT ![t] = v]
    BY <1>1, <1>2, <1>3, <1>5, <2>2
  <2>. QED
    BY <2>1, <2>3, <2>4
<1>8. ASSUME NEW tab \in Tabs, NEW o, RefreshQueued(tab, o)
      PROVE  RefreshQueued(tab, o)'
  <2>1. CASE tab = t
    BY <1>1, <1>6, <1>7, <1>8, <2>1 DEF RefreshQueued
  <2>2. CASE tab # t
    BY <1>7, <1>8, <2>2 DEF RefreshQueued
  <2>. QED
    BY <2>1, <2>2
<1>. QED
  BY <1>8 DEF QueuesKeep

\* The first refresh is done; its owner goes on.
LEMMA QueueShrinks ==
  ASSUME ClientTypeOK, NEW t \in Tabs, 1 \in DOMAIN view[t].queue,
         view'[t].queue = RemoveAt(view[t].queue, 1),
         \A tab \in Tabs \ {t} : view'[tab] = view[tab],
         NEW first, first = view[t].queue[1].owner,
         \/ first = SessionOwner /\ session'[t].pc # "refresh"
         \/ first \in Calls /\ calls'[first].status # "refreshing"
  PROVE  QueuesKeep
<1>1. PICK q \in Seq(RefreshType) : q = view[t].queue
  BY Types
<1>2. PICK rest : rest = RemoveAt(q, 1)
  OBVIOUS
<1>3. /\ rest \in Seq(RefreshType) /\ Len(rest) = Len(q) - 1
      /\ \A i \in DOMAIN rest : rest[i] = q[i + 1]
  BY <1>1, <1>2, QueueTail
<1>4. ASSUME NEW o, o # first, NEW i \in DOMAIN q, q[i].owner = o
      PROVE  \E k \in DOMAIN rest : rest[k].owner = o
  <2>1. i # 1
    BY <1>1, <1>4
  <2>2. PICK k \in Nat : k = i - 1 /\ i = k + 1 /\ k >= 1 /\ k <= Len(q) - 1
    BY <1>1, <2>1
  <2>3. k \in DOMAIN rest
    BY <1>3, <2>2
  <2>. QED
    BY <1>3, <1>4, <2>2, <2>3
<1>5. ASSUME NEW tab \in Tabs, NEW o, o # first \/ tab # t, RefreshQueued(tab, o)
      PROVE  RefreshQueued(tab, o)'
  <2>1. CASE tab = t
    <3>1. PICK i \in DOMAIN q : q[i].owner = o
      BY <1>1, <1>5, <2>1 DEF RefreshQueued
    <3>2. PICK k \in DOMAIN rest : rest[k].owner = o
      BY <1>4, <1>5, <2>1, <3>1
    <3>. QED
      BY <1>1, <1>2, <2>1, <3>2 DEF RefreshQueued
  <2>2. CASE tab # t
    BY <1>5, <2>2 DEF RefreshQueued
  <2>. QED
    BY <2>1, <2>2
<1>. QED
  BY <1>5, Numbers DEF QueuesKeep

\* A call returns, or goes on to its refresh; the others stay.
LEMMA OneCall ==
  ASSUME ClientTypeOK, NEW call \in Calls, NEW c,
         calls' = [calls EXCEPT ![call] = c],
         c.status = "refreshing" => RefreshQueued(c.tab, call)',
         c.status = "waiting" /\ c.kind = "sync" => Running(c.tab)'
  PROVE  CallsKeep
<1>1. calls'[call] = c /\ \A other \in Calls \ {call} : calls'[other] = calls[other]
  BY DEF ClientTypeOK
<1>2. /\ calls'[call].status = "refreshing" => RefreshQueued(calls[call].tab, call)'
      /\ calls'[call].status = "waiting" /\ calls'[call].kind = "sync" =>
             Running(calls[call].tab)'
  BY <1>1 DEF RefreshQueued, Running
<1>. QED
  BY <1>1, <1>2 DEF CallsKeep

\* The session of one tab goes on, without a refresh to wait for.
LEMMA OneSession ==
  ASSUME ClientTypeOK, NEW t \in Tabs, NEW s, Become(t, s),
         s.pc # "none", s.pc = "refresh" => RefreshQueued(t, SessionOwner)'
  PROVE  SessionsKeep
<1>1. session'[t] = s /\ \A other \in Tabs \ {t} : session'[other] = session[other]
  BY DEF ClientTypeOK, Become
<1>2. Running(t)' /\ \A other \in Tabs \ {t} : Running(other) => Running(other)'
  BY <1>1 DEF Running
<1>. QED
  BY <1>1, <1>2 DEF SessionsKeep

\* Sessions that stand still.
LEMMA NoSessions ==
  ASSUME session' = session
  PROVE  SessionsKeep
BY DEF SessionsKeep, Running

\* An attempt begins, or is refused.
LEMMA AttemptKeeps ==
  ASSUME ClientTypeOK, NEW t \in Tabs, NEW n, BeginAttempt(t, n)
  PROVE  QueuesKeep /\ SessionsKeep /\ Running(t)'
<1>1. QueuesKeep
  BY QueuesAlone DEF BeginAttempt
<1>2. PICK s : Become(t, s) /\ s.pc \in {"settling", "prepare"}
  BY DEF BeginAttempt, Settled
<1>3. SessionsKeep
  BY <1>2, OneSession
<1>4. Running(t)'
  BY <1>2 DEF Running, Become, ClientTypeOK
<1>. QED
  BY <1>1, <1>3, <1>4

\* Calls that stand still.
LEMMA NoCalls ==
  ASSUME calls' = calls
  PROVE  CallsKeep
BY DEF CallsKeep

\* The status of a write or a close is set.
LEMMA StatusSet ==
  ASSUME ClientTypeOK, NEW call \in Calls,
         calls[call].status \in {"waiting", "refreshing"},
         NEW status \in {"resolved", "rejected"},
         calls' = [calls EXCEPT ![call].status = status]
  PROVE  CallsKeep /\ calls'[call].status = status
<1>1. PICK c \in CallType : c = calls[call]
  BY Types
<1>2. PICK new : new = [c EXCEPT !.status = status]
  OBVIOUS
<1>3. new.status = status
  BY <1>1, <1>2 DEF CallType, SyncType, WriteType
<1>4. calls' = [calls EXCEPT ![call] = new]
  BY <1>1, <1>2
<1>5. calls'[call] = new
  BY <1>4 DEF ClientTypeOK
<1>. QED
  BY <1>3, <1>4, <1>5, OneCall

\* Prepare, Exchange, Conflict, FailExchange, Retry, FailStore and Loop: a
\* session goes on by itself.
LEMMA SessionAwaited ==
  ASSUME Inv, Awaited, NEW t \in Tabs,
         \/ Prepare(t) \/ Exchange(t) \/ Conflict(t) \/ FailExchange(t)
         \/ Retry(t) \/ FailStore(t) \/ Loop(t)
  PROVE  Awaited'
<1>1. ClientTypeOK /\ calls' = calls
  BY DEF Inv, Prepare, Exchange, Conflict, FailExchange, Retry, FailStore, Loop
<1>2. ASSUME NEW s, Become(t, s), s.pc \notin {"none", "refresh"},
             view' = view \/ \E phase : Phase(t, phase)
      PROVE  Awaited'
  BY <1>1, <1>2, QueuesAlone, OneSession, NoCalls, AwaitedStays DEF Inv
<1>3. ASSUME NEW n, BeginAttempt(t, n) PROVE Awaited'
  BY <1>1, <1>3, AttemptKeeps, NoCalls, AwaitedStays DEF Inv
<1>4. ASSUME NEW again, Throw(t, again) PROVE Awaited'
  <2>1. PICK s : Become(t, s) /\ s.pc \in {"backoff", "settling"}
    BY <1>4 DEF Throw, Settled
  <2>. QED
    BY <1>2, <1>4, <2>1 DEF Throw
<1>5. CASE Prepare(t)
  <2>1. PICK s : Become(t, s) /\ s.pc = "exchange"
    BY <1>5 DEF Prepare
  <2>. QED
    BY <1>2, <1>5, <2>1 DEF Prepare
<1>6. CASE Exchange(t)
  <2>1. PICK s : Become(t, s) /\ s.pc = "merge"
    BY <1>6 DEF Exchange
  <2>. QED
    BY <1>2, <1>6, <2>1 DEF Exchange
<1>7. CASE Conflict(t) \/ FailExchange(t) \/ FailStore(t)
  BY <1>4, <1>7 DEF Conflict, FailExchange, FailStore
<1>8. CASE Retry(t)
  BY <1>3, <1>8 DEF Retry
<1>9. CASE Loop(t)
  <2>1. CASE requested[t]
    BY <1>3, <1>9, <2>1 DEF Loop
  <2>2. CASE ~ requested[t]
    <3>1. PICK s : Become(t, s) /\ s.pc = "settling"
      BY <1>9, <2>2 DEF Loop, Settled
    <3>. QED
      BY <1>2, <1>9, <2>2, <3>1 DEF Loop
  <2>. QED
    BY <2>1, <2>2
<1>. QED
  BY <1>5, <1>6, <1>7, <1>8, <1>9

\* Merge: the session asks for its refresh.
LEMMA MergeAwaited ==
  ASSUME Inv, Awaited, NEW t \in Tabs, Merge(t)
  PROVE  Awaited'
<1>1. ClientTypeOK /\ calls' = calls /\ RefreshFor(t, SessionOwner)
  BY DEF Inv, Merge
<1>2. QueuesKeep /\ RefreshQueued(t, SessionOwner)'
  BY <1>1, QueueGrows
<1>3. PICK s : s = [session[t] EXCEPT !.pc = "refresh"] /\ Become(t, s)
  BY DEF Merge
<1>4. s.pc = "refresh"
  <2>1. session[t] \in AnswerType
    BY Types, SessionParts DEF Inv, Merge
  <2>. QED
    BY <1>3, <2>1 DEF AnswerType
<1>5. SessionsKeep
  BY <1>1, <1>2, <1>3, <1>4, OneSession
<1>. QED
  BY <1>1, <1>2, <1>5, NoCalls, AwaitedStays DEF Inv

\* Settle: nobody goes on waiting for the session that ends.
LEMMA SettleAwaited ==
  ASSUME Inv, Awaited, NEW t \in Tabs, Settle(t)
  PROVE  Awaited'
<1>1. ClientTypeOK /\ view' = view
  BY DEF Inv, Settle
<1>2. PICK outcome \in {"resolved", "rejected"} : session[t].outcome = outcome
  <2>1. session[t] \in SessionType /\ session[t].pc = "settling"
    BY <1>1, Types DEF Settle
  <2>. QED
    BY <2>1 DEF SessionType, AnswerType
<1>3. ASSUME NEW call \in Calls
      PROVE  \/ calls'[call] = calls[call] /\ call \notin Waiting(t, "sync")
             \/ calls'[call].status = outcome
  <2>1. CASE call \in Waiting(t, "sync")
    <3>1. PICK c \in CallType : c = calls[call]
      BY <1>1, Types
    <3>2. PICK new : new = [c EXCEPT !.status = outcome]
      OBVIOUS
    <3>3. new.status = outcome
      BY <3>1, <3>2 DEF CallType, SyncType, WriteType
    <3>. QED
      BY <1>2, <2>1, <3>1, <3>2, <3>3 DEF Settle
  <2>2. CASE call \notin Waiting(t, "sync")
    BY <2>2 DEF Settle
  <2>. QED
    BY <2>1, <2>2
<1>4. Waiting(t, "sync")' = {}
  <2>1. SUFFICES ASSUME NEW call \in Calls, calls'[call].status = "waiting",
                        calls'[call].kind = "sync", calls'[call].tab = t
                 PROVE  FALSE
    BY DEF Waiting
  <2>2. calls'[call] = calls[call] /\ call \notin Waiting(t, "sync")
    BY <1>2, <1>3, <2>1
  <2>. QED
    BY <2>1, <2>2 DEF Waiting
<1>5. CallsKeep
  BY <1>2, <1>3 DEF CallsKeep
<1>6. SessionsKeep
  <2>1. /\ session'[t].pc = "none"
        /\ \A other \in Tabs \ {t} : session'[other] = session[other]
    BY <1>1 DEF Settle, Become, NoSession, ClientTypeOK
  <2>2. \A other \in Tabs \ {t} : Running(other) => Running(other)'
    BY <2>1 DEF Running
  <2>. QED
    BY <1>4, <2>1, <2>2 DEF SessionsKeep
<1>. QED
  BY <1>1, <1>5, <1>6, QueuesAlone, AwaitedStays

\* What a step shows leaves the queue, and the queues of the others alone.
LEMMA ShownLeaves ==
  ASSUME ClientTypeOK, NEW t \in Tabs, NEW phase, Show(t, 1, phase)
  PROVE  /\ view'[t].queue = RemoveAt(view[t].queue, 1)
         /\ \A tab \in Tabs \ {t} : view'[tab] = view[tab]
<1>1. view \in [Tabs -> ViewType] /\ view[t] \in ViewType
  BY DEF ClientTypeOK
<1>2. PICK rest : rest = RemoveAt(view[t].queue, 1)
  OBVIOUS
<1>3. PICK snapshot : snapshot = view[t].queue[1].snapshot
  OBVIOUS
<1>4. PICK v : v = [view[t] EXCEPT !.phase = phase, !.snapshot = snapshot,
                                   !.queue = rest]
  OBVIOUS
<1>5. v.queue = rest
  BY <1>1, <1>4 DEF ViewType
<1>6. view' = [view EXCEPT ![t] = v]
  BY <1>2, <1>3, <1>4 DEF Show
<1>. QED
  BY <1>1, <1>2, <1>5, <1>6

\* The steps of the view: the first refresh reads, or is done with.
LEMMA ViewAwaited ==
  ASSUME Inv, Awaited, NEW t \in Tabs, ViewStep(t)
  PROVE  Awaited'
<1>1. ClientTypeOK
  BY DEF Inv
<1>2. CASE ReadView(t)
  <2>1. calls' = calls /\ session' = session
    BY <1>2 DEF ReadView
  <2>. QED
    BY <1>1, <1>2, <2>1, QueueReads, NoCalls, NoSessions, AwaitedStays
<1>3. ASSUME 1 \in DOMAIN view[t].queue, view[t].queue[1].owner # SessionOwner,
             NEW status \in {"resolved", "rejected"},
             calls' = [calls EXCEPT ![view[t].queue[1].owner].status = status],
             view'[t].queue = RemoveAt(view[t].queue, 1),
             \A tab \in Tabs \ {t} : view'[tab] = view[tab],
             session' = session
      PROVE  Awaited'
  <2>1. PICK owner \in Calls : /\ owner = view[t].queue[1].owner
                               /\ calls[owner].status = "refreshing"
    BY <1>3, OwnerParts
  <2>2. CallsKeep /\ calls'[owner].status = status
    BY <1>1, <1>3, <2>1, StatusSet
  <2>3. QueuesKeep
    BY <1>1, <1>3, <2>1, <2>2, QueueShrinks
  <2>. QED
    BY <1>1, <1>3, <2>2, <2>3, NoSessions, AwaitedStays
<1>4. CASE FailRefresh(t)
  <2>1. /\ 1 \in DOMAIN view[t].queue /\ view[t].queue[1].owner # SessionOwner
        /\ view' = [view EXCEPT ![t].queue = RemoveAt(@, 1)]
        /\ calls' = [calls EXCEPT ![view[t].queue[1].owner].status = "rejected"]
        /\ session' = session
    BY <1>4 DEF FailRefresh, InTurn, Reject
  <2>2. /\ view'[t].queue = RemoveAt(view[t].queue, 1)
        /\ \A tab \in Tabs \ {t} : view'[tab] = view[tab]
    <3>1. view \in [Tabs -> ViewType] /\ view[t] \in ViewType
      BY <1>1 DEF ClientTypeOK
    <3>2. PICK rest : rest = RemoveAt(view[t].queue, 1)
      OBVIOUS
    <3>3. PICK v : v = [view[t] EXCEPT !.queue = rest]
      OBVIOUS
    <3>4. v.queue = rest
      BY <3>1, <3>3 DEF ViewType
    <3>5. view' = [view EXCEPT ![t] = v]
      BY <2>1, <3>2, <3>3
    <3>. QED
      BY <3>1, <3>2, <3>4, <3>5
  <2>. QED
    BY <1>3, <2>1, <2>2
<1>5. CASE ShowForCall(t)
  <2>1. /\ 1 \in DOMAIN view[t].queue /\ view[t].queue[1].owner # SessionOwner
        /\ Show(t, 1, view[t].phase) /\ session' = session
        /\ calls' = [calls EXCEPT ![view[t].queue[1].owner].status = "resolved"]
    BY <1>5 DEF ShowForCall, Ready, InTurn, Resolve
  <2>2. /\ view'[t].queue = RemoveAt(view[t].queue, 1)
        /\ \A tab \in Tabs \ {t} : view'[tab] = view[tab]
    BY <1>1, <2>1, ShownLeaves
  <2>. QED
    BY <1>3, <2>1, <2>2
<1>6. ASSUME 1 \in DOMAIN view[t].queue, view[t].queue[1].owner = SessionOwner,
             NEW s, Become(t, s), s.pc \in {"loop", "settling", "prepare"},
             view'[t].queue = RemoveAt(view[t].queue, 1),
             \A tab \in Tabs \ {t} : view'[tab] = view[tab],
             calls' = calls
      PROVE  Awaited'
  <2>1. session'[t].pc # "refresh"
    BY <1>1, <1>6 DEF Become, ClientTypeOK
  <2>2. QueuesKeep
    BY <1>1, <1>6, <2>1, QueueShrinks
  <2>3. SessionsKeep
    BY <1>1, <1>6, OneSession
  <2>. QED
    BY <1>1, <1>6, <2>2, <2>3, NoCalls, AwaitedStays
<1>7. CASE FailSessionRefresh(t)
  <2>1. /\ 1 \in DOMAIN view[t].queue /\ view[t].queue[1].owner = SessionOwner
        /\ view' = [view EXCEPT ![t].phase = "error",
                                ![t].queue = RemoveAt(@, 1)]
        /\ calls' = calls
    BY <1>7 DEF FailSessionRefresh, InTurn
  <2>2. PICK s : Become(t, s) /\ s.pc = "settling"
    BY <1>7 DEF FailSessionRefresh, Settled
  <2>3. /\ view'[t].queue = RemoveAt(view[t].queue, 1)
        /\ \A tab \in Tabs \ {t} : view'[tab] = view[tab]
    <3>1. view \in [Tabs -> ViewType] /\ view[t] \in ViewType
      BY <1>1 DEF ClientTypeOK
    <3>2. PICK rest : rest = RemoveAt(view[t].queue, 1)
      OBVIOUS
    <3>3. PICK v : v = [view[t] EXCEPT !.phase = "error", !.queue = rest]
      OBVIOUS
    <3>4. v.queue = rest
      BY <3>1, <3>3 DEF ViewType
    <3>5. view' = [view EXCEPT ![t] = v]
      BY <2>1, <3>2, <3>3
    <3>. QED
      BY <3>1, <3>2, <3>4, <3>5
  <2>. QED
    BY <1>6, <2>1, <2>2, <2>3
<1>8. CASE ShowForSession(t)
  <2>1. /\ 1 \in DOMAIN view[t].queue /\ view[t].queue[1].owner = SessionOwner
        /\ calls' = calls
        /\ \E phase : Show(t, 1, phase)
    BY <1>8 DEF ShowForSession, Ready, InTurn
  <2>2. PICK s : Become(t, s) /\ s.pc \in {"loop", "settling", "prepare"}
    BY <1>8 DEF ShowForSession, Settled
  <2>3. /\ view'[t].queue = RemoveAt(view[t].queue, 1)
        /\ \A tab \in Tabs \ {t} : view'[tab] = view[tab]
    BY <1>1, <2>1, ShownLeaves
  <2>. QED
    BY <1>6, <2>1, <2>2, <2>3
<1>. QED
  BY <1>2, <1>4, <1>5, <1>7, <1>8 DEF ViewStep

\* Store: a write that goes on has asked for its refresh.
LEMMA StoreAwaited ==
  ASSUME Inv, Awaited, NEW call \in Calls, Store(call)
  PROVE  Awaited'
<1>1. /\ ClientTypeOK /\ session' = session
      /\ calls[call].status = "waiting" /\ calls[call].kind \in Writes
  BY DEF Inv, Store, WaitingWrite
<1>2. PICK c \in CallType : c = calls[call]
  BY <1>1, Types
<1>3. c \in WriteType /\ c.tab \in Tabs
  BY <1>1, <1>2 DEF CallType, SyncType, WriteType, Writes
<1>4. PICK t \in Tabs : t = c.tab
  BY <1>3
<1>5. RefreshFor(t, call)
  BY <1>2, <1>4 DEF Store
<1>6. QueuesKeep /\ RefreshQueued(t, call)'
  BY <1>1, <1>5, QueueGrows
<1>7. PICK new : /\ calls' = [calls EXCEPT ![call] = new]
                 /\ new.status = "refreshing" /\ new.tab = t
  <2>1. PICK one : one = [c EXCEPT !.status = "refreshing", !.op = record.next]
    OBVIOUS
  <2>2. PICK two : two = [c EXCEPT !.status = "refreshing"]
    OBVIOUS
  <2>3. /\ one.status = "refreshing" /\ one.tab = t
        /\ two.status = "refreshing" /\ two.tab = t
    BY <1>3, <1>4, <2>1, <2>2 DEF WriteType
  <2>4. \/ calls' = [calls EXCEPT ![call] = one]
        \/ calls' = [calls EXCEPT ![call] = two]
    BY <1>2, <2>1, <2>2 DEF Store
  <2>. QED
    BY <2>3, <2>4
<1>8. CallsKeep
  BY <1>1, <1>6, <1>7, OneCall
<1>. QED
  BY <1>1, <1>6, <1>8, NoSessions, AwaitedStays

\* FailWrite: the write returns.
LEMMA FailWriteAwaited ==
  ASSUME Inv, Awaited, NEW call \in Calls, FailWrite(call)
  PROVE  Awaited'
<1>1. /\ ClientTypeOK /\ session' = session /\ view' = view
      /\ calls[call].status = "waiting"
      /\ calls' = [calls EXCEPT ![call].status = "rejected"]
  BY DEF Inv, FailWrite, WaitingWrite, Reject
<1>2. PICK t \in Tabs : t = calls[call].tab
  BY <1>1, Types, WaitingParts
<1>3. CallsKeep
  BY <1>1, StatusSet
<1>. QED
  BY <1>1, <1>2, <1>3, QueuesAlone, NoSessions, AwaitedStays

\* CloseStore: the close returns.
LEMMA CloseStoreAwaited ==
  ASSUME Inv, Awaited, NEW call \in Calls, CloseStore(call)
  PROVE  Awaited'
<1>1. /\ ClientTypeOK /\ session' = session /\ calls[call].status = "waiting"
      /\ calls' = [calls EXCEPT ![call].status = "resolved"]
      /\ Phase(calls[call].tab, "closed")
  BY DEF Inv, CloseStore, Resolve
<1>2. PICK t \in Tabs : t = calls[call].tab
  BY <1>1, Types, WaitingParts
<1>3. CallsKeep
  BY <1>1, StatusSet
<1>4. QueuesKeep
  BY <1>1, <1>2, QueuesAlone
<1>. QED
  BY <1>1, <1>3, <1>4, NoSessions, AwaitedStays

\* A new call: a request finds a session running or begins one.
LEMMA ApplicationAwaited ==
  ASSUME Inv, Awaited, NEW call \in Calls, NEW t \in Tabs,
         \/ RequestSync(call, t)
         \/ \E kind \in Writes : Write(call, t, kind)
         \/ Close(call, t)
  PROVE  Awaited'
<1>1. ClientTypeOK
  BY DEF Inv
<1>2. ASSUME NEW c, calls' = [calls EXCEPT ![call] = c],
             c.status # "refreshing", c.status = "waiting" => c.kind # "sync",
             session' = session, view' = view
      PROVE  Awaited'
  BY <1>1, <1>2, OneCall, QueuesAlone, NoSessions, AwaitedStays
<1>3. PICK refused : refused = [status |-> "refused"]
  OBVIOUS
<1>4. ASSUME Refused(call), session' = session, view' = view PROVE Awaited'
  <2>1. calls' = [calls EXCEPT ![call] = refused]
    BY <1>3, <1>4 DEF Refused
  <2>2. refused.status = "refused"
    BY <1>3
  <2>. QED
    BY <1>2, <1>4, <2>1, <2>2
<1>5. ASSUME NEW kind \in Writes, Write(call, t, kind) PROVE Awaited'
  <2>1. PICK c : c = [status |-> "waiting", kind |-> kind, tab |-> t, op |-> 0]
    OBVIOUS
  <2>2. c.status = "waiting" /\ c.kind # "sync"
    BY <2>1 DEF Writes
  <2>3. Refused(call) \/ calls' = [calls EXCEPT ![call] = c]
    BY <1>5, <2>1 DEF Write
  <2>4. session' = session /\ view' = view
    BY <1>5 DEF Write
  <2>. QED
    BY <1>2, <1>4, <2>2, <2>3, <2>4
<1>6. CASE Close(call, t)
  <2>1. PICK c : c = [status |-> IF closed[t].client THEN "resolved" ELSE "waiting",
                      kind |-> "close", tab |-> t]
    OBVIOUS
  <2>2. c.status # "refreshing" /\ c.kind = "close"
    BY <2>1
  <2>3. calls' = [calls EXCEPT ![call] = c] /\ session' = session /\ view' = view
    BY <1>6, <2>1 DEF Close
  <2>. QED
    BY <1>2, <2>2, <2>3
<1>7. CASE RequestSync(call, t)
  <2>1. CASE closed[t].client
    BY <1>4, <1>7, <2>1 DEF RequestSync
  <2>2. CASE ~ closed[t].client
    <3>1. PICK c : c = SyncCall(t)
      OBVIOUS
    <3>2. c.status = "waiting" /\ c.tab = t
      BY <3>1 DEF SyncCall
    <3>3. calls' = [calls EXCEPT ![call] = c]
      BY <1>7, <2>2, <3>1 DEF RequestSync
    <3>4. QueuesKeep /\ SessionsKeep /\ Running(t)'
      <4>1. CASE Running(t)
        <5>1. session' = session /\ view' = view
          BY <1>7, <2>2, <4>1 DEF RequestSync
        <5>. QED
          BY <1>1, <4>1, <5>1, QueuesAlone, NoSessions DEF Running
      <4>2. CASE ~ Running(t)
        <5>1. BeginAttempt(t, 1)
          BY <1>7, <2>2, <4>2 DEF RequestSync
        <5>. QED
          BY <1>1, <5>1, AttemptKeeps
      <4>. QED
        BY <4>1, <4>2
    <3>5. CallsKeep
      BY <1>1, <3>2, <3>3, <3>4, OneCall DEF Running
    <3>. QED
      BY <1>1, <3>4, <3>5, AwaitedStays
  <2>. QED
    BY <2>1, <2>2
<1>. QED
  BY <1>5, <1>6, <1>7

\* Nothing that somebody waits for is lost.
LEMMA NextAwaited ==
  ASSUME Inv, Awaited, [Next]_vars
  PROVE  Awaited'
<1>1. ASSUME NEW t \in Tabs, SessionStep(t) PROVE Awaited'
  BY <1>1, SessionAwaited, MergeAwaited, SettleAwaited DEF SessionStep
<1>2. ASSUME NEW call \in Calls, CallStep(call) PROVE Awaited'
  BY <1>2, StoreAwaited, FailWriteAwaited, CloseStoreAwaited DEF CallStep
<1>3. CASE ApplicationStep
  BY <1>3, ApplicationAwaited DEF ApplicationStep
<1>4. CASE AppendForeign \/ UNCHANGED vars
  BY <1>4 DEF AppendForeign, vars, Awaited, RefreshQueued, Running
<1>. QED
  BY <1>1, <1>2, <1>3, <1>4, ViewAwaited DEF Next

\* No session runs and no call waits at first.
LEMMA InitAwaited == Init => Awaited
BY DEF Init, Awaited, NoSession, NoCall

\* Who is waited for can go on.
LEMMA AwaitedMoves == Inv /\ Awaited => NoCallStuck
<1>. SUFFICES ASSUME Inv, Awaited, NEW call \in Calls,
                     calls[call].status \in {"waiting", "refreshing"},
                     NEW tab, tab = calls[call].tab
              PROVE  /\ calls[call].status = "refreshing" =>
                            RefreshQueued(tab, call) /\ QueueCanMove(tab)
                     /\ calls[call].status = "waiting" =>
                            \/ calls[call].kind \in Writes
                            \/ calls[call].kind = "sync" /\ SessionCanMove(tab)
                            \/ /\ calls[call].kind = "close"
                               /\ MayClose(tab) \/ SessionCanMove(tab)
  BY DEF NoCallStuck
<1>1. /\ tab \in Tabs /\ calls[call].kind \in Writes \cup {"sync", "close"}
  BY Types, WaitingParts DEF Inv
<1>2. ASSUME NEW owner, RefreshQueued(tab, owner) PROVE QueueCanMove(tab)
  <2>1. 1 \in DOMAIN view[tab].queue
    BY <1>1, <1>2, QueueParts DEF Inv, RefreshQueued
  <2>. QED
    BY <2>1 DEF QueueCanMove, InTurn
<1>3. calls[call].status = "refreshing" => RefreshQueued(tab, call)
  BY DEF Awaited
<1>4. Running(tab) => SessionCanMove(tab)
  <2>1. session[tab].pc = "refresh" => RefreshQueued(tab, SessionOwner)
    BY <1>1 DEF Awaited
  <2>. QED
    BY <1>2, <2>1 DEF SessionCanMove
<1>5. calls[call].status = "waiting" /\ calls[call].kind = "sync" => Running(tab)
  BY DEF Awaited
<1>. QED
  BY <1>1, <1>2, <1>3, <1>4, <1>5 DEF MayClose

\* Of every call that waits somebody is left who settles it, and can go on
\* (client.ts:157-249, replica-view.ts:95).
THEOREM NoCallIsStuck == Spec => []NoCallStuck
<1>1. Inv /\ Awaited /\ [Next]_vars => (Inv /\ Awaited)'
  BY NextKeeps, NextAwaited
<1>. QED
  BY <1>1, InitInv, InitAwaited, AwaitedMoves, PTL DEF Spec
=============================================================================
