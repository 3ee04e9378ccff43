---------------------------- MODULE DeviceProofs ----------------------------
(***************************************************************************)
(* What a device keeps of its own.                                         *)
(*                                                                         *)
(* The first part is about the store that its operations are numbered in   *)
(* (ReplicaLifecycle): LifecycleInv is an invariant, and an identity that  *)
(* was drawn at random never names two operations alike, for any number of *)
(* tabs, opens, writes and deletions.                                      *)
(*                                                                         *)
(* The second is about the rows that those operations make (RowState):     *)
(* every reader sees of every row what the last operation about it made    *)
(* it, for any schema, any operations and a log of any length.             *)
(***************************************************************************)
EXTENDS LifecycleProperties, RowProperties, SequenceTheorems,
        FiniteSetTheorems, WellFoundedInduction, TLAPS

Inv == LifecycleInv /\ RandomPositionsFresh

\* What LifecycleInv says of one tab.
TabSound(t, tab) ==
    /\ tab.connection = "closing" => tab.pc \in {"creating", "writing"}
    /\ tab.connection # "none" => exists
    /\ tab.pc \in {"creating", "writing"} => tab.connection # "none"
    /\ tab.pc \in {"ready", "writing"} /\ tab.connection # "none" =>
           /\ ~ Missing
           /\ tab.clientId = record.clientId
           /\ OptionId[t] \in {NoId, record.clientId}

IsOpening(tab) == tab.pc \in {"opening", "opened", "creating"}

\* The invariant, tab by tab.
LEMMA Tabwise ==
  ASSUME tabs \in [Tabs -> TabState]
  PROVE  /\ \A t \in Tabs : tabs[t].connection = "closing" => InTransaction(t)
         /\ OneIdentity /\ ConnectionsSound
         <=> \A t \in Tabs : TabSound(t, tabs[t])
BY DEF OneIdentity, ConnectionsSound, TabSound, InTransaction

\* The numbers and sets that the bounds are about.
LEMMA Counts ==
  ASSUME LifecycleInv
  PROVE  /\ opens \in Nat /\ created \in Nat /\ deletions \in Nat
         /\ IsFiniteSet(Opening) /\ Cardinality(Opening) \in Nat
         /\ IsFiniteSet(Writing) /\ Cardinality(Writing) \in Nat
         /\ IsFiniteSet(issued) /\ Cardinality(issued) \in Nat
         /\ MaxOpens \in Nat /\ MaxWrites \in Nat
         /\ record.nextClientSequence \in Nat
<1>1. Opening \in SUBSET Tabs /\ Writing \in SUBSET Tabs
  BY DEF Opening, Writing
<1>2. IsFiniteSet(Opening) /\ IsFiniteSet(Writing) /\ IsFiniteSet(issued)
  BY <1>1, FS_Subset, TabsAssumption DEF LifecycleInv, LifecycleTypeOK
<1>3. record.nextClientSequence \in Nat
  BY BoundsAssumption DEF LifecycleInv, LifecycleTypeOK
<1>. QED
  BY <1>2, <1>3, FS_CardinalityType, BoundsAssumption
  DEF LifecycleInv, LifecycleTypeOK

\* The queue holds requests of the tabs.
LEMMA Requests ==
  ASSUME RequestsSound
  PROVE  /\ queue \in Seq(Request) /\ Len(queue) \in Nat
         /\ DOMAIN queue = 1..Len(queue)
         /\ \A i \in DOMAIN queue : /\ queue[i].kind \in {"open", "delete"}
                                    /\ queue[i].tab \in Tabs
<1>1. queue \in Seq(Request) /\ Len(queue) \in Nat
      /\ DOMAIN queue = 1..Len(queue)
  BY DEF RequestsSound
<1>2. \A i \in 1..Len(queue) : queue[i] \in Request
  BY <1>1, ElementOfSeq
<1>. QED
  BY <1>1, <1>2 DEF Request

\* A step of one tab that leaves database, record and queue alone.
LEMMA MoveTab ==
  ASSUME Inv, NEW t \in Tabs, NEW new \in TabState,
         tabs' = [tabs EXCEPT ![t] = new],
         UNCHANGED <<exists, record, queue, phase, deletion, counters, issued>>,
         notified' \subseteq notified,
         tabs[t].pc = "opening" => new.pc = "opening",
         IsOpening(new) => IsOpening(tabs[t]),
         new.pc = "writing" =>
             \/ tabs[t].pc = "writing"
             \/ Cardinality(issued) + Cardinality(Writing) < MaxWrites,
         TabSound(t, new)
  PROVE  Inv'
<1>1. /\ exists' = exists /\ record' = record /\ queue' = queue
      /\ phase' = phase /\ deletion' = deletion /\ opens' = opens
      /\ deletions' = deletions /\ created' = created /\ issued' = issued
  BY DEF counters
<1>2. /\ tabs \in [Tabs -> TabState] /\ tabs' \in [Tabs -> TabState]
      /\ tabs'[t] = new
      /\ \A u \in Tabs : u # t => tabs'[u] = tabs[u]
  BY DEF Inv, LifecycleInv, LifecycleTypeOK
<1>3. \A u \in Tabs : TabSound(u, tabs'[u])
  BY <1>2, Tabwise DEF Inv, LifecycleInv, LifecycleTypeOK
<1>4. \A u \in Tabs : TabSound(u, tabs[u])'
  BY <1>1, <1>3 DEF TabSound, Missing
<1>5. /\ \A u \in Tabs : tabs'[u].connection = "closing" => InTransaction(u)'
      /\ OneIdentity' /\ ConnectionsSound'
  BY <1>1, <1>2, <1>4 DEF TabSound, InTransaction, OneIdentity,
     ConnectionsSound, Missing
<1>6. LifecycleTypeOK'
  BY <1>1, <1>2, <1>5 DEF Inv, LifecycleInv, LifecycleTypeOK
<1>7. RequestsSound'
  <2>1. \A u \in Tabs : tabs[u].pc = "opening" => tabs'[u].pc = "opening"
    BY <1>2
  <2>2. \A i \in DOMAIN queue : queue[i].tab \in Tabs
    BY Requests DEF Inv, LifecycleInv
  <2>. QED
    BY <1>1, <2>1, <2>2 DEF Inv, LifecycleInv, RequestsSound
<1>8. BoundsKept'
  <2>1. Cardinality(Opening') <= Cardinality(Opening)
    <3>1. Opening' \in SUBSET Opening
      BY <1>2 DEF Opening, IsOpening
    <3>. QED
      BY <3>1, FS_Subset, Counts DEF Inv
  <2>2. /\ Cardinality(Writing') \in Nat
        /\ Cardinality(issued) + Cardinality(Writing') <= MaxWrites
    <3>1. CASE new.pc = "writing" /\ tabs[t].pc # "writing"
      <4>1. Writing' = Writing \cup {t} /\ t \notin Writing
        BY <1>2, <3>1 DEF Writing
      <4>2. Cardinality(Writing') = Cardinality(Writing) + 1
        BY <4>1, FS_AddElement, Counts DEF Inv
      <4>. QED
        BY <3>1, <4>2, Counts DEF Inv
    <3>2. CASE ~ (new.pc = "writing" /\ tabs[t].pc # "writing")
      <4>1. Writing' \in SUBSET Writing
        BY <1>2, <3>2 DEF Writing
      <4>2. /\ Cardinality(Writing') <= Cardinality(Writing)
            /\ Cardinality(Writing') \in Nat
        BY <4>1, FS_Subset, FS_CardinalityType, Counts DEF Inv
      <4>. QED
        BY <4>2, Counts DEF Inv, LifecycleInv, BoundsKept
    <3>. QED
      BY <3>1, <3>2
  <2>3. Cardinality(Opening') \in Nat
    <3>1. Opening' \in SUBSET Tabs
      BY DEF Opening
    <3>. QED
      BY <3>1, FS_Subset, FS_CardinalityType, TabsAssumption
  <2>. QED
    BY <1>1, <2>1, <2>2, <2>3, Counts DEF Inv, LifecycleInv, BoundsKept
<1>9. IdentitiesSound'
  BY <1>1 DEF Inv, LifecycleInv, IdentitiesSound, Missing, Given, Drawn
<1>10. RandomPositionsFresh'
  BY <1>1 DEF Inv, RandomPositionsFresh
<1>. QED
  BY <1>5, <1>6, <1>7, <1>8, <1>9, <1>10 DEF Inv, LifecycleInv

\* BeginCreate.
LEMMA BeginCreateKeeps ==
  ASSUME Inv, NEW t \in Tabs, BeginCreate(t)
  PROVE  Inv'
<1>1. PICK new : new = IF tabs[t].connection = "open"
                       THEN [tabs[t] EXCEPT !.pc = "creating"] ELSE Away
  OBVIOUS
<1>2. tabs[t] \in TabState /\ TabSound(t, tabs[t])
  BY Tabwise DEF Inv, LifecycleInv, LifecycleTypeOK
<1>3. new \in TabState /\ TabSound(t, new)
  BY <1>1, <1>2 DEF TabState, TabSound, Away
<1>4. tabs' = [tabs EXCEPT ![t] = new]
  BY <1>1 DEF BeginCreate
<1>5. IsOpening(tabs[t]) /\ tabs[t].pc # "opening" /\ new.pc # "writing"
  BY <1>1 DEF BeginCreate, IsOpening, Away, TabState
<1>. QED
  BY <1>3, <1>4, <1>5, MoveTab DEF BeginCreate, requestVars

\* RefuseIdentity, CloseStore and Crash.
LEMMA LeaveKeeps ==
  ASSUME Inv, NEW t \in Tabs, RefuseIdentity(t) \/ CloseStore(t) \/ Crash(t)
  PROVE  Inv'
<1>1. /\ tabs' = [tabs EXCEPT ![t] = Away] /\ tabs[t].pc # "opening"
      /\ UNCHANGED <<exists, record, requestVars, counters, issued>>
  BY DEF RefuseIdentity, CloseStore, Crash
<1>2. /\ Away \in TabState /\ TabSound(t, Away) /\ Away.pc # "writing"
      /\ ~ IsOpening(Away)
  BY DEF TabState, TabSound, Away, IsOpening
<1>. QED
  BY <1>1, <1>2, MoveTab DEF requestVars

\* VersionChange.
LEMMA VersionChangeKeeps ==
  ASSUME Inv, NEW t \in Tabs, VersionChange(t)
  PROVE  Inv'
<1>1. PICK new : new = Closed(t)
  OBVIOUS
<1>2. tabs[t] \in TabState /\ TabSound(t, tabs[t])
  BY Tabwise DEF Inv, LifecycleInv, LifecycleTypeOK
<1>3. new \in TabState /\ TabSound(t, new) /\ new.pc = tabs[t].pc
  BY <1>1, <1>2 DEF TabState, TabSound, Closed, InTransaction
<1>4. IsOpening(new) => IsOpening(tabs[t])
  BY <1>3 DEF IsOpening
<1>5. tabs' = [tabs EXCEPT ![t] = new] /\ notified' \subseteq notified
      /\ UNCHANGED <<exists, record, queue, phase, deletion, counters, issued>>
  BY <1>1 DEF VersionChange
<1>. QED
  BY <1>3, <1>4, <1>5, MoveTab

\* BeginWrite.
LEMMA BeginWriteKeeps ==
  ASSUME Inv, NEW t \in Tabs, BeginWrite(t)
  PROVE  Inv'
<1>1. PICK new : new = [tabs[t] EXCEPT !.pc = "writing"]
  OBVIOUS
<1>2. tabs[t] \in TabState /\ TabSound(t, tabs[t])
  BY Tabwise DEF Inv, LifecycleInv, LifecycleTypeOK
<1>3. new \in TabState /\ TabSound(t, new) /\ new.pc = "writing"
  BY <1>1, <1>2 DEF TabState, TabSound, BeginWrite
<1>4. tabs' = [tabs EXCEPT ![t] = new]
  BY <1>1 DEF BeginWrite
<1>5. /\ ~ IsOpening(new) /\ tabs[t].pc # "opening"
      /\ Cardinality(issued) + Cardinality(Writing) < MaxWrites
      /\ UNCHANGED <<exists, record, requestVars, counters, issued>>
  BY <1>3 DEF BeginWrite, IsOpening
<1>. QED
  BY <1>3, <1>4, <1>5, MoveTab DEF requestVars

\* EndCreate, when another tab has created the record before.
LEMMA FindKeeps ==
  ASSUME Inv, NEW t \in Tabs, EndCreate(t), ~ Missing
  PROVE  Inv'
<1>1. PICK new : new = [pc |-> "ready",
                        connection |-> Released(tabs[t].connection),
                        clientId |-> record.clientId]
  OBVIOUS
<1>2. /\ tabs[t] \in TabState /\ TabSound(t, tabs[t])
      /\ record.clientId \in Ids \cup {NoId}
  BY Tabwise DEF Inv, LifecycleInv, LifecycleTypeOK
<1>3. /\ record' = record /\ created' = created /\ Matches(t)
      /\ tabs[t].pc = "creating"
      /\ UNCHANGED <<exists, requestVars, opens, deletions, issued>>
  BY DEF EndCreate
<1>4. new \in TabState /\ TabSound(t, new) /\ ~ IsOpening(new)
      /\ new.pc # "writing"
  BY <1>1, <1>2, <1>3 DEF TabState, TabSound, Released, Matches, IsOpening
<1>5. tabs' = [tabs EXCEPT ![t] = new]
  BY <1>1, <1>3 DEF EndCreate
<1>. QED
  BY <1>3, <1>4, <1>5, MoveTab DEF requestVars, counters

\* OpenStore.
LEMMA OpenStoreKeeps ==
  ASSUME Inv, NEW t \in Tabs, OpenStore(t)
  PROVE  Inv'
<1>1. PICK r : r = [kind |-> "open", tab |-> t]
  OBVIOUS
<1>2. PICK n : n = Len(queue)
  OBVIOUS
<1>3. /\ opens < MaxOpens /\ opens' = opens + 1 /\ queue' = Append(queue, r)
      /\ exists' = exists /\ record' = record /\ phase' = phase
      /\ notified' = notified /\ deletion' = deletion
      /\ deletions' = deletions /\ created' = created /\ issued' = issued
      /\ tabs[t].pc = "closed"
  BY <1>1 DEF OpenStore
<1>4. /\ tabs \in [Tabs -> TabState] /\ tabs' \in [Tabs -> TabState]
      /\ tabs'[t] = [Away EXCEPT !.pc = "opening"]
      /\ \A u \in Tabs : u # t => tabs'[u] = tabs[u]
  BY DEF OpenStore, Inv, LifecycleInv, LifecycleTypeOK, Away, TabState
<1>5. \A u \in Tabs : TabSound(u, tabs[u])'
  <2>1. TabSound(t, tabs[t])'
    BY <1>4 DEF TabSound, Away
  <2>2. \A u \in Tabs : TabSound(u, tabs[u])
    BY Tabwise DEF Inv, LifecycleInv, LifecycleTypeOK
  <2>. QED
    BY <1>3, <1>4, <2>1, <2>2 DEF TabSound, Missing
<1>6. /\ \A u \in Tabs : tabs'[u].connection = "closing" => InTransaction(u)'
      /\ OneIdentity' /\ ConnectionsSound'
  BY <1>3, <1>4, <1>5 DEF TabSound, InTransaction, OneIdentity,
     ConnectionsSound, Missing
<1>7. LifecycleTypeOK'
  <2>1. opens' \in Nat
    BY <1>3, Counts DEF Inv
  <2>. QED
    BY <1>3, <1>4, <1>6, <2>1 DEF Inv, LifecycleInv, LifecycleTypeOK
<1>8. RequestsSound'
  <2>1. /\ n \in Nat /\ DOMAIN queue = 1..n /\ queue \in Seq(Request)
        /\ r \in Request
        /\ \A i \in 1..n : queue[i].tab \in Tabs
    BY <1>1, <1>2, Requests DEF Inv, LifecycleInv, Request
  <2>2. /\ queue' \in Seq(Request) /\ DOMAIN queue' = 1..n + 1
        /\ \A i \in 1..n : queue'[i] = queue[i]
        /\ queue'[n + 1] = r
    BY <1>2, <1>3, <2>1, AppendProperties
  <2>3. \A i \in 1..n : queue[i].kind = "open" =>
            /\ tabs[queue[i].tab].pc = "opening"
            /\ \A j \in 1..n : queue[i] = queue[j] => i = j
    BY <2>1 DEF Inv, LifecycleInv, RequestsSound
  <2>4. \A i \in 1..n : queue[i].kind = "open" => queue[i].tab # t
    BY <1>3, <2>3
  <2>5. ASSUME NEW i \in 1..n + 1, NEW j \in 1..n + 1,
               queue'[i].kind = "open"
        PROVE  /\ tabs'[queue'[i].tab].pc = "opening"
               /\ queue'[i] = queue'[j] => i = j
    <3>1. CASE i \in 1..n /\ j \in 1..n
      BY <1>4, <2>1, <2>2, <2>3, <2>4, <2>5, <3>1
    <3>2. CASE i \in 1..n /\ j = n + 1
      BY <1>1, <1>4, <2>1, <2>2, <2>3, <2>4, <2>5, <3>2
    <3>3. CASE i = n + 1 /\ j \in 1..n
      BY <1>1, <1>4, <2>1, <2>2, <2>3, <2>4, <2>5, <3>3 DEF Away
    <3>4. CASE i = n + 1 /\ j = n + 1
      BY <1>1, <1>4, <2>2, <3>4 DEF Away
    <3>. QED
      BY <2>1, <3>1, <3>2, <3>3, <3>4
  <2>. QED
    BY <2>2, <2>5 DEF RequestsSound
<1>9. BoundsKept'
  <2>1. Opening' = Opening \cup {t} /\ t \notin Opening
    BY <1>3, <1>4 DEF Opening, Away
  <2>2. Cardinality(Opening') = Cardinality(Opening) + 1
    BY <2>1, FS_AddElement, Counts DEF Inv
  <2>3. Writing' = Writing
    BY <1>3, <1>4 DEF Writing, Away
  <2>. QED
    BY <1>3, <2>2, <2>3, Counts, SMTT(30) DEF Inv, LifecycleInv, BoundsKept
<1>10. IdentitiesSound' /\ RandomPositionsFresh'
  BY <1>3 DEF Inv, LifecycleInv, IdentitiesSound, Missing, Given, Drawn,
     RandomPositionsFresh
<1>. QED
  BY <1>6, <1>7, <1>8, <1>9, <1>10 DEF Inv, LifecycleInv

\* The opens behind the head of the queue are those of other tabs.
StillWaiting(rest, head) ==
    \A i, j \in DOMAIN rest : rest[i].kind = "open" =>
        /\ rest[i].tab \in Tabs
        /\ tabs[rest[i].tab].pc = "opening"
        /\ rest[i] # head
        /\ rest[i] = rest[j] => i = j

\* What is left of the queue when its head has been served.
LEMMA Rest ==
  ASSUME RequestsSound, queue # <<>>, NEW rest, rest = Tail(queue)
  PROVE  /\ Head(queue) \in Request /\ rest \in Seq(Request)
         /\ StillWaiting(rest, Head(queue))
<1>1. PICK n : n = Len(queue)
  OBVIOUS
<1>2. /\ n \in Nat \ {0} /\ DOMAIN queue = 1..n /\ queue \in Seq(Request)
      /\ \A i \in 1..n : queue[i].tab \in Tabs
  BY <1>1, Requests, EmptySeq
<1>3. /\ Head(queue) \in Request /\ rest \in Seq(Request)
      /\ DOMAIN rest = 1..n - 1
      /\ \A i \in 1..n - 1 : rest[i] = queue[i + 1]
  BY <1>1, <1>2, HeadTailProperties
<1>4. Head(queue) = queue[1]
  BY <1>2
<1>5. \A i \in 1..n : queue[i].kind = "open" =>
          /\ tabs[queue[i].tab].pc = "opening"
          /\ \A j \in 1..n : queue[i] = queue[j] => i = j
  BY <1>2 DEF RequestsSound
<1>6. PICK head : head = Head(queue)
  OBVIOUS
<1>7. ASSUME NEW i \in DOMAIN rest, NEW j \in DOMAIN rest, rest[i].kind = "open"
      PROVE  /\ rest[i].tab \in Tabs
             /\ tabs[rest[i].tab].pc = "opening"
             /\ rest[i] # head
             /\ rest[i] = rest[j] => i = j
  <2>1. /\ i + 1 \in 1..n /\ j + 1 \in 1..n /\ 1 \in 1..n /\ i + 1 # 1
        /\ i + 1 = j + 1 => i = j
    BY <1>2, <1>3
  <2>2. rest[i] = queue[i + 1] /\ rest[j] = queue[j + 1] /\ head = queue[1]
    BY <1>3, <1>4, <1>6
  <2>3. /\ queue[i + 1] # queue[1]
        /\ queue[i + 1] = queue[j + 1] => i + 1 = j + 1
    BY <1>5, <1>7, <2>1, <2>2
  <2>. QED
    BY <1>2, <1>5, <1>7, <2>1, <2>2, <2>3
<1>8. StillWaiting(rest, head)
  BY <1>7 DEF StillWaiting
<1>. QED
  BY <1>3, <1>6, <1>8

\* ServeOpen.
LEMMA ServeOpenKeeps ==
  ASSUME Inv, ServeOpen
  PROVE  Inv'
<1>1. PICK t : t = Head(queue).tab
  OBVIOUS
<1>2. PICK rest : rest = Tail(queue)
  OBVIOUS
<1>3. /\ t \in Tabs /\ rest \in Seq(Request)
      /\ Head(queue) = [kind |-> "open", tab |-> t]
      /\ StillWaiting(rest, Head(queue))
  <2>1. RequestsSound /\ queue # <<>> /\ Head(queue).kind = "open"
    BY DEF Inv, LifecycleInv, ServeOpen, Served
  <2>2. /\ Head(queue) \in Request /\ rest \in Seq(Request)
        /\ StillWaiting(rest, Head(queue))
    BY <1>2, <2>1, Rest
  <2>. QED
    BY <1>1, <2>1, <2>2 DEF Request
<1>4. tabs[t].pc = "opening"
  <2>1. queue # <<>> /\ 1 \in DOMAIN queue /\ Head(queue) = queue[1]
    BY Requests, EmptySeq DEF Inv, LifecycleInv, ServeOpen, Served
  <2>. QED
    BY <1>1, <1>3, <2>1 DEF Inv, LifecycleInv, RequestsSound
<1>5. /\ exists' = TRUE /\ queue' = rest
      /\ record' = record /\ phase' = phase
      /\ notified' = notified /\ deletion' = deletion /\ opens' = opens
      /\ deletions' = deletions /\ created' = created /\ issued' = issued
  BY <1>2 DEF ServeOpen, counters
<1>6. /\ tabs \in [Tabs -> TabState] /\ tabs' \in [Tabs -> TabState]
      /\ tabs'[t].pc = "opened" /\ tabs'[t].connection = "open"
      /\ \A u \in Tabs : u # t => tabs'[u] = tabs[u]
  <2>1. tabs' = [tabs EXCEPT ![t].pc = "opened", ![t].connection = "open"]
    BY <1>1 DEF ServeOpen
  <2>2. tabs \in [Tabs -> TabState] /\ tabs[t] \in TabState
    BY <1>3 DEF Inv, LifecycleInv, LifecycleTypeOK
  <2>. QED
    BY <1>3, <2>1, <2>2 DEF TabState
<1>7. \A u \in Tabs : TabSound(u, tabs[u])'
  <2>1. \A u \in Tabs : TabSound(u, tabs[u])
    BY Tabwise DEF Inv, LifecycleInv, LifecycleTypeOK
  <2>2. TabSound(t, tabs[t])'
    BY <1>5, <1>6 DEF TabSound
  <2>. QED
    BY <1>5, <1>6, <2>1, <2>2 DEF TabSound, Missing
<1>8. /\ \A u \in Tabs : tabs'[u].connection = "closing" => InTransaction(u)'
      /\ OneIdentity' /\ ConnectionsSound'
  BY <1>5, <1>6, <1>7 DEF TabSound, InTransaction, OneIdentity,
     ConnectionsSound, Missing
<1>9. LifecycleTypeOK'
  BY <1>5, <1>6, <1>8 DEF Inv, LifecycleInv, LifecycleTypeOK
<1>10. RequestsSound'
  <2>1. ASSUME NEW i \in DOMAIN rest, NEW j \in DOMAIN rest,
               rest[i].kind = "open"
        PROVE  /\ tabs'[rest[i].tab].pc = "opening"
               /\ rest[i] = rest[j] => i = j
    <3>1. rest[i] \in Request
      BY <1>3, ElementOfSeq
    <3>2. rest[i].tab # t
      BY <1>3, <2>1, <3>1 DEF Request, StillWaiting
    <3>. QED
      BY <1>3, <1>6, <2>1, <3>2 DEF StillWaiting
  <2>. QED
    BY <1>3, <1>5, <2>1 DEF RequestsSound
<1>11. BoundsKept'
  <2>1. Opening' = Opening /\ Writing' = Writing
    BY <1>4, <1>6 DEF Opening, Writing
  <2>. QED
    BY <1>5, <2>1 DEF Inv, LifecycleInv, BoundsKept
<1>12. IdentitiesSound' /\ RandomPositionsFresh'
  BY <1>5 DEF Inv, LifecycleInv, IdentitiesSound, Missing, Given, Drawn,
     RandomPositionsFresh
<1>. QED
  BY <1>8, <1>9, <1>10, <1>11, <1>12 DEF Inv, LifecycleInv

\* The identities of the records and positions so far have the type Ids.
LEMMA DrawnIds ==
  ASSUME Inv, NEW id, Given(id) \/ Drawn(id)
  PROVE  id \in Ids
<1>1. created \in Nat /\ created <= MaxOpens /\ MaxOpens \in Nat
  BY Counts DEF Inv, LifecycleInv, BoundsKept
<1>2. CASE Given(id)
  BY <1>2 DEF Given, Ids
<1>3. CASE Drawn(id)
  <2>1. PICK n \in 0..created - 1 : id = Random(n)
    BY <1>3 DEF Drawn
  <2>2. n \in 0..MaxOpens
    BY <1>1
  <2>. QED
    BY <2>1, <2>2 DEF Ids
<1>. QED
  BY <1>2, <1>3

\* EndCreate, when the tab creates the record.
LEMMA CreateKeeps ==
  ASSUME Inv, NEW t \in Tabs, EndCreate(t), Missing
  PROVE  Inv'
<1>1. PICK id : id = NewId(t)
  OBVIOUS
<1>2. /\ record' = [clientId |-> id, nextClientSequence |-> 1]
      /\ created' = created + 1
      /\ exists' = exists /\ queue' = queue /\ phase' = phase
      /\ notified' = notified /\ deletion' = deletion /\ opens' = opens
      /\ deletions' = deletions /\ issued' = issued
      /\ tabs[t].pc = "creating"
  BY <1>1 DEF EndCreate, requestVars
<1>3. created \in Nat /\ created <= MaxOpens /\ MaxOpens \in Nat
  BY Counts DEF Inv, LifecycleInv, BoundsKept
<1>4. id \in Ids /\ OptionId[t] \in {NoId, id}
  <2>1. CASE OptionId[t] = NoId
    <3>1. created \in 0..MaxOpens
      BY <1>3
    <3>. QED
      BY <1>1, <2>1, <3>1 DEF NewId, Ids
  <2>2. CASE OptionId[t] # NoId
    BY <1>1, <2>2 DEF NewId, Ids
  <2>. QED
    BY <2>1, <2>2
<1>5. /\ tabs \in [Tabs -> TabState] /\ tabs' \in [Tabs -> TabState]
      /\ tabs'[t].pc = "ready" /\ tabs'[t].clientId = id
      /\ tabs'[t].connection # "closing"
      /\ \A u \in Tabs : u # t => tabs'[u] = tabs[u]
  <2>1. PICK new : new = [pc |-> "ready",
                          connection |-> Released(tabs[t].connection),
                          clientId |-> id]
    OBVIOUS
  <2>2. tabs \in [Tabs -> TabState] /\ tabs[t] \in TabState
    BY DEF Inv, LifecycleInv, LifecycleTypeOK
  <2>3. new \in TabState /\ new.pc = "ready" /\ new.clientId = id
        /\ new.connection # "closing"
    BY <1>4, <2>1, <2>2 DEF TabState, Released
  <2>4. tabs' = [tabs EXCEPT ![t] = new]
    BY <1>2, <2>1 DEF EndCreate
  <2>. QED
    BY <2>2, <2>3, <2>4
<1>6. ~ Missing' /\ record'.clientId = id /\ record'.nextClientSequence = 1
  BY <1>2 DEF Missing, NoRecord
<1>7. exists
  BY <1>2, Tabwise
  DEF Inv, LifecycleInv, LifecycleTypeOK, ConnectionsSound, InTransaction
<1>8. \A u \in Tabs : TabSound(u, tabs[u])'
  <2>1. \A u \in Tabs : TabSound(u, tabs[u])
    BY Tabwise DEF Inv, LifecycleInv, LifecycleTypeOK
  <2>2. TabSound(t, tabs[t])'
    BY <1>2, <1>4, <1>5, <1>6, <1>7 DEF TabSound
  <2>. QED
    BY <1>2, <1>5, <2>1, <2>2 DEF TabSound
<1>9. /\ \A u \in Tabs : tabs'[u].connection = "closing" => InTransaction(u)'
      /\ OneIdentity' /\ ConnectionsSound'
  BY <1>2, <1>5, <1>7, <1>8 DEF TabSound, InTransaction, OneIdentity,
     ConnectionsSound
<1>10. LifecycleTypeOK'
  <2>1. record' \in [clientId : Ids \cup {NoId},
                     nextClientSequence : 0..(MaxWrites + 1)]
    BY <1>2, <1>4, BoundsAssumption
  <2>2. created' \in Nat
    BY <1>2, <1>3
  <2>. QED
    BY <1>2, <1>5, <1>7, <1>9, <2>1, <2>2
    DEF Inv, LifecycleInv, LifecycleTypeOK
<1>11. RequestsSound'
  <2>1. \A u \in Tabs : tabs[u].pc = "opening" => tabs'[u].pc = "opening"
    BY <1>2, <1>5
  <2>2. \A i \in DOMAIN queue : queue[i].tab \in Tabs
    BY Requests DEF Inv, LifecycleInv
  <2>. QED
    BY <1>2, <2>1, <2>2 DEF Inv, LifecycleInv, RequestsSound
<1>12. BoundsKept'
  <2>1. Opening' = Opening \ {t} /\ t \in Opening
    BY <1>2, <1>5 DEF Opening
  <2>2. Cardinality(Opening') = Cardinality(Opening) - 1
    BY <2>1, FS_RemoveElement, Counts DEF Inv
  <2>3. Writing' = Writing
    BY <1>2, <1>5 DEF Writing
  <2>. QED
    BY <1>2, <1>6, <2>2, <2>3, Counts DEF Inv, LifecycleInv, BoundsKept
<1>13. IdentitiesSound'
  <2>1. \A x : Drawn(x) => Drawn(x)'
    BY <1>2, <1>3 DEF Drawn
  <2>2. Given(id) \/ Drawn(id)'
    <3>1. created \in 0..created' - 1
      BY <1>2, <1>3
    <3>. QED
      BY <1>1, <3>1 DEF NewId, Given, Drawn
  <2>3. ASSUME NEW a \in issued, a.clientId = id PROVE Given(id)
    <3>1. CASE OptionId[t] = NoId
      <4>1. id = <<"client", created>>
        BY <1>1, <3>1 DEF NewId, Random
      <4>2. ~ Drawn(id)
        BY <1>3, <4>1 DEF Drawn, Random
      <4>. QED
        BY <2>3, <4>2 DEF Inv, LifecycleInv, IdentitiesSound
    <3>2. CASE OptionId[t] # NoId
      BY <1>1, <3>2 DEF NewId, Given
    <3>. QED
      BY <3>1, <3>2
  <2>. QED
    BY <1>2, <1>6, <2>1, <2>2, <2>3
    DEF Inv, LifecycleInv, IdentitiesSound, Given
<1>14. RandomPositionsFresh'
  BY <1>2 DEF Inv, RandomPositionsFresh
<1>. QED
  BY <1>9, <1>10, <1>11, <1>12, <1>13, <1>14 DEF Inv, LifecycleInv

\* EndWrite.
LEMMA EndWriteKeeps ==
  ASSUME Inv, NEW t \in Tabs, EndWrite(t)
  PROVE  Inv'
<1>1. PICK n : n = Cardinality(issued)
  OBVIOUS
<1>2. PICK id, next : id = record.clientId /\ next = record.nextClientSequence
  OBVIOUS
<1>3. PICK p : p = [operationId |-> n + 1, clientId |-> id,
                    clientSequence |-> next]
  OBVIOUS
<1>4. /\ issued' = issued \cup {p} /\ exists' = exists /\ queue' = queue
      /\ phase' = phase /\ notified' = notified /\ deletion' = deletion
      /\ opens' = opens /\ deletions' = deletions /\ created' = created
      /\ tabs[t].pc = "writing"
  BY <1>1, <1>2, <1>3 DEF EndWrite, requestVars, counters
<1>5. TabSound(t, tabs[t]) /\ tabs \in [Tabs -> TabState]
      /\ tabs[t] \in TabState
  BY Tabwise DEF Inv, LifecycleInv, LifecycleTypeOK
<1>6. ~ Missing /\ exists
  BY <1>4, <1>5 DEF TabSound
<1>7. /\ Given(id) \/ Drawn(id)
      /\ \A a \in issued : a.clientId = id /\ ~ Given(a.clientId)
                               => a.clientSequence < next
  BY <1>2, <1>6 DEF Inv, LifecycleInv, IdentitiesSound
<1>8. /\ n \in Nat /\ next \in Nat /\ next >= 1 /\ MaxWrites \in Nat
      /\ n + Cardinality(Writing) <= MaxWrites /\ next <= n + 1
      /\ Cardinality(Writing) \in Nat
  BY <1>1, <1>2, <1>6, Counts
  DEF Inv, LifecycleInv, BoundsKept, IdentitiesSound
<1>9. /\ Writing' = Writing \ {t} /\ t \in Writing
      /\ Opening' = Opening
      /\ tabs' \in [Tabs -> TabState]
      /\ tabs'[t].pc = "ready" /\ tabs'[t].clientId = tabs[t].clientId
      /\ tabs'[t].connection # "closing"
      /\ \A u \in Tabs : u # t => tabs'[u] = tabs[u]
  <2>1. PICK new : new = [tabs[t] EXCEPT !.pc = "ready",
                              !.connection = Released(tabs[t].connection)]
    OBVIOUS
  <2>2. tabs' = [tabs EXCEPT ![t] = new]
    BY <1>5, <2>1 DEF EndWrite
  <2>3. /\ new \in TabState /\ new.pc = "ready"
        /\ new.clientId = tabs[t].clientId /\ new.connection # "closing"
    BY <1>5, <2>1 DEF TabState, Released
  <2>4. /\ tabs' \in [Tabs -> TabState] /\ tabs'[t] = new
        /\ \A u \in Tabs : u # t => tabs'[u] = tabs[u]
    BY <1>5, <2>2, <2>3
  <2>. QED
    BY <1>4, <2>3, <2>4 DEF Writing, Opening
<1>10. Cardinality(Writing') = Cardinality(Writing) - 1
       /\ Cardinality(Writing') \in Nat
  <2>1. Cardinality(Writing') = Cardinality(Writing) - 1
    BY <1>9, FS_RemoveElement, Counts DEF Inv
  <2>2. Writing' \in SUBSET Tabs
    BY DEF Writing
  <2>. QED
    BY <2>1, <2>2, FS_Subset, FS_CardinalityType, TabsAssumption
<1>11. \A a \in issued : a.operationId \in 1..n
  BY <1>1 DEF Inv, LifecycleInv, IdentitiesSound
<1>12. p \notin issued
  <2>1. p.operationId = n + 1
    BY <1>3
  <2>. QED
    BY <1>8, <1>11, <2>1
<1>13. IsFiniteSet(issued') /\ Cardinality(issued') = n + 1
  BY <1>1, <1>4, <1>12, FS_AddElement, Counts DEF Inv
<1>14. /\ record' = [record EXCEPT !.nextClientSequence = next + 1]
       /\ record' \in [clientId : Ids \cup {NoId},
                       nextClientSequence : 0..(MaxWrites + 1)]
       /\ record'.clientId = id /\ record'.nextClientSequence = next + 1
  <2>1. record' = [record EXCEPT !.nextClientSequence = next + 1]
    BY <1>2 DEF EndWrite
  <2>2. record \in [clientId : Ids \cup {NoId},
                    nextClientSequence : 0..(MaxWrites + 1)]
    BY DEF Inv, LifecycleInv, LifecycleTypeOK
  <2>3. next + 1 \in 0..(MaxWrites + 1)
    BY <1>8, <1>10
  <2>. QED
    BY <1>2, <2>1, <2>2, <2>3
<1>15. ~ Missing'
  BY <1>8, <1>14 DEF Missing, NoRecord
<1>16. \A u \in Tabs : TabSound(u, tabs[u])'
  <2>1. \A u \in Tabs : TabSound(u, tabs[u])
    BY Tabwise DEF Inv, LifecycleInv, LifecycleTypeOK
  <2>2. tabs'[t].connection # "none" => tabs[t].connection # "none"
    BY <1>4, <1>5 DEF TabSound
  <2>3. TabSound(t, tabs[t])'
    BY <1>2, <1>4, <1>5, <1>6, <1>9, <1>14, <1>15, <2>2 DEF TabSound
  <2>. QED
    BY <1>2, <1>4, <1>9, <1>14, <1>15, <2>1, <2>3 DEF TabSound
<1>17. /\ \A u \in Tabs : tabs'[u].connection = "closing" => InTransaction(u)'
       /\ OneIdentity' /\ ConnectionsSound'
  BY <1>4, <1>6, <1>16 DEF TabSound, InTransaction, OneIdentity,
     ConnectionsSound
<1>18. LifecycleTypeOK'
  <2>1. p \in Position
    <3>1. id \in Ids
      BY <1>7, DrawnIds
    <3>2. n + 1 \in 1..MaxWrites /\ next \in 1..MaxWrites
      BY <1>8, <1>10
    <3>. QED
      BY <1>3, <3>1, <3>2 DEF Position
  <2>2. issued' \subseteq Position
    BY <1>4, <2>1 DEF Inv, LifecycleInv, LifecycleTypeOK
  <2>. QED
    BY <1>4, <1>6, <1>9, <1>13, <1>14, <1>17, <2>2
    DEF Inv, LifecycleInv, LifecycleTypeOK
<1>19. RequestsSound'
  <2>1. \A u \in Tabs : tabs[u].pc = "opening" => tabs'[u].pc = "opening"
    BY <1>4, <1>9
  <2>2. \A i \in DOMAIN queue : queue[i].tab \in Tabs
    BY Requests DEF Inv, LifecycleInv
  <2>. QED
    BY <1>4, <2>1, <2>2 DEF Inv, LifecycleInv, RequestsSound
<1>20. BoundsKept'
  BY <1>4, <1>8, <1>9, <1>10, <1>13, <1>14 DEF Inv, LifecycleInv, BoundsKept
<1>21. IdentitiesSound'
  <2>1. \A x : Drawn(x)' <=> Drawn(x)
    BY <1>4 DEF Drawn
  <2>2. ASSUME NEW a \in issued', a.clientId = id, ~ Given(id)
        PROVE  a.clientSequence < next + 1
    <3>1. CASE a = p
      BY <1>3, <1>8, <3>1
    <3>2. CASE a \in issued
      <4>1. a.clientSequence < next
        BY <1>7, <2>2, <3>2
      <4>2. a.clientSequence \in Nat
        BY <3>2 DEF Inv, LifecycleInv, LifecycleTypeOK, Position
      <4>. QED
        BY <1>8, <4>1, <4>2
    <3>. QED
      BY <1>4, <3>1, <3>2
  <2>3. \A a \in issued' : a.operationId \in 1..n + 1
    <3>1. p.operationId \in 1..n + 1
      BY <1>3, <1>8
    <3>2. \A a \in issued : a.operationId \in 1..n + 1
      BY <1>8, <1>11
    <3>. QED
      BY <1>4, <3>1, <3>2
  <2>4. \A a \in issued' : Given(a.clientId) \/ Drawn(a.clientId)
    <3>1. Given(p.clientId) \/ Drawn(p.clientId)
      BY <1>3, <1>7
    <3>. QED
      BY <1>4, <3>1 DEF Inv, LifecycleInv, IdentitiesSound
  <2>5. next + 1 >= 1
    BY <1>8
  <2>. QED
    BY <1>7, <1>13, <1>14, <2>1, <2>2, <2>3, <2>4, <2>5
    DEF IdentitiesSound, Given
<1>22. RandomPositionsFresh'
  <2>1. ASSUME NEW a \in issued, SamePosition(a, p), ~ Given(id)
        PROVE  FALSE
    <3>1. a.clientId = id /\ a.clientSequence = next
      BY <1>3, <2>1 DEF SamePosition
    <3>. QED
      BY <1>7, <1>8, <2>1, <3>1
  <2>2. ASSUME NEW a \in issued', NEW b \in issued', SamePosition(a, b),
               \A u \in Tabs : a.clientId # OptionId[u]
        PROVE  a = b
    <3>1. CASE a \in issued /\ b \in issued
      BY <2>2, <3>1 DEF Inv, RandomPositionsFresh
    <3>2. CASE a \in issued /\ b = p
      BY <1>3, <2>1, <2>2, <3>2 DEF SamePosition, Given
    <3>3. CASE a = p /\ b \in issued
      BY <1>3, <2>1, <2>2, <3>3 DEF SamePosition, Given
    <3>. QED
      BY <1>4, <3>1, <3>2, <3>3
  <2>. QED
    BY <2>2 DEF RandomPositionsFresh, SamePosition
<1>. QED
  BY <1>17, <1>18, <1>19, <1>20, <1>21, <1>22 DEF Inv, LifecycleInv

\* A step of the requests that leaves the tabs and the database alone.
LEMMA RequestKeeps ==
  ASSUME Inv, UNCHANGED <<exists, record, tabs, opens, created, issued>>,
         phase' \in {"queued", "notifying", "blocked"},
         notified' \subseteq Tabs,
         deletion' \in [Tabs -> {"none", "waiting", "resolved", "rejected"}],
         deletions' \in Nat,
         RequestsSound'
  PROVE  Inv'
<1>1. /\ exists' = exists /\ record' = record /\ tabs' = tabs
      /\ opens' = opens /\ created' = created /\ issued' = issued
  OBVIOUS
<1>2. LifecycleTypeOK'
  BY <1>1 DEF Inv, LifecycleInv, LifecycleTypeOK, InTransaction
<1>3. OneIdentity' /\ ConnectionsSound'
  BY <1>1 DEF Inv, LifecycleInv, OneIdentity, ConnectionsSound, InTransaction,
     Missing
<1>4. BoundsKept'
  BY <1>1 DEF Inv, LifecycleInv, BoundsKept, Opening, Writing
<1>5. IdentitiesSound' /\ RandomPositionsFresh'
  BY <1>1 DEF Inv, LifecycleInv, IdentitiesSound, Missing, Given, Drawn,
     RandomPositionsFresh
<1>. QED
  BY <1>2, <1>3, <1>4, <1>5 DEF Inv, LifecycleInv

\* DeleteDatabase.
LEMMA DeleteDatabaseKeeps ==
  ASSUME Inv, NEW t \in Tabs, DeleteDatabase(t)
  PROVE  Inv'
<1>1. PICK r : r = [kind |-> "delete", tab |-> t]
  OBVIOUS
<1>2. PICK n : n = Len(queue)
  OBVIOUS
<1>3. /\ UNCHANGED <<exists, record, phase, notified, tabs, opens, created,
                     issued>>
      /\ deletions' = deletions + 1 /\ queue' = Append(queue, r)
      /\ deletion' = [deletion EXCEPT ![t] = "waiting"]
  BY <1>1 DEF DeleteDatabase
<1>4. /\ n \in Nat /\ DOMAIN queue = 1..n /\ queue \in Seq(Request)
      /\ r \in Request /\ r.kind = "delete"
      /\ \A i \in 1..n : queue[i].tab \in Tabs
  BY <1>1, <1>2, Requests DEF Inv, LifecycleInv, Request
<1>5. /\ queue' \in Seq(Request) /\ DOMAIN queue' = 1..n + 1
      /\ \A i \in 1..n : queue'[i] = queue[i]
      /\ queue'[n + 1] = r
  BY <1>2, <1>3, <1>4, AppendProperties
<1>6. \A i \in 1..n : queue[i].kind = "open" =>
          /\ tabs[queue[i].tab].pc = "opening"
          /\ \A j \in 1..n : queue[i] = queue[j] => i = j
  BY <1>4 DEF Inv, LifecycleInv, RequestsSound
<1>7. ASSUME NEW i \in 1..n + 1, NEW j \in 1..n + 1, queue'[i].kind = "open"
      PROVE  /\ tabs[queue'[i].tab].pc = "opening"
             /\ queue'[i] = queue'[j] => i = j
  <2>1. i \in 1..n
    BY <1>4, <1>5, <1>7
  <2>2. CASE j \in 1..n
    BY <1>5, <1>6, <1>7, <2>1, <2>2
  <2>3. CASE j = n + 1
    BY <1>4, <1>5, <1>6, <1>7, <2>1, <2>3
  <2>. QED
    BY <1>4, <2>2, <2>3
<1>8. RequestsSound'
  <2>1. tabs' = tabs
    BY <1>3
  <2>. QED
    BY <1>5, <1>7, <2>1 DEF RequestsSound
<1>9. /\ phase' \in {"queued", "notifying", "blocked"}
      /\ notified' \subseteq Tabs
      /\ deletion' \in [Tabs -> {"none", "waiting", "resolved", "rejected"}]
  BY <1>3 DEF Inv, LifecycleInv, LifecycleTypeOK
<1>10. deletions' \in Nat
  BY <1>3, Counts DEF Inv
<1>. QED
  BY <1>3, <1>8, <1>9, <1>10, RequestKeeps

\* StartDelete and Blocked.
LEMMA DeletionKeeps ==
  ASSUME Inv, StartDelete \/ Blocked
  PROVE  Inv'
<1>1. UNCHANGED <<exists, record, queue, tabs, opens, deletions, created,
                  issued>>
  BY DEF StartDelete, Blocked, counters
<1>2. /\ phase' \in {"queued", "notifying", "blocked"}
      /\ notified' \subseteq Tabs
  BY DEF Inv, LifecycleInv, LifecycleTypeOK, StartDelete, Blocked
<1>3. deletion' \in [Tabs -> {"none", "waiting", "resolved", "rejected"}]
  BY DEF Inv, LifecycleInv, LifecycleTypeOK, StartDelete, Blocked
<1>4. deletions' \in Nat
  BY <1>1, Counts DEF Inv
<1>5. RequestsSound'
  BY <1>1 DEF Inv, LifecycleInv, RequestsSound
<1>. QED
  BY <1>1, <1>2, <1>3, <1>4, <1>5, RequestKeeps

\* Finish.
LEMMA FinishKeeps ==
  ASSUME Inv, Finish
  PROVE  Inv'
<1>1. PICK rest : rest = Tail(queue)
  OBVIOUS
<1>2. /\ exists' = FALSE /\ record' = NoRecord /\ queue' = rest
      /\ phase' = "queued"
      /\ tabs' = tabs /\ notified' = notified /\ opens' = opens
      /\ deletions' = deletions /\ created' = created /\ issued' = issued
  BY <1>1 DEF Finish, counters
<1>3. /\ rest \in Seq(Request) /\ StillWaiting(rest, Head(queue))
  <2>1. RequestsSound /\ queue # <<>>
    BY DEF Inv, LifecycleInv, Finish, Served
  <2>. QED
    BY <1>1, <2>1, Rest
<1>4. \A t \in Tabs : tabs[t].connection = "none"
  BY DEF Finish, Connected
<1>5. \A t \in Tabs : ~ InTransaction(t)
  BY <1>4 DEF Inv, LifecycleInv, ConnectionsSound
<1>6. OneIdentity' /\ ConnectionsSound'
  BY <1>2, <1>4, <1>5 DEF OneIdentity, ConnectionsSound, InTransaction
<1>7. LifecycleTypeOK'
  <2>1. record' \in [clientId : Ids \cup {NoId},
                     nextClientSequence : 0..(MaxWrites + 1)]
    BY <1>2, BoundsAssumption DEF NoRecord
  <2>2. deletion' \in [Tabs -> {"none", "waiting", "resolved", "rejected"}]
    BY DEF Inv, LifecycleInv, LifecycleTypeOK, Finish
  <2>. QED
    BY <1>2, <2>1, <2>2 DEF Inv, LifecycleInv, LifecycleTypeOK, InTransaction
<1>8. RequestsSound'
  BY <1>2, <1>3 DEF RequestsSound, StillWaiting
<1>9. BoundsKept'
  <2>1. record'.nextClientSequence = 0 /\ Cardinality(issued) \in Nat
    BY <1>2, Counts DEF NoRecord, Inv
  <2>. QED
    BY <1>2, <2>1 DEF Inv, LifecycleInv, BoundsKept, Opening, Writing
<1>10. IdentitiesSound'
  <2>1. Missing'
    BY <1>2 DEF Missing
  <2>. QED
    BY <1>2, <2>1 DEF Inv, LifecycleInv, IdentitiesSound, Given, Drawn
<1>11. RandomPositionsFresh'
  BY <1>2 DEF Inv, RandomPositionsFresh
<1>. QED
  BY <1>6, <1>7, <1>8, <1>9, <1>10, <1>11 DEF Inv, LifecycleInv

\* Init.
LEMMA InitInv ==
  ASSUME Init
  PROVE  Inv
<1>1. /\ tabs \in [Tabs -> TabState]
      /\ \A t \in Tabs : tabs[t].pc = "closed" /\ tabs[t].connection = "none"
  BY DEF Init, Away, TabState
<1>2. issued = {} /\ Opening = {} /\ Writing = {} /\ queue = <<>>
  BY <1>1 DEF Init, Opening, Writing
<1>3. Cardinality({}) = 0 /\ IsFiniteSet({})
  BY FS_EmptySet
<1>4. LifecycleTypeOK
  <2>1. record \in [clientId : Ids \cup {NoId},
                    nextClientSequence : 0..(MaxWrites + 1)]
    BY BoundsAssumption DEF Init, NoRecord
  <2>2. deletion \in [Tabs -> {"none", "waiting", "resolved", "rejected"}]
    BY DEF Init
  <2>3. {opens, deletions, created} \subseteq Nat
    BY DEF Init
  <2>4. exists \in BOOLEAN /\ record = NoRecord /\ notified = {}
        /\ phase = "queued"
    BY DEF Init
  <2>5. issued \subseteq Position /\ IsFiniteSet(issued)
    BY <1>2, <1>3
  <2>. QED
    BY <1>1, <2>1, <2>2, <2>3, <2>4, <2>5 DEF LifecycleTypeOK
<1>5. RequestsSound
  BY <1>2 DEF RequestsSound
<1>6. OneIdentity /\ ConnectionsSound
  BY <1>1 DEF OneIdentity, ConnectionsSound, InTransaction
<1>7. BoundsKept
  <2>1. record.nextClientSequence = 0 /\ opens = 0 /\ created = 0
    BY DEF Init, NoRecord
  <2>. QED
    BY <1>2, <1>3, <2>1, BoundsAssumption DEF BoundsKept
<1>8. IdentitiesSound /\ RandomPositionsFresh
  BY <1>2 DEF Init, IdentitiesSound, Missing, RandomPositionsFresh
<1>. QED
  BY <1>4, <1>5, <1>6, <1>7, <1>8 DEF Inv, LifecycleInv

\* Every step keeps the invariant, one case per action.
LEMMA NextKeeps ==
  ASSUME Inv, [Next]_vars
  PROVE  Inv'
<1>1. CASE Browser
  BY <1>1, ServeOpenKeeps, DeletionKeeps, FinishKeeps DEF Browser
<1>2. ASSUME NEW t \in Tabs, Use(t) PROVE Inv'
  BY <1>2, OpenStoreKeeps, BeginWriteKeeps, LeaveKeeps, DeleteDatabaseKeeps
  DEF Use
<1>3. ASSUME NEW t \in Tabs, Progress(t) PROVE Inv'
  BY <1>3, BeginCreateKeeps, CreateKeeps, FindKeeps, LeaveKeeps,
     EndWriteKeeps, VersionChangeKeeps DEF Progress
<1>4. CASE UNCHANGED vars
  <2>1. UNCHANGED <<exists, record, tabs, opens, created, issued, queue, phase,
                    notified, deletion, deletions>>
    BY <1>4 DEF vars, requestVars, counters
  <2>2. RequestsSound'
    BY <2>1 DEF Inv, LifecycleInv, RequestsSound
  <2>. QED
    BY <2>1, <2>2, RequestKeeps DEF Inv, LifecycleInv, LifecycleTypeOK
<1>. QED
  BY <1>1, <1>2, <1>3, <1>4 DEF Next

-----------------------------------------------------------------------------

\* LifecycleInv holds in every state: among others, a tab that can still write
\* holds the identity of the record it writes to (open.ts:57-99).
THEOREM LifecycleInductive == Spec => []LifecycleInv
<1>1. Inv /\ [Next]_vars => Inv'
  BY NextKeeps
<1>2. Inv => LifecycleInv
  BY DEF Inv
<1>. QED
  BY InitInv, <1>1, <1>2, PTL DEF Spec

\* An identity drawn at random gives each of its positions to one operation,
\* whatever tabs open, crash, delete and create again (open.ts:61-80,
\* 112-121).
THEOREM PositionsFresh == Spec => []RandomPositionsFresh
<1>1. Inv /\ [Next]_vars => Inv'
  BY NextKeeps
<1>2. Inv => RandomPositionsFresh
  BY DEF Inv
<1>. QED
  BY InitInv, <1>1, <1>2, PTL DEF Spec

-----------------------------------------------------------------------------
(* Rows. *)

\* Induction on a natural number, over the set of those that a fact holds of.
LEMMA SetInduction ==
  ASSUME NEW S, 0 \in S, \A n \in Nat : n \in S => n + 1 \in S
  PROVE  \A n \in Nat : n \in S
<1>. DEFINE R == OpToRel(<, Nat)
<1>1. R = {ss \in Nat \X Nat : ss[1] < ss[2]}
  BY DEF OpToRel
<1>2. IsWellFoundedOn(R, Nat)
  BY NatLessThanWellFounded
<1>. HIDE DEF R
<1>3. SUFFICES ASSUME Nat \ S # {} PROVE FALSE
  OBVIOUS
<1>4. PICK x \in Nat \ S : \A y \in Nat \ S : ~ (<<y, x>> \in R)
  <2>1. Nat \ S \subseteq Nat
    OBVIOUS
  <2>. QED
    BY <1>2, <1>3, <2>1, WFMin
<1>5. x # 0 /\ x - 1 \in Nat
  OBVIOUS
<1>6. x - 1 \in Nat \ S
  BY <1>5
<1>7. <<x - 1, x>> \in R
  BY <1>1, <1>5
<1>. QED
  BY <1>4, <1>6, <1>7

-----------------------------------------------------------------------------
(* Operations and keys. *)

\* The encoded key of the row that an operation is about.
Target(operation) == EncodePrimaryKey(operation.table, KeyOf(operation))

\* Does it store a row?
IsPut(operation) == operation.type = "putRow"

\* A row that is complete is its own completion.
LEMMA CompletedTwice ==
  ASSUME NEW t \in DOMAIN Schema, NEW given,
         NEW row, row = Completed(t, given),
         DOMAIN row = DOMAIN Schema[t].columns
  PROVE  Completed(t, row) = row
<1>. DEFINE N == {d \in DOMAIN Schema[t].columns : Schema[t].columns[d].nullable}
<1>1. row = [c \in DOMAIN given \cup N |->
               IF c \in DOMAIN given THEN given[c] ELSE Null]
  BY DEF Completed
<1>2. DOMAIN row \cup N = DOMAIN row /\ DOMAIN row = DOMAIN given \cup N
  BY <1>1
<1>3. Completed(t, row) = [c \in DOMAIN row \cup N |->
                             IF c \in DOMAIN row THEN row[c] ELSE Null]
  BY DEF Completed
<1>4. Completed(t, row) = [c \in DOMAIN row |-> row[c]]
  BY <1>2, <1>3
<1>5. row = [c \in DOMAIN row |-> row[c]]
  BY <1>1
<1>. QED
  BY <1>4, <1>5

\* What an operation in its travelling form is, and that it stays in it.
LEMMA RowOpParts ==
  ASSUME NEW op \in RowOps
  PROVE  /\ op.table \in DOMAIN Schema
         /\ op.type \in {"putRow", "deleteRow"}
         /\ IsPut(op) => /\ RowFits(op.table, op.row)
                         /\ op.row = [c \in DOMAIN op.row |-> op.row[c]]
         /\ ~ IsPut(op) =>
                op.key = [c \in KeyColumns(op.table) |-> op.key[c]]
         /\ NormalizeRowOperation(op) = op
         /\ op # Invalid
<1>1. PICK d \in Drafts : op = NormalizeRowOperation(d) /\ op # Invalid
  BY DEF RowOps
<1>2. d.table \in DOMAIN Schema
  BY <1>1 DEF NormalizeRowOperation
<1>3. PICK t \in DOMAIN Schema : t = d.table
  BY <1>2
<1>4. CASE d.type = "putRow"
  <2>1. op = NormalizeFullRow(t, d.row)
    BY <1>1, <1>3, <1>4 DEF NormalizeRowOperation
  <2>2. PICK row : row = Completed(t, d.row)
    OBVIOUS
  <2>3. /\ op = [type |-> "putRow", table |-> t, row |-> row]
        /\ RowFits(t, row)
    BY <1>1, <2>1, <2>2 DEF NormalizeFullRow
  <2>4. DOMAIN row = DOMAIN Schema[t].columns
    BY <2>3 DEF RowFits
  <2>5. Completed(t, row) = row
    BY <2>2, <2>4, CompletedTwice
  <2>6. IsPlainRecord(row)
    BY <2>4, SchemaAssumption DEF IsPlainRecord
  <2>7. NormalizeFullRow(t, row) = op
    BY <2>3, <2>5, <2>6 DEF NormalizeFullRow
  <2>8. NormalizeRowOperation(op) = op
    BY <2>3, <2>7 DEF NormalizeRowOperation
  <2>9. row = [c \in DOMAIN row |-> row[c]]
    BY <2>2 DEF Completed
  <2>. QED
    BY <1>1, <2>3, <2>8, <2>9 DEF IsPut
<1>5. CASE d.type # "putRow"
  <2>1. d.type = "deleteRow" /\ op = NormalizePrimaryKey(t, d.key)
    BY <1>1, <1>3, <1>5 DEF NormalizeRowOperation
  <2>2. PICK key : key = d.key
    OBVIOUS
  <2>3. /\ op = [type |-> "deleteRow", table |-> t, key |-> key]
        /\ DOMAIN key = KeyColumns(t)
    BY <1>1, <2>1, <2>2 DEF NormalizePrimaryKey
  <2>4. NormalizePrimaryKey(t, key) = op
    BY <1>1, <2>1, <2>2
  <2>5. NormalizeRowOperation(op) = op
    BY <2>3, <2>4 DEF NormalizeRowOperation
  <2>6. key = [c \in KeyColumns(t) |-> key[c]]
    BY <2>1, <2>2, <2>3, DraftsAssumption
  <2>. QED
    BY <1>1, <2>3, <2>5, <2>6 DEF IsPut
<1>. QED
  BY <1>4, <1>5

\* The key of an operation is a function on the key columns.
LEMMA KeyParts ==
  ASSUME NEW op \in RowOps
  PROVE  /\ KeyOf(op) = [c \in KeyColumns(op.table) |-> KeyOf(op)[c]]
         /\ IsPut(op) => Target(op) = EncodeRowPrimaryKey(op.table, op.row)
         /\ ~ IsPut(op) => Target(op) = EncodePrimaryKey(op.table, op.key)
BY RowOpParts DEF KeyOf, KeyFromRow, IsPut, Target, EncodeRowPrimaryKey

\* Keys are told apart by their encodings.
LEMMA EncodingTellsKeys ==
  ASSUME NEW t, NEW left, NEW right,
         left = [c \in KeyColumns(t) |-> left[c]],
         right = [c \in KeyColumns(t) |-> right[c]],
         EncodePrimaryKey(t, left) = EncodePrimaryKey(t, right)
  PROVE  left = right
<1>1. PICK pk : pk = Schema[t].primaryKey
  OBVIOUS
<1>2. \A i \in DOMAIN pk : left[pk[i]] = right[pk[i]]
  <2>1. EncodePrimaryKey(t, left) = [i \in DOMAIN pk |-> left[pk[i]]]
    BY <1>1 DEF EncodePrimaryKey
  <2>2. EncodePrimaryKey(t, right) = [i \in DOMAIN pk |-> right[pk[i]]]
    BY <1>1 DEF EncodePrimaryKey
  <2>3. PICK code : code = EncodePrimaryKey(t, left)
    OBVIOUS
  <2>4. \A i \in DOMAIN pk : code[i] = left[pk[i]] /\ code[i] = right[pk[i]]
    BY <2>1, <2>2, <2>3
  <2>. QED
    BY <2>4
<1>3. \A c \in KeyColumns(t) : left[c] = right[c]
  BY <1>1, <1>2 DEF KeyColumns, ToSet
<1>. QED
  BY <1>3

\* Operations are about one row exactly when they have one target in one table.
LEMMA SameTarget ==
  ASSUME NEW left \in RowOps, NEW right \in RowOps, left.table = right.table
  PROVE  KeyOf(left) = KeyOf(right) <=> Target(left) = Target(right)
<1>1. KeyOf(left) = KeyOf(right) => Target(left) = Target(right)
  BY DEF Target
<1>2. ASSUME Target(left) = Target(right) PROVE KeyOf(left) = KeyOf(right)
  <2>1. KeyOf(left) = [c \in KeyColumns(left.table) |-> KeyOf(left)[c]]
    BY KeyParts
  <2>2. KeyOf(right) = [c \in KeyColumns(left.table) |-> KeyOf(right)[c]]
    BY KeyParts
  <2>3. EncodePrimaryKey(left.table, KeyOf(left)) =
            EncodePrimaryKey(left.table, KeyOf(right))
    BY <1>2 DEF Target
  <2>. QED
    BY <2>1, <2>2, <2>3, EncodingTellsKeys
<1>. QED
  BY <1>1, <1>2

-----------------------------------------------------------------------------
(* What a state tells of the operations applied to it. *)

\* Operation i is the last one about its row, and puts it into table t.
LastPut(ops, t, i) ==
    /\ i \in DOMAIN ops /\ ops[i].table = t /\ IsPut(ops[i])
    /\ IsLast(ops, i)

\* The rows of the state are those of the last operations, under their targets.
Represents(state, ops) ==
    /\ DOMAIN state = DOMAIN Schema
    /\ \A t \in DOMAIN Schema :
          /\ \A k \in DOMAIN state[t] : \E i \in DOMAIN ops :
                /\ LastPut(ops, t, i)
                /\ Target(ops[i]) = k /\ state[t][k] = ops[i].row
          /\ \A i \in DOMAIN ops : LastPut(ops, t, i) =>
                /\ Target(ops[i]) \in DOMAIN state[t]
                /\ state[t][Target(ops[i])] = ops[i].row

\* The state before any operation.
LEMMA InitialRepresents == Represents(InitialState, <<>>)
<1>1. DOMAIN <<>> = {}
  OBVIOUS
<1>2. DOMAIN InitialState = DOMAIN Schema
  BY DEF InitialState
<1>3. \A t \in DOMAIN Schema : DOMAIN InitialState[t] = {}
  BY <1>1 DEF InitialState
<1>. QED
  BY <1>1, <1>2, <1>3 DEF Represents

\* The indices of operations.
LEMMA OpsParts ==
  ASSUME NEW ops \in Seq(RowOps)
  PROVE  /\ Len(ops) \in Nat /\ DOMAIN ops = 1 .. Len(ops)
         /\ \A i \in DOMAIN ops : ops[i] \in RowOps /\ i \in Nat
OBVIOUS

\* Two last operations about one row are the same one.
LEMMA LastIsOne ==
  ASSUME NEW ops \in Seq(RowOps), NEW i \in DOMAIN ops, NEW j \in DOMAIN ops,
         IsLast(ops, i), IsLast(ops, j), ops[i].table = ops[j].table,
         Target(ops[i]) = Target(ops[j])
  PROVE  i = j
<1>1. /\ Len(ops) \in Nat /\ i \in 1 .. Len(ops) /\ j \in 1 .. Len(ops)
      /\ ops[i] \in RowOps /\ ops[j] \in RowOps
  BY OpsParts
<1>2. KeyOf(ops[i]) = KeyOf(ops[j])
  BY <1>1, SameTarget
<1>3. ~ (i < j)
  BY <1>1, <1>2 DEF IsLast
<1>4. ~ (j < i)
  BY <1>1, <1>2 DEF IsLast
<1>. QED
  BY <1>1, <1>3, <1>4

\* Readers find in such a state what LastWriteWins promises.
LEMMA RepresentsReads ==
  ASSUME NEW ops \in Seq(RowOps), NEW state, Represents(state, ops)
  PROVE  ReadsLast(state, ops)
<1>1. ASSUME NEW t \in DOMAIN Schema
      PROVE  ReadTableRows(state, t) =
                 {ops[i].row : i \in {j \in DOMAIN ops :
                     ops[j].table = t /\ ops[j].type = "putRow" /\ IsLast(ops, j)}}
  <2>1. \A k \in DOMAIN state[t] : \E i \in DOMAIN ops :
            LastPut(ops, t, i) /\ state[t][k] = ops[i].row
    BY DEF Represents
  <2>2. \A i \in DOMAIN ops : LastPut(ops, t, i) =>
            \E k \in DOMAIN state[t] : state[t][k] = ops[i].row
    BY DEF Represents
  <2>. QED
    BY <2>1, <2>2 DEF ReadTableRows, LastPut, IsPut
<1>2. ASSUME NEW i \in DOMAIN ops, IsLast(ops, i)
      PROVE  ReadTableRow(state, ops[i].table, KeyOf(ops[i])) =
                 IF ops[i].type = "putRow" THEN {ops[i].row} ELSE {}
  <2>1. PICK t \in DOMAIN Schema : t = ops[i].table
    BY OpsParts, RowOpParts
  <2>2. PICK k : k = Target(ops[i])
    OBVIOUS
  <2>3. ReadTableRow(state, ops[i].table, KeyOf(ops[i])) =
            IF k \in DOMAIN state[t] THEN {state[t][k]} ELSE {}
    BY <2>1, <2>2 DEF ReadTableRow, Target
  <2>4. CASE IsPut(ops[i])
    <3>1. LastPut(ops, t, i)
      BY <1>2, <2>1, <2>4 DEF LastPut
    <3>2. k \in DOMAIN state[t] /\ state[t][k] = ops[i].row
      BY <2>2, <3>1 DEF Represents
    <3>. QED
      BY <2>3, <2>4, <3>2 DEF IsPut
  <2>5. CASE ~ IsPut(ops[i])
    <3>1. ASSUME k \in DOMAIN state[t] PROVE FALSE
      <4>1. PICK j \in DOMAIN ops : LastPut(ops, t, j) /\ Target(ops[j]) = k
        BY <3>1 DEF Represents
      <4>2. j = i
        BY <1>2, <2>1, <2>2, <4>1, LastIsOne DEF LastPut
      <4>. QED
        BY <2>5, <4>1, <4>2 DEF LastPut
    <3>. QED
      BY <2>3, <2>5, <3>1 DEF IsPut
  <2>. QED
    BY <2>4, <2>5
<1>. QED
  BY <1>1, <1>2 DEF ReadsLast

\* The n operations ops and then op.
OneMore(ops, n, op, more) ==
    /\ n \in Nat /\ DOMAIN more = 1 .. n + 1 /\ DOMAIN ops = 1 .. n
    /\ more[n + 1] = op /\ \A i \in 1 .. n : more[i] = ops[i]
    /\ IsLast(more, n + 1)
    /\ \A i \in 1 .. n : IsLast(more, i) <=>
          /\ IsLast(ops, i)
          /\ ops[i].table = op.table => Target(ops[i]) # Target(op)

\* Another operation makes the earlier ones about its row matter no more.
LEMMA LastOfMore ==
  ASSUME NEW ops \in Seq(RowOps), NEW op \in RowOps
  PROVE  OneMore(ops, Len(ops), op, Append(ops, op))
<1>a. PICK more : more = Append(ops, op)
  OBVIOUS
<1>b. PICK n : n = Len(ops)
  OBVIOUS
<1>1. /\ more \in Seq(RowOps) /\ n \in Nat /\ Len(more) = n + 1
      /\ DOMAIN more = 1 .. n + 1 /\ DOMAIN ops = 1 .. n
      /\ more[n + 1] = op /\ \A i \in 1 .. n : more[i] = ops[i]
  BY <1>a, <1>b, AppendProperties
<1>2. IsLast(more, n + 1)
  BY <1>1 DEF IsLast
<1>3. ASSUME NEW i \in 1 .. n
      PROVE  IsLast(more, i) <=>
                /\ IsLast(ops, i)
                /\ ops[i].table = op.table => Target(ops[i]) # Target(op)
  <2>1. /\ ops[i] \in RowOps /\ more[i] = ops[i]
        /\ i \in Nat /\ n + 1 \in i + 1 .. n + 1
    BY <1>1, <1>3, OpsParts
  <2>2. ops[i].table = op.table =>
            (KeyOf(ops[i]) = KeyOf(op) <=> Target(ops[i]) = Target(op))
    BY <2>1, SameTarget
  <2>3. ASSUME IsLast(more, i)
        PROVE  /\ IsLast(ops, i)
               /\ ops[i].table = op.table => KeyOf(ops[i]) # KeyOf(op)
    <3>1. \A j \in i + 1 .. n + 1 :
              more[j].table = ops[i].table => KeyOf(more[j]) # KeyOf(ops[i])
      BY <1>1, <2>1, <2>3 DEF IsLast
    <3>2. \A j \in i + 1 .. n :
              /\ j \in i + 1 .. n + 1 /\ j \in 1 .. n
              /\ ops[j].table = ops[i].table => KeyOf(ops[j]) # KeyOf(ops[i])
      BY <1>1, <2>1, <3>1
    <3>3. ops[i].table = op.table => KeyOf(ops[i]) # KeyOf(op)
      BY <1>1, <2>1, <3>1
    <3>. QED
      BY <3>2, <3>3, <1>1 DEF IsLast
  <2>4. ASSUME IsLast(ops, i),
               ops[i].table = op.table => KeyOf(ops[i]) # KeyOf(op)
        PROVE  IsLast(more, i)
    <3>1. ASSUME NEW j \in i + 1 .. n + 1
          PROVE  more[j].table = ops[i].table => KeyOf(more[j]) # KeyOf(ops[i])
      <4>1. CASE j = n + 1
        BY <1>1, <2>4, <4>1
      <4>2. CASE j # n + 1
        <5>1. j \in i + 1 .. n /\ j \in 1 .. n
          BY <2>1, <1>1, <3>1, <4>2
        <5>. QED
          BY <1>1, <2>4, <5>1 DEF IsLast
      <4>. QED
        BY <4>1, <4>2
    <3>. QED
      BY <1>1, <2>1, <3>1 DEF IsLast
  <2>. QED
    BY <2>2, <2>3, <2>4
<1>. QED
  BY <1>a, <1>b, <1>1, <1>2, <1>3 DEF OneMore

\* What an operation does to the tables.
AppliedTo(state, op, new) ==
    /\ DOMAIN new = DOMAIN Schema
    /\ \A t \in DOMAIN Schema : t # op.table => new[t] = state[t]
    /\ IsPut(op) =>
          /\ DOMAIN new[op.table] = DOMAIN state[op.table] \union {Target(op)}
          /\ new[op.table][Target(op)] = op.row
    /\ ~ IsPut(op) =>
          DOMAIN new[op.table] = DOMAIN state[op.table] \ {Target(op)}
    /\ \A k \in DOMAIN state[op.table] : k # Target(op) =>
          new[op.table][k] = state[op.table][k]

\* applyRowOperation replaces one table, and in it one row.
LEMMA AppliedParts ==
  ASSUME NEW op \in RowOps, NEW state, DOMAIN state = DOMAIN Schema
  PROVE  AppliedTo(state, op, ApplyRowOperation(state, op))
<1>0. PICK new : new = ApplyRowOperation(state, op)
  OBVIOUS
<1>1. PICK t \in DOMAIN Schema : t = op.table
  BY RowOpParts
<1>2. CASE IsPut(op)
  <2>1. new = [state EXCEPT ![t] = Insert(state[t], Target(op), op.row)]
    BY <1>0, <1>1, <1>2, KeyParts DEF ApplyRowOperation, IsPut
  <2>2. /\ new[t] = Insert(state[t], Target(op), op.row)
        /\ DOMAIN new = DOMAIN Schema
        /\ \A u \in DOMAIN Schema : u # t => new[u] = state[u]
    BY <1>1, <2>1
  <2>. QED
    BY <1>0, <1>1, <1>2, <2>2 DEF Insert, AppliedTo
<1>3. CASE ~ IsPut(op)
  <2>1. new = [state EXCEPT ![t] = Restrict(state[t], DOMAIN state[t] \ {Target(op)})]
    BY <1>0, <1>1, <1>3, KeyParts DEF ApplyRowOperation, IsPut
  <2>2. /\ new[t] = Restrict(state[t], DOMAIN state[t] \ {Target(op)})
        /\ DOMAIN new = DOMAIN Schema
        /\ \A u \in DOMAIN Schema : u # t => new[u] = state[u]
    BY <1>1, <2>1
  <2>. QED
    BY <1>0, <1>1, <1>3, <2>2 DEF Restrict, AppliedTo
<1>. QED
  BY <1>2, <1>3

\* applyRowOperation keeps a state true of the operations applied to it.
LEMMA ApplyRepresents ==
  ASSUME NEW ops \in Seq(RowOps), NEW op \in RowOps, NEW state,
         Represents(state, ops)
  PROVE  Represents(ApplyRowOperation(state, op), Append(ops, op))
<1>1. PICK new : new = ApplyRowOperation(state, op)
  OBVIOUS
<1>2. PICK more : more = Append(ops, op)
  OBVIOUS
<1>3. PICK n : n = Len(ops)
  OBVIOUS
<1>4. /\ n \in Nat /\ DOMAIN more = 1 .. n + 1 /\ DOMAIN ops = 1 .. n
      /\ more[n + 1] = op /\ \A i \in 1 .. n : more[i] = ops[i]
      /\ IsLast(more, n + 1)
      /\ \A i \in 1 .. n : IsLast(more, i) <=>
            /\ IsLast(ops, i)
            /\ ops[i].table = op.table => Target(ops[i]) # Target(op)
  <2>1. OneMore(ops, n, op, more)
    BY <1>2, <1>3, LastOfMore
  <2>. QED
    BY <2>1 DEF OneMore
<1>5. DOMAIN state = DOMAIN Schema
  BY DEF Represents
<1>6. /\ DOMAIN new = DOMAIN Schema
      /\ \A t \in DOMAIN Schema : t # op.table => new[t] = state[t]
      /\ IsPut(op) =>
            /\ DOMAIN new[op.table] = DOMAIN state[op.table] \union {Target(op)}
            /\ new[op.table][Target(op)] = op.row
      /\ ~ IsPut(op) =>
            DOMAIN new[op.table] = DOMAIN state[op.table] \ {Target(op)}
      /\ \A k \in DOMAIN state[op.table] : k # Target(op) =>
            new[op.table][k] = state[op.table][k]
  <2>1. AppliedTo(state, op, new)
    BY <1>1, <1>5, AppliedParts
  <2>. QED
    BY <2>1 DEF AppliedTo
\* Earlier puts that still count are those of other rows.
<1>7. ASSUME NEW t \in DOMAIN Schema, NEW i \in 1 .. n
      PROVE  LastPut(more, t, i) <=>
                /\ LastPut(ops, t, i)
                /\ t = op.table => Target(ops[i]) # Target(op)
  BY <1>4 DEF LastPut
<1>8. ASSUME NEW t \in DOMAIN Schema
      PROVE  LastPut(more, t, n + 1) <=> t = op.table /\ IsPut(op)
  BY <1>4 DEF LastPut
<1>9. ASSUME NEW t \in DOMAIN Schema, NEW k \in DOMAIN new[t]
      PROVE  \E i \in DOMAIN more :
                /\ LastPut(more, t, i)
                /\ Target(more[i]) = k /\ new[t][k] = more[i].row
  <2>1. CASE t = op.table /\ k = Target(op)
    <3>1. IsPut(op)
      BY <1>6, <1>9, <2>1
    <3>2. /\ n + 1 \in DOMAIN more /\ LastPut(more, t, n + 1)
          /\ Target(more[n + 1]) = k /\ new[t][k] = more[n + 1].row
      BY <1>4, <1>6, <1>8, <2>1, <3>1
    <3>. QED
      BY <3>2
  <2>2. CASE ~ (t = op.table /\ k = Target(op))
    <3>1. k \in DOMAIN state[t] /\ new[t][k] = state[t][k]
      BY <1>6, <1>9, <2>2
    <3>2. PICK i \in 1 .. n :
             /\ LastPut(ops, t, i)
             /\ Target(ops[i]) = k /\ state[t][k] = ops[i].row
      BY <1>4, <3>1 DEF Represents
    <3>3. i \in DOMAIN more /\ more[i] = ops[i] /\ LastPut(more, t, i)
      BY <1>4, <1>7, <2>2, <3>2
    <3>. QED
      BY <3>1, <3>2, <3>3
  <2>. QED
    BY <2>1, <2>2
<1>10. ASSUME NEW t \in DOMAIN Schema, NEW i \in DOMAIN more,
              LastPut(more, t, i)
       PROVE  /\ Target(more[i]) \in DOMAIN new[t]
              /\ new[t][Target(more[i])] = more[i].row
  <2>1. CASE i = n + 1
    BY <1>4, <1>6, <1>8, <1>10, <2>1
  <2>2. CASE i # n + 1
    <3>1. i \in 1 .. n
      BY <1>4, <2>2
    <3>2. /\ LastPut(ops, t, i) /\ more[i] = ops[i]
          /\ t = op.table => Target(ops[i]) # Target(op)
      BY <1>4, <1>7, <1>10, <3>1
    <3>3. /\ Target(ops[i]) \in DOMAIN state[t]
          /\ state[t][Target(ops[i])] = ops[i].row
      BY <1>4, <3>1, <3>2 DEF Represents
    <3>. QED
      BY <1>6, <3>2, <3>3
  <2>. QED
    BY <2>1, <2>2
<1>11. Represents(new, more)
  BY <1>6, <1>9, <1>10 DEF Represents
<1>. QED
  BY <1>1, <1>2, <1>11

-----------------------------------------------------------------------------
(* Operations applied one after another. *)

\* f[i] is the state after i of n operations, as a recursive function defines it.
ReplaysTo(f, state, ops, n) ==
    f = [i \in 0 .. n |->
            IF i = 0 THEN state ELSE ApplyRowOperation(f[i - 1], ops[i])]

\* The same, step by step.
StepByStep(f, state, ops, n) ==
    /\ f = [i \in 0 .. n |-> f[i]]
    /\ f[0] = state
    /\ \A i \in 1 .. n : f[i] = ApplyRowOperation(f[i - 1], ops[i])

\* A recursive function is its steps.
LEMMA ReplayParts ==
  ASSUME NEW f, NEW state, NEW ops, NEW n \in Nat
  PROVE  ReplaysTo(f, state, ops, n) <=> StepByStep(f, state, ops, n)
<1>1. 0 \in 0 .. n /\ \A i \in 1 .. n : i \in 0 .. n /\ i # 0
  OBVIOUS
<1>2. ASSUME ReplaysTo(f, state, ops, n)
      PROVE  /\ f = [i \in 0 .. n |-> f[i]]
             /\ f[0] = state
             /\ \A i \in 1 .. n : f[i] = ApplyRowOperation(f[i - 1], ops[i])
  <2>1. f = [i \in 0 .. n |->
                IF i = 0 THEN state ELSE ApplyRowOperation(f[i - 1], ops[i])]
    BY <1>2 DEF ReplaysTo
  <2>. QED
    BY <1>1, <2>1
<1>3. ASSUME f = [i \in 0 .. n |-> f[i]], f[0] = state,
             \A i \in 1 .. n : f[i] = ApplyRowOperation(f[i - 1], ops[i])
      PROVE  ReplaysTo(f, state, ops, n)
  <2>1. ASSUME NEW i \in 0 .. n
        PROVE  f[i] = IF i = 0 THEN state ELSE ApplyRowOperation(f[i - 1], ops[i])
    <3>1. i # 0 => i \in 1 .. n
      OBVIOUS
    <3>. QED
      BY <1>3, <3>1
  <2>. QED
    BY <1>3, <2>1 DEF ReplaysTo
<1>. QED
  BY <1>2, <1>3 DEF StepByStep

\* One operation more.
LEMMA ReplayMore ==
  ASSUME NEW f, NEW state, NEW ops, NEW n \in Nat, ReplaysTo(f, state, ops, n),
         NEW more, \A i \in 1 .. n : more[i] = ops[i]
  PROVE  \E g : /\ ReplaysTo(g, state, more, n + 1)
                /\ \A i \in 0 .. n : g[i] = f[i]
                /\ g[n + 1] = ApplyRowOperation(f[n], more[n + 1])
<1>1. /\ f[0] = state
      /\ \A i \in 1 .. n : f[i] = ApplyRowOperation(f[i - 1], ops[i])
  BY ReplayParts DEF StepByStep
<1>2. PICK g : g = [i \in 0 .. n + 1 |->
                      IF i <= n THEN f[i]
                                ELSE ApplyRowOperation(f[n], more[n + 1])]
  OBVIOUS
<1>3. g[n + 1] = ApplyRowOperation(f[n], more[n + 1])
  BY <1>2
<1>4. \A i \in 0 .. n : g[i] = f[i]
  BY <1>2
<1>5. ASSUME NEW i \in 1 .. n + 1
      PROVE  g[i] = ApplyRowOperation(g[i - 1], more[i])
  <2>1. CASE i = n + 1
    <3>1. i - 1 = n /\ n \in 0 .. n
      BY <2>1
    <3>. QED
      BY <1>3, <1>4, <2>1, <3>1
  <2>2. CASE i # n + 1
    <3>1. i \in 1 .. n /\ i \in 0 .. n /\ i - 1 \in 0 .. n
      BY <1>5, <2>2
    <3>. QED
      BY <1>1, <1>4, <3>1
  <2>. QED
    BY <2>1, <2>2
<1>6. g = [i \in 0 .. n + 1 |-> g[i]] /\ g[0] = state
  BY <1>1, <1>2
<1>7. n + 1 \in Nat
  OBVIOUS
<1>8. StepByStep(g, state, more, n + 1)
  BY <1>5, <1>6 DEF StepByStep
<1>9. ReplaysTo(g, state, more, n + 1)
  BY <1>7, <1>8, ReplayParts
<1>. QED
  BY <1>3, <1>4, <1>9

\* The recursion has a solution, for any number of operations.
LEMMA ReplayExists ==
  ASSUME NEW state, NEW ops, NEW n \in Nat
  PROVE  \E f : ReplaysTo(f, state, ops, n)
<1>. DEFINE S == {m \in Nat : \E f : ReplaysTo(f, state, ops, m)}
<1>1. 0 \in S
  <2>1. PICK f : f = [i \in 0 .. 0 |-> state]
    OBVIOUS
  <2>2. f = [i \in 0 .. 0 |-> f[i]] /\ f[0] = state /\ 0 \in Nat
    BY <2>1
  <2>3. StepByStep(f, state, ops, 0)
    BY <2>2 DEF StepByStep
  <2>4. ReplaysTo(f, state, ops, 0)
    BY <2>2, <2>3, ReplayParts
  <2>. QED
    BY <2>4
<1>2. ASSUME NEW m \in Nat, m \in S PROVE m + 1 \in S
  <2>1. PICK f : ReplaysTo(f, state, ops, m)
    BY <1>2
  <2>2. \E g : ReplaysTo(g, state, ops, m + 1)
    BY <2>1, ReplayMore
  <2>. QED
    BY <2>2
<1>. HIDE DEF S
<1>3. n \in S
  BY <1>1, <1>2, SetInduction
<1>. QED
  BY <1>3 DEF S

\* The first i of the operations that follow others.
LEMMA FollowedBy ==
  ASSUME NEW ops \in Seq(RowOps), NEW before \in Seq(RowOps),
         NEW i \in 0 .. Len(ops) - 1
  PROVE  /\ before \o SubSeq(ops, 1, i) \in Seq(RowOps)
         /\ before \o SubSeq(ops, 1, i + 1) =
                Append(before \o SubSeq(ops, 1, i), ops[i + 1])
<1>1. /\ Len(ops) \in Nat /\ Len(before) \in Nat
      /\ ops[i + 1] \in RowOps
  OBVIOUS
<1>2. PICK short : short = SubSeq(ops, 1, i)
  OBVIOUS
<1>3. PICK long : long = SubSeq(ops, 1, i + 1)
  OBVIOUS
<1>4. /\ short \in Seq(RowOps) /\ Len(short) = i
      /\ \A k \in 1 .. i : short[k] = ops[k]
  BY <1>1, <1>2, SubSeqProperties
<1>5. /\ long \in Seq(RowOps) /\ Len(long) = i + 1
      /\ \A k \in 1 .. i + 1 : long[k] = ops[k]
  BY <1>1, <1>3, SubSeqProperties
<1>6. long = Append(short, ops[i + 1])
  <2>1. PICK new : new = Append(short, ops[i + 1])
    OBVIOUS
  <2>2. /\ new \in Seq(RowOps) /\ Len(new) = i + 1
        /\ \A k \in 1 .. i : new[k] = short[k]
        /\ new[i + 1] = ops[i + 1]
    BY <1>1, <1>4, <2>1, AppendProperties
  <2>3. \A k \in 1 .. i + 1 : long[k] = new[k]
    BY <1>4, <1>5, <2>2
  <2>4. long = new
    BY <1>5, <2>2, <2>3, SeqEqual
  <2>. QED
    BY <2>1, <2>4
<1>7. before \o Append(short, ops[i + 1]) = Append(before \o short, ops[i + 1])
  BY <1>1, <1>4, ConcatProperties, AppendProperties
<1>8. before \o short \in Seq(RowOps)
  BY <1>4, ConcatProperties
<1>. QED
  BY <1>2, <1>3, <1>6, <1>7, <1>8

\* Replaying operations keeps a state true of all of them.
LEMMA ReplayRepresents ==
  ASSUME NEW ops \in Seq(RowOps), NEW before \in Seq(RowOps), NEW state,
         Represents(state, before), NEW f, ReplaysTo(f, state, ops, Len(ops)),
         NEW i \in 0 .. Len(ops)
  PROVE  Represents(f[i], before \o SubSeq(ops, 1, i))
<1>. DEFINE Upto(m) == before \o SubSeq(ops, 1, m)
            S == {m \in Nat : m <= Len(ops) => Represents(f[m], Upto(m))}
<1>1. Len(ops) \in Nat
  OBVIOUS
<1>2. f[0] = state /\ \A m \in 1 .. Len(ops) :
          f[m] = ApplyRowOperation(f[m - 1], ops[m])
  BY <1>1, ReplayParts DEF StepByStep
<1>3. 0 \in S
  <2>1. SubSeq(ops, 1, 0) = <<>>
    BY <1>1, SubSeqProperties
  <2>2. Upto(0) = before
    BY <2>1, ConcatEmptySeq
  <2>. QED
    BY <1>2, <2>2
<1>4. ASSUME NEW m \in Nat, m \in S PROVE m + 1 \in S
  <2>1. SUFFICES ASSUME m + 1 <= Len(ops)
                 PROVE  Represents(f[m + 1], Upto(m + 1))
    OBVIOUS
  <2>2. /\ m \in 0 .. Len(ops) - 1 /\ m + 1 \in 1 .. Len(ops)
        /\ m <= Len(ops) /\ (m + 1) - 1 = m
    BY <1>1, <2>1
  <2>3. Represents(f[m], Upto(m))
    BY <1>4, <2>2
  <2>4. /\ Upto(m) \in Seq(RowOps)
        /\ Upto(m + 1) = Append(Upto(m), ops[m + 1])
    BY <2>2, FollowedBy
  <2>5. f[m + 1] = ApplyRowOperation(f[m], ops[m + 1])
    BY <1>2, <2>2
  <2>6. ops[m + 1] \in RowOps
    BY <2>2
  <2>. HIDE DEF Upto
  <2>. QED
    BY <2>3, <2>4, <2>5, <2>6, ApplyRepresents
<1>. HIDE DEF S
<1>5. i \in Nat /\ i <= Len(ops)
  BY <1>1
<1>6. i \in S
  BY <1>3, <1>4, <1>5, SetInduction
<1>. QED
  BY <1>5, <1>6 DEF S

\* The optimistic view is the outbox replayed on the confirmed state.
LEMMA OptimisticReplays ==
  ASSUME NEW c \in Clients, Len(outbox[c]) \in Nat
  PROVE  \E f : /\ ReplaysTo(f, canonical[c], outbox[c], Len(outbox[c]))
                /\ ReadOptimisticState(c) = f[Len(outbox[c])]
<1>1. PICK n \in Nat : n = Len(outbox[c])
  OBVIOUS
<1>2. PICK applied :
         applied = CHOOSE f : f = [i \in 0 .. n |->
                      IF i = 0 THEN canonical[c]
                      ELSE ApplyRowOperation(f[i - 1], outbox[c][i])]
  OBVIOUS
<1>3. \E f : f = [i \in 0 .. n |->
                     IF i = 0 THEN canonical[c]
                     ELSE ApplyRowOperation(f[i - 1], outbox[c][i])]
  <2>1. PICK f : ReplaysTo(f, canonical[c], outbox[c], n)
    BY ReplayExists
  <2>. QED
    BY <2>1, Zenon DEF ReplaysTo
<1>4. ReplaysTo(applied, canonical[c], outbox[c], n)
  BY <1>2, <1>3, Zenon DEF ReplaysTo
<1>5. ReadOptimisticState(c) = applied[n]
  BY <1>1, <1>2, Zenon DEF ReadOptimisticState
<1>. QED
  BY <1>1, <1>4, <1>5

-----------------------------------------------------------------------------
(* The invariant. *)

\* What the log is a sequence of.
Entry == [client : Clients, operation : RowOps]

\* The types, and a client is not ahead of the log.
RowTypes ==
    /\ log \in Seq(Entry)
    /\ outbox \in [Clients -> Seq(RowOps)]
    /\ sent \in [Clients -> Nat]
    /\ confirmed \in [Clients -> Nat]
    /\ DOMAIN canonical = Clients
    /\ \A c \in Clients : confirmed[c] <= Len(log) /\ sent[c] <= Len(outbox[c])

\* The entries of a client that it has not confirmed.
Owed(c) == {i \in 1 .. Len(log) : confirmed[c] < i /\ log[i].client = c}

\* They are as many as it has sent.
SentOwed == \A c \in Clients : Cardinality(Owed(c)) = sent[c]

\* The authority and the clients are at points of one history.
Replayed ==
    \E h : /\ ReplaysTo(h, InitialState, Operations(log), Len(log))
           /\ tables = h[Len(log)]
           /\ \A c \in Clients : canonical[c] = h[confirmed[c]]

\* The inductive invariant of the rows.
RowIInv == RowTypes /\ SentOwed /\ Replayed

\* The operations of the log.
LEMMA OperationsParts ==
  ASSUME NEW entries \in Seq(Entry)
  PROVE  /\ Operations(entries) \in Seq(RowOps)
         /\ Len(Operations(entries)) = Len(entries)
         /\ \A i \in 1 .. Len(entries) :
                Operations(entries)[i] = entries[i].operation
<1>1. PICK n \in Nat : n = Len(entries) /\ DOMAIN entries = 1 .. n
  OBVIOUS
<1>2. \A i \in 1 .. n : entries[i].operation \in RowOps
  <2>1. \A i \in 1 .. n : entries[i] \in Entry
    BY <1>1, ElementOfSeq
  <2>. QED
    BY <2>1 DEF Entry
<1>3. PICK ops : ops = Operations(entries)
  OBVIOUS
<1>4. ops = [i \in 1 .. n |-> entries[i].operation]
  BY <1>1, <1>3 DEF Operations
<1>5. ops \in Seq(RowOps) /\ Len(ops) = n
  BY <1>2, <1>4
<1>. QED
  BY <1>1, <1>3, <1>4, <1>5

\* Owed entries can be counted.
LEMMA OwedFinite ==
  ASSUME Len(log) \in Nat, NEW c
  PROVE  IsFiniteSet(Owed(c))
<1>1. IsFiniteSet(1 .. Len(log))
  BY FS_Interval
<1>2. Owed(c) \subseteq 1 .. Len(log)
  BY DEF Owed
<1>. QED
  BY <1>1, <1>2, FS_Subset

\* Nothing was enqueued, committed or confirmed at first.
LEMMA RowInitInv == RowInit => RowIInv
<1>. SUFFICES ASSUME RowInit PROVE RowIInv
  OBVIOUS
<1>1. /\ log = <<>> /\ Len(log) = 0 /\ log \in Seq(Entry)
      /\ \A c \in Clients : outbox[c] = <<>> /\ sent[c] = 0 /\ confirmed[c] = 0
  BY DEF RowInit
<1>2. RowTypes
  <2>1. <<>> \in Seq(RowOps) /\ Len(<<>>) = 0
    OBVIOUS
  <2>. QED
    BY <1>1, <2>1 DEF RowInit, RowTypes
<1>3. SentOwed
  <2>1. ASSUME NEW c \in Clients PROVE Owed(c) = {}
    BY <1>1 DEF Owed
  <2>. QED
    BY <1>1, <2>1, FS_EmptySet DEF SentOwed
<1>4. Replayed
  <2>1. PICK h : ReplaysTo(h, InitialState, Operations(log), 0)
    BY ReplayExists
  <2>2. h[0] = InitialState
    BY <2>1, ReplayParts DEF StepByStep
  <2>3. tables = h[0] /\ \A c \in Clients : canonical[c] = h[confirmed[c]]
    BY <1>1, <2>2 DEF RowInit
  <2>. QED
    BY <1>1, <2>1, <2>3 DEF Replayed
<1>. QED
  BY <1>2, <1>3, <1>4 DEF RowIInv

\* enqueue appends what is normal to an outbox.
LEMMA EnqueueRowInv ==
  ASSUME RowIInv, NEW c \in Clients, NEW draft \in Drafts, Enqueue(c, draft)
  PROVE  RowIInv'
<1>1. UNCHANGED <<log, tables, stored, sent, confirmed, canonical>>
  BY DEF Enqueue
<1>2. PICK op \in RowOps : outbox' = [outbox EXCEPT ![c] = Append(outbox[c], op)]
  BY DEF Enqueue, Normalized, RowOps
<1>3. /\ Append(outbox[c], op) \in Seq(RowOps)
      /\ Len(Append(outbox[c], op)) = Len(outbox[c]) + 1 /\ Len(outbox[c]) \in Nat
  BY AppendProperties DEF RowIInv, RowTypes
<1>4. RowTypes'
  <2>1. outbox' \in [Clients -> Seq(RowOps)]
    BY <1>2, <1>3 DEF RowIInv, RowTypes
  <2>2. \A d \in Clients : sent[d] <= Len(outbox'[d])
    BY <1>2, <1>3 DEF RowIInv, RowTypes
  <2>. QED
    BY <1>1, <2>1, <2>2 DEF RowIInv, RowTypes
<1>5. SentOwed'
  BY <1>1 DEF RowIInv, SentOwed, Owed
<1>6. Replayed'
  BY <1>1 DEF RowIInv, Replayed
<1>. QED
  BY <1>4, <1>5, <1>6 DEF RowIInv

\* What can be sent is next in the outbox, and it is taken.
LEMMA SendableParts ==
  ASSUME RowTypes, NEW c \in Clients, Sendable(c)
  PROVE  /\ sent[c] + 1 \in 1 .. Len(outbox[c])
         /\ Taken(outbox[c][sent[c] + 1])
<1>1. sent[c] \in Nat /\ outbox[c] \in Seq(RowOps)
  BY DEF RowTypes
<1>2. PICK i \in DOMAIN outbox[c] : sent[c] < i /\ i <= sent[c] + RequestLimit
  BY DEF Sendable, InRequest
<1>3. DOMAIN outbox[c] = 1 .. Len(outbox[c]) /\ Len(outbox[c]) \in Nat
  BY <1>1, LenProperties
<1>4. sent[c] + 1 \in 1 .. Len(outbox[c]) /\ sent[c] < sent[c] + 1
      /\ sent[c] + 1 <= sent[c] + RequestLimit
  BY <1>1, <1>2, <1>3, RequestLimitAssumption
<1>5. sent[c] + 1 \in InRequest(c)
  BY <1>3, <1>4 DEF InRequest
<1>. QED
  BY <1>4, <1>5 DEF Sendable, RequestRefused

\* What is committed is what the client sent.
LEMMA CommitParts ==
  ASSUME RowTypes, NEW c \in Clients, Commit(c)
  PROVE  \E op \in RowOps :
            /\ log' = Append(log, [client |-> c, operation |-> op])
            /\ tables' = ApplyRowOperation(tables, op)
            /\ stored' = ProjectRowOperation(stored, op)
            /\ TableTakes(op)
<1>1. PICK op : op = outbox[c][sent[c] + 1]
  OBVIOUS
<1>2. sent[c] + 1 \in 1 .. Len(outbox[c]) /\ outbox[c] \in Seq(RowOps)
  BY SendableParts DEF Commit, RowTypes
<1>3. op \in RowOps
  BY <1>1, <1>2, ElementOfSeq
<1>4. NormalizeRowOperation(op) = op
  BY <1>3, RowOpParts
<1>. QED
  BY <1>1, <1>3, <1>4, SendableParts DEF Commit, Taken

\* A commit is one step more of the history, for the client at its end.
LEMMA CommitRowInv ==
  ASSUME RowIInv, NEW c \in Clients, Commit(c)
  PROVE  RowIInv'
<1>1. RowTypes
  BY DEF RowIInv
<1>2. PICK op \in RowOps :
         /\ log' = Append(log, [client |-> c, operation |-> op])
         /\ tables' = ApplyRowOperation(tables, op)
  BY <1>1, CommitParts
<1>3. /\ UNCHANGED <<outbox, confirmed, canonical>>
      /\ sent[c] < Len(outbox[c])
      /\ sent' = [sent EXCEPT ![c] = sent[c] + 1]
  <2>1. sent[c] \in Nat /\ Len(outbox[c]) \in Nat /\ sent[c] + 1 <= Len(outbox[c])
    BY <1>1, SendableParts DEF Commit, RowTypes
  <2>. QED
    BY <2>1 DEF Commit
<1>4. PICK n \in Nat : n = Len(log)
  BY <1>1 DEF RowTypes
<1>5. PICK entry \in Entry : entry = [client |-> c, operation |-> op]
  BY DEF Entry
<1>6. /\ log' \in Seq(Entry) /\ Len(log') = n + 1
      /\ log'[n + 1] = entry /\ \A i \in 1 .. n : log'[i] = log[i]
  BY <1>1, <1>2, <1>4, <1>5, AppendProperties DEF RowTypes
<1>7. \A d \in Clients : /\ confirmed[d] \in Nat /\ confirmed[d] <= n
                         /\ sent[d] \in Nat /\ Len(outbox[d]) \in Nat
  BY <1>1, <1>4 DEF RowTypes
<1>8. RowTypes'
  BY <1>1, <1>3, <1>4, <1>6, <1>7 DEF RowTypes
<1>9. SentOwed'
  <2>1. ASSUME NEW d \in Clients PROVE Cardinality(Owed(d)') = sent'[d]
    <3>1. Cardinality(Owed(d)) = sent[d] /\ IsFiniteSet(Owed(d))
      BY <1>4, OwedFinite DEF RowIInv, SentOwed
    <3>2. Owed(d)' = {i \in 1 .. n + 1 : confirmed[d] < i /\ log'[i].client = d}
      BY <1>3, <1>6 DEF Owed
    <3>3. Owed(d) = {i \in 1 .. n : confirmed[d] < i /\ log'[i].client = d}
      BY <1>4, <1>6 DEF Owed
    <3>4. CASE d = c
      <4>1. log'[n + 1].client = d /\ confirmed[d] < n + 1
        BY <1>5, <1>6, <1>7, <3>4
      <4>2. Owed(d)' = Owed(d) \union {n + 1} /\ n + 1 \notin Owed(d)
        BY <3>2, <3>3, <4>1
      <4>3. Cardinality(Owed(d) \union {n + 1}) = Cardinality(Owed(d)) + 1
        BY <3>1, <4>2, FS_AddElement
      <4>. QED
        BY <1>1, <1>3, <3>1, <3>4, <4>2, <4>3 DEF RowTypes
    <3>5. CASE d # c
      <4>1. log'[n + 1].client # d
        BY <1>5, <1>6, <3>5
      <4>2. Owed(d)' = Owed(d)
        BY <3>2, <3>3, <4>1
      <4>. QED
        BY <1>1, <1>3, <3>1, <3>5, <4>2 DEF RowTypes
    <3>. QED
      BY <3>4, <3>5
  <2>. QED
    BY <2>1 DEF SentOwed
<1>10. Replayed'
  <2>1. PICK h : /\ ReplaysTo(h, InitialState, Operations(log), n)
                 /\ tables = h[n]
                 /\ \A d \in Clients : canonical[d] = h[confirmed[d]]
    BY <1>4 DEF RowIInv, Replayed
  <2>2. PICK more : more = Operations(log')
    OBVIOUS
  <2>3. /\ \A i \in 1 .. n : Operations(log)[i] = log[i].operation
        /\ \A i \in 1 .. n + 1 : more[i] = log'[i].operation
    BY <1>1, <1>4, <1>6, <2>2, OperationsParts DEF RowTypes
  <2>4. more[n + 1] = op /\ \A i \in 1 .. n : more[i] = Operations(log)[i]
    BY <1>5, <1>6, <2>3
  <2>5. PICK g : /\ ReplaysTo(g, InitialState, more, n + 1)
                 /\ \A i \in 0 .. n : g[i] = h[i]
                 /\ g[n + 1] = ApplyRowOperation(h[n], more[n + 1])
    BY <2>1, <2>4, ReplayMore
  <2>6. tables' = g[n + 1]
    BY <1>2, <2>1, <2>4, <2>5
  <2>7. \A d \in Clients : canonical'[d] = g[confirmed'[d]]
    BY <1>3, <1>7, <2>1, <2>5
  <2>. QED
    BY <1>6, <2>2, <2>5, <2>6, <2>7 DEF Replayed
<1>. QED
  BY <1>8, <1>9, <1>10 DEF RowIInv

\* Confirming moves a client to the next point of the history, and what it
\* confirms of its own is the first of its outbox.
LEMMA ConfirmRowInv ==
  ASSUME RowIInv, NEW c \in Clients, Confirm(c)
  PROVE  RowIInv'
<1>1. RowTypes
  BY DEF RowIInv
<1>2. PICK n \in Nat : n = Len(log)
  BY <1>1 DEF RowTypes
<1>3. PICK m \in Nat : m = confirmed[c] /\ m < n
  BY <1>1, <1>2 DEF RowTypes, Confirm, Confirmable
<1>4. PICK entry \in Entry : entry = log[m + 1]
  BY <1>1, <1>2, <1>3, ElementOfSeq DEF RowTypes
<1>. DEFINE own == entry.client = c
<1>6. /\ UNCHANGED <<log, tables, stored>>
      /\ canonical' = [canonical EXCEPT ![c] =
                          ApplyRowOperation(canonical[c], entry.operation)]
      /\ outbox' = [outbox EXCEPT ![c] = IF own THEN Tail(outbox[c]) ELSE outbox[c]]
      /\ sent' = [sent EXCEPT ![c] = IF own THEN sent[c] - 1 ELSE sent[c]]
      /\ confirmed' = [confirmed EXCEPT ![c] = m + 1]
  BY <1>3, <1>4 DEF Confirm
<1>7. \A d \in Clients : /\ confirmed[d] \in Nat /\ confirmed[d] <= n
                         /\ sent[d] \in Nat /\ Len(outbox[d]) \in Nat
                         /\ sent[d] <= Len(outbox[d])
                         /\ Cardinality(Owed(d)) = sent[d]
                         /\ IsFiniteSet(Owed(d))
  BY <1>1, <1>2, OwedFinite DEF RowTypes, RowIInv, SentOwed
<1>8. /\ own => /\ m + 1 \in Owed(c) /\ Owed(c)' = Owed(c) \ {m + 1}
      /\ ~ own => Owed(c)' = Owed(c)
  <2>1. confirmed'[c] = m + 1
    BY <1>1, <1>6 DEF RowTypes
  <2>2. Owed(c) = {i \in 1 .. n : m < i /\ log[i].client = c}
    BY <1>2, <1>3 DEF Owed
  <2>3. Owed(c)' = {i \in 1 .. n : m + 1 < i /\ log[i].client = c}
    BY <1>2, <1>6, <2>1 DEF Owed
  <2>4. m + 1 \in 1 .. n
    BY <1>3
  <2>5. \A i \in 1 .. n : m < i <=> m + 1 < i \/ i = m + 1
    BY <1>3
  <2>6. CASE own
    BY <1>3, <1>4, <2>2, <2>3, <2>4, <2>5, <2>6
  <2>7. CASE ~ own
    <3>1. \A i \in 1 .. n : log[i].client = c => i # m + 1
      BY <1>4, <2>7
    <3>. QED
      BY <2>2, <2>3, <2>5, <2>7, <3>1
  <2>. QED
    BY <2>6, <2>7
<1>9. own => Cardinality(Owed(c)') = sent[c] - 1 /\ sent[c] >= 1
  <2>1. SUFFICES ASSUME own
                 PROVE  Cardinality(Owed(c)') = sent[c] - 1 /\ sent[c] >= 1
    OBVIOUS
  <2>2. PICK owed : owed = Owed(c)
    OBVIOUS
  <2>3. PICK left : left = Owed(c)'
    OBVIOUS
  <2>4. /\ m + 1 \in owed /\ left = owed \ {m + 1}
        /\ IsFiniteSet(owed) /\ Cardinality(owed) = sent[c] /\ sent[c] \in Nat
    BY <1>7, <1>8, <2>1, <2>2, <2>3
  <2>5. Cardinality(left) = Cardinality(owed) - 1
    BY <2>4, FS_RemoveElement
  <2>6. Cardinality(owed) # 0
    BY <2>4, FS_EmptySet
  <2>. QED
    BY <2>3, <2>4, <2>5, <2>6
<1>10. own => /\ Tail(outbox[c]) \in Seq(RowOps)
              /\ Len(Tail(outbox[c])) = Len(outbox[c]) - 1
  BY <1>1, <1>7, <1>9, HeadTailProperties, EmptySeq DEF RowTypes
<1>11. RowTypes'
  <2>1. outbox' \in [Clients -> Seq(RowOps)]
    BY <1>1, <1>6, <1>10 DEF RowTypes
  <2>2. sent' \in [Clients -> Nat]
    BY <1>1, <1>6, <1>7, <1>9 DEF RowTypes
  <2>3. confirmed' \in [Clients -> Nat] /\ DOMAIN canonical' = Clients
    BY <1>1, <1>6 DEF RowTypes
  <2>4. \A d \in Clients : confirmed'[d] <= n
    BY <1>1, <1>3, <1>6, <1>7 DEF RowTypes
  <2>5. \A d \in Clients : sent'[d] <= Len(outbox'[d])
    BY <1>1, <1>6, <1>7, <1>9, <1>10 DEF RowTypes
  <2>. QED
    BY <1>1, <1>2, <1>6, <2>1, <2>2, <2>3, <2>4, <2>5 DEF RowTypes
<1>12. SentOwed'
  <2>1. ASSUME NEW d \in Clients PROVE Cardinality(Owed(d)') = sent'[d]
    <3>1. CASE d = c
      BY <1>1, <1>6, <1>7, <1>8, <1>9, <3>1 DEF RowTypes
    <3>2. CASE d # c
      <4>1. Owed(d)' = Owed(d) /\ sent'[d] = sent[d]
        BY <1>1, <1>6, <3>2 DEF Owed, RowTypes
      <4>. QED
        BY <1>7, <4>1
    <3>. QED
      BY <3>1, <3>2
  <2>. QED
    BY <2>1 DEF SentOwed
<1>13. Replayed'
  <2>1. PICK h : /\ ReplaysTo(h, InitialState, Operations(log), n)
                 /\ tables = h[n]
                 /\ \A d \in Clients : canonical[d] = h[confirmed[d]]
    BY <1>2 DEF RowIInv, Replayed
  <2>2. Operations(log)[m + 1] = entry.operation
    BY <1>1, <1>2, <1>3, <1>4, OperationsParts DEF RowTypes
  <2>3. h[m + 1] = ApplyRowOperation(h[m], entry.operation)
    <3>1. \A i \in 1 .. n :
             h[i] = ApplyRowOperation(h[i - 1], Operations(log)[i])
      BY <2>1, ReplayParts DEF StepByStep
    <3>2. m + 1 \in 1 .. n /\ (m + 1) - 1 = m
      BY <1>3
    <3>. QED
      BY <2>2, <3>1, <3>2
  <2>4. \A d \in Clients : canonical'[d] = h[confirmed'[d]]
    BY <1>1, <1>3, <1>6, <2>1, <2>3 DEF RowTypes
  <2>. QED
    BY <1>2, <1>6, <2>1, <2>4 DEF Replayed
<1>. QED
  BY <1>11, <1>12, <1>13 DEF RowIInv

\* RowIInv is kept by every step.
LEMMA RowStepInv == RowIInv /\ [RowNext]_rowVars => RowIInv'
<1>. SUFFICES ASSUME RowIInv, [RowNext]_rowVars PROVE RowIInv'
  OBVIOUS
<1>1. ASSUME NEW c \in Clients, NEW draft \in Drafts, Enqueue(c, draft)
      PROVE  RowIInv'
  BY <1>1, EnqueueRowInv
<1>2. ASSUME NEW c \in Clients, Commit(c) PROVE RowIInv'
  BY <1>2, CommitRowInv
<1>3. ASSUME NEW c \in Clients, Confirm(c) PROVE RowIInv'
  BY <1>3, ConfirmRowInv
<1>4. CASE UNCHANGED rowVars
  BY <1>4 DEF rowVars, RowIInv, RowTypes, SentOwed, Owed, Replayed
<1>. QED
  BY <1>1, <1>2, <1>3, <1>4 DEF RowNext

\* The authority's tables, each client's and each client's view are true of the
\* operations they come from.
LEMMA StatesRepresent ==
  ASSUME RowIInv
  PROVE  /\ Represents(tables, Operations(log))
         /\ Operations(log) \in Seq(RowOps)
         /\ \A c \in Clients :
               /\ Represents(canonical[c], Prefix(c))
               /\ Prefix(c) \in Seq(RowOps)
               /\ Represents(ReadOptimisticState(c), Prefix(c) \o outbox[c])
               /\ outbox[c] \in Seq(RowOps)
               /\ outbox[c] = <<>> => ReadOptimisticState(c) = canonical[c]
               /\ confirmed[c] = Len(log) => canonical[c] = tables
<1>1. RowTypes
  BY DEF RowIInv
<1>2. PICK n \in Nat : n = Len(log)
  BY <1>1 DEF RowTypes
<1>3. PICK ops \in Seq(RowOps) :
         /\ ops = Operations(log) /\ Len(ops) = n
         /\ \A i \in 1 .. n : ops[i] = log[i].operation
  BY <1>1, <1>2, OperationsParts DEF RowTypes
<1>4. PICK h : /\ ReplaysTo(h, InitialState, ops, n)
               /\ tables = h[n]
               /\ \A c \in Clients : canonical[c] = h[confirmed[c]]
  BY <1>2, <1>3 DEF RowIInv, Replayed
<1>5. ASSUME NEW i \in 0 .. n PROVE Represents(h[i], SubSeq(ops, 1, i))
  <2>1. <<>> \in Seq(RowOps)
    OBVIOUS
  <2>2. Represents(h[i], <<>> \o SubSeq(ops, 1, i))
    BY <1>3, <1>4, <2>1, InitialRepresents, ReplayRepresents
  <2>3. SubSeq(ops, 1, i) \in Seq(RowOps)
    BY <1>3, SubSeqProperties, ElementOfSeq
  <2>4. <<>> \o SubSeq(ops, 1, i) = SubSeq(ops, 1, i)
    BY <2>3, ConcatEmptySeq
  <2>. QED
    BY <2>2, <2>4
<1>6. Represents(tables, ops)
  <2>1. SubSeq(ops, 1, n) = ops
    BY <1>3, SubSeqFull
  <2>2. n \in 0 .. n
    OBVIOUS
  <2>. QED
    BY <1>4, <1>5, <2>1, <2>2
<1>7. ASSUME NEW c \in Clients
      PROVE  Represents(canonical[c], Prefix(c)) /\ Prefix(c) \in Seq(RowOps)
  <2>1. PICK i \in 0 .. n : i = confirmed[c]
    BY <1>1, <1>2 DEF RowTypes
  <2>2. PICK part : part = SubSeq(log, 1, i)
    OBVIOUS
  <2>3. /\ part \in Seq(Entry) /\ Len(part) = i
        /\ \A k \in 1 .. i : part[k] = log[k]
    BY <1>1, <1>2, <2>1, <2>2, SubSeqProperties, ElementOfSeq DEF RowTypes
  <2>4. PICK first : first = Operations(part)
    OBVIOUS
  <2>5. /\ first \in Seq(RowOps) /\ Len(first) = i
        /\ \A k \in 1 .. i : first[k] = part[k].operation
    BY <2>3, <2>4, OperationsParts
  <2>6. PICK short : short = SubSeq(ops, 1, i)
    OBVIOUS
  <2>7. /\ short \in Seq(RowOps) /\ Len(short) = i
        /\ \A k \in 1 .. i : short[k] = ops[k]
    BY <1>3, <2>1, <2>6, SubSeqProperties, ElementOfSeq
  <2>8. \A k \in 1 .. i : first[k] = short[k]
    BY <1>3, <2>3, <2>5, <2>7
  <2>9. first = short
    BY <2>5, <2>7, <2>8, SeqEqual
  <2>10. Prefix(c) = first
    BY <2>1, <2>2, <2>4 DEF Prefix
  <2>. QED
    BY <1>4, <1>5, <2>1, <2>6, <2>7, <2>9, <2>10
<1>8. ASSUME NEW c \in Clients
      PROVE  Represents(ReadOptimisticState(c), Prefix(c) \o outbox[c])
  <2>1. PICK rest \in Seq(RowOps) : rest = outbox[c]
    BY <1>1 DEF RowTypes
  <2>2. PICK m \in Nat : m = Len(rest)
    BY <2>1
  <2>3. PICK f : /\ ReplaysTo(f, canonical[c], rest, m)
                 /\ ReadOptimisticState(c) = f[m]
    BY <2>1, <2>2, OptimisticReplays
  <2>4. Represents(f[m], Prefix(c) \o SubSeq(rest, 1, m))
    BY <1>7, <2>2, <2>3, ReplayRepresents
  <2>5. SubSeq(rest, 1, m) = rest
    BY <2>2, SubSeqFull
  <2>. QED
    BY <2>1, <2>3, <2>4, <2>5
<1>9. ASSUME NEW c \in Clients, outbox[c] = <<>>
      PROVE  ReadOptimisticState(c) = canonical[c]
  <2>1. Len(outbox[c]) = 0
    BY <1>9
  <2>2. PICK f : /\ ReplaysTo(f, canonical[c], outbox[c], 0)
                 /\ ReadOptimisticState(c) = f[0]
    BY <2>1, OptimisticReplays
  <2>. QED
    BY <2>2, ReplayParts DEF StepByStep
<1>10. ASSUME NEW c \in Clients, confirmed[c] = Len(log)
       PROVE  canonical[c] = tables
  BY <1>2, <1>4, <1>10
<1>11. \A c \in Clients : outbox[c] \in Seq(RowOps)
  BY <1>1 DEF RowTypes
<1>. QED
  BY <1>3, <1>6, <1>7, <1>8, <1>9, <1>10, <1>11

\* The rows of such a state fit their table.
LEMMA RepresentsFits ==
  ASSUME NEW ops \in Seq(RowOps), NEW state, Represents(state, ops),
         NEW t \in DOMAIN Schema, NEW row \in ReadTableRows(state, t)
  PROVE  RowFits(t, row) /\ row = [c \in DOMAIN row |-> row[c]]
<1>1. PICK k \in DOMAIN state[t] : row = state[t][k]
  BY DEF ReadTableRows
<1>2. PICK i \in DOMAIN ops : LastPut(ops, t, i) /\ state[t][k] = ops[i].row
  BY DEF Represents
<1>3. ops[i] \in RowOps /\ IsPut(ops[i]) /\ ops[i].table = t /\ row = ops[i].row
  BY <1>1, <1>2, OpsParts DEF LastPut
<1>. QED
  BY <1>3, RowOpParts

\* RowIInv implies what the runs check.
LEMMA RowTypesHold == RowIInv => RowTypeOK
<1>. SUFFICES ASSUME RowIInv PROVE RowTypeOK
  OBVIOUS
<1>1. \A c \in Clients : /\ sent[c] \in 0 .. Len(outbox[c])
                         /\ confirmed[c] \in 0 .. Len(log)
  BY DEF RowIInv, RowTypes
<1>2. ASSUME NEW t \in DOMAIN Schema
      PROVE  /\ \A row \in ReadTableRows(tables, t) : RowFits(t, row)
             /\ \A c \in Clients :
                   \A row \in ReadTableRows(canonical[c], t) : RowFits(t, row)
  BY StatesRepresent, RepresentsFits
<1>. QED
  BY <1>1, <1>2 DEF RowTypeOK

\* Every operation kept or logged is one in its travelling form.
LEMMA NormalFormHolds == RowIInv => NormalForm
<1>. SUFFICES ASSUME RowIInv PROVE NormalForm
  OBVIOUS
<1>1. /\ Operations(log) \in Seq(RowOps)
      /\ \A c \in Clients : outbox[c] \in Seq(RowOps)
  BY StatesRepresent
<1>2. ASSUME NEW ops \in Seq(RowOps), NEW op \in ToSet(ops) PROVE op \in RowOps
  BY DEF ToSet
<1>3. \A op \in ToSet(Operations(log)) \union UNION {ToSet(outbox[c]) : c \in Clients} :
          op \in RowOps
  BY <1>1, <1>2
<1>. QED
  BY <1>3, RowOpParts DEF NormalForm

\* Every state is true of its operations, so it reads as they say.
LEMMA LastWriteHolds == RowIInv => LastWriteWins
<1>. SUFFICES ASSUME RowIInv PROVE LastWriteWins
  OBVIOUS
<1>1. ReadsLast(tables, Operations(log))
  BY StatesRepresent, RepresentsReads
<1>2. ASSUME NEW c \in Clients
      PROVE  /\ ReadsLast(canonical[c], Prefix(c))
             /\ ReadsLast(ReadOptimisticState(c), Prefix(c) \o outbox[c])
  <2>1. Prefix(c) \o outbox[c] \in Seq(RowOps)
    BY StatesRepresent, ConcatProperties
  <2>. QED
    BY <2>1, StatesRepresent, RepresentsReads
<1>. QED
  BY <1>1, <1>2 DEF LastWriteWins

\* Nothing blocks a request but the application's table, so a client that it does not
\* block and that cannot go on has confirmed everything; then nothing is owed, so
\* nothing was sent that is not back, and what is first in an outbox could be sent.
LEMMA QuiescentHolds == RowIInv => QuiescentEqual
<1>. SUFFICES ASSUME RowIInv, NEW c \in Clients, ~ Sendable(c), ~ Confirmable(c),
                     \A i \in InRequest(c) : TableTakes(outbox[c][i])
              PROVE  outbox[c] = <<>> /\ ReadOptimisticState(c) = tables
  BY DEF QuiescentEqual
<1>1. /\ outbox[c] \in Seq(RowOps) /\ sent[c] \in Nat /\ Len(log) \in Nat
      /\ confirmed[c] \in Nat /\ confirmed[c] <= Len(log)
      /\ sent[c] <= Len(outbox[c])
  BY DEF RowIInv, RowTypes
<1>2. ~ RequestRefused(c)
  <2>1. SUFFICES ASSUME NEW i \in InRequest(c) PROVE Taken(outbox[c][i])
    BY DEF RequestRefused
  <2>2. PICK op \in RowOps : op = outbox[c][i]
    <3>1. i \in 1 .. Len(outbox[c])
      BY <1>1, LenProperties DEF InRequest
    <3>. QED
      BY <1>1, <3>1, ElementOfSeq
  <2>3. NormalizeRowOperation(op) = op /\ op # Invalid
    BY <2>2, RowOpParts
  <2>4. TableTakes(op)
    BY <2>2
  <2>. QED
    BY <2>2, <2>3, <2>4 DEF Taken
<1>3. confirmed[c] = Len(log)
  BY <1>1, <1>2 DEF Confirmable
<1>4. sent[c] = 0
  <2>1. Owed(c) = {}
    BY <1>1, <1>3 DEF Owed
  <2>2. Cardinality(Owed(c)) = sent[c]
    BY DEF RowIInv, SentOwed
  <2>. QED
    BY <2>1, <2>2, FS_EmptySet
<1>5. outbox[c] = <<>>
  <2>1. SUFFICES ASSUME outbox[c] # <<>> PROVE FALSE
    OBVIOUS
  <2>2. 1 \in DOMAIN outbox[c]
    BY <1>1, <2>1, EmptySeq, LenProperties
  <2>3. 1 \in InRequest(c)
    BY <1>4, <2>2, RequestLimitAssumption DEF InRequest
  <2>. QED
    BY <1>2, <2>3 DEF Sendable
<1>. QED
  BY <1>3, <1>5, StatesRepresent

\* For any schema and any drafts, the rows and the counts are of their types and
\* an operation is the same in every layer.
THEOREM RowsTyped == RowSpec => [](RowTypeOK /\ NormalForm)
<1>1. RowIInv => RowTypeOK /\ NormalForm
  BY RowTypesHold, NormalFormHolds
<1>. QED
  BY <1>1, RowInitInv, RowStepInv, PTL DEF RowSpec

\* Every reader sees of every row what the last operation about it made it.
THEOREM ReadersSeeLast == RowSpec => []LastWriteWins
BY RowInitInv, RowStepInv, LastWriteHolds, PTL DEF RowSpec

\* For any schema and any drafts, nothing that one layer takes is refused by another:
\* a client that can neither send nor learn anything reads what the authority has, but
\* for a request that holds a row the application's table refuses.
THEOREM RowsInductive == RowSpec => []RowInv
<1>1. RowIInv => RowInv
  BY RowTypesHold, NormalFormHolds, QuiescentHolds DEF RowInv
<1>. QED
  BY <1>1, RowInitInv, RowStepInv, PTL DEF RowSpec

-----------------------------------------------------------------------------
(* The application's tables. *)

\* They hold the rows of the authority's state, as they are.
TablesHold == /\ DOMAIN stored = DOMAIN Schema
              /\ \A t \in DOMAIN Schema : stored[t] = ReadTableRows(tables, t)

\* Projecting an operation does to the rows what applying it does to the state.
LEMMA ProjectionFollows ==
  ASSUME StoredAsGiven, NEW ops \in Seq(RowOps), NEW op \in RowOps,
         NEW state, Represents(state, ops),
         NEW db, DOMAIN db = DOMAIN Schema,
         \A t \in DOMAIN Schema : db[t] = ReadTableRows(state, t)
  PROVE  /\ DOMAIN ProjectRowOperation(db, op) = DOMAIN Schema
         /\ \A t \in DOMAIN Schema :
               ProjectRowOperation(db, op)[t] =
                   ReadTableRows(ApplyRowOperation(state, op), t)
<1>1. PICK new : new = ApplyRowOperation(state, op)
  OBVIOUS
<1>2. PICK after : after = ProjectRowOperation(db, op)
  OBVIOUS
<1>3. PICK t \in DOMAIN Schema : t = op.table
  BY RowOpParts
<1>4. AppliedTo(state, op, new)
  BY <1>1, AppliedParts DEF Represents
<1>5. /\ DOMAIN after = DOMAIN Schema
      /\ \A u \in DOMAIN Schema : u # t => after[u] = db[u]
      /\ IsPut(op) => after[t] = Upsert(db[t], t, op.row)
      /\ ~ IsPut(op) => after[t] = {r \in db[t] : KeyFromRow(t, r) # op.key}
  BY <1>2, <1>3, RowOpParts DEF ProjectRowOperation, StoredAsGiven, IsPut
<1>6. ASSUME NEW u \in DOMAIN Schema, u # t
      PROVE  after[u] = ReadTableRows(new, u)
  BY <1>3, <1>4, <1>5, <1>6 DEF AppliedTo, ReadTableRows
\* A row of the table has another key than the operation's just if its target is another.
<1>7. ASSUME NEW k \in DOMAIN state[t]
      PROVE  KeyFromRow(t, state[t][k]) # KeyOf(op) <=> k # Target(op)
  <2>1. PICK i \in DOMAIN ops :
           LastPut(ops, t, i) /\ Target(ops[i]) = k /\ state[t][k] = ops[i].row
    BY DEF Represents
  <2>2. ops[i] \in RowOps /\ IsPut(ops[i]) /\ ops[i].table = op.table
    BY <1>3, <2>1, OpsParts DEF LastPut
  <2>3. KeyOf(ops[i]) = KeyFromRow(t, state[t][k])
    BY <1>3, <2>1, <2>2 DEF KeyOf, IsPut
  <2>4. KeyOf(ops[i]) = KeyOf(op) <=> Target(ops[i]) = Target(op)
    BY <2>2, SameTarget
  <2>. QED
    BY <2>1, <2>3, <2>4
<1>8. {r \in db[t] : KeyFromRow(t, r) # KeyOf(op)} =
          {state[t][k] : k \in DOMAIN state[t] \ {Target(op)}}
  BY <1>7 DEF ReadTableRows
<1>9. CASE IsPut(op)
  <2>1. after[t] = {state[t][k] : k \in DOMAIN state[t] \ {Target(op)}} \union {op.row}
    BY <1>3, <1>5, <1>8, <1>9 DEF Upsert, KeyOf, IsPut
  <2>2. /\ DOMAIN new[t] = DOMAIN state[t] \union {Target(op)}
        /\ new[t][Target(op)] = op.row
        /\ \A k \in DOMAIN state[t] : k # Target(op) => new[t][k] = state[t][k]
    BY <1>3, <1>4, <1>9 DEF AppliedTo
  <2>3. after[t] = ReadTableRows(new, t)
    BY <2>1, <2>2 DEF ReadTableRows
  <2>. QED
    BY <1>1, <1>2, <1>5, <1>6, <2>3
<1>10. CASE ~ IsPut(op)
  <2>1. after[t] = {state[t][k] : k \in DOMAIN state[t] \ {Target(op)}}
    BY <1>5, <1>8, <1>10 DEF KeyOf, IsPut
  <2>2. /\ DOMAIN new[t] = DOMAIN state[t] \ {Target(op)}
        /\ \A k \in DOMAIN state[t] : k # Target(op) => new[t][k] = state[t][k]
    BY <1>3, <1>4, <1>10 DEF AppliedTo
  <2>3. after[t] = ReadTableRows(new, t)
    BY <2>1, <2>2 DEF ReadTableRows
  <2>. QED
    BY <1>1, <1>2, <1>5, <1>6, <2>3
<1>. QED
  BY <1>9, <1>10

\* Only a commit changes the tables, and it changes state and rows alike.
LEMMA TablesStep ==
  ASSUME StoredAsGiven, RowIInv, TablesHold, [RowNext]_rowVars
  PROVE  TablesHold'
<1>1. CASE UNCHANGED <<tables, stored>>
  BY <1>1 DEF TablesHold, ReadTableRows
<1>2. ASSUME NEW c \in Clients, Commit(c) PROVE TablesHold'
  <2>1. PICK op \in RowOps :
           /\ tables' = ApplyRowOperation(tables, op)
           /\ stored' = ProjectRowOperation(stored, op)
    BY <1>2, CommitParts DEF RowIInv
  <2>2. /\ DOMAIN stored' = DOMAIN Schema
        /\ \A t \in DOMAIN Schema : stored'[t] = ReadTableRows(tables', t)
    BY <2>1, StatesRepresent, ProjectionFollows DEF TablesHold
  <2>. QED
    BY <2>2 DEF TablesHold, ReadTableRows
<1>. QED
  BY <1>1, <1>2 DEF RowNext, rowVars, Enqueue, Confirm

\* Both are empty at first.
LEMMA TablesInit == RowInit => TablesHold
<1>. SUFFICES ASSUME RowInit PROVE TablesHold
  OBVIOUS
<1>1. \A t \in DOMAIN Schema : DOMAIN tables[t] = {} /\ stored[t] = {}
  <2>1. DOMAIN <<>> = {}
    OBVIOUS
  <2>. QED
    BY <2>1 DEF RowInit, InitialState
<1>. QED
  BY <1>1 DEF TablesHold, ReadTableRows, RowInit

\* A bootstrap reads back what was stored.
LEMMA ReadBack ==
  ASSUME NEW t \in DOMAIN Schema, NEW row, RowFits(t, row),
         row = [c \in DOMAIN row |-> row[c]]
  PROVE  BootstrapRow(t, row) = row
<1>1. \A c \in DOMAIN row : ToJsonColumnValue(Schema[t].columns[c], row[c]) = row[c]
  BY DEF RowFits, FitsColumn, ToJsonColumnValue
<1>. QED
  BY <1>1 DEF BootstrapRow

\* Read back, those rows are the rows of the state.
LEMMA TablesHeld == RowIInv /\ TablesHold => TablesHoldState
<1>. SUFFICES ASSUME RowIInv, TablesHold, NEW t \in DOMAIN Schema
              PROVE  {BootstrapRow(t, row) : row \in stored[t]} =
                         ReadTableRows(tables, t)
  BY DEF TablesHoldState
<1>1. stored[t] = ReadTableRows(tables, t)
  BY DEF TablesHold
<1>2. \A row \in stored[t] : BootstrapRow(t, row) = row
  BY <1>1, StatesRepresent, RepresentsFits, ReadBack
<1>. QED
  BY <1>1, <1>2

\* When SQLite stores what is bound as it is, the application's tables read back give
\* exactly the rows of the state.
THEOREM TablesReadBack == ASSUME StoredAsGiven PROVE RowSpec => []TablesHoldState
<1>1. RowInit => RowIInv /\ TablesHold
  BY RowInitInv, TablesInit
<1>2. RowIInv /\ TablesHold /\ [RowNext]_rowVars => (RowIInv /\ TablesHold)'
  BY RowStepInv, TablesStep
<1>. QED
  BY <1>1, <1>2, TablesHeld, PTL DEF RowSpec
=============================================================================
