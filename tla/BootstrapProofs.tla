--------------------------- MODULE BootstrapProofs ---------------------------
(***************************************************************************)
(* Overlapping bootstraps over changing tables, for any tables, keys,      *)
(* contents, runs, page sizes and numbers of changes: BootstrapInv is      *)
(* inductive, and a completed run has skipped no row that was never        *)
(* deleted.                                                                *)
(***************************************************************************)
EXTENDS BootstrapProperties, FiniteSetTheorems, FunctionTheorems,
        WellFoundedInduction, TLAPS

-----------------------------------------------------------------------------
(* Numbers in order. *)

\* A set of naturals has a least element.
LEMMA LeastNumber ==
  ASSUME NEW T \in SUBSET Nat, T # {}
  PROVE  \E x \in T : \A y \in T : x <= y
<1>1. PICK R : R = {ss \in Nat \X Nat : ss[1] < ss[2]}
  OBVIOUS
<1>2. IsWellFoundedOn(R, Nat)
  BY <1>1, NatLessThanWellFounded DEF OpToRel
<1>3. PICK x \in T : \A y \in T : <<y, x>> \notin R
  BY <1>2, WFMin
<1>4. \A y \in T : ~ (y < x)
  <2>1. SUFFICES ASSUME NEW y \in T, y < x PROVE FALSE
    OBVIOUS
  <2>2. <<y, x>> \in Nat \X Nat /\ <<y, x>>[1] = y /\ <<y, x>>[2] = x
    OBVIOUS
  <2>. QED
    BY <1>1, <1>3, <2>1, <2>2
<1>. QED
  BY <1>4

\* Min picks it.
LEMMA MinFacts ==
  ASSUME NEW T \in SUBSET Nat, T # {}
  PROVE  Min(T) \in T /\ \A y \in T : Min(T) <= y
<1>1. Min(T) = CHOOSE x \in T : \A y \in T : x <= y
  BY DEF Min
<1>. QED
  BY <1>1, LeastNumber

\* A bounded set of naturals has a greatest element.
LEMMA GreatestNumber ==
  ASSUME NEW bound \in Nat, NEW T \in SUBSET Nat, T # {}, \A x \in T : x <= bound
  PROVE  \E x \in T : \A y \in T : y <= x
<1>1. PICK U : U = {u \in Nat : \E x \in T : u + x = bound}
  OBVIOUS
<1>2. \A x \in T : bound - x \in Nat /\ (bound - x) + x = bound
  OBVIOUS
<1>3. \A x \in T : bound - x \in U
  BY <1>1, <1>2
<1>4. U \in SUBSET Nat /\ U # {}
  BY <1>1, <1>3
<1>5. PICK u \in U : \A v \in U : u <= v
  BY <1>4, LeastNumber
<1>6. PICK x \in T : u + x = bound
  BY <1>1
<1>7. \A y \in T : u <= bound - y
  BY <1>3, <1>5
<1>8. \A y \in T : y <= x
  BY <1>4, <1>6, <1>7
<1>. QED
  BY <1>8

\* The numbers before one of them grow by one with it.
LEMMA BeforeNext ==
  ASSUME NEW S \in SUBSET Nat, IsFiniteSet(S), NEW m \in S,
         NEW n \in Nat, \A j \in S : j < n <=> (j < m \/ j = m)
  PROVE  Before(S, n) = Before(S, m) + 1
<1>1. PICK B : B = {j \in S : j < m}
  OBVIOUS
<1>2. B \in SUBSET S /\ m \notin B
  BY <1>1
<1>3. IsFiniteSet(B)
  BY <1>2, FS_Subset
<1>4. {j \in S : j < n} = B \cup {m}
  BY <1>1
<1>5. Cardinality(B \cup {m}) = Cardinality(B) + 1
  BY <1>2, <1>3, FS_AddElement
<1>. QED
  BY <1>1, <1>4, <1>5 DEF Before

\* How many come before a number is a number of places at most.
LEMMA BeforeType ==
  ASSUME NEW S \in SUBSET Nat, IsFiniteSet(S), NEW n \in Nat
  PROVE  /\ Before(S, n) \in Nat /\ Before(S, n) <= Cardinality(S)
         /\ n \in S => Before(S, n) < Cardinality(S)
<1>1. PICK B : B = {j \in S : j < n}
  OBVIOUS
<1>2. B \in SUBSET S /\ n \notin B
  BY <1>1
<1>3. IsFiniteSet(B) /\ Cardinality(B) <= Cardinality(S)
      /\ (Cardinality(S) = Cardinality(B) => S = B)
  BY <1>2, FS_Subset
<1>4. Cardinality(B) \in Nat /\ Cardinality(S) \in Nat
  BY <1>3, FS_CardinalityType
<1>5. Before(S, n) = Cardinality(B)
  BY <1>1 DEF Before
<1>6. n \in S => Cardinality(S) # Cardinality(B)
  BY <1>2, <1>3
<1>. QED
  BY <1>3, <1>4, <1>5, <1>6

\* It grows with the numbers of the set.
LEMMA BeforeGrows ==
  ASSUME NEW S \in SUBSET Nat, IsFiniteSet(S), NEW m \in S, NEW n \in S, m < n
  PROVE  Before(S, m) < Before(S, n)
<1>1. PICK B : B = {j \in S : j < n}
  OBVIOUS
<1>2. PICK A : A = {j \in S : j < m}
  OBVIOUS
<1>3. A \in SUBSET B
  <2>1. \A j \in S : j < m => j < n
    OBVIOUS
  <2>. QED
    BY <1>1, <1>2, <2>1
<1>4. m \in B /\ m \notin A
  BY <1>1, <1>2
<1>5. IsFiniteSet(B)
  BY <1>1, FS_Subset
<1>6. Cardinality(A) <= Cardinality(B) /\ Cardinality(B) # Cardinality(A)
  BY <1>3, <1>4, <1>5, FS_Subset
<1>7. Before(S, m) = Cardinality(A) /\ Before(S, n) = Cardinality(B)
  BY <1>1, <1>2 DEF Before
<1>8. Before(S, m) \in Nat /\ Before(S, n) \in Nat
  BY BeforeType
<1>. QED
  BY <1>6, <1>7, <1>8

\* Two numbers of the set have the same place only if they are one.
LEMMA PlaceOfOne ==
  ASSUME NEW S \in SUBSET Nat, IsFiniteSet(S), NEW m \in S, NEW n \in S,
         Before(S, m) = Before(S, n)
  PROVE  m = n
<1>1. Before(S, m) \in Nat /\ Before(S, n) \in Nat
  BY BeforeType
<1>2. m < n => Before(S, m) < Before(S, n)
  BY BeforeGrows
<1>3. n < m => Before(S, n) < Before(S, m)
  BY BeforeGrows
<1>. QED
  BY <1>1, <1>2, <1>3

\* A larger set has no fewer numbers before one.
LEMMA BeforeMonotone ==
  ASSUME NEW S, NEW T \in SUBSET Nat, S \subseteq T, IsFiniteSet(T), NEW n \in Nat
  PROVE  Before(S, n) <= Before(T, n)
<1>1. PICK B : B = {j \in T : j < n}
  OBVIOUS
<1>2. {j \in S : j < n} \in SUBSET B
  BY <1>1
<1>3. IsFiniteSet(B)
  BY <1>1, FS_Subset
<1>. QED
  BY <1>1, <1>2, <1>3, FS_Subset DEF Before

\* Every place up to the number of elements is taken by one of them.
LEMMA PlaceTaken ==
  ASSUME NEW bound \in Nat, NEW S \in SUBSET Nat, \A j \in S : j <= bound,
         NEW r \in Nat, r < Cardinality(S)
  PROVE  \E k \in S : Before(S, k) = r
<1>0. IsFiniteSet(S)
  BY FS_BoundedSetOfNaturals
<1>1. S # {}
  BY FS_EmptySet
<1>2. PICK greatest \in S : \A j \in S : j <= greatest
  BY <1>1, GreatestNumber
<1>3. Before(S, greatest) = Cardinality(S) - 1
  <2>1. {j \in S : j < greatest} = S \ {greatest}
    <3>1. \A j \in S : j < greatest <=> j # greatest
      BY <1>2
    <3>. QED
      BY <3>1
  <2>2. Cardinality(S \ {greatest}) = Cardinality(S) - 1
    BY <1>0, FS_RemoveElement
  <2>. QED
    BY <2>1, <2>2 DEF Before
<1>4. PICK T : T = {k \in S : r <= Before(S, k)}
  OBVIOUS
<1>5. T \in SUBSET Nat /\ greatest \in T
  <2>1. Cardinality(S) \in Nat
    BY <1>0, FS_CardinalityType
  <2>2. r <= Before(S, greatest)
    BY <1>3, <2>1
  <2>. QED
    BY <1>4, <2>2
<1>6. PICK k \in T : \A j \in T : k <= j
  BY <1>5, LeastNumber
<1>7. k \in S /\ r <= Before(S, k)
  BY <1>4
<1>8. Before(S, k) \in Nat
  BY <1>0, <1>7, BeforeType
<1>9. ASSUME r < Before(S, k) PROVE FALSE
  <2>1. PICK B : B = {j \in S : j < k}
    OBVIOUS
  <2>2. B \in SUBSET Nat /\ \A j \in B : j <= bound
    BY <2>1
  <2>3. Before(S, k) = Cardinality(B)
    BY <2>1 DEF Before
  <2>4. Cardinality(B) # 0
    BY <1>8, <1>9, <2>3
  <2>5. B # {}
    BY <2>4, FS_EmptySet
  <2>6. PICK m \in B : \A j \in B : j <= m
    BY <2>2, <2>5, GreatestNumber
  <2>7. m \in S /\ m < k /\ k \in Nat
    BY <1>7, <2>1
  <2>8. \A j \in S : j < k <=> (j < m \/ j = m)
    <3>1. \A j \in S : j < k => j <= m
      BY <2>1, <2>6
    <3>. QED
      BY <2>7, <3>1
  <2>9. Before(S, k) = Before(S, m) + 1
    BY <1>0, <2>7, <2>8, BeforeNext
  <2>10. Before(S, m) \in Nat
    BY <1>0, <2>7, BeforeType
  <2>11. r <= Before(S, m)
    BY <1>8, <1>9, <2>9, <2>10
  <2>12. m \in T
    BY <1>4, <2>7, <2>11
  <2>13. k <= m
    BY <1>6, <2>12
  <2>. QED
    BY <2>7, <2>13
<1>10. Before(S, k) = r
  BY <1>7, <1>8, <1>9
<1>. QED
  BY <1>7, <1>10

-----------------------------------------------------------------------------
(* Steps that leave the log and a run alone. *)

\* What a run has decided, published and passed stays so while the log grows.
LEMMA RunKept ==
  ASSUME NEW a \in Bootstraps, RunSound(a), runs'[a] = runs[a],
         log \subseteq log', UNCHANGED <<rows, initial, changed>>
  PROVE  RunSound(a)'
<1>1. BatchSound(a)'
  BY DEF RunSound, BatchSound, Reached
<1>2. PositionsReached(a)'
  <2>1. \A n : Decided(a, n) => Decided(a, n)'
    BY DEF Decided
  <2>2. Underway(a)' = Underway(a) /\ Reached(a)' = Reached(a)
    BY DEF Underway, Reached
  <2>. QED
    BY <2>1, <2>2 DEF RunSound, PositionsReached
<1>3. NothingSkipped(a)'
  <2>1. \A t, k : PublishedFor(a, t, k) => PublishedFor(a, t, k)'
    BY DEF PublishedFor
  <2>2. \A t, k : InBatch(a, t, k)' = InBatch(a, t, k)
    BY DEF InBatch
  <2>3. \A t, k : Passed(a, t, k)' = Passed(a, t, k)
    BY DEF Passed, RowKeys
  <2>4. Underway(a)' = Underway(a) /\ NothingDeleted' = NothingDeleted
        /\ InitialRows' = InitialRows
    BY DEF Underway, NothingDeleted, InitialRows
  <2>. QED
    BY <2>1, <2>2, <2>3, <2>4 DEF RunSound, NothingSkipped
<1>. QED
  BY <1>1, <1>2, <1>3 DEF RunSound

\* The log says of itself what it said before.
LEMMA LogKept ==
  ASSUME LogSound, log' = log
  PROVE  LogSound'
BY DEF LogSound, SequencesContiguous, PublishedOnce, PositionsContiguous, IdsSound, Head

\* The rows of a table are numbers, finitely many.
LEMMA RowKeysFinite ==
  ASSUME NEW table
  PROVE  /\ RowKeys(table) \in SUBSET Nat /\ IsFiniteSet(RowKeys(table))
         /\ \A k \in RowKeys(table) : k <= LastKey
<1>1. RowKeys(table) \in SUBSET Nat /\ \A k \in RowKeys(table) : k <= LastKey
  BY SelectionAssumption DEF RowKeys, Keys
<1>. QED
  BY <1>1, SelectionAssumption, FS_BoundedSetOfNaturals

-----------------------------------------------------------------------------
(* The application changes a row. *)

\* An insertion or an update removes no row, and moves none to a lower place.
LEMMA RowsRemain ==
  ASSUME BootstrapTypeOK, NEW table \in Tables, NEW key \in Keys, NEW value \in Values,
         rows' = [rows EXCEPT ![table][key] = value]
  PROVE  \A t \in Tables : /\ RowKeys(t) \subseteq RowKeys(t)'
                           /\ \A k \in Keys : Before(RowKeys(t), k) <= Before(RowKeys(t)', k)
<1>1. SUFFICES ASSUME NEW t \in Tables
               PROVE  /\ RowKeys(t) \subseteq RowKeys(t)'
                      /\ \A k \in Keys : Before(RowKeys(t), k) <= Before(RowKeys(t)', k)
  OBVIOUS
<1>2. \A k \in Keys : rows[t][k] # Absent => rows'[t][k] # Absent
  BY ValuesAssumption DEF BootstrapTypeOK
<1>3. PICK S : S = RowKeys(t)
  OBVIOUS
<1>4. PICK T : T = RowKeys(t)'
  OBVIOUS
<1>5. T = {k \in Keys : rows'[t][k] # Absent}
  BY <1>4 DEF RowKeys, Keys
<1>6. S \subseteq T
  BY <1>2, <1>3, <1>5 DEF RowKeys
<1>7. T \in SUBSET Nat /\ IsFiniteSet(T)
  <2>1. T \in SUBSET Nat /\ \A k \in T : k <= LastKey
    BY <1>5, SelectionAssumption DEF Keys
  <2>. QED
    BY <2>1, SelectionAssumption, FS_BoundedSetOfNaturals
<1>8. \A k \in Keys : k \in Nat
  BY SelectionAssumption DEF Keys
<1>9. \A k \in Keys : Before(S, k) <= Before(T, k)
  BY <1>6, <1>7, <1>8, BeforeMonotone
<1>. QED
  BY <1>3, <1>4, <1>6, <1>9

\* A row is changed between two steps of the runs.
LEMMA ChangeKept ==
  ASSUME BootstrapSteps, NEW table \in Tables, NEW key \in Keys, NEW kind,
         NEW value \in Contents, kind = "delete" \/ value \in Values,
         ChangeRow(table, key, value, kind)
  PROVE  BootstrapSteps'
<1>1. BootstrapTypeOK /\ LogSound /\ InitialKept
  BY DEF BootstrapSteps
<1>2. /\ changes < MaxChanges /\ changes' = changes + 1
      /\ rows' = [rows EXCEPT ![table][key] = value]
      /\ changed' = changed \cup {[row |-> <<table, key>>, kind |-> kind]}
      /\ log' = log /\ runs' = runs /\ initial' = initial
  BY DEF ChangeRow
<1>3. BootstrapTypeOK'
  <2>1. rows' \in [Tables -> [Keys -> Contents]]
    BY <1>1, <1>2 DEF BootstrapTypeOK
  <2>2. changes' \in 0..MaxChanges
    BY <1>1, <1>2, BatchAssumption DEF BootstrapTypeOK
  <2>. QED
    BY <1>1, <1>2, <2>1, <2>2 DEF BootstrapTypeOK
<1>4. LogSound'
  BY <1>1, <1>2, LogKept
<1>5. NothingDeleted' => NothingDeleted /\ value \in Values
  <2>1. PICK change : change = [row |-> <<table, key>>, kind |-> kind]
    OBVIOUS
  <2>2. change.kind = kind /\ change \in changed' /\ changed \subseteq changed'
    BY <1>2, <2>1
  <2>. QED
    BY <2>2 DEF NothingDeleted
<1>6. NothingDeleted' => \A t \in Tables :
          /\ RowKeys(t) \subseteq RowKeys(t)'
          /\ \A k \in Keys : Before(RowKeys(t), k) <= Before(RowKeys(t)', k)
  BY <1>1, <1>2, <1>5, RowsRemain
<1>7. InitialRows' = InitialRows
  BY <1>2 DEF InitialRows
<1>8. \A row \in InitialRows : row[1] \in Tables /\ row[1] \in Nat /\ row[2] \in Keys
  BY SelectionAssumption DEF InitialRows
<1>9. InitialKept'
  <2>1. SUFFICES ASSUME NothingDeleted', NEW row \in InitialRows
                 PROVE  rows'[row[1]][row[2]] # Absent
    BY <1>7 DEF InitialKept
  <2>2. rows[row[1]][row[2]] # Absent
    BY <1>1, <1>5, <2>1 DEF InitialKept
  <2>3. row[2] \in RowKeys(row[1])
    BY <1>8, <2>2 DEF RowKeys
  <2>4. row[2] \in RowKeys(row[1])'
    BY <1>6, <1>8, <2>1, <2>3
  <2>. QED
    BY <2>4 DEF RowKeys
<1>10. ASSUME NEW b \in Bootstraps PROVE RunSound(b)'
  <2>1. RunSound(b)
    BY DEF BootstrapSteps
  <2>2. BatchSound(b)'
    BY <1>2, <2>1 DEF RunSound, BatchSound, Reached
  <2>3. PositionsReached(b)'
    BY <1>2, <2>1 DEF RunSound, PositionsReached, Underway, Reached, Decided
  <2>4. NothingSkipped(b)'
    <3>1. SUFFICES ASSUME Underway(b)', NothingDeleted', NEW row \in InitialRows,
                          Passed(b, row[1], row[2])'
                   PROVE  PublishedFor(b, row[1], row[2])' \/ InBatch(b, row[1], row[2])'
      BY <1>7 DEF NothingSkipped
    <3>2. Underway(b) /\ NothingDeleted
      BY <1>2, <1>5, <3>1 DEF Underway
    <3>3. Passed(b, row[1], row[2])
      <4>1. PICK place : place = Before(RowKeys(row[1]), row[2])
        OBVIOUS
      <4>2. PICK later : later = Before(RowKeys(row[1])', row[2])
        OBVIOUS
      <4>3. place <= later
        BY <1>6, <1>8, <3>1, <4>1, <4>2
      <4>4. place \in Nat /\ later \in Nat
        <5>1. row[2] \in Nat
          BY <1>8, SelectionAssumption DEF Keys
        <5>2. place \in Nat
          BY <4>1, <5>1, RowKeysFinite, BeforeType
        <5>3. RowKeys(row[1])' \in SUBSET Nat /\ \A k \in RowKeys(row[1])' : k <= LastKey
          BY SelectionAssumption DEF RowKeys, Keys
        <5>4. IsFiniteSet(RowKeys(row[1])')
          BY <5>3, SelectionAssumption, FS_BoundedSetOfNaturals
        <5>. QED
          BY <4>2, <5>1, <5>2, <5>3, <5>4, BeforeType
      <4>5. PICK limit : limit = runs[b].offset + Cardinality(runs[b].proposals)
        OBVIOUS
      <4>6. limit \in Nat
        <5>1. runs[b].offset \in Nat
          BY <1>1 DEF BootstrapTypeOK, RunType
        <5>2. Cardinality(runs[b].proposals) \in Nat
          BY <2>1, FS_CardinalityType DEF RunSound, BatchSound
        <5>. QED
          BY <4>5, <5>1, <5>2
      <4>7. \/ row[1] < runs[b].table
            \/ runs[b].pc = "completed"
            \/ row[1] = runs[b].table /\ later < limit
        BY <1>2, <3>1, <4>2, <4>5 DEF Passed, Before
      <4>8. later < limit => place < limit
        BY <4>3, <4>4, <4>6
      <4>. QED
        BY <4>1, <4>5, <4>7, <4>8 DEF Passed
    <3>4. PublishedFor(b, row[1], row[2]) \/ InBatch(b, row[1], row[2])
      BY <2>1, <3>1, <3>2, <3>3 DEF RunSound, NothingSkipped
    <3>. QED
      BY <1>2, <3>4 DEF PublishedFor, InBatch
  <2>. QED
    BY <2>2, <2>3, <2>4 DEF RunSound
<1>. QED
  BY <1>3, <1>4, <1>9, <1>10 DEF BootstrapSteps

\* The application changes its tables as it likes.
LEMMA ApplicationKept ==
  ASSUME BootstrapSteps, Application
  PROVE  BootstrapSteps'
<1>1. PICK table \in Tables, key \in Keys :
          \/ \E value \in Values : Insert(table, key, value)
          \/ \E value \in Values : Update(table, key, value)
          \/ Delete(table, key)
  BY DEF Application
<1>2. \E value \in Contents, kind \in {"insert", "update", "delete"} :
          (kind = "delete" \/ value \in Values) /\ ChangeRow(table, key, value, kind)
  BY <1>1 DEF Insert, Update, Delete, Contents
<1>. QED
  BY <1>2, ChangeKept

-----------------------------------------------------------------------------
(* A step of one run. *)

EntryType == [sequence : Nat \ {0}, proposal : ProposalType]

\* The other runs and the application notice nothing but a longer log.
LEMMA LocalKept ==
  ASSUME BootstrapSteps, NEW b \in Bootstraps, NEW run \in RunType, Local(b, run),
         log \subseteq log', log' \subseteq EntryType, LogSound', RunSound(b)'
  PROVE  BootstrapSteps'
<1>1. /\ runs' = [runs EXCEPT ![b] = run]
      /\ rows' = rows /\ initial' = initial /\ changed' = changed /\ changes' = changes
  BY DEF Local
<1>2. BootstrapTypeOK /\ InitialKept
  BY DEF BootstrapSteps
<1>3. BootstrapTypeOK'
  <2>1. runs' \in [Bootstraps -> RunType]
    BY <1>1, <1>2 DEF BootstrapTypeOK
  <2>. QED
    BY <1>1, <1>2, <2>1 DEF BootstrapTypeOK, EntryType
<1>4. InitialKept'
  BY <1>1, <1>2 DEF InitialKept, NothingDeleted, InitialRows
<1>5. ASSUME NEW a \in Bootstraps, a # b PROVE RunSound(a)'
  <2>1. runs'[a] = runs[a]
    BY <1>1, <1>2, <1>5 DEF BootstrapTypeOK
  <2>2. RunSound(a)
    BY DEF BootstrapSteps
  <2>. QED
    BY <1>1, <2>1, <2>2, RunKept
<1>. QED
  BY <1>3, <1>4, <1>5 DEF BootstrapSteps

\* A run that has no batch after the step.
LEMMA NoBatch ==
  ASSUME NEW b \in Bootstraps, runs'[b].proposals = {}, runs'[b].pc # "commit",
         runs'[b].clientSequence \in Nat \ {0}
  PROVE  /\ BatchSound(b)' /\ Reached(b)' = runs'[b].clientSequence
         /\ Cardinality(runs'[b].proposals) = 0
<1>1. IsFiniteSet(runs'[b].proposals) /\ Cardinality(runs'[b].proposals) = 0
  BY FS_EmptySet
<1>2. Reached(b)' = runs'[b].clientSequence
  BY <1>1 DEF Reached
<1>3. Reached(b)'..runs'[b].clientSequence - 1 = {}
  BY <1>2
<1>4. 0 <= BatchSize
  BY BatchAssumption
<1>. QED
  BY <1>1, <1>2, <1>3, <1>4 DEF BatchSound

\* A run that failed promises nothing more.
LEMMA FailsKept ==
  ASSUME BootstrapSteps, NEW b \in Bootstraps, Fails(b),
         log \subseteq log', log' \subseteq EntryType, LogSound'
  PROVE  BootstrapSteps'
<1>1. runs[b] \in RunType
  BY DEF BootstrapSteps, BootstrapTypeOK
<1>2. PICK run : run = [runs[b] EXCEPT !.pc = "failed", !.proposals = {}]
  OBVIOUS
<1>3. run \in RunType /\ run.pc = "failed" /\ run.proposals = {}
      /\ run.clientSequence \in Nat \ {0}
  BY <1>1, <1>2 DEF RunType
<1>4. Local(b, run)
  BY <1>2 DEF Fails
<1>5. runs'[b] = run
  BY <1>4 DEF BootstrapSteps, BootstrapTypeOK, Local
<1>6. BatchSound(b)'
  BY <1>3, <1>5, NoBatch
<1>7. ~ Underway(b)'
  BY <1>3, <1>5 DEF Underway
<1>8. RunSound(b)'
  BY <1>6, <1>7 DEF RunSound, PositionsReached, NothingSkipped
<1>. QED
  BY <1>3, <1>4, <1>8, LocalKept

\* The run goes on without a batch, from where it was.
LEMMA RunGoesOn ==
  ASSUME BootstrapSteps, NEW b \in Bootstraps, NEW run \in RunType, Local(b, run),
         log' = log, Underway(b), runs[b].pc # "commit", run.pc # "commit",
         run.proposals = {}, run.clientSequence = runs[b].clientSequence,
         NothingDeleted =>
             \A row \in InitialRows :
                 Passed(b, row[1], row[2])' => Passed(b, row[1], row[2])
  PROVE  BootstrapSteps'
<1>1. /\ runs'[b] = run /\ runs[b] \in RunType
      /\ rows' = rows /\ initial' = initial /\ changed' = changed
  BY DEF BootstrapSteps, BootstrapTypeOK, Local
<1>2. RunSound(b)
  BY DEF BootstrapSteps
<1>3. runs[b].proposals = {}
  BY <1>2 DEF RunSound, BatchSound
<1>4. runs[b].clientSequence \in Nat \ {0}
  BY <1>1 DEF RunType
<1>5. BatchSound(b)' /\ Reached(b)' = runs[b].clientSequence
  BY <1>1, <1>4, NoBatch
<1>6. Reached(b) = runs[b].clientSequence
  <2>1. Cardinality(runs[b].proposals) = 0
    BY <1>3, FS_EmptySet
  <2>. QED
    BY <1>4, <2>1 DEF Reached
<1>7. PositionsReached(b)'
  <2>1. \A n \in 1..runs[b].clientSequence - 1 : Decided(b, n)
    BY <1>2, <1>6 DEF RunSound, PositionsReached
  <2>2. \A n : Decided(b, n) => Decided(b, n)'
    BY DEF Decided
  <2>. QED
    BY <1>4, <1>5, <2>1, <2>2 DEF PositionsReached
<1>8. NothingSkipped(b)'
  <2>1. SUFFICES ASSUME NothingDeleted', NEW row \in InitialRows,
                        Passed(b, row[1], row[2])'
                 PROVE  PublishedFor(b, row[1], row[2])'
    BY <1>1 DEF NothingSkipped, InitialRows
  <2>2. NothingDeleted
    BY <1>1, <2>1 DEF NothingDeleted
  <2>3. Passed(b, row[1], row[2])
    BY <2>1, <2>2
  <2>4. PublishedFor(b, row[1], row[2]) \/ InBatch(b, row[1], row[2])
    BY <1>2, <2>2, <2>3 DEF RunSound, NothingSkipped
  <2>5. ~ InBatch(b, row[1], row[2])
    BY <1>3 DEF InBatch
  <2>. QED
    BY <2>4, <2>5 DEF PublishedFor
<1>9. LogSound' /\ log \subseteq log' /\ log' \subseteq EntryType
  BY LogKept DEF BootstrapSteps, BootstrapTypeOK, EntryType
<1>. QED
  BY <1>5, <1>7, <1>8, <1>9, LocalKept DEF RunSound

\* The head of the log is a number.
LEMMA HeadType ==
  ASSUME LogSound
  PROVE  Head \in Nat /\ IsFiniteSet(log)
BY FS_CardinalityType DEF LogSound, SequencesContiguous, Head

\* A run asks for the head and checks that the history is empty.
LEMMA ProbeKept ==
  ASSUME BootstrapSteps, NEW b \in Bootstraps, Probe(b) \/ CheckHistory(b)
  PROVE  BootstrapSteps'
<1>1. runs[b] \in RunType /\ LogSound /\ log \subseteq EntryType
  BY DEF BootstrapSteps, BootstrapTypeOK, EntryType
<1>2. runs[b].pc \in {"probe", "check"} /\ log' = log /\ Underway(b)
  BY DEF Probe, CheckHistory, Underway
<1>3. runs[b].proposals = {}
  BY <1>2 DEF BootstrapSteps, RunSound, BatchSound
<1>4. ASSUME NEW run \in RunType, Local(b, run), run.pc \in {"check", "read"},
             run.proposals = {}, run.clientSequence = runs[b].clientSequence,
             run.table = runs[b].table, run.offset = runs[b].offset
      PROVE  BootstrapSteps'
  <2>1. runs'[b] = run /\ rows' = rows
    BY <1>4 DEF BootstrapSteps, BootstrapTypeOK, Local
  <2>2. \A t, k : Passed(b, t, k)' => Passed(b, t, k)
    BY <1>2, <1>3, <1>4, <2>1 DEF Passed, RowKeys
  <2>. QED
    BY <1>2, <1>4, <2>2, RunGoesOn
<1>5. CASE Probe(b)
  <2>1. PICK run : run = [runs[b] EXCEPT !.pc = "check", !.probed = Head]
    OBVIOUS
  <2>2. Local(b, run)
    BY <1>5, <2>1 DEF Probe
  <2>3. run \in RunType
    BY <1>1, <2>1, HeadType DEF RunType
  <2>4. run.pc = "check" /\ run.proposals = runs[b].proposals
        /\ run.clientSequence = runs[b].clientSequence
        /\ run.table = runs[b].table /\ run.offset = runs[b].offset
    BY <1>1, <2>1 DEF RunType
  <2>. QED
    BY <1>3, <1>4, <2>2, <2>3, <2>4
<1>6. CASE CheckHistory(b)
  <2>1. CASE EmptyHistory(b)
    <3>1. PICK run : run = [runs[b] EXCEPT !.pc = "read"]
      OBVIOUS
    <3>2. Local(b, run)
      BY <1>6, <2>1, <3>1 DEF CheckHistory
    <3>3. run \in RunType
      BY <1>1, <3>1 DEF RunType
    <3>4. run.pc = "read" /\ run.proposals = runs[b].proposals
          /\ run.clientSequence = runs[b].clientSequence
          /\ run.table = runs[b].table /\ run.offset = runs[b].offset
      BY <1>1, <3>1 DEF RunType
    <3>. QED
      BY <1>3, <1>4, <3>2, <3>3, <3>4
  <2>2. CASE ~ EmptyHistory(b)
    <3>1. Fails(b)
      BY <1>6, <2>2 DEF CheckHistory
    <3>2. LogSound'
      BY <1>1, <1>2, LogKept
    <3>. QED
      BY <1>1, <1>2, <3>1, <3>2, FailsKept
  <2>. QED
    BY <2>1, <2>2
<1>. QED
  BY <1>5, <1>6

-----------------------------------------------------------------------------
(* Pages. *)

\* A page is a part of the rows of the table, of the size asked for at most.
LEMMA PageType ==
  ASSUME NEW table, NEW offset \in Nat
  PROVE  /\ Page(table, offset) \subseteq RowKeys(table)
         /\ Page(table, offset) \in SUBSET Nat /\ IsFiniteSet(Page(table, offset))
         /\ Cardinality(Page(table, offset)) \in Nat
         /\ Cardinality(Page(table, offset)) <= BatchSize
<1>1. PICK S : S = RowKeys(table)
  OBVIOUS
<1>2. S \in SUBSET Nat /\ IsFiniteSet(S)
  BY <1>1, RowKeysFinite
<1>3. PICK page : page = {k \in S : Before(S, k) \in offset..offset + BatchSize - 1}
  OBVIOUS
<1>4. page = Page(table, offset)
  BY <1>1, <1>3 DEF Page
<1>5. page \in SUBSET S
  BY <1>3
<1>6. IsFiniteSet(page) /\ Cardinality(page) \in Nat
  BY <1>2, <1>5, FS_Subset, FS_CardinalityType
<1>7. PICK places : places = offset..offset + BatchSize - 1
  OBVIOUS
<1>8. IsFiniteSet(places) /\ Cardinality(places) = BatchSize
  <2>1. offset \in Int /\ offset + BatchSize - 1 \in Int
        /\ offset <= offset + BatchSize - 1
        /\ (offset + BatchSize - 1) - offset + 1 = BatchSize
    BY BatchAssumption
  <2>. QED
    BY <1>7, <2>1, FS_Interval
<1>9. PICK f : f = [k \in page |-> Before(S, k)]
  OBVIOUS
<1>10. f \in [page -> places]
  BY <1>3, <1>7, <1>9
<1>11. \A j, k \in page : f[j] = f[k] => j = k
  BY <1>2, <1>5, <1>9, PlaceOfOne
<1>12. f \in Injection(page, places)
  BY <1>10, <1>11 DEF Injection, IsInjective
<1>13. Cardinality(page) <= Cardinality(places)
  BY <1>8, <1>12, FS_Injection
<1>. QED
  BY <1>1, <1>2, <1>4, <1>5, <1>6, <1>8, <1>13

\* An empty page: the rows of the table all come before the offset.
LEMMA EmptyPage ==
  ASSUME NEW table, NEW offset \in Nat, Page(table, offset) = {},
         NEW k \in RowKeys(table)
  PROVE  Before(RowKeys(table), k) < offset
<1>1. PICK S : S = RowKeys(table)
  OBVIOUS
<1>2. S \in SUBSET Nat /\ IsFiniteSet(S) /\ (\A j \in S : j <= LastKey) /\ k \in S
  BY <1>1, RowKeysFinite
<1>3. Before(S, k) \in Nat /\ Before(S, k) < Cardinality(S) /\ Cardinality(S) \in Nat
  BY <1>2, BeforeType, FS_CardinalityType
<1>4. ASSUME offset <= Before(S, k) PROVE FALSE
  <2>1. offset < Cardinality(S)
    BY <1>3, <1>4
  <2>2. PICK j \in S : Before(S, j) = offset
    BY <1>2, <2>1, SelectionAssumption, PlaceTaken
  <2>3. offset \in offset..offset + BatchSize - 1
    BY BatchAssumption
  <2>4. j \in Page(table, offset)
    BY <1>1, <2>2, <2>3 DEF Page
  <2>. QED
    BY <2>4
<1>. QED
  BY <1>1, <1>3, <1>4

\* What comes before the end of a page comes before it or is in it.
LEMMA PageComplete ==
  ASSUME NEW table, NEW offset \in Nat, NEW k \in RowKeys(table),
         Before(RowKeys(table), k) < offset + Cardinality(Page(table, offset))
  PROVE  Before(RowKeys(table), k) < offset \/ k \in Page(table, offset)
<1>1. PICK r : r = Before(RowKeys(table), k)
  OBVIOUS
<1>2. PICK n : n = Cardinality(Page(table, offset))
  OBVIOUS
<1>3. n \in Nat /\ n <= BatchSize
  BY <1>2, PageType
<1>4. r \in Nat
  BY <1>1, RowKeysFinite, BeforeType
<1>5. r < offset + n
  BY <1>1, <1>2
<1>6. r < offset \/ r \in offset..offset + BatchSize - 1
  BY <1>3, <1>4, <1>5, BatchAssumption
<1>. QED
  BY <1>1, <1>6 DEF Page

-----------------------------------------------------------------------------
(* The batch of a page. *)

\* One proposal for each row of the page, at the next positions of the client.
LEMMA BatchOfPage ==
  ASSUME BootstrapTypeOK, NEW b \in Bootstraps, NEW table \in Selected,
         NEW keys \in SUBSET RowKeys(table), IsFiniteSet(keys), Readable(table, keys)
  PROVE  /\ Proposals(b, table, keys) \subseteq ProposalType
         /\ IsFiniteSet(Proposals(b, table, keys))
         /\ Cardinality(Proposals(b, table, keys)) = Cardinality(keys)
<1>1. runs[b].clientSequence \in Nat \ {0}
  BY DEF BootstrapTypeOK, RunType
<1>2. keys \in SUBSET Nat /\ keys \subseteq Keys
  BY RowKeysFinite DEF RowKeys
<1>3. ASSUME NEW k \in keys PROVE ProposalOf(b, table, keys, k) \in ProposalType
  <2>1. rows[table][k] \in Values \ Unreadable
    BY <1>2, SelectionAssumption
    DEF BootstrapTypeOK, Contents, Readable, RowKeys
  <2>2. runs[b].clientSequence + Before(keys, k) \in Nat \ {0}
    BY <1>1, <1>2, BeforeType
  <2>3. OperationId(b, table, k) \in Selected \X Keys
    BY <1>2 DEF OperationId
  <2>4. [table |-> table, key |-> k, row |-> rows[table][k]]
            \in [table : Selected, key : Keys, row : Values \ Unreadable]
    BY <1>2, <2>1
  <2>. QED
    BY <2>2, <2>3, <2>4 DEF ProposalOf, ProposalType
<1>4. PICK f : f = [k \in keys |-> ProposalOf(b, table, keys, k)]
  OBVIOUS
<1>5. PICK P : P = Proposals(b, table, keys)
  OBVIOUS
<1>6. f \in [keys -> P] /\ \A p \in P : \E k \in keys : f[k] = p
  BY <1>4, <1>5 DEF Proposals
<1>7. \A j, k \in keys : f[j] = f[k] => j = k
  <2>1. \A k \in keys : f[k].intent.key = k
    BY <1>4 DEF ProposalOf
  <2>. QED
    BY <2>1
<1>8. f \in Bijection(keys, P)
  BY <1>6, <1>7 DEF Bijection, Injection, Surjection, IsInjective
<1>9. IsFiniteSet(P) /\ Cardinality(P) = Cardinality(keys)
  BY <1>8, FS_Bijection DEF ExistsBijection
<1>. QED
  BY <1>3, <1>5, <1>9 DEF Proposals

-----------------------------------------------------------------------------
(* A run reads a page. *)

\* A page that is proposed: its positions follow those of the run without gaps.
LEMMA PageProposed ==
  ASSUME BootstrapSteps, NEW b \in Bootstraps, runs[b].pc = "read", log' = log,
         NEW keys, keys = Page(runs[b].table, runs[b].offset), keys # {},
         Readable(runs[b].table, keys),
         NEW run, run = [runs[b] EXCEPT
                            !.pc = "commit",
                            !.proposals = Proposals(b, runs[b].table, keys),
                            !.clientSequence = @ + Cardinality(keys)],
         Local(b, run)
  PROVE  BootstrapSteps'
<1>1. runs[b] \in RunType /\ BootstrapTypeOK /\ LogSound /\ log \subseteq EntryType
  BY DEF BootstrapSteps, BootstrapTypeOK, EntryType
<1>2. PICK table : table = runs[b].table
  OBVIOUS
<1>3. PICK offset : offset = runs[b].offset
  OBVIOUS
<1>4. PICK start : start = runs[b].clientSequence
  OBVIOUS
<1>5. table \in Selected /\ offset \in Nat /\ start \in Nat \ {0}
  BY <1>1, <1>2, <1>3, <1>4 DEF RunType
<1>6. /\ keys \in SUBSET RowKeys(table) /\ keys \in SUBSET Nat /\ IsFiniteSet(keys)
      /\ Cardinality(keys) \in Nat /\ Cardinality(keys) <= BatchSize
  BY <1>2, <1>3, <1>5, PageType
<1>7. PICK P : P = Proposals(b, table, keys)
  OBVIOUS
<1>8. P \subseteq ProposalType /\ IsFiniteSet(P) /\ Cardinality(P) = Cardinality(keys)
  BY <1>1, <1>2, <1>5, <1>6, <1>7, BatchOfPage
<1>9. /\ run.pc = "commit" /\ run.proposals = P /\ run.table = table
      /\ run.offset = offset /\ run.clientSequence = start + Cardinality(keys)
  BY <1>1, <1>2, <1>3, <1>4, <1>7 DEF RunType
<1>10. run \in RunType
  <2>1. PICK last : last = start + Cardinality(keys)
    OBVIOUS
  <2>2. last \in Nat \ {0}
    BY <1>5, <1>6, <2>1
  <2>3. run = [runs[b] EXCEPT !.pc = "commit", !.proposals = P, !.clientSequence = last]
    BY <1>2, <1>4, <1>7, <2>1
  <2>. QED
    BY <1>1, <1>8, <2>2, <2>3 DEF RunType
<1>11. /\ runs'[b] = run
       /\ rows' = rows /\ initial' = initial /\ changed' = changed
  BY <1>1 DEF BootstrapTypeOK, Local
<1>12. Reached(b)' = start
  BY <1>5, <1>6, <1>8, <1>9, <1>11 DEF Reached
<1>13. RunSound(b) /\ runs[b].proposals = {} /\ Underway(b)
  BY DEF BootstrapSteps, RunSound, BatchSound, Underway
<1>14. Reached(b) = start /\ Cardinality(runs[b].proposals) = 0
  BY <1>4, <1>5, <1>13, FS_EmptySet DEF Reached
<1>15. \A p \in P : \E k \in keys :
          /\ p.operationId = <<table, k>> /\ p.clientId = ClientOf[b]
          /\ p.clientSequence = start + Before(keys, k)
          /\ p.intent.table = table /\ p.intent.key = k
          /\ p = ProposalOf(b, table, keys, k)
  BY <1>4, <1>7 DEF Proposals, ProposalOf, OperationId
<1>16. \A k \in keys : \E p \in P :
          /\ p.clientSequence = start + Before(keys, k)
          /\ p.intent.table = table /\ p.intent.key = k
  <2>1. SUFFICES ASSUME NEW k \in keys
                 PROVE  \E p \in P : /\ p.clientSequence = start + Before(keys, k)
                                     /\ p.intent.table = table /\ p.intent.key = k
    OBVIOUS
  <2>2. PICK p : p = ProposalOf(b, table, keys, k)
    OBVIOUS
  <2>3. p \in P
    BY <1>7, <2>2 DEF Proposals
  <2>4. /\ p.clientSequence = start + Before(keys, k)
        /\ p.intent.table = table /\ p.intent.key = k
    BY <1>4, <2>2 DEF ProposalOf
  <2>. QED
    BY <2>3, <2>4
<1>17. \A k \in keys : Before(keys, k) \in Nat /\ Before(keys, k) < Cardinality(keys)
  BY <1>6, BeforeType
<1>18. BatchSound(b)'
  <2>1. P # {}
    BY <1>16
  <2>2. \A p \in P :
          /\ p.operationId = <<p.intent.table, p.intent.key>>
          /\ p.intent.table = table
          /\ p.clientId = ClientOf[b]
          /\ p.clientSequence \in start..start + Cardinality(keys) - 1
    BY <1>5, <1>6, <1>15, <1>17
  <2>3. \A p, q \in P :
          p.clientSequence = q.clientSequence \/ p.intent.key = q.intent.key => p = q
    <3>1. SUFFICES ASSUME NEW p \in P, NEW q \in P,
                          p.clientSequence = q.clientSequence \/ p.intent.key = q.intent.key
                   PROVE  p = q
      OBVIOUS
    <3>2. PICK j \in keys : /\ p.clientSequence = start + Before(keys, j)
                            /\ p.intent.key = j /\ p = ProposalOf(b, table, keys, j)
      BY <1>15
    <3>3. PICK k \in keys : /\ q.clientSequence = start + Before(keys, k)
                            /\ q.intent.key = k /\ q = ProposalOf(b, table, keys, k)
      BY <1>15
    <3>4. Before(keys, j) = Before(keys, k) \/ j = k
      BY <1>5, <1>17, <3>1, <3>2, <3>3
    <3>5. j = k
      BY <1>6, <3>4, PlaceOfOne
    <3>. QED
      BY <3>2, <3>3, <3>5
  <2>4. \A n \in start..start + Cardinality(keys) - 1 : \E p \in P : p.clientSequence = n
    <3>1. SUFFICES ASSUME NEW n \in start..start + Cardinality(keys) - 1
                   PROVE  \E p \in P : p.clientSequence = n
      OBVIOUS
    <3>2. n - start \in Nat /\ n - start < Cardinality(keys) /\ start + (n - start) = n
      BY <1>5, <1>6, <3>1
    <3>3. \A k \in keys : k <= LastKey
      BY <1>6, RowKeysFinite
    <3>4. PICK k \in keys : Before(keys, k) = n - start
      BY <1>6, <3>2, <3>3, SelectionAssumption, PlaceTaken
    <3>. QED
      BY <1>16, <3>2, <3>4
  <2>5. PICK last : last = start + Cardinality(keys)
    OBVIOUS
  <2>6. /\ runs'[b].proposals = P /\ runs'[b].pc = "commit"
        /\ runs'[b].clientSequence = last /\ runs'[b].table = table
    BY <1>9, <1>11, <2>5
  <2>7. IsFiniteSet(P) /\ Cardinality(P) <= BatchSize
    BY <1>6, <1>8
  <2>8. /\ \A p \in P : p.clientSequence \in start..last - 1
        /\ \A n \in start..last - 1 : \E p \in P : p.clientSequence = n
    <3>1. PICK positions : positions = start..last - 1
      OBVIOUS
    <3>2. positions = start..start + Cardinality(keys) - 1
      BY <1>5, <1>6, <2>5, <3>1
    <3>3. \A p \in P : p.clientSequence \in positions
      BY <2>2, <3>2
    <3>4. \A n \in positions : \E p \in P : p.clientSequence = n
      BY <2>4, <3>2
    <3>. QED
      BY <3>1, <3>3, <3>4
  <2>. QED
    BY <1>12, <2>1, <2>2, <2>3, <2>6, <2>7, <2>8 DEF BatchSound
<1>19. PositionsReached(b)'
  <2>1. \A n \in 1..start - 1 : Decided(b, n)
    BY <1>13, <1>14 DEF RunSound, PositionsReached
  <2>2. \A n : Decided(b, n) => Decided(b, n)'
    BY DEF Decided
  <2>. QED
    BY <1>5, <1>12, <2>1, <2>2 DEF PositionsReached
<1>20. NothingSkipped(b)'
  <2>1. SUFFICES ASSUME NothingDeleted', NEW row \in InitialRows,
                        Passed(b, row[1], row[2])'
                 PROVE  PublishedFor(b, row[1], row[2])' \/ InBatch(b, row[1], row[2])'
    BY <1>11 DEF NothingSkipped, InitialRows
  <2>2. NothingDeleted
    BY <1>11, <2>1 DEF NothingDeleted
  <2>3. PICK k : k = row[2]
    OBVIOUS
  <2>4. k \in Keys /\ rows[row[1]][k] # Absent
    BY <2>2, <2>3 DEF BootstrapSteps, InitialKept, InitialRows
  <2>5. ASSUME Passed(b, row[1], k)
        PROVE  PublishedFor(b, row[1], k)'
    <3>1. PublishedFor(b, row[1], k) \/ InBatch(b, row[1], k)
      BY <1>13, <2>2, <2>3, <2>5 DEF RunSound, NothingSkipped
    <3>2. ~ InBatch(b, row[1], k)
      BY <1>13 DEF InBatch
    <3>. QED
      BY <3>1, <3>2 DEF PublishedFor
  <2>6. \/ row[1] < table
        \/ row[1] = table /\ Before(RowKeys(table), k) < offset + Cardinality(keys)
    <3>1. RowKeys(table)' = RowKeys(table)
      BY <1>11 DEF RowKeys
    <3>2. Before(RowKeys(table), k)' = Before(RowKeys(table), k)
      BY <3>1 DEF Before
    <3>3. \/ row[1] < run.table
          \/ run.pc = "completed"
          \/ row[1] = run.table
             /\ Before(RowKeys(row[1]), k)' < run.offset + Cardinality(run.proposals)
      BY <1>11, <2>1, <2>3 DEF Passed
    <3>. QED
      BY <1>8, <1>9, <3>2, <3>3
  <2>7. CASE row[1] < table
    BY <1>2, <2>3, <2>5, <2>7 DEF Passed
  <2>8. CASE row[1] = table /\ Before(RowKeys(table), k) < offset + Cardinality(keys)
    <3>1. k \in RowKeys(table)
      BY <2>4, <2>8 DEF RowKeys
    <3>2. Before(RowKeys(table), k) < offset \/ k \in keys
      BY <1>2, <1>3, <1>5, <2>8, <3>1, PageComplete
    <3>3. CASE Before(RowKeys(table), k) < offset
      <4>1. Passed(b, row[1], k)
        BY <1>2, <1>3, <1>5, <1>14, <2>8, <3>3 DEF Passed
      <4>. QED
        BY <2>3, <2>5, <4>1
    <3>4. CASE k \in keys
      <4>1. PICK p \in P : p.intent.table = table /\ p.intent.key = k
        BY <1>16, <3>4
      <4>. QED
        BY <1>9, <1>11, <2>3, <2>8, <4>1 DEF InBatch, Concerns
    <3>. QED
      BY <3>2, <3>3, <3>4
  <2>. QED
    BY <2>6, <2>7, <2>8
<1>21. LogSound' /\ log' \subseteq EntryType
  BY <1>1, LogKept
<1>. QED
  BY <1>10, <1>18, <1>19, <1>20, <1>21, LocalKept DEF RunSound

\* An empty page: every row there was in the table has been passed.
LEMMA TableDone ==
  ASSUME BootstrapSteps, NEW b \in Bootstraps, NothingDeleted,
         Page(runs[b].table, runs[b].offset) = {},
         NEW row \in InitialRows, row[1] = runs[b].table, runs[b].pc = "read"
  PROVE  Passed(b, row[1], row[2])
<1>1. runs[b].offset \in Nat /\ runs[b].proposals = {}
  BY DEF BootstrapSteps, BootstrapTypeOK, RunType, RunSound, BatchSound
<1>2. row[2] \in RowKeys(row[1])
  BY DEF BootstrapSteps, InitialKept, InitialRows, RowKeys
<1>3. Before(RowKeys(row[1]), row[2]) < runs[b].offset
  BY <1>1, <1>2, EmptyPage
<1>4. runs[b].offset + Cardinality(runs[b].proposals) = runs[b].offset
  BY <1>1, FS_EmptySet
<1>. QED
  BY <1>3, <1>4 DEF Passed

\* A page is proposed, ends its table or the run, or cannot be read.
LEMMA ReadPageKept ==
  ASSUME BootstrapSteps, NEW b \in Bootstraps, ReadPage(b)
  PROVE  BootstrapSteps'
<1>1. runs[b] \in RunType /\ LogSound /\ log \subseteq EntryType
  BY DEF BootstrapSteps, BootstrapTypeOK, EntryType
<1>2. runs[b].pc = "read" /\ log' = log /\ Underway(b)
  BY DEF ReadPage, Underway
<1>3. PICK keys : keys = Page(runs[b].table, runs[b].offset)
  OBVIOUS
<1>4. runs[b].proposals = {}
  BY <1>2 DEF BootstrapSteps, RunSound, BatchSound
<1>5. runs[b].table \in Nat /\ Later(runs[b].table) \in SUBSET Nat
  BY <1>1, SelectionAssumption DEF RunType, Later
<1>6. \A row \in InitialRows : row[1] \in Selected /\ row[1] \in Nat
  BY SelectionAssumption DEF InitialRows
<1>7. CASE /\ keys = {} /\ Later(runs[b].table) # {}
           /\ Local(b, [runs[b] EXCEPT !.table = Min(Later(runs[b].table)), !.offset = 0])
  <2>1. PICK next : next = Min(Later(runs[b].table))
    OBVIOUS
  <2>2. next \in Later(runs[b].table) /\ \A t \in Later(runs[b].table) : next <= t
    BY <1>5, <1>7, <2>1, MinFacts
  <2>3. next \in Selected /\ next \in Nat
    BY <1>5, <2>2 DEF Later
  <2>4. PICK run : run = [runs[b] EXCEPT !.table = next, !.offset = 0]
    OBVIOUS
  <2>5. run \in RunType
    BY <1>1, <2>3, <2>4 DEF RunType
  <2>6. /\ run.pc = "read" /\ run.proposals = {} /\ run.table = next /\ run.offset = 0
        /\ run.clientSequence = runs[b].clientSequence
    BY <1>1, <1>2, <1>4, <2>4 DEF RunType
  <2>7. Local(b, run)
    BY <1>7, <2>1, <2>4
  <2>8. runs'[b] = run /\ rows' = rows
    BY <2>7 DEF BootstrapSteps, BootstrapTypeOK, Local
  <2>9. ASSUME NothingDeleted, NEW row \in InitialRows, Passed(b, row[1], row[2])'
        PROVE  Passed(b, row[1], row[2])
    <3>1. row[1] < next
      <4>1. ASSUME row[1] = next PROVE FALSE
        <5>1. row[2] \in Nat
          BY SelectionAssumption DEF InitialRows, Keys
        <5>2. Before(RowKeys(next), row[2]) \in Nat
          BY <5>1, RowKeysFinite, BeforeType
        <5>3. RowKeys(next)' = RowKeys(next)
          BY <2>8 DEF RowKeys
        <5>4. Before(RowKeys(next), row[2])' = Before(RowKeys(next), row[2])
          BY <5>3 DEF Before
        <5>5. \/ row[1] < run.table
              \/ run.pc = "completed"
              \/ Before(RowKeys(row[1]), row[2])' < run.offset + Cardinality(run.proposals)
          BY <2>8, <2>9 DEF Passed
        <5>6. Before(RowKeys(next), row[2]) < 0 + Cardinality({})
          BY <2>3, <2>6, <4>1, <5>4, <5>5
        <5>. QED
          BY <5>2, <5>6, FS_EmptySet
      <4>. QED
        BY <2>6, <2>8, <2>9, <4>1 DEF Passed
    <3>2. ~ (runs[b].table < row[1])
      <4>1. runs[b].table < row[1] => next <= row[1]
        BY <1>6, <2>2 DEF Later
      <4>. QED
        BY <1>6, <2>3, <3>1, <4>1
    <3>3. row[1] < runs[b].table \/ row[1] = runs[b].table
      BY <1>5, <1>6, <3>2
    <3>4. CASE row[1] = runs[b].table
      BY <1>2, <1>3, <1>7, <2>9, <3>4, TableDone
    <3>. QED
      BY <3>3, <3>4 DEF Passed
  <2>. QED
    BY <1>2, <2>5, <2>6, <2>7, <2>9, RunGoesOn
<1>8. CASE /\ keys = {} /\ Later(runs[b].table) = {}
           /\ Local(b, [runs[b] EXCEPT !.pc = "completed"])
  <2>1. PICK run : run = [runs[b] EXCEPT !.pc = "completed"]
    OBVIOUS
  <2>2. run \in RunType
    BY <1>1, <2>1 DEF RunType
  <2>3. /\ run.pc = "completed" /\ run.proposals = {}
        /\ run.clientSequence = runs[b].clientSequence
    BY <1>1, <1>4, <2>1 DEF RunType
  <2>4. ASSUME NothingDeleted, NEW row \in InitialRows
        PROVE  Passed(b, row[1], row[2])
    <3>1. row[1] < runs[b].table \/ row[1] = runs[b].table
      BY <1>5, <1>6, <1>8 DEF Later
    <3>2. CASE row[1] = runs[b].table
      BY <1>2, <1>3, <1>8, <2>4, <3>2, TableDone
    <3>. QED
      BY <3>1, <3>2 DEF Passed
  <2>. QED
    BY <1>2, <1>8, <2>1, <2>2, <2>3, <2>4, RunGoesOn
<1>9. CASE Fails(b)
  BY <1>1, <1>2, <1>9, LogKept, FailsKept
<1>10. CASE /\ keys # {} /\ Readable(runs[b].table, keys)
            /\ Local(b, [runs[b] EXCEPT
                   !.pc = "commit",
                   !.proposals = Proposals(b, runs[b].table, keys),
                   !.clientSequence = @ + Cardinality(keys)])
  BY <1>2, <1>3, <1>10, PageProposed
<1>. QED
  BY <1>3, <1>7, <1>8, <1>9, <1>10 DEF ReadPage

-----------------------------------------------------------------------------
(* A batch is decided. *)

\* What a batch that is not refused adds to the log: entries for the proposals
\* that are not stored, at the places after its head in the order of their
\* positions.
Extends(b, new) ==
  /\ IsFiniteSet(new) /\ Cardinality(new) \in Nat
  /\ log' = log \cup new
  /\ \A entry \in new :
        /\ entry \in EntryType
        /\ entry.proposal \in runs[b].proposals
        /\ ~ Stored(entry.proposal.operationId)
        /\ Head < entry.sequence /\ entry.sequence <= Head + Cardinality(new)
  /\ \A p \in runs[b].proposals :
        ~ Stored(p.operationId) => \E entry \in new : entry.proposal = p
  /\ \A left, right \in new :
        /\ left.sequence = right.sequence => left = right
        /\ left.proposal = right.proposal => left = right
        /\ left.proposal.clientSequence < right.proposal.clientSequence
               => left.sequence < right.sequence

\* The new entries of a batch.
LEMMA AppendedExtends ==
  ASSUME BootstrapSteps, NEW b \in Bootstraps, log' = Appended(runs[b].proposals)
  PROVE  \E new : Extends(b, new)
<1>1. BootstrapTypeOK /\ LogSound /\ BatchSound(b)
  BY DEF BootstrapSteps, RunSound
<1>2. Head \in Nat
  BY <1>1, HeadType
<1>3. PICK P : P = runs[b].proposals
  OBVIOUS
<1>4. P \subseteq ProposalType /\ IsFiniteSet(P)
      /\ \A p, q \in P : p.clientSequence = q.clientSequence => p = q
  BY <1>1, <1>3 DEF BootstrapTypeOK, RunType, BatchSound
<1>5. \A p \in P : p.clientSequence \in Nat
  BY <1>4 DEF ProposalType
<1>6. PICK fresh : fresh = {p \in P : ~ Stored(p.operationId)}
  OBVIOUS
<1>7. PICK C : C = {q.clientSequence : q \in fresh}
  OBVIOUS
<1>8. C \in SUBSET Nat /\ IsFiniteSet(C) /\ Cardinality(C) \in Nat
  <2>1. IsFiniteSet(fresh)
    BY <1>4, <1>6, FS_Subset
  <2>2. PICK f : f = [q \in fresh |-> q.clientSequence]
    OBVIOUS
  <2>3. f \in Surjection(fresh, C)
    BY <1>7, <2>2 DEF Surjection
  <2>. QED
    BY <1>5, <1>6, <1>7, <2>1, <2>3, FS_Surjection, FS_CardinalityType
<1>9. PICK place : place = [p \in fresh |-> Before(C, p.clientSequence)]
  OBVIOUS
<1>10. \A p \in fresh : place[p] \in Nat /\ place[p] < Cardinality(C)
  BY <1>5, <1>6, <1>7, <1>8, <1>9, BeforeType
<1>11. \A p, q \in fresh :
          /\ p.clientSequence < q.clientSequence => place[p] < place[q]
          /\ place[p] = place[q] => p = q
  <2>1. SUFFICES ASSUME NEW p \in fresh, NEW q \in fresh
                 PROVE  /\ p.clientSequence < q.clientSequence => place[p] < place[q]
                        /\ place[p] = place[q] => p = q
    OBVIOUS
  <2>2. p.clientSequence \in C /\ q.clientSequence \in C
    BY <1>7
  <2>3. /\ place[p] = Before(C, p.clientSequence)
        /\ place[q] = Before(C, q.clientSequence)
    BY <1>9
  <2>4. p.clientSequence < q.clientSequence => place[p] < place[q]
    BY <1>8, <2>2, <2>3, BeforeGrows
  <2>5. place[p] = place[q] => p.clientSequence = q.clientSequence
    <3>1. SUFFICES ASSUME place[p] = place[q]
                   PROVE  p.clientSequence = q.clientSequence
      OBVIOUS
    <3>2. PICK m : m = p.clientSequence
      OBVIOUS
    <3>3. PICK n : n = q.clientSequence
      OBVIOUS
    <3>4. Before(C, m) = Before(C, n)
      BY <2>3, <3>1, <3>2, <3>3
    <3>5. m \in C /\ n \in C
      BY <2>2, <3>2, <3>3
    <3>6. m = n
      BY <1>8, <3>4, <3>5, PlaceOfOne
    <3>. QED
      BY <3>2, <3>3, <3>6
  <2>. QED
    BY <1>4, <1>6, <2>4, <2>5
<1>12. PICK new : new = {[sequence |-> Head + 1 + place[p], proposal |-> p] : p \in fresh}
  OBVIOUS
<1>13. log' = log \cup new
  BY <1>3, <1>6, <1>7, <1>9, <1>12 DEF Appended
<1>14. \A entry \in new :
          /\ entry = [sequence |-> Head + 1 + place[entry.proposal],
                      proposal |-> entry.proposal]
          /\ entry.proposal \in fresh
          /\ entry.sequence = Head + 1 + place[entry.proposal]
  BY <1>12
<1>15. \A p \in fresh : \E entry \in new : entry.proposal = p
  <2>1. SUFFICES ASSUME NEW p \in fresh PROVE \E entry \in new : entry.proposal = p
    OBVIOUS
  <2>2. PICK entry : entry = [sequence |-> Head + 1 + place[p], proposal |-> p]
    OBVIOUS
  <2>3. entry \in new /\ entry.proposal = p
    BY <1>12, <2>2
  <2>. QED
    BY <2>3
<1>16. IsFiniteSet(new) /\ Cardinality(new) = Cardinality(C)
  <2>1. PICK f : f = [entry \in new |-> entry.proposal.clientSequence]
    OBVIOUS
  <2>2. f \in [new -> C]
    BY <1>7, <1>14, <2>1
  <2>3. \A left, right \in new : f[left] = f[right] => left = right
    <3>1. SUFFICES ASSUME NEW left \in new, NEW right \in new, f[left] = f[right]
                   PROVE  left = right
      OBVIOUS
    <3>2. left.proposal = right.proposal
      BY <1>4, <1>6, <1>14, <2>1, <3>1
    <3>. QED
      BY <1>14, <3>2
  <2>4. \A c \in C : \E entry \in new : f[entry] = c
    BY <1>7, <1>15, <2>1
  <2>5. f \in Injection(new, C) /\ f \in Surjection(new, C)
    BY <2>2, <2>3, <2>4 DEF Injection, IsInjective, Surjection
  <2>. QED
    BY <1>8, <2>5, FS_Injection
<1>17. \A entry \in new :
          /\ entry \in EntryType
          /\ Head < entry.sequence /\ entry.sequence <= Head + Cardinality(new)
  <2>1. SUFFICES ASSUME NEW entry \in new
                 PROVE  /\ entry \in EntryType
                        /\ Head < entry.sequence
                        /\ entry.sequence <= Head + Cardinality(new)
    OBVIOUS
  <2>2. PICK r : r = place[entry.proposal]
    OBVIOUS
  <2>3. r \in Nat /\ r < Cardinality(new)
    BY <1>10, <1>14, <1>16, <2>2
  <2>4. PICK n : n = Head + 1 + r
    OBVIOUS
  <2>5. n \in Nat \ {0} /\ Head < n /\ n <= Head + Cardinality(new)
    BY <1>2, <1>8, <1>16, <2>3, <2>4
  <2>6. entry = [sequence |-> n, proposal |-> entry.proposal] /\ entry.sequence = n
    BY <1>14, <2>2, <2>4
  <2>7. entry.proposal \in ProposalType
    BY <1>4, <1>6, <1>14
  <2>. QED
    BY <2>5, <2>6, <2>7 DEF EntryType
<1>18. \A left, right \in new :
          /\ left.sequence = right.sequence => left = right
          /\ left.proposal = right.proposal => left = right
          /\ left.proposal.clientSequence < right.proposal.clientSequence
                 => left.sequence < right.sequence
  <2>1. SUFFICES ASSUME NEW left \in new, NEW right \in new
                 PROVE  /\ left.sequence = right.sequence => left = right
                        /\ left.proposal = right.proposal => left = right
                        /\ left.proposal.clientSequence < right.proposal.clientSequence
                               => left.sequence < right.sequence
    OBVIOUS
  <2>2. left.proposal = right.proposal => left = right
    BY <1>14
  <2>3. PICK l : l = place[left.proposal]
    OBVIOUS
  <2>4. PICK r : r = place[right.proposal]
    OBVIOUS
  <2>5. l \in Nat /\ r \in Nat
    BY <1>10, <1>14, <2>3, <2>4
  <2>6. left.sequence = Head + 1 + l /\ right.sequence = Head + 1 + r
    BY <1>14, <2>3, <2>4
  <2>7. left.sequence = right.sequence => l = r
    BY <1>2, <2>5, <2>6
  <2>8. left.proposal \in fresh /\ right.proposal \in fresh
    BY <1>14
  <2>9. l = r => left.proposal = right.proposal
    BY <1>11, <2>3, <2>4, <2>8
  <2>10. left.proposal.clientSequence < right.proposal.clientSequence => l < r
    BY <1>11, <2>3, <2>4, <2>8
  <2>11. l < r => left.sequence < right.sequence
    BY <1>2, <2>5, <2>6
  <2>. QED
    BY <2>2, <2>7, <2>9, <2>10, <2>11
<1>19. \A entry \in new : entry.proposal \in P /\ ~ Stored(entry.proposal.operationId)
  BY <1>6, <1>14
<1>20. \A p \in P : ~ Stored(p.operationId) => \E entry \in new : entry.proposal = p
  BY <1>6, <1>15
<1>. QED
  BY <1>3, <1>8, <1>13, <1>16, <1>17, <1>18, <1>19, <1>20 DEF Extends

\* The log goes on to say of itself what it said.
LEMMA LogExtended ==
  ASSUME BootstrapSteps, NEW b \in Bootstraps, runs[b].pc = "commit", ~ Refused(b),
         NEW new, Extends(b, new)
  PROVE  /\ LogSound' /\ log \subseteq log' /\ log' \subseteq EntryType
         /\ \A p \in runs[b].proposals : \E entry \in log' : entry.proposal = p
<1>1. LogSound /\ log \subseteq EntryType /\ BatchSound(b) /\ PositionsReached(b)
  BY DEF BootstrapSteps, BootstrapTypeOK, EntryType, RunSound
<1>2. Head \in Nat /\ IsFiniteSet(log)
  BY <1>1, HeadType
<1>3. PICK P : P = runs[b].proposals
  OBVIOUS
<1>4. /\ IsFiniteSet(new) /\ Cardinality(new) \in Nat /\ log' = log \cup new
      /\ \A entry \in new : /\ entry \in EntryType /\ entry.proposal \in P
                            /\ ~ Stored(entry.proposal.operationId)
                            /\ Head < entry.sequence
                            /\ entry.sequence <= Head + Cardinality(new)
      /\ \A p \in P : ~ Stored(p.operationId) => \E entry \in new : entry.proposal = p
  BY <1>3 DEF Extends
<1>5. \A left, right \in new :
        /\ left.sequence = right.sequence => left = right
        /\ left.proposal = right.proposal => left = right
        /\ left.proposal.clientSequence < right.proposal.clientSequence
               => left.sequence < right.sequence
  BY DEF Extends
<1>6. /\ \A entry \in log : entry.sequence <= Head /\ entry.sequence \in Nat
      /\ \A entry \in new : entry.sequence \in Nat
  BY <1>1, <1>4 DEF LogSound, SequencesContiguous, EntryType
<1>7. \A old \in log, entry \in new : old.sequence < entry.sequence
  BY <1>2, <1>4, <1>6
<1>8. P \subseteq ProposalType
  BY <1>3 DEF BootstrapSteps, BootstrapTypeOK, RunType
<1>9. \A p \in P, old \in log :
          old.proposal # p =>
              old.proposal.operationId # p.operationId /\ ~ SamePosition(old.proposal, p)
  BY <1>3 DEF Refused, Conflict
<1>10. \A p \in P : Stored(p.operationId) => \E old \in log : old.proposal = p
  BY <1>9 DEF Stored
<1>11. \A p \in P : \E entry \in log' : entry.proposal = p
  BY <1>4, <1>10
<1>12. SequencesContiguous'
  <2>1. log \cap new = {}
    BY <1>6, <1>7
  <2>2. IsFiniteSet(log') /\ Cardinality(log') = Cardinality(log) + Cardinality(new)
    <3>1. Cardinality(log \cap new) = 0
      BY <2>1, FS_EmptySet
    <3>2. Cardinality(log) \in Nat
      BY <1>2 DEF Head
    <3>3. /\ IsFiniteSet(log \cup new)
          /\ Cardinality(log \cup new)
                 = Cardinality(log) + Cardinality(new) - Cardinality(log \cap new)
      BY <1>2, <1>4, FS_Union
    <3>. QED
      BY <1>4, <3>1, <3>2, <3>3
  <2>3. Head' = Head + Cardinality(new)
    BY <2>2 DEF Head
  <2>4. \A entry \in log' : entry.sequence <= Head'
    BY <1>2, <1>4, <1>6, <2>3
  <2>5. \A left, right \in log' : left.sequence = right.sequence => left = right
    <3>1. \A left, right \in log : left.sequence = right.sequence => left = right
      BY <1>1 DEF LogSound, SequencesContiguous
    <3>2. \A old \in log, entry \in new : old.sequence # entry.sequence
      BY <1>6, <1>7
    <3>. QED
      BY <1>4, <1>5, <3>1, <3>2
  <2>. QED
    BY <2>2, <2>4, <2>5 DEF SequencesContiguous
<1>13. IdsSound'
  <2>1. \A entry \in log : entry.proposal.operationId =
            <<entry.proposal.intent.table, entry.proposal.intent.key>>
    BY <1>1 DEF LogSound, IdsSound
  <2>2. \A p \in P : p.operationId = <<p.intent.table, p.intent.key>>
    BY <1>1, <1>3 DEF BatchSound
  <2>. QED
    BY <1>4, <2>1, <2>2 DEF IdsSound
<1>14. PublishedOnce'
  <2>1. SUFFICES ASSUME NEW left \in log', NEW right \in log',
                        left.proposal.intent.table = right.proposal.intent.table,
                        left.proposal.intent.key = right.proposal.intent.key
                 PROVE  left = right
    BY DEF PublishedOnce, Concerns
  <2>2. left.proposal.operationId = right.proposal.operationId
    BY <1>13, <2>1 DEF IdsSound
  <2>3. \A old \in log, entry \in new :
            old.proposal.operationId # entry.proposal.operationId
    BY <1>4 DEF Stored
  <2>4. CASE left \in log /\ right \in log
    BY <1>1, <2>1, <2>4 DEF LogSound, PublishedOnce, Concerns
  <2>5. CASE left \in new /\ right \in new
    <3>1. left.proposal = right.proposal
      BY <1>1, <1>3, <1>4, <2>1, <2>5 DEF BatchSound
    <3>. QED
      BY <1>5, <2>5, <3>1
  <2>. QED
    BY <1>4, <2>1, <2>2, <2>3, <2>4, <2>5
<1>15. \A left, right \in log' : SamePosition(left.proposal, right.proposal) => left = right
  <2>1. SUFFICES ASSUME NEW left \in log', NEW right \in log',
                        SamePosition(left.proposal, right.proposal)
                 PROVE  left = right
    OBVIOUS
  <2>2. ASSUME NEW old \in log, NEW entry \in new PROVE ~ SamePosition(old.proposal, entry.proposal)
    <3>1. entry.proposal \in P /\ ~ Stored(entry.proposal.operationId)
      BY <1>4, <2>2
    <3>2. old.proposal # entry.proposal
      BY <3>1 DEF Stored
    <3>. QED
      BY <1>9, <3>1, <3>2
  <2>3. SamePosition(right.proposal, left.proposal)
    BY <2>1 DEF SamePosition
  <2>4. CASE left \in log /\ right \in log
    BY <1>1, <2>1, <2>4 DEF LogSound, PositionsContiguous
  <2>5. CASE left \in new /\ right \in new
    <3>1. left.proposal.clientSequence = right.proposal.clientSequence
      BY <2>1 DEF SamePosition
    <3>2. left.proposal \in P /\ right.proposal \in P
      BY <1>4, <2>5
    <3>3. left.proposal = right.proposal
      BY <1>1, <1>3, <3>1, <3>2 DEF BatchSound
    <3>. QED
      BY <1>5, <2>5, <3>3
  <2>. QED
    BY <1>4, <2>1, <2>2, <2>3, <2>4, <2>5
<1>16. ASSUME NEW entry \in log', NEW n \in 1..entry.proposal.clientSequence - 1
       PROVE  \E earlier \in log' :
                  /\ earlier.proposal.clientId = entry.proposal.clientId
                  /\ earlier.proposal.clientSequence = n
                  /\ earlier.sequence < entry.sequence
  <2>1. CASE entry \in log
    <3>1. \E earlier \in log : /\ earlier.proposal.clientId = entry.proposal.clientId
                               /\ earlier.proposal.clientSequence = n
                               /\ earlier.sequence < entry.sequence
      BY <1>1, <2>1 DEF LogSound, PositionsContiguous
    <3>. QED
      BY <1>4, <3>1
  <2>2. CASE entry \in new
    <3>1. PICK p : p = entry.proposal
      OBVIOUS
    <3>2. p \in P /\ p.clientSequence \in Nat /\ n \in 1..p.clientSequence - 1
      BY <1>4, <1>8, <1>16, <2>2, <3>1 DEF ProposalType
    <3>3. PICK reached : reached = Reached(b)
      OBVIOUS
    <3>4. PICK last : last = runs[b].clientSequence
      OBVIOUS
    <3>5. reached \in Nat /\ last \in Nat /\ p.clientSequence \in reached..last - 1
          /\ p.clientId = ClientOf[b]
      <4>1. runs[b].clientSequence \in Nat
        BY DEF BootstrapSteps, BootstrapTypeOK, RunType
      <4>2. Reached(b) \in Nat
        BY <1>1 DEF PositionsReached, Underway
      <4>. QED
        BY <1>1, <1>3, <3>2, <3>3, <3>4, <4>1, <4>2 DEF BatchSound
    <3>6. CASE n \in 1..reached - 1
      <4>1. Decided(b, n)
        BY <1>1, <3>3, <3>6 DEF PositionsReached, Underway
      <4>2. PICK old \in log : /\ old.proposal.clientId = ClientOf[b]
                               /\ old.proposal.clientSequence = n
        BY <4>1 DEF Decided
      <4>. QED
        BY <1>4, <1>7, <2>2, <3>1, <3>5, <4>2
    <3>7. CASE n \in reached..last - 1
      <4>1. PICK q \in P : q.clientSequence = n
        BY <1>1, <1>3, <3>3, <3>4, <3>7 DEF BatchSound
      <4>2. q.clientId = ClientOf[b]
        BY <1>1, <1>3, <4>1 DEF BatchSound
      <4>3. CASE Stored(q.operationId)
        <5>1. PICK old \in log : old.proposal = q
          BY <1>10, <4>1, <4>3
        <5>. QED
          BY <1>4, <1>7, <2>2, <3>1, <3>5, <4>1, <4>2, <5>1
      <4>4. CASE ~ Stored(q.operationId)
        <5>1. PICK other \in new : other.proposal = q
          BY <1>4, <4>1, <4>4
        <5>2. other.proposal.clientSequence < entry.proposal.clientSequence
          BY <3>1, <3>2, <4>1, <5>1
        <5>3. other.sequence < entry.sequence
          BY <1>5, <2>2, <5>1, <5>2
        <5>. QED
          BY <1>4, <3>1, <3>5, <4>1, <4>2, <5>1, <5>3
      <4>. QED
        BY <4>3, <4>4
    <3>8. n \in 1..reached - 1 \/ n \in reached..last - 1
      BY <3>2, <3>5
    <3>. QED
      BY <3>6, <3>7, <3>8
  <2>. QED
    BY <1>4, <1>16, <2>1, <2>2
<1>17. PositionsContiguous'
  BY <1>15, <1>16 DEF PositionsContiguous, SamePosition
<1>18. log \subseteq log' /\ log' \subseteq EntryType
  BY <1>1, <1>4
<1>. QED
  BY <1>3, <1>11, <1>12, <1>13, <1>14, <1>17, <1>18 DEF LogSound

\* The run learns that its batch is decided, and goes on after its rows.
LEMMA CommitKept ==
  ASSUME BootstrapSteps, NEW b \in Bootstraps, Commit(b)
  PROVE  BootstrapSteps'
<1>1. /\ runs[b] \in RunType /\ BootstrapTypeOK /\ LogSound /\ RunSound(b)
      /\ log \subseteq EntryType
  BY DEF BootstrapSteps, BootstrapTypeOK, EntryType
<1>2. runs[b].pc = "commit" /\ Underway(b)
  BY DEF Commit, Underway
<1>3. CASE Refused(b)
  <2>1. Fails(b) /\ log' = log
    BY <1>3 DEF Commit
  <2>. QED
    BY <1>1, <2>1, LogKept, FailsKept
<1>4. CASE ~ Refused(b)
  <2>1. log' = Appended(runs[b].proposals) /\ Local(b, Advanced(runs[b], Cardinality(log')))
    BY <1>4 DEF Commit
  <2>2. PICK new : Extends(b, new)
    BY <2>1, AppendedExtends
  <2>3. LogSound' /\ log \subseteq log' /\ log' \subseteq EntryType
    BY <1>2, <1>4, <2>2, LogExtended
  <2>4. \A p \in runs[b].proposals : \E entry \in log' : entry.proposal = p
    BY <1>2, <1>4, <2>2, LogExtended
  <2>5. PICK size : size = Cardinality(runs[b].proposals)
    OBVIOUS
  <2>6. PICK head : head = Cardinality(log')
    OBVIOUS
  <2>7. size \in Nat /\ head \in Nat
    <3>1. IsFiniteSet(runs[b].proposals)
      BY <1>1 DEF RunSound, BatchSound
    <3>2. IsFiniteSet(log')
      BY <2>3 DEF LogSound, SequencesContiguous
    <3>. QED
      BY <2>5, <2>6, <3>1, <3>2, FS_CardinalityType
  <2>8. PICK offset : offset = runs[b].offset + size
    OBVIOUS
  <2>9. PICK count : count = runs[b].operationCount + size
    OBVIOUS
  <2>10. offset \in Nat /\ count \in Nat
    BY <1>1, <2>7, <2>8, <2>9 DEF RunType
  <2>11. PICK run : run = [runs[b] EXCEPT !.pc = "read", !.proposals = {}, !.base = head,
                                          !.operationCount = count, !.offset = offset]
    OBVIOUS
  <2>12. run \in RunType
    BY <1>1, <2>7, <2>10, <2>11 DEF RunType
  <2>13. run.pc = "read" /\ run.proposals = {} /\ run.offset = offset
         /\ run.table = runs[b].table /\ run.clientSequence = runs[b].clientSequence
    BY <1>1, <2>11 DEF RunType
  <2>14. Local(b, run)
    BY <2>1, <2>5, <2>6, <2>8, <2>9, <2>11 DEF Advanced
  <2>15. /\ runs'[b] = run
         /\ rows' = rows /\ initial' = initial /\ changed' = changed
    BY <1>1, <2>14 DEF BootstrapTypeOK, Local
  <2>16. runs[b].clientSequence \in Nat \ {0}
    BY <1>1 DEF RunType
  <2>17. /\ BatchSound(b)' /\ Reached(b)' = runs[b].clientSequence
         /\ Cardinality(runs'[b].proposals) = 0
    BY <2>13, <2>15, <2>16, NoBatch
  <2>18. PositionsReached(b)'
    <3>1. SUFFICES ASSUME NEW n \in 1..runs[b].clientSequence - 1
                   PROVE  Decided(b, n)'
      BY <2>16, <2>17 DEF PositionsReached
    <3>2. PICK reached : reached = Reached(b)
      OBVIOUS
    <3>3. reached \in Nat
      BY <1>1, <1>2, <3>2 DEF RunSound, PositionsReached
    <3>4. CASE n \in 1..reached - 1
      <4>1. Decided(b, n)
        BY <1>1, <1>2, <3>2, <3>4 DEF RunSound, PositionsReached
      <4>. QED
        BY <2>3, <4>1 DEF Decided
    <3>5. CASE n \in reached..runs[b].clientSequence - 1
      <4>1. PICK p \in runs[b].proposals : p.clientSequence = n
        BY <1>1, <3>2, <3>5 DEF RunSound, BatchSound
      <4>2. p.clientId = ClientOf[b]
        BY <1>1 DEF RunSound, BatchSound
      <4>. QED
        BY <2>4, <4>1, <4>2 DEF Decided
    <3>6. n \in 1..reached - 1 \/ n \in reached..runs[b].clientSequence - 1
      BY <2>16, <3>1, <3>3
    <3>. QED
      BY <3>4, <3>5, <3>6
  <2>19. NothingSkipped(b)'
    <3>1. SUFFICES ASSUME NothingDeleted', NEW row \in InitialRows,
                          Passed(b, row[1], row[2])'
                   PROVE  PublishedFor(b, row[1], row[2])'
      BY <2>15 DEF NothingSkipped, InitialRows
    <3>2. NothingDeleted
      BY <2>15, <3>1 DEF NothingDeleted
    <3>3. Passed(b, row[1], row[2])
      <4>1. PICK t : t = row[1]
        OBVIOUS
      <4>2. RowKeys(t)' = RowKeys(t)
        BY <2>15 DEF RowKeys
      <4>3. Before(RowKeys(t), row[2])' = Before(RowKeys(t), row[2])
        BY <4>2 DEF Before
      <4>4. \/ t < runs[b].table
            \/ /\ t = runs[b].table
               /\ Before(RowKeys(t), row[2])' < offset + Cardinality(runs'[b].proposals)
        BY <2>13, <2>15, <3>1, <4>1 DEF Passed
      <4>5. offset + Cardinality(runs'[b].proposals) = runs[b].offset + size
        BY <2>8, <2>10, <2>17
      <4>. QED
        BY <2>5, <4>1, <4>3, <4>4, <4>5 DEF Passed
    <3>4. PublishedFor(b, row[1], row[2]) \/ InBatch(b, row[1], row[2])
      BY <1>1, <1>2, <3>2, <3>3 DEF RunSound, NothingSkipped
    <3>5. CASE PublishedFor(b, row[1], row[2])
      BY <2>3, <3>5 DEF PublishedFor
    <3>6. CASE InBatch(b, row[1], row[2])
      <4>1. PICK p \in runs[b].proposals : Concerns(p, row[1], row[2])
        BY <3>6 DEF InBatch
      <4>2. p.clientId = ClientOf[b]
        BY <1>1 DEF RunSound, BatchSound
      <4>. QED
        BY <2>4, <4>1, <4>2 DEF PublishedFor
    <3>. QED
      BY <3>4, <3>5, <3>6
  <2>. QED
    BY <2>3, <2>12, <2>14, <2>17, <2>18, <2>19, LocalKept DEF RunSound
<1>. QED
  BY <1>3, <1>4

\* A call fails before it took effect or after.
LEMMA AbortKept ==
  ASSUME BootstrapSteps, NEW b \in Bootstraps, Abort(b)
  PROVE  BootstrapSteps'
<1>1. LogSound /\ log \subseteq EntryType /\ Fails(b)
  BY DEF BootstrapSteps, BootstrapTypeOK, EntryType, Abort
<1>2. CASE log' = log
  BY <1>1, <1>2, LogKept, FailsKept
<1>3. CASE /\ runs[b].pc = "commit" /\ ~ Refused(b)
           /\ log' = Appended(runs[b].proposals)
  <2>1. PICK new : Extends(b, new)
    BY <1>3, AppendedExtends
  <2>2. LogSound' /\ log \subseteq log' /\ log' \subseteq EntryType
    BY <1>3, <2>1, LogExtended
  <2>. QED
    BY <1>1, <2>2, FailsKept
<1>. QED
  BY <1>2, <1>3 DEF Abort

-----------------------------------------------------------------------------
(* The invariant. *)

\* It holds at the start.
LEMMA BootstrapStart ==
  ASSUME Init
  PROVE  BootstrapSteps
<1>1. Min(Selected) \in Selected
  BY SelectionAssumption, MinFacts
<1>2. NewRun \in RunType
  BY <1>1 DEF NewRun, RunType
<1>3. BootstrapTypeOK
  BY <1>2, BatchAssumption DEF Init, BootstrapTypeOK, Contents
<1>4. LogSound
  BY FS_EmptySet
  DEF Init, LogSound, SequencesContiguous, PublishedOnce, PositionsContiguous, IdsSound
<1>5. InitialKept
  BY DEF Init, InitialKept, InitialRows
<1>6. ASSUME NEW b \in Bootstraps PROVE RunSound(b)
  <2>1. runs[b] = NewRun
    BY DEF Init
  <2>2. /\ runs[b].pc = "probe" /\ runs[b].proposals = {} /\ runs[b].clientSequence = 1
        /\ runs[b].offset = 0 /\ runs[b].table = Min(Selected)
    BY <2>1 DEF NewRun
  <2>3. IsFiniteSet(runs[b].proposals) /\ Cardinality(runs[b].proposals) = 0
    BY <2>2, FS_EmptySet
  <2>4. Reached(b) = 1
    BY <2>2, <2>3 DEF Reached
  <2>5. 0 <= BatchSize /\ 1..1 - 1 = {}
    BY BatchAssumption
  <2>6. BatchSound(b)
    BY <2>2, <2>3, <2>4, <2>5 DEF BatchSound
  <2>7. PositionsReached(b)
    BY <2>4, <2>5 DEF PositionsReached
  <2>8. NothingSkipped(b)
    <3>1. SUFFICES ASSUME NEW row \in InitialRows PROVE ~ Passed(b, row[1], row[2])
      BY DEF NothingSkipped
    <3>2. row[1] \in Selected /\ row[2] \in Nat
      BY SelectionAssumption DEF InitialRows, Keys
    <3>3. ~ (row[1] < Min(Selected))
      <4>1. Selected \in SUBSET Nat /\ row[1] \in Selected
        BY <3>2, SelectionAssumption
      <4>2. PICK least : least = Min(Selected)
        OBVIOUS
      <4>3. PICK t : t = row[1]
        OBVIOUS
      <4>4. least \in Nat /\ least <= t
        BY <4>1, <4>2, <4>3, MinFacts
      <4>5. t \in Nat
        BY <4>1, <4>3
      <4>6. ~ (t < least)
        BY <4>4, <4>5
      <4>. QED
        BY <4>2, <4>3, <4>6
    <3>4. Before(RowKeys(row[1]), row[2]) \in Nat
      BY <3>2, RowKeysFinite, BeforeType
    <3>5. runs[b].offset + Cardinality(runs[b].proposals) = 0
      BY <2>2, <2>3
    <3>. QED
      BY <2>2, <3>3, <3>4, <3>5 DEF Passed
  <2>. QED
    BY <2>6, <2>7, <2>8 DEF RunSound
<1>. QED
  BY <1>3, <1>4, <1>5, <1>6 DEF BootstrapSteps

\* Every step keeps it.
LEMMA BootstrapStep ==
  ASSUME BootstrapSteps, [Next]_vars
  PROVE  BootstrapSteps'
<1>1. CASE Application
  BY <1>1, ApplicationKept
<1>2. ASSUME NEW b \in Bootstraps, Step(b) PROVE BootstrapSteps'
  BY <1>2, ProbeKept, ReadPageKept, CommitKept DEF Step
<1>3. ASSUME NEW b \in Bootstraps, Abort(b) PROVE BootstrapSteps'
  BY <1>3, AbortKept
<1>4. CASE UNCHANGED vars
  <2>1. /\ rows' = rows /\ log' = log /\ runs' = runs
        /\ initial' = initial /\ changed' = changed /\ changes' = changes
    BY <1>4 DEF vars
  <2>2. BootstrapTypeOK' /\ LogSound' /\ InitialKept'
    BY <2>1, LogKept
    DEF BootstrapSteps, BootstrapTypeOK, InitialKept, NothingDeleted, InitialRows
  <2>3. \A b \in Bootstraps : RunSound(b)'
    BY <2>1, RunKept DEF BootstrapSteps
  <2>. QED
    BY <2>2, <2>3 DEF BootstrapSteps
<1>. QED
  BY <1>1, <1>2, <1>3, <1>4 DEF Next

\* The rows there were at the start have been published for a completed run.
LEMMA CompletedPublished ==
  ASSUME BootstrapSteps, NothingDeleted, NEW b \in Completed, NEW row \in InitialRows
  PROVE  PublishedFor(b, row[1], row[2])
<1>1. b \in Bootstraps /\ runs[b].pc = "completed"
  BY DEF Completed
<1>2. RunSound(b) /\ Underway(b) /\ Passed(b, row[1], row[2])
  BY <1>1 DEF BootstrapSteps, Underway, Passed
<1>3. runs[b].proposals = {}
  BY <1>1, <1>2 DEF RunSound, BatchSound
<1>. QED
  BY <1>2, <1>3 DEF RunSound, NothingSkipped, InBatch

\* Two completed runs published the same rows, so they are of one client.
LEMMA CompletedOfOneClient ==
  ASSUME BootstrapSteps
  PROVE  OneWinner
<1>1. SUFFICES ASSUME NothingDeleted, NEW row \in InitialRows,
                      NEW a \in Completed, NEW b \in Completed
               PROVE  ClientOf[a] = ClientOf[b]
  BY DEF OneWinner
<1>2. PublishedFor(a, row[1], row[2]) /\ PublishedFor(b, row[1], row[2])
  BY <1>1, CompletedPublished
<1>. QED
  BY <1>2 DEF BootstrapSteps, LogSound, PublishedOnce, PublishedFor, Concerns

-----------------------------------------------------------------------------
(* Unchanged tables: places of rows and of pages. *)

\* The numbers with a place before r are r, up to the size of the set.
LEMMA PlacesBefore ==
  ASSUME NEW bound \in Nat, NEW S \in SUBSET Nat, \A j \in S : j <= bound,
         NEW r \in Nat, r <= Cardinality(S)
  PROVE  Cardinality({j \in S : Before(S, j) < r}) = r
<1>1. IsFiniteSet(S) /\ Cardinality(S) \in Nat
  BY FS_BoundedSetOfNaturals, FS_CardinalityType
<1>2. CASE r = Cardinality(S)
  <2>1. \A j \in S : Before(S, j) < r
    BY <1>1, <1>2, BeforeType
  <2>2. {j \in S : Before(S, j) < r} = S
    BY <2>1
  <2>. QED
    BY <1>2, <2>2
<1>3. CASE r < Cardinality(S)
  <2>1. PICK k \in S : Before(S, k) = r
    BY <1>3, PlaceTaken
  <2>2. \A j \in S : Before(S, j) < r <=> j < k
    <3>1. SUFFICES ASSUME NEW j \in S PROVE Before(S, j) < r <=> j < k
      OBVIOUS
    <3>2. Before(S, j) \in Nat
      BY <1>1, BeforeType
    <3>3. j < k => Before(S, j) < Before(S, k)
      BY <1>1, BeforeGrows
    <3>4. k < j => Before(S, k) < Before(S, j)
      BY <1>1, BeforeGrows
    <3>5. j \in Nat /\ k \in Nat
      OBVIOUS
    <3>6. CASE j < k
      BY <2>1, <3>3, <3>6
    <3>7. CASE k < j
      BY <2>1, <3>2, <3>4, <3>5, <3>7
    <3>8. CASE j = k
      BY <2>1, <3>5, <3>8
    <3>. QED
      BY <3>5, <3>6, <3>7, <3>8
  <2>3. {j \in S : Before(S, j) < r} = {j \in S : j < k}
    BY <2>2
  <2>. QED
    BY <2>1, <2>3 DEF Before
<1>. QED
  BY <1>1, <1>2, <1>3

\* A page goes on where the offset is: the places of its rows follow it.
LEMMA PagePlaces ==
  ASSUME NEW table, NEW offset \in Nat, offset <= Cardinality(RowKeys(table))
  PROVE  /\ \A k \in Page(table, offset) :
                Before(RowKeys(table), k) = offset + Before(Page(table, offset), k)
         /\ offset + Cardinality(Page(table, offset)) <= Cardinality(RowKeys(table))
<1>1. PICK S : S = RowKeys(table)
  OBVIOUS
<1>2. S \in SUBSET Nat /\ IsFiniteSet(S) /\ (\A j \in S : j <= LastKey)
      /\ Cardinality(S) \in Nat /\ offset <= Cardinality(S)
  BY <1>1, RowKeysFinite, FS_CardinalityType
<1>3. PICK page : page = Page(table, offset)
  OBVIOUS
<1>4. PICK before : before = {j \in S : Before(S, j) < offset}
  OBVIOUS
<1>5. Cardinality(before) = offset /\ IsFiniteSet(before)
  BY <1>2, <1>4, SelectionAssumption, PlacesBefore, FS_Subset
<1>6. page \in SUBSET S /\ IsFiniteSet(page) /\ Cardinality(page) \in Nat
  BY <1>1, <1>3, PageType
<1>7. \A j \in S : Before(S, j) \in Nat
  BY <1>2, BeforeType
<1>8. \A j \in S : j \in page <=> Before(S, j) \in offset..offset + BatchSize - 1
  BY <1>1, <1>3 DEF Page
<1>9. before \cap page = {}
  BY <1>4, <1>7, <1>8
<1>10. offset + Cardinality(page) <= Cardinality(S)
  <2>1. before \cup page \in SUBSET S
    BY <1>4, <1>6
  <2>2. Cardinality(before \cap page) = 0
    BY <1>9, FS_EmptySet
  <2>3. Cardinality(before \cup page) = Cardinality(before) + Cardinality(page) - 0
    BY <1>5, <1>6, <2>2, FS_Union
  <2>4. Cardinality(before \cup page) <= Cardinality(S)
    BY <1>2, <2>1, FS_Subset
  <2>. QED
    BY <1>5, <1>6, <2>3, <2>4
<1>11. ASSUME NEW k \in page
       PROVE  Before(S, k) = offset + Before(page, k)
  <2>1. PICK part : part = {j \in page : j < k}
    OBVIOUS
  <2>2. k \in S /\ k \in Nat
    BY <1>2, <1>6
  <2>3. \A j \in S : j < k <=> (j \in before \/ j \in part)
    <3>1. SUFFICES ASSUME NEW j \in S PROVE j < k <=> (j \in before \/ j \in part)
      OBVIOUS
    <3>2. PICK r : r = Before(S, j)
      OBVIOUS
    <3>3. PICK s : s = Before(S, k)
      OBVIOUS
    <3>4. r \in Nat /\ s \in Nat /\ j \in Nat
      BY <1>2, <1>7, <2>2, <3>2, <3>3
    <3>5. s \in offset..offset + BatchSize - 1
      BY <1>8, <2>2, <3>3
    <3>6. j < k => r < s
      BY <1>2, <2>2, <3>2, <3>3, BeforeGrows
    <3>7. k < j => s < r
      BY <1>2, <2>2, <3>2, <3>3, BeforeGrows
    <3>8. j = k => r = s
      BY <3>2, <3>3
    <3>9. r < offset <=> j \in before
      BY <1>4, <3>2
    <3>10. r < offset \/ r \in offset..offset + BatchSize - 1 \/ s < r
      BY <3>4, <3>5, BatchAssumption
    <3>11. j \in page <=> r \in offset..offset + BatchSize - 1
      BY <1>8, <3>2
    <3>12. j \in part <=> j \in page /\ j < k
      BY <2>1
    <3>13. ASSUME j < k PROVE j \in before \/ j \in part
      BY <3>4, <3>6, <3>9, <3>10, <3>11, <3>12, <3>13
    <3>14. ASSUME r < offset PROVE j < k
      BY <2>2, <3>4, <3>5, <3>7, <3>8, <3>14
    <3>. QED
      BY <3>9, <3>12, <3>13, <3>14
  <2>4. before \subseteq S /\ part \subseteq S
    BY <1>4, <1>6, <2>1
  <2>5. {j \in S : j < k} = before \cup part
    BY <2>3, <2>4
  <2>6. before \cap part = {}
    BY <1>9, <2>1
  <2>7. IsFiniteSet(part) /\ Cardinality(part) \in Nat
    BY <1>6, <2>1, FS_Subset, FS_CardinalityType
  <2>8. Cardinality(before \cap part) = 0
    BY <2>6, FS_EmptySet
  <2>9. Cardinality(before \cup part) = Cardinality(before) + Cardinality(part) - 0
    BY <1>5, <2>7, <2>8, FS_Union
  <2>10. Before(S, k) = Cardinality(before \cup part) /\ Before(page, k) = Cardinality(part)
    BY <2>1, <2>5 DEF Before
  <2>. QED
    BY <1>5, <2>7, <2>9, <2>10
<1>. QED
  BY <1>1, <1>3, <1>10, <1>11

\* The rows of one table with some of its keys are as many as those keys.
LEMMA RowsOfKeys ==
  ASSUME NEW table, NEW keys, IsFiniteSet(keys)
  PROVE  /\ IsFiniteSet({<<table, k>> : k \in keys})
         /\ Cardinality({<<table, k>> : k \in keys}) = Cardinality(keys)
<1>1. PICK pairs : pairs = {<<table, k>> : k \in keys}
  OBVIOUS
<1>2. PICK f : f = [k \in keys |-> <<table, k>>]
  OBVIOUS
<1>3. f \in [keys -> pairs] /\ \A p \in pairs : \E k \in keys : f[k] = p
  BY <1>1, <1>2
<1>4. \A j, k \in keys : f[j] = f[k] => j = k
  BY <1>2
<1>5. f \in Bijection(keys, pairs)
  BY <1>3, <1>4 DEF Bijection, Injection, Surjection, IsInjective
<1>. QED
  BY <1>1, <1>5, FS_Bijection DEF ExistsBijection

\* The rows at the start are finitely many.
LEMMA RowsFinite == IsFiniteSet(InitialRows)
<1>1. IsFiniteSet(Selected)
  BY SelectionAssumption, FS_Subset
<1>2. IsFiniteSet(Keys)
  BY SelectionAssumption, FS_Interval DEF Keys
<1>3. IsFiniteSet(Selected \X Keys)
  BY <1>1, <1>2, FS_Product
<1>. QED
  BY <1>3, FS_Subset DEF InitialRows

\* The place of a row: after the earlier tables, and the earlier rows of its own.
LEMMA PlaceIs ==
  ASSUME rows = initial, NEW table \in Selected, NEW key \in Nat
  PROVE  Place(table, key) =
             Cardinality(EarlierRows(table)) + Before(RowKeys(table), key) + 1
<1>1. PICK earlier : earlier = EarlierRows(table)
  OBVIOUS
<1>2. PICK keys : keys = {j \in RowKeys(table) : j < key}
  OBVIOUS
<1>3. PICK same : same = {<<table, j>> : j \in keys}
  OBVIOUS
<1>4. IsFiniteSet(keys) /\ IsFiniteSet(earlier)
  BY <1>1, <1>2, RowKeysFinite, RowsFinite, FS_Subset DEF EarlierRows
<1>5. IsFiniteSet(same) /\ Cardinality(same) = Cardinality(keys)
  BY <1>3, <1>4, RowsOfKeys
<1>6. \A row \in InitialRows :
          row = <<row[1], row[2]>> /\ row[1] \in Nat /\ row[1] \in Selected /\ row[2] \in Keys
  <2>1. SUFFICES ASSUME NEW row \in InitialRows
                 PROVE  /\ row = <<row[1], row[2]>> /\ row[1] \in Nat
                        /\ row[1] \in Selected /\ row[2] \in Keys
    OBVIOUS
  <2>2. row \in Selected \X Keys
    BY DEF InitialRows
  <2>3. row = <<row[1], row[2]>> /\ row[1] \in Selected /\ row[2] \in Keys
    BY <2>2
  <2>. QED
    BY <2>3, SelectionAssumption
<1>7. \A row : row \in same <=>
          row \in InitialRows /\ row[1] = table /\ row[2] < key
  <2>1. ASSUME NEW row \in same
        PROVE  row \in InitialRows /\ row[1] = table /\ row[2] < key
    <3>1. PICK j \in keys : row = <<table, j>>
      BY <1>3
    <3>2. j \in Keys /\ initial[table][j] # Absent /\ j < key
      BY <1>2 DEF RowKeys
    <3>. QED
      BY <3>1, <3>2 DEF InitialRows
  <2>2. ASSUME NEW row \in InitialRows, row[1] = table, row[2] < key
        PROVE  row \in same
    <3>1. row = <<table, row[2]>> /\ row[2] \in Keys
      BY <1>6, <2>2
    <3>2. initial[table][row[2]] # Absent
      BY <2>2 DEF InitialRows
    <3>3. row[2] \in keys
      BY <1>2, <2>2, <3>1, <3>2 DEF RowKeys
    <3>. QED
      BY <1>3, <3>1, <3>3
  <2>. QED
    BY <2>1, <2>2
<1>8. {row \in InitialRows :
          row[1] < table \/ (row[1] = table /\ row[2] < key)} = earlier \cup same
  BY <1>1, <1>7 DEF EarlierRows
<1>9. earlier \cap same = {}
  <2>1. \A row \in earlier : row[1] < table /\ row[1] \in Nat
    BY <1>1, <1>6 DEF EarlierRows
  <2>2. table \in Nat
    BY SelectionAssumption
  <2>. QED
    BY <1>7, <2>1, <2>2
<1>10. Cardinality(earlier \cup same) = Cardinality(earlier) + Cardinality(same) - 0
  <2>1. Cardinality(earlier \cap same) = 0
    BY <1>9, FS_EmptySet
  <2>. QED
    BY <1>4, <1>5, <2>1, FS_Union
<1>11. Cardinality(earlier) \in Nat /\ Cardinality(keys) \in Nat
  BY <1>4, FS_CardinalityType
<1>12. Place(table, key) = Cardinality(earlier \cup same) + 1
  BY <1>8 DEF Place
<1>13. Before(RowKeys(table), key) = Cardinality(keys)
  BY <1>2 DEF Before
<1>. QED
  BY <1>1, <1>5, <1>10, <1>11, <1>12, <1>13

\* The rows of a table and those of the earlier tables are disjoint.
LEMMA EarlierThrough ==
  ASSUME rows = initial, NEW table \in Selected
  PROVE  Cardinality({row \in InitialRows : row[1] < table \/ row[1] = table}) =
             Cardinality(EarlierRows(table)) + Cardinality(RowKeys(table))
<1>1. PICK last : last = LastKey + 1
  OBVIOUS
<1>2. last \in Nat /\ \A j \in Keys : j < last
  BY <1>1, SelectionAssumption DEF Keys
<1>3. \A row \in InitialRows : row[2] \in Keys
  BY DEF InitialRows
<1>4. PICK through : through = {row \in InitialRows : row[1] < table \/ row[1] = table}
  OBVIOUS
<1>5. through = {row \in InitialRows :
                    row[1] < table \/ (row[1] = table /\ row[2] < last)}
  BY <1>2, <1>3, <1>4
<1>6. {j \in RowKeys(table) : j < last} = RowKeys(table)
  BY <1>2 DEF RowKeys
<1>7. Before(RowKeys(table), last) = Cardinality(RowKeys(table))
  BY <1>6 DEF Before
<1>8. Cardinality(through) + 1 =
          Cardinality(EarlierRows(table)) + Cardinality(RowKeys(table)) + 1
  BY <1>2, <1>5, <1>7, PlaceIs DEF Place
<1>9. /\ Cardinality(through) \in Nat /\ Cardinality(EarlierRows(table)) \in Nat
      /\ Cardinality(RowKeys(table)) \in Nat
  BY <1>4, RowsFinite, RowKeysFinite, FS_Subset, FS_CardinalityType DEF EarlierRows
<1>. QED
  BY <1>4, <1>8, <1>9

RowBefore(left, right) ==
  left[1] < right[1] \/ (left[1] = right[1] /\ left[2] < right[2])

\* Two rows with one place are one row.
LEMMA PlaceOfOneRow ==
  ASSUME NEW left \in InitialRows, NEW right \in InitialRows,
         Place(left[1], left[2]) = Place(right[1], right[2])
  PROVE  left = right
<1>1. \A row \in InitialRows :
          row = <<row[1], row[2]>> /\ row[1] \in Nat /\ row[2] \in Nat
  <2>1. SUFFICES ASSUME NEW row \in InitialRows
                 PROVE  row = <<row[1], row[2]>> /\ row[1] \in Nat /\ row[2] \in Nat
    OBVIOUS
  <2>2. row \in Selected \X Keys
    BY DEF InitialRows
  <2>3. row = <<row[1], row[2]>> /\ row[1] \in Selected /\ row[2] \in Keys
    BY <2>2
  <2>. QED
    BY <2>3, SelectionAssumption DEF Keys
<1>2. ASSUME NEW l \in InitialRows, NEW r \in InitialRows, RowBefore(l, r)
      PROVE  Place(l[1], l[2]) # Place(r[1], r[2])
  <2>1. PICK L : L = {row \in InitialRows :
                         row[1] < l[1] \/ (row[1] = l[1] /\ row[2] < l[2])}
    OBVIOUS
  <2>2. PICK R : R = {row \in InitialRows :
                         row[1] < r[1] \/ (row[1] = r[1] /\ row[2] < r[2])}
    OBVIOUS
  <2>3. L \subseteq R
    <3>1. SUFFICES ASSUME NEW row \in InitialRows,
                          row[1] < l[1] \/ (row[1] = l[1] /\ row[2] < l[2])
                   PROVE  row[1] < r[1] \/ (row[1] = r[1] /\ row[2] < r[2])
      BY <2>1, <2>2
    <3>. QED
      BY <1>1, <1>2, <3>1 DEF RowBefore
  <2>4. l \in R
    BY <1>2, <2>2 DEF RowBefore
  <2>5. l \notin L
    BY <1>1, <2>1
  <2>6. IsFiniteSet(R)
    BY <2>2, RowsFinite, FS_Subset
  <2>7. Cardinality(L) # Cardinality(R) /\ IsFiniteSet(L)
    BY <2>3, <2>4, <2>5, <2>6, FS_Subset
  <2>8. Cardinality(L) \in Nat /\ Cardinality(R) \in Nat
    BY <2>6, <2>7, FS_CardinalityType
  <2>9. /\ Place(l[1], l[2]) = Cardinality(L) + 1
        /\ Place(r[1], r[2]) = Cardinality(R) + 1
    BY <2>1, <2>2 DEF Place
  <2>. QED
    BY <2>7, <2>8, <2>9
<1>3. left = right \/ RowBefore(left, right) \/ RowBefore(right, left)
  BY <1>1 DEF RowBefore
<1>. QED
  BY <1>2, <1>3

-----------------------------------------------------------------------------
(* The log of one client. *)

\* Entries numbered without gaps below n are n - 1.
LEMMA NumberedBelow ==
  ASSUME NEW L, NEW f \in [L -> Nat \ {0}], NEW n \in Nat \ {0},
         \A left, right \in L : f[left] = f[right] => left = right,
         \A m \in 1..n - 1 : \E e \in L : f[e] = m
  PROVE  Cardinality({e \in L : f[e] < n}) = n - 1
<1>1. PICK B : B = {e \in L : f[e] < n}
  OBVIOUS
<1>2. PICK g : g = [e \in B |-> f[e]]
  OBVIOUS
<1>3. \A e \in B : g[e] \in 1..n - 1
  BY <1>1, <1>2
<1>4. \A m \in 1..n - 1 : \E e \in B : g[e] = m
  <2>1. SUFFICES ASSUME NEW m \in 1..n - 1 PROVE \E e \in B : g[e] = m
    OBVIOUS
  <2>2. PICK e \in L : f[e] = m
    OBVIOUS
  <2>3. m < n
    OBVIOUS
  <2>4. e \in B
    BY <1>1, <2>2, <2>3
  <2>. QED
    BY <1>2, <2>2, <2>4
<1>5. \A left, right \in B : g[left] = g[right] => left = right
  BY <1>1, <1>2
<1>6. g \in Injection(B, 1..n - 1) /\ g \in Surjection(B, 1..n - 1)
  BY <1>2, <1>3, <1>4, <1>5 DEF Injection, IsInjective, Surjection
<1>7. IsFiniteSet(1..n - 1) /\ Cardinality(1..n - 1) = n - 1
  <2>1. 1 \in Int /\ n - 1 \in Int
    OBVIOUS
  <2>2. IsFiniteSet(1..n - 1)
        /\ Cardinality(1..n - 1) = IF 1 > n - 1 THEN 0 ELSE (n - 1) - 1 + 1
    BY <2>1, FS_Interval
  <2>. QED
    BY <2>2
<1>8. Cardinality(B) = Cardinality(1..n - 1)
  BY <1>6, <1>7, FS_Injection
<1>. QED
  BY <1>1, <1>7, <1>8

\* Entries with sequences and, for each client, positions without gaps.
GapFree(L) ==
  /\ L \subseteq EntryType /\ IsFiniteSet(L) /\ Cardinality(L) \in Nat
  /\ \A e \in L : e.sequence <= Cardinality(L)
  /\ \A left, right \in L :
        left.sequence = right.sequence \/ SamePosition(left.proposal, right.proposal)
            => left = right
  /\ \A e \in L : \A n \in 1..e.proposal.clientSequence - 1 :
        \E earlier \in L : /\ earlier.proposal.clientId = e.proposal.clientId
                          /\ earlier.proposal.clientSequence = n
                          /\ earlier.sequence < e.sequence

\* Those of one client have their positions for sequences.
LEMMA OneClientInOrder ==
  ASSUME NEW L, GapFree(L),
         \A left, right \in L : left.proposal.clientId = right.proposal.clientId,
         NEW entry \in L
  PROVE  entry.sequence = entry.proposal.clientSequence
<1>1. PICK n : n = entry.sequence
  OBVIOUS
<1>2. PICK c : c = entry.proposal.clientSequence
  OBVIOUS
<1>3. \A e \in L : /\ e.sequence \in Nat \ {0}
                   /\ e.proposal.clientSequence \in Nat \ {0}
  BY DEF GapFree, EntryType, ProposalType
<1>4. n \in Nat \ {0} /\ c \in Nat \ {0}
  BY <1>1, <1>2, <1>3
<1>5. PICK size : size = Cardinality(L)
  OBVIOUS
<1>6. size \in Nat /\ \A e \in L : e.sequence <= size
  BY <1>5 DEF GapFree
<1>7. PICK s : s = [e \in L |-> e.sequence]
  OBVIOUS
<1>8. PICK p : p = [e \in L |-> e.proposal.clientSequence]
  OBVIOUS
<1>9. \A left, right \in L : /\ s[left] = s[right] => left = right
                             /\ p[left] = p[right] => left = right
  <2>1. \A left, right \in L : left.sequence = right.sequence => left = right
    BY DEF GapFree
  <2>2. \A left, right \in L :
            left.proposal.clientSequence = right.proposal.clientSequence => left = right
    BY DEF GapFree, SamePosition
  <2>. QED
    BY <1>7, <1>8, <2>1, <2>2
<1>10. s \in [L -> Nat \ {0}] /\ p \in [L -> Nat \ {0}]
  BY <1>3, <1>7, <1>8
<1>11. \A m \in 1..n - 1 : \E e \in L : s[e] = m
  <2>1. \A e \in L : s[e] \in 1..size
    BY <1>3, <1>6, <1>7
  <2>2. s \in Injection(L, 1..size)
    BY <1>7, <1>9, <2>1 DEF Injection, IsInjective
  <2>3. IsFiniteSet(1..size) /\ Cardinality(1..size) = size
    <3>1. IsFiniteSet(1..size)
          /\ Cardinality(1..size) = IF 1 > size THEN 0 ELSE size - 1 + 1
      BY <1>6, FS_Interval
    <3>. QED
      BY <1>6, <3>1
  <2>4. s \in Surjection(L, 1..size)
    BY <1>5, <2>2, <2>3, FS_Injection
  <2>5. \A m \in 1..n - 1 : m \in 1..size
    <3>1. n <= size
      BY <1>1, <1>6
    <3>. QED
      BY <1>4, <1>6, <3>1
  <2>. QED
    BY <2>4, <2>5 DEF Surjection
<1>12. ASSUME NEW e \in L, NEW d \in L,
              e.proposal.clientSequence < d.proposal.clientSequence
       PROVE  e.sequence < d.sequence
  <2>1. e.proposal.clientSequence \in 1..d.proposal.clientSequence - 1
    BY <1>3, <1>12
  <2>2. PICK m : m = e.proposal.clientSequence
    OBVIOUS
  <2>3. PICK earlier \in L : /\ earlier.proposal.clientId = d.proposal.clientId
                             /\ earlier.proposal.clientSequence = m
                             /\ earlier.sequence < d.sequence
    BY <2>1, <2>2 DEF GapFree
  <2>4. SamePosition(earlier.proposal, e.proposal)
    BY <2>2, <2>3 DEF SamePosition
  <2>5. earlier = e
    BY <2>4 DEF GapFree
  <2>. QED
    BY <2>3, <2>5
<1>13. \A m \in 1..c - 1 : \E e \in L : p[e] = m
  <2>1. SUFFICES ASSUME NEW m \in 1..c - 1 PROVE \E e \in L : p[e] = m
    OBVIOUS
  <2>2. \E e \in L : e.proposal.clientSequence = m
    BY <1>2 DEF GapFree
  <2>. QED
    BY <1>8, <2>2
<1>14. \A e \in L : s[e] < n <=> p[e] < c
  <2>1. SUFFICES ASSUME NEW e \in L PROVE s[e] < n <=> p[e] < c
    OBVIOUS
  <2>2. s[e] = e.sequence /\ p[e] = e.proposal.clientSequence
    BY <1>7, <1>8
  <2>3. s[e] \in Nat /\ p[e] \in Nat
    BY <1>10
  <2>4. p[e] < c => s[e] < n
    BY <1>1, <1>2, <1>12, <2>2
  <2>5. c < p[e] => n < s[e]
    BY <1>1, <1>2, <1>12, <2>2
  <2>6. c = p[e] => s[e] = n
    BY <1>1, <1>2, <1>7, <1>8, <1>9
  <2>. QED
    BY <1>4, <2>3, <2>4, <2>5, <2>6
<1>15. Cardinality({e \in L : s[e] < n}) = n - 1
  BY <1>4, <1>9, <1>10, <1>11, NumberedBelow
<1>16. Cardinality({e \in L : p[e] < c}) = c - 1
  BY <1>4, <1>9, <1>10, <1>13, NumberedBelow
<1>17. {e \in L : s[e] < n} = {e \in L : p[e] < c}
  BY <1>14
<1>18. n = c
  <2>1. n - 1 = c - 1
    BY <1>15, <1>16, <1>17
  <2>. QED
    BY <1>4, <2>1
<1>. QED
  BY <1>1, <1>2, <1>18

\* A sound log is free of gaps.
LEMMA SoundGapFree ==
  /\ LogSound /\ log \subseteq EntryType => GapFree(log)
  /\ LogSound' /\ log' \subseteq EntryType => GapFree(log')
<1>1. ASSUME LogSound, log \subseteq EntryType PROVE GapFree(log)
  <2>1. IsFiniteSet(log) /\ Cardinality(log) \in Nat
    BY <1>1, HeadType DEF Head
  <2>. QED
    BY <1>1, <2>1 DEF LogSound, SequencesContiguous, PositionsContiguous, GapFree, Head
<1>2. ASSUME LogSound', log' \subseteq EntryType PROVE GapFree(log')
  <2>1. IsFiniteSet(log') /\ Cardinality(log') \in Nat
    BY <1>2, FS_CardinalityType DEF LogSound, SequencesContiguous
  <2>. QED
    BY <1>2, <2>1
    DEF LogSound, SequencesContiguous, PositionsContiguous, SamePosition, GapFree, Head
<1>. QED
  BY <1>1, <1>2

-----------------------------------------------------------------------------
(* Steps over unchanged tables. *)

\* Places are those of the rows at the start.
LEMMA PlacesKept ==
  ASSUME rows' = rows, initial' = initial
  PROVE  /\ \A p : AtPlace(p)' <=> AtPlace(p)
         /\ InitialRows' = InitialRows
         /\ \A t : EarlierRows(t)' = EarlierRows(t) /\ RowKeys(t)' = RowKeys(t)
<1>1. InitialRows' = InitialRows
  BY DEF InitialRows
<1>2. \A t, k : Place(t, k)' = Place(t, k)
  BY <1>1 DEF Place
<1>3. \A p : AtPlace(p)' <=> AtPlace(p)
  BY <1>1, <1>2 DEF AtPlace
<1>. QED
  BY <1>1, <1>3 DEF EarlierRows, RowKeys

\* The other runs stay where they are.
LEMMA QuietLocal ==
  ASSUME BootstrapSteps, QuietSteps, changes = 0,
         NEW b \in Bootstraps, NEW run \in RunType, Local(b, run),
         log \subseteq log', LogSound', QuietLog', QuietRun(b)'
  PROVE  QuietSteps'
<1>1. /\ runs' = [runs EXCEPT ![b] = run]
      /\ rows' = rows /\ initial' = initial /\ changes' = changes
  BY DEF Local
<1>2. rows = initial /\ LogSound /\ runs \in [Bootstraps -> RunType]
  BY DEF QuietSteps, BootstrapSteps, BootstrapTypeOK
<1>3. Head \in Nat /\ Head' \in Nat /\ Head <= Head'
  <2>1. IsFiniteSet(log') /\ IsFiniteSet(log)
    BY <1>2 DEF LogSound, SequencesContiguous
  <2>2. Cardinality(log) \in Nat /\ Cardinality(log') \in Nat
        /\ Cardinality(log) <= Cardinality(log')
    BY <2>1, FS_Subset, FS_CardinalityType
  <2>. QED
    BY <2>2 DEF Head
<1>4. ASSUME NEW a \in Bootstraps, a # b PROVE QuietRun(a)'
  <2>1. runs'[a] = runs[a] /\ runs[a].base \in Nat
    BY <1>1, <1>2, <1>4 DEF RunType
  <2>2. QuietRun(a)
    BY DEF QuietSteps
  <2>3. /\ \A p : AtPlace(p)' <=> AtPlace(p)
        /\ InitialRows' = InitialRows
        /\ \A t : EarlierRows(t)' = EarlierRows(t) /\ RowKeys(t)' = RowKeys(t)
    BY <1>1, PlacesKept
  <2>4. Underway(a)' = Underway(a) /\ Reached(a)' = Reached(a)
    BY <2>1 DEF Underway, Reached
  <2>5. runs[a].base <= Head => runs[a].base <= Head'
    BY <1>3, <2>1
  <2>. QED
    BY <2>1, <2>2, <2>3, <2>4, <2>5 DEF QuietRun
<1>. QED
  BY <1>1, <1>2, <1>4 DEF QuietSteps

\* The entries are still those of unchanged rows.
LEMMA QuietLogKept ==
  ASSUME QuietLog, log' = log, rows' = rows, initial' = initial
  PROVE  QuietLog'
<1>1. \A p : AtPlace(p)' <=> AtPlace(p)
  BY PlacesKept
<1>. QED
  BY <1>1 DEF QuietLog

\* Some run fails.
LEMMA QuietFails ==
  ASSUME BootstrapSteps, QuietSteps, changes = 0,
         NEW b \in Bootstraps, Fails(b), log \subseteq log', LogSound', QuietLog'
  PROVE  QuietSteps'
<1>1. runs[b] \in RunType
  BY DEF BootstrapSteps, BootstrapTypeOK
<1>2. PICK run : run = [runs[b] EXCEPT !.pc = "failed", !.proposals = {}]
  OBVIOUS
<1>3. run \in RunType /\ run.pc = "failed"
  BY <1>1, <1>2 DEF RunType
<1>4. Local(b, run)
  BY <1>2 DEF Fails
<1>5. runs'[b] = run
  BY <1>4 DEF BootstrapSteps, BootstrapTypeOK, Local
<1>6. ~ Underway(b)'
  BY <1>3, <1>5 DEF Underway
<1>. QED
  BY <1>3, <1>4, <1>6, QuietLocal DEF QuietRun

\* What QuietRun says of a run without a batch, in numbers.
QuietCounts(b, run) ==
  /\ run.proposals = {}
  /\ run.offset <= Cardinality(RowKeys(run.table))
  /\ run.clientSequence = Cardinality(EarlierRows(run.table)) + run.offset + 1
  /\ run.clientSequence = run.operationCount + 1
  /\ run.clientSequence <= run.base + 1 /\ run.base <= Head
  /\ run.pc = "completed" => run.clientSequence = Cardinality(InitialRows) + 1

\* Without a batch, the two say the same.
LEMMA QuietCountsNow ==
  ASSUME BootstrapSteps, NEW b \in Bootstraps, Underway(b), runs[b].pc # "commit",
         QuietRun(b)
  PROVE  QuietCounts(b, runs[b])
<1>1. runs[b].proposals = {} /\ runs[b] \in RunType
  BY DEF BootstrapSteps, BootstrapTypeOK, RunSound, BatchSound
<1>2. Cardinality(runs[b].proposals) = 0
  BY <1>1, FS_EmptySet
<1>3. runs[b].offset \in Nat /\ runs[b].clientSequence \in Nat
      /\ runs[b].operationCount \in Nat
  BY <1>1 DEF RunType
<1>4. Reached(b) = runs[b].clientSequence /\ runs[b].offset + 0 = runs[b].offset
      /\ runs[b].operationCount + 0 = runs[b].operationCount
  BY <1>2, <1>3 DEF Reached
<1>5. Cardinality(EarlierRows(runs[b].table)) \in Nat
  BY RowsFinite, FS_Subset, FS_CardinalityType DEF EarlierRows
<1>6. PICK earlier : earlier = Cardinality(EarlierRows(runs[b].table))
  OBVIOUS
<1>7. earlier + runs[b].offset + 0 + 1 = earlier + runs[b].offset + 1
  BY <1>3, <1>5, <1>6
<1>. QED
  BY <1>1, <1>2, <1>4, <1>6, <1>7 DEF QuietRun, QuietCounts

\* And after a step.
LEMMA QuietCountsNext ==
  ASSUME BootstrapSteps, NEW b \in Bootstraps, NEW run \in RunType, Local(b, run),
         QuietCounts(b, run), log' = log
  PROVE  QuietRun(b)'
<1>1. runs'[b] = run /\ rows' = rows /\ initial' = initial
  BY DEF BootstrapSteps, BootstrapTypeOK, Local
<1>2. Cardinality(runs'[b].proposals) = 0 /\ run.proposals = {}
  BY <1>1, FS_EmptySet DEF QuietCounts
<1>3. run.offset \in Nat /\ run.clientSequence \in Nat /\ run.operationCount \in Nat
  BY DEF RunType
<1>4. Reached(b)' = run.clientSequence /\ run.offset + 0 = run.offset
      /\ run.operationCount + 0 = run.operationCount
  BY <1>1, <1>2, <1>3 DEF Reached
<1>5. PICK earlier : earlier = Cardinality(EarlierRows(run.table))
  OBVIOUS
<1>6. earlier \in Nat
  BY <1>5, RowsFinite, FS_Subset, FS_CardinalityType DEF EarlierRows
<1>7. earlier + run.offset + 0 + 1 = earlier + run.offset + 1
  BY <1>3, <1>6
<1>8. /\ InitialRows' = InitialRows
      /\ \A t : EarlierRows(t)' = EarlierRows(t) /\ RowKeys(t)' = RowKeys(t)
  BY <1>1, PlacesKept
<1>9. Head' = Head
  BY DEF Head
<1>. QED
  BY <1>1, <1>2, <1>4, <1>5, <1>7, <1>8, <1>9 DEF QuietRun, QuietCounts

\* A run goes on without a batch, and its counts still agree.
LEMMA QuietGoesOn ==
  ASSUME BootstrapSteps, QuietSteps, changes = 0, log' = log,
         NEW b \in Bootstraps, NEW run \in RunType, Local(b, run), QuietCounts(b, run)
  PROVE  QuietSteps'
<1>1. QuietRun(b)'
  BY QuietCountsNext
<1>2. rows' = rows /\ initial' = initial
  BY DEF Local
<1>3. QuietLog' /\ LogSound'
  BY <1>2, QuietLogKept, LogKept DEF QuietSteps, BootstrapSteps
<1>. QED
  BY <1>1, <1>3, QuietLocal

\* The head and the history are looked at.
LEMMA QuietProbe ==
  ASSUME BootstrapSteps, QuietSteps, changes = 0,
         NEW b \in Bootstraps, Probe(b) \/ CheckHistory(b)
  PROVE  QuietSteps'
<1>1. runs[b] \in RunType /\ LogSound /\ QuietRun(b)
  BY DEF BootstrapSteps, BootstrapTypeOK, QuietSteps
<1>2. runs[b].pc \in {"probe", "check"} /\ log' = log /\ Underway(b)
  BY DEF Probe, CheckHistory, Underway
<1>3. QuietCounts(b, runs[b])
  BY <1>1, <1>2, QuietCountsNow
<1>4. ASSUME NEW run \in RunType, Local(b, run), run.pc \in {"check", "read"},
             run.proposals = runs[b].proposals, run.base = runs[b].base,
             run.clientSequence = runs[b].clientSequence,
             run.operationCount = runs[b].operationCount,
             run.table = runs[b].table, run.offset = runs[b].offset
      PROVE  QuietSteps'
  <2>1. QuietCounts(b, run)
    BY <1>3, <1>4 DEF QuietCounts
  <2>. QED
    BY <1>2, <1>4, <2>1, QuietGoesOn
<1>5. CASE Probe(b)
  <2>1. PICK run : run = [runs[b] EXCEPT !.pc = "check", !.probed = Head]
    OBVIOUS
  <2>2. Local(b, run)
    BY <1>5, <2>1 DEF Probe
  <2>3. run \in RunType
    BY <1>1, <2>1, HeadType DEF RunType
  <2>4. run.pc = "check" /\ run.proposals = runs[b].proposals
        /\ run.base = runs[b].base /\ run.operationCount = runs[b].operationCount
        /\ run.clientSequence = runs[b].clientSequence
        /\ run.table = runs[b].table /\ run.offset = runs[b].offset
    BY <1>1, <2>1 DEF RunType
  <2>. QED
    BY <1>4, <2>2, <2>3, <2>4
<1>6. CASE CheckHistory(b)
  <2>1. CASE EmptyHistory(b)
    <3>1. PICK run : run = [runs[b] EXCEPT !.pc = "read"]
      OBVIOUS
    <3>2. Local(b, run)
      BY <1>6, <2>1, <3>1 DEF CheckHistory
    <3>3. run \in RunType
      BY <1>1, <3>1 DEF RunType
    <3>4. run.pc = "read" /\ run.proposals = runs[b].proposals
          /\ run.base = runs[b].base /\ run.operationCount = runs[b].operationCount
          /\ run.clientSequence = runs[b].clientSequence
          /\ run.table = runs[b].table /\ run.offset = runs[b].offset
      BY <1>1, <3>1 DEF RunType
    <3>. QED
      BY <1>4, <3>2, <3>3, <3>4
  <2>2. CASE ~ EmptyHistory(b)
    <3>1. Fails(b)
      BY <1>6, <2>2 DEF CheckHistory
    <3>2. rows' = rows /\ initial' = initial
      BY <3>1 DEF Fails, Local
    <3>3. LogSound' /\ QuietLog'
      BY <1>1, <1>2, <3>2, LogKept, QuietLogKept DEF QuietSteps
    <3>. QED
      BY <1>2, <3>1, <3>3, QuietFails
  <2>. QED
    BY <2>1, <2>2
<1>. QED
  BY <1>5, <1>6

\* An empty page: the offset is the number of rows of the table.
LEMMA TableCounted ==
  ASSUME BootstrapSteps, NEW b \in Bootstraps, QuietCounts(b, runs[b]),
         Page(runs[b].table, runs[b].offset) = {}
  PROVE  runs[b].offset = Cardinality(RowKeys(runs[b].table))
<1>1. PICK S : S = RowKeys(runs[b].table)
  OBVIOUS
<1>2. S \in SUBSET Nat /\ IsFiniteSet(S) /\ (\A j \in S : j <= LastKey)
      /\ Cardinality(S) \in Nat
  BY <1>1, RowKeysFinite, FS_CardinalityType
<1>3. PICK offset : offset = runs[b].offset
  OBVIOUS
<1>4. offset \in Nat /\ offset <= Cardinality(S)
  BY <1>1, <1>3 DEF QuietCounts, BootstrapSteps, BootstrapTypeOK, RunType
<1>5. ASSUME offset < Cardinality(S) PROVE FALSE
  <2>1. PICK k \in S : Before(S, k) = offset
    BY <1>2, <1>4, <1>5, SelectionAssumption, PlaceTaken
  <2>2. Before(S, k) < offset
    BY <1>1, <1>3, <1>4, EmptyPage
  <2>. QED
    BY <1>4, <2>1, <2>2
<1>. QED
  BY <1>1, <1>2, <1>3, <1>4, <1>5

\* The page of unchanged rows: its positions are their places.
LEMMA QuietPage ==
  ASSUME BootstrapSteps, QuietSteps, changes = 0,
         NEW b \in Bootstraps, runs[b].pc = "read", log' = log,
         NEW keys, keys = Page(runs[b].table, runs[b].offset), keys # {},
         Readable(runs[b].table, keys),
         NEW run, run = [runs[b] EXCEPT
                            !.pc = "commit",
                            !.proposals = Proposals(b, runs[b].table, keys),
                            !.clientSequence = @ + Cardinality(keys)],
         Local(b, run)
  PROVE  QuietSteps'
<1>1. /\ runs[b] \in RunType /\ BootstrapTypeOK /\ LogSound /\ QuietRun(b)
      /\ rows = initial /\ QuietLog
  BY DEF BootstrapSteps, BootstrapTypeOK, QuietSteps
<1>2. Underway(b) /\ QuietCounts(b, runs[b])
  <2>1. Underway(b)
    BY DEF Underway
  <2>. QED
    BY <1>1, <2>1, QuietCountsNow
<1>3. PICK table : table = runs[b].table
  OBVIOUS
<1>4. PICK offset : offset = runs[b].offset
  OBVIOUS
<1>5. PICK start : start = runs[b].clientSequence
  OBVIOUS
<1>6. PICK earlier : earlier = Cardinality(EarlierRows(table))
  OBVIOUS
<1>7. PICK size : size = Cardinality(keys)
  OBVIOUS
<1>8. /\ table \in Selected /\ offset \in Nat /\ start \in Nat \ {0}
      /\ runs[b].operationCount \in Nat /\ runs[b].base \in Nat
  BY <1>1, <1>3, <1>4, <1>5 DEF RunType
<1>9. earlier \in Nat
  BY <1>6, RowsFinite, FS_Subset, FS_CardinalityType DEF EarlierRows
<1>10. /\ keys \in SUBSET RowKeys(table) /\ keys \in SUBSET Nat /\ IsFiniteSet(keys)
       /\ size \in Nat
  BY <1>3, <1>4, <1>7, <1>8, PageType
<1>11. PICK P : P = Proposals(b, table, keys)
  OBVIOUS
<1>12. P \subseteq ProposalType /\ Cardinality(P) = size
  BY <1>1, <1>3, <1>7, <1>8, <1>10, <1>11, BatchOfPage
<1>13. /\ offset <= Cardinality(RowKeys(table))
       /\ start = earlier + offset + 1
       /\ start = runs[b].operationCount + 1
       /\ start <= runs[b].base + 1 /\ runs[b].base <= Head
  BY <1>2, <1>3, <1>4, <1>5, <1>6 DEF QuietCounts
<1>14. /\ \A k \in keys : Before(RowKeys(table), k) = offset + Before(keys, k)
       /\ offset + size <= Cardinality(RowKeys(table))
  BY <1>3, <1>4, <1>7, <1>8, <1>13, PagePlaces
<1>15. PICK last : last = start + size
  OBVIOUS
<1>16. last \in Nat \ {0}
  BY <1>8, <1>10, <1>15
<1>17. run = [runs[b] EXCEPT !.pc = "commit", !.proposals = P, !.clientSequence = last]
  BY <1>3, <1>5, <1>7, <1>11, <1>15
<1>18. /\ run \in RunType /\ run.pc = "commit" /\ run.proposals = P
       /\ run.table = table /\ run.offset = offset /\ run.clientSequence = last
       /\ run.base = runs[b].base /\ run.operationCount = runs[b].operationCount
  BY <1>1, <1>3, <1>4, <1>12, <1>16, <1>17 DEF RunType
<1>19. runs'[b] = run /\ rows' = rows /\ initial' = initial
  BY <1>1 DEF BootstrapTypeOK, Local
<1>20. /\ \A p : AtPlace(p)' <=> AtPlace(p)
       /\ InitialRows' = InitialRows
       /\ \A t : EarlierRows(t)' = EarlierRows(t) /\ RowKeys(t)' = RowKeys(t)
  BY <1>19, PlacesKept
<1>21. ASSUME NEW p \in P PROVE AtPlace(p)
  <2>1. PICK k \in keys : p = ProposalOf(b, table, keys, k)
    BY <1>11 DEF Proposals
  <2>2. p.clientSequence = start + Before(keys, k)
        /\ p.intent = [table |-> table, key |-> k, row |-> rows[table][k]]
    BY <1>5, <2>1 DEF ProposalOf
  <2>3. p.intent.table = table /\ p.intent.key = k /\ p.intent.row = rows[table][k]
    BY <2>2
  <2>4. k \in Nat /\ k \in Keys /\ rows[table][k] # Absent
    BY <1>10 DEF RowKeys
  <2>5. <<table, k>> \in InitialRows
    <3>1. <<table, k>> \in Selected \X Keys
      BY <1>8, <2>4
    <3>. QED
      BY <1>1, <2>4, <3>1 DEF InitialRows
  <2>6. PICK r : r = Before(keys, k)
    OBVIOUS
  <2>7. r \in Nat
    BY <1>10, <2>4, <2>6, BeforeType
  <2>8. Place(table, k) = earlier + (offset + r) + 1
    BY <1>1, <1>6, <1>8, <1>14, <2>4, <2>6, PlaceIs
  <2>9. start + r = earlier + (offset + r) + 1
    BY <1>8, <1>9, <1>13, <2>7
  <2>. QED
    BY <1>1, <2>2, <2>3, <2>5, <2>6, <2>8, <2>9 DEF AtPlace
<1>22. Reached(b)' = start
  BY <1>8, <1>10, <1>12, <1>15, <1>18, <1>19 DEF Reached
<1>23. /\ last = earlier + offset + size + 1
       /\ last = run.operationCount + size + 1
  BY <1>8, <1>9, <1>10, <1>13, <1>15, <1>18
<1>24. QuietRun(b)'
  <2>1. Head' = Head
    BY DEF Head
  <2>2. \A p \in P : AtPlace(p)'
    BY <1>20, <1>21
  <2>. QED
    BY <1>6, <1>12, <1>13, <1>14, <1>18, <1>19, <1>20, <1>22, <1>23, <2>1, <2>2 DEF QuietRun
<1>25. QuietLog' /\ LogSound'
  BY <1>1, <1>19, QuietLogKept, LogKept
<1>. QED
  BY <1>18, <1>24, <1>25, QuietLocal

\* The pages of unchanged tables.
LEMMA QuietReadPage ==
  ASSUME BootstrapSteps, QuietSteps, changes = 0, NEW b \in Bootstraps, ReadPage(b)
  PROVE  QuietSteps'
<1>1. /\ runs[b] \in RunType /\ LogSound /\ QuietRun(b) /\ rows = initial /\ QuietLog
  BY DEF BootstrapSteps, BootstrapTypeOK, QuietSteps
<1>2. runs[b].pc = "read" /\ log' = log /\ Underway(b)
  BY DEF ReadPage, Underway
<1>3. PICK keys : keys = Page(runs[b].table, runs[b].offset)
  OBVIOUS
<1>4. QuietCounts(b, runs[b])
  BY <1>1, <1>2, QuietCountsNow
<1>5. PICK table : table = runs[b].table
  OBVIOUS
<1>6. table \in Selected /\ table \in Nat /\ Later(table) \in SUBSET Nat
  BY <1>1, <1>5, SelectionAssumption DEF RunType, Later
<1>7. \A row \in InitialRows : row[1] \in Selected /\ row[1] \in Nat
  BY SelectionAssumption DEF InitialRows
<1>8. PICK through : through = {row \in InitialRows : row[1] < table \/ row[1] = table}
  OBVIOUS
<1>9. ASSUME keys = {}
      PROVE  runs[b].clientSequence = Cardinality(through) + 1
  <2>1. runs[b].offset = Cardinality(RowKeys(table))
    BY <1>3, <1>4, <1>5, <1>9, TableCounted
  <2>2. Cardinality(through) = Cardinality(EarlierRows(table)) + Cardinality(RowKeys(table))
    BY <1>1, <1>6, <1>8, EarlierThrough
  <2>. QED
    BY <1>4, <1>5, <2>1, <2>2 DEF QuietCounts
<1>10. CASE /\ keys = {} /\ Later(runs[b].table) # {}
            /\ Local(b, [runs[b] EXCEPT !.table = Min(Later(runs[b].table)), !.offset = 0])
  <2>1. PICK next : next = Min(Later(table))
    OBVIOUS
  <2>2. next \in Later(table) /\ \A t \in Later(table) : next <= t
    BY <1>5, <1>6, <1>10, <2>1, MinFacts
  <2>3. next \in Selected /\ next \in Nat /\ table < next
    BY <1>6, <2>2 DEF Later
  <2>4. PICK run : run = [runs[b] EXCEPT !.table = next, !.offset = 0]
    OBVIOUS
  <2>5. run \in RunType
    BY <1>1, <2>3, <2>4 DEF RunType
  <2>6. /\ run.pc = "read" /\ run.proposals = runs[b].proposals
        /\ run.table = next /\ run.offset = 0 /\ run.base = runs[b].base
        /\ run.clientSequence = runs[b].clientSequence
        /\ run.operationCount = runs[b].operationCount
    BY <1>1, <1>2, <2>4 DEF RunType
  <2>7. Local(b, run)
    BY <1>5, <1>10, <2>1, <2>4
  <2>8. EarlierRows(next) = through
    <3>1. \A row \in InitialRows : row[1] < next <=> (row[1] < table \/ row[1] = table)
      <4>1. SUFFICES ASSUME NEW row \in InitialRows
                     PROVE  row[1] < next <=> (row[1] < table \/ row[1] = table)
        OBVIOUS
      <4>2. PICK t : t = row[1]
        OBVIOUS
      <4>3. t \in Selected /\ t \in Nat
        BY <1>7, <4>2
      <4>4. table < t => next <= t
        BY <2>2, <4>3 DEF Later
      <4>5. t < next <=> (t < table \/ t = table)
        BY <1>6, <2>3, <4>3, <4>4
      <4>. QED
        BY <4>2, <4>5
    <3>. QED
      BY <1>8, <3>1 DEF EarlierRows
  <2>9. Cardinality(through) \in Nat /\ Cardinality(RowKeys(next)) \in Nat
    BY <1>8, RowsFinite, RowKeysFinite, FS_Subset, FS_CardinalityType
  <2>10. run.clientSequence = Cardinality(EarlierRows(next)) + 0 + 1
    BY <1>9, <1>10, <2>6, <2>8, <2>9
  <2>11. QuietCounts(b, run)
    BY <1>4, <2>6, <2>9, <2>10 DEF QuietCounts
  <2>. QED
    BY <1>2, <2>5, <2>7, <2>11, QuietGoesOn
<1>11. CASE /\ keys = {} /\ Later(runs[b].table) = {}
            /\ Local(b, [runs[b] EXCEPT !.pc = "completed"])
  <2>1. PICK run : run = [runs[b] EXCEPT !.pc = "completed"]
    OBVIOUS
  <2>2. run \in RunType
    BY <1>1, <2>1 DEF RunType
  <2>3. /\ run.pc = "completed" /\ run.proposals = runs[b].proposals
        /\ run.table = runs[b].table /\ run.offset = runs[b].offset
        /\ run.base = runs[b].base
        /\ run.clientSequence = runs[b].clientSequence
        /\ run.operationCount = runs[b].operationCount
    BY <1>1, <2>1 DEF RunType
  <2>4. through = InitialRows
    <3>1. \A row \in InitialRows : ~ (table < row[1])
      BY <1>5, <1>7, <1>11 DEF Later
    <3>2. \A row \in InitialRows : row[1] < table \/ row[1] = table
      BY <1>6, <1>7, <3>1
    <3>. QED
      BY <1>8, <3>2
  <2>5. QuietCounts(b, run)
    BY <1>4, <1>9, <1>11, <2>3, <2>4 DEF QuietCounts
  <2>. QED
    BY <1>2, <1>11, <2>1, <2>2, <2>5, QuietGoesOn
<1>12. CASE Fails(b)
  <2>1. rows' = rows /\ initial' = initial
    BY <1>12 DEF Fails, Local
  <2>2. LogSound' /\ QuietLog'
    BY <1>1, <1>2, <2>1, LogKept, QuietLogKept
  <2>. QED
    BY <1>2, <1>12, <2>2, QuietFails
<1>13. CASE /\ keys # {} /\ Readable(runs[b].table, keys)
            /\ Local(b, [runs[b] EXCEPT
                   !.pc = "commit",
                   !.proposals = Proposals(b, runs[b].table, keys),
                   !.clientSequence = @ + Cardinality(keys)])
  BY <1>2, <1>3, <1>13, QuietPage
<1>. QED
  BY <1>3, <1>10, <1>11, <1>12, <1>13 DEF ReadPage

\* A batch that is not refused is of the client whose log it is: the first
\* row of unchanged tables has the first position, whoever publishes it.
LEMMA BatchOfClient ==
  ASSUME BootstrapSteps, QuietSteps, changes = 0,
         NEW b \in Bootstraps, runs[b].pc = "commit", ~ Refused(b), NEW entry \in log
  PROVE  entry.proposal.clientId = ClientOf[b]
<1>1. /\ LogSound /\ BatchSound(b) /\ PositionsReached(b) /\ QuietLog /\ QuietRun(b)
      /\ log \subseteq EntryType /\ runs[b] \in RunType
  BY DEF BootstrapSteps, BootstrapTypeOK, EntryType, RunSound, QuietSteps
<1>2. SUFFICES \E old \in log : old.proposal.clientId = ClientOf[b]
  BY <1>1 DEF QuietLog
<1>3. Underway(b)
  BY DEF Underway
<1>4. Reached(b) \in Nat \ {0}
  BY <1>1, <1>3 DEF PositionsReached
<1>5. CASE Reached(b) # 1
  <2>1. 1 \in 1..Reached(b) - 1
    BY <1>4, <1>5
  <2>2. Decided(b, 1)
    BY <1>1, <1>3, <2>1 DEF PositionsReached
  <2>. QED
    BY <2>2 DEF Decided
<1>6. CASE Reached(b) = 1
  <2>1. PICK last : last = runs[b].clientSequence
    OBVIOUS
  <2>2. last \in Nat
    BY <1>1, <2>1 DEF RunType
  <2>3. PICK p \in runs[b].proposals : p.clientSequence \in 1..last - 1
    BY <1>1, <1>6, <2>1 DEF BatchSound
  <2>4. 1 \in 1..last - 1
    BY <2>2, <2>3
  <2>5. PICK q \in runs[b].proposals : q.clientSequence = 1
    BY <1>1, <1>6, <2>1, <2>4 DEF BatchSound
  <2>6. \E old \in log : old.proposal.clientSequence = 1
    <3>1. entry.proposal.clientSequence \in Nat \ {0}
      BY <1>1 DEF EntryType, ProposalType
    <3>2. CASE entry.proposal.clientSequence = 1
      BY <3>2
    <3>3. CASE entry.proposal.clientSequence # 1
      <4>1. 1 \in 1..entry.proposal.clientSequence - 1
        BY <3>1, <3>3
      <4>. QED
        BY <1>1, <4>1 DEF LogSound, PositionsContiguous
    <3>. QED
      BY <3>2, <3>3
  <2>7. PICK old \in log : old.proposal.clientSequence = 1
    BY <2>6
  <2>8. AtPlace(old.proposal) /\ AtPlace(q)
    BY <1>1, <1>3 DEF QuietLog, QuietRun
  <2>9. PICK left : left = <<old.proposal.intent.table, old.proposal.intent.key>>
    OBVIOUS
  <2>10. PICK right : right = <<q.intent.table, q.intent.key>>
    OBVIOUS
  <2>11. left \in InitialRows /\ right \in InitialRows
    BY <2>8, <2>9, <2>10 DEF AtPlace
  <2>12. Place(left[1], left[2]) = Place(right[1], right[2])
    BY <2>5, <2>7, <2>8, <2>9, <2>10 DEF AtPlace
  <2>13. left = right
    BY <2>11, <2>12, PlaceOfOneRow
  <2>14. old.proposal.operationId = q.operationId
    BY <1>1, <2>9, <2>10, <2>13 DEF LogSound, IdsSound, BatchSound
  <2>15. old.proposal = q
    BY <2>14 DEF Refused, Conflict
  <2>. QED
    BY <1>1, <2>15 DEF BatchSound
<1>. QED
  BY <1>5, <1>6

\* The log grows by rows at their places.
LEMMA QuietLogGrows ==
  ASSUME BootstrapSteps, QuietSteps, changes = 0, rows' = rows, initial' = initial,
         NEW b \in Bootstraps, runs[b].pc = "commit", ~ Refused(b),
         NEW new, Extends(b, new)
  PROVE  QuietLog'
<1>1. QuietLog /\ QuietRun(b) /\ BatchSound(b) /\ Underway(b)
  BY DEF QuietSteps, BootstrapSteps, RunSound, Underway
<1>2. log' = log \cup new /\ \A e \in new : e.proposal \in runs[b].proposals
  BY DEF Extends
<1>3. \A p : AtPlace(p)' <=> AtPlace(p)
  BY PlacesKept
<1>4. \A e \in log' : AtPlace(e.proposal)'
  BY <1>1, <1>2, <1>3 DEF QuietLog, QuietRun
<1>5. \A e \in new : e.proposal.clientId = ClientOf[b]
  BY <1>1, <1>2 DEF BatchSound
<1>6. \A e \in log : e.proposal.clientId = ClientOf[b]
  BY BatchOfClient
<1>7. \A left, right \in log' : left.proposal.clientId = right.proposal.clientId
  BY <1>2, <1>5, <1>6
<1>. QED
  BY <1>4, <1>7 DEF QuietLog

\* The batch is decided, and the head is past it.
LEMMA QuietCommit ==
  ASSUME BootstrapSteps, QuietSteps, changes = 0, NEW b \in Bootstraps, Commit(b)
  PROVE  QuietSteps'
<1>1. /\ runs[b] \in RunType /\ BootstrapTypeOK /\ LogSound /\ RunSound(b)
      /\ rows = initial /\ QuietLog /\ QuietRun(b)
  BY DEF BootstrapSteps, BootstrapTypeOK, QuietSteps
<1>2. runs[b].pc = "commit" /\ Underway(b)
  BY DEF Commit, Underway
<1>3. CASE Refused(b)
  <2>1. Fails(b) /\ log' = log
    BY <1>3 DEF Commit
  <2>2. rows' = rows /\ initial' = initial
    BY <2>1 DEF Fails, Local
  <2>3. LogSound' /\ QuietLog'
    BY <1>1, <2>1, <2>2, LogKept, QuietLogKept
  <2>. QED
    BY <2>1, <2>3, QuietFails
<1>4. CASE ~ Refused(b)
  <2>1. log' = Appended(runs[b].proposals) /\ Local(b, Advanced(runs[b], Cardinality(log')))
    BY <1>4 DEF Commit
  <2>2. PICK new : Extends(b, new)
    BY <2>1, AppendedExtends
  <2>3. LogSound' /\ log \subseteq log' /\ log' \subseteq EntryType
    BY <1>2, <1>4, <2>2, LogExtended
  <2>4. BootstrapSteps'
    BY CommitKept
  <2>5. PICK size : size = Cardinality(runs[b].proposals)
    OBVIOUS
  <2>6. PICK head : head = Cardinality(log')
    OBVIOUS
  <2>7. size \in Nat /\ head \in Nat /\ Head' = head
    <3>1. IsFiniteSet(runs[b].proposals)
      BY <1>1 DEF RunSound, BatchSound
    <3>2. IsFiniteSet(log')
      BY <2>3 DEF LogSound, SequencesContiguous
    <3>. QED
      BY <2>5, <2>6, <3>1, <3>2, FS_CardinalityType DEF Head
  <2>8. PICK offset : offset = runs[b].offset + size
    OBVIOUS
  <2>9. PICK count : count = runs[b].operationCount + size
    OBVIOUS
  <2>10. offset \in Nat /\ count \in Nat
    BY <1>1, <2>7, <2>8, <2>9 DEF RunType
  <2>11. PICK run : run = [runs[b] EXCEPT !.pc = "read", !.proposals = {}, !.base = head,
                                          !.operationCount = count, !.offset = offset]
    OBVIOUS
  <2>12. run \in RunType
    BY <1>1, <2>7, <2>10, <2>11 DEF RunType
  <2>13. /\ run.pc = "read" /\ run.proposals = {} /\ run.offset = offset
         /\ run.table = runs[b].table /\ run.clientSequence = runs[b].clientSequence
         /\ run.base = head /\ run.operationCount = count
    BY <1>1, <2>11 DEF RunType
  <2>14. Local(b, run)
    BY <2>1, <2>5, <2>6, <2>8, <2>9, <2>11 DEF Advanced
  <2>15. runs'[b] = run /\ rows' = rows /\ initial' = initial
    BY <1>1, <2>14 DEF BootstrapTypeOK, Local
  <2>16. QuietLog'
    BY <1>2, <1>4, <2>2, <2>15, QuietLogGrows
  <2>17. PICK last : last = run.clientSequence
    OBVIOUS
  <2>18. last \in Nat \ {0} /\ last = runs[b].clientSequence
    BY <2>12, <2>13, <2>17 DEF RunType
  <2>19. Cardinality(runs'[b].proposals) = 0 /\ Reached(b)' = last
    BY <2>13, <2>15, <2>17, <2>18, NoBatch
  <2>20. last <= head + 1
    <3>1. CASE last = 1
      BY <2>7, <3>1
    <3>2. CASE last # 1
      <4>1. last - 1 \in 1..last - 1
        BY <2>18, <3>2
      <4>2. PositionsReached(b)' /\ Underway(b)'
        BY <2>4, <2>13, <2>15 DEF BootstrapSteps, RunSound, Underway
      <4>3. Decided(b, last - 1)'
        BY <2>19, <4>1, <4>2 DEF PositionsReached
      <4>4. PICK entry \in log' : entry.proposal.clientSequence = last - 1
        BY <4>3 DEF Decided
      <4>5. entry.sequence = entry.proposal.clientSequence
        BY <2>3, <2>16, <4>4, SoundGapFree, OneClientInOrder DEF QuietLog
      <4>6. entry.sequence <= head
        BY <2>3, <2>7, <4>4 DEF LogSound, SequencesContiguous
      <4>. QED
        BY <2>7, <2>18, <4>4, <4>5, <4>6
    <3>. QED
      BY <3>1, <3>2
  <2>21. PICK earlier : earlier = Cardinality(EarlierRows(run.table))
    OBVIOUS
  <2>22. earlier \in Nat
    BY <2>21, RowsFinite, FS_Subset, FS_CardinalityType DEF EarlierRows
  <2>23. /\ runs[b].offset + size <= Cardinality(RowKeys(run.table))
         /\ last = earlier + runs[b].offset + size + 1
         /\ last = runs[b].operationCount + size + 1
    BY <1>1, <1>2, <2>5, <2>13, <2>18, <2>21 DEF QuietRun
  <2>24. /\ offset + 0 <= Cardinality(RowKeys(run.table))
         /\ last = earlier + offset + 0 + 1
         /\ last = count + 0 + 1
    <3>1. runs[b].offset \in Nat /\ runs[b].operationCount \in Nat
      BY <1>1 DEF RunType
    <3>. QED
      BY <2>7, <2>8, <2>9, <2>10, <2>22, <2>23, <3>1
  <2>25. QuietRun(b)'
    <3>1. /\ InitialRows' = InitialRows
          /\ \A t : EarlierRows(t)' = EarlierRows(t) /\ RowKeys(t)' = RowKeys(t)
      BY <2>15, PlacesKept
    <3>2. head <= head
      BY <2>7
    <3>. QED
      BY <2>7, <2>13, <2>15, <2>17, <2>19, <2>20, <2>21, <2>24, <3>1, <3>2 DEF QuietRun
  <2>. QED
    BY <2>3, <2>12, <2>14, <2>16, <2>25, QuietLocal
<1>. QED
  BY <1>3, <1>4

\* A call fails before it took effect or after.
LEMMA QuietAbort ==
  ASSUME BootstrapSteps, QuietSteps, changes = 0, NEW b \in Bootstraps, Abort(b)
  PROVE  QuietSteps'
<1>1. LogSound /\ QuietLog /\ Fails(b)
  BY DEF BootstrapSteps, QuietSteps, Abort
<1>2. rows' = rows /\ initial' = initial
  BY <1>1 DEF Fails, Local
<1>3. CASE log' = log
  <2>1. LogSound' /\ QuietLog'
    BY <1>1, <1>2, <1>3, LogKept, QuietLogKept
  <2>. QED
    BY <1>1, <1>3, <2>1, QuietFails
<1>4. CASE /\ runs[b].pc = "commit" /\ ~ Refused(b)
           /\ log' = Appended(runs[b].proposals)
  <2>1. PICK new : Extends(b, new)
    BY <1>4, AppendedExtends
  <2>2. LogSound' /\ log \subseteq log'
    BY <1>4, <2>1, LogExtended
  <2>3. QuietLog'
    BY <1>2, <1>4, <2>1, QuietLogGrows
  <2>. QED
    BY <1>1, <2>2, <2>3, QuietFails
<1>. QED
  BY <1>3, <1>4 DEF Abort

-----------------------------------------------------------------------------
(* The invariants. *)

\* At the start nothing is published and no run has begun.
LEMMA QuietStart ==
  ASSUME Init
  PROVE  QuietSteps
<1>1. rows = initial /\ log = {}
  BY DEF Init
<1>2. QuietLog
  BY <1>1 DEF QuietLog
<1>3. ASSUME NEW b \in Bootstraps PROVE QuietRun(b)
  <2>1. PICK least : least = Min(Selected)
    OBVIOUS
  <2>2. least \in Selected /\ \A t \in Selected : least <= t
    BY <2>1, SelectionAssumption, MinFacts
  <2>3. EarlierRows(least) = {}
    <3>1. \A row \in InitialRows : row[1] \in Selected
      BY DEF InitialRows
    <3>2. \A t \in Selected : ~ (t < least)
      BY <2>2, SelectionAssumption
    <3>. QED
      BY <3>1, <3>2 DEF EarlierRows
  <2>4. runs[b] = NewRun
    BY DEF Init
  <2>5. /\ runs[b].pc = "probe" /\ runs[b].proposals = {} /\ runs[b].clientSequence = 1
        /\ runs[b].offset = 0 /\ runs[b].table = least
        /\ runs[b].base = 0 /\ runs[b].operationCount = 0
    BY <2>1, <2>4 DEF NewRun
  <2>6. Cardinality(runs[b].proposals) = 0 /\ Cardinality(EarlierRows(least)) = 0
    BY <2>3, <2>5, FS_EmptySet
  <2>7. Head = 0
    BY <1>1, FS_EmptySet DEF Head
  <2>8. Cardinality(RowKeys(least)) \in Nat
    BY RowKeysFinite, FS_CardinalityType
  <2>9. Reached(b) = 1
    BY <2>5, <2>6 DEF Reached
  <2>10. 0 + 0 <= Cardinality(RowKeys(least)) /\ 1 = 0 + 0 + 0 + 1 /\ 1 = 0 + 0 + 1
         /\ 1 <= 0 + 1 /\ 0 <= 0
    BY <2>8
  <2>. QED
    BY <2>5, <2>6, <2>7, <2>9, <2>10 DEF QuietRun
<1>. QED
  BY <1>1, <1>2, <1>3 DEF QuietSteps

\* Every step over unchanged tables keeps their history exact.
LEMMA QuietStep ==
  ASSUME BootstrapSteps, QuietSteps, [Next]_vars
  PROVE  QuietSteps'
<1>1. changes \in Nat
  BY BatchAssumption DEF BootstrapSteps, BootstrapTypeOK
<1>2. CASE Application
  <2>1. changes' = changes + 1
    BY <1>2 DEF Application, Insert, Update, Delete, ChangeRow
  <2>. QED
    BY <1>1, <2>1 DEF QuietSteps
<1>3. ASSUME NEW b \in Bootstraps, Step(b) \/ Abort(b) PROVE QuietSteps'
  <2>1. changes' = changes
    BY <1>3 DEF Step, Probe, CheckHistory, ReadPage, Commit, Abort, Fails, Local
  <2>2. CASE changes # 0
    BY <2>1, <2>2 DEF QuietSteps
  <2>3. CASE changes = 0
    BY <1>3, <2>3, QuietProbe, QuietReadPage, QuietCommit, QuietAbort DEF Step
  <2>. QED
    BY <2>2, <2>3
<1>4. CASE UNCHANGED vars
  <2>1. /\ rows' = rows /\ log' = log /\ runs' = runs
        /\ initial' = initial /\ changes' = changes
    BY <1>4 DEF vars
  <2>2. /\ \A p : AtPlace(p)' <=> AtPlace(p)
        /\ InitialRows' = InitialRows
        /\ \A t : EarlierRows(t)' = EarlierRows(t) /\ RowKeys(t)' = RowKeys(t)
    BY <2>1, PlacesKept
  <2>3. Head' = Head /\ \A b : Underway(b)' = Underway(b) /\ Reached(b)' = Reached(b)
    BY <2>1 DEF Head, Underway, Reached
  <2>4. QuietLog => QuietLog'
    BY <2>1, <2>2 DEF QuietLog
  <2>5. \A b : QuietRun(b) => QuietRun(b)'
    BY <2>1, <2>2, <2>3 DEF QuietRun
  <2>. QED
    BY <2>1, <2>4, <2>5 DEF QuietSteps
<1>. QED
  BY <1>2, <1>3, <1>4 DEF Next

\* The log of unchanged tables has an entry for a row at most.
LEMMA HeadBounded ==
  ASSUME LogSound, QuietLog
  PROVE  Head <= Cardinality(InitialRows)
<1>1. PICK f : f = [e \in log |-> <<e.proposal.intent.table, e.proposal.intent.key>>]
  OBVIOUS
<1>2. f \in [log -> InitialRows]
  BY <1>1 DEF QuietLog, AtPlace
<1>3. \A left, right \in log : f[left] = f[right] => left = right
  BY <1>1 DEF LogSound, PublishedOnce, Concerns
<1>4. f \in Injection(log, InitialRows)
  BY <1>2, <1>3 DEF Injection, IsInjective
<1>. QED
  BY <1>4, RowsFinite, FS_Injection DEF Head

\* What the invariants say of unchanged tables.
LEMMA QuietExact ==
  ASSUME BootstrapSteps, QuietSteps
  PROVE  QuietBootstrapExact
<1>1. SUFFICES ASSUME changes = 0
               PROVE  /\ \A entry \in log :
                            LET intent == entry.proposal.intent IN
                            /\ <<intent.table, intent.key>> \in InitialRows
                            /\ intent.row = initial[intent.table][intent.key]
                            /\ entry.sequence = Place(intent.table, intent.key)
                      /\ \A b \in Completed :
                            Head = runs[b].base /\ runs[b].base = runs[b].operationCount
                                /\ runs[b].operationCount = Cardinality(InitialRows)
  BY DEF QuietBootstrapExact
<1>2. LogSound /\ QuietLog /\ log \subseteq EntryType
  BY <1>1 DEF BootstrapSteps, BootstrapTypeOK, EntryType, QuietSteps
<1>3. \A entry \in log : entry.sequence = entry.proposal.clientSequence
  BY <1>2, SoundGapFree, OneClientInOrder DEF QuietLog
<1>4. \A entry \in log : AtPlace(entry.proposal)
  BY <1>2 DEF QuietLog
<1>5. ASSUME NEW b \in Completed
      PROVE  /\ Head = runs[b].base /\ runs[b].base = runs[b].operationCount
             /\ runs[b].operationCount = Cardinality(InitialRows)
  <2>1. b \in Bootstraps /\ runs[b].pc = "completed" /\ Underway(b)
    BY DEF Completed, Underway
  <2>2. QuietRun(b) /\ runs[b] \in RunType
    BY <1>1, <2>1 DEF QuietSteps, BootstrapSteps, BootstrapTypeOK
  <2>3. QuietCounts(b, runs[b])
    BY <2>1, <2>2, QuietCountsNow
  <2>4. PICK total : total = Cardinality(InitialRows)
    OBVIOUS
  <2>5. /\ runs[b].clientSequence = total + 1
        /\ runs[b].clientSequence = runs[b].operationCount + 1
        /\ runs[b].clientSequence <= runs[b].base + 1 /\ runs[b].base <= Head
    BY <2>1, <2>3, <2>4 DEF QuietCounts
  <2>6. Head <= total
    BY <1>2, <2>4, HeadBounded
  <2>7. /\ total \in Nat /\ Head \in Nat
        /\ runs[b].operationCount \in Nat /\ runs[b].base \in Nat
    BY <1>2, <2>2, <2>4, RowsFinite, HeadType, FS_CardinalityType DEF RunType
  <2>8. Head = runs[b].base /\ runs[b].base = runs[b].operationCount
        /\ runs[b].operationCount = total
    BY <2>5, <2>6, <2>7
  <2>. QED
    BY <2>4, <2>8
<1>. QED
  BY <1>3, <1>4, <1>5 DEF AtPlace

BootstrapBoth == BootstrapSteps /\ QuietSteps

\* The two are kept together.
LEMMA BothKept == Spec => []BootstrapBoth
<1>1. Init => BootstrapBoth
  BY BootstrapStart, QuietStart DEF BootstrapBoth
<1>2. BootstrapBoth /\ [Next]_vars => BootstrapBoth'
  BY BootstrapStep, QuietStep DEF BootstrapBoth
<1>. QED
  BY <1>1, <1>2, PTL DEF Spec

\* Whatever changes under the pages and whichever runs overlap: the log numbers
\* its entries without gaps and holds no row twice, its positions are those of
\* each client in order, a run's batch follows them, nothing a run has passed
\* is skipped while nothing is deleted, and the runs that complete are of one
\* client (d1-bootstrap.ts:85-152).
THEOREM BootstrapInductive == Spec => []BootstrapInv
<1>1. BootstrapBoth => BootstrapInv
  BY CompletedOfOneClient DEF BootstrapBoth, BootstrapInv
<1>. QED
  BY <1>1, BothKept, PTL

\* A bootstrap that completes has published every row there was at the start,
\* however insertions and updates move the pages (d1-bootstrap.ts:112-143).
THEOREM RowsNotSkipped == Spec => []InsertionNeverSkips
<1>1. ASSUME BootstrapBoth PROVE InsertionNeverSkips
  <2>1. SUFFICES ASSUME NEW b \in Completed, NothingDeleted, NEW row \in InitialRows
                 PROVE  Published(row[1], row[2])
    BY DEF InsertionNeverSkips
  <2>2. BootstrapSteps
    BY <1>1 DEF BootstrapBoth
  <2>. QED
    BY <2>1, <2>2, CompletedPublished DEF PublishedFor, Published
<1>. QED
  BY <1>1, BothKept, PTL

\* While the tables stand still, every history is a beginning of the right one,
\* whichever bootstraps overlap, fail or lose an answer, and a bootstrap that
\* completes has published each row once, in order, and reports their number
\* (d1-bootstrap.ts:104-152).
THEOREM QuietHistoryExact == Spec => []QuietBootstrapExact
<1>1. BootstrapBoth => QuietBootstrapExact
  BY QuietExact DEF BootstrapBoth
<1>. QED
  BY <1>1, BothKept, PTL
=============================================================================
