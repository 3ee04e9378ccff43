----------------------------- MODULE D1Bootstrap -----------------------------
(***************************************************************************)
(* Seeding an empty sync history from the rows of the application tables,  *)
(* src/next/d1-bootstrap.ts.  A bootstrap checks that the history is       *)
(* empty, then reads each table page by page and proposes its rows, one    *)
(* batch per page.  Every await is a step of its own: the application goes *)
(* on changing its tables between the pages, several bootstraps may run at *)
(* once, and a call of the database may fail or lose its answer.           *)
(*                                                                         *)
(* Tables and keys are numbers in the order in which they are sorted.      *)
(* A call of authority.synchronize is one step: D1Authority shows that its *)
(* batch commits as one.  The rows proposed were normalized by the same    *)
(* function as the interpreter's, so none of them is rejected.             *)
(***************************************************************************)
EXTENDS Naturals, FiniteSetsExt

CONSTANTS
    Tables,      \* tables of the schema
    Selected,    \* tables the bootstrap is asked for
    LastKey,     \* primary keys are 1..LastKey
    Values,      \* contents of a row
    Unreadable,  \* contents a column of the schema's affinity cannot hold
    Bootstraps,  \* runs of the command
    ClientOf,    \* clientId of each run
    BatchSize,   \* option batchSize
    MaxChanges   \* bound on the changes the application makes

ASSUME SelectionAssumption ==
    /\ Tables \subseteq Nat /\ IsFiniteSet(Tables) /\ LastKey \in Nat
    /\ Selected \subseteq Tables /\ Selected # {}
ASSUME BatchAssumption == BatchSize \in Nat \ {0} /\ MaxChanges \in Nat

VARIABLES
    rows,      \* application tables: the contents of each row, or Absent
    log,       \* rows of the log table: accepted proposals and their sequence
    runs,      \* local state of each bootstrap
    initial,   \* history: the rows at the start
    changed,   \* history: rows changed since, with the kind of change
    changes    \* history: number of changes

vars == <<rows, log, runs, initial, changed, changes>>

Absent == "absent"

ASSUME ValuesAssumption == Absent \notin Values

Keys == 1..LastKey

\* How many numbers of S come before n.
Before(S, n) == Cardinality({m \in S : m < n})

NewRun == [pc |-> "probe", probed |-> 0, table |-> Min(Selected), offset |-> 0,
           base |-> 0, clientSequence |-> 1, operationCount |-> 0,
           proposals |-> {}]

Init ==
    /\ rows \in [Tables -> [Keys -> Values \cup {Absent}]]
    /\ log = {}
    /\ runs = [b \in Bootstraps |-> NewRun]
    /\ initial = rows
    /\ changed = {}
    /\ changes = 0

-----------------------------------------------------------------------------
(* The application *)

ChangeRow(table, key, value, kind) ==
    /\ changes < MaxChanges
    /\ changes' = changes + 1
    /\ rows' = [rows EXCEPT ![table][key] = value]
    /\ changed' = changed \cup {[row |-> <<table, key>>, kind |-> kind]}
    /\ UNCHANGED <<log, runs, initial>>

Insert(table, key, value) ==
    /\ rows[table][key] = Absent
    /\ ChangeRow(table, key, value, "insert")

Update(table, key, value) ==
    /\ rows[table][key] \notin {Absent, value}
    /\ ChangeRow(table, key, value, "update")

Delete(table, key) ==
    /\ rows[table][key] # Absent
    /\ ChangeRow(table, key, Absent, "delete")

-----------------------------------------------------------------------------
(* The authority *)

Head == Cardinality(log)

Stored(id) == \E entry \in log : entry.proposal.operationId = id

SamePosition(p, q) == p.clientId = q.clientId /\ p.clientSequence = q.clientSequence

\* The proposal reuses the id or the position of a stored operation.
Conflict(p) ==
    \E entry \in log :
        /\ entry.proposal # p
        /\ entry.proposal.operationId = p.operationId \/ SamePosition(entry.proposal, p)

\* The log after a batch: what it stores already is not appended again.
Appended(proposals) ==
    LET fresh == {p \in proposals : ~ Stored(p.operationId)}
        place(p) == Before({q.clientSequence : q \in fresh}, p.clientSequence)
    IN  log \cup {[sequence |-> Head + 1 + place(p), proposal |-> p] : p \in fresh}

-----------------------------------------------------------------------------
(* The bootstrap *)

\* The selected tables that are still to come.
Later(table) == {t \in Selected : t > table}

RowKeys(table) == {k \in Keys : rows[table][k] # Absent}

\* Mutant: the offset counts from one.
PageFromOne(table, offset) ==
    {k \in RowKeys(table) : Before(RowKeys(table), k) \in offset + 1..offset + BatchSize}

\* ORDER BY the primary key LIMIT BatchSize OFFSET offset.
Page(table, offset) ==
    {k \in RowKeys(table) : Before(RowKeys(table), k) \in offset..offset + BatchSize - 1}

\* Every row of the page has a JSON value for each of its columns.
Readable(table, keys) ==
    \A k \in keys : rows[table][k] \notin Unreadable

\* Mutant: ids say which run proposed a row.
OperationIdOfRun(b, table, key) == <<b, table, key>>

\* The id is a hash of the table and the key, the same for every run.
OperationId(b, table, key) == <<table, key>>

ProposalOf(b, table, keys, k) ==
    [operationId |-> OperationId(b, table, k),
     clientId |-> ClientOf[b],
     clientSequence |-> runs[b].clientSequence + Before(keys, k),
     intent |-> [table |-> table, key |-> k, row |-> rows[table][k]]]

Proposals(b, table, keys) == {ProposalOf(b, table, keys, k) : k \in keys}

Local(b, run) ==
    /\ runs' = [runs EXCEPT ![b] = run]
    /\ UNCHANGED <<rows, initial, changed, changes>>

Fails(b) == Local(b, [runs[b] EXCEPT !.pc = "failed", !.proposals = {}])

\* The empty request creates the stream and reports its head.
Probe(b) ==
    /\ runs[b].pc = "probe"
    /\ Local(b, [runs[b] EXCEPT !.pc = "check", !.probed = Head])
    /\ UNCHANGED log

EmptyHistory(b) == runs[b].probed = 0 /\ log = {}

CheckHistory(b) ==
    /\ runs[b].pc = "check"
    /\ IF EmptyHistory(b)
       THEN Local(b, [runs[b] EXCEPT !.pc = "read"])
       ELSE Fails(b)
    /\ UNCHANGED log

\* A page of the table; an empty one ends it, and the last table the run.
ReadPage(b) ==
    LET run == runs[b]
        keys == Page(run.table, run.offset)
    IN
    /\ run.pc = "read"
    /\ UNCHANGED log
    /\ \/ /\ keys = {}
          /\ Later(run.table) # {}
          /\ Local(b, [run EXCEPT !.table = Min(Later(run.table)), !.offset = 0])
       \/ /\ keys = {}
          /\ Later(run.table) = {}
          /\ Local(b, [run EXCEPT !.pc = "completed"])
       \/ /\ ~ Readable(run.table, keys)
          /\ Fails(b)
       \/ /\ keys # {}
          /\ Readable(run.table, keys)
          /\ Local(b, [run EXCEPT
                 !.pc = "commit",
                 !.proposals = Proposals(b, run.table, keys),
                 !.clientSequence = @ + Cardinality(keys)])

\* Mutant: the next page starts after the whole log.
AdvancedToHead(run, head) ==
    [run EXCEPT !.pc = "read", !.proposals = {}, !.base = head,
                !.operationCount = @ + Cardinality(run.proposals),
                !.offset = head]

Advanced(run, head) ==
    [run EXCEPT !.pc = "read", !.proposals = {}, !.base = head,
                !.operationCount = @ + Cardinality(run.proposals),
                !.offset = @ + Cardinality(run.proposals)]

Refused(b) == \E p \in runs[b].proposals : Conflict(p)

\* All of the batch is decided or, on a conflict, none of it.
Commit(b) ==
    /\ runs[b].pc = "commit"
    /\ IF Refused(b)
       THEN Fails(b) /\ UNCHANGED log
       ELSE /\ log' = Appended(runs[b].proposals)
            /\ Local(b, Advanced(runs[b], Cardinality(log')))

\* A call of the database fails, before it took effect or, for the batch,
\* after; or the process ends.  The bootstrap is not resumed.
Abort(b) ==
    /\ runs[b].pc \in {"probe", "check", "read", "commit"}
    /\ Fails(b)
    /\ \/ UNCHANGED log
       \/ /\ runs[b].pc = "commit"
          /\ ~ Refused(b)
          /\ log' = Appended(runs[b].proposals)

-----------------------------------------------------------------------------
Step(b) == Probe(b) \/ CheckHistory(b) \/ ReadPage(b) \/ Commit(b)

Application ==
    \E table \in Tables, key \in Keys :
        \/ \E value \in Values : Insert(table, key, value)
        \/ \E value \in Values : Update(table, key, value)
        \/ Delete(table, key)

Next == Application \/ \E b \in Bootstraps : Step(b) \/ Abort(b)

Spec == Init /\ [][Next]_vars
=============================================================================
