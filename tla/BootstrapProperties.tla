------------------------- MODULE BootstrapProperties -------------------------
(***************************************************************************)
(* What a bootstrap promises, and what it does not; and the inductive      *)
(* invariant behind it.                                                    *)
(***************************************************************************)
EXTENDS D1Bootstrap

Contents == Values \cup {Absent}

ProposalType ==
    [operationId : Selected \X Keys, clientId : {ClientOf[b] : b \in Bootstraps},
     clientSequence : Nat \ {0},
     intent : [table : Selected, key : Keys, row : Values \ Unreadable]]

RunType ==
    [pc : {"probe", "check", "read", "commit", "completed", "failed"},
     probed : Nat, table : Selected, offset : Nat, base : Nat,
     clientSequence : Nat \ {0}, operationCount : Nat,
     proposals : SUBSET ProposalType]

\* The variables have their types; a log entry is a proposal of some run.
BootstrapTypeOK ==
    /\ rows \in [Tables -> [Keys -> Contents]]
    /\ initial \in [Tables -> [Keys -> Contents]]
    /\ changes \in 0..MaxChanges
    /\ log \subseteq [sequence : Nat \ {0}, proposal : ProposalType]
    /\ runs \in [Bootstraps -> RunType]

-----------------------------------------------------------------------------
Completed == {b \in Bootstraps : runs[b].pc = "completed"}

Concerns(proposal, table, key) ==
    proposal.intent.table = table /\ proposal.intent.key = key

Published(table, key) == \E entry \in log : Concerns(entry.proposal, table, key)

\* What a bootstrap of unchanged tables is to publish: their rows, table by
\* table in the order of the keys.
InitialRows ==
    {row \in Selected \X Keys : initial[row[1]][row[2]] # Absent}

Place(table, key) ==
    Cardinality({row \in InitialRows :
        row[1] < table \/ (row[1] = table /\ row[2] < key)}) + 1

\* While the application leaves its tables alone, a history under way, or the
\* one a failed bootstrap leaves behind, is the beginning of the right one, and
\* a bootstrap that completes has published every row of the selected tables
\* exactly once, in order, and reports their number as its count and as the
\* head of the stream (d1-bootstrap.ts:104-152): whatever other bootstrap ran,
\* failed or lost an answer at the same time.
QuietBootstrapExact ==
    changes = 0 =>
        /\ \A entry \in log :
              LET intent == entry.proposal.intent IN
              /\ <<intent.table, intent.key>> \in InitialRows
              /\ intent.row = initial[intent.table][intent.key]
              /\ entry.sequence = Place(intent.table, intent.key)
        /\ \A b \in Completed :
              Head = runs[b].base /\ runs[b].base = runs[b].operationCount
                  /\ runs[b].operationCount = Cardinality(InitialRows)

NothingDeleted == \A change \in changed : change.kind # "delete"

\* Rows inserted between two pages shift the offset, so that a page repeats
\* rows under new positions.  The authority refuses them, and a bootstrap that
\* completes has skipped none of the rows there were at the start
\* (d1-bootstrap.ts:112-143).
InsertionNeverSkips ==
    Completed # {} /\ NothingDeleted =>
        \A row \in InitialRows : Published(row[1], row[2])

\* The log numbers its entries 1, 2, ..., Head.
SequencesContiguous ==
    /\ IsFiniteSet(log)
    /\ \A entry \in log : entry.sequence <= Head
    /\ \A left, right \in log : left.sequence = right.sequence => left = right

\* No row is published twice, whatever shifts under the pages and whichever
\* runs overlap: ids are derived from the rows (d1-bootstrap.ts:274-290).
PublishedOnce ==
    \A left, right \in log :
        Concerns(left.proposal, right.proposal.intent.table, right.proposal.intent.key)
            => left = right

\* The positions of a client in the log are 1, 2, ... in the order of the log,
\* although several runs hand them out (d1-bootstrap.ts:106, 132).
PositionsContiguous ==
    /\ \A left, right \in log :
          SamePosition(left.proposal, right.proposal) => left = right
    /\ \A entry \in log : \A n \in 1..entry.proposal.clientSequence - 1 :
          \E earlier \in log :
              /\ earlier.proposal.clientId = entry.proposal.clientId
              /\ earlier.proposal.clientSequence = n
              /\ earlier.sequence < entry.sequence

\* Of overlapping bootstraps with different client ids, those of one at most
\* complete when there was a row to publish (d1-bootstrap.ts:85-102, 135-140).
OneWinner ==
    NothingDeleted /\ InitialRows # {} =>
        \A a, b \in Completed : ClientOf[a] = ClientOf[b]

-----------------------------------------------------------------------------
(* The rest of the inductive invariant. *)

Underway(b) == runs[b].pc \in {"probe", "check", "read", "commit", "completed"}

\* The position after the last one that a run has seen decided.
Reached(b) == runs[b].clientSequence - Cardinality(runs[b].proposals)

\* The batch of a run is one page of one table, its positions without gaps.
BatchSound(b) ==
    /\ IsFiniteSet(runs[b].proposals) /\ Cardinality(runs[b].proposals) <= BatchSize
    /\ (runs[b].pc = "commit") <=> (runs[b].proposals # {})
    /\ \A p \in runs[b].proposals :
          /\ p.operationId = <<p.intent.table, p.intent.key>>
          /\ p.intent.table = runs[b].table
          /\ p.clientId = ClientOf[b]
          /\ p.clientSequence \in Reached(b)..runs[b].clientSequence - 1
    /\ \A p, q \in runs[b].proposals :
          p.clientSequence = q.clientSequence \/ p.intent.key = q.intent.key => p = q
    /\ \A n \in Reached(b)..runs[b].clientSequence - 1 :
          \E p \in runs[b].proposals : p.clientSequence = n

\* The log has the n-th position of the client of the run.
Decided(b, n) ==
    \E entry \in log :
        entry.proposal.clientId = ClientOf[b] /\ entry.proposal.clientSequence = n

\* Every position before the batch is in the log, by this run or another one.
PositionsReached(b) ==
    Underway(b) =>
        /\ Reached(b) \in Nat \ {0}
        /\ \A n \in 1..Reached(b) - 1 : Decided(b, n)

\* The client of the run has published the row.
PublishedFor(b, table, key) ==
    \E entry \in log :
        Concerns(entry.proposal, table, key) /\ entry.proposal.clientId = ClientOf[b]

InBatch(b, table, key) == \E p \in runs[b].proposals : Concerns(p, table, key)

\* A row of the table that was there from the start comes before the next page.
Passed(b, table, key) ==
    \/ table < runs[b].table
    \/ runs[b].pc = "completed"
    \/ /\ table = runs[b].table
       /\ Before(RowKeys(table), key) < runs[b].offset + Cardinality(runs[b].proposals)

\* While nothing is deleted, what a run has passed is published or in its batch.
NothingSkipped(b) ==
    Underway(b) /\ NothingDeleted =>
        \A row \in InitialRows :
            Passed(b, row[1], row[2]) =>
                PublishedFor(b, row[1], row[2]) \/ InBatch(b, row[1], row[2])

RunSound(b) == BatchSound(b) /\ PositionsReached(b) /\ NothingSkipped(b)

IdsSound ==
    \A entry \in log :
        entry.proposal.operationId =
            <<entry.proposal.intent.table, entry.proposal.intent.key>>

LogSound == SequencesContiguous /\ PublishedOnce /\ PositionsContiguous /\ IdsSound

InitialKept ==
    NothingDeleted => \A row \in InitialRows : rows[row[1]][row[2]] # Absent

EarlierRows(table) == {row \in InitialRows : row[1] < table}

\* The proposal is that of an unchanged row, at its place.
AtPlace(proposal) ==
    LET intent == proposal.intent IN
    /\ <<intent.table, intent.key>> \in InitialRows
    /\ intent.row = initial[intent.table][intent.key]
    /\ proposal.clientSequence = Place(intent.table, intent.key)

QuietLog ==
    /\ \A left, right \in log : left.proposal.clientId = right.proposal.clientId
    /\ \A entry \in log : AtPlace(entry.proposal)

\* How far the run is: the position, the offset and the counts agree.
QuietRun(b) ==
    Underway(b) =>
        LET size == Cardinality(runs[b].proposals) IN
        /\ \A p \in runs[b].proposals : AtPlace(p)
        /\ runs[b].offset + size <= Cardinality(RowKeys(runs[b].table))
        /\ runs[b].clientSequence =
               Cardinality(EarlierRows(runs[b].table)) + runs[b].offset + size + 1
        /\ runs[b].clientSequence = runs[b].operationCount + size + 1
        /\ Reached(b) <= runs[b].base + 1 /\ runs[b].base <= Head
        /\ runs[b].pc = "completed" =>
               runs[b].clientSequence = Cardinality(InitialRows) + 1

QuietSteps ==
    changes = 0 => rows = initial /\ QuietLog /\ \A b \in Bootstraps : QuietRun(b)

BootstrapSteps ==
    BootstrapTypeOK /\ LogSound /\ InitialKept /\ \A b \in Bootstraps : RunSound(b)

\* What holds of every history, whatever changes under the pages and whichever
\* runs overlap, and of those in which nothing changes.
BootstrapInv == BootstrapSteps /\ QuietSteps /\ OneWinner
=============================================================================
