------------------------------ MODULE RowState ------------------------------
(*****************************************************************************)
(* The row adapter over the log: what an operation on a row becomes on its   *)
(* way from client.table(t).put(row) through normalisation, the outbox, the  *)
(* authority's decision, the materialised states of the authority and of the *)
(* clients, and the application's D1 table that the accepted operations are  *)
(* projected into.  The protocol below it is SyncSystem's; here an outbox is *)
(* sent and answered in order, once, and a request fails as a whole: while   *)
(* the table refuses one of its operations, its client sends and learns      *)
(* nothing.                                                                  *)
(*                                                                           *)
(* A JSON value is a pair of its kind and its content.  "digits" is a string *)
(* that spells a number, "string" one that does not.                         *)
(*****************************************************************************)
EXTENDS Integers, SequencesExt

CONSTANTS
    Clients,
    Schema,         \* table name -> [primaryKey, columns]
    Drafts,         \* the operations the application submits
    RowidTables,    \* tables declared with INTEGER PRIMARY KEY, SQLite's rowid
    RequestLimit,   \* maximumProposalsPerRequest
    MaxSubmits      \* bound: operations a client enqueues

\* What the adapter checks of a schema; discovery never gives a nullable key column.
RowReplicationSchema ==
    \A t \in DOMAIN Schema :
        /\ Schema[t].primaryKey # <<>>
        /\ ToSet(Schema[t].primaryKey) \subseteq DOMAIN Schema[t].columns
        /\ \A c \in DOMAIN Schema[t].columns : ~Schema[t].columns[c].generated
        /\ \A c \in ToSet(Schema[t].primaryKey) : ~Schema[t].columns[c].nullable

\* No column has the name that stands for an array (IsPlainRecord).
ASSUME SchemaAssumption ==
    /\ RowReplicationSchema
    /\ RowidTables \subseteq DOMAIN Schema
    /\ \A t \in DOMAIN Schema : "[]" \notin DOMAIN Schema[t].columns

ASSUME RequestLimitAssumption == RequestLimit \in Nat \ {0}

\* A key is an object.
ASSUME DraftsAssumption ==
    \A draft \in Drafts : draft.type = "deleteRow" =>
        draft.key = [c \in DOMAIN draft.key |-> draft.key[c]]

VARIABLES
    log,        \* canonical log: [client, operation]
    tables,     \* the authority's materialised state: table -> encoded key -> row
    stored,     \* the application's D1 tables: table -> set of stored rows
    outbox,     \* client -> its operations not yet confirmed
    sent,       \* client -> how many of them the authority has accepted
    confirmed,  \* client -> how much of the log it has applied
    canonical   \* client -> its materialised state of that prefix

rowVars == <<log, tables, stored, outbox, sent, confirmed, canonical>>

Null == <<"null", 0>>
Invalid == [type |-> "invalid"]

KeyColumns(t) == ToSet(Schema[t].primaryKey)

\* An array or another object that is not a record is written with the name "[]".
IsPlainRecord(value) == "[]" \notin DOMAIN value

Accepted ==
    [integer |-> {"number", "fraction"}, real |-> {"number", "fraction"},
     text    |-> {"string", "digits"},   blob |-> {"bytes"},
     numeric |-> {"number", "fraction", "string", "digits"}]

FitsColumn(column, value) ==
    IF value = Null THEN column.nullable ELSE value[1] \in Accepted[column.affinity]

\* Missing nullable columns become null; a row without another one has no completion.
Completed(t, row) ==
    LET nullable == {c \in DOMAIN Schema[t].columns : Schema[t].columns[c].nullable}
    IN  [c \in DOMAIN row \union nullable |-> IF c \in DOMAIN row THEN row[c] ELSE Null]

RowFits(t, row) ==
    /\ DOMAIN row = DOMAIN Schema[t].columns
    /\ \A c \in DOMAIN row : FitsColumn(Schema[t].columns[c], row[c])

\* Mutant: the columns the row gives are checked, and every missing one becomes null.
NormalizeGivenColumns(t, row) ==
    IF /\ DOMAIN row \subseteq DOMAIN Schema[t].columns
       /\ \A c \in DOMAIN row : FitsColumn(Schema[t].columns[c], row[c])
    THEN [type |-> "putRow", table |-> t,
          row |-> row @@ [c \in DOMAIN Schema[t].columns |-> Null]]
    ELSE Invalid

NormalizeFullRow(t, row) ==
    IF IsPlainRecord(row) /\ RowFits(t, Completed(t, row))
    THEN [type |-> "putRow", table |-> t, row |-> Completed(t, row)]
    ELSE Invalid

NormalizePrimaryKey(t, key) ==
    IF /\ IsPlainRecord(key)
       /\ DOMAIN key = KeyColumns(t)
       /\ \A c \in KeyColumns(t) :
             FitsColumn([Schema[t].columns[c] EXCEPT !.nullable = FALSE], key[c])
    THEN [type |-> "deleteRow", table |-> t, key |-> key]
    ELSE Invalid

NormalizeRowOperation(operation) ==
    IF operation.table \notin DOMAIN Schema THEN Invalid
    ELSE CASE operation.type = "putRow"    -> NormalizeFullRow(operation.table, operation.row)
           [] operation.type = "deleteRow" -> NormalizePrimaryKey(operation.table, operation.key)
           [] OTHER -> Invalid

KeyFromRow(t, row) == [c \in KeyColumns(t) |-> row[c]]

\* The JSON array of the key's values, in the order of the primary key.
EncodePrimaryKey(t, key) ==
    [i \in DOMAIN Schema[t].primaryKey |-> key[Schema[t].primaryKey[i]]]

EncodeRowPrimaryKey(t, row) == EncodePrimaryKey(t, KeyFromRow(t, row))

InitialState == [t \in DOMAIN Schema |-> << >>]

Insert(rows, key, row) ==
    [k \in DOMAIN rows \union {key} |-> IF k = key THEN row ELSE rows[k]]

\* Mutant: a row that is there keeps the columns the operation gives as null.
ApplyMerging(state, operation) ==
    LET t == operation.table IN
    IF operation.type = "putRow"
    THEN LET k == EncodeRowPrimaryKey(t, operation.row)
             merged == [c \in DOMAIN operation.row |->
                           IF operation.row[c] = Null /\ k \in DOMAIN state[t]
                           THEN state[t][k][c] ELSE operation.row[c]]
         IN  [state EXCEPT ![t] = Insert(@, k, merged)]
    ELSE [state EXCEPT ![t] =
             Restrict(@, DOMAIN @ \ {EncodePrimaryKey(t, operation.key)})]

ApplyRowOperation(state, operation) ==
    LET t == operation.table IN
    IF operation.type = "putRow"
    THEN [state EXCEPT ![t] =
             Insert(state[t], EncodeRowPrimaryKey(t, operation.row), operation.row)]
    ELSE [state EXCEPT ![t] =
             Restrict(state[t], DOMAIN state[t] \ {EncodePrimaryKey(t, operation.key)})]

ReadTableRows(state, t) == {state[t][k] : k \in DOMAIN state[t]}

\* The row under a key, as a set: empty for undefined.
ReadTableRow(state, t, key) ==
    LET k == EncodePrimaryKey(t, key) IN
    IF k \in DOMAIN state[t] THEN {state[t][k]} ELSE {}

ReadOptimisticState(c) ==
    LET Applied[i \in 0 .. Len(outbox[c])] ==
            IF i = 0 THEN canonical[c] ELSE ApplyRowOperation(Applied[i - 1], outbox[c][i])
    IN  Applied[Len(outbox[c])]

(* The application's table. *)

\* What SQLite stores for a bound value: a NUMERIC column turns digits into a number.
StoredValue(column, value) ==
    IF column.affinity = "numeric" /\ value[1] = "digits"
    THEN <<"number", value[2]>> ELSE value

StoredRow(t, row) == [c \in DOMAIN row |-> StoredValue(Schema[t].columns[c], row[c])]

\* A rowid holds integers only: any other value is a datatype mismatch.
TableTakes(operation) ==
    operation.type = "putRow" /\ operation.table \in RowidTables
        => \A c \in KeyColumns(operation.table) : operation.row[c][1] = "number"

\* Mutant: ON CONFLICT DO NOTHING for every table.
UpsertNothing(rows, t, row) ==
    IF \E r \in rows : KeyFromRow(t, r) = KeyFromRow(t, row) THEN rows ELSE rows \union {row}

\* INSERT ... ON CONFLICT (key) DO UPDATE SET every column that is not of the key.
Upsert(rows, t, row) ==
    {r \in rows : KeyFromRow(t, r) # KeyFromRow(t, row)} \union {row}

ProjectRowOperation(db, operation) ==
    LET t == operation.table IN
    IF operation.type = "putRow"
    THEN [db EXCEPT ![t] = Upsert(@, t, StoredRow(t, operation.row))]
    ELSE [db EXCEPT ![t] =
             {r \in @ : KeyFromRow(t, r) # StoredRow(t, operation.key)}]

\* The value the bootstrap reads back; it throws when the column has no such kind.
ToJsonColumnValue(column, value) ==
    IF value = Null \/ value[1] \in Accepted[column.affinity] THEN value ELSE <<"thrown", 0>>

BootstrapRow(t, row) == [c \in DOMAIN row |-> ToJsonColumnValue(Schema[t].columns[c], row[c])]

RowInit ==
    /\ log = <<>>
    /\ tables = InitialState
    /\ stored = [t \in DOMAIN Schema |-> {}]
    /\ outbox = [c \in Clients |-> <<>>]
    /\ sent = [c \in Clients |-> 0]
    /\ confirmed = [c \in Clients |-> 0]
    /\ canonical = [c \in Clients |-> InitialState]

Mine(c) == Len(SelectSeq(SubSeq(log, 1, confirmed[c]), LAMBDA e : e.client = c))

Normalized == [draft \in Drafts |-> NormalizeRowOperation(draft)]

\* client.table(t).put / delete: an operation that is not valid throws and leaves no trace.
Enqueue(c, draft) ==
    /\ Mine(c) + Len(outbox[c]) < MaxSubmits
    /\ Normalized[draft] # Invalid
    /\ outbox' = [outbox EXCEPT ![c] = Append(@, Normalized[draft])]
    /\ UNCHANGED <<log, tables, stored, sent, confirmed, canonical>>

\* A request that does not decode is refused; the interpreter accepts what does, and the
\* application's table takes its statement.
Taken(operation) ==
    /\ NormalizeRowOperation(operation) # Invalid
    /\ TableTakes(NormalizeRowOperation(operation))

\* The operations of a request: the next ones that are not accepted yet.
InRequest(c) == {i \in DOMAIN outbox[c] : sent[c] < i /\ i <= sent[c] + RequestLimit}

\* The statements of a request are one batch: one that fails fails them all, the answer too.
RequestRefused(c) == \E i \in InRequest(c) : ~ Taken(outbox[c][i])

Sendable(c) == InRequest(c) # {} /\ ~ RequestRefused(c)

\* The authority normalises the next operation again, appends and projects it.  Those of one
\* batch follow one another here: a client may enqueue each when the last one is committed.
Commit(c) ==
    /\ Sendable(c)
    /\ LET operation == NormalizeRowOperation(outbox[c][sent[c] + 1]) IN
          /\ log' = Append(log, [client |-> c, operation |-> operation])
          /\ tables' = ApplyRowOperation(tables, operation)
          /\ stored' = ProjectRowOperation(stored, operation)
    /\ sent' = [sent EXCEPT ![c] = @ + 1]
    /\ UNCHANGED <<outbox, confirmed, canonical>>

\* An answer has a page of what the client has not got.
Confirmable(c) == confirmed[c] < Len(log) /\ ~ RequestRefused(c)

\* The client applies the next entry; its own leaves the outbox.
Confirm(c) ==
    /\ Confirmable(c)
    /\ LET entry == log[confirmed[c] + 1]
           own == entry.client = c
       IN  /\ canonical' = [canonical EXCEPT ![c] = ApplyRowOperation(@, entry.operation)]
           /\ outbox' = [outbox EXCEPT ![c] = IF own THEN Tail(@) ELSE @]
           /\ sent' = [sent EXCEPT ![c] = IF own THEN @ - 1 ELSE @]
    /\ confirmed' = [confirmed EXCEPT ![c] = @ + 1]
    /\ UNCHANGED <<log, tables, stored>>

RowNext ==
    \E c \in Clients :
        \/ \E draft \in Drafts : Enqueue(c, draft)
        \/ Commit(c)
        \/ Confirm(c)

RowSpec == RowInit /\ [][RowNext]_rowVars
=============================================================================
