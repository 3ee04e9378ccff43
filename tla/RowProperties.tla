---------------------------- MODULE RowProperties ----------------------------
(* What an application that reads and writes rows relies on. *)
EXTENDS RowState

\* The operations an application can enqueue, in the form in which they travel.
RowOps == {NormalizeRowOperation(draft) : draft \in Drafts} \ {Invalid}

\* The application's tables store what is bound to them as it is: no digits for a NUMERIC
\* column.
StoredAsGiven ==
    \A operation \in RowOps : LET t == operation.table IN
        /\ operation.type = "putRow" => StoredRow(t, operation.row) = operation.row
        /\ operation.type = "deleteRow" => StoredRow(t, operation.key) = operation.key

Operations(entries) == [i \in DOMAIN entries |-> entries[i].operation]

Prefix(c) == Operations(SubSeq(log, 1, confirmed[c]))

\* The primary key an operation is about, as the application names it.
KeyOf(operation) ==
    IF operation.type = "putRow" THEN KeyFromRow(operation.table, operation.row)
                                 ELSE operation.key

\* Operation i of ops is the last one about its row.
IsLast(ops, i) ==
    \A j \in i + 1 .. Len(ops) :
        ops[j].table = ops[i].table => KeyOf(ops[j]) # KeyOf(ops[i])

\* The state reads as if every row were what the last operation about it says.
ReadsLast(state, ops) ==
    /\ \A t \in DOMAIN Schema :
          ReadTableRows(state, t) =
              {ops[i].row : i \in {j \in DOMAIN ops :
                  ops[j].table = t /\ ops[j].type = "putRow" /\ IsLast(ops, j)}}
    /\ \A i \in DOMAIN ops :
          IsLast(ops, i) =>
              ReadTableRow(state, ops[i].table, KeyOf(ops[i])) =
                  IF ops[i].type = "putRow" THEN {ops[i].row} ELSE {}

(* Every row and every count stays within the schema and the log. *)
RowTypeOK ==
    /\ \A c \in Clients :
          /\ sent[c] \in 0 .. Len(outbox[c])
          /\ confirmed[c] \in 0 .. Len(log)
    /\ \A state \in {tables} \union {canonical[c] : c \in Clients} :
          \A t \in DOMAIN Schema : \A row \in ReadTableRows(state, t) : RowFits(t, row)

(* client.ts:141 and codec.ts:9-11, interpreters.ts:54: an operation is normalised when    *)
(* it is enqueued, when it is sent, when it is received and when it is decided, and the     *)
(* intent hash covers the first form.  What one layer lets through is, unchanged, what the  *)
(* next ones take.                                                                          *)
NormalForm ==
    \A op \in ToSet(Operations(log)) \union UNION {ToSet(outbox[c]) : c \in Clients} :
        NormalizeRowOperation(op) = op

(* state.ts:15-56 and keys.ts:14-52: all() and get(key), on the authority, on a replica and *)
(* over the optimistic view, tell of every row what the last operation about it made it.    *)
LastWriteWins ==
    /\ ReadsLast(tables, Operations(log))
    /\ \A c \in Clients :
          /\ ReadsLast(canonical[c], Prefix(c))
          /\ ReadsLast(ReadOptimisticState(c), Prefix(c) \o outbox[c])

(* d1.ts:301 and d1.ts:824-890 with d1-bootstrap.ts:336-373: the application's table read   *)
(* back by a bootstrap gives exactly the rows of the state it is a view of.                 *)
TablesHoldState ==
    \A t \in DOMAIN Schema :
        {BootstrapRow(t, row) : row \in stored[t]} = ReadTableRows(tables, t)

(* interpreters.ts:52-66, normalization.ts:168-174 and d1.ts:430-484: a client that can      *)
(* neither send nor learn anything more has nothing left and reads the authority's rows.     *)
(* One thing alone blocks it, for good: its request puts a fraction under an integer key     *)
(* that is the rowid of the application's table, which every layer of the adapter takes and  *)
(* SQLite refuses.  No operation that one layer of the adapter takes is refused by another.  *)
QuiescentEqual ==
    \A c \in Clients :
        ~ Sendable(c) /\ ~ Confirmable(c) =>
            \/ outbox[c] = <<>> /\ ReadOptimisticState(c) = tables
            \/ \E i \in InRequest(c) : ~ TableTakes(outbox[c][i])

(* What holds of every operation, outbox and log. *)
RowInv == RowTypeOK /\ NormalForm /\ QuiescentEqual
=============================================================================
