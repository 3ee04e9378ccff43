----------------------------- MODULE MCRowState -----------------------------
(* Schemas and drafts for TLC. *)
EXTENDS RowProperties, TLC

Column(affinity, nullable) ==
    [affinity |-> affinity, nullable |-> nullable, generated |-> FALSE]

\* A rowid with a column of every kind, and a composite key with no column beside it.
Application ==
    [notes |-> [primaryKey |-> <<"id">>,
                columns |-> [id    |-> Column("integer", FALSE),
                             title |-> Column("text", TRUE),
                             body  |-> Column("blob", TRUE),
                             size  |-> Column("real", FALSE)]],
     tags  |-> [primaryKey |-> <<"tag", "note">>,
                columns |-> [note |-> Column("text", FALSE), tag |-> Column("text", FALSE)]]]

Text(n) == <<"string", n>>
Number(n) == <<"number", n>>
Put(t, row) == [type |-> "putRow", table |-> t, row |-> row]
Delete(t, key) == [type |-> "deleteRow", table |-> t, key |-> key]

\* The third one is valid for the adapter and refused by the application's table.
ValidDrafts ==
    {Put("notes", [id |-> Number(1), size |-> <<"fraction", 1>>]),
     Put("notes", [id |-> Number(1), size |-> Number(2), body |-> <<"bytes", 1>>,
                   title |-> <<"digits", 1>>]),
     Put("notes", [id |-> <<"fraction", 1>>, size |-> Number(1)]),
     Put("tags", [note |-> Text(1), tag |-> Text(2)]),
     Put("tags", [note |-> Text(3), tag |-> Text(2)]),
     Delete("tags", [note |-> Text(1), tag |-> Text(2)])}

InvalidDrafts ==
    {Put("notes", [id |-> Number(1)]),
     Put("notes", [id |-> Null, size |-> Number(1)]),
     Put("notes", [id |-> <<"digits", 1>>, size |-> Number(1)]),
     Put("notes", [id |-> Number(1), size |-> Text(1)]),
     Put("notes", [id |-> Number(1), size |-> Number(1), other |-> Null]),
     Put("notes", "[]" :> Null),
     Put("others", [id |-> Text(1)]),
     Delete("tags", [tag |-> Text(2)]),
     Delete("notes", [id |-> Number(1), body |-> Null]),
     Delete("notes", [id |-> Null]),
     [type |-> "patchRow", table |-> "notes", row |-> [id |-> Number(1)]]}

AllDrafts == ValidDrafts \union InvalidDrafts

Symmetry == Permutations(Clients)

TheRowidTables == {"notes"}

\* What the theorem on the application's tables supposes of the drafts holds of these.
ASSUME AsGivenAssumption == StoredAsGiven
=============================================================================
