------------------------- MODULE LifecycleProperties -------------------------
(* What tabs that share a replica database may rely on. *)
EXTENDS ReplicaLifecycle

Ids == {OptionId[t] : t \in Tabs} \cup {Random(n) : n \in 0..MaxOpens}

TabState ==
    [pc : {"closed", "opening", "opened", "creating", "ready", "writing"},
     connection : {"none", "open", "closing"}, clientId : Ids \cup {NoId}]

Position ==
    [operationId : 1..MaxWrites, clientId : Ids, clientSequence : 1..MaxWrites]

\* The variables have their types; a connection that is closing has a
\* transaction to wait for, and the record needs a database.
LifecycleTypeOK ==
    /\ exists \in BOOLEAN
    /\ record \in [clientId : Ids \cup {NoId},
                   nextClientSequence : 0..(MaxWrites + 1)]
    /\ tabs \in [Tabs -> TabState]
    /\ \A t \in Tabs : tabs[t].connection = "closing" => InTransaction(t)
    /\ record # NoRecord => exists
    /\ notified \subseteq Tabs
    /\ phase \in {"queued", "notifying", "blocked"}
    /\ deletion \in [Tabs -> {"none", "waiting", "resolved", "rejected"}]
    /\ {opens, deletions, created} \subseteq Nat
    /\ issued \subseteq Position /\ IsFiniteSet(issued)

\* A tab that can still write holds the identity of the record it writes to,
\* and the one it was told to use: whichever tab created the record, and
\* whatever was deleted and created again meanwhile (open.ts:57-99).
OneIdentity ==
    \A t \in Tabs :
        tabs[t].pc \in {"ready", "writing"} /\ tabs[t].connection # "none" =>
            /\ exists
            /\ tabs[t].clientId = record.clientId
            /\ OptionId[t] \in {NoId, record.clientId}

SamePosition(a, b) ==
    a.clientId = b.clientId /\ a.clientSequence = b.clientSequence

\* An identity drawn at random gives each of its positions to one operation,
\* whatever tabs overlap, crash, delete the database and create it again
\* (open.ts:61-80, 112-121).
RandomPositionsFresh ==
    \A a, b \in issued :
        SamePosition(a, b) /\ (\A t \in Tabs : a.clientId # OptionId[t]) => a = b

(* The rest of the inductive invariant. *)

Request == [kind : {"open", "delete"}, tab : Tabs]

\* A tab has at most one request to open in the queue, and waits for it.
RequestsSound ==
    /\ queue \in Seq(Request)
    /\ \A i, j \in DOMAIN queue : queue[i].kind = "open" =>
           /\ tabs[queue[i].tab].pc = "opening"
           /\ queue[i] = queue[j] => i = j

\* A connection needs a database, and a transaction its connection; the
\* record a store was opened on is there as long as the store is connected.
ConnectionsSound ==
    \A t \in Tabs :
        /\ tabs[t].connection # "none" => exists
        /\ InTransaction(t) => tabs[t].connection # "none"
        /\ tabs[t].pc \in {"ready", "writing"} /\ tabs[t].connection # "none"
               => ~ Missing

Opening == {t \in Tabs : tabs[t].pc \in {"opening", "opened", "creating"}}

\* Each record comes from an open of its own, and each position from a write.
BoundsKept ==
    /\ opens <= MaxOpens
    /\ created + Cardinality(Opening) <= opens
    /\ Cardinality(issued) + Cardinality(Writing) <= MaxWrites
    /\ record.nextClientSequence <= Cardinality(issued) + 1

Drawn(id) == \E n \in 0..created - 1 : id = Random(n)

Given(id) == \E t \in Tabs : id = OptionId[t]

\* An identity was drawn for an earlier record or given by a tab, and the
\* record numbers on from the positions of its own identity.
IdentitiesSound ==
    /\ ~ Missing =>
           /\ Given(record.clientId) \/ Drawn(record.clientId)
           /\ record.nextClientSequence >= 1
           /\ \A a \in issued :
                  a.clientId = record.clientId /\ ~ Given(a.clientId) =>
                      a.clientSequence < record.nextClientSequence
    /\ \A a \in issued : /\ a.operationId \in 1..Cardinality(issued)
                         /\ Given(a.clientId) \/ Drawn(a.clientId)

\* What holds between any two steps of the tabs and the browser.
LifecycleInv ==
    /\ LifecycleTypeOK
    /\ OneIdentity
    /\ RequestsSound
    /\ ConnectionsSound
    /\ BoundsKept
    /\ IdentitiesSound

Requested(kind, t) ==
    \E i \in DOMAIN queue : queue[i].kind = kind /\ queue[i].tab = t

\* Every deletion that was asked for takes place, also the one whose promise
\* was rejected as blocked: the other tabs give up their connections
\* (open.ts:58, 134-149).
DeletionEnds == \A t \in Tabs : Requested("delete", t) ~> ~ Requested("delete", t)

\* Every open ends in a store or in an error, however many deletions are
\* requested before it (open.ts:57-109).
OpensSettle ==
    \A t \in Tabs :
        tabs[t].pc \in {"opening", "opened", "creating"} ~>
            tabs[t].pc \in {"ready", "closed"}

\* The queue of requests never stands still, whoever holds a connection.
RequestsEnd == DeletionEnds /\ OpensSettle
=============================================================================
