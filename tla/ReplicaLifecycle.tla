--------------------------- MODULE ReplicaLifecycle ---------------------------
(***************************************************************************)
(* Opening, sharing, closing and deleting the browser database of a        *)
(* replica: src/indexeddb/open.ts and idb.ts, and the part of client.ts    *)
(* that opens a store for a client.  Tabs of one origin share the database *)
(* and its one record of the stream.                                       *)
(*                                                                         *)
(* IndexedDB itself is external and modelled from how the code uses it.    *)
(* It serves open and delete requests one after another.  A deletion sends *)
(* versionchange to every open connection, reports that it is blocked when *)
(* some remain open after that, and ends when none does.  A connection     *)
(* that is closed stays open until its transaction has ended.              *)
(***************************************************************************)
EXTENDS Naturals, Sequences, FiniteSets

CONSTANTS
    Tabs,
    OptionId,      \* clientId option of each tab, or NoId
    NoId,
    MaxOpens,      \* bounds on the opens, deletions and enqueues
    MaxDeletions,
    MaxWrites

ASSUME TabsAssumption == IsFiniteSet(Tabs)
ASSUME BoundsAssumption == {MaxOpens, MaxDeletions, MaxWrites} \subseteq Nat

VARIABLES
    exists,    \* is there a database
    record,    \* record of the stream, or NoRecord
    queue,     \* requests to open or delete, served in order
    phase,     \* of the deletion at the head of the queue
    notified,  \* tabs whose connection has still to see versionchange
    tabs,      \* of each tab: progress, connection, client id
    deletion,  \* promise of the last deletion each tab asked for
    opens,     \* history: number of opens
    deletions, \* history: number of deletions
    created,   \* history: number of records created
    issued     \* history: positions handed out, one per operation

requestVars == <<queue, phase, notified, deletion>>
counters == <<opens, deletions, created>>
vars == <<exists, record, requestVars, tabs, counters, issued>>

NoRecord == [clientId |-> NoId, nextClientSequence |-> 0]

Away == [pc |-> "closed", connection |-> "none", clientId |-> NoId]

Init ==
    /\ exists = FALSE
    /\ record = NoRecord
    /\ queue = <<>>
    /\ phase = "queued"
    /\ notified = {}
    /\ tabs = [t \in Tabs |-> Away]
    /\ deletion = [t \in Tabs |-> "none"]
    /\ opens = 0
    /\ deletions = 0
    /\ created = 0
    /\ issued = {}

\* A connection that is closed while no transaction runs is gone.
InTransaction(t) == tabs[t].pc \in {"creating", "writing"}

\* What is left of a connection when its transaction ends.
Released(connection) == IF connection = "closing" THEN "none" ELSE connection

Served(kind) == queue # <<>> /\ Head(queue).kind = kind

-----------------------------------------------------------------------------
(* Opening *)

OpenStore(t) ==
    /\ tabs[t].pc = "closed"
    /\ opens < MaxOpens
    /\ opens' = opens + 1
    /\ queue' = Append(queue, [kind |-> "open", tab |-> t])
    /\ tabs' = [tabs EXCEPT ![t] = [Away EXCEPT !.pc = "opening"]]
    /\ UNCHANGED <<exists, record, phase, notified, deletion, deletions,
                   created, issued>>

\* The upgrade creates the store of an empty database; the continuation of
\* the success event installs the versionchange handler.
ServeOpen ==
    /\ Served("open")
    /\ exists' = TRUE
    /\ tabs' = [tabs EXCEPT ![Head(queue).tab].pc = "opened",
                            ![Head(queue).tab].connection = "open"]
    /\ queue' = Tail(queue)
    /\ UNCHANGED <<record, phase, notified, deletion, counters, issued>>

\* A connection closed meanwhile has no transactions to offer: the open fails.
BeginCreate(t) ==
    /\ tabs[t].pc = "opened"
    /\ tabs' = [tabs EXCEPT
           ![t] = IF @.connection = "open" THEN [@ EXCEPT !.pc = "creating"]
                                           ELSE Away]
    /\ UNCHANGED <<exists, record, requestVars, counters, issued>>

\* Mutant: the identifier is derived from the stream.
RandomOfStream(n) == <<"client", 0>>

\* An identifier drawn by createClientId: no two draws are equal.
Random(n) == <<"client", n>>

NewId(t) == IF OptionId[t] = NoId THEN Random(created) ELSE OptionId[t]

Missing == record = NoRecord

\* Mutant: the record's identity is not compared with the option.
MatchesAny(t) == OptionId[t] = OptionId[t]

Matches(t) == OptionId[t] \in {NoId, record.clientId}

\* One transaction: the record is looked up and, when there is none, added.
EndCreate(t) ==
    /\ tabs[t].pc = "creating"
    /\ \/ /\ Missing
          /\ record' = [clientId |-> NewId(t), nextClientSequence |-> 1]
          /\ created' = created + 1
       \/ /\ ~ Missing
          /\ Matches(t)
          /\ UNCHANGED <<record, created>>
    /\ tabs' = [tabs EXCEPT ![t] =
           [pc |-> "ready", connection |-> Released(@.connection),
            clientId |-> record'.clientId]]
    /\ UNCHANGED <<exists, requestVars, opens, deletions, issued>>

RefuseIdentity(t) ==
    /\ tabs[t].pc = "creating"
    /\ ~ Missing /\ ~ Matches(t)
    /\ tabs' = [tabs EXCEPT ![t] = Away]
    /\ UNCHANGED <<exists, record, requestVars, counters, issued>>

-----------------------------------------------------------------------------
(* Using and closing a store *)

Writing == {t \in Tabs : tabs[t].pc = "writing"}

\* A closed connection throws instead, which changes nothing.
BeginWrite(t) ==
    /\ tabs[t].pc = "ready"
    /\ tabs[t].connection = "open"
    /\ Cardinality(issued) + Cardinality(Writing) < MaxWrites
    /\ tabs' = [tabs EXCEPT ![t].pc = "writing"]
    /\ UNCHANGED <<exists, record, requestVars, counters, issued>>

\* enqueueOperation: the next position goes to a new operation.
EndWrite(t) ==
    /\ tabs[t].pc = "writing"
    /\ issued' = issued \cup
           {[operationId |-> Cardinality(issued) + 1,
             clientId |-> record.clientId,
             clientSequence |-> record.nextClientSequence]}
    /\ record' = [record EXCEPT !.nextClientSequence = @ + 1]
    /\ tabs' = [tabs EXCEPT ![t].pc = "ready",
                            ![t].connection = Released(@)]
    /\ UNCHANGED <<exists, requestVars, counters>>

\* The client is closed, or could not be created over its store.
CloseStore(t) ==
    /\ tabs[t].pc = "ready"
    /\ tabs' = [tabs EXCEPT ![t] = Away]
    /\ UNCHANGED <<exists, record, requestVars, counters, issued>>

\* The tab goes away: its transaction is aborted and its connection closed.
Crash(t) ==
    /\ tabs[t].pc \in {"opened", "creating", "writing"}
    /\ tabs' = [tabs EXCEPT ![t] = Away]
    /\ UNCHANGED <<exists, record, requestVars, counters, issued>>

-----------------------------------------------------------------------------
(* Deleting *)

DeleteDatabase(t) ==
    /\ deletions < MaxDeletions
    /\ deletion[t] # "waiting"
    /\ deletions' = deletions + 1
    /\ deletion' = [deletion EXCEPT ![t] = "waiting"]
    /\ queue' = Append(queue, [kind |-> "delete", tab |-> t])
    /\ UNCHANGED <<exists, record, phase, notified, tabs, opens, created,
                   issued>>

StartDelete ==
    /\ Served("delete")
    /\ phase = "queued"
    /\ phase' = "notifying"
    /\ notified' = {t \in Tabs : tabs[t].connection = "open"}
    /\ UNCHANGED <<exists, record, queue, tabs, deletion, counters, issued>>

\* Mutant: the connection has no versionchange handler.
ClosedNever(t) == tabs[t]

\* The handler closes the connection.
Closed(t) ==
    [tabs[t] EXCEPT !.connection =
        IF InTransaction(t) /\ @ # "none" THEN "closing" ELSE "none"]

VersionChange(t) ==
    /\ t \in notified
    /\ notified' = notified \ {t}
    /\ tabs' = [tabs EXCEPT ![t] = Closed(t)]
    /\ UNCHANGED <<exists, record, queue, phase, deletion, counters, issued>>

Connected == {t \in Tabs : tabs[t].connection # "none"}

\* The promise is rejected, the request stays.
Blocked ==
    /\ Served("delete")
    /\ phase = "notifying"
    /\ notified = {}
    /\ Connected # {}
    /\ phase' = "blocked"
    /\ deletion' = [deletion EXCEPT ![Head(queue).tab] = "rejected"]
    /\ UNCHANGED <<exists, record, queue, notified, tabs, counters, issued>>

Finish ==
    /\ Served("delete")
    /\ phase \in {"notifying", "blocked"}
    /\ notified = {}
    /\ Connected = {}
    /\ exists' = FALSE
    /\ record' = NoRecord
    /\ queue' = Tail(queue)
    /\ phase' = "queued"
    /\ deletion' = [deletion EXCEPT ![Head(queue).tab] =
                        IF @ = "waiting" THEN "resolved" ELSE @]
    /\ UNCHANGED <<notified, tabs, counters, issued>>

-----------------------------------------------------------------------------
\* What the application and the user do, when they like.
Use(t) ==
    \/ OpenStore(t)
    \/ BeginWrite(t)
    \/ CloseStore(t)
    \/ Crash(t)
    \/ DeleteDatabase(t)

\* What the browser and the code do next, sooner or later.
Progress(t) ==
    \/ BeginCreate(t)
    \/ EndCreate(t)
    \/ RefuseIdentity(t)
    \/ EndWrite(t)
    \/ VersionChange(t)

Browser == ServeOpen \/ StartDelete \/ Blocked \/ Finish

Next == Browser \/ \E t \in Tabs : Use(t) \/ Progress(t)

Spec == Init /\ [][Next]_vars

FairSpec ==
    /\ Spec
    /\ WF_vars(Browser)
    /\ \A t \in Tabs : WF_vars(Progress(t))
=============================================================================
