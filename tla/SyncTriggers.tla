----------------------------- MODULE SyncTriggers -----------------------------
(***************************************************************************)
(* When a synchronization is asked for: the hooks of src/react/index.ts    *)
(* and the generated service worker.  A tab mounts useSyncEngine under a   *)
(* key (a stream and other options).  The key may change or be disabled    *)
(* while a client is being created or is synchronizing; the hook renders,  *)
(* then runs the effects whose dependencies changed, which one step Commit *)
(* does together.  Tabs share the outbox of a stream.                      *)
(*                                                                         *)
(* The client is as coarse as its users see it: a request starts a pass,   *)
(* a pass sends the outbox round by round until it is empty, and may fail  *)
(* at any time (ClientRuntime has the details).  React, the browser's      *)
(* events and the worker's message channels are external.                  *)
(***************************************************************************)
EXTENDS Integers, FiniteSets

CONSTANTS
    Tabs,
    Streams,
    Options,     \* options of the hooks, and what the browser supports
    Network,     \* whether there may be a network at the start: TRUE, FALSE
    MaxKeys,     \* bound on the keys each tab is given
    MaxWrites,   \* bound on the operations enqueued
    MaxOutages   \* bound on the losses of the network

ASSUME TriggersAssumption ==
    /\ Options \subseteq [initialSync : BOOLEAN, syncOnMutation : BOOLEAN,
                          serviceWorker : BOOLEAN, backgroundSync : BOOLEAN]
    /\ Network \subseteq BOOLEAN
    /\ MaxKeys \in Nat \ {0}
    /\ {MaxWrites, MaxOutages} \subseteq Nat

Keys == 1..MaxKeys
Disabled == 0
Operations == 1..MaxWrites

VARIABLES
    options,   \* the options in force
    online,
    outages,   \* history: number of losses of the network
    outbox,    \* pending proposals of each stream
    written,   \* history: operations enqueued
    props,     \* of each tab: the key it is given, and its stream
    clients,   \* the client of each tab and key
    hooks,     \* of each tab: what was last rendered, state and refs
    toWorker,  \* streams of the mutation messages sent to the worker
    toTabs,    \* background-sync messages sent to each tab
    tag        \* is background synchronization registered

network == <<online, outages>>
messages == <<toWorker, toTabs, tag>>
vars == <<options, network, outbox, written, props, clients, hooks, messages>>

AnyStream == "any"

NoClient == [state |-> "none", stream |-> AnyStream, revision |-> 0,
             pending |-> 0, requested |-> FALSE, passing |-> FALSE,
             sent |-> {}, forgotten |-> FALSE]

NewHook == [key |-> Disabled, client |-> Disabled, revision |-> 0,
            syncing |-> FALSE,
            installed |-> Disabled, initialSyncStarted |-> FALSE,
            mutationSyncRevision |-> -1, mutationRevision |-> 0,
            worker |-> FALSE]

Init ==
    /\ options \in Options
    /\ online \in Network
    /\ outages = 0
    /\ outbox = [s \in Streams |-> {}]
    /\ written = {}
    /\ props \in [Tabs -> [key : {1}, stream : Streams]]
    /\ clients = [t \in Tabs |-> [k \in Keys |-> NoClient]]
    /\ hooks = [t \in Tabs |-> NewHook]
    /\ toWorker = {}
    /\ toTabs = [t \in Tabs |-> {}]
    /\ tag = FALSE

Rendered(t) == hooks[t].client

\* sync() is called.  "forgotten" is a history field: the last pass failed in
\* spite of a network, and nobody has called since.
Asked(client) == [client EXCEPT !.requested = TRUE, !.forgotten = FALSE]

\* A refresh of the view.
Shown(client, pending) ==
    IF client.state = "open"
    THEN [client EXCEPT !.revision = @ + 1, !.pending = Cardinality(pending)]
    ELSE client

-----------------------------------------------------------------------------
(* The application *)

\* put or delete of a row through the client that is rendered.
Enqueue(t) ==
    LET key == Rendered(t)
        stream == clients[t][key].stream
        operation == Cardinality(written) + 1
    IN
    /\ key # Disabled
    /\ operation \in Operations
    /\ written' = written \cup {operation}
    /\ outbox' = [outbox EXCEPT ![stream] = @ \cup {operation}]
    /\ clients' = [clients EXCEPT ![t][key] = Shown(@, outbox'[stream])]
    /\ UNCHANGED <<options, network, props, hooks, messages>>

ChangeKey(t, stream) ==
    /\ props[t].key \in 1..(MaxKeys - 1)
    /\ props' = [props EXCEPT ![t] = [key |-> @.key + 1, stream |-> stream]]
    /\ UNCHANGED <<options, network, outbox, written, clients, hooks,
                   messages>>

\* The hook is disabled, or its component unmounts.
Disable(t) ==
    /\ props[t].key # Disabled
    /\ props' = [props EXCEPT ![t].key = Disabled]
    /\ UNCHANGED <<options, network, outbox, written, clients, hooks,
                   messages>>

-----------------------------------------------------------------------------
(* Render and effects *)

Syncing(t, key) == key # Disabled /\ clients[t][key].passing

\* The client of the current key, or none while it is not created.
Active(t) == IF hooks[t].installed = props[t].key
             THEN hooks[t].installed ELSE Disabled

\* The key or the snapshot changed.  A callback option written inline makes
\* the effects that depend on it run at every render: the references alone
\* keep them from repeating themselves.
Changed(t) ==
    \/ hooks[t].key # props[t].key
    \/ Rendered(t) # Active(t)
    \/ hooks[t].syncing # Syncing(t, Active(t))
    \/ /\ Active(t) # Disabled
       /\ hooks[t].revision # clients[t][Active(t)].revision

\* Cleanup of the old key's effect, and the effect of the new one.  What a
\* closed client shows is read no more, and it takes no new pass.
ClientsAfter(t) ==
    IF hooks[t].key = props[t].key
    THEN clients[t]
    ELSE [k \in Keys |->
             IF k = props[t].key
             THEN [NoClient EXCEPT !.state = "creating",
                                   !.stream = props[t].stream]
             ELSE IF k = hooks[t].key
             THEN [clients[t][k] EXCEPT
                      !.state = CASE @ = "creating" -> "abandoned"
                                  [] @ \in {"open", "failed"} -> "closed"
                                  [] OTHER -> @,
                      !.revision = 0, !.pending = 0, !.requested = FALSE,
                      !.forgotten = FALSE]
             ELSE clients[t][k]]

\* Mutant: revision 0 of a new client counts as seen.
SeenRevisionZero(t) == IF Rendered(t) = Active(t)
                       THEN hooks[t].mutationSyncRevision ELSE 0

\* A change of the client forgets what was seen of the one before.
SeenRevision(t) == IF Rendered(t) = Active(t)
                   THEN hooks[t].mutationSyncRevision ELSE -1

Started(t) == Rendered(t) = Active(t) /\ hooks[t].initialSyncStarted

StartsInitialSync(t) ==
    Active(t) # Disabled /\ options.initialSync /\ ~ Started(t)

Pending(t) == Active(t) # Disabled /\ clients[t][Active(t)].pending > 0

\* Mutant: a revision that was seen is not remembered.
SyncsPending(t) == options.syncOnMutation /\ Pending(t)

SyncsMutation(t) ==
    /\ options.syncOnMutation
    /\ Pending(t)
    /\ SeenRevision(t) # clients[t][Active(t)].revision

\* The effect of useSyncServiceWorker, whose reference outlives the client.
NotifiesMutation(t) ==
    /\ options.serviceWorker
    /\ Pending(t)
    /\ hooks[t].mutationRevision # clients[t][Active(t)].revision

\* Without a worker the tab synchronizes itself.
CallsSync(t) ==
    \/ StartsInitialSync(t)
    \/ SyncsMutation(t)
    \/ NotifiesMutation(t) /\ ~ hooks[t].worker

RenderedRevision(t) ==
    IF Active(t) = Disabled THEN 0 ELSE clients[t][Active(t)].revision

HookAfter(t) ==
    [hooks[t] EXCEPT
        !.key = props[t].key, !.client = Active(t),
        !.revision = RenderedRevision(t), !.syncing = Syncing(t, Active(t)),
        !.installed = IF @ = props[t].key THEN @ ELSE Disabled,
        !.initialSyncStarted = Started(t) \/ StartsInitialSync(t),
        !.mutationSyncRevision =
            IF SyncsMutation(t) THEN RenderedRevision(t) ELSE SeenRevision(t),
        !.mutationRevision =
            IF NotifiesMutation(t) THEN RenderedRevision(t) ELSE @]

Commit(t) ==
    /\ Changed(t)
    /\ clients' = [clients EXCEPT ![t] =
           IF CallsSync(t)
           THEN [ClientsAfter(t) EXCEPT ![Active(t)] = Asked(@)]
           ELSE ClientsAfter(t)]
    /\ hooks' = [hooks EXCEPT ![t] = HookAfter(t)]
    /\ toWorker' = IF NotifiesMutation(t) /\ hooks[t].worker
                   THEN toWorker \cup {clients[t][Active(t)].stream}
                   ELSE toWorker
    /\ UNCHANGED <<options, network, outbox, written, props, toTabs, tag>>

\* Mutant: a client is installed although its effect was cleaned up.
CreatedInAnyCase(t, key) ==
    /\ clients[t][key].state \in {"creating", "abandoned"}
    /\ clients' = [clients EXCEPT
           ![t][key].state = "open",
           ![t][key].pending = Cardinality(outbox[clients[t][key].stream])]
    /\ hooks' = [hooks EXCEPT ![t].installed = key]
    /\ UNCHANGED <<options, network, outbox, written, props, messages>>

Created(t, key) ==
    /\ \/ /\ clients[t][key].state = "creating"
          /\ clients' = [clients EXCEPT
                 ![t][key].state = "open",
                 ![t][key].pending =
                     Cardinality(outbox[clients[t][key].stream])]
          /\ hooks' = [hooks EXCEPT ![t].installed = key]
       \/ /\ clients[t][key].state = "abandoned"
          /\ clients' = [clients EXCEPT ![t][key].state = "closed"]
          /\ UNCHANGED hooks
    /\ UNCHANGED <<options, network, outbox, written, props, messages>>

\* Of a creation that was cleaned up nobody hears whether it failed.
CreationFails(t, key) ==
    /\ clients[t][key].state \in {"creating", "abandoned"}
    /\ clients' = [clients EXCEPT ![t][key].state =
                      IF @ = "creating" THEN "failed" ELSE "closed"]
    /\ UNCHANGED <<options, network, outbox, written, props, hooks, messages>>

-----------------------------------------------------------------------------
(* The client *)

\* Requests are one flag.
BeginPass(t, key) ==
    LET client == clients[t][key] IN
    /\ client.state = "open"
    /\ client.requested
    /\ ~ client.passing
    /\ clients' = [clients EXCEPT ![t][key] =
           [client EXCEPT !.requested = FALSE, !.passing = TRUE,
                          !.sent = outbox[client.stream]]]
    /\ UNCHANGED <<options, network, outbox, written, props, hooks, messages>>

\* One response: what was sent is decided and the view is read again.
Receive(t, key) ==
    LET client == clients[t][key]
        left == outbox[client.stream] \ client.sent
    IN
    /\ client.passing
    /\ online
    /\ outbox' = [outbox EXCEPT ![client.stream] = left]
    /\ clients' = [clients EXCEPT ![t][key] =
           Shown([@ EXCEPT !.passing = left # {}, !.sent = left], left)]
    /\ UNCHANGED <<options, network, written, props, hooks, messages>>

\* The phase is shown under the old revision; requests made in between are
\* lost: they were handed the promise that is rejected.
Failed(client) ==
    [client EXCEPT !.passing = FALSE, !.requested = FALSE, !.sent = {},
                   !.forgotten = online /\ client.state = "open"]

\* There is no network, or the answer is an error, or a fetch from before or
\* during an outage is rejected although the network is back.
FailPass(t, key) ==
    /\ clients[t][key].passing
    /\ clients' = [clients EXCEPT ![t][key] = Failed(@)]
    /\ UNCHANGED <<options, network, outbox, written, props, hooks, messages>>

-----------------------------------------------------------------------------
(* The browser and the service worker *)

Request(asked) ==
    clients' = [t \in Tabs |-> [k \in Keys |->
        IF t \in asked /\ k = Rendered(t)
        THEN Asked(clients[t][k]) ELSE clients[t][k]]]

GoOffline ==
    /\ online
    /\ outages < MaxOutages
    /\ online' = FALSE
    /\ outages' = outages + 1
    /\ UNCHANGED <<options, outbox, written, props, clients, hooks, messages>>

\* The online event reaches the listeners of the clients that are rendered.
GoOnline ==
    /\ ~ online
    /\ online' = TRUE
    /\ Request(Tabs)
    /\ UNCHANGED <<options, outages, outbox, written, props, hooks, messages>>

\* The worker is registered, takes control of the tab and, if the browser
\* supports it, registers background synchronization.
WorkerReady(t) ==
    /\ options.serviceWorker
    /\ Rendered(t) # Disabled
    /\ ~ hooks[t].worker
    /\ hooks' = [hooks EXCEPT ![t].worker = TRUE]
    /\ tag' = (tag \/ options.backgroundSync)
    /\ UNCHANGED <<options, network, outbox, written, props, clients,
                   toWorker, toTabs>>

\* The worker passes a mutation on to every tab.
NotifyClients(stream) ==
    /\ stream \in toWorker
    /\ toWorker' = toWorker \ {stream}
    /\ toTabs' = [t \in Tabs |-> toTabs[t] \cup {stream}]
    /\ tag' = (tag \/ options.backgroundSync)
    /\ UNCHANGED <<options, network, outbox, written, props, clients, hooks>>

\* The sync event names no stream.
BackgroundSync ==
    /\ tag /\ online
    /\ tag' = FALSE
    /\ toTabs' = [t \in Tabs |-> toTabs[t] \cup {AnyStream}]
    /\ UNCHANGED <<options, network, outbox, written, props, clients, hooks,
                   toWorker>>

Concerns(t, stream) ==
    /\ Rendered(t) # Disabled
    /\ stream \in {AnyStream, clients[t][Rendered(t)].stream}

OnMessage(t, stream) ==
    /\ stream \in toTabs[t]
    /\ toTabs' = [toTabs EXCEPT ![t] = @ \ {stream}]
    /\ IF Concerns(t, stream) THEN Request({t}) ELSE UNCHANGED clients
    /\ UNCHANGED <<options, network, outbox, written, props, hooks, toWorker,
                   tag>>

-----------------------------------------------------------------------------
Application(t) ==
    \/ Enqueue(t)
    \/ \E stream \in Streams : ChangeKey(t, stream)
    \/ Disable(t)

Client(t, key) == BeginPass(t, key) \/ Receive(t, key) \/ FailPass(t, key)

Creation(t, key) == Created(t, key) \/ CreationFails(t, key)

Browser ==
    \/ GoOffline \/ GoOnline \/ BackgroundSync
    \/ \E t \in Tabs : WorkerReady(t)

Delivery ==
    \/ \E stream \in Streams : NotifyClients(stream)
    \/ \E t \in Tabs, stream \in Streams \cup {AnyStream} :
           OnMessage(t, stream)

Next ==
    \/ \E t \in Tabs : Application(t) \/ Commit(t)
    \/ \E t \in Tabs, key \in Keys : Client(t, key) \/ Creation(t, key)
    \/ Browser
    \/ Delivery

Spec == Init /\ [][Next]_vars

FairSpec ==
    /\ Spec
    /\ WF_vars(Delivery)
    /\ \A t \in Tabs : WF_vars(Commit(t))
    /\ \A t \in Tabs, key \in Keys :
           WF_vars(Client(t, key)) /\ WF_vars(Creation(t, key))
=============================================================================
