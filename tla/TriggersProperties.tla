------------------------- MODULE TriggersProperties -------------------------
(* What an application may expect of the hooks that synchronize for it. *)
EXTENDS SyncTriggers

ClientRecord ==
    [state : {"none", "creating", "abandoned", "open", "closed", "failed"},
     stream : Streams \cup {AnyStream}, revision : Nat, pending : Nat,
     requested : BOOLEAN, passing : BOOLEAN, sent : SUBSET Operations,
     forgotten : BOOLEAN]

HookRecord ==
    [key : Keys \cup {Disabled}, client : Keys \cup {Disabled}, revision : Nat,
     syncing : BOOLEAN, installed : Keys \cup {Disabled},
     initialSyncStarted : BOOLEAN, mutationSyncRevision : Nat \cup {-1},
     mutationRevision : Nat, worker : BOOLEAN]

\* The variables have their types, and what is pending or being sent was
\* written.
TriggersTypeOK ==
    /\ options \in Options /\ online \in BOOLEAN
    /\ props \in [Tabs -> [key : Keys \cup {Disabled}, stream : Streams]]
    /\ clients \in [Tabs -> [Keys -> ClientRecord]]
    /\ hooks \in [Tabs -> HookRecord]
    /\ written \subseteq Operations
    /\ outbox \in [Streams -> SUBSET written]
    /\ toWorker \subseteq Streams
    /\ toTabs \in [Tabs -> SUBSET (Streams \cup {AnyStream})]
    /\ \A t \in Tabs, k \in Keys :
           /\ clients[t][k].passing => clients[t][k].sent \subseteq written
           /\ \/ clients[t][k].stream \in Streams
              \/ clients[t][k].state = "none" /\ ~ clients[t][k].passing

\* The client that is rendered is never one that the hook has closed: no
\* effect or listener calls it after close, where its calls throw, whatever
\* key change falls between a render and a late creation
\* (react/index.ts:288-300, 346-349).
RenderedOpen ==
    \A t \in Tabs : Rendered(t) # Disabled =>
        clients[t][Rendered(t)].state = "open"

\* docs/architecture/mechanism-walkthrough.md:865: a client whose creation
\* ends after its key is gone is closed, so that no client of an old key
\* remains open (react/index.ts:329-335).
LateClientsClosed ==
    \A t \in Tabs, k \in Keys :
        clients[t][k].state = "open" => k = hooks[t].key

\* A client belongs to the hook's key while it is created and once it is
\* installed; an effect's references never run ahead of its revision
\* (react/index.ts:104-119, 288-349).
InstalledClient(t, k) ==
    /\ clients[t][k].state = "creating" => k = hooks[t].key
    /\ hooks[t].installed = k <=> clients[t][k].state = "open"
    /\ Rendered(t) = k =>
           /\ hooks[t].installed = k
           /\ hooks[t].revision <= clients[t][k].revision
           /\ hooks[t].mutationSyncRevision <= clients[t][k].revision

HasPending(t, k) == clients[t][k].state = "open" /\ clients[t][k].pending > 0

\* The effects that push what is pending, and the keys they do it under.
PushedByEffect == options.syncOnMutation

PushedByWorker(k) == options.serviceWorker /\ options.initialSync /\ k = 1

\* The message by which the worker will ask the tab to synchronize.
Notified(t, k) == clients[t][k].stream \in toWorker \cup toTabs[t]

\* A pass is under way or asked for, or was and failed: an effect that has seen
\* a revision does not ask for it again, and a call during the pass that fails,
\* that of the online event among them, gets its failure (client.ts:189-201).
Tried(client) == client.requested \/ client.passing \/ client.forgotten

\* A revision that an effect has seen is being pushed or was tried, unless the
\* network is gone: then the listener of the next online event asks for it.
SeenIsPushed(t, k) ==
    Rendered(t) = k /\ HasPending(t, k) =>
        /\ PushedByEffect =>
              /\ hooks[t].revision = clients[t][k].revision =>
                     hooks[t].mutationSyncRevision = clients[t][k].revision
              /\ online /\ hooks[t].mutationSyncRevision = clients[t][k].revision =>
                     Tried(clients[t][k])
        /\ PushedByWorker(k) =>
              /\ hooks[t].revision = clients[t][k].revision =>
                     hooks[t].mutationRevision = clients[t][k].revision
              /\ online /\ hooks[t].mutationRevision = clients[t][k].revision =>
                     Tried(clients[t][k]) \/ Notified(t, k)

\* Under the first key the worker's effect has seen no other client's revision.
FirstKeySeen(t) ==
    /\ hooks[t].key = 1 =>
           hooks[t].mutationRevision <= clients[t][1].revision
    /\ props[t].key = 1 /\ hooks[t].key # 1 =>
           hooks[t].mutationRevision = 0

\* Only a pass that fails in spite of a network forgets what a tab shows as
\* pending.  Otherwise, with a network, a pass is under way or asked for, or a
\* render is due that asks for it, whatever renders, key changes, outages,
\* passes that failed in them and other tabs' messages fell in between
\* (react/index.ts:80-119, 474-552).
PendingNoticed ==
    \A t \in Tabs, k \in Keys :
        /\ online /\ HasPending(t, k)
        /\ PushedByEffect \/ PushedByWorker(k)
        => \/ Tried(clients[t][k])
           \/ Changed(t)
           \/ PushedByWorker(k) /\ Notified(t, k)

\* What hooks, clients and messages know of one another.
HooksSound ==
    /\ TriggersTypeOK /\ RenderedOpen /\ LateClientsClosed
    /\ \A t \in Tabs : FirstKeySeen(t)
    /\ \A t \in Tabs, k \in Keys : InstalledClient(t, k) /\ SeenIsPushed(t, k)

\* What holds at every render and between renders.
TriggersInv == HooksSound /\ PendingNoticed

\* With the network back for good, what a tab shows as pending is pushed, or a
\* pass that was to push it fails after all and is not repeated, if mutations
\* are to trigger a synchronization: by the tab's own effect under every key,
\* by the service worker under the first key at least
\* (react/index.ts:80-119, 474-552; service-worker.template.ts:94-142).
PendingDrains ==
    <>[]online =>
        \A t \in Tabs, k \in Keys :
            /\ HasPending(t, k)
            /\ PushedByEffect \/ PushedByWorker(k)
            ~> ~ HasPending(t, k) \/ clients[t][k].forgotten

Busy(t) == \E k \in Keys : clients[t][k].requested \/ clients[t][k].passing

\* The triggers do not feed one another: once the application and the network
\* leave it alone a tab comes to rest, also while it has no network and what is
\* pending stays pending
\* (react/index.ts:104-119, replica-view.ts:106, 135-139).
Quiesces == <>[](toWorker = {} /\ \A t \in Tabs : ~ Busy(t))
=============================================================================
