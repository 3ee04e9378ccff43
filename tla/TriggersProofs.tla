---------------------------- MODULE TriggersProofs ----------------------------
(***************************************************************************)
(* What hooks, clients and messages know of one another, for any number of *)
(* tabs, streams, keys and writes: every step of SyncTriggers keeps        *)
(* HooksSound, and with it only a pass that fails in spite of a network    *)
(* forgets what a tab shows as pending.                                    *)
(***************************************************************************)
EXTENDS TriggersProperties, FiniteSetTheorems, TLAPS

\* Keys are numbers, and none is the disabled one.
LEMMA KeyFacts ==
  /\ 1 \in Keys /\ Disabled \notin Keys /\ Disabled = 0
  /\ \A k \in Keys : k \in Nat
BY TriggersAssumption DEF Keys, Disabled

\* What is pending can be counted.
LEMMA PendingCounted ==
  ASSUME NEW some \in SUBSET Operations
  PROVE  Cardinality(some) \in Nat
<1>1. IsFiniteSet(Operations)
  <2>1. MaxWrites \in Int
    BY TriggersAssumption
  <2>. QED
    BY <2>1, FS_Interval DEF Operations
<1>2. IsFiniteSet(some)
  BY <1>1, FS_Subset
<1>. QED
  BY <1>2, FS_CardinalityType

\* One client of one tab changes.
LEMMA OneClient ==
  ASSUME NEW all \in [Tabs -> [Keys -> ClientRecord]],
         NEW t \in Tabs, NEW k \in Keys, NEW new \in ClientRecord,
         NEW after, after = [all EXCEPT ![t][k] = new]
  PROVE  /\ after \in [Tabs -> [Keys -> ClientRecord]]
         /\ after[t][k] = new
         /\ \A u \in Tabs, j \in Keys : u # t \/ j # k => after[u][j] = all[u][j]
OBVIOUS

\* The initial state is sound.
LEMMA InitHooksSound == Init => HooksSound
<1> SUFFICES ASSUME Init PROVE HooksSound
  OBVIOUS
<1>1. \A t \in Tabs, k \in Keys : clients[t][k] = NoClient
  BY DEF Init
<1>2. \A t \in Tabs : hooks[t] = NewHook
  BY DEF Init
<1>3. NoClient \in ClientRecord /\ NoClient.state = "none" /\ ~ NoClient.passing
  BY DEF NoClient, ClientRecord
<1>4. NewHook \in HookRecord /\ NewHook.installed = 0 /\ NewHook.client = 0
      /\ NewHook.mutationRevision = 0 /\ NewHook.key = 0
  BY DEF NewHook, HookRecord, Disabled
<1>5. TriggersTypeOK
  <2>1. clients \in [Tabs -> [Keys -> ClientRecord]]
    BY <1>3 DEF Init
  <2>2. hooks \in [Tabs -> HookRecord]
    BY <1>4 DEF Init
  <2>3. props \in [Tabs -> [key : Keys \cup {Disabled}, stream : Streams]]
    BY KeyFacts DEF Init
  <2>4. options \in Options /\ online \in BOOLEAN
    BY TriggersAssumption DEF Init
  <2>5. /\ written \subseteq Operations /\ outbox \in [Streams -> SUBSET written]
        /\ toWorker \subseteq Streams
        /\ toTabs \in [Tabs -> SUBSET (Streams \cup {AnyStream})]
    BY DEF Init
  <2>6. \A t \in Tabs, k \in Keys :
           /\ ~ clients[t][k].passing
           /\ clients[t][k].state = "none"
    BY <1>1, <1>3
  <2>. QED
    BY <2>1, <2>2, <2>3, <2>4, <2>5, <2>6 DEF TriggersTypeOK
<1>6. RenderedOpen
  BY <1>2, <1>4 DEF RenderedOpen, Rendered, Disabled
<1>7. LateClientsClosed
  BY <1>1, <1>3 DEF LateClientsClosed
<1>8. \A t \in Tabs : FirstKeySeen(t)
  BY <1>2, <1>4 DEF FirstKeySeen
<1>9. \A t \in Tabs, k \in Keys : InstalledClient(t, k)
  BY <1>1, <1>2, <1>3, <1>4, KeyFacts DEF InstalledClient, Rendered
<1>10. \A t \in Tabs, k \in Keys : SeenIsPushed(t, k)
  BY <1>1, <1>3 DEF SeenIsPushed, HasPending
<1>. QED
  BY <1>5, <1>6, <1>7, <1>8, <1>9, <1>10 DEF HooksSound

-----------------------------------------------------------------------------
(* Steps of one client. *)

\* A client goes forward: it stays open or not, and either its view is read again or what it
\* was asked to push it still is or was tried, or there is no network.
GoesForward(old, new, connected) ==
    /\ new.state = "open" <=> old.state = "open"
    /\ new.state = "creating" => old.state = "creating"
    /\ old.revision <= new.revision
    /\ new.state = "open" =>
          /\ new.stream = old.stream
          /\ \/ old.revision < new.revision
             \/ /\ new.revision = old.revision /\ new.pending = old.pending
                /\ \/ ~ connected
                   \/ Tried(new)
                   \/ ~ Tried(old)

\* What is true of a client's hook stays true while the client goes forward.
LEMMA ForwardKeeps ==
  ASSUME HooksSound, NEW t \in Tabs, NEW k \in Keys,
         GoesForward(clients[t][k], clients'[t][k], online),
         clients'[t][k] \in ClientRecord,
         hooks' = hooks, options' = options, online' = online,
         toWorker' = toWorker, toTabs' = toTabs
  PROVE  InstalledClient(t, k)' /\ SeenIsPushed(t, k)'
<1>1. PICK old : old = clients[t][k]
  OBVIOUS
<1>2. PICK new : new = clients'[t][k]
  OBVIOUS
<1>3. PICK hook : hook = hooks[t]
  OBVIOUS
<1>4. /\ old.revision \in Nat /\ new.revision \in Nat
      /\ hook.revision \in Nat /\ hook.mutationRevision \in Nat
      /\ hook.mutationSyncRevision \in Nat \cup {-1}
      /\ hook \in HookRecord
  BY <1>1, <1>2, <1>3 DEF HooksSound, TriggersTypeOK, ClientRecord, HookRecord
<1>5. InstalledClient(t, k) /\ SeenIsPushed(t, k) /\ FirstKeySeen(t)
  BY DEF HooksSound
<1>6. GoesForward(old, new, online) /\ hooks'[t] = hook
  BY <1>1, <1>2, <1>3
<1>7. InstalledClient(t, k)'
  BY <1>1, <1>2, <1>3, <1>4, <1>5, <1>6 DEF InstalledClient, GoesForward, Rendered
<1>8. ASSUME hook.client = k, new.state = "open", new.pending > 0
      PROVE  /\ options.syncOnMutation =>
                  /\ hook.revision = new.revision => hook.mutationSyncRevision = new.revision
                  /\ online /\ hook.mutationSyncRevision = new.revision =>
                         Tried(new)
             /\ PushedByWorker(k) =>
                  /\ hook.revision = new.revision => hook.mutationRevision = new.revision
                  /\ online /\ hook.mutationRevision = new.revision =>
                         Tried(new) \/ Notified(t, k)
  <2>1. /\ hook.revision <= old.revision /\ hook.mutationSyncRevision <= old.revision
        /\ old.state = "open"
    BY <1>1, <1>3, <1>5, <1>6, <1>8 DEF InstalledClient, GoesForward, Rendered
  <2>2. PushedByWorker(k) => hook.mutationRevision <= old.revision
    <3>1. hook.key = k
      BY <1>1, <1>3, <2>1 DEF HooksSound, LateClientsClosed
    <3>. QED
      BY <1>1, <1>3, <1>5, <3>1 DEF PushedByWorker, FirstKeySeen
  <2>3. CASE old.revision < new.revision
    BY <1>4, <2>1, <2>2, <2>3
  <2>4. CASE ~ (old.revision < new.revision)
    <3>1. /\ new.revision = old.revision /\ new.pending = old.pending
          /\ \/ ~ online
             \/ Tried(new)
             \/ ~ Tried(old)
      BY <1>6, <1>8, <2>4 DEF GoesForward
    <3>2. /\ options.syncOnMutation =>
                /\ hook.revision = old.revision => hook.mutationSyncRevision = old.revision
                /\ online /\ hook.mutationSyncRevision = old.revision =>
                       Tried(old)
          /\ PushedByWorker(k) =>
                /\ hook.revision = old.revision => hook.mutationRevision = old.revision
                /\ online /\ hook.mutationRevision = old.revision =>
                       Tried(old) \/ Notified(t, k)
      BY <1>1, <1>3, <1>5, <1>8, <2>1, <3>1
      DEF SeenIsPushed, HasPending, Rendered, PushedByEffect
    <3>. QED
      BY <3>1, <3>2
  <2>. QED
    BY <2>3, <2>4
<1>9. new.state = "open" => new.stream = old.stream
  BY <1>6 DEF GoesForward
<1>10. SeenIsPushed(t, k)'
  BY <1>1, <1>2, <1>3, <1>6, <1>8, <1>9
  DEF SeenIsPushed, HasPending, Rendered, PushedByEffect, PushedByWorker, Notified
<1>. QED
  BY <1>7, <1>10

\* One client goes forward, and nothing else that hooks or messages know of changes.
OneGoesForward(t, k, new) ==
    /\ clients' = [clients EXCEPT ![t][k] = new]
    /\ new \in ClientRecord
    /\ GoesForward(clients[t][k], new, online)
    /\ new.passing => new.sent \subseteq written'
    /\ new.stream \in Streams \/ (new.state = "none" /\ ~ new.passing)
    /\ written \subseteq written' /\ written' \subseteq Operations
    /\ outbox' \in [Streams -> SUBSET written']
    /\ UNCHANGED <<options, network, props, hooks, messages>>

\* A step of one client keeps what hooks, clients and messages know of one another.
LEMMA OneForwardKeeps ==
  ASSUME HooksSound, NEW t \in Tabs, NEW k \in Keys, NEW new, OneGoesForward(t, k, new)
  PROVE  HooksSound'
<1>1. /\ hooks' = hooks /\ options' = options /\ online' = online /\ props' = props
      /\ toWorker' = toWorker /\ toTabs' = toTabs
  BY DEF OneGoesForward, network, messages
<1>2. /\ clients' \in [Tabs -> [Keys -> ClientRecord]]
      /\ clients'[t][k] = new
      /\ \A u \in Tabs, j \in Keys : u # t \/ j # k => clients'[u][j] = clients[u][j]
  <2>1. /\ clients \in [Tabs -> [Keys -> ClientRecord]] /\ new \in ClientRecord
        /\ clients' = [clients EXCEPT ![t][k] = new]
    BY DEF HooksSound, TriggersTypeOK, OneGoesForward
  <2>. QED
    BY <2>1, OneClient
<1>3. \A u \in Tabs, j \in Keys :
         /\ clients[u][j].revision \in Nat
         /\ clients'[u][j] \in ClientRecord
         /\ GoesForward(clients[u][j], clients'[u][j], online)
  <2>1. \A u \in Tabs, j \in Keys : clients[u][j].revision \in Nat
    BY DEF HooksSound, TriggersTypeOK, ClientRecord
  <2>2. \A old : old.revision \in Nat => GoesForward(old, old, online)
    BY DEF GoesForward
  <2>. QED
    BY <1>2, <2>1, <2>2 DEF OneGoesForward
<1>4. \A u \in Tabs, j \in Keys : InstalledClient(u, j)' /\ SeenIsPushed(u, j)'
  BY <1>1, <1>3, ForwardKeeps
<1>5. TriggersTypeOK'
  <2>1. \A u \in Tabs, j \in Keys :
           /\ clients'[u][j].passing => clients'[u][j].sent \subseteq written'
           /\ \/ clients'[u][j].stream \in Streams
              \/ clients'[u][j].state = "none" /\ ~ clients'[u][j].passing
    BY <1>2 DEF HooksSound, TriggersTypeOK, OneGoesForward
  <2>. QED
    BY <1>1, <1>2, <2>1 DEF HooksSound, TriggersTypeOK, OneGoesForward
<1>6. RenderedOpen'
  <2>1. ASSUME NEW u \in Tabs, hooks[u].client # Disabled
        PROVE  clients'[u][hooks[u].client].state = "open"
    <3>1. hooks[u].client \in Keys
      BY <2>1 DEF HooksSound, TriggersTypeOK, HookRecord
    <3>2. clients[u][hooks[u].client].state = "open"
      BY <2>1 DEF HooksSound, RenderedOpen, Rendered
    <3>. QED
      BY <1>3, <3>1, <3>2 DEF GoesForward
  <2>. QED
    BY <1>1, <2>1 DEF RenderedOpen, Rendered
<1>7. LateClientsClosed'
  BY <1>1, <1>3 DEF HooksSound, LateClientsClosed, GoesForward
<1>8. \A u \in Tabs : FirstKeySeen(u)'
  <2>1. ASSUME NEW u \in Tabs
        PROVE  FirstKeySeen(u)'
    <3>1. clients[u][1].revision <= clients'[u][1].revision
      BY <1>3, KeyFacts DEF GoesForward
    <3>2. /\ clients[u][1].revision \in Nat /\ clients'[u][1].revision \in Nat
          /\ hooks[u].mutationRevision \in Nat
      BY <1>3, KeyFacts DEF HooksSound, TriggersTypeOK, HookRecord, ClientRecord
    <3>3. FirstKeySeen(u)
      BY DEF HooksSound
    <3>. QED
      BY <1>1, <3>1, <3>2, <3>3 DEF FirstKeySeen
  <2>. QED
    BY <2>1
<1>. QED
  BY <1>4, <1>5, <1>6, <1>7, <1>8 DEF HooksSound

\* Types of one client and of its outbox.
LEMMA ClientTypes ==
  ASSUME HooksSound, NEW t \in Tabs, NEW k \in Keys
  PROVE  /\ clients[t][k] \in ClientRecord
         /\ clients[t][k].revision \in Nat
         /\ clients[t][k].state \in {"none", "creating", "abandoned", "open", "closed", "failed"}
         /\ clients[t][k].state # "none" \/ clients[t][k].passing =>
                /\ clients[t][k].stream \in Streams
                /\ outbox[clients[t][k].stream] \subseteq written
         /\ clients[t][k].passing => clients[t][k].sent \subseteq written
         /\ written \subseteq Operations /\ outbox \in [Streams -> SUBSET written]
<1>1. /\ clients[t][k] \in ClientRecord
      /\ clients[t][k].passing => clients[t][k].sent \subseteq written
      /\ \/ clients[t][k].stream \in Streams
         \/ clients[t][k].state = "none" /\ ~ clients[t][k].passing
      /\ written \subseteq Operations /\ outbox \in [Streams -> SUBSET written]
  BY DEF HooksSound, TriggersTypeOK
<1>2. /\ clients[t][k].revision \in Nat
      /\ clients[t][k].state \in {"none", "creating", "abandoned", "open", "closed", "failed"}
  BY <1>1 DEF ClientRecord
<1>. QED
  BY <1>1, <1>2

\* A view that is read again.
LEMMA ShownFacts ==
  ASSUME NEW client \in ClientRecord, NEW some \in SUBSET Operations
  PROVE  /\ Shown(client, some) \in ClientRecord
         /\ Shown(client, some).state = client.state
         /\ Shown(client, some).stream = client.stream
         /\ Shown(client, some).passing = client.passing
         /\ Shown(client, some).sent = client.sent
         /\ client.revision <= Shown(client, some).revision
         /\ client.state = "open" => client.revision < Shown(client, some).revision
<1>1. Cardinality(some) \in Nat
  BY PendingCounted
<1>2. client.revision \in Nat /\ client.revision + 1 \in Nat
  BY DEF ClientRecord
<1>3. CASE client.state = "open"
  <2>1. PICK new : new = [client EXCEPT !.revision = client.revision + 1,
                                        !.pending = Cardinality(some)]
    OBVIOUS
  <2>2. Shown(client, some) = new
    BY <1>3, <2>1 DEF Shown
  <2>3. /\ new \in ClientRecord /\ new.state = client.state /\ new.stream = client.stream
        /\ new.passing = client.passing /\ new.sent = client.sent
        /\ new.revision = client.revision + 1
    BY <1>1, <1>2, <2>1 DEF ClientRecord
  <2>. QED
    BY <1>2, <2>2, <2>3
<1>4. CASE client.state # "open"
  BY <1>2, <1>4 DEF Shown
<1>. QED
  BY <1>3, <1>4

\* A write is shown by the client that made it.
LEMMA EnqueueKeeps ==
  ASSUME HooksSound, NEW t \in Tabs, Enqueue(t)
  PROVE  HooksSound'
<1>1. PICK key : key = Rendered(t)
  OBVIOUS
<1>2. /\ key \in Keys /\ clients[t][key].state = "open"
      /\ hooks[t].client \in Keys \cup {Disabled}
  <2>1. hooks[t].client \in Keys \cup {Disabled}
    BY DEF HooksSound, TriggersTypeOK, HookRecord
  <2>2. key # Disabled
    BY <1>1 DEF Enqueue
  <2>. QED
    BY <1>1, <2>1, <2>2 DEF HooksSound, RenderedOpen, Rendered
<1>3. PICK old : old = clients[t][key]
  OBVIOUS
<1>4. PICK operation : operation = Cardinality(written) + 1
  OBVIOUS
<1>5. /\ operation \in Operations /\ written' = written \cup {operation}
      /\ outbox' = [outbox EXCEPT ![old.stream] = @ \cup {operation}]
      /\ clients' = [clients EXCEPT ![t][key] = Shown(old, outbox'[old.stream])]
      /\ UNCHANGED <<options, network, props, hooks, messages>>
  BY <1>1, <1>3, <1>4 DEF Enqueue
<1>6. /\ old \in ClientRecord /\ old.state = "open" /\ old.stream \in Streams
      /\ old.passing => old.sent \subseteq written
      /\ written \subseteq Operations /\ outbox \in [Streams -> SUBSET written]
  BY <1>2, <1>3, ClientTypes
<1>7. /\ written' \subseteq Operations /\ outbox' \in [Streams -> SUBSET written']
      /\ outbox'[old.stream] \in SUBSET Operations
  BY <1>5, <1>6
<1>8. PICK new : new = Shown(old, outbox'[old.stream])
  OBVIOUS
<1>9. /\ new \in ClientRecord /\ new.state = old.state /\ new.stream = old.stream
      /\ new.passing = old.passing /\ new.sent = old.sent
      /\ old.revision <= new.revision /\ old.revision < new.revision
  BY <1>6, <1>7, <1>8, ShownFacts
<1>10. GoesForward(old, new, online)
  BY <1>6, <1>9 DEF GoesForward
<1>11. new.passing => new.sent \subseteq written'
  BY <1>5, <1>6, <1>9
<1>12. clients' = [clients EXCEPT ![t][key] = new]
  BY <1>5, <1>8
<1>13. written \subseteq written'
  BY <1>5
<1>14. new.stream \in Streams /\ UNCHANGED <<options, network, props, hooks, messages>>
  BY <1>5, <1>6, <1>9
<1>15. OneGoesForward(t, key, new)
  <2>1. GoesForward(clients[t][key], new, online)
    BY <1>3, <1>10
  <2>2. new \in ClientRecord
    BY <1>9
  <2>3. written' \subseteq Operations /\ outbox' \in [Streams -> SUBSET written']
    BY <1>7
  <2>. QED
    BY <1>11, <1>12, <1>13, <1>14, <2>1, <2>2, <2>3 DEF OneGoesForward
<1>. QED
  BY <1>2, <1>15, OneForwardKeeps

\* A client whose creation failed was not rendered.
LEMMA CreationFailsKeeps ==
  ASSUME HooksSound, NEW t \in Tabs, NEW key \in Keys, CreationFails(t, key)
  PROVE  HooksSound'
<1>1. PICK old : old = clients[t][key]
  OBVIOUS
<1>2. PICK new : new = [old EXCEPT !.state = IF old.state = "creating" THEN "failed"
                                             ELSE "closed"]
  OBVIOUS
<1>3. /\ old \in ClientRecord /\ old.revision \in Nat /\ old.stream \in Streams
      /\ old.state \in {"creating", "abandoned"}
      /\ old.passing => old.sent \subseteq written
      /\ written \subseteq Operations /\ outbox \in [Streams -> SUBSET written]
  BY <1>1, ClientTypes DEF CreationFails
<1>4. /\ new \in ClientRecord /\ new.state \in {"failed", "closed"} /\ new.stream = old.stream
      /\ new.passing = old.passing /\ new.sent = old.sent /\ new.revision = old.revision
  BY <1>2, <1>3 DEF ClientRecord
<1>5. clients' = [clients EXCEPT ![t][key] = new]
  BY <1>1, <1>2 DEF CreationFails
<1>6. GoesForward(old, new, online)
  BY <1>3, <1>4 DEF GoesForward
<1>7. UNCHANGED <<options, network, outbox, written, props, hooks, messages>>
  BY DEF CreationFails
<1>8. OneGoesForward(t, key, new)
  BY <1>1, <1>3, <1>4, <1>5, <1>6, <1>7 DEF OneGoesForward
<1>. QED
  BY <1>8, OneForwardKeeps

\* A request becomes a pass.
LEMMA BeginPassKeeps ==
  ASSUME HooksSound, NEW t \in Tabs, NEW key \in Keys, BeginPass(t, key)
  PROVE  HooksSound'
<1>1. PICK old : old = clients[t][key]
  OBVIOUS
<1>2. PICK sent : sent = outbox[old.stream]
  OBVIOUS
<1>3. PICK new : new = [old EXCEPT !.requested = FALSE, !.passing = TRUE, !.sent = sent]
  OBVIOUS
<1>4. /\ old \in ClientRecord /\ old.revision \in Nat
      /\ old.state = "open" /\ old.stream \in Streams
      /\ written \subseteq Operations /\ outbox \in [Streams -> SUBSET written]
  BY <1>1, ClientTypes DEF BeginPass
<1>5. sent \subseteq written /\ sent \subseteq Operations
  BY <1>2, <1>4
<1>6. clients' = [clients EXCEPT ![t][key] = new]
  BY <1>1, <1>2, <1>3 DEF BeginPass
<1>7. UNCHANGED <<options, network, outbox, written, props, hooks, messages>>
  BY DEF BeginPass
<1>8. /\ new \in ClientRecord /\ new.state = old.state /\ new.stream = old.stream
      /\ new.revision = old.revision /\ new.pending = old.pending
      /\ new.passing /\ new.sent = sent
  BY <1>3, <1>4, <1>5 DEF ClientRecord
<1>9. GoesForward(old, new, online)
  BY <1>4, <1>8 DEF GoesForward, Tried
<1>10. OneGoesForward(t, key, new)
  BY <1>1, <1>4, <1>5, <1>6, <1>7, <1>8, <1>9 DEF OneGoesForward
<1>. QED
  BY <1>10, OneForwardKeeps

\* A response is taken and the view read again.
LEMMA ReceiveKeeps ==
  ASSUME HooksSound, NEW t \in Tabs, NEW key \in Keys, Receive(t, key)
  PROVE  HooksSound'
<1>1. PICK old : old = clients[t][key]
  OBVIOUS
<1>2. PICK left : left = outbox[old.stream] \ old.sent
  OBVIOUS
<1>3. /\ old \in ClientRecord /\ old.revision \in Nat
      /\ old.state # "none" \/ old.passing =>
             old.stream \in Streams /\ outbox[old.stream] \subseteq written
      /\ written \subseteq Operations /\ outbox \in [Streams -> SUBSET written]
  BY <1>1, ClientTypes
<1>4. old.passing
  BY <1>1 DEF Receive
<1>5. left \subseteq written /\ left \subseteq Operations /\ old.stream \in Streams
  BY <1>2, <1>3, <1>4
<1>6. PICK sent : sent = [old EXCEPT !.passing = left # {}, !.sent = left]
  OBVIOUS
<1>7. PICK new : new = Shown(sent, left)
  OBVIOUS
<1>8. /\ sent \in ClientRecord /\ sent.state = old.state /\ sent.stream = old.stream
      /\ sent.revision = old.revision /\ sent.pending = old.pending
      /\ sent.requested = old.requested /\ sent.sent = left
  BY <1>3, <1>5, <1>6 DEF ClientRecord
<1>9. /\ new \in ClientRecord /\ new.state = sent.state /\ new.stream = sent.stream
      /\ new.passing = sent.passing /\ new.sent = sent.sent
      /\ sent.revision <= new.revision
      /\ sent.state = "open" => sent.revision < new.revision
  BY <1>5, <1>7, <1>8, ShownFacts
<1>10. /\ clients' = [clients EXCEPT ![t][key] = new]
       /\ outbox' = [outbox EXCEPT ![old.stream] = left]
  BY <1>1, <1>2, <1>6, <1>7 DEF Receive
<1>11. outbox' \in [Streams -> SUBSET written]
  BY <1>3, <1>5, <1>10
<1>12. GoesForward(old, new, online)
  <2>1. CASE old.state = "open"
    BY <1>8, <1>9, <2>1 DEF GoesForward
  <2>2. CASE old.state # "open"
    BY <1>8, <1>9, <2>2 DEF GoesForward
  <2>. QED
    BY <2>1, <2>2
<1>13. OneGoesForward(t, key, new)
  BY <1>1, <1>3, <1>5, <1>8, <1>9, <1>10, <1>11, <1>12 DEF OneGoesForward, Receive
<1>. QED
  BY <1>13, OneForwardKeeps

\* A pass fails only without a network.
LEMMA FailPassKeeps ==
  ASSUME HooksSound, NEW t \in Tabs, NEW key \in Keys, FailPass(t, key)
  PROVE  HooksSound'
<1>1. PICK old : old = clients[t][key]
  OBVIOUS
<1>2. PICK new : new = [old EXCEPT !.passing = FALSE, !.requested = FALSE, !.sent = {},
                                   !.forgotten = online /\ old.state = "open"]
  OBVIOUS
<1>3. /\ old \in ClientRecord /\ old.revision \in Nat
      /\ old.state # "none" \/ old.passing => old.stream \in Streams
      /\ written \subseteq Operations /\ outbox \in [Streams -> SUBSET written]
  BY <1>1, ClientTypes
<1>4. /\ new \in ClientRecord /\ new.state = old.state /\ new.stream = old.stream
      /\ new.revision = old.revision /\ new.pending = old.pending /\ ~ new.passing
      /\ new.state = "open" /\ online => new.forgotten
  <2>1. (online /\ old.state = "open") \in BOOLEAN
    BY DEF HooksSound, TriggersTypeOK
  <2>. QED
    BY <1>2, <1>3, <2>1 DEF ClientRecord
<1>5. /\ old.passing
      /\ clients' = [clients EXCEPT ![t][key] = new]
  BY <1>1, <1>2 DEF FailPass, Failed
<1>6. GoesForward(old, new, online)
  BY <1>3, <1>4, <1>5 DEF GoesForward, Tried
<1>7. OneGoesForward(t, key, new)
  BY <1>1, <1>3, <1>4, <1>5, <1>6 DEF OneGoesForward, FailPass
<1>. QED
  BY <1>7, OneForwardKeeps

-----------------------------------------------------------------------------
(* The browser, the worker and its messages. *)

\* A client is at most asked to synchronize.
AtMostAsked(old, new) ==
    /\ new \in ClientRecord
    /\ new.state = old.state /\ new.stream = old.stream /\ new.revision = old.revision
    /\ new.pending = old.pending /\ new.passing = old.passing /\ new.sent = old.sent
    /\ Tried(old) => Tried(new)

\* What is rendered is asked when the network returns, and when its message is taken.
StillAsked(u, j) ==
    /\ AtMostAsked(clients[u][j], clients'[u][j])
    /\ Rendered(u) = j /\ online' =>
          /\ ~ online => clients'[u][j].requested
          /\ Notified(u, j) => clients'[u][j].requested \/ Notified(u, j)'

\* Only the network, messages and requests change.
OnlyAsks ==
    /\ \A u \in Tabs, j \in Keys : StillAsked(u, j)
    /\ clients' \in [Tabs -> [Keys -> ClientRecord]]
    /\ UNCHANGED <<options, outbox, written, props, hooks>>
    /\ online' \in BOOLEAN /\ toWorker' \subseteq Streams
    /\ toTabs' \in [Tabs -> SUBSET (Streams \cup {AnyStream})]

\* Such a step keeps what hooks, clients and messages know of one another.
LEMMA OnlyAsksKeeps == HooksSound /\ OnlyAsks => HooksSound'
<1> SUFFICES ASSUME HooksSound, OnlyAsks
             PROVE  HooksSound'
  OBVIOUS
<1>1. /\ hooks' = hooks /\ options' = options /\ props' = props
      /\ outbox' = outbox /\ written' = written
  BY DEF OnlyAsks
<1>2. \A u \in Tabs, j \in Keys : AtMostAsked(clients[u][j], clients'[u][j])
  BY DEF OnlyAsks, StillAsked
<1>3. \A u \in Tabs, j \in Keys :
         /\ clients'[u][j].state = clients[u][j].state
         /\ clients'[u][j].revision = clients[u][j].revision
         /\ clients'[u][j].stream = clients[u][j].stream
         /\ clients'[u][j].passing = clients[u][j].passing
         /\ clients'[u][j].sent = clients[u][j].sent
         /\ clients'[u][j].pending = clients[u][j].pending
  BY <1>2 DEF AtMostAsked
<1>4. TriggersTypeOK'
  <2>1. \A u \in Tabs, j \in Keys :
           /\ clients'[u][j].passing => clients'[u][j].sent \subseteq written
           /\ \/ clients'[u][j].stream \in Streams
              \/ clients'[u][j].state = "none" /\ ~ clients'[u][j].passing
    <3>1. \A u \in Tabs, j \in Keys :
             /\ clients[u][j].passing => clients[u][j].sent \subseteq written
             /\ \/ clients[u][j].stream \in Streams
                \/ clients[u][j].state = "none" /\ ~ clients[u][j].passing
      BY DEF HooksSound, TriggersTypeOK
    <3>. QED
      BY <1>3, <3>1
  <2>. QED
    BY <1>1, <2>1 DEF HooksSound, TriggersTypeOK, OnlyAsks
<1>5. RenderedOpen'
  <2>1. ASSUME NEW u \in Tabs, hooks[u].client # Disabled
        PROVE  clients'[u][hooks[u].client].state = "open"
    <3>1. hooks[u].client \in Keys
      BY <2>1 DEF HooksSound, TriggersTypeOK, HookRecord
    <3>2. clients[u][hooks[u].client].state = "open"
      BY <2>1 DEF HooksSound, RenderedOpen, Rendered
    <3>. QED
      BY <1>3, <3>1, <3>2
  <2>. QED
    BY <1>1, <2>1 DEF RenderedOpen, Rendered
<1>6. LateClientsClosed'
  BY <1>1, <1>3 DEF HooksSound, LateClientsClosed
<1>7. \A u \in Tabs : FirstKeySeen(u)'
  BY <1>1, <1>3, KeyFacts DEF HooksSound, FirstKeySeen
<1>8. \A u \in Tabs, j \in Keys : InstalledClient(u, j)'
  BY <1>1, <1>3 DEF HooksSound, InstalledClient, Rendered
<1>9. ASSUME NEW u \in Tabs, NEW j \in Keys
      PROVE  SeenIsPushed(u, j)'
  <2>1. SeenIsPushed(u, j) /\ StillAsked(u, j)
    BY DEF HooksSound, OnlyAsks
  <2>2. PICK old : old = clients[u][j]
    OBVIOUS
  <2>3. PICK new : new = clients'[u][j]
    OBVIOUS
  <2>4. PICK hook : hook = hooks[u]
    OBVIOUS
  <2>5. /\ new.state = old.state /\ new.stream = old.stream /\ new.revision = old.revision
        /\ new.pending = old.pending /\ new.passing = old.passing
        /\ Tried(old) => Tried(new)
        /\ hook.client = j /\ online' =>
              /\ ~ online => Tried(new)
              /\ Notified(u, j) => Tried(new) \/ Notified(u, j)'
    <3>1. new.requested => Tried(new)
      BY DEF Tried
    <3>. QED
      BY <2>1, <2>2, <2>3, <2>4, <3>1 DEF StillAsked, AtMostAsked, Rendered
  <2>6. hook.client = j /\ old.state = "open" /\ old.pending > 0 =>
          /\ options.syncOnMutation =>
                /\ hook.revision = old.revision => hook.mutationSyncRevision = old.revision
                /\ online /\ hook.mutationSyncRevision = old.revision =>
                       Tried(old)
          /\ PushedByWorker(j) =>
                /\ hook.revision = old.revision => hook.mutationRevision = old.revision
                /\ online /\ hook.mutationRevision = old.revision =>
                       Tried(old) \/ Notified(u, j)
    BY <2>1, <2>2, <2>4 DEF SeenIsPushed, HasPending, Rendered, PushedByEffect
  <2>7. hook.client = j /\ new.state = "open" /\ new.pending > 0 =>
          /\ options.syncOnMutation =>
                /\ hook.revision = new.revision => hook.mutationSyncRevision = new.revision
                /\ online' /\ hook.mutationSyncRevision = new.revision =>
                       Tried(new)
          /\ PushedByWorker(j) =>
                /\ hook.revision = new.revision => hook.mutationRevision = new.revision
                /\ online' /\ hook.mutationRevision = new.revision =>
                       Tried(new) \/ Notified(u, j)'
    BY <2>5, <2>6
  <2>8. hooks'[u] = hook /\ options' = options
    BY <1>1, <2>4
  <2>. QED
    BY <2>3, <2>7, <2>8
    DEF SeenIsPushed, HasPending, Rendered, PushedByEffect, PushedByWorker
<1>. QED
  BY <1>4, <1>5, <1>6, <1>7, <1>8, <1>9 DEF HooksSound

\* A client that is asked.
LEMMA AskedFacts ==
  ASSUME NEW old \in ClientRecord
  PROVE  /\ Asked(old) \in ClientRecord /\ Asked(old).requested
         /\ AtMostAsked(old, Asked(old))
<1>1. PICK new : new = [old EXCEPT !.requested = TRUE, !.forgotten = FALSE]
  OBVIOUS
<1>2. /\ new \in ClientRecord /\ new.state = old.state /\ new.stream = old.stream
      /\ new.revision = old.revision /\ new.pending = old.pending
      /\ new.passing = old.passing /\ new.sent = old.sent /\ new.requested
  BY <1>1 DEF ClientRecord
<1>3. Tried(new)
  BY <1>2 DEF Tried
<1>. QED
  BY <1>1, <1>2, <1>3 DEF Asked, AtMostAsked

\* Types of the messages, and of the clients that are asked.
LEMMA AskedTypes ==
  ASSUME HooksSound
  PROVE  /\ clients \in [Tabs -> [Keys -> ClientRecord]]
         /\ toWorker \subseteq Streams
         /\ toTabs \in [Tabs -> SUBSET (Streams \cup {AnyStream})]
         /\ online \in BOOLEAN
         /\ \A u \in Tabs, j \in Keys : AtMostAsked(clients[u][j], clients[u][j])
BY DEF HooksSound, TriggersTypeOK, AtMostAsked

\* A request to some tabs reaches the clients they have rendered.
LEMMA RequestFacts ==
  ASSUME HooksSound, NEW asked, Request(asked)
  PROVE  /\ clients' \in [Tabs -> [Keys -> ClientRecord]]
         /\ \A u \in Tabs, j \in Keys :
               /\ AtMostAsked(clients[u][j], clients'[u][j])
               /\ u \in asked /\ Rendered(u) = j => clients'[u][j].requested
<1>1. \A u \in Tabs, j \in Keys :
         clients'[u][j] = IF u \in asked /\ j = Rendered(u)
                          THEN Asked(clients[u][j]) ELSE clients[u][j]
  BY DEF Request
<1>2. \A u \in Tabs, j \in Keys : clients[u][j] \in ClientRecord
  BY AskedTypes
<1>3. ASSUME NEW u \in Tabs, NEW j \in Keys
      PROVE  /\ clients'[u][j] \in ClientRecord
             /\ AtMostAsked(clients[u][j], clients'[u][j])
             /\ u \in asked /\ Rendered(u) = j => clients'[u][j].requested
  <2>1. CASE u \in asked /\ j = Rendered(u)
    <3>1. PICK old \in ClientRecord : old = clients[u][j]
      BY <1>2
    <3>2. clients'[u][j] = Asked(old)
      BY <1>1, <2>1, <3>1
    <3>. QED
      BY <3>1, <3>2, AskedFacts
  <2>2. CASE ~ (u \in asked /\ j = Rendered(u))
    BY <1>1, <1>2, <2>2 DEF AtMostAsked
  <2>. QED
    BY <2>1, <2>2
<1>. QED
  BY <1>3 DEF Request

\* Without a network nothing has to be asked for.
LEMMA GoOfflineKeeps == HooksSound /\ GoOffline => HooksSound'
<1> SUFFICES ASSUME HooksSound, GoOffline PROVE HooksSound'
  OBVIOUS
<1>1. /\ online' = FALSE /\ clients' = clients /\ toWorker' = toWorker /\ toTabs' = toTabs
      /\ UNCHANGED <<options, outbox, written, props, hooks>>
  BY DEF GoOffline, messages
<1>2. \A u \in Tabs, j \in Keys : StillAsked(u, j)
  BY <1>1, AskedTypes DEF StillAsked
<1>. QED
  BY <1>1, <1>2, AskedTypes, OnlyAsksKeeps DEF OnlyAsks

\* The online event asks every client that is rendered.
LEMMA GoOnlineKeeps == HooksSound /\ GoOnline => HooksSound'
<1> SUFFICES ASSUME HooksSound, GoOnline PROVE HooksSound'
  OBVIOUS
<1>1. /\ online' = TRUE /\ Request(Tabs) /\ toWorker' = toWorker /\ toTabs' = toTabs
      /\ UNCHANGED <<options, outbox, written, props, hooks>>
  BY DEF GoOnline, messages
<1>2. /\ clients' \in [Tabs -> [Keys -> ClientRecord]]
      /\ \A u \in Tabs, j \in Keys :
            /\ AtMostAsked(clients[u][j], clients'[u][j])
            /\ u \in Tabs /\ Rendered(u) = j => clients'[u][j].requested
  BY <1>1, RequestFacts
<1>3. \A u \in Tabs, j \in Keys : StillAsked(u, j)
  BY <1>2 DEF StillAsked
<1>. QED
  BY <1>1, <1>2, <1>3, AskedTypes, OnlyAsksKeeps DEF OnlyAsks

\* The worker's message goes to every tab before it is gone.
LEMMA NotifyClientsKeeps ==
  ASSUME HooksSound, NEW stream \in Streams, NotifyClients(stream)
  PROVE  HooksSound'
<1>1. /\ online' = online /\ clients' = clients /\ toWorker' = toWorker \ {stream}
      /\ toTabs' = [t \in Tabs |-> toTabs[t] \cup {stream}]
      /\ UNCHANGED <<options, outbox, written, props, hooks>>
  BY DEF NotifyClients, network
<1>2. toTabs' \in [Tabs -> SUBSET (Streams \cup {AnyStream})]
  <2>1. \A t \in Tabs : toTabs[t] \subseteq Streams \cup {AnyStream}
    BY AskedTypes
  <2>. QED
    BY <1>1, <2>1
<1>3. \A u \in Tabs, j \in Keys : Notified(u, j) => Notified(u, j)'
  BY <1>1 DEF Notified
<1>4. \A u \in Tabs, j \in Keys : StillAsked(u, j)
  BY <1>1, <1>3, AskedTypes DEF StillAsked
<1>. QED
  BY <1>1, <1>2, <1>4, AskedTypes, OnlyAsksKeeps DEF OnlyAsks

\* A background synchronization only adds messages.
LEMMA BackgroundSyncKeeps == HooksSound /\ BackgroundSync => HooksSound'
<1> SUFFICES ASSUME HooksSound, BackgroundSync PROVE HooksSound'
  OBVIOUS
<1>1. /\ online' = online /\ clients' = clients /\ toWorker' = toWorker
      /\ toTabs' = [t \in Tabs |-> toTabs[t] \cup {AnyStream}]
      /\ UNCHANGED <<options, outbox, written, props, hooks>>
  BY DEF BackgroundSync, network
<1>2. toTabs' \in [Tabs -> SUBSET (Streams \cup {AnyStream})]
  <2>1. \A t \in Tabs : toTabs[t] \subseteq Streams \cup {AnyStream}
    BY AskedTypes
  <2>. QED
    BY <1>1, <2>1
<1>3. \A u \in Tabs, j \in Keys : Notified(u, j) => Notified(u, j)'
  BY <1>1 DEF Notified
<1>4. \A u \in Tabs, j \in Keys : StillAsked(u, j)
  BY <1>1, <1>3, AskedTypes DEF StillAsked
<1>. QED
  BY <1>1, <1>2, <1>4, AskedTypes, OnlyAsksKeeps DEF OnlyAsks

\* A message that is taken asks the client it concerns.
LEMMA OnMessageKeeps ==
  ASSUME HooksSound, NEW t \in Tabs, NEW stream \in Streams \cup {AnyStream},
         OnMessage(t, stream)
  PROVE  HooksSound'
<1>1. /\ online' = online /\ toWorker' = toWorker
      /\ toTabs' = [toTabs EXCEPT ![t] = @ \ {stream}]
      /\ IF Concerns(t, stream) THEN Request({t}) ELSE UNCHANGED clients
      /\ UNCHANGED <<options, outbox, written, props, hooks>>
  BY DEF OnMessage, network
<1>2. /\ clients' \in [Tabs -> [Keys -> ClientRecord]]
      /\ \A u \in Tabs, j \in Keys :
            /\ AtMostAsked(clients[u][j], clients'[u][j])
            /\ u = t /\ Rendered(u) = j /\ Concerns(t, stream) => clients'[u][j].requested
  <2>1. CASE Concerns(t, stream)
    BY <1>1, <2>1, RequestFacts
  <2>2. CASE ~ Concerns(t, stream)
    BY <1>1, <2>2, AskedTypes
  <2>. QED
    BY <2>1, <2>2
<1>3. toTabs' \in [Tabs -> SUBSET (Streams \cup {AnyStream})]
  BY <1>1, AskedTypes
<1>4. ASSUME NEW u \in Tabs, NEW j \in Keys, Rendered(u) = j, Notified(u, j)
      PROVE  clients'[u][j].requested \/ Notified(u, j)'
  <2>1. clients'[u][j].stream = clients[u][j].stream
    BY <1>2 DEF AtMostAsked
  <2>2. CASE u = t /\ clients[u][j].stream = stream
    <3>1. Concerns(t, stream)
      BY <1>4, <2>2, KeyFacts DEF Concerns
    <3>. QED
      BY <1>2, <1>4, <2>2, <3>1
  <2>3. CASE ~ (u = t /\ clients[u][j].stream = stream)
    <3>1. \A s \in toTabs[u] : u # t \/ s # stream => s \in toTabs'[u]
      BY <1>1, AskedTypes
    <3>. QED
      BY <1>1, <1>4, <2>1, <2>3, <3>1 DEF Notified
  <2>. QED
    BY <2>2, <2>3
<1>5. \A u \in Tabs, j \in Keys : StillAsked(u, j)
  BY <1>1, <1>2, <1>4 DEF StillAsked
<1>. QED
  BY <1>1, <1>2, <1>3, <1>5, AskedTypes, OnlyAsksKeeps DEF OnlyAsks

-----------------------------------------------------------------------------
(* Keys and creations. *)

\* A tab is given another key, never its first one again.
LEMMA NewKeyKeeps ==
  ASSUME HooksSound,
         props' \in [Tabs -> [key : Keys \cup {Disabled}, stream : Streams]],
         \A u \in Tabs : props'[u].key = 1 => props[u].key = 1,
         UNCHANGED <<options, network, outbox, written, clients, hooks, messages>>
  PROVE  HooksSound'
<1>1. /\ online' = online /\ clients' = clients /\ toWorker' = toWorker /\ toTabs' = toTabs
      /\ options' = options /\ outbox' = outbox /\ written' = written /\ hooks' = hooks
  BY DEF network, messages
<1>2. TriggersTypeOK'
  BY <1>1 DEF HooksSound, TriggersTypeOK
<1>3. RenderedOpen' /\ LateClientsClosed'
  BY <1>1 DEF HooksSound, RenderedOpen, LateClientsClosed, Rendered
<1>4. \A u \in Tabs : FirstKeySeen(u)'
  BY <1>1 DEF HooksSound, FirstKeySeen
<1>5. \A u \in Tabs, j \in Keys : InstalledClient(u, j)' /\ SeenIsPushed(u, j)'
  BY <1>1
  DEF HooksSound, InstalledClient, SeenIsPushed, HasPending, PushedByEffect, PushedByWorker,
      Notified, Rendered
<1>. QED
  BY <1>2, <1>3, <1>4, <1>5 DEF HooksSound

\* The key of a tab changes.
LEMMA ChangeKeyKeeps ==
  ASSUME HooksSound, NEW t \in Tabs, NEW stream \in Streams, ChangeKey(t, stream)
  PROVE  HooksSound'
<1>1. PICK key : key = props[t].key
  OBVIOUS
<1>2. /\ key \in 1..(MaxKeys - 1)
      /\ props' = [props EXCEPT ![t] = [key |-> key + 1, stream |-> stream]]
      /\ UNCHANGED <<options, network, outbox, written, clients, hooks, messages>>
  BY <1>1 DEF ChangeKey
<1>3. key + 1 \in Keys /\ key + 1 # 1
  BY <1>2, TriggersAssumption DEF Keys
<1>4. PICK new \in [key : Keys \cup {Disabled}, stream : Streams] :
         new = [key |-> key + 1, stream |-> stream]
  BY <1>3
<1>5. props \in [Tabs -> [key : Keys \cup {Disabled}, stream : Streams]]
  BY DEF HooksSound, TriggersTypeOK
<1>6. /\ props' \in [Tabs -> [key : Keys \cup {Disabled}, stream : Streams]]
      /\ props'[t] = new
      /\ \A u \in Tabs : u # t => props'[u] = props[u]
  BY <1>2, <1>4, <1>5
<1>7. \A u \in Tabs : props'[u].key = 1 => props[u].key = 1
  BY <1>3, <1>4, <1>6
<1>. QED
  BY <1>2, <1>6, <1>7, NewKeyKeeps

\* A tab is disabled.
LEMMA DisableKeeps ==
  ASSUME HooksSound, NEW t \in Tabs, Disable(t)
  PROVE  HooksSound'
<1>1. /\ props' = [props EXCEPT ![t].key = Disabled]
      /\ UNCHANGED <<options, network, outbox, written, clients, hooks, messages>>
  BY DEF Disable
<1>2. props \in [Tabs -> [key : Keys \cup {Disabled}, stream : Streams]]
  BY DEF HooksSound, TriggersTypeOK
<1>3. PICK new : new = [props[t] EXCEPT !.key = Disabled]
  OBVIOUS
<1>4. new \in [key : Keys \cup {Disabled}, stream : Streams] /\ new.key = 0
  BY <1>2, <1>3, KeyFacts
<1>5. props' = [props EXCEPT ![t] = new]
  BY <1>1, <1>3
<1>6. /\ props' \in [Tabs -> [key : Keys \cup {Disabled}, stream : Streams]]
      /\ props'[t] = new
      /\ \A u \in Tabs : u # t => props'[u] = props[u]
  BY <1>2, <1>4, <1>5
<1>7. \A u \in Tabs : props'[u].key = 1 => props[u].key = 1
  BY <1>4, <1>6
<1>. QED
  BY <1>1, <1>6, <1>7, NewKeyKeeps

\* The worker takes control of a tab.
LEMMA WorkerReadyKeeps ==
  ASSUME HooksSound, NEW t \in Tabs, WorkerReady(t)
  PROVE  HooksSound'
<1>1. /\ online' = online /\ clients' = clients /\ toWorker' = toWorker /\ toTabs' = toTabs
      /\ options' = options /\ outbox' = outbox /\ written' = written /\ props' = props
  BY DEF WorkerReady, network
<1>2. PICK new : new = [hooks[t] EXCEPT !.worker = TRUE]
  OBVIOUS
<1>3. PICK hook \in HookRecord : hook = hooks[t]
  BY DEF HooksSound, TriggersTypeOK
<1>4. /\ new \in HookRecord /\ new.key = hook.key /\ new.client = hook.client
      /\ new.revision = hook.revision /\ new.installed = hook.installed
      /\ new.mutationSyncRevision = hook.mutationSyncRevision
      /\ new.mutationRevision = hook.mutationRevision
  BY <1>2, <1>3 DEF HookRecord
<1>5. hooks \in [Tabs -> HookRecord] /\ hooks' = [hooks EXCEPT ![t] = new]
  BY <1>2 DEF HooksSound, TriggersTypeOK, WorkerReady
<1>6. /\ hooks' \in [Tabs -> HookRecord]
      /\ \A u \in Tabs :
            /\ hooks'[u].key = hooks[u].key /\ hooks'[u].client = hooks[u].client
            /\ hooks'[u].revision = hooks[u].revision
            /\ hooks'[u].installed = hooks[u].installed
            /\ hooks'[u].mutationSyncRevision = hooks[u].mutationSyncRevision
            /\ hooks'[u].mutationRevision = hooks[u].mutationRevision
  BY <1>3, <1>4, <1>5
<1>7. TriggersTypeOK'
  BY <1>1, <1>6 DEF HooksSound, TriggersTypeOK
<1>8. RenderedOpen' /\ LateClientsClosed'
  BY <1>1, <1>6 DEF HooksSound, RenderedOpen, LateClientsClosed, Rendered
<1>9. \A u \in Tabs : FirstKeySeen(u)'
  BY <1>1, <1>6 DEF HooksSound, FirstKeySeen
<1>10. \A u \in Tabs, j \in Keys : InstalledClient(u, j)' /\ SeenIsPushed(u, j)'
  BY <1>1, <1>6
  DEF HooksSound, InstalledClient, SeenIsPushed, HasPending, PushedByEffect, PushedByWorker,
      Notified, Rendered
<1>. QED
  BY <1>7, <1>8, <1>9, <1>10 DEF HooksSound

\* A client is created for the key that is rendered, or closed at once.
LEMMA CreatedKeeps ==
  ASSUME HooksSound, NEW t \in Tabs, NEW key \in Keys, Created(t, key)
  PROVE  HooksSound'
<1>1. PICK old : old = clients[t][key]
  OBVIOUS
<1>2. /\ old \in ClientRecord /\ old.revision \in Nat
      /\ old.state # "none" \/ old.passing =>
             old.stream \in Streams /\ outbox[old.stream] \subseteq written
      /\ old.passing => old.sent \subseteq written
      /\ written \subseteq Operations /\ outbox \in [Streams -> SUBSET written]
  BY <1>1, ClientTypes
<1>3. UNCHANGED <<options, network, outbox, written, props, messages>>
  BY DEF Created
<1>4. CASE old.state = "abandoned"
  <2>1. PICK new : new = [old EXCEPT !.state = "closed"]
    OBVIOUS
  <2>2. /\ new \in ClientRecord /\ new.state = "closed" /\ new.stream = old.stream
        /\ new.passing = old.passing /\ new.sent = old.sent /\ new.revision = old.revision
    BY <1>2, <2>1 DEF ClientRecord
  <2>3. clients' = [clients EXCEPT ![t][key] = new] /\ hooks' = hooks
    BY <1>1, <1>4, <2>1 DEF Created
  <2>4. GoesForward(old, new, online)
    BY <1>2, <1>4, <2>2 DEF GoesForward
  <2>5. new.stream \in Streams
    BY <1>2, <1>4, <2>2
  <2>6. OneGoesForward(t, key, new)
    BY <1>1, <1>2, <1>3, <2>2, <2>3, <2>4, <2>5 DEF OneGoesForward
  <2>. QED
    BY <2>6, OneForwardKeeps
<1>5. CASE old.state = "creating"
  <2>1. PICK new : new = [old EXCEPT !.state = "open",
                                     !.pending = Cardinality(outbox[old.stream])]
    OBVIOUS
  <2>2. Cardinality(outbox[old.stream]) \in Nat
    BY <1>2, <1>5, PendingCounted
  <2>3. /\ new \in ClientRecord /\ new.state = "open" /\ new.stream = old.stream
        /\ new.passing = old.passing /\ new.sent = old.sent /\ new.revision = old.revision
    BY <1>2, <2>1, <2>2 DEF ClientRecord
  <2>4. hooks' = [hooks EXCEPT ![t].installed = key]
    BY <1>1, <1>5 DEF Created
  <2>5. /\ clients' \in [Tabs -> [Keys -> ClientRecord]]
        /\ clients'[t][key] = new
        /\ \A u \in Tabs, j \in Keys : u # t \/ j # key => clients'[u][j] = clients[u][j]
    <3>1. clients \in [Tabs -> [Keys -> ClientRecord]]
      BY DEF HooksSound, TriggersTypeOK
    <3>2. PICK count : count = Cardinality(outbox[old.stream])
      OBVIOUS
    <3>3. clients' = [clients EXCEPT ![t][key].state = "open", ![t][key].pending = count]
      BY <1>1, <1>5, <3>2 DEF Created
    <3>4. /\ clients' \in [Tabs -> [Keys -> ClientRecord]]
          /\ clients'[t][key] = [old EXCEPT !.state = "open", !.pending = count]
          /\ \A u \in Tabs, j \in Keys : u # t \/ j # key => clients'[u][j] = clients[u][j]
      <4>1. PICK opened : opened = [old EXCEPT !.state = "open"]
        OBVIOUS
      <4>2. PICK middle : middle = [clients EXCEPT ![t][key] = opened]
        OBVIOUS
      <4>3. opened \in ClientRecord
        BY <1>2, <4>1 DEF ClientRecord
      <4>4. /\ middle \in [Tabs -> [Keys -> ClientRecord]]
            /\ middle[t][key] = opened
            /\ \A u \in Tabs, j \in Keys : u # t \/ j # key => middle[u][j] = clients[u][j]
        BY <3>1, <4>2, <4>3, OneClient
      <4>5. new = [opened EXCEPT !.pending = count]
        BY <2>1, <3>2, <4>1
      <4>6. clients' = [middle EXCEPT ![t][key] = new]
        BY <1>1, <3>1, <3>3, <4>1, <4>2, <4>5
      <4>7. /\ clients' \in [Tabs -> [Keys -> ClientRecord]]
            /\ clients'[t][key] = new
            /\ \A u \in Tabs, j \in Keys : u # t \/ j # key => clients'[u][j] = middle[u][j]
        BY <2>3, <4>4, <4>6, OneClient
      <4>. QED
        BY <2>1, <3>2, <4>4, <4>7
    <3>. QED
      BY <2>1, <3>2, <3>4
  <2>6. PICK hook \in HookRecord : hook = hooks[t]
    BY DEF HooksSound, TriggersTypeOK
  <2>7. PICK next : next = [hook EXCEPT !.installed = key]
    OBVIOUS
  <2>8. /\ next \in HookRecord /\ next.key = hook.key /\ next.client = hook.client
        /\ next.revision = hook.revision /\ next.installed = key
        /\ next.mutationSyncRevision = hook.mutationSyncRevision
        /\ next.mutationRevision = hook.mutationRevision
    BY <2>6, <2>7 DEF HookRecord
  <2>9. hooks \in [Tabs -> HookRecord] /\ hooks' = [hooks EXCEPT ![t] = next]
    BY <2>4, <2>6, <2>7 DEF HooksSound, TriggersTypeOK
  <2>10. /\ hooks' \in [Tabs -> HookRecord] /\ hooks'[t] = next
         /\ \A u \in Tabs : u # t => hooks'[u] = hooks[u]
    BY <2>8, <2>9
  <2>11. /\ online' = online /\ toWorker' = toWorker /\ toTabs' = toTabs
         /\ options' = options /\ outbox' = outbox /\ written' = written /\ props' = props
    BY <1>3 DEF network, messages
  <2>12. hook.key = key
    BY <1>1, <1>5, <2>6 DEF HooksSound, InstalledClient
  <2>13. \A j \in Keys : hook.client # j
    <3>1. ASSUME NEW j \in Keys, hook.client = j
          PROVE  FALSE
      <4>1. clients[t][j].state = "open"
        BY <2>6, <3>1 DEF HooksSound, InstalledClient, Rendered
      <4>2. j = key
        BY <2>6, <2>12, <4>1 DEF HooksSound, LateClientsClosed
      <4>. QED
        BY <1>1, <1>5, <4>1, <4>2
    <3>. QED
      BY <3>1
  <2>14. TriggersTypeOK'
    <3>1. \A u \in Tabs, j \in Keys :
             /\ clients[u][j].passing => clients[u][j].sent \subseteq written
             /\ \/ clients[u][j].stream \in Streams
                \/ clients[u][j].state = "none" /\ ~ clients[u][j].passing
      BY DEF HooksSound, TriggersTypeOK
    <3>2. new.stream \in Streams
      BY <1>2, <1>5, <2>3
    <3>3. \A u \in Tabs, j \in Keys :
             /\ clients'[u][j].passing => clients'[u][j].sent \subseteq written
             /\ \/ clients'[u][j].stream \in Streams
                \/ clients'[u][j].state = "none" /\ ~ clients'[u][j].passing
      BY <1>2, <2>3, <2>5, <3>1, <3>2
    <3>. QED
      BY <2>5, <2>10, <2>11, <3>3 DEF HooksSound, TriggersTypeOK
  <2>15. RenderedOpen'
    <3>1. ASSUME NEW u \in Tabs, hooks'[u].client # Disabled
          PROVE  clients'[u][hooks'[u].client].state = "open"
      <4>1. hooks'[u].client = hooks[u].client
        BY <2>6, <2>8, <2>10
      <4>2. hooks[u].client \in Keys
        BY <3>1, <4>1 DEF HooksSound, TriggersTypeOK, HookRecord
      <4>3. clients[u][hooks[u].client].state = "open"
        BY <3>1, <4>1 DEF HooksSound, RenderedOpen, Rendered
      <4>. QED
        BY <2>3, <2>5, <4>1, <4>2, <4>3
    <3>. QED
      BY <3>1 DEF RenderedOpen, Rendered
  <2>16. LateClientsClosed'
    <3>1. ASSUME NEW u \in Tabs, NEW j \in Keys, clients'[u][j].state = "open"
          PROVE  j = hooks'[u].key
      <4>1. CASE u = t /\ j = key
        BY <2>8, <2>10, <2>12, <4>1
      <4>2. CASE ~ (u = t /\ j = key)
        BY <2>5, <2>6, <2>8, <2>10, <3>1, <4>2 DEF HooksSound, LateClientsClosed
      <4>. QED
        BY <4>1, <4>2
    <3>. QED
      BY <3>1 DEF LateClientsClosed
  <2>17. \A u \in Tabs : FirstKeySeen(u)'
    <3>1. \A u \in Tabs : /\ clients'[u][1].revision = clients[u][1].revision
                          /\ hooks'[u].key = hooks[u].key
                          /\ hooks'[u].mutationRevision = hooks[u].mutationRevision
      BY <1>1, <2>3, <2>5, <2>6, <2>8, <2>10, KeyFacts
    <3>. QED
      BY <2>11, <3>1 DEF HooksSound, FirstKeySeen
  <2>18. ASSUME NEW u \in Tabs, NEW j \in Keys
         PROVE  InstalledClient(u, j)' /\ SeenIsPushed(u, j)'
    <3>1. InstalledClient(u, j) /\ SeenIsPushed(u, j)
      BY DEF HooksSound
    <3>2. CASE u = t
      <4>1. hooks'[u] = next /\ hooks'[u].client # j
        BY <2>8, <2>10, <2>13, <3>2
      <4>2. SeenIsPushed(u, j)'
        BY <4>1 DEF SeenIsPushed, Rendered
      <4>3. clients'[u][j].state = "creating" => j = next.key
        BY <2>3, <2>5, <2>6, <2>8, <3>1, <3>2 DEF InstalledClient
      <4>4. next.installed = j <=> clients'[u][j].state = "open"
        <5>1. CASE j = key
          BY <2>3, <2>5, <2>8, <3>2, <5>1
        <5>2. CASE j # key
          BY <2>5, <2>6, <2>8, <2>12, <3>2, <5>2 DEF HooksSound, LateClientsClosed
        <5>. QED
          BY <5>1, <5>2
      <4>. QED
        BY <4>1, <4>2, <4>3, <4>4 DEF InstalledClient, Rendered
    <3>3. CASE u # t
      <4>1. hooks'[u] = hooks[u] /\ clients'[u][j] = clients[u][j]
        BY <2>5, <2>10, <3>3
      <4>. QED
        BY <2>11, <3>1, <4>1
        DEF InstalledClient, SeenIsPushed, HasPending, PushedByEffect, PushedByWorker,
            Notified, Rendered
    <3>. QED
      BY <3>2, <3>3
  <2>. QED
    BY <2>14, <2>15, <2>16, <2>17, <2>18 DEF HooksSound
<1>. QED
  BY <1>1, <1>4, <1>5 DEF Created

-----------------------------------------------------------------------------
(* Render and effects. *)

\* Types of a hook before its effects run.
LEMMA HookTypes ==
  ASSUME HooksSound, NEW t \in Tabs
  PROVE  /\ hooks[t] \in HookRecord
         /\ hooks[t].key \in Keys \cup {Disabled} /\ hooks[t].client \in Keys \cup {Disabled}
         /\ hooks[t].installed \in Keys \cup {Disabled}
         /\ hooks[t].revision \in Nat /\ hooks[t].mutationRevision \in Nat
         /\ hooks[t].mutationSyncRevision \in Nat \cup {-1}
         /\ props[t].key \in Keys \cup {Disabled} /\ props[t].stream \in Streams
         /\ Active(t) \in Keys \cup {Disabled}
         /\ RenderedRevision(t) \in Nat
         /\ SeenRevision(t) \in Nat \cup {-1}
         /\ options.initialSync \in BOOLEAN /\ options.syncOnMutation \in BOOLEAN
         /\ options.serviceWorker \in BOOLEAN
<1>1. hooks[t] \in HookRecord
  BY DEF HooksSound, TriggersTypeOK
<1>2. /\ hooks[t].key \in Keys \cup {Disabled} /\ hooks[t].client \in Keys \cup {Disabled}
      /\ hooks[t].installed \in Keys \cup {Disabled}
      /\ hooks[t].revision \in Nat /\ hooks[t].mutationRevision \in Nat
      /\ hooks[t].mutationSyncRevision \in Nat \cup {-1}
  BY <1>1 DEF HookRecord
<1>3. props[t].key \in Keys \cup {Disabled} /\ props[t].stream \in Streams
  BY DEF HooksSound, TriggersTypeOK
<1>4. Active(t) \in Keys \cup {Disabled}
  BY <1>2 DEF Active
<1>5. RenderedRevision(t) \in Nat
  <2>1. CASE Active(t) = Disabled
    BY <2>1 DEF RenderedRevision
  <2>2. CASE Active(t) # Disabled
    <3>1. clients[t][Active(t)].revision \in Nat
      BY <1>4, <2>2, ClientTypes
    <3>. QED
      BY <2>2, <3>1 DEF RenderedRevision
  <2>. QED
    BY <2>1, <2>2
<1>6. SeenRevision(t) \in Nat \cup {-1}
  BY <1>2 DEF SeenRevision
<1>7. options \in [initialSync : BOOLEAN, syncOnMutation : BOOLEAN,
                   serviceWorker : BOOLEAN, backgroundSync : BOOLEAN]
  BY TriggersAssumption DEF HooksSound, TriggersTypeOK
<1>. QED
  BY <1>1, <1>2, <1>3, <1>4, <1>5, <1>6, <1>7

\* What a hook knows after its render and effects.
LEMMA HookAfterFacts ==
  ASSUME HooksSound, NEW t \in Tabs, Commit(t)
  PROVE  /\ hooks' \in [Tabs -> HookRecord]
         /\ \A u \in Tabs : u # t => hooks'[u] = hooks[u]
         /\ hooks'[t].key = props[t].key
         /\ hooks'[t].client = Active(t)
         /\ hooks'[t].revision = RenderedRevision(t)
         /\ hooks'[t].installed =
               IF hooks[t].installed = props[t].key THEN hooks[t].installed ELSE Disabled
         /\ hooks'[t].mutationSyncRevision =
               IF SyncsMutation(t) THEN RenderedRevision(t) ELSE SeenRevision(t)
         /\ hooks'[t].mutationRevision =
               IF NotifiesMutation(t) THEN RenderedRevision(t) ELSE hooks[t].mutationRevision
<1>1. PICK hook : hook = hooks[t]
  OBVIOUS
<1>2. PICK revision : revision = RenderedRevision(t)
  OBVIOUS
<1>3. PICK syncing : syncing = Syncing(t, Active(t))
  OBVIOUS
<1>4. PICK started : started = (Started(t) \/ StartsInitialSync(t))
  OBVIOUS
<1>5. PICK next : next = HookAfter(t)
  OBVIOUS
<1>6. hooks' = [hooks EXCEPT ![t] = next]
  BY <1>5 DEF Commit
<1>7. hook \in HookRecord
  BY <1>1, HookTypes
<1>8. revision \in Nat
  BY <1>2, HookTypes
<1>9. syncing \in BOOLEAN /\ started \in BOOLEAN
  <2>1. Active(t) # Disabled => clients[t][Active(t)].passing \in BOOLEAN
    BY HookTypes, ClientTypes DEF ClientRecord
  <2>2. Syncing(t, Active(t)) \in BOOLEAN
    BY <2>1 DEF Syncing
  <2>3. hooks[t].initialSyncStarted \in BOOLEAN
    BY HookTypes DEF HookRecord
  <2>4. Started(t) \in BOOLEAN
    BY <2>3 DEF Started
  <2>5. StartsInitialSync(t) \in BOOLEAN
    BY HookTypes DEF StartsInitialSync
  <2>. QED
    BY <1>3, <1>4, <2>2, <2>4, <2>5
<1>10. PICK seen : seen = IF SyncsMutation(t) THEN revision ELSE SeenRevision(t)
  OBVIOUS
<1>11. PICK told : told = IF NotifiesMutation(t) THEN revision ELSE hook.mutationRevision
  OBVIOUS
<1>12. seen \in Nat \cup {-1}
  BY <1>8, <1>10, HookTypes
<1>13. told \in Nat
  BY <1>1, <1>8, <1>11, HookTypes
<1>14. PICK installed :
          installed = IF hook.installed = props[t].key THEN hook.installed ELSE Disabled
  OBVIOUS
<1>15. installed \in Keys \cup {Disabled}
  BY <1>1, <1>14, HookTypes
<1>16. next = [hook EXCEPT
                 !.key = props[t].key, !.client = Active(t), !.revision = revision,
                 !.syncing = syncing, !.installed = installed,
                 !.initialSyncStarted = started, !.mutationSyncRevision = seen,
                 !.mutationRevision = told]
  BY <1>1, <1>2, <1>3, <1>4, <1>5, <1>7, <1>10, <1>11, <1>14 DEF HookRecord, HookAfter
<1>17. props[t].key \in Keys \cup {Disabled} /\ Active(t) \in Keys \cup {Disabled}
  BY HookTypes
<1>18. /\ next \in HookRecord /\ next.key = props[t].key /\ next.client = Active(t)
       /\ next.revision = revision /\ next.installed = installed
       /\ next.mutationSyncRevision = seen /\ next.mutationRevision = told
  <2>1. next = [key |-> props[t].key, client |-> Active(t), revision |-> revision,
                syncing |-> syncing, installed |-> installed,
                initialSyncStarted |-> started, mutationSyncRevision |-> seen,
                mutationRevision |-> told, worker |-> hook.worker]
    BY <1>7, <1>16 DEF HookRecord
  <2>2. hook.worker \in BOOLEAN
    BY <1>7 DEF HookRecord
  <2>. QED
    BY <1>8, <1>9, <1>12, <1>13, <1>15, <1>17, <2>1, <2>2 DEF HookRecord
<1>19. hooks \in [Tabs -> HookRecord]
  BY DEF HooksSound, TriggersTypeOK
<1>20. /\ hooks' \in [Tabs -> HookRecord] /\ hooks'[t] = next
       /\ \A u \in Tabs : u # t => hooks'[u] = hooks[u]
  BY <1>6, <1>18, <1>19
<1>. QED
  BY <1>1, <1>2, <1>10, <1>11, <1>14, <1>18, <1>20

\* The client that is rendered next is the one installed for the key.
LEMMA ActiveFacts ==
  ASSUME HooksSound, NEW t \in Tabs, Active(t) # Disabled
  PROVE  /\ Active(t) \in Keys /\ hooks[t].installed = Active(t)
         /\ props[t].key = Active(t) /\ hooks[t].key = Active(t)
         /\ clients[t][Active(t)].state = "open"
         /\ clients[t][Active(t)].stream \in Streams
<1>1. PICK key : key = Active(t)
  OBVIOUS
<1>2. key \in Keys /\ hooks[t].installed = key /\ props[t].key = key
  BY <1>1, HookTypes DEF Active
<1>3. clients[t][key].state = "open"
  BY <1>2 DEF HooksSound, InstalledClient
<1>4. key = hooks[t].key
  BY <1>2, <1>3 DEF HooksSound, LateClientsClosed
<1>5. clients[t][key].stream \in Streams
  BY <1>2, <1>3, ClientTypes
<1>. QED
  BY <1>1, <1>2, <1>3, <1>4, <1>5

\* A key that changes: its old client is closed, a new one is being created.
Replaced(t, k, old, new) ==
    /\ new \in ClientRecord
    /\ k = props[t].key =>
          /\ new.state = "creating" /\ new.stream = props[t].stream
          /\ ~ new.passing /\ new.revision = 0
    /\ k # props[t].key /\ k # hooks[t].key => new = old
    /\ k # props[t].key /\ k = hooks[t].key =>
          /\ new.state # "creating" /\ new.state # "open"
          /\ old.state = "none" <=> new.state = "none"
          /\ new.stream = old.stream /\ new.passing = old.passing /\ new.sent = old.sent

\* The clients of a tab after its key's effects.
LEMMA ClientsAfterFacts ==
  ASSUME HooksSound, NEW t \in Tabs
  PROVE  /\ ClientsAfter(t) \in [Keys -> ClientRecord]
         /\ hooks[t].key = props[t].key => ClientsAfter(t) = clients[t]
         /\ hooks[t].key # props[t].key =>
               \A k \in Keys : Replaced(t, k, clients[t][k], ClientsAfter(t)[k])
<1>1. clients[t] \in [Keys -> ClientRecord]
  BY DEF HooksSound, TriggersTypeOK
<1>2. CASE hooks[t].key = props[t].key
  BY <1>1, <1>2 DEF ClientsAfter
<1>3. CASE hooks[t].key # props[t].key
  <2>1. PICK created : created = [NoClient EXCEPT !.state = "creating",
                                                  !.stream = props[t].stream]
    OBVIOUS
  <2>2. /\ created \in ClientRecord /\ created.state = "creating"
        /\ created.stream = props[t].stream /\ ~ created.passing /\ created.revision = 0
    BY <2>1, HookTypes DEF NoClient, ClientRecord
  <2>3. ASSUME NEW k \in Keys
        PROVE  Replaced(t, k, clients[t][k], ClientsAfter(t)[k])
    <3>1. PICK old \in ClientRecord : old = clients[t][k]
      BY <1>1
    <3>2. CASE k = props[t].key
      <4>1. ClientsAfter(t)[k] = created
        BY <1>3, <2>1, <3>2 DEF ClientsAfter
      <4>. QED
        BY <2>2, <3>2, <4>1 DEF Replaced
    <3>3. CASE k # props[t].key /\ k = hooks[t].key
      <4>1. PICK state : state = CASE old.state = "creating" -> "abandoned"
                                   [] old.state \in {"open", "failed"} -> "closed"
                                   [] OTHER -> old.state
        OBVIOUS
      <4>2. PICK new : new = [old EXCEPT !.state = state, !.revision = 0, !.pending = 0,
                                         !.requested = FALSE, !.forgotten = FALSE]
        OBVIOUS
      <4>3. ClientsAfter(t)[k] = new
        BY <1>3, <3>1, <3>3, <4>1, <4>2 DEF ClientsAfter, ClientRecord
      <4>4. /\ state \in {"none", "creating", "abandoned", "open", "closed", "failed"}
            /\ state # "creating" /\ state # "open"
            /\ old.state = "none" <=> state = "none"
        BY <3>1, <4>1 DEF ClientRecord
      <4>5. /\ new \in ClientRecord /\ new.state = state /\ new.stream = old.stream
            /\ new.passing = old.passing /\ new.sent = old.sent
        BY <3>1, <4>2, <4>4 DEF ClientRecord
      <4>. QED
        BY <3>1, <3>3, <4>3, <4>4, <4>5 DEF Replaced
    <3>4. CASE k # props[t].key /\ k # hooks[t].key
      <4>1. ClientsAfter(t)[k] = clients[t][k]
        BY <1>3, <3>4 DEF ClientsAfter
      <4>. QED
        BY <3>1, <3>4, <4>1 DEF Replaced
    <3>. QED
      BY <3>2, <3>3, <3>4
  <2>4. DOMAIN ClientsAfter(t) = Keys
    BY <1>3 DEF ClientsAfter
  <2>5. \A k \in Keys : ClientsAfter(t)[k] \in ClientRecord
    BY <2>3 DEF Replaced
  <2>6. ClientsAfter(t) = [k \in Keys |-> ClientsAfter(t)[k]]
    BY <1>3 DEF ClientsAfter
  <2>7. ClientsAfter(t) \in [Keys -> ClientRecord]
    BY <2>5, <2>6
  <2>. QED
    BY <1>3, <2>3, <2>7
<1>. QED
  BY <1>2, <1>3

\* The clients of a tab after its render and all its effects.
LEMMA ClientsCommitted ==
  ASSUME HooksSound, NEW t \in Tabs, Commit(t)
  PROVE  /\ clients' \in [Tabs -> [Keys -> ClientRecord]]
         /\ \A u \in Tabs : u # t => clients'[u] = clients[u]
         /\ hooks[t].key = props[t].key =>
               \A k \in Keys :
                  /\ AtMostAsked(clients[t][k], clients'[t][k])
                  /\ CallsSync(t) /\ k = Active(t) => clients'[t][k].requested
         /\ hooks[t].key # props[t].key =>
               /\ Active(t) = Disabled
               /\ \A k \in Keys : Replaced(t, k, clients[t][k], clients'[t][k])
<1>1. PICK after : after = ClientsAfter(t)
  OBVIOUS
<1>2. /\ after \in [Keys -> ClientRecord]
      /\ hooks[t].key = props[t].key => after = clients[t]
      /\ hooks[t].key # props[t].key =>
            \A k \in Keys : Replaced(t, k, clients[t][k], after[k])
  BY <1>1, ClientsAfterFacts
<1>3. clients \in [Tabs -> [Keys -> ClientRecord]]
  BY DEF HooksSound, TriggersTypeOK
<1>4. hooks[t].key # props[t].key => Active(t) = Disabled
  BY ActiveFacts
<1>5. CallsSync(t) => Active(t) # Disabled
  BY DEF CallsSync, StartsInitialSync, SyncsMutation, NotifiesMutation, Pending
<1>6. CASE CallsSync(t)
  <2>1. /\ Active(t) \in Keys /\ hooks[t].key = props[t].key
    BY <1>5, <1>6, ActiveFacts
  <2>2. PICK old \in ClientRecord : old = clients[t][Active(t)]
    BY <1>3, <2>1
  <2>3. PICK new : new = Asked(old)
    OBVIOUS
  <2>4. new \in ClientRecord /\ new.requested /\ AtMostAsked(old, new)
    BY <2>2, <2>3, AskedFacts
  <2>5. clients' = [clients EXCEPT ![t] = [after EXCEPT ![Active(t)] = Asked(@)]]
    BY <1>1, <1>6 DEF Commit
  <2>6. PICK asked : asked = [after EXCEPT ![Active(t)] = Asked(@)]
    OBVIOUS
  <2>7. asked = [clients[t] EXCEPT ![Active(t)] = new]
    BY <1>2, <2>1, <2>2, <2>3, <2>6
  <2>8. /\ asked \in [Keys -> ClientRecord] /\ asked[Active(t)] = new
        /\ \A k \in Keys : k # Active(t) => asked[k] = clients[t][k]
    BY <1>3, <2>1, <2>4, <2>7
  <2>9. /\ clients' \in [Tabs -> [Keys -> ClientRecord]] /\ clients'[t] = asked
        /\ \A u \in Tabs : u # t => clients'[u] = clients[u]
    BY <1>3, <2>5, <2>6, <2>8
  <2>10. ASSUME NEW k \in Keys
         PROVE  /\ AtMostAsked(clients[t][k], clients'[t][k])
                /\ k = Active(t) => clients'[t][k].requested
    BY <1>3, <2>2, <2>4, <2>8, <2>9 DEF AtMostAsked
  <2>. QED
    BY <2>1, <2>9, <2>10
<1>7. CASE ~ CallsSync(t)
  <2>1. clients' = [clients EXCEPT ![t] = after]
    BY <1>1, <1>7 DEF Commit
  <2>2. /\ clients' \in [Tabs -> [Keys -> ClientRecord]] /\ clients'[t] = after
        /\ \A u \in Tabs : u # t => clients'[u] = clients[u]
    BY <1>2, <1>3, <2>1
  <2>3. \A k \in Keys : AtMostAsked(clients[t][k], clients[t][k])
    BY AskedTypes
  <2>. QED
    BY <1>2, <1>4, <1>7, <2>2, <2>3
<1>. QED
  BY <1>6, <1>7

\* What the effects of a render do with what is pending.
LEMMA EffectsPush ==
  ASSUME HooksSound, NEW t \in Tabs, Commit(t), NEW k \in Keys, Active(t) = k,
         HasPending(t, k)
  PROVE  /\ PushedByEffect =>
              /\ hooks'[t].mutationSyncRevision = clients[t][k].revision
              /\ \/ CallsSync(t)
                 \/ Rendered(t) = k /\ hooks[t].mutationSyncRevision = clients[t][k].revision
         /\ PushedByWorker(k) =>
              /\ hooks'[t].mutationRevision = clients[t][k].revision
              /\ \/ CallsSync(t)
                 \/ clients[t][k].stream \in toWorker'
                 \/ Rendered(t) = k /\ hooks[t].mutationRevision = clients[t][k].revision
<1>1. PICK revision : revision = clients[t][k].revision
  OBVIOUS
<1>2. Active(t) # Disabled /\ RenderedRevision(t) = revision /\ Pending(t)
  BY <1>1, KeyFacts DEF RenderedRevision, Pending, HasPending
<1>3. revision \in Nat
  BY <1>1, ClientTypes
<1>4. ASSUME options.syncOnMutation
      PROVE  /\ hooks'[t].mutationSyncRevision = revision
             /\ \/ CallsSync(t)
                \/ Rendered(t) = k /\ hooks[t].mutationSyncRevision = revision
  <2>1. SyncsMutation(t) <=> SeenRevision(t) # revision
    BY <1>1, <1>2, <1>4 DEF SyncsMutation
  <2>2. hooks'[t].mutationSyncRevision =
           IF SyncsMutation(t) THEN revision ELSE SeenRevision(t)
    BY <1>2, HookAfterFacts
  <2>3. SeenRevision(t) = revision =>
           Rendered(t) = k /\ hooks[t].mutationSyncRevision = revision
    BY <1>3 DEF SeenRevision
  <2>4. SyncsMutation(t) => CallsSync(t)
    BY DEF CallsSync
  <2>. QED
    BY <2>1, <2>2, <2>3, <2>4
<1>5. ASSUME PushedByWorker(k)
      PROVE  /\ hooks'[t].mutationRevision = revision
             /\ \/ CallsSync(t)
                \/ clients[t][k].stream \in toWorker'
                \/ Rendered(t) = k /\ hooks[t].mutationRevision = revision
  <2>1. options.serviceWorker /\ options.initialSync
    BY <1>5 DEF PushedByWorker
  <2>2. NotifiesMutation(t) <=> hooks[t].mutationRevision # revision
    BY <1>1, <1>2, <2>1 DEF NotifiesMutation
  <2>3. hooks'[t].mutationRevision =
           IF NotifiesMutation(t) THEN revision ELSE hooks[t].mutationRevision
    BY <1>2, HookAfterFacts
  <2>4. NotifiesMutation(t) =>
           CallsSync(t) \/ clients[t][k].stream \in toWorker'
    BY DEF CallsSync, Commit
  <2>5. Rendered(t) # k => CallsSync(t)
    BY <1>2, <2>1 DEF CallsSync, StartsInitialSync, Started
  <2>. QED
    BY <2>2, <2>3, <2>4, <2>5
<1>. QED
  BY <1>1, <1>4, <1>5 DEF PushedByEffect

\* A render with its effects keeps what hooks, clients and messages know of one another.
LEMMA CommitKeeps ==
  ASSUME HooksSound, NEW t \in Tabs, Commit(t)
  PROVE  HooksSound'
<1>1. /\ hooks' \in [Tabs -> HookRecord]
      /\ \A u \in Tabs : u # t => hooks'[u] = hooks[u]
      /\ hooks'[t].key = props[t].key
      /\ hooks'[t].client = Active(t)
      /\ hooks'[t].revision = RenderedRevision(t)
      /\ hooks'[t].installed =
            IF hooks[t].installed = props[t].key THEN hooks[t].installed ELSE Disabled
      /\ hooks'[t].mutationSyncRevision =
            IF SyncsMutation(t) THEN RenderedRevision(t) ELSE SeenRevision(t)
      /\ hooks'[t].mutationRevision =
            IF NotifiesMutation(t) THEN RenderedRevision(t) ELSE hooks[t].mutationRevision
  BY HookAfterFacts
<1>2. /\ clients' \in [Tabs -> [Keys -> ClientRecord]]
      /\ \A u \in Tabs : u # t => clients'[u] = clients[u]
      /\ hooks[t].key = props[t].key =>
            \A k \in Keys :
               /\ AtMostAsked(clients[t][k], clients'[t][k])
               /\ CallsSync(t) /\ k = Active(t) => clients'[t][k].requested
      /\ hooks[t].key # props[t].key =>
            /\ Active(t) = Disabled
            /\ \A k \in Keys : Replaced(t, k, clients[t][k], clients'[t][k])
  BY ClientsCommitted
<1>3. /\ online' = online /\ options' = options /\ outbox' = outbox /\ written' = written
      /\ props' = props /\ toTabs' = toTabs
  BY DEF Commit, network
<1>4. toWorker \subseteq toWorker' /\ toWorker' \subseteq Streams
  <2>1. NotifiesMutation(t) => clients[t][Active(t)].stream \in Streams
    BY ActiveFacts DEF NotifiesMutation, Pending
  <2>2. toWorker \subseteq Streams
    BY AskedTypes
  <2>. QED
    BY <2>1, <2>2 DEF Commit
<1>5. Active(t) # Disabled =>
         /\ Active(t) \in Keys /\ hooks[t].installed = Active(t)
         /\ props[t].key = Active(t) /\ hooks[t].key = Active(t)
         /\ clients[t][Active(t)].state = "open"
  BY ActiveFacts
<1>6. TriggersTypeOK'
  <2>1. \A u \in Tabs, j \in Keys :
           /\ clients[u][j].passing => clients[u][j].sent \subseteq written
           /\ \/ clients[u][j].stream \in Streams
              \/ clients[u][j].state = "none" /\ ~ clients[u][j].passing
    BY DEF HooksSound, TriggersTypeOK
  <2>2. ASSUME NEW u \in Tabs, NEW j \in Keys
        PROVE  /\ clients'[u][j].passing => clients'[u][j].sent \subseteq written
               /\ \/ clients'[u][j].stream \in Streams
                  \/ clients'[u][j].state = "none" /\ ~ clients'[u][j].passing
    <3>1. CASE u # t
      BY <1>2, <2>1, <3>1
    <3>2. CASE u = t /\ hooks[t].key = props[t].key
      BY <1>2, <2>1, <3>2 DEF AtMostAsked
    <3>3. CASE u = t /\ hooks[t].key # props[t].key
      <4>1. Replaced(t, j, clients[t][j], clients'[t][j])
        BY <1>2, <3>3
      <4>2. props[t].stream \in Streams
        BY HookTypes
      <4>3. CASE j = props[t].key
        BY <3>3, <4>1, <4>2, <4>3 DEF Replaced
      <4>4. CASE j # props[t].key /\ j = hooks[t].key
        BY <2>1, <3>3, <4>1, <4>4 DEF Replaced
      <4>5. CASE j # props[t].key /\ j # hooks[t].key
        BY <2>1, <3>3, <4>1, <4>5 DEF Replaced
      <4>. QED
        BY <4>3, <4>4, <4>5
    <3>. QED
      BY <3>1, <3>2, <3>3
  <2>. QED
    BY <1>1, <1>2, <1>3, <1>4, <2>2 DEF HooksSound, TriggersTypeOK
<1>7. RenderedOpen'
  <2>1. ASSUME NEW u \in Tabs, hooks'[u].client # Disabled
        PROVE  clients'[u][hooks'[u].client].state = "open"
    <3>1. CASE u # t
      BY <1>1, <1>2, <2>1, <3>1 DEF HooksSound, RenderedOpen, Rendered
    <3>2. CASE u = t
      BY <1>1, <1>2, <1>5, <2>1, <3>2 DEF AtMostAsked
    <3>. QED
      BY <3>1, <3>2
  <2>. QED
    BY <2>1 DEF RenderedOpen, Rendered
<1>8. LateClientsClosed'
  <2>1. \A u \in Tabs, k \in Keys : clients[u][k].state = "open" => k = hooks[u].key
    BY DEF HooksSound, LateClientsClosed
  <2>2. ASSUME NEW u \in Tabs, NEW k \in Keys, clients'[u][k].state = "open"
        PROVE  k = hooks'[u].key
    <3>1. CASE u # t
      BY <1>1, <1>2, <2>1, <2>2, <3>1
    <3>2. CASE u = t /\ hooks[t].key = props[t].key
      BY <1>1, <1>2, <2>1, <2>2, <3>2 DEF AtMostAsked
    <3>3. CASE u = t /\ hooks[t].key # props[t].key
      BY <1>1, <1>2, <2>1, <2>2, <3>3 DEF Replaced
    <3>. QED
      BY <3>1, <3>2, <3>3
  <2>. QED
    BY <2>2 DEF LateClientsClosed
<1>9. ASSUME NEW u \in Tabs
      PROVE  FirstKeySeen(u)'
  <2>1. FirstKeySeen(u)
    BY DEF HooksSound
  <2>2. CASE u # t
    BY <1>1, <1>2, <1>3, <2>1, <2>2 DEF FirstKeySeen
  <2>3. CASE u = t /\ props[t].key = 1
    <3>1. hooks'[t].key = 1
      BY <1>1, <2>3
    <3>2. CASE hooks[t].key = 1
      <4>1. clients'[t][1].revision = clients[t][1].revision
        BY <1>2, <2>3, <3>2, KeyFacts DEF AtMostAsked
      <4>2. clients[t][1].revision \in Nat
        BY ClientTypes, KeyFacts
      <4>3. NotifiesMutation(t) => RenderedRevision(t) = clients[t][1].revision
        BY <1>5, <2>3, KeyFacts DEF NotifiesMutation, Pending, RenderedRevision
      <4>4. hooks[t].mutationRevision <= clients[t][1].revision
        BY <2>1, <2>3, <3>2 DEF FirstKeySeen
      <4>5. hooks'[t].mutationRevision <= clients'[t][1].revision
        BY <1>1, <4>1, <4>2, <4>3, <4>4
      <4>. QED
        BY <2>3, <3>1, <4>5 DEF FirstKeySeen
    <3>3. CASE hooks[t].key # 1
      <4>1. hooks[t].mutationRevision = 0
        BY <2>1, <2>3, <3>3 DEF FirstKeySeen
      <4>2. ~ NotifiesMutation(t)
        BY <1>2, <2>3, <3>3 DEF NotifiesMutation, Pending
      <4>3. clients'[t][1].revision = 0
        BY <1>2, <2>3, <3>3, KeyFacts DEF Replaced
      <4>4. hooks'[t].mutationRevision <= clients'[t][1].revision
        BY <1>1, <4>1, <4>2, <4>3
      <4>. QED
        BY <2>3, <3>1, <4>4 DEF FirstKeySeen
    <3>. QED
      BY <3>2, <3>3
  <2>4. CASE u = t /\ props[t].key # 1
    BY <1>1, <1>3, <2>4 DEF FirstKeySeen
  <2>. QED
    BY <2>2, <2>3, <2>4
<1>10. ASSUME NEW u \in Tabs, NEW k \in Keys
       PROVE  InstalledClient(u, k)'
  <2>1. InstalledClient(u, k)
    BY DEF HooksSound
  <2>2. CASE u # t
    BY <1>1, <1>2, <2>1, <2>2 DEF InstalledClient, Rendered
  <2>3. CASE u = t /\ hooks[t].key = props[t].key
    <3>1. clients'[t][k].state = clients[t][k].state
          /\ clients'[t][k].revision = clients[t][k].revision
      BY <1>2, <2>3 DEF AtMostAsked
    <3>2. clients'[t][k].state = "creating" => k = hooks'[t].key
      BY <1>1, <2>1, <2>3, <3>1 DEF InstalledClient
    <3>3. hooks'[t].installed = k <=> clients'[t][k].state = "open"
      <4>1. k # Disabled
        BY KeyFacts
      <4>2. clients[t][k].state = "open" => k = props[t].key
        BY <2>3 DEF HooksSound, LateClientsClosed
      <4>. QED
        BY <1>1, <2>1, <2>3, <3>1, <4>1, <4>2 DEF InstalledClient
    <3>4. ASSUME Active(t) = k
          PROVE  /\ hooks'[t].installed = k
                 /\ hooks'[t].revision <= clients'[t][k].revision
                 /\ hooks'[t].mutationSyncRevision <= clients'[t][k].revision
      <4>1. hooks'[t].installed = k
        BY <1>1, <1>5, <3>4, KeyFacts
      <4>2. RenderedRevision(t) = clients[t][k].revision
        BY <3>4, KeyFacts DEF RenderedRevision
      <4>3. clients[t][k].revision \in Nat
        BY ClientTypes
      <4>4. SeenRevision(t) <= clients[t][k].revision
        BY <2>1, <2>3, <3>4, <4>3 DEF SeenRevision, InstalledClient
      <4>. QED
        BY <1>1, <3>1, <4>1, <4>2, <4>3, <4>4
    <3>. QED
      BY <1>1, <2>3, <3>2, <3>3, <3>4 DEF InstalledClient, Rendered
  <2>4. CASE u = t /\ hooks[t].key # props[t].key
    <3>1. Replaced(t, k, clients[t][k], clients'[t][k])
      BY <1>2, <2>4
    <3>2. k # Disabled
      BY KeyFacts
    <3>3. clients'[t][k].state = "creating" => k = hooks'[t].key
      BY <1>1, <2>1, <2>4, <3>1 DEF Replaced, InstalledClient
    <3>4. clients'[t][k].state # "open"
      <4>1. clients[t][k].state = "open" => k = hooks[t].key
        BY <2>4 DEF HooksSound, LateClientsClosed
      <4>. QED
        BY <3>1, <4>1 DEF Replaced
    <3>5. hooks'[t].installed # k
      <4>1. hooks[t].installed = k => k = hooks[t].key
        BY <2>1, <2>4 DEF HooksSound, LateClientsClosed, InstalledClient
      <4>. QED
        BY <1>1, <2>4, <3>2, <4>1
    <3>6. hooks'[t].client # k
      BY <1>1, <1>2, <2>4, <3>2
    <3>. QED
      BY <2>4, <3>3, <3>4, <3>5, <3>6 DEF InstalledClient, Rendered
  <2>. QED
    BY <2>2, <2>3, <2>4
<1>11. ASSUME NEW u \in Tabs, NEW k \in Keys
       PROVE  SeenIsPushed(u, k)'
  <2>1. SeenIsPushed(u, k)
    BY DEF HooksSound
  <2>2. CASE u # t
    <3>1. hooks'[u] = hooks[u] /\ clients'[u][k] = clients[u][k]
      BY <1>1, <1>2, <2>2
    <3>2. Notified(u, k) => Notified(u, k)'
      BY <1>3, <1>4, <3>1 DEF Notified
    <3>. QED
      BY <1>3, <2>1, <3>1, <3>2
      DEF SeenIsPushed, HasPending, PushedByEffect, PushedByWorker, Rendered
  <2>3. CASE u = t /\ Active(t) # k
    BY <1>1, <2>3 DEF SeenIsPushed, Rendered
  <2>4. CASE u = t /\ Active(t) = k
    <3>1. Active(t) # Disabled /\ hooks[t].key = props[t].key
      BY <1>2, <2>4, KeyFacts
    <3>2. AtMostAsked(clients[t][k], clients'[t][k])
          /\ (CallsSync(t) => clients'[t][k].requested)
      BY <1>2, <2>4, <3>1
    <3>3. /\ clients'[t][k].state = clients[t][k].state
          /\ clients'[t][k].stream = clients[t][k].stream
          /\ clients'[t][k].revision = clients[t][k].revision
          /\ clients'[t][k].pending = clients[t][k].pending
          /\ clients'[t][k].passing = clients[t][k].passing
          /\ Tried(clients[t][k]) => Tried(clients'[t][k])
          /\ CallsSync(t) => Tried(clients'[t][k])
      BY <3>2 DEF AtMostAsked, Tried
    <3>4. Notified(t, k) \/ clients[t][k].stream \in toWorker' => Notified(t, k)'
      BY <1>3, <1>4, <3>3 DEF Notified
    <3>5. CASE HasPending(t, k)
      <4>1. PICK revision : revision = clients[t][k].revision
        OBVIOUS
      <4>2. /\ PushedByEffect =>
                 /\ hooks'[t].mutationSyncRevision = revision
                 /\ \/ CallsSync(t)
                    \/ Rendered(t) = k /\ hooks[t].mutationSyncRevision = revision
            /\ PushedByWorker(k) =>
                 /\ hooks'[t].mutationRevision = revision
                 /\ \/ CallsSync(t)
                    \/ clients[t][k].stream \in toWorker'
                    \/ Rendered(t) = k /\ hooks[t].mutationRevision = revision
        BY <2>4, <3>5, <4>1, EffectsPush
      <4>3. Rendered(t) = k =>
              /\ PushedByEffect /\ online /\ hooks[t].mutationSyncRevision = revision =>
                     Tried(clients[t][k])
              /\ PushedByWorker(k) /\ online /\ hooks[t].mutationRevision = revision =>
                     Tried(clients[t][k]) \/ Notified(t, k)
        BY <2>1, <2>4, <3>5, <4>1 DEF SeenIsPushed
      <4>4. /\ PushedByEffect =>
                 /\ hooks'[t].mutationSyncRevision = revision
                 /\ online => Tried(clients'[t][k])
            /\ PushedByWorker(k) =>
                 /\ hooks'[t].mutationRevision = revision
                 /\ online => Tried(clients'[t][k]) \/ Notified(t, k)'
        BY <3>2, <3>3, <3>4, <4>2, <4>3
      <4>5. clients'[t][k].revision = revision
        BY <3>3, <4>1
      <4>6. (PushedByEffect' <=> PushedByEffect) /\ (PushedByWorker(k)' <=> PushedByWorker(k))
        BY <1>3 DEF PushedByEffect, PushedByWorker
      <4>. QED
        BY <1>3, <2>4, <4>4, <4>5, <4>6 DEF SeenIsPushed
    <3>6. CASE ~ HasPending(t, k)
      BY <2>4, <3>3, <3>6 DEF SeenIsPushed, HasPending
    <3>. QED
      BY <3>5, <3>6
  <2>. QED
    BY <2>2, <2>3, <2>4
<1>. QED
  BY <1>6, <1>7, <1>8, <1>9, <1>10, <1>11 DEF HooksSound

\* Every step keeps what hooks, clients and messages know of one another.
LEMMA HooksKeeps == HooksSound /\ [Next]_vars => HooksSound'
<1> SUFFICES ASSUME HooksSound, [Next]_vars
             PROVE  HooksSound'
  OBVIOUS
<1>1. ASSUME NEW t \in Tabs, Application(t)
      PROVE  HooksSound'
  <2>1. CASE Enqueue(t)
    BY <2>1, EnqueueKeeps
  <2>2. ASSUME NEW stream \in Streams, ChangeKey(t, stream)
        PROVE  HooksSound'
    BY <2>2, ChangeKeyKeeps
  <2>3. CASE Disable(t)
    BY <2>3, DisableKeeps
  <2>. QED
    BY <1>1, <2>1, <2>2, <2>3 DEF Application
<1>2. ASSUME NEW t \in Tabs, Commit(t)
      PROVE  HooksSound'
  BY <1>2, CommitKeeps
<1>3. ASSUME NEW t \in Tabs, NEW key \in Keys, Client(t, key)
      PROVE  HooksSound'
  BY <1>3, BeginPassKeeps, ReceiveKeeps, FailPassKeeps DEF Client
<1>4. ASSUME NEW t \in Tabs, NEW key \in Keys, Creation(t, key)
      PROVE  HooksSound'
  BY <1>4, CreatedKeeps, CreationFailsKeeps DEF Creation
<1>5. CASE Browser
  <2>1. ASSUME NEW t \in Tabs, WorkerReady(t)
        PROVE  HooksSound'
    BY <2>1, WorkerReadyKeeps
  <2>. QED
    BY <1>5, <2>1, GoOfflineKeeps, GoOnlineKeeps, BackgroundSyncKeeps DEF Browser
<1>6. CASE Delivery
  <2>1. ASSUME NEW stream \in Streams, NotifyClients(stream)
        PROVE  HooksSound'
    BY <2>1, NotifyClientsKeeps
  <2>2. ASSUME NEW t \in Tabs, NEW stream \in Streams \cup {AnyStream}, OnMessage(t, stream)
        PROVE  HooksSound'
    BY <2>2, OnMessageKeeps
  <2>. QED
    BY <1>6, <2>1, <2>2 DEF Delivery
<1>7. CASE UNCHANGED vars
  <2>1. /\ online' = online /\ clients' = clients /\ toWorker' = toWorker /\ toTabs' = toTabs
        /\ options' = options /\ outbox' = outbox /\ written' = written /\ hooks' = hooks
        /\ props' = props
    BY <1>7 DEF vars, network, messages
  <2>2. TriggersTypeOK'
    BY <2>1 DEF HooksSound, TriggersTypeOK
  <2>3. RenderedOpen' /\ LateClientsClosed'
    BY <2>1 DEF HooksSound, RenderedOpen, LateClientsClosed, Rendered
  <2>4. \A u \in Tabs : FirstKeySeen(u)'
    BY <2>1 DEF HooksSound, FirstKeySeen
  <2>5. \A u \in Tabs, j \in Keys : InstalledClient(u, j)' /\ SeenIsPushed(u, j)'
    BY <2>1
    DEF HooksSound, InstalledClient, SeenIsPushed, HasPending, PushedByEffect, PushedByWorker,
        Notified, Rendered
  <2>. QED
    BY <2>2, <2>3, <2>4, <2>5 DEF HooksSound
<1>. QED
  BY <1>1, <1>2, <1>3, <1>4, <1>5, <1>6, <1>7 DEF Next

\* Between renders nothing that is pending waits for an event that may never come.
LEMMA SoundIsNoticed == HooksSound => PendingNoticed
<1> SUFFICES ASSUME HooksSound, NEW t \in Tabs, NEW k \in Keys,
                    online, HasPending(t, k), PushedByEffect \/ PushedByWorker(k),
                    ~ Tried(clients[t][k]), ~ Changed(t)
             PROVE  PushedByWorker(k) /\ Notified(t, k)
  BY DEF PendingNoticed
<1>1. k # Disabled
  BY KeyFacts
<1>2. clients[t][k].state = "open" /\ k = hooks[t].key /\ hooks[t].installed = k
  BY DEF HasPending, HooksSound, LateClientsClosed, InstalledClient
<1>3. Active(t) = k
  BY <1>2 DEF Changed, Active
<1>4. Rendered(t) = k /\ hooks[t].revision = clients[t][k].revision
  BY <1>1, <1>3 DEF Changed
<1>. QED
  BY <1>4 DEF HooksSound, SeenIsPushed

\* Whatever falls between renders, creations, key changes, outages and messages, in any number
\* of tabs, no closed client is used, and what is pending is only forgotten by a pass that fails
\* in spite of a network
\* (react/index.ts:80-119, 288-349, 474-552).
THEOREM TriggersInductive == Spec => []TriggersInv
<1>1. Init => HooksSound
  BY InitHooksSound
<1>2. HooksSound /\ [Next]_vars => HooksSound'
  BY HooksKeeps
<1>3. HooksSound => TriggersInv
  BY SoundIsNoticed DEF TriggersInv
<1>. QED
  BY <1>1, <1>2, <1>3, PTL DEF Spec
=============================================================================
