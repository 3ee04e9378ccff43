# Formal model of sync-engine-v2

sync-engine-v2 is a local-first synchronization engine. Every client keeps a
durable replica in IndexedDB, applies its own operations optimistically, and
exchanges them with an authority that decides each proposed operation once and
for all and appends the accepted ones to a single canonical log. This directory
holds TLA+ modules translated from `src/`, TLC runs on small instances, and
TLAPS proofs of the protocol's safety for every value of the constants. Sections
2 and 3 go component by component, section 4 lists the runs, their bounds and
the fairness they assume, section 5 the proofs.

Paths below are relative to the repository's `src/` directory.

## 1. Inventory

| Part | State it keeps | Operations | Talks to |
|---|---|---|---|
| protocol values and validations (`protocol.ts`, `limits.ts`, `invariants.ts`) | none | `assertSyncRequest`, `assertProposalBatch`, `assertSyncResponse` | both ends of an exchange |
| in-memory authority (`server.ts`) | canonical log, permanent decisions, client positions, materialized state | `synchronize`, `snapshot`, restore | whoever calls `synchronize` |
| replica reducers (`replica.ts`) | none: functions on a `ReplicaState` | `enqueueOperation`, `deleteCommittedLogPrefix`, `prepareSyncRequest`, `mergeSyncResponse`, `materializeOptimisticState` | the store |
| IndexedDB store (`indexeddb/store.ts`, `record.ts`) | one record per stream: confirmed prefix, outbox, inbox of resolutions, next client sequence | the reducers inside one readwrite transaction, `acknowledgeResolutions` | every tab of the origin |
| database lifecycle (`indexeddb/open.ts`, `idb.ts`) | the database itself | open, create the record, delete | tabs that hold it open |
| session, client, view (`client/*.ts`) | `syncRequested`, `syncPromise`, `closed`, the refresh queue, a cached snapshot | `requestSync`, `enqueue`, `close`, retries, rounds | store, transport, application |
| row semantics (`client/row/*`) | tables of rows | normalise, apply, decide | interpreters of both ends |
| D1 authority (`next/d1.ts`, `d1-correctness.ts`) | four SQL tables | `synchronize` by reads and one guarded batch, with retries | D1 |
| D1 bootstrap (`next/d1-bootstrap.ts`) | none | publishes existing rows as history | D1 authority |
| route server (`next/server.ts`) | none | decode, resolve the stream, map errors | HTTP |
| transport, wire, fingerprint | none | encode, decode, hash | HTTP |
| React hooks, service worker (`react/index.ts`, `cli/next/templates`) | subscriptions, timers | call `requestSync` | client |
| schema discovery, command line | none | generate files at build time | file system |

**How they interact.** A tab calls `enqueueOperation`, which allocates the next
client sequence and persists the proposal in one transaction. A sync session
reads a request snapshot from the record (`prepareSyncRequest`; nothing durable
says that a request is in flight), sends it, and merges the response into the
record *as it is by then*. Several tabs and the service worker do this over one
record without any lock between the two transactions. The authority runs
`synchronize` on each request it receives. The network may lose, delay, repeat
and reorder requests and responses, since a tab may time out, retry or close.

**What is hard here.** (a) Overlapping sessions of one replica: snapshots and
merges interleave, and the responses may be older than the record. (b) Retries:
the same proposal arrives again, alone or among new ones, after it has been
decided. (c) Pages shorter than the batch: a decision names an entry that the
page does not carry, so the outbox keeps a receipt until the entry arrives.
(d) Compaction of the local log between a receipt and its entry, or between two
pages. (e) Acknowledged outcomes that must not come back. (f) Validations on
every path: a legal sequence of calls that ends in a throw would block the
replica for good. (g) In the D1 authority, SQL reads and commits of concurrent
requests interleave at every `await`. (h) In the browser, calls of the
application fall between any two awaits of a pass, several tabs share a record,
and one of them may delete the database under the others. (i) Errors travel from
the database through a status and a code to the client's decision to try again.
(j) A bootstrap reads tables that the application goes on changing. (k) React
effects ask for a synchronization at renders that synchronizations cause. (l) An
operation is normalised by four layers that must agree.

`PROJECT.json` lists each hazard at its line with the properties that watch it.

**What makes each part correct.** Authority: log and decisions agree, nothing
is revised, one client's order is kept, no legitimate retry is refused.
Replica: the confirmed part is a prefix of the canonical log, positions never
go back, no operation is lost or shown twice, each outcome is told once. Store:
no update leaves a record that is refused later. Session and client: every
request for a sync is served by a pass that starts after it; every proposal is
eventually decided if exchanges succeed. D1: concurrent requests behave like
some order of in-memory calls. Bootstrap: the published history equals the
rows. Row semantics: optimistic and canonical application agree. Lifecycle: an
identity never numbers two operations alike, deletions and opens end. Triggers:
what is pending is pushed unless a pass fails in spite of the network, and the
triggers come to rest. Route: a failure the
client can mend by trying again reaches it as one. Restored authority: what was
answered stays true.

## 2. Modules and how they correspond to the code

| Module | Models |
|---|---|
| `SyncProtocol` | the records of `protocol.ts` and the validations of `invariants.ts` |
| `LogServer` | the transition of `InMemoryLogServer.synchronize` (`server.ts`): what it refuses, stages, decides and answers |
| `Replica` | the record and its reducers (`replica.ts`, `indexeddb/record.ts`), each error path as a named condition |
| `SyncSystem` | the composition: `log`, `decisions`, `authorityState` of the authority; `replicas`, one record per client; `requests` and `responses`, the network; three history variables |
| `SyncProperties` | the properties |
| `SyncInvariant` | the inductive invariant `IInv` |
| `CanonicalLog` | the abstract specification: one log that grows at its end, permanent decisions, a state that follows |
| `SyncRefinement` | `SyncSystem` as an implementation of `CanonicalLog` |
| `D1Authority` | the authority over D1 (`next/d1.ts` behind the guard of `next/d1-correctness.ts`): `stream`, `logEntries` and `decisionRows` are its tables, `calls` the local variables of each call in progress |
| `D1Properties` | its properties, and its tables as an implementation of `CanonicalLog` |
| `D1Invariant` | the inductive invariant `D1Inv` |
| `ServerRestore`, `RestoreProperties` | the in-memory authority across processes: `snapshot`, the checks of the constructor, and three kinds of adapter that store a snapshot |
| `ClientRuntime`, `ClientProperties` | `client/client.ts` with `sync-session.ts` and `replica-view.ts`: the scheduler, passes of attempts of rounds, the refresh queue, enqueue, acknowledge and close, in tabs over one record |
| `ReplicaLifecycle`, `LifecycleProperties` | `indexeddb/open.ts` and `idb.ts`: open, create, check the identity, write, close, crash and delete, over the connection queue of IndexedDB |
| `SyncTriggers`, `TriggersProperties` | `react/index.ts` and the generated service worker: keys, creation and close of clients, renders and effects, online events and messages |
| `SyncRoute`, `RouteProperties` | `client/transport.ts`, `next/server.ts`, the retry of `client.ts` and the initialization of `next/d1.ts`: one exchange from endpoint to status, code and the client's next step |
| `D1Bootstrap`, `BootstrapProperties` | `next/d1-bootstrap.ts`: checks, pages by offset, batches, with the application and other bootstraps between any two awaits |
| `RowState`, `RowProperties` | `client/row/*`, the projection of `next/d1.ts` into application tables and what the bootstrap reads back |
| `MC...` | symmetry and values of constants for TLC |
| `SyncSystemProofs`, `D1Proofs`, `RestoreProofs`, `ClientProofs`, `DeviceProofs`, `TriggersProofs`, `RouteProofs`, `BootstrapProofs` | the proofs |

Actions and handlers: `EnqueueOperation`, `DeleteCommittedLogPrefix`,
`AcknowledgeResolutions` and `MergeSyncResponse` are the four readwrite
transactions of `IndexedDbReplicaStore`, each one atomic as IndexedDB makes it.
`StoreRecord` is `#updateRecord`: the record is validated before and after the
change, and the transaction aborts if either check fails.
`PrepareSyncRequest` is the read transaction of the same name. `Synchronize`
is one call of the in-memory authority, which has no `await` in it.

In `D1Authority` a call goes through `ReadStream`, then `ReadStoredDecision`
and `DecideProposal` for each proposal, `CommitBatch` or `RetryCommit`, and
`ReadLogPage`, one action per `await`; `DecideProposal` is the check of the
client position and the interpreter's decision, which follows without an
`await`. A batch is one SQL transaction: it aborts as a whole on a duplicate
key or when the guarded head update assigns NULL (`Aborts`), which is how the
package exports the authority. `Busy` is a database that reports to be locked
(retried), `LoseCommit` a batch that was applied although its answer is an
error, `Abandon` any other error, or a worker that stops.

In `ClientRuntime` each stretch of JavaScript between two awaits is an action.
`session[tab].pc` says where the promise `syncPromise` stands: `prepare`,
`exchange`, `merge` and `refresh` are the awaits of a round, `backoff` the delay
of a retry, `loop` the head of `runRequestedSync`, and `settling` the gap
between the last look at `syncRequested` and the finally callback.
`view[tab].queue` is `refreshTail` with everything chained to it. `RequestSync`,
`Write` and `Close` are the calls of the application up to their first await;
`Store` and `CloseStore` what follows. `FailStore`, `FailSessionRefresh`, `FailWrite`
and `FailRefresh` are transactions that fail. `Merged` takes the decisions of an
answer and then walks its entries, each of which settles its own proposal.

In `ReplicaLifecycle` `ServeOpen`, `StartDelete`, `Blocked` and `Finish` are what
the browser does with its queue of requests, `BeginCreate`, `EndCreate` and
`RefuseIdentity` the transaction of `openIndexedDbReplicaStore`, `VersionChange`
the handler that closes a connection. A transaction keeps a closed connection
alive until it ends.

In `SyncTriggers` `Commit` is one render with all the effects whose dependencies
changed, in their order; `Created` and `CreationFails` are the continuations of
an asynchronous creation, which may find its key gone; the client is reduced to
passes that send the outbox round by round.

In `SyncRoute` the server takes a request and answers it in one action
(`Refuse`, `FailToInitialize`, `StayBroken`, `Fail`, `Serve`): what the route
reads before the authority's turn is not shared. `LoseConnection` leaves the
request on its way (`strays`), to be served after its client has given up, and
`Restart` ends the process and the authorities that it kept.

In `D1Bootstrap` a run goes through `Probe`, `CheckHistory`, and then `ReadPage`
and `Commit` by turns; `Abort` is a failing call, which for a batch may have
taken effect, or the end of the process.

In `ServerRestore` `Save` stores a whole snapshot and then answers the calls
made since the last one, as the comment at `server.ts` 91-92 asks of an adapter;
`SavePart` is an adapter that stores the parts one by one, and `Corrupt` a
stored record that changes. `Restorable` is the constructor's verdict.

Choices of abstraction:

- *Network.* `requests` and `responses` are sets that only grow: any message
  may arrive at any time, any number of times, or never. This covers loss,
  delay, duplication and reordering, and a tab that crashes while it waits.
- *Interpreter.* `decide` accepts or rejects each undecided proposal
  arbitrarily and may emit any operation. A state is the sequence of operations
  applied to reach it, so two replicas have the same state exactly when every
  deterministic interpreter gives them the same state. An interpreter that
  throws makes the call fail without effect, like a call that is refused.
- *Intents* are named by their hash, the only part the protocol compares.
  A rejection's reason is left out: no step reads it.
- *Outbox.* A set, since the array is always in the order of client sequences.
  `mergeSyncResponse` walks decisions, entries and outbox in turn; the names
  in each walk are distinct, so each walk is a set operation on what the
  previous one left. The last walk (`replica.ts` 343-366) is kept, although
  it drops nothing in a reachable state: lemma `ReceiptsAhead`.
- *D1.* Clients appear only through the requests they may send, as
  `RequestSound` of `SyncInvariant` describes them: base within the log, and
  earlier proposals decided or in the request. A request may be received any
  number of times. Creating the stream row (`INSERT OR IGNORE`) is part of
  `Init`: repeating it changes nothing. `basis`, `disturbed`, `issued` and
  `failures` are history variables; `disturbed` is capped at the number of
  retries, beyond which no property tells values apart.
- *Client.* The record and the authority of `ClientRuntime` keep what a session
  can tell apart: positions, which operations are pending and which wait for
  their entry; an answer carries the operations of this record among its entries.
  What the application sees is the snapshot of the record at the
  time it was read. Exchanges end, in an answer or in an error; the transport
  itself has no timeout. A transaction may fail at any time, for whatever reason
  (a close, a deletion in another tab, an abort), and then changes nothing.
  `owed`, `head`, `late` and `basis` are history fields.
- *Database of the browser.* IndexedDB is external: requests are served in
  order, a deletion sends versionchange to open connections, waits until they
  are gone and reports that it is blocked if it has to. `createClientId` draws
  identifiers that never repeat.
- *Hooks.* A pass may fail at any time: the authority answers with an error, or a
  fetch from before or during an outage is rejected after it. `forgotten` is a
  history field: such a pass failed although there is a network, and nobody has
  called `sync()` since. Callback options are taken to be
  new at each render, the worst case for an effect that depends on them.
- *Routes.* Sizes are bytes of operations, the only variable part of a request.
  `cause` in an error response is a label of the model that no step of the
  client reads. An exchange decides all its proposals or none.
- *Bootstrap.* A call of `synchronize` is one step, as `D1Authority` shows.
  Clients that synchronize during a bootstrap are left out: the README rules
  them out. Tables and keys are numbers, in the order in which the code sorts
  them, and a page is given by ranks: the rows with at least `offset` rows before
  them. The contents that no column can hold are `Unreadable`; a row of another
  content is never rejected.
- *Log of the bootstrap.* A set whose entries carry their sequence, as the rows
  of the log table do.
- *Rows.* A JSON value is a pair of its kind and a number that names its
  content; kinds are what `normalizeColumnValue` and SQLite's affinities tell
  apart. The keys of the instance are those SQLite stores as they are (see the
  disagreement about NUMERIC keys) or refuses: a fraction for a rowid. A request
  fails as a whole, its page too, while the table refuses one of its operations
  (`RequestRefused`). Its operations are committed one by one, which reaches the same
  states: each may have been sent before the next one was enqueued.
- *Failures.* Every `throw` is recorded in `failures` with the record and the
  authority unchanged, so that `NoFailure` says that no handler throws.
- *Inputs.* Applications draw operation ids that were never used
  (`createOperationId` returns a UUID), delete prefixes within the confirmed
  log, and acknowledge outcomes from their inbox (other ids are ignored by
  the code). `OptionsAssumption` says that sessions do not ask to send more
  proposals than the authority accepts; a client configured otherwise gets
  `ProtocolLimitExceededError` each time.

## 3. Properties

| Property | What it says |
|---|---|
| `NoFailure` | no handler throws on what the rest of the system hands it, however late or repeated |
| `ConfirmedPrefix` | confirmed log and state of each replica are those of a prefix of the canonical log, under any paging and compaction |
| `CommittedOnce` | an operation and a client position occur at most once in the log, exactly where the permanent decision says |
| `ClientOrderKept` | one client's operations are committed in the order it issued them |
| `NoProposalLost` | an issued operation is in the outbox, confirmed, or rejected; never in the outbox and confirmed at once |
| `OutcomeToldOnce` | an operation is pending exactly as long as its outcome is neither in the inbox nor acknowledged |
| `AuthorityPermanent` | the log grows at its end only and decisions are never revised |
| `NeverReopened` | positions never decrease, and a settled operation never becomes pending again |
| `ImplementsCanonicalLog` | (`SyncRefinement`, `D1Properties`) every step is one step of the abstract log, or invisible to it |
| `TablesAgree` | tables, messages and calls keep their types, attempts their bound, and the three tables describe one history, whatever commits interleave, fail or are lost |
| `D1ClientOrderKept` | one client's operations are committed in the order it issued them |
| `AnswersTrue` | each answer is a page of the one log with stored decisions, although its parts were read at different moments |
| `D1Inv`: `NeverRefused` | no honest call is refused for its base, identity or position, although the same proposal may be decided between its two look-ups |
| `RetryMeansProgress` | a commit is retried only if another call committed or the database was busy |
| `DecidedOnCurrentState` | a decision becomes permanent only if it was taken on the state it is appended to |
| `CallsEnd` | every call ends (liveness) |
| `RestoreInv`: `SnapshotsRestore` | a snapshot that the server took is never refused by the constructor |
| `RestoreInv`: `AnswersKept` | what a client was answered is what every later process answers |
| `RestoreInv`: `RunningHistorySound` | a server that runs has one history, although its snapshot was stored in parts or altered |
| `RestoreInv`: `SavedSound`, `ServerContinues` | an atomic adapter holds a sound history, which the running server continues |
| `ImplementsDurableLog` | with an atomic adapter, what is stored is the abstract canonical log of an authority that never crashes |
| `SyncDrains` | when `sync()` resolves, what was in the record when it was called has its decision and entry, and the log as of then is confirmed |
| `ReadYourWrites` | an enqueue that resolved is visible from then on |
| `ViewForward` | a view never goes back to an older record, and a round is followed by another one only if the record moved |
| `ClientInv`: `PhaseTrue` | listeners see "syncing" exactly while a session runs, and "closed" last |
| `ClientInv`: `ConfirmedNotPending` | a proposal whose entry is confirmed is no longer pending, also when another tab's request carried it and the answer was lost |
| `NoCallStuck` | whatever other clients do, a call that waits has a step of its own, or its client's session or refresh queue has one and knows of it |
| `LifecycleInv`: `OneIdentity` | a tab that can write holds the identity of the record it writes to |
| `RandomPositionsFresh` | an identity drawn at random gives each position to one operation, over deletions and crashes |
| `RequestsEnd`: `DeletionEnds`, `OpensSettle` | every deletion takes place, also a rejected one; every open ends (liveness) |
| `TriggersInv`: `RenderedOpen`, `LateClientsClosed` | a rendered client is open; a client created too late is closed |
| `TriggersInv`: `PendingNoticed` | what a tab shows as pending while online is asked for, under way, or about to be noticed by an effect or the worker; only a pass that fails in spite of the network forgets it |
| `PendingDrains` | with the network back for good, what a tab shows as pending is pushed, or the pass that was to push it fails in spite of the network (liveness) |
| `Quiesces` | the triggers come to rest, also without a network (liveness) |
| `RouteInv`: `ConflictRetried` | a pass ends with a commit conflict only after all its attempts, and an error is tried again for exactly when it is such a conflict |
| `RouteInv`: `RequestsSound`, `AnswersSound` | a client waits exactly while its request is posted, and an answer that accepts carries what its session's authority has decided |
| `RouteInv`: `AnswersTaken` | a stream that is named differently inside the server never makes a client refuse an answer |
| `SettledIsDecided` | what left an outbox was decided by the authority of the right stream |
| `Drains` | repeated passes create the tables and empty the outbox, unless a request is too large (liveness) |
| `QuietBootstrapExact` | over unchanged tables a completed bootstrap published the rows exactly; a failed one a prefix |
| `InsertionNeverSkips` | insertions during a bootstrap never make a completed one skip a row |
| `BootstrapInv`: `PublishedOnce`, `PositionsContiguous`, `OneWinner` | of overlapping bootstraps: no row twice, positions without gaps, one client at most completes |
| `BootstrapInv`: `NothingSkipped`, `QuietSteps` | at every moment of a run, what it has passed is published or in its batch unless rows were deleted; over unchanged tables position, offset and counts agree |
| `RowInv`: `NormalForm` | what one layer normalises, the next ones take unchanged |
| `LastWriteWins` | every reader, on the authority, on a replica and over the optimistic view, sees what the last operation about a row made it |
| `TablesHoldState` | the application's tables, read back by a bootstrap, are the materialised state |
| `RowInv`: `QuiescentEqual` | a client that can neither send nor learn anything has nothing left and reads the authority's rows, unless its request holds a row the application's table refuses |

Where the table names a conjunction and a part of it, the run checks the
conjunction (`D1Inv`, `ClientInv`, `BootstrapInv`, `LifecycleInv`, `TriggersInv`,
`RowInv`, `RouteInv`, `RestoreInv`), whose first part is the module's type
invariant; `TypeOK` of `SyncSystem` is the first part of `IInv`. All of them but
`RowInv` are inductive, and their other parts are there for the
proofs of section 5.

The first eight are the safety invariants 1 to 9, 11 and 13 of
`docs/architecture/README.md`, and the parts of its guarantees that the
document does not number (order per client, no refused retry).

## 4. Runs

| Run | Instance | Question |
|---|---|---|
| `overlap` | 2 clients, 3 ids, limits of 2, page sizes 1 and 2, proposal limits 0 and 2, at most 3 requests and 3 responses | the first eight properties, with overlapping sessions, retries and reordering |
| `pages` | 2 ids, 2 hashes, 2 operations, pages of 1 entry for batches of up to 2 | decisions beyond their page, operations and intents told apart; `IInv` and the refinement |
| `races` | 2 calls at once, 2 clients, 2 ids, 2 requests, batches of 2, pages of 1, 1 retry | the safety properties of the D1 authority, its inductive invariant `D1Inv` and the refinement |
| `ends` | 2 calls at once, 1 request, 2 retries | `CallsEnd` |
| `retry` | as `ends`, 1 retry | `RetryReturnsDecision` is violated, see below |
| `restore` | 3 proposals, two of them for one position; 2 crashes, 1 altered record, each kind of adapter | the properties of the restored authority |
| `client` | 2 tabs, 3 calls of any kind, rounds of 1 entry and 1 proposal, 2 rounds, 2 attempts, 1 entry of another client | the properties of the client |
| `lifecycle` | 2 tabs, one with a client id of its own, 4 opens, 2 deletions, 3 writes | the properties of the lifecycle |
| `triggers` | 1 tab, 2 keys, 1 operation, 1 loss of the network; the worker with background synchronization, or the tab's own effect | the properties of the hooks |
| `route` | 2 clients with one name for two streams, one with the pair of endpoints and 2 operations of size 2 or 3 against a limit of 4, one that pulls from an authority that is kept; conflicts and other errors, 1 fault, 2 attempts of 2 rounds | the properties of the routes |
| `bootstrap` | 3 runs, two under one client id; every content of 2 tables with 2 keys, pages of 1 row, 1 change | the properties of the bootstrap |
| `rows` | 2 clients with 2 operations each, out of 6 valid and 11 invalid ones on 2 tables, one of the valid ones a fraction for a rowid; requests of 2 | the properties of rows |

Bounds. `MaxRequests` and `MaxResponses` bound the distinct messages, not how
often one is delivered: three requests allow an original, an overlapping one of
another tab, and a later one, in any order of arrival; three responses allow a
stale one to meet a record that two others have changed. A batch limit of 2 and
pages of 1 make batches longer than pages; three ids give one client a chain of
two operations beside another client's one. `overlap` has a proposal limit of 0
because `prepareSyncRequest` treats it as a separate case (a pull). Ids and
clients are symmetric.

The states where the system stops are those in which every id is used and every
message bound is reached, and merging an old response is still possible then,
so deadlock stays checked.

Every property has a mutant in `PROJECT.json`: a definition of the model
replaced by one with a plausible bug (a dropped look-up, a page as long as
asked, the last proposals sent instead of the first, ...), under which TLC
finds the property violated. The operators stand beside the definitions they
mutate and no specification uses them.

In `races`, two calls are the smallest number that race, and two requests let a
repeated one meet a different one (the same proposals in another batch, or
another client's); each of the two ids may be in either or both. One retry
lets a call that lost a race read its competitor's rows.

`client` has three calls because a gap between two of them is enough to put a
third one there, and two tabs because sessions of two tabs interleave in the
record; a limit of one entry and one proposal makes several rounds. Its constraint
(`WithinBounds`) follows all attempts and rounds of three events, calls or an entry
of another client, and of four events the first exchanges of each session: a
further exchange differs from a first one only in what is left to try after it.
`lifecycle` has two deletions so that one may wait behind another and behind an
open. In `triggers` one operation is enough to be pending under each key, since a
key may change while it is. In `bootstrap` pages of one row make every row a
step; one change of the tables, of any kind and at any time, is enough to shift
an offset. In `rows`, two operations a client and six drafts give each row a put,
a second put or a delete from either side, before and after confirmation. In
`route` the second client has an empty outbox; its authority is the one whose
failed initialization is kept. A request with proposals to the pull route
(`OnPull`) does not occur in the instance.

In these seven runs deadlock is not checked: applications may stop calling,
their calls are bounded, and an authority whose snapshot is refused stays down.
`NoCallStuck` says for the client what a deadlock would have to tell, and more: a
call that waits needs no step of another client.

**Fairness.**

- `ends`: each call in progress takes its next step, whichever it is (an
  answer, a busy or failing database, a stop). The event loop and the settling
  of each awaited promise justify that; nothing is assumed of which step it is.
- `lifecycle`: the browser serves its queue, delivers versionchange, and ends
  every transaction. Nothing is assumed of the users: no tab need open, write,
  close or crash.
- `triggers`: renders, creations, messages and passes go on. `GoOnline`,
  `WorkerReady` and the sync event are not fair: `PendingDrains` assumes in its
  own statement that the network is back for good.
- `route`: the application goes on calling `sync()`, every exchange ends in some
  way (weak fairness of client and server steps), and an authority that is asked
  again and again decides some time (strong fairness of `Serve`), the condition
  of `docs/architecture/README.md` 276: "if synchronization succeeds
  repeatedly". A restart of the process is never needed.
- `client` needs none: its calls, attempts and rounds are bounded, so a run of
  the instance that goes on ends where nothing is possible, and by `NoCallStuck`
  no call waits there.

**Disagreements of code and documents.** ADR 0004 (line 12) and the README's guarantees say that the
server returns the stored decision on every retry. `retry` shows a retry that
does not get it: a call reads the stream at head 0, the original request
commits at head 1, the call finds the stored decision with sequence 1, stages
nothing, and answers with head 0. `assertSyncResponse` (`next/d1.ts` 506)
throws `MalformedSyncResponseError`, which the commit-retry loop does not
retry, the route turns into status 400, and the client does not retry either.
The tables stay correct (`TablesAgree`) and a later retry succeeds. Two tabs of
one replica that sync at once, or a retry while the first request still runs,
are enough.

These were met while reading the code for the model. No run of the project
states them; where a property would be false, it is stated with the exception:

- `client.ts` 196: a `sync()` in the gap before the finally callback is handed
  the promise that is settling, and no pass follows; `client.ts` 70 says that
  such calls schedule another pass. `SyncDrains` exempts these calls (`late`).
- `client.ts` 189: when a pass fails, calls made during it are rejected with it
  and get no pass of their own, against `README.md` 314.
- `next/d1-bootstrap.ts` 143: a row deleted between two pages moves the offset
  past a row that never changed, and the bootstrap completes without it, against
  `README.md` 454. `InsertionNeverSkips` therefore excludes deletions.
- `indexeddb/open.ts` 64: a database deleted and opened again with the same
  explicit client id numbers its operations from 1 again, against invariant 6 of
  `docs/architecture/README.md` 261. `RandomPositionsFresh` speaks of drawn ids.
- `react/index.ts` 524: the revision last posted to the worker outlives the
  client it belongs to, so that a proposal of a new client may not be posted,
  against `docs/architecture/mechanism-walkthrough.md` 905. `PendingDrains`
  promises the worker's trigger for the first key alone.
- `client.ts` 189-201, 289: a fetch that was under way over an outage, and is
  rejected after the `online` event, is not repeated: the listener's `sync()` was
  handed its promise, a network error is not retried, and the effects have seen
  the revision. The same holds of any answer that is an error and no commit
  conflict. What is pending waits for the next call, against
  `docs/architecture/mechanism-walkthrough.md` 874. `PendingDrains` and
  `PendingNoticed` name such a pass (`forgotten`) and exclude every other way to
  forget.
- `normalization.ts` 168-174: a fraction is a value of an INTEGER column for every
  layer of the adapter. If the column is the rowid of an application's table,
  SQLite refuses the projection and with it the request, again at each retry: the
  client neither sends nor learns anything any more. `QuiescentEqual` names this
  operation as the only one that blocks.
- `next/d1.ts` 920: with a NUMERIC primary key, `1` and `"1"` are two rows of the
  state and one row of the table, against ADR 0010 (54-56). The instance of
  `RowState` has no NUMERIC key.
- `next/server.ts` 355: a database that is still locked after the authority's
  retries is answered with 400, which the client does not retry, against
  `README.md` 315-317. `ConflictRetried` (in `RouteInv`) speaks of the conflict error.
- `next/d1.ts` 267: an authority that is kept keeps the failure of its first
  initialization, against `README.md` 431. `Drains` speaks of authorities
  made per request.
- `server.ts` 361: the constructor checks log and decisions against each other,
  but neither the materialized state nor the operations of restored decisions.
  `RunningHistorySound` (in `RestoreInv`) says what it does check.

## 5. Proofs

Eight modules hold theorems, each for all values of the constants that satisfy
the named assumptions of its model; no bound of the runs is assumed beyond those
assumptions.

| Module | Theorems | Assumptions on the constants |
|---|---|---|
| `SyncSystemProofs` | `Typed`, `Inductive` (`IInv`), `NeverFails`, `PrefixesAgree`, `ExactlyOnce`, `OrderKept`, `NothingLost`, `ToldOnce`, `NeverRevised`, `NeverBack`, `Refines` | `LimitsAssumption` (limits are positive), `OptionsAssumption` |
| `D1Proofs` | `D1Inductive` (`D1Inv`), `TablesAlwaysAgree`, `ClientOrder`, `AnswersAlwaysTrue`, `Accepted`, `RetriesOwed`, `DecidedOnCurrent`, `D1Refines` | `RetriesAssumption`, `PageSizesAssumption`, `LimitsAssumption` |
| `RestoreProofs` | `RestoreInductive` (`RestoreInv`), `RestoreRefines` (`ImplementsDurableLog`) | `LimitsAssumption`, `ProposalsAssumption` |
| `ClientProofs` | `ClientInductive` (`ClientInv`), `ResolvedSyncDrained`, `EnqueuedIsShown`, `NoCallIsStuck` (`NoCallStuck`), `ViewGoesForward` | `CallsAssumption`, `RuntimeAssumption` |
| `DeviceProofs`: the store | `LifecycleInductive` (`LifecycleInv`), `PositionsFresh` | `TabsAssumption`, `BoundsAssumption` |
| `DeviceProofs`: the rows | `ReadersSeeLast` (`LastWriteWins`), `RowsTyped`, `RowsInductive` (`RowInv`), `TablesReadBack` (`TablesHoldState`) | `SchemaAssumption`, `DraftsAssumption`, `RequestLimitAssumption`; `TablesReadBack` supposes `StoredAsGiven` |
| `TriggersProofs` | `TriggersInductive` (`TriggersInv`) | `TriggersAssumption` |
| `RouteProofs` | `RouteInductive` (`RouteInv`), `SettledDecided` | `RouteAssumption` |
| `BootstrapProofs` | `BootstrapInductive` (`BootstrapInv`), `RowsNotSkipped`, `QuietHistoryExact` | `SelectionAssumption`, `BatchAssumption`, `ValuesAssumption` (no content is the mark of a missing row) |

In each but the rows, the invariant that a run checks is the inductive one, so
TLC has tried on an instance what the proof shows for all of them. The safety
invariants and action properties that runs check are all stated by a theorem.

### Replicas and the in-memory authority

The first eight properties of section 3 are not inductive. A replica cannot know
that a merge will succeed from its record alone: it needs that whatever is in
flight was true when it was sent and has stayed true. `IInv` therefore relates

- the log, the decision table and the issued proposals (`LogSound`,
  `DecisionsSound`, `IssuedSound`, `StateSound`), and `DecidedInOrder`:
  everything a client issued before a decided operation is decided too;
- each record with these (`PrefixSound`, `OutboxSound`, `SettledSound`,
  `InboxSound`);
- each request with these: its base is at most its replica's position, and
  every earlier proposal of its client is decided or in the request
  (`RequestSound`), which is what carries `ClientOrderKept` through
  overlapping requests that arrive in any order;
- each response with these (`ResponseSound`): its entries are the log's, its
  decisions are the stored ones, its base is at most its replica's position.

All of it is monotone in the log, the decisions and the positions, which is
why messages of any age stay harmless. `SyncSystemProofs` goes by component:

- the steps of a client: a sound record passes `AssertReplicaRecord`
  (`SoundRecordValid`), so no store update aborts; a sound response never makes
  `mergeSyncResponse` throw (`MergeNotRefused`), and the merged record is sound
  (`MergedRecordSound`);
- a call of the authority: a sound request is never refused
  (`RequestAccepted`), its response passes `assertSyncResponse`
  (`ResponseValid`), and the batch keeps log and table in agreement;
- the composition and the theorems. Sequences are compared element by element
  in `IInv`; the equalities between sequences in `ConfirmedPrefix` and
  `AuthorityPermanent` follow by extensionality.

`Refines` is `Spec => ImplementsCanonicalLog`. The refinement mapping is the
identity on `log`, `decisions` and `authorityState`; a call of `synchronize` is a
step `Decide` with the proposals that were undecided, every other action a
stutter. `IInv` is needed because the abstract step promises that new entries
and new decisions name each other.

### The authority over D1

A call reads the stream row, then the decisions one by one, and others may
commit between any two reads. `D1Inv` says what is left of each read:

- the tables describe one history (`HistorySound`, `EntriesStored`,
  `RowsSound`, `StoredInOrder`);
- requests of any age are honest and responses true (`RequestHonest`,
  `ResponseTrue`);
- of each call: its running state extends the log up to the head it read
  (`StateExtends`); its rows are decisions on a state in between
  (`RowsStaged`), in the clients' order (`StagedInOrder`); each proposal dealt
  with has a row, stored or staged (`DecidedRows`); while nobody has committed,
  what it read is still current (`StillCurrent`); what it committed is in the
  tables (`Published`).

`StagedInOrder` was missing from the first attempt: without it the batch of one
call could swap two operations of a client. Only `CommitBatch` and `LoseCommit`
change the tables. The guard lets a batch through exactly when the head is the
one that was read (`GuardExact`); everything else is monotone in the tables.
`D1Refines` maps the three tables to log, decisions and state of `CanonicalLog`
(`Committed_log`, `Decided_table`, `stream.state`); a batch that commits is one
abstract step, although reads of other calls lie between its own.

### The restored authority

The effect of a batch on log and table is stated once; a snapshot of a sound
history passes the constructor (`SnapshotRestorable`), and what the constructor
lets through is a sound history (`RestoredHistory`), whichever adapter stored
it. `SavedSound` and `ServerContinues`, parts of `RestoreInv` that the other parts
need, say that an atomic adapter holds a history and that the running server
continues it. In `RestoreRefines` saving is the abstract step: the server that is
saved continues the stored log by whole batches.

### The client

`ClientInv` says of each place where a session, a refresh or a call can wait what
is still true of what it has in hand. Every record that was read is `Past`: the
durable record is ahead of it (`Older`), whoever moved it. An answer is a page of
the log as of some time since its basis was read (`AnswerSound`), a refresh holds
what the view does not know better (`RefreshSound`), and a request for a
synchronization that waits is either served by the pass under way, which started
after it, or by the next one (`PassSound`, `CallSound`). Records and authority
only advance, so each step keeps what it does not touch (`StepKeeps`).
`ConfirmedNotPending` is what the page's entries are for: the decisions of an
answer are those its request asked for, and its entries settle the rest.
`ViewGoesForward` also shows that a round followed by another one moved the view:
it was either given a page beyond its basis or had pending operations decided.
The proof needs that an operation which waits for its entry waits for one beyond
the confirmed log, a conjunct of `Known` found that way.

`NoCallIsStuck` rests on `Awaited`: a session at its refresh and a call at its
refresh have an entry in the queue, and a waiting `sync()` has a session. An
entry leaves the queue only when its owner goes on (`QueuesKeep`), a session ends
only with the requests that wait for it (`SessionsKeep`), and nobody begins to
wait for what is not there (`CallsKeep`). A refresh that fails takes its entry
with it and settles its owner, so that the next one has its turn.

### The database's lifecycle

`LifecycleInv` adds to `OneIdentity` what each request in the queue, each
connection and each identity drawn so far knows of the record (`RequestsSound`,
`ConnectionsSound`, `IdentitiesSound`), and that the counters stay within their
bounds. `PositionsFresh` follows from the parts about identities.

### The rows

What readers see is a recursive function of the outbox, and the authority's state
a fold over the log. `RowIInv` speaks of one function `h` of the whole log
(`Replayed`): `h` begins with the empty tables and takes one operation at a time,
the authority is at its end and each client at the point it has confirmed. That
such a function exists for a log or an outbox of any length is an induction over
numbers (`ReplayExists`), taken over the set of those it holds for
(`SetInduction`). `Represents` says what a state is after some operations: it has
a row under exactly the keys whose last operation is a put, and that row.
`ApplyRepresents` shows that `ApplyRowOperation` keeps it, so it holds of each
point of `h` and, beyond, of each optimistic view; with keys told apart by their
encodings (`EncodingTellsKeys`) it is `LastWriteWins`. `SentOwed`, the other part,
counts the entries that a client has sent and not confirmed: with the whole log
confirmed nothing is owed, so that what is first in an outbox was not sent. An
operation in its travelling form is one that the authority normalises to itself,
so a request is blocked by the table or not at all (`QuiescentHolds`); whether the
table refuses any is left open.

One theorem has a hypothesis on the drafts. `StoredAsGiven` (in `TablesReadBack`):
what is bound is what is stored; digits in a NUMERIC column are stored as a number,
which is the disagreement about NUMERIC keys of section 4. The instance of the
run satisfies it (`AsGivenAssumption`).
`TablesHold` is the inductive part of `TablesHoldState`: projecting an operation
does to the rows what applying it does to the state (`ProjectionFollows`).

### The triggers

`HooksSound` is the inductive part of `TriggersInv`: which client a hook has
installed and rendered, and that the revision it has seen is pushed or requested
(`InstalledClient`, `SeenIsPushed`, `FirstKeySeen`). Steps of a client only go
forward (`GoesForward`), the browser and the worker only ask (`OnlyAsks`), and a
render is taken effect by effect (`CommitKeeps`, `EffectsPush`). `PendingNoticed`
follows in every sound state: whatever a tab shows as pending while online is
requested, under way, about to be rendered, in the hands of the worker, or
forgotten by a pass that failed in spite of the network.

### The routes

`RouteInv` says of every client that it waits for an answer exactly while its
request is posted, that the answer belongs to that request, and that an
accepting one carries operations its session's authority has decided. That a
conflict, and only a conflict, arrives as an error the client tries again for
(`ConflictRetried`) is needed in both directions: a pass that ends with a
conflict has used up its attempts because each of them looked like one.
`SettledDecided` then follows a decision through the merge: an operation leaves
the outbox by being in an answer, and decisions are never forgotten, also those
of strays.

### The bootstrap

A batch is refused as a whole if one of its proposals conflicts, and all runs
derive ids from rows, so what a run may append is decided by what is there.
`BootstrapInv` is proved in two layers.

- *Whatever changes.* Every position before the batch of a run is in the log
  (`PositionsReached`), by this run or another one; a batch that is not refused
  repeats what is stored or appends positions that follow it without a gap
  (`PositionsContiguous`), one row once (`PublishedOnce`). Insertions only
  increase the number of rows before a row, so that a row which a run has
  passed stays published or in its batch (`NothingSkipped`), and an empty page
  means that every row was passed. `RowsNotSkipped` and `OneWinner` are that
  conjunct for completed runs: two of them would have published the same row for
  two clients.
- *While nothing changes* (`QuietSteps`). The n-th row has n - 1 rows before it, in
  its own table and in those of the tables before (`Place`); position, offset
  and operation count of a run agree with it, and every proposal is at its place.
  The first client to publish is the only one, its positions are 1, 2, ... in
  the order of the log, so sequence and position are the same number;
  a completed run has counted all rows, and a log that holds no row twice cannot
  be longer than that (`HeadBounded`).

The proofs rest on facts about ranks in finite sets of numbers (`Before`), which
are lemmas at the start of the module; the least and the greatest element come
from `WFMin` of `WellFoundedInduction`.

### Only model-checked

Liveness under fairness: `CallsEnd`, `RequestsEnd`, `PendingDrains`, `Quiesces`,
`Drains`. The prover has no rules for ENABLED, which fairness is made of; for
that reason also `NoCallStuck` names the steps that serve a call instead.

## 6. Not modelled, and the plan

In order of importance:

1. Replicas as a part of `CanonicalLog`'s promise (each one at a position of
   the history), so that the client side refines it too.
2. A stored schema hash that differs, which makes every request to the D1
   authority fail.
3. Larger instances: two tabs and two streams in `SyncTriggers`, a pull with
   proposals in `SyncRoute`, three tabs in `ReplicaLifecycle`.

Left out for good: schema discovery and the command line (build-time,
sequential), JSON encoding and the field-by-field decoding of `wire.ts`
(stateless; their failures are errors of an exchange), fingerprint computation
(a hash names an intent), the request proxy of the service worker (used by no
code of the package), and the example applications.
