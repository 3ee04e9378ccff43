--------------------------- MODULE ClientRuntime ---------------------------
(***************************************************************************)
(* The browser client, src/client/client.ts with its sync sessions         *)
(* (sync-session.ts) and its view (replica-view.ts), in tabs that share    *)
(* one durable record.                                                     *)
(*                                                                         *)
(* A JavaScript function runs without interruption up to its next await,   *)
(* so each stretch between awaits is one action, and calls of the          *)
(* application may come between any two.  Promises that settle one after   *)
(* the other without anything observable in between are one action.        *)
(*                                                                         *)
(* The record and the authority are kept as far as a session can tell      *)
(* their states apart; Replica and LogServer have them in full.  The       *)
(* operations of the record's client are named by their client sequence.   *)
(***************************************************************************)
EXTENDS Integers, Sequences, FiniteSets, SequencesExt

CONSTANTS
    Tabs,               \* clients open on the same stream and record
    Calls,              \* bound: calls the applications make, 1..n
    MaximumEntries,     \* option: entries asked for in a round
    MaximumProposals,   \* option: proposals sent in a round
    MaximumSyncRounds,  \* option: rounds of a session
    MaximumAttempts,    \* option of the retry policy
    MaxForeign          \* bound: entries that other clients append

ASSUME CallsAssumption == IsFiniteSet(Calls) /\ Calls \subseteq Nat \ {0}

ASSUME RuntimeAssumption ==
    /\ {MaximumEntries, MaximumProposals, MaximumSyncRounds,
        MaximumAttempts} \subseteq Nat \ {0}
    /\ MaxForeign \in Nat

VARIABLES
    record,     \* the durable record
    authority,  \* its head, and the decisions on the record's operations
    foreign,    \* entries appended by other clients
    closed,     \* "closed" of each client, and whether its store is
    requested,  \* "syncRequested" of each client
    session,    \* what "syncPromise" of each client stands for
    view,       \* the cached snapshot, and the queue of its refreshes
    calls       \* calls of the applications

durable == <<record, authority, foreign>>
vars == <<record, authority, foreign, closed, requested, session, view, calls>>

NoSession == [pc |-> "none"]

\* In place of a snapshot: no record has this sequence.
Unread == [next |-> 0]

NoCall == [status |-> "unused"]

Init ==
    /\ record = [next |-> 1, confirmed |-> 0, pending |-> {}, awaiting |-> {}]
    /\ authority = [head |-> 0, decided |-> [op \in {} |-> 0]]
    /\ foreign = 0
    /\ closed = [tab \in Tabs |-> [client |-> FALSE, store |-> FALSE]]
    /\ requested = [tab \in Tabs |-> FALSE]
    /\ session = [tab \in Tabs |-> NoSession]
    /\ view = [tab \in Tabs |-> [phase |-> "idle", snapshot |-> record,
                                 queue |-> <<>>]]
    /\ calls = [call \in Calls |-> NoCall]

-----------------------------------------------------------------------------
(* The record and the authority, as a session sees them. *)

Rejected == 0

\* The operations whose decision or entry the record still waits for.
Unsettled(rec) == rec.pending \cup {receipt.op : receipt \in rec.awaiting}

\* The first proposals of the outbox.
FirstPending(rec) ==
    {op \in rec.pending :
        Cardinality({earlier \in rec.pending : earlier < op})
            < MaximumProposals}

\* The authority accepts some of the proposals it has not decided yet, each
\* at the position after the one before.
DecidedWith(proposals, accepted) ==
    [op \in DOMAIN authority.decided \cup proposals |->
        IF op \in DOMAIN authority.decided THEN authority.decided[op]
        ELSE IF op \in accepted
        THEN authority.head + Cardinality({o \in accepted : o <= op})
        ELSE Rejected]

\* Mutant: the page leaves out its last entry.
PageEndExclusive(base, head) ==
    Max({base, Min({base + MaximumEntries, head}) - 1})

PageEnd(base, head) == Min({base + MaximumEntries, head})

\* The operations of this record among the entries after "base" up to the end
\* of the page.
PageEntries(decided, base, through) ==
    {op \in DOMAIN decided : base < decided[op] /\ decided[op] <= through}

\* The receipts that the decisions of an answer leave in the outbox.
Receipts(rec, response) ==
    rec.awaiting \cup
        {[op |-> op, sequence |-> response.decisions[op]] :
            op \in {o \in rec.pending \cap DOMAIN response.decisions :
                       response.decisions[o] # Rejected}}

\* Mutant: an entry resolves the receipt of its proposal, never a pending one.
MergedByDecisions(rec, response) ==
    LET confirmed == Max({rec.confirmed, response.through})
    IN  [rec EXCEPT !.confirmed = confirmed,
                    !.pending = @ \ DOMAIN response.decisions,
                    !.awaiting = {receipt \in Receipts(rec, response) :
                                     receipt.sequence > confirmed}]

\* mergeSyncResponse: decided proposals leave the outbox, except that an
\* accepted one waits for its entry; so does every proposal whose entry is on
\* the page, also one that the answer does not decide.
Merged(rec, response) ==
    LET confirmed == Max({rec.confirmed, response.through})
    IN  [rec EXCEPT !.confirmed = confirmed,
                    !.pending = @ \ (DOMAIN response.decisions \cup response.entries),
                    !.awaiting = {receipt \in Receipts(rec, response) :
                                     /\ receipt.op \notin response.entries
                                     /\ receipt.sequence > confirmed}]

\* Another client's operation enters the log.
AppendForeign ==
    /\ foreign < MaxForeign
    /\ foreign' = foreign + 1
    /\ authority' = [authority EXCEPT !.head = @ + 1]
    /\ UNCHANGED <<record, closed, requested, session, view, calls>>

-----------------------------------------------------------------------------
(* The view.  A refresh reads the record and then shows what it read; each *)
(* one starts when the one before it is done.                              *)

SessionOwner == 0

RefreshFor(tab, owner) ==
    view' = [view EXCEPT ![tab].queue =
                Append(@, [owner |-> owner, snapshot |-> Unread])]

\* Mutant: refreshes overlap.
InTurnAtOnce(tab, i) == i \in DOMAIN view[tab].queue

InTurn(tab, i) == i = 1

Reject(call) == calls' = [calls EXCEPT ![call].status = "rejected"]

Resolve(call) == calls' = [calls EXCEPT ![call].status = "resolved"]

ReadView(tab) ==
    \E i \in DOMAIN view[tab].queue :
        /\ InTurn(tab, i)
        /\ view[tab].queue[i].snapshot = Unread
        /\ ~ closed[tab].store
        /\ view' = [view EXCEPT ![tab].queue[i].snapshot = record]
        /\ UNCHANGED <<durable, closed, requested, session, calls>>

\* A transaction may fail at any time: its connection was closed, by this
\* client or by a deletion in another tab, or it was aborted.  Nothing has
\* changed then.  This refresh fails with it, and the next one has its turn.
FailRefresh(tab) ==
    \E i \in DOMAIN view[tab].queue :
        /\ InTurn(tab, i)
        /\ view[tab].queue[i].snapshot = Unread
        /\ view[tab].queue[i].owner # SessionOwner
        /\ view' = [view EXCEPT ![tab].queue = RemoveAt(@, i)]
        /\ Reject(view[tab].queue[i].owner)
        /\ UNCHANGED <<durable, closed, requested, session>>

Ready(tab, i) == InTurn(tab, i) /\ view[tab].queue[i].snapshot # Unread

Show(tab, i, phase) ==
    view' = [view EXCEPT
               ![tab].phase = phase,
               ![tab].snapshot = view[tab].queue[i].snapshot,
               ![tab].queue = RemoveAt(@, i)]

\* The refresh of an enqueue or an acknowledgement: that call returns.
ShowForCall(tab) ==
    \E i \in DOMAIN view[tab].queue :
        /\ Ready(tab, i)
        /\ view[tab].queue[i].owner # SessionOwner
        /\ Show(tab, i, view[tab].phase)
        /\ Resolve(view[tab].queue[i].owner)
        /\ UNCHANGED <<durable, closed, requested, session>>

-----------------------------------------------------------------------------
(* A pass: attempts of one sync session each. *)

Phase(tab, phase) == view' = [view EXCEPT ![tab].phase = phase]

Running(tab) == session[tab].pc # "none"

Become(tab, next) == session' = [session EXCEPT ![tab] = next]

Settled(outcome) == [pc |-> "settling", outcome |-> outcome]

\* performSync: a closed client refuses, whatever the pass was for.
BeginAttempt(tab, attempt) ==
    IF closed[tab].client
    THEN /\ Become(tab, Settled("rejected"))
         /\ UNCHANGED view
    ELSE /\ Become(tab, [pc |-> "prepare", attempt |-> attempt, round |-> 1])
         /\ Phase(tab, "syncing")

\* prepareSyncRequest.  "basis" is a history field: the record it was read
\* from.
Prepare(tab) ==
    /\ session[tab].pc = "prepare"
    /\ Become(tab, [pc |-> "exchange", attempt |-> session[tab].attempt,
                    round |-> session[tab].round,
                    base |-> record.confirmed,
                    proposals |-> FirstPending(record),
                    basis |-> record])
    /\ UNCHANGED <<durable, closed, requested, view, calls>>

DecidedBy(accepted, proposals) ==
    authority' = [head |-> authority.head + Cardinality(accepted),
                  decided |-> DecidedWith(proposals, accepted)]

\* What the authority may accept of a request.
Undecided(proposals) == proposals \ DOMAIN authority.decided

\* The authority answers, and the answer arrives.
Exchange(tab) ==
    LET request == session[tab] IN
    /\ request.pc = "exchange"
    /\ \E accepted \in SUBSET Undecided(request.proposals) :
        /\ DecidedBy(accepted, request.proposals)
        /\ Become(tab, [pc |-> "merge", attempt |-> request.attempt,
                        round |-> request.round, basis |-> request.basis,
                        head |-> authority'.head,
                        through |-> PageEnd(request.base, authority'.head),
                        entries |-> PageEntries(authority'.decided, request.base,
                                       PageEnd(request.base, authority'.head)),
                        decisions |-> [op \in request.proposals |->
                                          authority'.decided[op]]])
    /\ UNCHANGED <<record, foreign, closed, requested, view, calls>>

LastAttempt(attempt) == attempt = MaximumAttempts

\* The session throws.  A conflict is tried again later.
Throw(tab, retryable) ==
    /\ Become(tab, IF retryable /\ ~ LastAttempt(session[tab].attempt)
                   THEN [pc |-> "backoff", attempt |-> session[tab].attempt]
                   ELSE Settled("rejected"))
    /\ Phase(tab, "error")

\* The authority gave up on a conflict: a route answer with "sync-conflict".
Conflict(tab) ==
    /\ session[tab].pc = "exchange"
    /\ Throw(tab, TRUE)
    /\ UNCHANGED <<durable, closed, requested, calls>>

\* Any other error of the exchange, before the authority or after it.
FailExchange(tab) ==
    /\ session[tab].pc = "exchange"
    /\ Throw(tab, FALSE)
    /\ \/ UNCHANGED authority
       \/ \E accepted \in SUBSET Undecided(session[tab].proposals) :
              DecidedBy(accepted, session[tab].proposals)
    /\ UNCHANGED <<record, foreign, closed, requested, calls>>

Retry(tab) ==
    /\ session[tab].pc = "backoff"
    /\ BeginAttempt(tab, session[tab].attempt + 1)
    /\ UNCHANGED <<durable, closed, requested, calls>>

\* mergeSyncResponse, into the record as it is by now.
Merge(tab) ==
    /\ session[tab].pc = "merge"
    /\ record' = Merged(record, session[tab])
    /\ Become(tab, [session[tab] EXCEPT !.pc = "refresh"])
    /\ RefreshFor(tab, SessionOwner)
    /\ UNCHANGED <<authority, foreign, closed, requested, calls>>

\* The transaction that reads the request or merges the answer fails.
FailStore(tab) ==
    /\ session[tab].pc \in {"prepare", "merge"}
    /\ Throw(tab, FALSE)
    /\ UNCHANGED <<durable, closed, requested, calls>>

\* The refresh after a merge fails: the merge stays.
FailSessionRefresh(tab) ==
    \E i \in DOMAIN view[tab].queue :
        /\ InTurn(tab, i)
        /\ view[tab].queue[i].snapshot = Unread
        /\ view[tab].queue[i].owner = SessionOwner
        /\ view' = [view EXCEPT ![tab].phase = "error",
                                ![tab].queue = RemoveAt(@, i)]
        /\ Become(tab, Settled("rejected"))
        /\ UNCHANGED <<durable, closed, requested, calls>>

\* Mutant: the outbox is not looked at.
DrainedOfPages(answer, snapshot) == answer.through = answer.head

\* No later page, nothing pending, and no receipt that waits for its entry.
Drained(answer, snapshot) ==
    answer.through = answer.head /\ Unsettled(snapshot) = {}

\* The refresh of the session shows its record: done, or another round.
ShowForSession(tab) ==
    \E i \in DOMAIN view[tab].queue :
        LET answer == session[tab]
            snapshot == view[tab].queue[i].snapshot IN
        /\ Ready(tab, i)
        /\ view[tab].queue[i].owner = SessionOwner
        /\ IF Drained(answer, snapshot)
           THEN /\ Show(tab, i, "idle")
                /\ Become(tab, [pc |-> "loop"])
           ELSE IF answer.round = MaximumSyncRounds
           THEN /\ Show(tab, i, "error")
                /\ Become(tab, Settled("rejected"))
           ELSE /\ Show(tab, i, view[tab].phase)
                /\ Become(tab, [pc |-> "prepare", attempt |-> answer.attempt,
                                round |-> answer.round + 1])
        /\ UNCHANGED <<durable, closed, requested, calls>>

-----------------------------------------------------------------------------
(* The scheduler. *)

Waiting(tab, kind) ==
    {call \in Calls : /\ calls[call].status = "waiting"
                      /\ calls[call].kind = kind
                      /\ calls[call].tab = tab}

\* runRequestedSync, back at the head of its loop.
Loop(tab) ==
    /\ session[tab].pc = "loop"
    /\ requested' = [requested EXCEPT ![tab] = FALSE]
    /\ IF requested[tab]
       THEN BeginAttempt(tab, 1)
       ELSE Become(tab, Settled("resolved")) /\ UNCHANGED view
    /\ UNCHANGED <<durable, closed, calls>>

\* The finally callback: the promise is forgotten, and those who wait for it
\* go on.
Settle(tab) ==
    /\ session[tab].pc = "settling"
    /\ calls' = [call \in Calls |->
                    IF call \in Waiting(tab, "sync")
                    THEN [calls[call] EXCEPT !.status = session[tab].outcome]
                    ELSE calls[call]]
    /\ Become(tab, NoSession)
    /\ UNCHANGED <<durable, closed, requested, view>>

\* Calls are named in the order they are made.
NextCall(call) ==
    /\ calls[call] = NoCall
    /\ \A earlier \in Calls : earlier < call => calls[earlier] # NoCall

\* assertOpen: a closed client takes no call.
Refused(call) == calls' = [calls EXCEPT ![call] = [status |-> "refused"]]

\* History of a request: what its record waited for, how far the log was,
\* and whether the promise it is given was settling already.
SyncCall(tab) ==
    [status |-> "waiting", kind |-> "sync", tab |-> tab,
     owed |-> Unsettled(record), head |-> authority.head,
     late |-> session[tab].pc = "settling"]

\* requestSync: the first pass begins within the call.
RequestSync(call, tab) ==
    /\ NextCall(call)
    /\ IF closed[tab].client
       THEN Refused(call) /\ UNCHANGED <<requested, session, view>>
       ELSE /\ requested' = [requested EXCEPT ![tab] = Running(tab)]
            /\ calls' = [calls EXCEPT ![call] = SyncCall(tab)]
            /\ IF Running(tab) THEN UNCHANGED <<session, view>>
               ELSE BeginAttempt(tab, 1)
    /\ UNCHANGED <<durable, closed>>

-----------------------------------------------------------------------------
(* Enqueue, acknowledge and close. *)

Writes == {"enqueue", "acknowledge"}

\* Up to the first await: an enqueue hashes its intent.
Write(call, tab, kind) ==
    /\ NextCall(call)
    /\ IF closed[tab].client
       THEN Refused(call)
       ELSE calls' = [calls EXCEPT ![call] =
                         [status |-> "waiting", kind |-> kind, tab |-> tab,
                          op |-> 0]]
    /\ UNCHANGED <<durable, closed, requested, session, view>>

WaitingWrite(call) ==
    calls[call].status = "waiting" /\ calls[call].kind \in Writes

\* The transaction of the store, and the refresh asked for.  Which outcomes
\* are acknowledged is not told apart here.
Store(call) ==
    /\ WaitingWrite(call)
    /\ ~ closed[calls[call].tab].store
    /\ IF calls[call].kind = "enqueue"
       THEN /\ record' = [record EXCEPT !.next = @ + 1,
                                        !.pending = @ \cup {record.next}]
            /\ calls' = [calls EXCEPT ![call].status = "refreshing",
                                      ![call].op = record.next]
       ELSE /\ calls' = [calls EXCEPT ![call].status = "refreshing"]
            /\ UNCHANGED record
    /\ RefreshFor(calls[call].tab, call)
    /\ UNCHANGED <<authority, foreign, closed, requested, session>>

\* The transaction fails.
FailWrite(call) ==
    /\ WaitingWrite(call)
    /\ Reject(call)
    /\ UNCHANGED <<durable, closed, requested, session, view>>

Close(call, tab) ==
    /\ NextCall(call)
    /\ calls' = [calls EXCEPT ![call] =
                    [status |-> IF closed[tab].client THEN "resolved"
                                ELSE "waiting",
                     kind |-> "close", tab |-> tab]]
    /\ closed' = [closed EXCEPT ![tab].client = TRUE]
    /\ UNCHANGED <<durable, requested, session, view>>

\* Mutant: close waits until no request is left, also one that no pass will serve.
MayCloseUnrequested(tab) == ~ Running(tab) /\ ~ requested[tab]

MayClose(tab) == ~ Running(tab)

\* The store and the view are closed when the promise has settled.
CloseStore(call) ==
    /\ calls[call].status = "waiting"
    /\ calls[call].kind = "close"
    /\ MayClose(calls[call].tab)
    /\ closed' = [closed EXCEPT ![calls[call].tab].store = TRUE]
    /\ Phase(calls[call].tab, "closed")
    /\ Resolve(call)
    /\ UNCHANGED <<durable, requested, session>>

-----------------------------------------------------------------------------

ApplicationStep ==
    \E call \in Calls, tab \in Tabs :
        \/ RequestSync(call, tab)
        \/ \E kind \in Writes : Write(call, tab, kind)
        \/ Close(call, tab)

SessionStep(tab) ==
    \/ Prepare(tab)
    \/ Exchange(tab)
    \/ Conflict(tab)
    \/ FailExchange(tab)
    \/ Retry(tab)
    \/ Merge(tab)
    \/ FailStore(tab)
    \/ Loop(tab)
    \/ Settle(tab)

ViewStep(tab) ==
    \/ ReadView(tab)
    \/ FailRefresh(tab)
    \/ FailSessionRefresh(tab)
    \/ ShowForCall(tab)
    \/ ShowForSession(tab)

CallStep(call) == Store(call) \/ FailWrite(call) \/ CloseStore(call)

Next ==
    \/ \E tab \in Tabs : ViewStep(tab) \/ SessionStep(tab)
    \/ \E call \in Calls : CallStep(call)
    \/ ApplicationStep
    \/ AppendForeign

Spec == Init /\ [][Next]_vars
=============================================================================
