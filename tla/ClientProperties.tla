-------------------------- MODULE ClientProperties --------------------------
(***************************************************************************)
(* Properties of the browser client: what its promises mean when they      *)
(* settle, and what its view shows.                                        *)
(***************************************************************************)
EXTENDS ClientRuntime

Operation == 1..Cardinality(Calls)

Attempt == 1..MaximumAttempts

Round == 1..MaximumSyncRounds

\* Every entry of the log belongs to another client or to a call.
Sequence == 0..MaxForeign + Cardinality(Calls)

RecordType ==
    [next : 1..Cardinality(Calls) + 1, confirmed : Sequence,
     pending : SUBSET Operation,
     awaiting : SUBSET [op : Operation, sequence : Sequence \ {0}]]

Decisions == UNION {[ops -> Sequence] : ops \in SUBSET Operation}

AnswerType ==
    [pc : {"merge", "refresh"}, attempt : Attempt, round : Round,
     basis : RecordType, head : Sequence, through : Sequence,
     entries : SUBSET Operation,
     decisions : Decisions]

\* Where a session stands.  A backoff comes before a last attempt.
SessionType ==
    [pc : {"none", "loop"}]
    \cup [pc : {"prepare"}, attempt : Attempt, round : Round]
    \cup [pc : {"exchange"}, attempt : Attempt, round : Round, base : Sequence,
          proposals : SUBSET Operation, basis : RecordType]
    \cup AnswerType
    \cup [pc : {"backoff"}, attempt : 1..MaximumAttempts - 1]
    \cup [pc : {"settling"}, outcome : {"resolved", "rejected"}]

SyncType ==
    [status : {"waiting", "resolved", "rejected"}, kind : {"sync"}, tab : Tabs,
     owed : SUBSET Operation, head : Sequence, late : BOOLEAN]

WriteType ==
    [status : {"waiting", "refreshing", "resolved", "rejected"}, kind : Writes,
     tab : Tabs, op : 0..Cardinality(Calls)]

CallType ==
    [status : {"unused", "refused"}] \cup SyncType \cup WriteType
    \cup [status : {"waiting", "resolved"}, kind : {"close"}, tab : Tabs]

RefreshType ==
    [owner : Calls \cup {SessionOwner}, snapshot : RecordType \cup {Unread}]

ViewType ==
    [phase : {"idle", "syncing", "error", "closed"}, snapshot : RecordType,
     queue : Seq(RefreshType)]

\* The record, the authority, the local state of each client and the calls
\* keep their types, and attempts and rounds stay within the options.
ClientTypeOK ==
    /\ record \in RecordType
    /\ authority \in [head : Sequence, decided : Decisions]
    /\ foreign \in 0..MaxForeign
    /\ closed \in [Tabs -> [client : BOOLEAN, store : BOOLEAN]]
    /\ requested \in [Tabs -> BOOLEAN]
    /\ session \in [Tabs -> SessionType]
    /\ view \in [Tabs -> ViewType]
    /\ calls \in [Calls -> CallType]

-----------------------------------------------------------------------------

Syncs(status) ==
    {calls[call] : call \in {c \in Calls : /\ calls[c].status = status
                                           /\ calls[c].kind = "sync"}}

\* What the request owed when it was made has been settled since.
CaughtUp(call) ==
    /\ Unsettled(record) \cap call.owed = {}
    /\ record.confirmed >= call.head

\* When sync() resolves, every operation that was in the record at the time
\* of the call has its decision and, if accepted, its entry, and the log as
\* of that time is confirmed: whichever pass served the call, whatever other
\* calls and other tabs did meanwhile.  A call that came after the last check
\* of the loop (client.ts:187) and before the finally callback is handed the
\* promise that is settling, and is exempt.
SyncDrains == \A call \in Syncs("resolved") : call.late \/ CaughtUp(call)

\* An enqueue that resolved is shown by the view of its client from then on,
\* as pending or as settled, although refreshes for sessions and other calls
\* read the record at other times (client.ts:147).
ReadYourWrites ==
    \A call \in Calls :
        calls[call].status = "resolved" /\ calls[call].kind = "enqueue" =>
            calls[call].op < view[calls[call].tab].snapshot.next

Older(old, new) ==
    /\ old.next <= new.next
    /\ old.confirmed <= new.confirmed
    /\ \A op \in Unsettled(new) : op < old.next => op \in Unsettled(old)

InSession(tab) ==
    session[tab].pc \in {"prepare", "exchange", "merge", "refresh"}

\* Listeners see "syncing" exactly while a session runs, and a backoff as an
\* error; "closed" is the last phase they see, and no session runs on a
\* closed store (client.ts:157-184, 235-249).
PhaseTrue ==
    \A tab \in Tabs :
        /\ (view[tab].phase = "syncing") = InSession(tab)
        /\ (view[tab].phase = "closed") = closed[tab].store
        /\ session[tab].pc = "backoff" => view[tab].phase = "error"
        /\ session[tab].pc = "loop" => view[tab].phase = "idle"

\* A proposal whose entry the replica has confirmed is no longer pending: it
\* left the outbox with that page, also when the answer did not decide it
\* because its request was read before the enqueue, and another tab's request
\* carried it and lost its answer (replica.ts:314, 334).
ConfirmedNotPending ==
    \A op \in record.pending \cap DOMAIN authority.decided :
        authority.decided[op] = Rejected \/ authority.decided[op] > record.confirmed

AnotherRound(tab) ==
    session[tab].pc = "refresh" /\ session'[tab].pc = "prepare"

\* The view of a client never goes back to an older record, although
\* refreshes for the session and for several calls are awaited separately
\* (replica-view.ts:95); and a round that is followed by another one moved
\* it, or some other tab did: a session whose exchanges succeed does not use
\* up its rounds on a record that stands still (sync-session.ts:38).
ViewForward ==
    [][\A tab \in Tabs :
          /\ Older(view[tab].snapshot, view'[tab].snapshot)
          /\ AnotherRound(tab) =>
                 view'[tab].snapshot # session[tab].basis]_vars

(* The rest of the inductive invariant. *)

\* The operations of a record were numbered before it was read, its positions
\* handed out by the authority, and what it awaits has not been confirmed.
Known(rec) ==
    /\ Unsettled(rec) \subseteq 1..rec.next - 1
    /\ rec.confirmed <= authority.head
    /\ \A receipt \in rec.awaiting :
           rec.confirmed < receipt.sequence /\ receipt.sequence <= authority.head

\* A record that was read at some time.
Past(rec) == Known(rec) /\ Older(rec, record)

Made(call) == calls[call].status \notin {"unused", "refused"}

\* The enqueues whose operation has been numbered.
Stored ==
    {call \in Calls : Made(call) /\ calls[call].kind = "enqueue"
                          /\ calls[call].op # 0}

\* Each number belongs to one enqueue, also one that failed in its refresh, and
\* none is pending whose entry is confirmed.
RecordSound ==
    /\ Known(record)
    /\ ConfirmedNotPending
    /\ record.next = Cardinality(Stored) + 1
    /\ authority.head <= foreign + Cardinality(DOMAIN authority.decided)
    /\ \A op \in DOMAIN authority.decided :
           op < record.next /\ authority.decided[op] <= authority.head

\* The answer is to a request that was read from its basis, and is a page
\* of the log as it was between then and now.
AnswerSound(answer) ==
    /\ Past(answer.basis)
    /\ DOMAIN answer.decisions = FirstPending(answer.basis)
    /\ answer.basis.confirmed <= answer.head
    /\ answer.head <= authority.head
    /\ \A receipt \in answer.basis.awaiting : receipt.sequence <= answer.head
    /\ \A op \in DOMAIN answer.decisions : answer.decisions[op] <= answer.head
    /\ answer.through = PageEnd(answer.basis.confirmed, answer.head)
    /\ answer.entries = PageEntries(authority.decided, answer.basis.confirmed,
                                    answer.through)

\* The record has taken the answer in.
Taken(answer, rec) ==
    /\ answer.through <= rec.confirmed
    /\ rec.pending \cap DOMAIN answer.decisions = {}

SessionSound(tab) ==
    /\ session[tab].pc = "exchange" =>
           /\ Past(session[tab].basis)
           /\ session[tab].base = session[tab].basis.confirmed
           /\ session[tab].proposals = FirstPending(session[tab].basis)
    /\ session[tab].pc \in {"merge", "refresh"} => AnswerSound(session[tab])
    /\ session[tab].pc = "refresh" => Taken(session[tab], record)

\* A client closes before its store, and its store after its last session.
ClosedSound(tab) ==
    closed[tab].store => closed[tab].client /\ session[tab].pc = "none"

\* A refresh that has read has what the view does not know better; it belongs
\* to a session that waits for it or to one call.
RefreshSound(tab, refresh) ==
    /\ refresh.snapshot # Unread =>
           /\ Past(refresh.snapshot)
           /\ Older(view[tab].snapshot, refresh.snapshot)
    /\ refresh.owner = SessionOwner =>
           /\ session[tab].pc = "refresh"
           /\ refresh.snapshot # Unread => Taken(session[tab], refresh.snapshot)
    /\ refresh.owner # SessionOwner =>
           /\ calls[refresh.owner].status = "refreshing"
           /\ calls[refresh.owner].tab = tab
           /\ refresh.snapshot # Unread =>
                  calls[refresh.owner].op < refresh.snapshot.next

\* Only the first refresh has read, and no two belong to one owner.
ViewSound(tab) ==
    /\ Past(view[tab].snapshot)
    /\ \A i, j \in DOMAIN view[tab].queue :
           /\ RefreshSound(tab, view[tab].queue[i])
           /\ view[tab].queue[i].snapshot # Unread => i = 1
           /\ view[tab].queue[i].owner = view[tab].queue[j].owner => i = j

\* A write has its operation when its transaction is over; a close is one of
\* a closed client; a request knows what the record and the log had.
CallSound(call) ==
    Made(call) =>
        /\ calls[call].kind \in Writes =>
               /\ calls[call].op < record.next
               /\ calls[call].status = "waiting" => calls[call].op = 0
        /\ calls[call].kind = "close" => closed[calls[call].tab].client
        /\ calls[call].kind = "sync" =>
               /\ calls[call].owed \subseteq 1..record.next - 1
               /\ calls[call].head <= authority.head

\* What a pass has done for a request that it will resolve: from the answer
\* on its page reaches the end of the log of that time, a snapshot has the
\* operations owed, and at the end of the loop nothing is owed any more.
PassSound(tab) ==
    \A call \in Waiting(tab, "sync") :
        /\ ~ requested[tab] =>
               /\ session[tab].pc \in {"merge", "refresh"} =>
                      calls[call].head <= session[tab].head
               /\ \A i \in DOMAIN view[tab].queue :
                      /\ view[tab].queue[i].owner = SessionOwner
                      /\ view[tab].queue[i].snapshot # Unread
                      => \A op \in calls[call].owed :
                             op < view[tab].queue[i].snapshot.next
               /\ session[tab].pc = "loop" => CaughtUp(calls[call])
        /\ session[tab] = Settled("resolved") =>
               calls[call].late \/ CaughtUp(calls[call])

\* What holds between any two awaits: types, phases, what is still pending, and
\* what sessions, refreshes and calls have in hand.
ClientInv ==
    /\ ClientTypeOK
    /\ PhaseTrue
    /\ RecordSound
    /\ \A tab \in Tabs : /\ SessionSound(tab)
                         /\ ClosedSound(tab)
                         /\ ViewSound(tab)
                         /\ PassSound(tab)
    /\ \A call \in Calls : CallSound(call)

RefreshQueued(tab, owner) ==
    \E i \in DOMAIN view[tab].queue : view[tab].queue[i].owner = owner

\* The first refresh of the queue can be read, fail or be shown.
QueueCanMove(tab) == \E i \in DOMAIN view[tab].queue : InTurn(tab, i)

\* A session has a step of its own, or its refresh gets its turn.
SessionCanMove(tab) ==
    IF session[tab].pc = "refresh"
    THEN RefreshQueued(tab, SessionOwner) /\ QueueCanMove(tab)
    ELSE Running(tab)

\* Every call settles: whatever other clients do or leave undone, a call that
\* waits has a step of its own, or its own client's session or queue of
\* refreshes has one and still knows of it.  No promise is lost of which
\* nobody is left to settle it, and close, which waits for the session, which
\* waits for its refresh, is not itself waited for (client.ts:235-249).
NoCallStuck ==
    \A call \in Calls :
        LET tab == calls[call].tab IN
        /\ calls[call].status = "refreshing" =>
               RefreshQueued(tab, call) /\ QueueCanMove(tab)
        /\ calls[call].status = "waiting" =>
               \/ calls[call].kind \in Writes
               \/ calls[call].kind = "sync" /\ SessionCanMove(tab)
               \/ calls[call].kind = "close" /\ (MayClose(tab) \/ SessionCanMove(tab))
=============================================================================
