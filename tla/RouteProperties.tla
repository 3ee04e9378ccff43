--------------------------- MODULE RouteProperties ---------------------------
(* What a client may rely on across its transport, the routes and an authority. *)
EXTENDS SyncRoute

PassRecord ==
    [phase : {"idle", "ready", "posted", "waiting"},
     attempt : 0 .. MaximumAttempts - 1, round : 0 .. MaximumSyncRounds - 1]

AnswerCauses == AuthorityErrors \union {"none", "spoilt", "too-large", "bad-request"}
EndCauses == AnswerCauses \union {"rounds", "network", "protocol"}

EndRecord == [cause : EndCauses, attempt : 0 .. MaximumAttempts - 1]

(* Every pass and every operation waiting to be decided is one the code can produce. *)
RouteTypeOK ==
    /\ issued \in [Clients -> Nat] /\ pass \in [Clients -> PassRecord]
    /\ ended \in [Clients -> EndRecord]
    /\ DOMAIN outbox = Clients /\ DOMAIN posted = Clients /\ DOMAIN answer = Clients
    /\ DOMAIN decided = Streams
    /\ \A c \in Clients : \A op \in outbox[c] : op.client = c /\ op.number \in 1 .. issued[c]

(* store.ts and transport.ts:90-99: a request on its way was made by its client for the       *)
(* stream it asks for, and a client waits for an answer exactly while one is posted.          *)
RequestsSound ==
    \A c \in Clients :
        /\ (posted[c] # None) <=> (pass[c].phase = "posted")
        /\ posted[c] # None => posted[c].client = c /\ posted[c].stream = Requested[c]

(* server.ts:165-184 and 284-305: an answer belongs to the request its client waits for; it   *)
(* says that operations are decided only when the authority of the session's stream has       *)
(* decided them.                                                                              *)
AnswersSound ==
    \A c \in Clients : answer[c] # NoAnswer =>
        /\ posted[c] # None
        /\ answer[c].cause \in AnswerCauses
        /\ answer[c].status = 200 =>
              answer[c].stream = Requested[c] /\ answer[c].decided \subseteq decided[Resolved[c]]

(* server.ts:318-361 and client.ts:262-300: a pass ends with the authority's commit conflict *)
(* only when all its attempts met one; and only a conflict uses an attempt up.               *)
ConflictRetried ==
    \A c \in Clients :
        /\ ended[c].cause = "conflict" => ended[c].attempt = MaximumAttempts - 1
        /\ answer[c] # NoAnswer => (IsRetryableSyncError(answer[c]) <=> answer[c].cause = "conflict")

(* store.ts and server.ts:154-165: what has left an outbox has been decided by the authority *)
(* of the stream the session resolves to, whatever was lost, spoilt or answered late.        *)
SettledIsDecided ==
    \A c \in Clients :
        \A n \in 1 .. issued[c] :
            (\A op \in outbox[c] : op.number # n)
                => \E op \in decided[Resolved[c]] : op.client = c /\ op.number = n

(* server.ts:145-166 and sync-session.ts:70-87: a stream named differently inside the server *)
(* never makes a client refuse an answer to its own request.                                 *)
AnswersTaken == \A c \in Clients : ended[c].cause # "protocol"

\* Its requests reach an authority, and one whose failure is not kept.
Drainable(c) == Urls[c] # "pull" /\ Resolved[c] \notin CachedStreams

\* What the client would send next is more than the route's limit.
OverLimit(c) == Bytes(Proposals(c)) > MaximumRequestBytes

(* What holds between any two steps of clients, routes and authorities. *)
RouteInv == RouteTypeOK /\ RequestsSound /\ AnswersSound /\ ConflictRetried /\ AnswersTaken

(* server.ts:187-282, sync-session.ts:40 and d1.ts:264-269: repeated passes empty the outbox,  *)
(* unless the first proposals are more than the route's limit; then the same request is       *)
(* refused for ever.  Where an authority is made anew for each request, a first               *)
(* initialisation that fails, however often, does not keep the tables from being made         *)
(* (README.md:431).                                                                            *)
Drains ==
    \A c \in Clients : Drainable(c) =>
        /\ <>(created \/ OverLimit(c))
        /\ <>[](outbox[c] = {} \/ OverLimit(c))
=============================================================================
