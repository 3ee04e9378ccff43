------------------------------ MODULE SyncRoute ------------------------------
(*****************************************************************************)
(* A synchronisation pass over HTTP: the client's transport and its retries, *)
(* the pull and push routes, the choice of stream and authority, and the way *)
(* an authority's error becomes a status and a code and then the client's    *)
(* decision to try again or to fail.  An exchange decides all its proposals  *)
(* or none; D1Authority says how.  Pages of entries are SyncSystem's.        *)
(*****************************************************************************)
EXTENDS Integers, FiniteSetsExt

CONSTANTS
    Clients,
    Urls,                   \* client -> "split", or the one url it posts to: "push", "pull"
    Requested,              \* client -> the stream it asks for
    Resolved,               \* client -> the stream its session's requests resolve to
    Errors,                 \* the AuthorityErrors of the instance
    Sizes,                  \* bytes of an operation
    MaximumRequestBytes,    \* maximumRequestBytes
    MaximumProposals,       \* maximumProposals
    MaximumSyncRounds,      \* maximumSyncRounds
    MaximumAttempts,        \* maximumAttempts of the retry policy
    CachedStreams,          \* streams whose authority the process keeps; others get one per request
    MaxOperations,          \* bound: operations of each client
    MaxFaults               \* bound: connections lost and answers spoilt

\* What an authority throws: the classes of StatusForError, and what is none of them.
AuthorityErrors ==
    {"future-base", "identity", "intent", "client-sequence", "conflict", "locked",
     "projection", "storage", "database"}

ASSUME RouteAssumption ==
    /\ {MaximumRequestBytes, MaximumProposals, MaximumSyncRounds, MaximumAttempts}
          \subseteq Nat \ {0}
    /\ \A c \in Clients : MaxOperations[c] \in Nat /\ Urls[c] \in {"split", "push", "pull"}
    /\ Errors \subseteq AuthorityErrors

VARIABLES
    issued,     \* client -> how many operations it has enqueued
    outbox,     \* client -> its set of undecided operations: [client, number, bytes]
    pass,       \* client -> [phase, attempt, round]; phase idle, ready, posted or waiting
    ended,      \* client -> [cause, attempt] of the pass it has just ended
    posted,     \* client -> the request it awaits an answer to
    strays,     \* requests whose client has given up on the answer
    answer,     \* client -> the response on its way
    decided,    \* stream -> the operations its authority has decided
    authority,  \* stream -> the state of the process's cached authority
    created,    \* the sync tables exist
    faults

vars == <<issued, outbox, pass, ended, posted, strays, answer, decided, authority, created, faults>>
clientVars == <<issued, outbox, pass, ended>>
serverVars == <<decided, authority, created>>

None == [client |-> "none"]
NoAnswer == [status |-> 0]
NotEnded == [cause |-> "none", attempt |-> 0]
Idle == [phase |-> "idle", attempt |-> 0, round |-> 0]

Bytes(operations) == MapThenSumSet(LAMBDA op : op.bytes, operations)

(* The client's side. *)

\* The first of the outbox, which is in the order of the operations' numbers.
Proposals(c) ==
    {op \in outbox[c] : Cardinality({p \in outbox[c] : p.number < op.number}) < MaximumProposals}

Endpoint(c, proposals) ==
    IF Urls[c] # "split" THEN Urls[c] ELSE IF proposals = {} THEN "pull" ELSE "push"

Request(c) ==
    [client |-> c, endpoint |-> Endpoint(c, Proposals(c)),
     stream |-> Requested[c], proposals |-> Proposals(c)]

(* The server's side. *)

\* Mutant: a body of exactly the limit is too large.
TooLargeAtLimit(request) == Bytes(request.proposals) >= MaximumRequestBytes

TooLarge(request) == Bytes(request.proposals) > MaximumRequestBytes

OnPull(request) == request.endpoint = "pull" /\ request.proposals # {}

\* Mutant: the authority is that of the stream the client names.
NamedStream(request) == request.stream

ResolveStream(request) == Resolved[request.client]

StatusForError(error) ==
    CASE error = "too-large" -> 413
      [] error = "bad-request" -> 400
      [] error \in {"future-base", "identity", "intent", "client-sequence"} -> 409
      [] error = "conflict" -> 409
      [] error \in {"locked", "projection", "storage"} -> 400
      [] OTHER -> 500

\* Mutant: a conflict keeps the code of its base class.
CodeWithoutConflict(error) == IF error \in {"too-large", "bad-request"} THEN error ELSE "sync-protocol-error"

CodeForError(error) ==
    CASE error = "too-large" -> "request-too-large"
      [] error = "bad-request" -> "bad-request"
      [] error = "future-base" -> "future-base-sequence"
      [] error = "identity" -> "operation-identity-conflict"
      [] error = "intent" -> "operation-intent-conflict"
      [] error = "client-sequence" -> "client-sequence-conflict"
      [] error = "conflict" -> "sync-conflict"
      [] error \in {"locked", "projection", "storage"} -> "sync-protocol-error"
      [] OTHER -> "internal-error"

\* The cause is the model's own: it is not on the wire.
ErrorResponse(error) ==
    [status |-> StatusForError(error), code |-> CodeForError(error), cause |-> error]

\* The public envelope echoes the requested stream.
AcceptedResponse(request) ==
    [status |-> 200, stream |-> request.stream, cause |-> "none",
     decided |-> request.proposals]

\* A page of a proxy, or of the framework when onError throws: not JSON.
SpoiltResponse == [status |-> 502, code |-> "none", cause |-> "spoilt"]

Streams == {Resolved[c] : c \in Clients} \union {Requested[c] : c \in Clients}

Init ==
    /\ issued = [c \in Clients |-> 0]
    /\ outbox = [c \in Clients |-> {}]
    /\ pass = [c \in Clients |-> Idle]
    /\ ended = [c \in Clients |-> NotEnded]
    /\ posted = [c \in Clients |-> None]
    /\ strays = {}
    /\ answer = [c \in Clients |-> NoAnswer]
    /\ decided = [s \in Streams |-> {}]
    /\ authority = [s \in Streams |-> "new"]
    /\ created = FALSE
    /\ faults = 0

Enqueue(c, bytes) ==
    /\ issued[c] < MaxOperations[c]
    /\ issued' = [issued EXCEPT ![c] = @ + 1]
    /\ outbox' = [outbox EXCEPT ![c] =
          @ \union {[client |-> c, number |-> issued[c] + 1, bytes |-> bytes]}]
    /\ UNCHANGED <<pass, ended, posted, strays, answer, serverVars, faults>>

\* sync(): the first attempt of a pass.
Begin(c) ==
    /\ pass[c].phase = "idle"
    /\ pass' = [pass EXCEPT ![c] = [Idle EXCEPT !.phase = "ready"]]
    /\ ended' = [ended EXCEPT ![c] = NotEnded]
    /\ UNCHANGED <<issued, outbox, posted, strays, answer, serverVars, faults>>

\* A round of the session: prepare the request and post it.
Post(c) ==
    /\ pass[c].phase = "ready"
    /\ posted' = [posted EXCEPT ![c] = Request(c)]
    /\ pass' = [pass EXCEPT ![c].phase = "posted"]
    /\ UNCHANGED <<issued, outbox, ended, strays, answer, serverVars, faults>>

(* The route takes a request and ends with an answer, in one action: nothing it reads  *)
(* before the authority's turn is shared.                                               *)

Answer(c, response) ==
    /\ answer' = [answer EXCEPT ![c] = response]
    /\ UNCHANGED <<clientVars, posted, strays, faults>>

Awaits(c) == posted[c] # None /\ answer[c] = NoAnswer

Routed(request) == ~TooLarge(request) /\ ~OnPull(request)

\* The bytes are counted before the body is looked at.
Refuse(c) ==
    /\ Awaits(c)
    /\ ~Routed(posted[c])
    /\ Answer(c, ErrorResponse(IF TooLarge(posted[c]) THEN "too-large" ELSE "bad-request"))
    /\ UNCHANGED serverVars

\* The rejected promise stays with the authority as long as the authority is kept.
FailedInitialization(stream) == IF stream \in CachedStreams THEN "broken" ELSE "new"

\* The statements that create the tables fail: an error that is no SyncEngineError.
FailToInitialize(c) ==
    /\ Awaits(c)
    /\ Routed(posted[c])
    /\ LET stream == ResolveStream(posted[c]) IN
          /\ authority[stream] = "new"
          /\ authority' = [authority EXCEPT ![stream] = FailedInitialization(stream)]
    /\ Answer(c, ErrorResponse("database"))
    /\ UNCHANGED <<decided, created>>

\* The kept authority awaits its rejected promise again.
StayBroken(c) ==
    /\ Awaits(c)
    /\ Routed(posted[c])
    /\ authority[ResolveStream(posted[c])] = "broken"
    /\ Answer(c, ErrorResponse("database"))
    /\ UNCHANGED serverVars

\* The tables are there, or this request creates them.
Initialize(stream) ==
    /\ authority[stream] # "broken"
    /\ authority' = [authority EXCEPT ![stream] = IF stream \in CachedStreams THEN "ready" ELSE "new"]
    /\ created' = TRUE

Fail(c, error) ==
    /\ Awaits(c)
    /\ Routed(posted[c])
    /\ Initialize(ResolveStream(posted[c]))
    /\ Answer(c, ErrorResponse(error))
    /\ UNCHANGED decided

Decide(request) ==
    /\ Routed(request)
    /\ Initialize(ResolveStream(request))
    /\ decided' = [decided EXCEPT ![ResolveStream(request)] = @ \union request.proposals]

Serve(c) ==
    /\ Awaits(c)
    /\ Decide(posted[c])
    /\ Answer(c, AcceptedResponse(posted[c]))

\* A request whose client has gone reaches the authority all the same.
ServeStray(request) ==
    /\ Decide(request)
    /\ strays' = strays \ {request}
    /\ UNCHANGED <<clientVars, posted, answer, faults>>

\* The process ends: the authorities it kept are gone.
Restart ==
    /\ \E s \in DOMAIN authority : authority[s] # "new"
    /\ authority' = [s \in DOMAIN authority |-> "new"]
    /\ UNCHANGED <<clientVars, posted, strays, answer, decided, created, faults>>

\* The answer comes from somewhere else on the way.
Spoil(c) ==
    /\ faults < MaxFaults
    /\ Awaits(c)
    /\ answer' = [answer EXCEPT ![c] = SpoiltResponse]
    /\ faults' = faults + 1
    /\ UNCHANGED <<clientVars, posted, strays, serverVars>>

(* What the client makes of the answer. *)

Ended(c, cause) ==
    /\ ended' = [ended EXCEPT ![c] = [cause |-> cause, attempt |-> pass[c].attempt]]
    /\ pass' = [pass EXCEPT ![c] = Idle]

Answered(c) ==
    /\ posted' = [posted EXCEPT ![c] = None]
    /\ answer' = [answer EXCEPT ![c] = NoAnswer]

\* fetch rejects; the server may have the request, or get it yet.
LoseConnection(c) ==
    /\ faults < MaxFaults
    /\ posted[c] # None
    /\ strays' \in {strays, strays \union {posted[c]}}
    /\ faults' = faults + 1
    /\ Answered(c)
    /\ Ended(c, "network")
    /\ UNCHANGED <<issued, outbox, serverVars>>

IsRetryableSyncError(response) == response.status # 200 /\ response.code = "sync-conflict"

\* The session is given up; after the delay the next attempt starts over.
Retry(c) ==
    /\ answer[c] # NoAnswer
    /\ IsRetryableSyncError(answer[c])
    /\ pass[c].attempt + 1 < MaximumAttempts
    /\ pass' = [pass EXCEPT ![c] = [phase |-> "waiting", attempt |-> @.attempt + 1, round |-> 0]]
    /\ Answered(c)
    /\ UNCHANGED <<issued, outbox, ended, strays, serverVars, faults>>

Wait(c) ==
    /\ pass[c].phase = "waiting"
    /\ pass' = [pass EXCEPT ![c].phase = "ready"]
    /\ UNCHANGED <<issued, outbox, ended, posted, strays, answer, serverVars, faults>>

\* assertResponseEnvelope: an answer for another stream is not merged.
ForAnotherStream(c) == answer[c].status = 200 /\ answer[c].stream # Requested[c]

GiveUp(c) ==
    /\ answer[c] # NoAnswer
    /\ answer[c].status # 200 \/ ForAnotherStream(c)
    /\ IsRetryableSyncError(answer[c]) => pass[c].attempt + 1 = MaximumAttempts
    /\ Ended(c, IF ForAnotherStream(c) THEN "protocol" ELSE answer[c].cause)
    /\ Answered(c)
    /\ UNCHANGED <<issued, outbox, strays, serverVars, faults>>

\* The merge; the session ends when nothing is left, or after its last round.
Merge(c) ==
    /\ answer[c].status = 200
    /\ ~ForAnotherStream(c)
    /\ outbox' = [outbox EXCEPT ![c] = @ \ answer[c].decided]
    /\ IF outbox'[c] = {} THEN Ended(c, "none")
       ELSE IF pass[c].round + 1 = MaximumSyncRounds THEN Ended(c, "rounds")
       ELSE /\ pass' = [pass EXCEPT ![c].phase = "ready", ![c].round = @ + 1]
            /\ UNCHANGED ended
    /\ Answered(c)
    /\ UNCHANGED <<issued, strays, serverVars, faults>>

ClientStep(c) ==
    \/ Begin(c) \/ Post(c) \/ Retry(c) \/ Wait(c) \/ GiveUp(c) \/ Merge(c)

ServerStep(c) ==
    \/ Refuse(c) \/ FailToInitialize(c) \/ StayBroken(c) \/ Serve(c)
    \/ \E error \in Errors : Fail(c, error)

Next ==
    \/ \E c \in Clients :
          \/ \E bytes \in Sizes : Enqueue(c, bytes)
          \/ ClientStep(c)
          \/ ServerStep(c)
          \/ LoseConnection(c)
          \/ Spoil(c)
    \/ \E request \in strays : ServeStray(request)
    \/ Restart

Spec == Init /\ [][Next]_vars

\* The application keeps calling sync(), every exchange ends one way or another, and an
\* authority that is asked again and again decides some time, unless it never can.
FairSpec ==
    /\ Spec
    /\ \A c \in Clients : WF_vars(ClientStep(c)) /\ WF_vars(ServerStep(c)) /\ SF_vars(Serve(c))
=============================================================================
