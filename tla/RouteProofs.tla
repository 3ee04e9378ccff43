----------------------------- MODULE RouteProofs -----------------------------
(* A pass over HTTP: what its client has in hand is true of the authority of its stream, *)
(* whatever is lost, spoilt, answered late or tried again.  RouteInv is inductive;       *)
(* SettledIsDecided is, with it.                                                         *)
EXTENDS RouteProperties, TLAPS

\* The first state satisfies both invariants.
LEMMA RouteInit == Init => RouteInv /\ SettledIsDecided
<1>. USE RouteAssumption
<1>. SUFFICES ASSUME Init PROVE RouteInv /\ SettledIsDecided
  OBVIOUS
<1>1. RouteTypeOK
  <2>1. Idle \in PassRecord /\ NotEnded \in EndRecord
    <3>1. 0 \in 0 .. MaximumAttempts - 1 /\ 0 \in 0 .. MaximumSyncRounds - 1
      <4>1. MaximumAttempts \in Nat \ {0} /\ MaximumSyncRounds \in Nat \ {0}
        OBVIOUS
      <4>. QED
        BY <4>1
    <3>2. "none" \in EndCauses
      BY DEF EndCauses, AnswerCauses
    <3>. QED
      BY <3>1, <3>2 DEF Idle, PassRecord, NotEnded, EndRecord
  <2>. QED
  BY <2>1 DEF Init, RouteTypeOK
<1>2. RequestsSound /\ AnswersSound
  BY DEF Init, RequestsSound, AnswersSound, Idle
<1>3. ConflictRetried /\ AnswersTaken
  BY DEF Init, ConflictRetried, AnswersTaken, NotEnded
<1>4. SettledIsDecided
  BY DEF Init, SettledIsDecided
<1>. QED
  BY <1>1, <1>2, <1>3, <1>4 DEF RouteInv

-----------------------------------------------------------------------------
(* Responses. *)

\* Every answer differs from there being none: its status is one of HTTP.
Response(response, request) ==
    /\ response # NoAnswer
    /\ response.cause \in AnswerCauses
    /\ IsRetryableSyncError(response) <=> response.cause = "conflict"
    /\ response.status = 200 =>
          /\ response.stream = request.stream
          /\ response.decided = request.proposals

\* Only a conflict is given the code that a client tries again for, and no error is a 200.
LEMMA ErrorAnswer ==
  ASSUME NEW error \in AuthorityErrors \union {"too-large", "bad-request"}, NEW request
  PROVE  /\ Response(ErrorResponse(error), request)
         /\ ErrorResponse(error).status # 200
<1>1. StatusForError(error) \in {413, 400, 409, 500}
  BY DEF StatusForError, AuthorityErrors
<1>2. CodeForError(error) = "sync-conflict" <=> error = "conflict"
  BY DEF CodeForError, AuthorityErrors
<1>3. error \in AnswerCauses
  BY DEF AnswerCauses
<1>4. /\ ErrorResponse(error).status = StatusForError(error)
      /\ ErrorResponse(error).code = CodeForError(error)
      /\ ErrorResponse(error).cause = error
  BY DEF ErrorResponse
<1>5. ErrorResponse(error) # NoAnswer
  BY <1>1, <1>4 DEF NoAnswer
<1>. QED
  BY <1>1, <1>2, <1>3, <1>4, <1>5 DEF Response, IsRetryableSyncError

\* The answers that are no errors of the server.
LEMMA OtherAnswers ==
  ASSUME NEW request
  PROVE  /\ Response(AcceptedResponse(request), request)
         /\ Response(SpoiltResponse, request)
         /\ SpoiltResponse.status # 200
<1>1. AcceptedResponse(request) # NoAnswer /\ SpoiltResponse # NoAnswer
  <2>1. AcceptedResponse(request).status = 200 /\ SpoiltResponse.status = 502 /\ NoAnswer.status = 0
      BY DEF AcceptedResponse, SpoiltResponse, NoAnswer
  <2>. QED
      BY <2>1
<1>. QED
  BY <1>1 DEF Response, AcceptedResponse, SpoiltResponse, IsRetryableSyncError, AnswerCauses

-----------------------------------------------------------------------------
(* The steps of the routes and of what lies between. *)

\* The stream of a session is one of those whose decisions are kept.
LEMMA StreamKept == \A c \in Clients : Resolved[c] \in Streams
BY DEF Streams

\* An answer that is true of the authority keeps the invariant.
LEMMA AnswerKeeps ==
  ASSUME RouteInv, NEW c \in Clients, NEW response, Awaits(c), Answer(c, response),
         Response(response, posted[c]),
         DOMAIN decided' = Streams, \A s \in Streams : decided[s] \subseteq decided'[s],
         response.status = 200 => response.decided \subseteq decided'[Resolved[c]]
  PROVE  RouteInv'
<1>1. answer' = [answer EXCEPT ![c] = response]
  BY DEF Answer
<1>2. UNCHANGED <<issued, outbox, pass, ended, posted, strays, faults>>
  BY DEF Answer, clientVars
<1>3. DOMAIN answer = Clients
  BY DEF RouteInv, RouteTypeOK
<1>4. answer'[c] = response /\ \A d \in Clients : d # c => answer'[d] = answer[d]
  BY <1>1, <1>3
<1>5. RouteTypeOK'
  BY <1>1, <1>2 DEF RouteInv, RouteTypeOK
<1>6. RequestsSound'
  BY <1>2 DEF RouteInv, RequestsSound
<1>7. AnswersSound'
  <2>1. SUFFICES ASSUME NEW d \in Clients, answer'[d] # NoAnswer
                 PROVE  /\ posted'[d] # None
                        /\ answer'[d].cause \in AnswerCauses
                        /\ answer'[d].status = 200 =>
                              /\ answer'[d].stream = Requested[d]
                              /\ answer'[d].decided \subseteq decided'[Resolved[d]]
    BY DEF AnswersSound
  <2>2. CASE d = c
    BY <1>2, <1>4, <2>2 DEF RouteInv, RequestsSound, Awaits, Response
  <2>3. CASE d # c
    <3>1. answer[d] # NoAnswer /\ answer'[d] = answer[d]
      BY <1>4, <2>1, <2>3
    <3>2. decided[Resolved[d]] \subseteq decided'[Resolved[d]]
      BY StreamKept
    <3>. QED
      BY <1>2, <3>1, <3>2 DEF RouteInv, AnswersSound
  <2>. QED
    BY <2>2, <2>3
<1>8. ConflictRetried'
  <2>1. \A d \in Clients : answer'[d] # NoAnswer
           => (IsRetryableSyncError(answer'[d]) <=> answer'[d].cause = "conflict")
    BY <1>4 DEF RouteInv, ConflictRetried, Response
  <2>. QED
    BY <1>2, <2>1 DEF RouteInv, ConflictRetried
<1>9. AnswersTaken'
  BY <1>2 DEF RouteInv, AnswersTaken
<1>. QED
  BY <1>5, <1>6, <1>7, <1>8, <1>9 DEF RouteInv

\* What is decided stays decided, and nothing else has changed hands.
SettledStays ==
  /\ UNCHANGED <<issued, outbox>>
  /\ \A s \in Streams : decided[s] \subseteq decided'[s]

\* A step that settles nothing keeps what was settled decided.
LEMMA SettledKept == SettledIsDecided /\ SettledStays => SettledIsDecided'
<1>. SUFFICES ASSUME SettledIsDecided, SettledStays,
                     NEW c \in Clients, NEW n \in 1 .. issued'[c],
                     \A op \in outbox'[c] : op.number # n
              PROVE  \E op \in decided'[Resolved[c]] : op.client = c /\ op.number = n
  BY DEF SettledIsDecided
<1>1. \E op \in decided[Resolved[c]] : op.client = c /\ op.number = n
  BY DEF SettledIsDecided, SettledStays
<1>. QED
  BY <1>1, StreamKept DEF SettledStays

\* The effect of a decision: the authority of the session's stream has taken the proposals.
LEMMA DecideFacts ==
  ASSUME RouteInv, NEW request, Decide(request)
  PROVE  /\ DOMAIN decided' = Streams
         /\ \A s \in Streams : decided[s] \subseteq decided'[s]
         /\ \A c \in Clients : request.client = c => request.proposals \subseteq decided'[Resolved[c]]
<1>1. decided' = [decided EXCEPT ![ResolveStream(request)] = @ \union request.proposals]
  BY DEF Decide
<1>2. DOMAIN decided = Streams
  BY DEF RouteInv, RouteTypeOK
<1>. QED
  BY <1>1, <1>2, StreamKept DEF ResolveStream

\* A step of the routes keeps both invariants.
LEMMA ServerKeeps ==
  ASSUME RouteInv, SettledIsDecided, NEW c \in Clients, ServerStep(c)
  PROVE  RouteInv' /\ SettledIsDecided'
<1>1. DOMAIN decided = Streams
  BY DEF RouteInv, RouteTypeOK
<1>2. ASSUME NEW error \in AuthorityErrors \union {"too-large", "bad-request"},
             Awaits(c), Answer(c, ErrorResponse(error)), UNCHANGED decided
      PROVE  RouteInv' /\ SettledIsDecided'
  <2>1. Response(ErrorResponse(error), posted[c]) /\ ErrorResponse(error).status # 200
    BY ErrorAnswer
  <2>2. DOMAIN decided' = Streams /\ \A s \in Streams : decided[s] \subseteq decided'[s]
    BY <1>1, <1>2
  <2>3. SettledStays
    BY <1>2, <2>2 DEF SettledStays, Answer, clientVars
  <2>. QED
    BY <1>2, <2>1, <2>2, <2>3, AnswerKeeps, SettledKept
<1>3. CASE Refuse(c)
  <2>1. PICK error \in {"too-large", "bad-request"} : Answer(c, ErrorResponse(error))
    BY <1>3 DEF Refuse
  <2>. QED
    BY <1>2, <1>3, <2>1 DEF Refuse, serverVars
<1>4. CASE FailToInitialize(c)
  <2>1. "database" \in AuthorityErrors
    BY DEF AuthorityErrors
  <2>. QED
    BY <1>2, <1>4, <2>1 DEF FailToInitialize
<1>5. CASE StayBroken(c)
  <2>1. "database" \in AuthorityErrors
    BY DEF AuthorityErrors
  <2>. QED
    BY <1>2, <1>5, <2>1 DEF StayBroken, serverVars
<1>6. CASE \E error \in Errors : Fail(c, error)
  <2>1. PICK error \in Errors : Fail(c, error)
    BY <1>6
  <2>2. error \in AuthorityErrors
    BY RouteAssumption
  <2>. QED
    BY <1>2, <2>1, <2>2 DEF Fail
<1>7. CASE Serve(c)
  <2>1. Awaits(c) /\ Decide(posted[c]) /\ Answer(c, AcceptedResponse(posted[c]))
    BY <1>7 DEF Serve
  <2>2. posted[c].client = c
    BY <2>1 DEF Awaits, RouteInv, RequestsSound
  <2>3. Response(AcceptedResponse(posted[c]), posted[c])
    BY OtherAnswers
  <2>4. /\ DOMAIN decided' = Streams
        /\ \A s \in Streams : decided[s] \subseteq decided'[s]
        /\ posted[c].proposals \subseteq decided'[Resolved[c]]
    BY <2>1, <2>2, DecideFacts
  <2>5. AcceptedResponse(posted[c]).status = 200
           => AcceptedResponse(posted[c]).decided \subseteq decided'[Resolved[c]]
    BY <2>3, <2>4 DEF Response
  <2>6. SettledStays
    BY <2>1, <2>4 DEF SettledStays, Answer, clientVars
  <2>. QED
    BY <2>1, <2>3, <2>4, <2>5, <2>6, AnswerKeeps, SettledKept
<1>. QED
  BY <1>3, <1>4, <1>5, <1>6, <1>7 DEF ServerStep

\* What does not concern passes and answers keeps the invariant.
LEMMA ElsewhereKeeps ==
  ASSUME RouteInv, UNCHANGED <<clientVars, posted, answer>>,
         DOMAIN decided' = Streams, \A s \in Streams : decided[s] \subseteq decided'[s]
  PROVE  RouteInv'
<1>1. UNCHANGED <<issued, outbox, pass, ended>>
  BY DEF clientVars
<1>2. RouteTypeOK'
  BY <1>1 DEF RouteInv, RouteTypeOK
<1>3. AnswersSound'
  BY <1>1, StreamKept DEF RouteInv, AnswersSound
<1>. QED
  BY <1>1, <1>2, <1>3 DEF RouteInv, RequestsSound, ConflictRetried, AnswersTaken

\* A request that outlives its client, a restart and a spoilt answer keep both invariants.
LEMMA NetworkKeeps ==
  ASSUME RouteInv, SettledIsDecided,
         \/ \E request \in strays : ServeStray(request)
         \/ Restart
         \/ \E c \in Clients : Spoil(c)
  PROVE  RouteInv' /\ SettledIsDecided'
<1>1. DOMAIN decided = Streams
  BY DEF RouteInv, RouteTypeOK
<1>2. ASSUME NEW request \in strays, ServeStray(request)
      PROVE  RouteInv' /\ SettledIsDecided'
  <2>1. /\ DOMAIN decided' = Streams
        /\ \A s \in Streams : decided[s] \subseteq decided'[s]
    BY <1>2, DecideFacts DEF ServeStray
  <2>2. UNCHANGED <<clientVars, posted, answer>>
    BY <1>2 DEF ServeStray
  <2>3. SettledStays
    BY <2>1, <2>2 DEF SettledStays, clientVars
  <2>. QED
    BY <2>1, <2>2, <2>3, ElsewhereKeeps, SettledKept
<1>3. CASE Restart
  <2>1. UNCHANGED <<clientVars, posted, answer>> /\ UNCHANGED decided
    BY <1>3 DEF Restart
  <2>2. SettledStays
    BY <2>1 DEF SettledStays, clientVars
  <2>. QED
    BY <1>1, <2>1, <2>2, ElsewhereKeeps, SettledKept
<1>4. ASSUME NEW c \in Clients, Spoil(c)
      PROVE  RouteInv' /\ SettledIsDecided'
  <2>1. /\ Awaits(c) /\ answer' = [answer EXCEPT ![c] = SpoiltResponse]
        /\ UNCHANGED <<issued, outbox, pass, ended, posted, strays, decided>>
    BY <1>4 DEF Spoil, clientVars, serverVars
  <2>2. Response(SpoiltResponse, posted[c]) /\ SpoiltResponse.status # 200
    BY OtherAnswers
  <2>3. answer'[c] = SpoiltResponse /\ \A d \in Clients : d # c => answer'[d] = answer[d]
    BY <2>1 DEF RouteInv, RouteTypeOK
  <2>4. RouteTypeOK' /\ RequestsSound' /\ AnswersTaken'
    BY <2>1 DEF RouteInv, RouteTypeOK, RequestsSound, AnswersTaken
  <2>5. AnswersSound'
    BY <2>1, <2>2, <2>3 DEF RouteInv, AnswersSound, Awaits, Response
  <2>6. ConflictRetried'
    BY <2>1, <2>2, <2>3 DEF RouteInv, ConflictRetried, Response
  <2>7. SettledStays
    BY <2>1 DEF SettledStays
  <2>. QED
    BY <2>4, <2>5, <2>6, <2>7, SettledKept DEF RouteInv
<1>. QED
  BY <1>2, <1>3, <1>4

-----------------------------------------------------------------------------
(* The steps of a client. *)

\* A request differs from there being none.
LEMMA RequestPosted == \A c \in Clients : Request(c) # None
<1>. SUFFICES ASSUME NEW c \in Clients, Request(c) = None PROVE FALSE
  OBVIOUS
<1>1. "stream" \in DOMAIN Request(c) /\ "stream" \notin DOMAIN None
  BY DEF Request, None
<1>. QED
  BY <1>1

\* An operation that is enqueued gets a number of its own and is pending.
LEMMA EnqueueKeeps ==
  ASSUME RouteInv, SettledIsDecided, NEW c \in Clients, NEW bytes \in Sizes, Enqueue(c, bytes)
  PROVE  RouteInv' /\ SettledIsDecided'
<1>1. PICK op : op = [client |-> c, number |-> issued[c] + 1, bytes |-> bytes]
  OBVIOUS
<1>2. /\ issued' = [issued EXCEPT ![c] = issued[c] + 1]
      /\ outbox' = [outbox EXCEPT ![c] = outbox[c] \union {op}]
      /\ UNCHANGED <<pass, ended, posted, strays, answer, decided>>
  BY <1>1 DEF Enqueue, serverVars
<1>3. issued \in [Clients -> Nat] /\ DOMAIN outbox = Clients
  BY DEF RouteInv, RouteTypeOK
<1>4. /\ issued'[c] = issued[c] + 1 /\ outbox'[c] = outbox[c] \union {op}
      /\ \A d \in Clients : d # c => issued'[d] = issued[d] /\ outbox'[d] = outbox[d]
  BY <1>2, <1>3
<1>5. op.client = c /\ op.number = issued[c] + 1
  BY <1>1
<1>6. RouteTypeOK'
  <2>1. \A d \in Clients : \A p \in outbox[d] : p.client = d /\ p.number \in 1 .. issued[d]
    BY DEF RouteInv, RouteTypeOK
  <2>2. issued[c] \in Nat
    BY <1>3
  <2>3. \A p \in outbox'[c] : p.client = c /\ p.number \in 1 .. issued'[c]
    BY <1>4, <1>5, <2>1, <2>2
  <2>4. \A d \in Clients : \A p \in outbox'[d] : p.client = d /\ p.number \in 1 .. issued'[d]
    BY <1>4, <2>1, <2>3
  <2>5. issued' \in [Clients -> Nat] /\ DOMAIN outbox' = Clients
    BY <1>2, <1>3, <2>2
  <2>. QED
    BY <1>2, <2>4, <2>5 DEF RouteInv, RouteTypeOK
<1>7. RequestsSound' /\ AnswersSound' /\ ConflictRetried' /\ AnswersTaken'
  BY <1>2 DEF RouteInv, RequestsSound, AnswersSound, ConflictRetried, AnswersTaken
<1>8. SettledIsDecided'
  <2>1. SUFFICES ASSUME NEW d \in Clients, NEW n \in 1 .. issued'[d],
                        \A p \in outbox'[d] : p.number # n
                 PROVE  \E p \in decided'[Resolved[d]] : p.client = d /\ p.number = n
    BY DEF SettledIsDecided
  <2>2. n \in 1 .. issued[d] /\ \A p \in outbox[d] : p.number # n
    <3>1. CASE d = c
      <4>1. n # issued[c] + 1
        BY <1>4, <1>5, <2>1, <3>1
      <4>2. issued[c] \in Nat
        BY <1>3
      <4>. QED
        BY <1>4, <2>1, <3>1, <4>1, <4>2
    <3>2. CASE d # c
      BY <1>4, <2>1, <3>2
    <3>. QED
      BY <3>1, <3>2
  <2>. QED
    BY <1>2, <2>2 DEF SettledIsDecided
<1>. QED
  BY <1>6, <1>7, <1>8 DEF RouteInv

\* One client's value in a function of the clients.
Becomes(after, before, c, value) ==
  /\ DOMAIN after = Clients /\ after[c] = value
  /\ \A d \in Clients \ {c} : after[d] = before[d]

\* How a client goes on from an answer, or without one: a pass that is not waiting for a
\* request, no answer in hand, and an end that accounts for the attempts.
Resumes(c, record, end) ==
  /\ record \in PassRecord /\ record.phase # "posted"
  /\ end \in EndRecord /\ end.cause # "protocol"
  /\ end.cause = "conflict" => end.attempt = MaximumAttempts - 1
  /\ pass' \in [Clients -> PassRecord] /\ Becomes(pass', pass, c, record)
  /\ ended' \in [Clients -> EndRecord] /\ Becomes(ended', ended, c, end)
  /\ Becomes(posted', posted, c, None)
  /\ Becomes(answer', answer, c, NoAnswer)

\* A client that goes on with fewer or the same operations keeps the invariant.
LEMMA ResumeKeeps ==
  ASSUME RouteInv, NEW c \in Clients, NEW record, NEW end, Resumes(c, record, end),
         UNCHANGED <<issued, decided>>, DOMAIN outbox' = Clients,
         \A d \in Clients : outbox'[d] \subseteq outbox[d]
  PROVE  RouteInv'
<1>1. /\ pass'[c] = record /\ ended'[c] = end /\ posted'[c] = None /\ answer'[c] = NoAnswer
      /\ \A d \in Clients : d # c =>
            /\ pass'[d] = pass[d] /\ ended'[d] = ended[d]
            /\ posted'[d] = posted[d] /\ answer'[d] = answer[d]
  BY DEF Resumes, Becomes
<1>2. RouteTypeOK'
  <2>1. pass' \in [Clients -> PassRecord] /\ ended' \in [Clients -> EndRecord]
    BY DEF Resumes
  <2>2. DOMAIN posted' = Clients /\ DOMAIN answer' = Clients
    BY DEF Resumes, Becomes
  <2>3. \A d \in Clients : \A op \in outbox'[d] : op.client = d /\ op.number \in 1 .. issued'[d]
    BY DEF RouteInv, RouteTypeOK
  <2>. QED
    BY <2>1, <2>2, <2>3 DEF RouteInv, RouteTypeOK
<1>3. RequestsSound'
  BY <1>1 DEF RouteInv, RequestsSound, Resumes
<1>4. AnswersSound'
  BY <1>1 DEF RouteInv, AnswersSound
<1>5. ConflictRetried' /\ AnswersTaken'
  BY <1>1 DEF RouteInv, ConflictRetried, AnswersTaken, Resumes
<1>. QED
  BY <1>2, <1>3, <1>4, <1>5 DEF RouteInv

\* A client without a request has no answer in hand.
LEMMA NothingPosted ==
  ASSUME RouteInv, NEW c \in Clients, pass[c].phase # "posted"
  PROVE  posted[c] = None /\ answer[c] = NoAnswer
BY DEF RouteInv, RequestsSound, AnswersSound

\* The values that a step puts at one client.
LEMMA OneBecomes ==
  ASSUME NEW before, DOMAIN before = Clients, NEW c \in Clients, NEW value
  PROVE  /\ Becomes([before EXCEPT ![c] = value], before, c, value)
         /\ before[c] = value => Becomes(before, before, c, value)
BY DEF Becomes

\* The same, with the type of a pass or an end kept.
LEMMA OneTyped ==
  ASSUME NEW T, NEW before \in [Clients -> T], NEW c \in Clients, NEW value \in T
  PROVE  /\ [before EXCEPT ![c] = value] \in [Clients -> T]
         /\ Becomes([before EXCEPT ![c] = value], before, c, value)
         /\ Becomes(before, before, c, before[c])
BY DEF Becomes

\* Attempts and rounds are counted from 0.
LEMMA Counts ==
  /\ MaximumAttempts \in Nat \ {0} /\ MaximumSyncRounds \in Nat \ {0}
  /\ 0 \in 0 .. MaximumAttempts - 1 /\ 0 \in 0 .. MaximumSyncRounds - 1
<1>1. MaximumAttempts \in Nat \ {0} /\ MaximumSyncRounds \in Nat \ {0}
  BY RouteAssumption
<1>. QED
  BY <1>1

\* The functions of the clients have the types that the steps below rely on.
LEMMA ClientTypes ==
  ASSUME RouteInv
  PROVE  /\ pass \in [Clients -> PassRecord] /\ ended \in [Clients -> EndRecord]
         /\ DOMAIN posted = Clients /\ DOMAIN answer = Clients /\ DOMAIN outbox = Clients
BY DEF RouteInv, RouteTypeOK

\* What a step of the client that leaves outboxes and decisions alone owes.
LEMMA ResumeUnsettled ==
  ASSUME RouteInv, SettledIsDecided, NEW c \in Clients, NEW record, NEW end,
         Resumes(c, record, end), UNCHANGED <<issued, outbox, decided>>
  PROVE  RouteInv' /\ SettledIsDecided'
<1>1. DOMAIN outbox' = Clients /\ \A d \in Clients : outbox'[d] \subseteq outbox[d]
  BY ClientTypes
<1>2. SettledStays
  BY DEF SettledStays
<1>. QED
  BY <1>1, <1>2, ResumeKeeps, SettledKept

\* sync() starts a pass; a pass goes on after its delay.
LEMMA BeginKeeps ==
  ASSUME RouteInv, SettledIsDecided, NEW c \in Clients, Begin(c) \/ Wait(c)
  PROVE  RouteInv' /\ SettledIsDecided'
<1>1. pass[c].phase # "posted" /\ pass[c] \in PassRecord /\ ended[c] \in EndRecord
  BY ClientTypes DEF Begin, Wait
<1>2. posted[c] = None /\ answer[c] = NoAnswer
  BY <1>1, NothingPosted
<1>3. Becomes(posted, posted, c, None) /\ Becomes(answer, answer, c, NoAnswer)
  BY <1>2, ClientTypes, OneBecomes
<1>4. PICK record : record = [pass[c] EXCEPT !.phase = "ready"]
  OBVIOUS
<1>5. PICK fresh : fresh = [Idle EXCEPT !.phase = "ready"]
  OBVIOUS
<1>6. record \in PassRecord /\ record.phase # "posted"
  BY <1>1, <1>4 DEF PassRecord
<1>7. fresh \in PassRecord /\ fresh.phase # "posted"
  BY <1>5, Counts DEF PassRecord, Idle
<1>8. /\ NotEnded \in EndRecord /\ NotEnded.cause # "protocol" /\ NotEnded.cause # "conflict"
  BY Counts DEF NotEnded, EndRecord, EndCauses, AnswerCauses
<1>9. CASE Begin(c)
  <2>1. Resumes(c, fresh, NotEnded)
    <3>1. /\ pass' = [pass EXCEPT ![c] = fresh] /\ ended' = [ended EXCEPT ![c] = NotEnded]
          /\ UNCHANGED <<posted, answer>>
      BY <1>5, <1>9 DEF Begin
    <3>2. pass' \in [Clients -> PassRecord] /\ Becomes(pass', pass, c, fresh)
      BY <1>7, <3>1, ClientTypes, OneTyped
    <3>3. ended' \in [Clients -> EndRecord] /\ Becomes(ended', ended, c, NotEnded)
      BY <1>8, <3>1, ClientTypes, OneTyped
    <3>. QED
      BY <1>3, <1>7, <1>8, <3>1, <3>2, <3>3 DEF Resumes
  <2>. QED
    BY <1>9, <2>1, ResumeUnsettled DEF Begin, serverVars
<1>10. CASE Wait(c)
  <2>1. Resumes(c, record, ended[c])
    <3>1. pass' = [pass EXCEPT ![c] = record] /\ UNCHANGED <<ended, posted, answer>>
      BY <1>4, <1>10 DEF Wait
    <3>2. pass' \in [Clients -> PassRecord] /\ Becomes(pass', pass, c, record)
      BY <1>6, <3>1, ClientTypes, OneTyped
    <3>3. ended' \in [Clients -> EndRecord] /\ Becomes(ended', ended, c, ended[c])
      BY <1>1, <3>1, ClientTypes, OneTyped
    <3>4. /\ ended[c].cause # "protocol"
          /\ ended[c].cause = "conflict" => ended[c].attempt = MaximumAttempts - 1
      BY DEF RouteInv, ConflictRetried, AnswersTaken
    <3>. QED
      BY <1>1, <1>3, <1>6, <3>1, <3>2, <3>3, <3>4 DEF Resumes
  <2>. QED
    BY <1>10, <2>1, ResumeUnsettled DEF Wait, serverVars
<1>. QED
  BY <1>9, <1>10

\* A round posts a request of its own client, before which no answer is in hand.
LEMMA PostKeeps ==
  ASSUME RouteInv, SettledIsDecided, NEW c \in Clients, Post(c)
  PROVE  RouteInv' /\ SettledIsDecided'
<1>1. pass[c] \in PassRecord /\ pass[c].phase # "posted"
  BY ClientTypes DEF Post
<1>2. posted[c] = None /\ answer[c] = NoAnswer
  BY <1>1, NothingPosted
<1>3. PICK record : record = [pass[c] EXCEPT !.phase = "posted"]
  OBVIOUS
<1>4. record \in PassRecord /\ record.phase = "posted"
  BY <1>1, <1>3 DEF PassRecord
<1>5. /\ posted' = [posted EXCEPT ![c] = Request(c)] /\ pass' = [pass EXCEPT ![c] = record]
      /\ UNCHANGED <<issued, outbox, ended, answer, decided>>
  BY <1>3 DEF Post, serverVars
<1>6. pass' \in [Clients -> PassRecord] /\ Becomes(pass', pass, c, record)
  BY <1>4, <1>5, ClientTypes, OneTyped
<1>7. Becomes(posted', posted, c, Request(c))
  BY <1>5, ClientTypes, OneBecomes
<1>8. Request(c) # None /\ Request(c).client = c /\ Request(c).stream = Requested[c]
  BY RequestPosted DEF Request
<1>9. RouteTypeOK'
  BY <1>5, <1>6, <1>7 DEF RouteInv, RouteTypeOK, Becomes
<1>10. RequestsSound'
  BY <1>4, <1>6, <1>7, <1>8 DEF RouteInv, RequestsSound, Becomes
<1>11. AnswersSound'
  BY <1>2, <1>5, <1>7 DEF RouteInv, AnswersSound, Becomes
<1>12. ConflictRetried' /\ AnswersTaken'
  BY <1>5 DEF RouteInv, ConflictRetried, AnswersTaken
<1>13. SettledStays
  BY <1>5 DEF SettledStays
<1>. QED
  BY <1>9, <1>10, <1>11, <1>12, <1>13, SettledKept DEF RouteInv

\* What is shared by the steps with which a client puts an answer, or the wait for one, behind it.
LEMMA PutBehind ==
  ASSUME RouteInv, NEW c \in Clients, Answered(c)
  PROVE  Becomes(posted', posted, c, None) /\ Becomes(answer', answer, c, NoAnswer)
<1>1. posted' = [posted EXCEPT ![c] = None] /\ answer' = [answer EXCEPT ![c] = NoAnswer]
  BY DEF Answered
<1>. QED
  BY <1>1, ClientTypes, OneBecomes

\* A pass that ends for a cause of its own is idle, and its end accounts for its attempts.
LEMMA EndResumes ==
  ASSUME RouteInv, NEW c \in Clients, NEW cause \in EndCauses, Ended(c, cause), Answered(c),
         cause # "protocol", cause = "conflict" => pass[c].attempt + 1 = MaximumAttempts
  PROVE  \E record, end : Resumes(c, record, end)
<1>1. pass[c] \in PassRecord
  BY ClientTypes
<1>2. PICK end : end = [cause |-> cause, attempt |-> pass[c].attempt]
  OBVIOUS
<1>3. pass[c].attempt \in 0 .. MaximumAttempts - 1
  BY <1>1 DEF PassRecord
<1>4. end \in EndRecord /\ end.cause = cause /\ end.attempt = pass[c].attempt
  BY <1>2, <1>3 DEF EndRecord
<1>5. cause = "conflict" => end.attempt = MaximumAttempts - 1
  BY <1>3, <1>4, Counts
<1>6. Idle \in PassRecord /\ Idle.phase # "posted"
  BY Counts DEF Idle, PassRecord
<1>7. ended' = [ended EXCEPT ![c] = end] /\ pass' = [pass EXCEPT ![c] = Idle]
  BY <1>2 DEF Ended
<1>8. pass' \in [Clients -> PassRecord] /\ Becomes(pass', pass, c, Idle)
  BY <1>6, <1>7, ClientTypes, OneTyped
<1>9. ended' \in [Clients -> EndRecord] /\ Becomes(ended', ended, c, end)
  BY <1>4, <1>7, ClientTypes, OneTyped
<1>. QED
  BY <1>4, <1>5, <1>6, <1>8, <1>9, PutBehind DEF Resumes

\* After a conflict the next attempt starts over, while there is one.
LEMMA RetryKeeps ==
  ASSUME RouteInv, SettledIsDecided, NEW c \in Clients, Retry(c)
  PROVE  RouteInv' /\ SettledIsDecided'
<1>1. pass[c] \in PassRecord /\ ended[c] \in EndRecord
  BY ClientTypes
<1>2. PICK record : record = [phase |-> "waiting", attempt |-> pass[c].attempt + 1, round |-> 0]
  OBVIOUS
<1>3. pass[c].attempt + 1 \in 0 .. MaximumAttempts - 1
  <2>1. pass[c].attempt \in 0 .. MaximumAttempts - 1
    BY <1>1 DEF PassRecord
  <2>2. pass[c].attempt + 1 < MaximumAttempts
    BY DEF Retry
  <2>. QED
    BY <2>1, <2>2, Counts
<1>4. record \in PassRecord /\ record.phase # "posted"
  BY <1>2, <1>3, Counts DEF PassRecord
<1>5. pass' = [pass EXCEPT ![c] = record] /\ UNCHANGED <<issued, outbox, ended, decided>>
  BY <1>2 DEF Retry, serverVars
<1>6. pass' \in [Clients -> PassRecord] /\ Becomes(pass', pass, c, record)
  BY <1>4, <1>5, ClientTypes, OneTyped
<1>7. ended' \in [Clients -> EndRecord] /\ Becomes(ended', ended, c, ended[c])
  BY <1>1, <1>5, ClientTypes, OneTyped
<1>8. /\ ended[c].cause # "protocol"
      /\ ended[c].cause = "conflict" => ended[c].attempt = MaximumAttempts - 1
  BY DEF RouteInv, ConflictRetried, AnswersTaken
<1>9. Becomes(posted', posted, c, None) /\ Becomes(answer', answer, c, NoAnswer)
  BY PutBehind DEF Retry
<1>10. Resumes(c, record, ended[c])
  BY <1>1, <1>4, <1>6, <1>7, <1>8, <1>9 DEF Resumes
<1>. QED
  BY <1>5, <1>10, ResumeUnsettled

\* An answer to the client's own request is never one for another stream.
LEMMA OwnAnswer ==
  ASSUME RouteInv, NEW c \in Clients, answer[c] # NoAnswer
  PROVE  ~ ForAnotherStream(c)
BY DEF RouteInv, AnswersSound, ForAnotherStream

\* A pass gives up on an error: on a conflict, only at its last attempt.
LEMMA GiveUpKeeps ==
  ASSUME RouteInv, SettledIsDecided, NEW c \in Clients, GiveUp(c)
  PROVE  RouteInv' /\ SettledIsDecided'
<1>1. answer[c] # NoAnswer /\ answer[c].status # 200
  BY OwnAnswer DEF GiveUp
<1>2. Ended(c, answer[c].cause) /\ Answered(c)
  BY <1>1, OwnAnswer DEF GiveUp
<1>3. answer[c].cause \in AnswerCauses
  BY <1>1 DEF RouteInv, AnswersSound
<1>4. answer[c].cause \in EndCauses /\ answer[c].cause # "protocol"
  BY <1>3 DEF EndCauses, AnswerCauses, AuthorityErrors
<1>5. answer[c].cause = "conflict" => pass[c].attempt + 1 = MaximumAttempts
  BY <1>1 DEF GiveUp, RouteInv, ConflictRetried
<1>6. PICK record, end : Resumes(c, record, end)
  BY <1>2, <1>4, <1>5, EndResumes
<1>. QED
  BY <1>6, ResumeUnsettled DEF GiveUp, serverVars

\* A lost connection ends the pass at once.
LEMMA LoseConnectionKeeps ==
  ASSUME RouteInv, SettledIsDecided, NEW c \in Clients, LoseConnection(c)
  PROVE  RouteInv' /\ SettledIsDecided'
<1>1. "network" \in EndCauses
  BY DEF EndCauses
<1>2. Ended(c, "network") /\ Answered(c)
  BY DEF LoseConnection
<1>3. PICK record, end : Resumes(c, record, end)
  BY <1>1, <1>2, EndResumes
<1>. QED
  BY <1>3, ResumeUnsettled DEF LoseConnection, serverVars

\* A merge takes from the outbox what the authority of the session's stream has decided.
LEMMA MergeKeeps ==
  ASSUME RouteInv, SettledIsDecided, NEW c \in Clients, Merge(c)
  PROVE  RouteInv' /\ SettledIsDecided'
<1>1. answer[c] # NoAnswer
  BY DEF Merge, NoAnswer
<1>2. answer[c].decided \subseteq decided[Resolved[c]]
  BY <1>1 DEF Merge, RouteInv, AnswersSound
<1>3. /\ outbox' = [outbox EXCEPT ![c] = outbox[c] \ answer[c].decided]
      /\ UNCHANGED <<issued, decided>> /\ Answered(c)
  BY DEF Merge, serverVars
<1>4. /\ DOMAIN outbox' = Clients /\ outbox'[c] = outbox[c] \ answer[c].decided
      /\ \A d \in Clients : d # c => outbox'[d] = outbox[d]
  BY <1>3, ClientTypes
<1>5. \A d \in Clients : outbox'[d] \subseteq outbox[d]
  BY <1>4
<1>6. \E record, end : Resumes(c, record, end)
  <2>1. CASE Ended(c, "none") \/ Ended(c, "rounds")
    <3>1. "none" \in EndCauses /\ "rounds" \in EndCauses
      BY DEF EndCauses, AnswerCauses
    <3>. QED
      BY <1>3, <2>1, <3>1, EndResumes
  <2>2. CASE /\ pass[c].round + 1 # MaximumSyncRounds
             /\ pass' = [pass EXCEPT ![c].phase = "ready", ![c].round = @ + 1]
             /\ UNCHANGED ended
    <3>1. pass[c] \in PassRecord /\ ended[c] \in EndRecord
      BY ClientTypes
    <3>2. PICK record : record = [pass[c] EXCEPT !.phase = "ready", !.round = @ + 1]
      OBVIOUS
    <3>3. pass[c].round + 1 \in 0 .. MaximumSyncRounds - 1
      <4>1. pass[c].round \in 0 .. MaximumSyncRounds - 1
        BY <3>1 DEF PassRecord
      <4>. QED
        BY <2>2, <4>1, Counts
    <3>4. record \in PassRecord /\ record.phase # "posted"
      BY <3>1, <3>2, <3>3 DEF PassRecord
    <3>5. pass' = [pass EXCEPT ![c] = record]
      BY <2>2, <3>2, ClientTypes
    <3>6. pass' \in [Clients -> PassRecord] /\ Becomes(pass', pass, c, record)
      BY <3>4, <3>5, ClientTypes, OneTyped
    <3>7. ended' \in [Clients -> EndRecord] /\ Becomes(ended', ended, c, ended[c])
      BY <2>2, <3>1, ClientTypes, OneTyped
    <3>8. /\ ended[c].cause # "protocol"
          /\ ended[c].cause = "conflict" => ended[c].attempt = MaximumAttempts - 1
      BY DEF RouteInv, ConflictRetried, AnswersTaken
    <3>9. Becomes(posted', posted, c, None) /\ Becomes(answer', answer, c, NoAnswer)
      BY <1>3, PutBehind
    <3>. QED
      BY <3>1, <3>4, <3>6, <3>7, <3>8, <3>9 DEF Resumes
  <2>. QED
    BY <2>1, <2>2 DEF Merge
<1>7. RouteInv'
  BY <1>3, <1>4, <1>5, <1>6, ResumeKeeps
<1>8. SettledIsDecided'
  <2>1. SUFFICES ASSUME NEW d \in Clients, NEW n \in 1 .. issued'[d],
                        \A op \in outbox'[d] : op.number # n
                 PROVE  \E op \in decided'[Resolved[d]] : op.client = d /\ op.number = n
    BY DEF SettledIsDecided
  <2>2. CASE \A op \in outbox[d] : op.number # n
    BY <1>3, <2>1, <2>2 DEF SettledIsDecided
  <2>3. CASE \E op \in outbox[d] : op.number = n
    <3>1. PICK op \in outbox[d] : op.number = n
      BY <2>3
    <3>2. d = c /\ op \in answer[c].decided
      BY <1>4, <2>1, <3>1
    <3>3. op.client = d
      BY DEF RouteInv, RouteTypeOK
    <3>. QED
      BY <1>2, <1>3, <3>1, <3>2, <3>3
  <2>. QED
    BY <2>2, <2>3
<1>. QED
  BY <1>7, <1>8

-----------------------------------------------------------------------------
(* The theorems. *)

\* Every step keeps both invariants.
LEMMA RouteStep == RouteInv /\ SettledIsDecided /\ [Next]_vars => RouteInv' /\ SettledIsDecided'
<1>. SUFFICES ASSUME RouteInv, SettledIsDecided, [Next]_vars
              PROVE  RouteInv' /\ SettledIsDecided'
  OBVIOUS
<1>1. ASSUME NEW c \in Clients, \E bytes \in Sizes : Enqueue(c, bytes)
      PROVE  RouteInv' /\ SettledIsDecided'
  BY <1>1, EnqueueKeeps
<1>2. ASSUME NEW c \in Clients, ClientStep(c)
      PROVE  RouteInv' /\ SettledIsDecided'
  BY <1>2, BeginKeeps, PostKeeps, RetryKeeps, GiveUpKeeps, MergeKeeps DEF ClientStep
<1>3. ASSUME NEW c \in Clients, ServerStep(c)
      PROVE  RouteInv' /\ SettledIsDecided'
  BY <1>3, ServerKeeps
<1>4. ASSUME NEW c \in Clients, LoseConnection(c)
      PROVE  RouteInv' /\ SettledIsDecided'
  BY <1>4, LoseConnectionKeeps
<1>5. CASE \/ \E request \in strays : ServeStray(request)
           \/ Restart
           \/ \E c \in Clients : Spoil(c)
  BY <1>5, NetworkKeeps
<1>6. CASE UNCHANGED vars
  <2>1. UNCHANGED <<clientVars, posted, answer>> /\ UNCHANGED decided
    BY <1>6 DEF vars, clientVars
  <2>2. DOMAIN decided = Streams
    BY DEF RouteInv, RouteTypeOK
  <2>3. SettledStays
    BY <2>1 DEF SettledStays, clientVars
  <2>. QED
    BY <2>1, <2>2, <2>3, ElsewhereKeeps, SettledKept
<1>. QED
  BY <1>1, <1>2, <1>3, <1>4, <1>5, <1>6 DEF Next

\* Requests, answers and attempts account for one another, and what has left an outbox has
\* been decided by the authority of its session's stream (the routes with the client's retry).
LEMMA RouteSafety == Spec => [](RouteInv /\ SettledIsDecided)
<1>1. Init => RouteInv /\ SettledIsDecided
  BY RouteInit
<1>2. (RouteInv /\ SettledIsDecided) /\ [Next]_vars => (RouteInv /\ SettledIsDecided)'
  BY RouteStep
<1>. QED
  BY <1>1, <1>2, PTL DEF Spec

\* server.ts and transport.ts: a pass ends with a commit conflict only after all its attempts,
\* only conflicts use attempts up, and no client refuses an answer to its own request.
THEOREM RouteInductive == Spec => []RouteInv
BY RouteSafety, PTL

\* store.ts and server.ts:154-165: what has left an outbox was decided by the authority of the
\* stream the session resolves to, whatever was lost, spoilt, answered late or served twice.
THEOREM SettledDecided == Spec => []SettledIsDecided
BY RouteSafety, PTL
=============================================================================
