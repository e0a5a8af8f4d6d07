--------------------------- MODULE ServiceRequests --------------------------
(***************************************************************************)
(* The HTTP requests of one instance that ask a service behind the message *)
(* queue, and threads that call the blocking manager directly.             *)
(*                                                                         *)
(* All routes are coroutines of one event loop.  AsyncMqServiceManager     *)
(* hands a request to the loop's default thread pool and awaits it, so the *)
(* loop is free meanwhile; the pool has Workers threads and a queue that   *)
(* grows as it must.  Logins, refreshes and registrations call             *)
(* ClientManager, whose _run_async runs the same coroutine in a thread and *)
(* a loop of its own and waits for it without awaiting: until then the     *)
(* loop belongs to that request.  A thread that calls MQServiceManager     *)
(* waits by itself.  Refusals of access tokens and for too many requests   *)
(* are AccessControl's and RateLimiter's.                                  *)
(***************************************************************************)
EXTENDS BlockingAnswers, Sequences, FiniteSets

CONSTANTS Clients,      \* HTTP clients, each with one request at a time
          Threads,      \* threads that call MQServiceManager
          Workers,      \* threads of the default executor
          Settings,     \* the configurations of the instance to start with
          None          \* the loop is free

Callers == Clients \union Threads

\* A caller's routes, the switches and the configured limit of a setting.
ASSUME SettingsAssumption ==
    /\ \A s \in Settings :
          /\ s.uses \in [Callers -> SUBSET Routes]
          /\ s.email \in BOOLEAN
          /\ s.auth \in BOOLEAN
          /\ s.secrets \in BOOLEAN
          /\ s.connected \in BOOLEAN
          /\ s.limit \in Int
          /\ \A t \in Threads : s.uses[t] \subseteq BlockingRoutes
    /\ Workers \in Nat \ {0}
    /\ IsFiniteSet(Clients)
    /\ Clients \intersect Threads = {}
    /\ None \notin Callers

\* The limit that an instance without one has, and the lengths of inputs.
DefaultLimit == 2

Sizes == 0..(DefaultLimit + 1)

VARIABLES
    setting,  \* the configuration, fixed at the start
    calls,    \* the request of each caller, or the last one it had answered
    queue,    \* requests that wait for a worker, oldest first
    held      \* whose login the event loop waits for, None if it is free

vars == <<setting, calls, queue, held>>

Steps == {"idle", "queued", "sent", "replied", "done"}

NoCall == [step |-> "idle", route |-> "status", left |-> 0,
           reply |-> NoReply, answer |-> Nothing]

Init == /\ setting \in Settings
        /\ calls = [c \in Callers |-> NoCall]
        /\ queue = << >>
        /\ held = None

-----------------------------------------------------------------------------
\* The requests to a service that a route makes, one after the other.
Rounds(route) == IF route \in Storing THEN 2 ELSE 1

\* A limit of zero is no limit to `or`, which takes the default for it; a
\* negative one switches the test off.
Limit == IF setting.limit = 0 THEN DefaultLimit ELSE setting.limit

TooLong(size) == 0 < Limit /\ Limit < size

\* Authentication, when it is on, always has its connector here.
ClientHealth == setting.secrets

MqHealth == TRUE

SocketHealth == setting.connected

Health == IF ClientHealth /\ MqHealth /\ SocketHealth
          THEN Data ELSE Error(500)

\* The route passes an argument that the manager's method does not have.
Unsupported == {"updateUser"}

\* The route may fail to parse the body a second time, and uses it anyway.
Reparsed == {"openai"}

\* The schema lets the data of the node be null; the route looks into it.
Nullable == {"response"}

(***************************************************************************)
(* The answers a route gives without asking: refusals of the manager,      *)
(* exceptions on the way to it, refused refresh tokens, logins when        *)
(* authentication is switched off, and the health of the instance.         *)
(***************************************************************************)
Refusals == {Error(400), Error(401), Error(403)}

EmailDisabled == ~setting.email

\* Without a users service every login is good.
NoUsers(route) == route \in Logins /\ ~setting.auth

AtOnce(c, route, size) ==
    CASE route = "status" -> {Health}
      [] route \in Unsupported /\ c \in Clients -> {Crash}
      [] route \in Reparsed -> {Crash}
      [] route \in Nullable /\ c \in Clients -> {Crash}
      [] route = "email" /\ EmailDisabled -> {Error(503)}
      [] route \in {"stt", "tts"} /\ TooLong(size) -> {Error(400)}
      [] route = "refresh" ->
            IF NoUsers(route) THEN Refusals \union {Data} ELSE Refusals
      [] route # "refresh" /\ NoUsers(route) -> {Data}
      [] OTHER -> {}

\* The routes that go on to ask a service.
Asks(c, route, size) ==
    \/ AtOnce(c, route, size) = {}
    \/ route \in Reparsed \union Nullable
    \/ route = "refresh" /\ ~NoUsers(route)

CanCall(c, route) == /\ calls[c].step \in {"idle", "done"}
                     /\ route \in setting.uses[c]
                     /\ c \in Clients => held = None

Called(c, route, step) ==
    calls' = [calls EXCEPT ![c] = [NoCall EXCEPT !.step = step,
                                                 !.route = route,
                                                 !.left = Rounds(route)]]

AnswerAtOnce(c, route) ==
    /\ CanCall(c, route)
    /\ \E size \in Sizes : \E answer \in AtOnce(c, route, size) :
          calls' = [calls EXCEPT ![c] = [NoCall EXCEPT !.step = "done",
                                                       !.route = route,
                                                       !.answer = answer]]
    /\ UNCHANGED <<setting, queue, held>>

\* Mutant of Enqueue: the last come are served first.
JumpQueue(c) == <<c>> \o queue

Enqueue(c) == Append(queue, c)

\* Mutant of Submit: the calls of a thread go through the executor too.
SubmitAny(c, route) ==
    /\ route \notin Logins
    /\ CanCall(c, route)
    /\ \E size \in Sizes : Asks(c, route, size)
    /\ Called(c, route, "queued")
    /\ queue' = Enqueue(c)
    /\ UNCHANGED <<setting, held>>

\* The route awaits run_in_executor.
Submit(c, route) ==
    /\ c \in Clients
    /\ route \notin Logins
    /\ CanCall(c, route)
    /\ \E size \in Sizes : Asks(c, route, size)
    /\ Called(c, route, "queued")
    /\ queue' = Enqueue(c)
    /\ UNCHANGED <<setting, held>>

\* A private loop has a private executor: the request never waits for one.
LoginStep == "sent"

LogIn(c, route) ==
    /\ c \in Clients
    /\ route \in Logins
    /\ CanCall(c, route)
    /\ \E size \in Sizes : Asks(c, route, size)
    /\ Called(c, route, LoginStep)
    /\ held' = c
    /\ UNCHANGED <<setting, queue>>

\* A thread sends for itself.
Call(c, route) ==
    /\ c \in Threads
    /\ route \in BlockingRoutes
    /\ CanCall(c, route)
    /\ \E size \in Sizes : Asks(c, route, size)
    /\ Called(c, route, "sent")
    /\ UNCHANGED <<setting, queue, held>>

Busy == {c \in Clients : calls[c].step = "sent" /\ calls[c].route \notin Logins}

StartWork ==
    /\ queue # << >>
    /\ Cardinality(Busy) < Workers
    /\ calls' = [calls EXCEPT ![Head(queue)].step = "sent"]
    /\ queue' = Tail(queue)
    /\ UNCHANGED <<setting, held>>

\* What was read is good enough to store a token with it: a user without a
\* password hash is not for a refresh, and may not be for a login.
Usable(call, reply) ==
    /\ call.left > 1
    /\ reply.content = "good" \/ (reply.content = "unhashed" /\ call.route = "login")

\* A reply ends the request to the service; the one to the last request that
\* the route makes is kept for its coroutine.
Arrived(c, reply) ==
    /\ calls[c].step = "sent"
    /\ \/ /\ Usable(calls[c], reply)
          /\ calls' = [calls EXCEPT ![c].left = @ - 1]
       \/ /\ ~(Usable(calls[c], reply) /\ reply.content = "good")
          /\ calls' = [calls EXCEPT ![c].step = "replied", ![c].reply = reply]
    /\ UNCHANGED <<setting, queue, held>>

Respond(c) == \E reply \in RepliesOf(calls[c].route) : Arrived(c, reply)

\* Mutant of GiveUp: a login waits for the users service as long as it takes.
GiveUpUnlessLogin(c) == /\ calls[c].route \notin Logins
                        /\ \E reply \in {NoReply, TimedOut} : Arrived(c, reply)

GiveUp(c) == \E reply \in {NoReply, TimedOut} : Arrived(c, reply)

Answered(c, answer) ==
    calls' = [calls EXCEPT ![c].step = "done", ![c].answer = answer]

\* The private loop of a login needs nothing of the loop that waits for it.
LoopRuns(c) == held \in {c, None}

\* What the manager's method, or ClientManager's, ends with.
Result(call) ==
    IF call.route \in Storing /\ call.reply # TimedOut
    THEN IF call.left > 1 THEN ReadOutcome(call.route, call.reply)
                          ELSE StoreOutcome(call.reply)
    ELSE AsyncOutcome(call.route, call.reply)

Finish(c) ==
    /\ c \in Clients
    /\ calls[c].step = "replied"
    /\ LoopRuns(c)
    /\ Answered(c, Http(calls[c].route, Result(calls[c])))
    /\ held' = None
    /\ UNCHANGED <<setting, queue>>

Return(c) ==
    /\ c \in Threads
    /\ calls[c].step = "replied"
    /\ Answered(c, BlockingOutcome(calls[c].route, calls[c].reply))
    /\ UNCHANGED <<setting, queue, held>>

Next ==
    \/ \E c \in Callers : \E route \in Routes :
          AnswerAtOnce(c, route) \/ Submit(c, route) \/ LogIn(c, route)
          \/ Call(c, route)
    \/ StartWork
    \/ \E c \in Callers : Respond(c) \/ GiveUp(c) \/ Finish(c) \/ Return(c)

Spec == Init /\ [][Next]_vars

(***************************************************************************)
(* Workers take what is queued, send_mq_request gives up in the end, and   *)
(* threads go on.  The event loop takes ready coroutines in turn: one that *)
(* is ready again and again between two logins is resumed (strong          *)
(* fairness).  Services and clients promise nothing.                       *)
(***************************************************************************)
Fairness == /\ WF_vars(StartWork)
            /\ \A c \in Callers : WF_vars(GiveUp(c)) /\ WF_vars(Return(c))
            /\ \A c \in Callers : SF_vars(Finish(c))

FairSpec == Spec /\ Fairness

-----------------------------------------------------------------------------
CallRecords == [step : Steps, route : Routes, left : 0..2,
                reply : AllReplies, answer : Outcomes]

\* Types: every answer is one of the codes and bodies the routes document or
\* fall back to, or a code of the users service.
TypeOK == /\ setting \in Settings
          /\ calls \in [Callers -> CallRecords]
          /\ queue \in Seq(Clients)
          /\ held \in Clients \union {None}

\* An answer is never sent with an interim status, one below 200, whatever a
\* proxied service says; only the codes of the users service are passed on
\* unread, by the routes that ask it.
InterimCodesAreUsers ==
    \A c \in Callers :
        /\ calls[c].step = "done"
        /\ calls[c].answer.code < 200
        => /\ calls[c].route \in UserRoutes
           /\ calls[c].answer.code = calls[c].reply.status

AskedNobody(call) == call.route \in {"status", "metric"} \/ NoUsers(call.route)

(***************************************************************************)
(* The exceptions to the next property.  An LLM's missing answer and that  *)
(* of the skills service are passed on as empty ones; a token counts as    *)
(* stored when the users service refuses it with the code 200.  The        *)
(* blocking manager's callers have no response model behind them: they are *)
(* given whatever a proxied service sent with the status 200, coupons that *)
(* hold none, and the message the users service refuses with and the code  *)
(* 200, in the user's place.                                               *)
(***************************************************************************)
Unverified(c, call) ==
    \/ call.route \in ListsOfSkills \union {"llm"}
    \/ call.route \in Storing /\ call.left < 2 /\ RefusedWith200(call.reply)
    \/ /\ c \in Threads
       /\ \/ call.route \in Proxied /\ call.reply.status = 200
          \/ call.route = "coupons"
          \/ call.route \in UserRoutes /\ RefusedWith200(call.reply)

\* A caller is told of success only when the service did what this route asks
\* of it: content that is malformed, misses the route's fields or is an error
\* ends in an error.  The exceptions are Unverified's.
SuccessIsServed ==
    \A c \in Callers :
        /\ calls[c].step = "done"
        /\ calls[c].answer.code = 200
        /\ ~Served(calls[c].route, calls[c].reply)
        => AskedNobody(calls[c]) \/ Unverified(c, calls[c])

\* A service that keeps silent is reported as an error, except by the LLM
\* routes, which answer 200 with an empty response, by the blocking manager's
\* get_coupons, whose callers have no response model to find the empty reply,
\* and for metrics, which wait for nothing.
SilenceIsNoSuccess ==
    \A c \in Callers :
        /\ calls[c].step = "done"
        /\ calls[c].answer.code = 200
        /\ calls[c].reply \in {NoReply, TimedOut}
        => \/ AskedNobody(calls[c])
           \/ calls[c].route = "llm"
           \/ c \in Threads /\ calls[c].route = "coupons"

\* Every request is answered, whatever the service does, behind however many
\* slow ones it was queued and however many logins and refreshes take the loop
\* meanwhile.
RequestsAreAnswered ==
    \A c \in Callers :
        calls[c].step \in {"queued", "sent", "replied"} ~> calls[c].step = "done"

\* The loop comes back from every login, refresh and registration: the
\* coroutine that it waits for needs no turn of the loop that waits.
LoopComesBack == held # None ~> held = None
=============================================================================
