--------------------------- MODULE ServiceAnswers ---------------------------
(***************************************************************************)
(* What AsyncMqServiceManager makes of the reply of a service behind the   *)
(* message queue, and what FastAPI then sends to the HTTP client.          *)
(*                                                                         *)
(* A reply is what send_mq_request returns: the status the API proxy or    *)
(* the users service gives it (0 when there is none), the form of its      *)
(* content, and whether the content has the fields of the route's schema.  *)
(* An outcome is how the manager's method ends: it returns or raises, with *)
(* the status of the HTTP answer and a body.                               *)
(***************************************************************************)
EXTENDS Integers

Stocks == {"symbol", "quote"}

Proxied == Stocks \union {"weather", "geocode", "reverse", "wolfram"}

\* A login and a refresh read the user and store the pair of tokens they made.
Storing == {"login", "refresh"}

\* The routes that ask the users service from a synchronous function.
Logins == Storing \union {"register"}

ListsOfSkills == {"skills", "callSkill"}

Inferences == {"inference", "openai"}

\* The routes of the LLMs differ only in the queue they write to.
Chats == {"llm"}

\* The routes answered from _query_users_api_async.
UserRoutes == Logins \union {"getUser", "updateUser"}

Routes == Proxied \union ListsOfSkills \union Inferences \union Chats
          \union UserRoutes
          \union {"email", "metric", "ccl", "coupons", "stt", "tts",
                  "response", "models", "personas", "status"}

-----------------------------------------------------------------------------
(***************************************************************************)
(* Replies.  The content of a proxied reply is JSON text: a "string", a    *)
(* "scalar" (a number, a truth value or null), an "object", a list of      *)
(* "objects", an "empty" list, a list of "scalars"; or "text" that is no   *)
(* JSON.  Other services reply with what is asked ("good"), with an object *)
(* that "lacks" it, or report that they "failed".  The users service may   *)
(* reply with an "unhashed" user, one without a password hash, and gives a *)
(* failure a code of its choice.                                           *)
(***************************************************************************)
NoStatus == 0

Reply(status, content, fits) ==
    [status |-> status, content |-> content, fits |-> fits]

\* send_mq_request returns {} when nothing came in time, or raises.
NoReply == Reply(NoStatus, "absent", FALSE)

TimedOut == Reply(NoStatus, "raised", FALSE)

ProxyReplies ==
    {Reply(status, content, FALSE) :
        status \in {NoStatus, 100, 201, 404}, content \in {"absent", "text"}}
    \union {Reply(200, content, FALSE) :
        content \in {"absent", "text", "string", "scalar", "empty", "scalars"}}
    \union {Reply(200, content, fits) :
        content \in {"object", "objects"}, fits \in BOOLEAN}

OtherReplies ==
    {Reply(NoStatus, content, content = "good") :
        content \in {"good", "lacks", "failed"}}

UsersReplies ==
    {Reply(NoStatus, content, content = "good") :
        content \in {"good", "lacks", "unhashed"}}
    \union {Reply(status, "failed", FALSE) : status \in {NoStatus, 100, 200, 404}}

\* A metric is published without waiting for a reply.
RepliesOf(route) == CASE route \in Proxied -> ProxyReplies
                      [] route \in UserRoutes -> UsersReplies
                      [] route = "metric" -> {NoReply}
                      [] OTHER -> OtherReplies

AllReplies == ProxyReplies \union OtherReplies \union UsersReplies
              \union {NoReply, TimedOut}

-----------------------------------------------------------------------------
(***************************************************************************)
(* Outcomes of the manager's methods                                       *)
(***************************************************************************)
Outcome(code, body) == [code |-> code, body |-> body]

\* An exception that nothing handles is a bare "Internal Server Error".
Crash == Outcome(500, "bare")

\* An APIError or another HTTPException, with its detail.
Error(code) == Outcome(code, "error")

Data == Outcome(200, "data")

\* What is returned lacks what it should have; the manager does not look.
Misfit == Outcome(200, "misfit")

Returned(fits) == IF fits THEN Data ELSE Misfit

Nothing == Outcome(200, "empty")

\* Mutant of ErrorCode: whatever the service says is passed on.
AnyCode(status) == IF status > 0 THEN status ELSE 500

\* Anything up to 200 is no error to be passed on.
ErrorCode(status) == IF status > 200 THEN status ELSE 500

\* The status of a reply, 500 when the service sent none.
Status(reply) == IF reply.status = NoStatus THEN 500 ELSE reply.status

\* The content that is put into a reply without one holds that very reply.
Detail(reply) == IF reply.content = "absent" THEN "circular" ELSE "error"

ProxyError(reply) == Outcome(ErrorCode(Status(reply)), Detail(reply))

Spoken == Outcome(200, "answer")

\* The response model demands the field that only a list is reformatted to.
NeedsList == {"geocode"}

\* The stock service's content is written to before it is known to be an
\* object; json.loads accepts no dict, and a list of scalars does not merge.
Decoded(route, reply) ==
    IF \/ reply.content \in {"absent", "scalars"}
       \/ route \in Stocks /\ reply.content \notin {"text", "object"}
    THEN Crash
    ELSE CASE reply.content \in {"text", "string", "empty"} -> Spoken
           [] reply.content = "object" ->
                Returned(reply.fits /\ route \notin NeedsList)
           [] reply.content = "objects" -> Returned(reply.fits)
           [] OTHER -> ProxyError(reply)

\* Mutant of ProxyOutcome: the status of the reply is not looked at.
DecodedAnyway(route, reply) == Decoded(route, reply)

ProxyOutcome(route, reply) ==
    IF Status(reply) = 200 THEN Decoded(route, reply) ELSE ProxyError(reply)

LlmOutcome(reply) ==
    IF reply.content = "good" THEN Data ELSE Nothing

EmailOutcome(reply) ==
    IF reply.content = "good" THEN Data ELSE Error(500)

MetricOutcome == Data

\* A reply that lacks a field raises KeyError, or ValidationError where a
\* pydantic model is made of it.
FieldOutcome(reply) == IF reply.content = "good" THEN Data ELSE Crash

CclOutcome(reply) ==
    IF reply = TimedOut THEN Error(500) ELSE FieldOutcome(reply)

CouponsOutcome(reply) ==
    IF reply = TimedOut THEN Error(500) ELSE Returned(reply.content = "good")

SttOutcome(reply) == FieldOutcome(reply)

TtsOutcome(reply) == FieldOutcome(reply)

\* The session that the reply carries is the module ResponseSessions'.
ResponseOutcome(reply) == FieldOutcome(reply)

ModelsOutcome(reply) == FieldOutcome(reply)

\* A model that is not available comes back as null.
PersonasOutcome(reply) ==
    IF reply.content = "failed" THEN Error(400) ELSE FieldOutcome(reply)

InferenceOutcome(reply) ==
    IF reply.content = "good" THEN Data ELSE Error(500)

\* Mutant of SkillsOutcome: silence is an empty table.
UncheckedSkills(reply) ==
    CASE reply.content = "good" -> Data
      [] reply.content = "failed" -> Crash
      [] OTHER -> Nothing

SkillsOutcome(reply) ==
    CASE reply = NoReply -> Error(500)
      [] reply.content = "good" -> Data
      [] reply.content = "lacks" -> Nothing
      [] OTHER -> Crash

\* What the skill answered is passed on as it is.
CallOutcome(reply) ==
    CASE reply = NoReply -> Error(500)
      [] reply.content = "lacks" -> Nothing
      [] OTHER -> Returned(reply.fits)

\* A refusal of the users service with the code of a success.
RefusedWith200(reply) == reply.content = "failed" /\ reply.status = 200

\* The users service's own code is passed on, 500 when it gives none.  With
\* the code 200 its error message is returned in the user's place.
UsersOutcome(reply) ==
    CASE reply.content \in {"good", "unhashed"} -> Data
      [] reply.content = "failed" \/ reply = NoReply ->
            IF RefusedWith200(reply) THEN Misfit ELSE Error(Status(reply))
      [] OTHER -> Crash

\* A login or a refresh looks into the user it reads: a message in its place
\* is an AttributeError.  Only a refresh tests the password hash; a login's
\* store rejects a user without one, or does not.
ReadOutcome(route, reply) ==
    CASE UsersOutcome(reply) = Misfit -> Crash
      [] reply.content = "unhashed" ->
            IF route = "refresh" THEN Error(500) ELSE Crash
      [] OTHER -> UsersOutcome(reply)

\* What update_user returns is not used.
StoreOutcome(reply) ==
    IF UsersOutcome(reply) = Misfit THEN Data ELSE UsersOutcome(reply)

\* The methods that expect TimeoutError.
Expecting == {"ccl", "coupons"}

AsyncOutcome(route, reply) ==
    IF reply = TimedOut /\ route \notin Expecting
    THEN Crash
    ELSE CASE route = "ccl" -> CclOutcome(reply)
           [] route = "coupons" -> CouponsOutcome(reply)
           [] route \in Proxied -> ProxyOutcome(route, reply)
           [] route \in Chats -> LlmOutcome(reply)
           [] route = "email" -> EmailOutcome(reply)
           [] route = "metric" -> MetricOutcome
           [] route = "stt" -> SttOutcome(reply)
           [] route = "tts" -> TtsOutcome(reply)
           [] route = "response" -> ResponseOutcome(reply)
           [] route = "models" -> ModelsOutcome(reply)
           [] route = "personas" -> PersonasOutcome(reply)
           [] route \in Inferences -> InferenceOutcome(reply)
           [] route = "skills" -> SkillsOutcome(reply)
           [] route \in UserRoutes -> UsersOutcome(reply)
           [] OTHER -> CallOutcome(reply)

\* Only the schema of /wolframalpha has the field "answer".
AnswerRoutes == {"wolfram"}

(***************************************************************************)
(* What the client receives.  A body that does not fit the response model  *)
(* of the route, and a detail that cannot be written as JSON, end as bare  *)
(* errors.                                                                 *)
(***************************************************************************)
Http(route, outcome) ==
    IF \/ outcome.body \in {"misfit", "circular"}
       \/ outcome.body = "answer" /\ route \notin AnswerRoutes
    THEN Crash
    ELSE outcome

Bodies == {"data", "answer", "empty", "misfit", "error", "circular", "bare"}

Codes == {100, 200, 201, 400, 401, 403, 404, 500, 503}

Outcomes == [code : Codes, body : Bodies]

-----------------------------------------------------------------------------
\* Reference: the service did what it was asked for, judged by its reply and
\* by what the route asks: of the proxied services only Wolfram|Alpha answers
\* in text, the others with the fields of their schema.
Served(route, reply) ==
    IF route \in Proxied
    THEN /\ reply.status = 200
         /\ \/ reply.fits
            \/ /\ route \in AnswerRoutes
               /\ reply.content \in {"text", "string", "empty"}
    ELSE \/ reply.content = "good"
         \/ route \in UserRoutes /\ reply.content = "unhashed"
=============================================================================
