----------------------- MODULE ServiceRequestsProofs ------------------------
(***************************************************************************)
(* Theorems about ServiceRequests, for any callers, workers and settings:  *)
(* types, the codes of answers, and that success is only reported for what *)
(* was served and never for silence.                                       *)
(***************************************************************************)
EXTENDS ServiceRequests, TLAPS

-----------------------------------------------------------------------------
(* Lemmas about replies and what the two managers make of them. *)

Contents == {"absent", "text", "string", "scalar", "object", "objects",
             "empty", "scalars", "good", "lacks", "unhashed", "failed", "raised"}

\* A reply has one of a few statuses, content that is known to fit only when
\* it is an object, and objects only with the status 200.
IsReply(reply) ==
    /\ reply.status \in {NoStatus, 100, 200, 201, 404}
    /\ reply.content \in Contents
    /\ reply.fits \in BOOLEAN
    /\ reply.fits => reply.content \in {"object", "objects", "good"}
    /\ reply.content \in {"object", "objects"} => reply.status = 200
    /\ reply.content = "raised" => reply = TimedOut

LEMMA UnfitReplies ==
    ASSUME NEW status \in {NoStatus, 100, 200, 201, 404},
           NEW content \in Contents \ {"object", "objects", "raised"}
    PROVE  IsReply(Reply(status, content, FALSE))
BY SMT DEF IsReply, Reply, NoStatus

LEMMA FittingReplies ==
    ASSUME NEW content \in {"object", "objects"}, NEW fits \in BOOLEAN
    PROVE  IsReply(Reply(200, content, fits))
BY SMT DEF IsReply, Reply, NoStatus, Contents

LEMMA OtherRepliesFit ==
    ASSUME NEW content \in {"good", "lacks", "unhashed", "failed"}
    PROVE  IsReply(Reply(NoStatus, content, content = "good"))
<1> DEFINE reply == Reply(NoStatus, content, content = "good")
<1>1. reply.status = NoStatus /\ reply.content = content
  BY DEF Reply
<1>2. reply.fits \in BOOLEAN /\ (reply.fits => content = "good")
  BY Zenon DEF Reply
<1> HIDE DEF reply
<1>3. IsReply(reply)
  BY <1>1, <1>2 DEF IsReply, Contents
<1> QED BY <1>3 DEF reply

LEMMA SilenceIsReply == IsReply(NoReply) /\ IsReply(TimedOut)
BY SMT DEF IsReply, NoReply, TimedOut, Reply, NoStatus, Contents

LEMMA RepliesAreReplies ==
    ASSUME NEW reply \in AllReplies
    PROVE  IsReply(reply)
<1>1. CASE reply \in ProxyReplies
  <2>1. CASE \E status \in {NoStatus, 100, 201, 404}, content \in {"absent", "text"} :
                reply = Reply(status, content, FALSE)
    <3>1. PICK status \in {NoStatus, 100, 201, 404}, content \in {"absent", "text"} :
              reply = Reply(status, content, FALSE)
      BY <2>1
    <3>2. /\ status \in {NoStatus, 100, 200, 201, 404}
          /\ content \in Contents \ {"object", "objects", "raised"}
      BY DEF Contents
    <3> QED BY <3>1, <3>2, UnfitReplies DEF Reply
  <2>2. CASE \E content \in {"absent", "text", "string", "scalar",
                             "empty", "scalars"} :
                reply = Reply(200, content, FALSE)
    <3>1. PICK content \in {"absent", "text", "string", "scalar", "empty", "scalars"} :
              reply = Reply(200, content, FALSE)
      BY <2>2
    <3>2. content \in Contents \ {"object", "objects", "raised"}
      BY DEF Contents
    <3> QED BY <3>1, <3>2, UnfitReplies DEF Reply
  <2>3. CASE \E content \in {"object", "objects"}, fits \in BOOLEAN :
                reply = Reply(200, content, fits)
    BY <2>3, FittingReplies, Zenon
  <2>4. \/ \E status \in {NoStatus, 100, 201, 404}, content \in {"absent", "text"} :
                reply = Reply(status, content, FALSE)
        \/ \E content \in {"absent", "text", "string", "scalar", "empty", "scalars"} :
                reply = Reply(200, content, FALSE)
        \/ \E content \in {"object", "objects"}, fits \in BOOLEAN :
                reply = Reply(200, content, fits)
    BY <1>1, SMT DEF ProxyReplies, Reply
  <2> QED BY <2>1, <2>2, <2>3, <2>4
<1>2. CASE reply \in OtherReplies
  BY <1>2, OtherRepliesFit, Zenon DEF OtherReplies
<1>3. CASE reply \in {NoReply, TimedOut}
  BY <1>3, SilenceIsReply
<1>4. CASE reply \in UsersReplies
  <2>1. CASE \E content \in {"good", "lacks", "unhashed"} :
                reply = Reply(NoStatus, content, content = "good")
    BY <2>1, OtherRepliesFit, Zenon
  <2>2. CASE \E status \in {NoStatus, 100, 200, 404} :
                reply = Reply(status, "failed", FALSE)
    <3>1. PICK status \in {NoStatus, 100, 200, 404} :
              reply = Reply(status, "failed", FALSE)
      BY <2>2
    <3>2. /\ status \in {NoStatus, 100, 200, 201, 404}
          /\ "failed" \in Contents \ {"object", "objects", "raised"}
      BY DEF Contents
    <3> QED BY <3>1, <3>2, UnfitReplies DEF Reply
  <2> QED BY <1>4, <2>1, <2>2, Zenon DEF UsersReplies
<1> QED BY <1>1, <1>2, <1>3, <1>4, Zenon DEF AllReplies

\* Replies to a route, and silence, are among the replies modelled.
LEMMA RoutesHaveReplies ==
    ASSUME NEW route, NEW reply \in RepliesOf(route) \union {NoReply, TimedOut}
    PROVE  reply \in AllReplies
<1>1. RepliesOf(route) \subseteq ProxyReplies \union OtherReplies \union UsersReplies
                             \union {NoReply}
  BY Zenon DEF RepliesOf
<1> QED BY <1>1, Zenon DEF AllReplies

-----------------------------------------------------------------------------
(* What the managers make of a reply is sound. *)

\* What the blocking manager passes on unverified, but for the routes below.
Blind(route, reply) ==
    \/ route \in Proxied /\ reply.status = 200
    \/ route = "coupons"
    \/ route \in UserRoutes /\ RefusedWith200(reply)

\* An outcome of success was served, or does not pass the response model.
Sound(route, reply, outcome) ==
    /\ outcome \in Outcomes
    /\ outcome.code = 200
       => \/ Served(route, reply)
          \/ /\ Blind(route, reply)
             /\ \/ outcome.body = "misfit"
                \/ outcome.body = "answer" /\ route \notin AnswerRoutes
    /\ outcome.code < 200 => route \in UserRoutes /\ outcome.code = reply.status

LEMMA OutcomesAreOutcomes ==
    ASSUME NEW code \in Codes, NEW body \in Bodies
    PROVE  /\ Outcome(code, body) \in Outcomes
           /\ Outcome(code, body).code = code
           /\ Outcome(code, body).body = body
BY DEF Outcome, Outcomes

LEMMA CommonOutcomes ==
    /\ {Crash, Nothing, Spoken, Data, Misfit} \subseteq Outcomes
    /\ \A code \in Codes : Error(code) \in Outcomes /\ Error(code).code = code
    /\ Crash.code = 500
    /\ \A outcome \in {Nothing, Spoken, Data, Misfit} : outcome.code = 200
    /\ Misfit.body = "misfit" /\ Spoken.body = "answer"
BY DEF Outcome, Outcomes, Codes, Bodies, Crash, Nothing, Spoken, Data, Misfit, Error

\* Errors promise nothing.
LEMMA FailuresAreSound ==
    ASSUME NEW route, NEW reply
    PROVE  /\ Sound(route, reply, Crash)
           /\ \A code \in {400, 500} : Sound(route, reply, Error(code))
BY CommonOutcomes DEF Sound, Codes

LEMMA ServedIsSound ==
    ASSUME NEW route, NEW reply, Served(route, reply)
    PROVE  \A outcome \in {Nothing, Spoken, Data, Misfit} : Sound(route, reply, outcome)
BY CommonOutcomes DEF Sound

\* The API proxy's errors have a status above 200.
LEMMA ProxyErrorsAreSound ==
    ASSUME NEW route, NEW reply, IsReply(reply)
    PROVE  Sound(route, reply, ProxyError(reply))
<1>1. /\ ErrorCode(Status(reply)) \in {201, 404, 500}
      /\ Detail(reply) \in {"error", "circular"}
  BY DEF IsReply, ErrorCode, Status, Detail, NoStatus
<1>2. /\ ProxyError(reply) \in Outcomes
      /\ ProxyError(reply).code \in {201, 404, 500}
  BY <1>1, OutcomesAreOutcomes DEF ProxyError, Codes, Bodies
<1> QED BY <1>2 DEF Sound

LEMMA ProxyIsSound ==
    ASSUME NEW route \in Proxied, NEW reply, IsReply(reply)
    PROVE  Sound(route, reply, ProxyOutcome(route, reply))
<1>1. CASE Status(reply) = 200
  <2>1. reply.status = 200
    BY <1>1 DEF Status, IsReply, NoStatus
  <2>2. Blind(route, reply)
    BY <2>1 DEF Blind
  <2>3. Sound(route, reply, Crash) /\ Sound(route, reply, ProxyError(reply))
    BY FailuresAreSound, ProxyErrorsAreSound
  <2>4. Sound(route, reply, Misfit)
    BY <2>2, CommonOutcomes DEF Sound
  <2>5. reply.fits => Sound(route, reply, Data)
    BY <2>1, ServedIsSound DEF Served
  <2>6. reply.content \in {"text", "string", "empty"} => Sound(route, reply, Spoken)
    <3>1. CASE route \in AnswerRoutes
      BY <2>1, <3>1, ServedIsSound DEF Served
    <3>2. CASE route \notin AnswerRoutes
      BY <2>2, <3>2, CommonOutcomes DEF Sound
    <3> QED BY <3>1, <3>2
  <2>7. CASE reply.content = "object" /\ Decoded(route, reply) # Crash
    <3>1. Decoded(route, reply) = Returned(reply.fits /\ route \notin NeedsList)
      BY <2>7, Zenon DEF Decoded
    <3> QED BY <1>1, <2>4, <2>5, <3>1, Zenon DEF Returned, ProxyOutcome
  <2>8. CASE reply.content = "objects" /\ Decoded(route, reply) # Crash
    <3>1. Decoded(route, reply) = Returned(reply.fits)
      BY <2>8, Zenon DEF Decoded
    <3> QED BY <1>1, <2>4, <2>5, <3>1, Zenon DEF Returned, ProxyOutcome
  <2>9. CASE reply.content \notin {"object", "objects"} \/ Decoded(route, reply) = Crash
    <3>1. Sound(route, reply, Decoded(route, reply))
      BY <2>3, <2>6, <2>9 DEF Decoded
    <3> QED BY <1>1, <3>1 DEF ProxyOutcome
  <2> QED BY <2>7, <2>8, <2>9
<1>2. CASE Status(reply) # 200
  BY <1>2, ProxyErrorsAreSound DEF ProxyOutcome
<1> QED BY <1>1, <1>2

LEMMA SilenceIsAbsent ==
    /\ NoReply.content = "absent" /\ TimedOut.content = "raised"
    /\ NoReply.status = NoStatus /\ TimedOut.status = NoStatus
    /\ ~NoReply.fits /\ ~TimedOut.fits
    /\ NoReply # TimedOut
BY DEF NoReply, TimedOut, Reply

LEMMA UsersAreSound ==
    ASSUME NEW route \in UserRoutes, NEW reply, IsReply(reply)
    PROVE  Sound(route, reply, UsersOutcome(reply))
<1>0. route \notin Proxied
  BY DEF UserRoutes, Logins, Storing, Proxied, Stocks
<1>1. CASE reply.content \in {"good", "unhashed"}
  <2>1. UsersOutcome(reply) = Data
    BY <1>1, SilenceIsAbsent DEF UsersOutcome
  <2>2. Served(route, reply)
    BY <1>0, <1>1 DEF Served
  <2> QED BY <2>1, <2>2, ServedIsSound
<1>2. CASE RefusedWith200(reply)
  <2>1. UsersOutcome(reply) = Misfit
    BY <1>2 DEF UsersOutcome, RefusedWith200
  <2> QED BY <1>2, <2>1, CommonOutcomes DEF Sound, Blind
<1>3. CASE (reply.content = "failed" \/ reply = NoReply) /\ ~RefusedWith200(reply)
  <2>1. UsersOutcome(reply) = Error(Status(reply))
    BY <1>3, SilenceIsAbsent DEF UsersOutcome
  <2>2. /\ Status(reply) \in Codes /\ Status(reply) # 200
        /\ Status(reply) < 200 => Status(reply) = reply.status
    BY <1>3, SilenceIsAbsent DEF Status, IsReply, Codes, NoStatus, RefusedWith200
  <2> QED BY <2>1, <2>2, CommonOutcomes DEF Sound
<1>4. CASE reply.content \notin {"good", "unhashed", "failed"} /\ reply # NoReply
  BY <1>4, FailuresAreSound DEF UsersOutcome
<1> QED BY <1>1, <1>2, <1>3, <1>4 DEF RefusedWith200

LEMMA OthersAreSound ==
    ASSUME NEW route, route \notin Proxied, NEW reply, IsReply(reply)
    PROVE  /\ Sound(route, reply, FieldOutcome(reply))
           /\ Sound(route, reply, EmailOutcome(reply))
           /\ Sound(route, reply, InferenceOutcome(reply))
           /\ Sound(route, reply, PersonasOutcome(reply))
           /\ Sound(route, reply, CclOutcome(reply))
<1>1. /\ Sound(route, reply, Crash)
      /\ Sound(route, reply, Error(400)) /\ Sound(route, reply, Error(500))
  BY FailuresAreSound
<1>2. reply.content = "good" => Sound(route, reply, Data)
  BY ServedIsSound DEF Served
<1>3. Sound(route, reply, FieldOutcome(reply))
  BY <1>1, <1>2, Zenon DEF FieldOutcome
<1>4. Sound(route, reply, EmailOutcome(reply))
  BY <1>1, <1>2, Zenon DEF EmailOutcome
<1>5. Sound(route, reply, InferenceOutcome(reply))
  BY <1>1, <1>2, Zenon DEF InferenceOutcome
<1>6. Sound(route, reply, PersonasOutcome(reply))
  BY <1>1, <1>3, Zenon DEF PersonasOutcome
<1>7. Sound(route, reply, CclOutcome(reply))
  BY <1>1, <1>3, Zenon DEF CclOutcome
<1> QED BY <1>3, <1>4, <1>5, <1>6, <1>7

LEMMA CouponsAreSound ==
    ASSUME NEW reply, IsReply(reply)
    PROVE  Sound("coupons", reply, CouponsOutcome(reply))
<1>1. Sound("coupons", reply, Error(500)) /\ Sound("coupons", reply, Misfit)
  BY FailuresAreSound, CommonOutcomes DEF Sound, Blind
<1>2. "coupons" \notin Proxied
  BY DEF Proxied, Stocks
<1>3. reply.content = "good" => Sound("coupons", reply, Data)
  BY <1>2, ServedIsSound DEF Served
<1> QED BY <1>1, <1>3, Zenon DEF CouponsOutcome, Returned

\* Metrics and the health of the instance wait for nothing, an LLM's and the
\* skills service's missing answer is passed on as an empty one: these answers
\* are final, and that is all.
Hiding == {"metric", "status"} \union Chats \union ListsOfSkills

Final(outcome) == outcome \in Outcomes /\ outcome.code >= 200

LEMMA HidingIsFinal ==
    ASSUME NEW reply
    PROVE  /\ Final(MetricOutcome) /\ Final(LlmOutcome(reply))
           /\ Final(SkillsOutcome(reply)) /\ Final(CallOutcome(reply))
           /\ Final(Crash)
<1>1. Final(Data) /\ Final(Nothing) /\ Final(Misfit) /\ Final(Crash) /\ Final(Error(500))
  BY CommonOutcomes DEF Final, Codes
<1>2. Final(MetricOutcome) /\ Final(LlmOutcome(reply))
  BY <1>1 DEF MetricOutcome, LlmOutcome
<1>3. SkillsOutcome(reply) \in {Data, Nothing, Crash, Error(500)}
  BY SilenceIsAbsent DEF SkillsOutcome
<1>4. CallOutcome(reply) \in {Data, Nothing, Misfit, Error(500)}
  BY SilenceIsAbsent DEF CallOutcome, Returned
<1> QED BY <1>1, <1>2, <1>3, <1>4

LEMMA SilentSkills ==
    ASSUME NEW route \in ListsOfSkills, NEW reply \in {NoReply, TimedOut}
    PROVE  AsyncOutcome(route, reply).code = 500
<1>1. SkillsOutcome(NoReply) = Error(500) /\ CallOutcome(NoReply) = Error(500)
  BY SilenceIsAbsent DEF SkillsOutcome, CallOutcome
<1>2. Crash.code = 500 /\ Error(500).code = 500
  BY CommonOutcomes DEF Codes
<1>3. CASE reply = TimedOut
  BY <1>2, <1>3 DEF AsyncOutcome, Expecting, ListsOfSkills
<1>4. CASE reply = NoReply
  BY SilenceIsAbsent, <1>1, <1>2, <1>4
     DEF AsyncOutcome, ListsOfSkills, Proxied, Stocks, Chats, Inferences,
         UserRoutes, Logins, Storing
<1> QED BY <1>3, <1>4

\* The routes that are asked for a field, an e-mail or an inference.
OtherRoutes ==
    Routes \ (Hiding \union Proxied \union UserRoutes \union {"coupons"})

LEMMA RoutesDiffer ==
    /\ OtherRoutes \intersect (Hiding \union Proxied \union UserRoutes) = {}
    /\ UserRoutes \intersect (Hiding \union Proxied \union {"coupons"}) = {}
    /\ Proxied \intersect (Hiding \union {"coupons"}) = {}
    /\ "coupons" \notin Hiding
BY DEF OtherRoutes, Hiding, Chats, ListsOfSkills, UserRoutes, Logins, Storing,
       Proxied, Stocks

LEMMA AsyncOutcomes ==
    ASSUME NEW route \in Routes, NEW reply \in AllReplies
    PROVE  IF route \in Hiding
           THEN Final(AsyncOutcome(route, reply))
           ELSE Sound(route, reply, AsyncOutcome(route, reply))
<1>1. IsReply(reply)
  BY RepliesAreReplies
<1>2. CASE reply = TimedOut /\ route \notin Expecting
  BY <1>2, FailuresAreSound, HidingIsFinal DEF AsyncOutcome
<1>3. CASE ~(reply = TimedOut /\ route \notin Expecting) /\ route \in Hiding
  BY <1>1, <1>3, HidingIsFinal
     DEF AsyncOutcome, Hiding, Proxied, Stocks, Chats, ListsOfSkills, Inferences,
         UserRoutes, Logins, Storing
<1>4. CASE ~(reply = TimedOut /\ route \notin Expecting) /\ route \in Proxied
  <2>1. AsyncOutcome(route, reply) = ProxyOutcome(route, reply)
    BY <1>4 DEF AsyncOutcome, Proxied, Stocks, Chats, Inferences, UserRoutes, Logins,
                Storing
  <2> QED BY <1>1, <1>4, <2>1, ProxyIsSound, RoutesDiffer
<1>5. CASE ~(reply = TimedOut /\ route \notin Expecting) /\ route \in UserRoutes
  <2>1. AsyncOutcome(route, reply) = UsersOutcome(reply)
    BY <1>5 DEF AsyncOutcome, Proxied, Stocks, Chats, Inferences, UserRoutes, Logins,
                Storing
  <2> QED BY <1>1, <1>5, <2>1, UsersAreSound, RoutesDiffer
<1>6. CASE route = "coupons"
  <2>1. AsyncOutcome(route, reply) = CouponsOutcome(reply)
    BY <1>6 DEF AsyncOutcome, Expecting, Proxied, Stocks, Chats, Inferences, UserRoutes,
                Logins, Storing
  <2> QED BY <1>1, <1>6, <2>1, CouponsAreSound, RoutesDiffer
<1>7. CASE ~(reply = TimedOut /\ route \notin Expecting) /\ route \in OtherRoutes
  <2>1. /\ Sound(route, reply, FieldOutcome(reply)) /\ Sound(route, reply, SttOutcome(reply))
        /\ Sound(route, reply, TtsOutcome(reply)) /\ Sound(route, reply, ResponseOutcome(reply))
        /\ Sound(route, reply, ModelsOutcome(reply)) /\ Sound(route, reply, EmailOutcome(reply))
        /\ Sound(route, reply, InferenceOutcome(reply)) /\ Sound(route, reply, CclOutcome(reply))
        /\ Sound(route, reply, PersonasOutcome(reply))
    BY <1>1, <1>7, RoutesDiffer, OthersAreSound
       DEF SttOutcome, TtsOutcome, ResponseOutcome, ModelsOutcome
  <2>2. route \in Inferences \union
              {"email", "metric", "ccl", "stt", "tts", "response", "models", "personas"}
    BY <1>7 DEF OtherRoutes, Routes, Hiding
  <2> QED BY <1>7, <2>1, <2>2, RoutesDiffer
          DEF AsyncOutcome, Hiding, Proxied, Stocks, Chats, Inferences, OtherRoutes
<1> QED BY <1>2, <1>3, <1>4, <1>5, <1>6, <1>7 DEF OtherRoutes

LEMMA BlockingOutcomes ==
    ASSUME NEW route \in BlockingRoutes, NEW reply \in AllReplies
    PROVE  IF route \in Hiding
           THEN Final(BlockingOutcome(route, reply))
           ELSE Sound(route, reply, BlockingOutcome(route, reply))
<1>1. /\ IsReply(reply) /\ route \notin ListsOfSkills \union {"status"}
      /\ route \in Routes
  BY RepliesAreReplies DEF BlockingRoutes
<1>2. CASE reply = TimedOut /\ route \notin Expecting
  BY <1>2, FailuresAreSound, HidingIsFinal DEF BlockingOutcome
<1>3. CASE ~(reply = TimedOut /\ route \notin Expecting) /\ route \in Hiding
  BY <1>1, <1>3, HidingIsFinal
     DEF BlockingOutcome, Hiding, Proxied, Stocks, Chats, query_llm, upload_metric
<1>4. CASE ~(reply = TimedOut /\ route \notin Expecting) /\ route \in Proxied
  BY <1>1, <1>4, ProxyIsSound, RoutesDiffer
     DEF BlockingOutcome, Proxied, Stocks, query_api_proxy
<1>5. CASE ~(reply = TimedOut /\ route \notin Expecting) /\ route \in UserRoutes
  BY <1>1, <1>5, UsersAreSound, RoutesDiffer
     DEF BlockingOutcome, UserRoutes, Logins, Storing, Proxied, Stocks, read_user,
         query_users_api
<1>6. CASE route = "coupons"
  BY <1>1, <1>6, CouponsAreSound, RoutesDiffer
     DEF BlockingOutcome, Expecting, get_coupons
<1>7. CASE ~(reply = TimedOut /\ route \notin Expecting) /\ route \in OtherRoutes
  <2>1. /\ Sound(route, reply, get_stt(reply)) /\ Sound(route, reply, get_tts(reply))
        /\ Sound(route, reply, get_response(reply))
        /\ Sound(route, reply, get_brainforge_models(reply))
        /\ Sound(route, reply, get_brainforge_model_personas(reply))
        /\ Sound(route, reply, get_brainforge_model_inference(reply))
        /\ Sound(route, reply, send_email(reply))
        /\ Sound(route, reply, parse_ccl_script(reply))
    BY <1>1, <1>7, RoutesDiffer, OthersAreSound
       DEF get_stt, get_tts, get_response, get_brainforge_models, SttOutcome,
           TtsOutcome, ResponseOutcome, ModelsOutcome, send_email,
           get_brainforge_model_personas, get_brainforge_model_inference,
           parse_ccl_script
  <2>2. route \in {"inference", "email", "ccl", "stt", "tts", "response", "models", "personas"}
    BY <1>7, <1>1 DEF OtherRoutes, Routes, Hiding, Inferences, BlockingRoutes
  <2> QED BY <1>7, <2>1, <2>2, RoutesDiffer DEF BlockingOutcome, Proxied, Stocks
<1> QED BY <1>1, <1>2, <1>3, <1>4, <1>5, <1>6, <1>7 DEF OtherRoutes

\* FastAPI turns outcomes into errors, never into successes.
LEMMA HttpOnlyFails ==
    ASSUME NEW route, NEW outcome \in Outcomes
    PROVE  /\ Http(route, outcome) \in {outcome, Crash}
           /\ Http(route, outcome) \in Outcomes
           /\ outcome.body = "misfit" => Http(route, outcome) = Crash
           /\ outcome.body = "answer" /\ route \notin AnswerRoutes
              => Http(route, outcome) = Crash
BY CommonOutcomes DEF Http

\* A login or a refresh succeeds with the user it stores, or does not see
\* that the users service refused it.
LEMMA PairOutcomes ==
    ASSUME NEW route \in Storing, NEW reply, IsReply(reply)
    PROVE  /\ Sound(route, reply, ReadOutcome(route, reply))
           /\ ReadOutcome(route, reply).code = 200 => Served(route, reply)
           /\ StoreOutcome(reply) \in Outcomes
           /\ StoreOutcome(reply).code = 200
              => Served(route, reply) \/ RefusedWith200(reply)
           /\ StoreOutcome(reply).code < 200 => StoreOutcome(reply).code = reply.status
<1>1. route \in UserRoutes
  BY DEF UserRoutes, Logins
<1>2. Sound(route, reply, UsersOutcome(reply))
  BY <1>1, UsersAreSound
<1>3. Sound(route, reply, Crash) /\ Sound(route, reply, Error(500))
  BY FailuresAreSound
<1>4. /\ Crash.code = 500 /\ Error(500).code = 500 /\ Data.code = 200
      /\ Misfit.code = 200 /\ Misfit.body = "misfit" /\ Data \in Outcomes
  BY CommonOutcomes DEF Codes
<1>5. UsersOutcome(reply).code = 200 => UsersOutcome(reply) \in {Data, Misfit}
  <2>1. Status(reply) \in Codes
    BY DEF Status, IsReply, Codes, NoStatus
  <2>2. Error(Status(reply)).code = Status(reply)
    BY <2>1, CommonOutcomes
  <2>3. /\ reply.content = "failed" \/ reply = NoReply
        /\ ~RefusedWith200(reply)
        => Status(reply) # 200
    BY SilenceIsAbsent DEF Status, RefusedWith200, NoStatus
  <2>4. \/ UsersOutcome(reply) \in {Data, Misfit, Crash}
        \/ UsersOutcome(reply) = Error(Status(reply)) /\ Status(reply) # 200
    BY <2>3, SilenceIsAbsent DEF UsersOutcome
  <2> QED BY <1>4, <2>2, <2>4
<1>6. UsersOutcome(reply) = Data => Served(route, reply)
  <2>1. route \notin Proxied
    BY <1>1, RoutesDiffer
  <2>2. Data # Misfit /\ Data # Crash /\ \A code : Data # Error(code)
    BY DEF Data, Misfit, Crash, Error, Outcome
  <2>3. UsersOutcome(reply) = Data => reply.content \in {"good", "unhashed"}
    BY <2>2, SilenceIsAbsent DEF UsersOutcome
  <2> QED BY <1>1, <2>1, <2>3 DEF Served
<1>7. UsersOutcome(reply) = Misfit => RefusedWith200(reply)
  <2>1. Misfit # Data /\ Misfit # Crash /\ \A code : Misfit # Error(code)
    BY DEF Data, Misfit, Crash, Error, Outcome
  <2> QED BY <2>1, SilenceIsAbsent DEF UsersOutcome
<1>8. ReadOutcome(route, reply) \in {Crash, Error(500), UsersOutcome(reply)}
  BY Zenon DEF ReadOutcome
<1>9. ReadOutcome(route, reply) = UsersOutcome(reply)
      => UsersOutcome(reply) # Misfit
  BY <1>4 DEF ReadOutcome
<1>10. StoreOutcome(reply) \in {Data, UsersOutcome(reply)}
       /\ (UsersOutcome(reply) = Misfit => StoreOutcome(reply) = Data)
       /\ (UsersOutcome(reply) # Misfit => StoreOutcome(reply) = UsersOutcome(reply))
  BY Zenon DEF StoreOutcome
<1>11. Sound(route, reply, ReadOutcome(route, reply))
  BY <1>2, <1>3, <1>8
<1>12. ReadOutcome(route, reply).code = 200 => Served(route, reply)
  BY <1>4, <1>5, <1>6, <1>8, <1>9
<1>13. /\ StoreOutcome(reply) \in Outcomes
       /\ StoreOutcome(reply).code = 200
          => Served(route, reply) \/ RefusedWith200(reply)
       /\ StoreOutcome(reply).code < 200 => StoreOutcome(reply).code = reply.status
  BY <1>2, <1>4, <1>5, <1>6, <1>7, <1>10 DEF Sound
<1> QED BY <1>11, <1>12, <1>13

-----------------------------------------------------------------------------
(* The steps. *)

\* Threads send for themselves, and only what the blocking manager can.
ThreadsSend ==
    \A t \in Threads :
        /\ calls[t].step # "queued"
        /\ calls[t].step \in {"sent", "replied"} => calls[t].route \in BlockingRoutes

Inv == TypeOK /\ ThreadsSend

\* What is wrong with no answer: the part of the three properties of the run
\* that is about one caller's call.
Honest(c, call) ==
    call.step = "done" =>
       /\ call.answer.code = 200 /\ ~Served(call.route, call.reply)
          => AskedNobody(call) \/ Unverified(c, call)
       /\ call.answer.code = 200 /\ call.reply \in {NoReply, TimedOut}
          => \/ AskedNobody(call)
             \/ call.route = "llm"
             \/ c \in Threads /\ call.route = "coupons"
       /\ call.answer.code < 200
          => /\ call.route \in UserRoutes
             /\ call.answer.code = call.reply.status

AllHonest == \A c \in Callers : Honest(c, calls[c])

LEMMA HonestyIsAll ==
    AllHonest => SuccessIsServed /\ SilenceIsNoSuccess /\ InterimCodesAreUsers
BY DEF AllHonest, SuccessIsServed, SilenceIsNoSuccess, InterimCodesAreUsers, Honest

-----------------------------------------------------------------------------
LEMMA NoCallType ==
    /\ NoCall \in CallRecords
    /\ \A step \in Steps, route \in Routes, answer \in Outcomes :
          /\ [NoCall EXCEPT !.step = step, !.route = route,
                            !.left = Rounds(route)] \in CallRecords
          /\ [NoCall EXCEPT !.step = step, !.route = route,
                            !.answer = answer] \in CallRecords
<1>1. "status" \in Routes /\ NoReply \in AllReplies /\ Nothing \in Outcomes
  BY CommonOutcomes DEF Routes, AllReplies
<1>2. \A route : Rounds(route) \in 0..2
  BY DEF Rounds
<1>3. 0 \in 0..2 /\ {"idle", "done"} \subseteq Steps
  BY DEF Steps
<1>4. NoCall \in CallRecords
  BY <1>1, <1>3 DEF NoCall, CallRecords
<1>5. ASSUME NEW step \in Steps, NEW route \in Routes, NEW answer \in Outcomes
      PROVE  /\ [NoCall EXCEPT !.step = step, !.route = route,
                               !.left = Rounds(route)] \in CallRecords
             /\ [NoCall EXCEPT !.step = step, !.route = route,
                               !.answer = answer] \in CallRecords
  BY <1>2, <1>4 DEF CallRecords
<1> QED BY <1>4, <1>5

LEMMA AtOnceType ==
    ASSUME NEW c \in Callers, NEW route, NEW size \in Sizes,
           NEW answer \in AtOnce(c, route, size)
    PROVE  /\ answer \in Outcomes /\ answer.code >= 200
           /\ answer.code = 200 => \/ route = "status"
                                   \/ route \in Logins /\ ~setting.auth
<1> DEFINE Good(a) == /\ a \in Outcomes /\ a.code >= 200
                      /\ a.code = 200 => \/ route = "status"
                                         \/ route \in Logins /\ ~setting.auth
<1>1. /\ Good(Crash) /\ Good(Error(500)) /\ Good(Error(503)) /\ Good(Error(400))
      /\ Good(Error(401)) /\ Good(Error(403))
      /\ route = "status" \/ (route \in Logins /\ ~setting.auth) => Good(Data)
  BY CommonOutcomes DEF Codes
<1> SUFFICES Good(answer)
  OBVIOUS
<1> HIDE DEF Good
<1>2. CASE route = "status"
  <2>1. AtOnce(c, route, size) = {Health}
    BY <1>2 DEF AtOnce, Unsupported, Reparsed, Nullable, NoUsers, Logins, Storing
  <2> QED BY <1>1, <1>2, <2>1 DEF Health
<1>3. CASE route \in {"updateUser", "openai", "response"}
  <2>1. AtOnce(c, route, size) \subseteq {Crash}
    BY <1>3, Zenon DEF AtOnce, Unsupported, Reparsed, Nullable, NoUsers, Logins, Storing
  <2> QED BY <1>1, <2>1
<1>4. CASE route = "email"
  <2>1. AtOnce(c, route, size) \subseteq {Error(503)}
    BY <1>4 DEF AtOnce, Unsupported, Reparsed, Nullable, NoUsers, Logins, Storing
  <2> QED BY <1>1, <2>1
<1>5. CASE route \in {"stt", "tts"}
  <2>1. AtOnce(c, route, size) \subseteq {Error(400)}
    BY <1>5 DEF AtOnce, Unsupported, Reparsed, Nullable, NoUsers, Logins, Storing
  <2> QED BY <1>1, <2>1
<1>6. CASE route = "refresh"
  <2>1. /\ route \in Logins
        /\ AtOnce(c, route, size) \subseteq Refusals \union
               (IF setting.auth THEN {} ELSE {Data})
    BY <1>6 DEF AtOnce, Unsupported, Reparsed, Nullable, NoUsers, Logins, Storing
  <2> QED BY <1>1, <1>6, <2>1 DEF Refusals
<1>7. CASE route \in Logins /\ route # "refresh"
  <2>1. AtOnce(c, route, size) = IF setting.auth THEN {} ELSE {Data}
    BY <1>7 DEF AtOnce, Unsupported, Reparsed, Nullable, NoUsers, Logins, Storing
  <2> QED BY <1>1, <1>7, <2>1
<1>8. CASE route \notin {"status", "email", "stt", "tts", "refresh", "updateUser",
                         "openai", "response"} \union Logins
  BY <1>8 DEF AtOnce, Unsupported, Reparsed, Nullable, NoUsers
<1> QED BY <1>2, <1>3, <1>4, <1>5, <1>6, <1>7, <1>8

LEMMA InitInv == Init => Inv /\ AllHonest
<1> SUFFICES ASSUME Init PROVE Inv /\ AllHonest
  OBVIOUS
<1>1. /\ calls \in [Callers -> CallRecords]
      /\ \A c \in Callers : calls[c].step = "idle"
  BY NoCallType DEF Init, NoCall
<1>2. TypeOK
  BY <1>1 DEF Init, TypeOK
<1>3. ThreadsSend
  BY <1>1 DEF ThreadsSend, Callers
<1>4. AllHonest
  BY <1>1 DEF AllHonest, Honest
<1> QED BY <1>2, <1>3, <1>4 DEF Inv

\* A step that replaces the call of one caller by an honest one.
LEMMA OneCall ==
    ASSUME Inv, AllHonest, NEW c \in Callers, NEW call \in CallRecords,
           calls' = [calls EXCEPT ![c] = call],
           setting' = setting,
           queue' \in Seq(Clients), held' \in Clients \union {None},
           c \in Threads => call.step # "queued",
           c \in Threads /\ call.step \in {"sent", "replied"}
               => call.route \in BlockingRoutes,
           Honest(c, call)
    PROVE  Inv' /\ AllHonest'
<1>1. /\ calls' \in [Callers -> CallRecords]
      /\ calls'[c] = call
      /\ \A d \in Callers : d # c => calls'[d] = calls[d]
  BY DEF Inv, TypeOK
<1>2. TypeOK'
  BY <1>1 DEF Inv, TypeOK
<1>3. ThreadsSend'
  BY <1>1 DEF Inv, ThreadsSend, Callers
<1>4. AllHonest'
  BY <1>1 DEF AllHonest, Honest, AskedNobody, NoUsers, Unverified
<1> QED BY <1>2, <1>3, <1>4 DEF Inv

LEMMA AnswerAtOnceInv ==
    ASSUME Inv, AllHonest, NEW c \in Callers, NEW route \in Routes,
           AnswerAtOnce(c, route)
    PROVE  Inv' /\ AllHonest'
<1>1. PICK size \in Sizes : \E answer \in AtOnce(c, route, size) :
          calls' = [calls EXCEPT ![c] = [NoCall EXCEPT !.step = "done",
                                                       !.route = route,
                                                       !.answer = answer]]
  BY Zenon DEF AnswerAtOnce
<1>2. PICK answer \in AtOnce(c, route, size) :
          calls' = [calls EXCEPT ![c] = [NoCall EXCEPT !.step = "done",
                                                       !.route = route,
                                                       !.answer = answer]]
  BY <1>1, Zenon
<1> DEFINE call == [NoCall EXCEPT !.step = "done", !.route = route,
                                  !.answer = answer]
<1>3. /\ answer \in Outcomes /\ answer.code >= 200
      /\ answer.code = 200 => (route = "status" \/ (route \in Logins /\ ~setting.auth))
  BY <1>2, AtOnceType
<1>4. call \in CallRecords
  BY <1>3, NoCallType DEF Steps
<1>5. call.step = "done" /\ call.route = route /\ call.answer = answer
  BY DEF NoCall
<1>6. UNCHANGED <<setting, queue, held>>
  BY DEF AnswerAtOnce
<1>7. calls' = [calls EXCEPT ![c] = call]
  BY <1>2
<1> HIDE DEF call
<1>8. answer.code \in Int
  BY <1>3 DEF Outcomes, Codes
<1>9. Honest(c, call)
  BY <1>3, <1>5, <1>8 DEF Honest, AskedNobody, NoUsers
<1> QED BY <1>4, <1>5, <1>6, <1>7, <1>9, OneCall DEF Inv, TypeOK

\* A call that begins is answered later.
LEMMA BeginInv ==
    ASSUME Inv, AllHonest, NEW c \in Callers, NEW route \in Routes,
           NEW step \in {"queued", "sent"}, Called(c, route, step),
           c \in Threads => step = "sent" /\ route \in BlockingRoutes,
           setting' = setting,
           queue' \in Seq(Clients), held' \in Clients \union {None}
    PROVE  Inv' /\ AllHonest'
<1> DEFINE call == [NoCall EXCEPT !.step = step, !.route = route,
                                  !.left = Rounds(route)]
<1>1. call \in CallRecords
  <2>1. Nothing \in Outcomes /\ step \in Steps
    BY CommonOutcomes DEF Steps
  <2> QED BY <2>1, NoCallType, Zenon
<1>2. call.step = step /\ call.route = route
  BY DEF NoCall
<1>3. calls' = [calls EXCEPT ![c] = call]
  BY DEF Called
<1> HIDE DEF call
<1>4. Honest(c, call)
  BY <1>2 DEF Honest
<1> QED BY <1>1, <1>2, <1>3, <1>4, OneCall

LEMMA StartWorkInv ==
    ASSUME Inv, AllHonest, StartWork
    PROVE  Inv' /\ AllHonest'
<1> DEFINE c == Head(queue)
           call == [calls[c] EXCEPT !.step = "sent"]
<1>1. /\ queue \in Seq(Clients) /\ queue # << >> /\ queue' = Tail(queue)
      /\ calls' = [calls EXCEPT ![c] = call] /\ UNCHANGED <<setting, held>>
  BY DEF StartWork, Inv, TypeOK
<1>2. c \in Clients /\ queue' \in Seq(Clients)
  BY <1>1
<1>3. c \in Callers /\ c \notin Threads /\ calls[c] \in CallRecords
  BY <1>2, SettingsAssumption DEF Inv, Callers, TypeOK
<1>4. call \in CallRecords /\ call.step = "sent"
  BY <1>3 DEF CallRecords, Steps
<1> HIDE DEF call, c
<1>5. Honest(c, call)
  BY <1>4 DEF Honest
<1> QED BY <1>1, <1>2, <1>3, <1>4, <1>5, OneCall DEF Inv, TypeOK

\* A reply, or the end of the wait for one, is kept for who waits.
LEMMA ArrivedInv ==
    ASSUME Inv, AllHonest, NEW c \in Callers, NEW reply \in AllReplies,
           Arrived(c, reply)
    PROVE  Inv' /\ AllHonest'
<1>1. /\ calls[c] \in CallRecords /\ calls[c].step = "sent"
      /\ UNCHANGED <<setting, queue, held>>
  BY DEF Arrived, Inv, TypeOK
<1>2. c \in Threads => calls[c].route \in BlockingRoutes
  BY <1>1 DEF Inv, ThreadsSend
<1>3. CASE Usable(calls[c], reply) /\ calls' = [calls EXCEPT ![c].left = @ - 1]
  <2> DEFINE call == [calls[c] EXCEPT !.left = @ - 1]
  <2>1. calls[c].left \in 0..2 /\ calls[c].left > 1
    BY <1>1, <1>3 DEF CallRecords, Usable
  <2>2. calls[c].left - 1 \in 0..2
    BY <2>1
  <2>3. /\ call \in CallRecords /\ call.step = "sent"
        /\ call.route = calls[c].route
    BY <1>1, <2>2 DEF CallRecords
  <2>4. calls' = [calls EXCEPT ![c] = call]
    BY <1>3
  <2> HIDE DEF call
  <2>5. Honest(c, call)
    BY <2>3 DEF Honest
  <2> QED BY <1>1, <1>2, <2>3, <2>4, <2>5, OneCall DEF Inv, TypeOK
<1>4. CASE calls' = [calls EXCEPT ![c].step = "replied", ![c].reply = reply]
  <2> DEFINE call == [calls[c] EXCEPT !.step = "replied", !.reply = reply]
  <2>1. /\ call \in CallRecords /\ call.step = "replied"
        /\ call.route = calls[c].route
    BY <1>1 DEF CallRecords, Steps
  <2>2. calls' = [calls EXCEPT ![c] = call]
    BY <1>4 DEF Inv, TypeOK
  <2> HIDE DEF call
  <2>3. Honest(c, call)
    BY <2>1 DEF Honest
  <2> QED BY <1>1, <1>2, <2>1, <2>2, <2>3, OneCall DEF Inv, TypeOK
<1> QED BY <1>3, <1>4 DEF Arrived

LEMMA SilenceServesNobody ==
    ASSUME NEW route, NEW reply \in {NoReply, TimedOut}
    PROVE  /\ ~Served(route, reply) /\ ~RefusedWith200(reply)
           /\ reply.status # 200
BY SilenceIsAbsent DEF Served, RefusedWith200, NoStatus

\* What the client of a route receives is honest.
LEMMA HttpIsHonest ==
    ASSUME NEW c \in Callers, NEW call \in CallRecords,
           NEW answer, answer = Http(call.route, Result(call))
    PROVE  answer \in Outcomes
           /\ Honest(c, [call EXCEPT !.step = "done", !.answer = answer])
<1> DEFINE outcome == Result(call)
           route == call.route
           reply == call.reply
<1>1. /\ route \in Routes /\ reply \in AllReplies /\ IsReply(reply)
      /\ call.left \in 0..2
  BY RepliesAreReplies DEF CallRecords
<1>2. Crash.code = 500
  BY CommonOutcomes
<1>3. /\ reply \in {NoReply, TimedOut} => ~Served(route, reply) /\ ~RefusedWith200(reply)
      /\ route \in UserRoutes => route \notin Hiding
  BY SilenceServesNobody, RoutesDiffer
<1>4. ASSUME route \in Storing, reply # TimedOut
      PROVE  /\ outcome \in Outcomes
             /\ outcome.code < 200 => route \in UserRoutes /\ outcome.code = reply.status
             /\ outcome.code = 200
                => Served(route, reply) \/ (call.left < 2 /\ RefusedWith200(reply))
  <2>1. outcome = IF call.left > 1 THEN ReadOutcome(route, reply)
                                   ELSE StoreOutcome(reply)
    BY <1>4, Zenon DEF Result
  <2>2. route \in UserRoutes
    BY <1>4 DEF UserRoutes, Logins
  <2> HIDE DEF outcome
  <2>3. CASE call.left > 1
    BY <1>1, <1>4, <2>1, <2>2, <2>3, PairOutcomes DEF Sound
  <2>4. CASE ~(call.left > 1)
    <3>1. call.left < 2
      BY <1>1, <2>4
    <3> QED BY <1>1, <1>4, <2>1, <2>2, <2>4, <3>1, PairOutcomes
  <2> QED BY <2>3, <2>4
<1>5. ASSUME ~(route \in Storing /\ reply # TimedOut)
      PROVE  /\ outcome = AsyncOutcome(route, reply)
             /\ IF route \in Hiding THEN Final(outcome) ELSE Sound(route, reply, outcome)
             /\ route \in ListsOfSkills /\ reply \in {NoReply, TimedOut}
                => outcome.code = 500
  <2>1. outcome = AsyncOutcome(route, reply)
    BY <1>5, Zenon DEF Result
  <2> QED BY <1>1, <2>1, AsyncOutcomes, SilentSkills
<1>6. outcome \in Outcomes
  BY <1>4, <1>5 DEF Sound, Final
<1>7. /\ answer \in {outcome, Crash} /\ answer \in Outcomes
      /\ outcome.body = "misfit" => answer = Crash
      /\ outcome.body = "answer" /\ route \notin AnswerRoutes => answer = Crash
  BY <1>6, HttpOnlyFails
<1>8. Hiding = {"metric", "status", "llm"} \union ListsOfSkills
  BY DEF Hiding, Chats
<1> HIDE DEF outcome
<1>9. ASSUME answer.code = 200, ~Served(route, reply)
      PROVE  \/ route \in Hiding
             \/ route \in Storing /\ call.left < 2 /\ RefusedWith200(reply)
  <2>1. /\ answer = outcome /\ outcome.body # "misfit"
        /\ ~(outcome.body = "answer" /\ route \notin AnswerRoutes)
    BY <1>2, <1>7, <1>9
  <2> QED BY <1>4, <1>5, <1>9, <2>1 DEF Sound
<1>10. ASSUME answer.code = 200, reply \in {NoReply, TimedOut}
       PROVE  route \in {"metric", "status", "llm"}
  <2>1. answer = outcome
    BY <1>2, <1>7, <1>10
  <2>2. route \in Hiding
    BY <1>3, <1>9, <1>10
  <2>3. route \notin UserRoutes
    BY <1>3, <2>2
  <2>4. route \notin ListsOfSkills
    BY <1>5, <1>10, <2>1, <2>3 DEF UserRoutes, Logins
  <2> QED BY <1>8, <2>2, <2>4
<1>11. ASSUME answer.code < 200
       PROVE  route \in UserRoutes /\ answer.code = reply.status
  <2>1. answer = outcome
    BY <1>2, <1>7, <1>11
  <2>2. ~Final(outcome)
    BY <1>6, <1>11, <2>1 DEF Final, Outcomes, Codes
  <2> QED BY <1>4, <1>5, <1>11, <2>1, <2>2 DEF Sound
<1>12. Honest(c, [call EXCEPT !.step = "done", !.answer = answer])
  <2> DEFINE done == [call EXCEPT !.step = "done", !.answer = answer]
  <2>1. /\ done.route = route /\ done.reply = reply /\ done.left = call.left
        /\ done.answer = answer
    BY DEF CallRecords
  <2> HIDE DEF done
  <2>2. Honest(c, done)
    BY <1>8, <1>9, <1>10, <1>11, <2>1 DEF Honest, AskedNobody, NoUsers, Unverified
  <2> QED BY <2>2 DEF done
<1> QED BY <1>7, <1>12

\* What the blocking manager's caller receives is honest.
LEMMA ThreadIsHonest ==
    ASSUME NEW c \in Threads, NEW call \in CallRecords, call.route \in BlockingRoutes,
           NEW answer, answer = BlockingOutcome(call.route, call.reply)
    PROVE  answer \in Outcomes
           /\ Honest(c, [call EXCEPT !.step = "done", !.answer = answer])
<1> DEFINE route == call.route
           reply == call.reply
<1>1. reply \in AllReplies
  BY DEF CallRecords
<1>2. IF route \in Hiding THEN Final(answer) ELSE Sound(route, reply, answer)
  BY <1>1, BlockingOutcomes
<1>3. route \in Hiding => route \in {"metric", "llm"}
  BY DEF Hiding, Chats, BlockingRoutes
<1>4. answer \in Outcomes
  BY <1>2 DEF Final, Sound
<1>5. reply \in {NoReply, TimedOut}
      => /\ ~Served(route, reply)
         /\ Blind(route, reply) => route = "coupons"
  BY SilenceServesNobody DEF Blind
<1>6. ASSUME answer.code = 200, ~Served(route, reply)
      PROVE  route \in Hiding \/ Blind(route, reply)
  BY <1>2, <1>6 DEF Sound
<1>7. ASSUME answer.code < 200
      PROVE  route \in UserRoutes /\ answer.code = reply.status
  <2>1. ~Final(answer)
    BY <1>4, <1>7 DEF Final, Outcomes, Codes
  <2> QED BY <1>2, <1>7, <2>1 DEF Sound
<1>8. Honest(c, [call EXCEPT !.step = "done", !.answer = answer])
  <2> DEFINE done == [call EXCEPT !.step = "done", !.answer = answer]
  <2>1. done.route = route /\ done.reply = reply /\ done.answer = answer
    BY DEF CallRecords
  <2> HIDE DEF done
  <2>2. Honest(c, done)
    BY <1>3, <1>5, <1>6, <1>7, <2>1 DEF Honest, AskedNobody, NoUsers, Unverified, Blind
  <2> QED BY <2>2 DEF done
<1> QED BY <1>4, <1>8

LEMMA FinishInv ==
    ASSUME Inv, AllHonest, NEW c \in Callers, Finish(c)
    PROVE  Inv' /\ AllHonest'
<1> DEFINE answer == Http(calls[c].route, Result(calls[c]))
           call == [calls[c] EXCEPT !.step = "done", !.answer = answer]
<1>1. /\ c \in Clients /\ held' = None /\ UNCHANGED <<setting, queue>>
      /\ calls[c] \in CallRecords /\ c \notin Threads
  BY SettingsAssumption DEF Finish, Inv, TypeOK
<1>2. calls' = [calls EXCEPT ![c] = call]
  BY <1>1 DEF Finish, Answered, Inv, TypeOK
<1>3. answer \in Outcomes /\ Honest(c, call)
  BY <1>1, HttpIsHonest
<1> HIDE DEF answer
<1>4. call \in CallRecords /\ call.step = "done"
  BY <1>1, <1>3 DEF CallRecords, Steps
<1> HIDE DEF call
<1> QED BY <1>1, <1>2, <1>3, <1>4, OneCall DEF Inv, TypeOK

LEMMA ReturnInv ==
    ASSUME Inv, AllHonest, NEW c \in Callers, Return(c)
    PROVE  Inv' /\ AllHonest'
<1> DEFINE answer == BlockingOutcome(calls[c].route, calls[c].reply)
           call == [calls[c] EXCEPT !.step = "done", !.answer = answer]
<1>1. /\ c \in Threads /\ UNCHANGED <<setting, queue, held>>
      /\ calls[c] \in CallRecords /\ calls[c].route \in BlockingRoutes
  BY DEF Return, Inv, TypeOK, ThreadsSend
<1>2. calls' = [calls EXCEPT ![c] = call]
  BY <1>1 DEF Return, Answered, Inv, TypeOK
<1>3. answer \in Outcomes /\ Honest(c, call)
  BY <1>1, ThreadIsHonest
<1> HIDE DEF answer
<1>4. call \in CallRecords /\ call.step = "done"
  BY <1>1, <1>3 DEF CallRecords, Steps
<1> HIDE DEF call
<1> QED BY <1>1, <1>2, <1>3, <1>4, OneCall DEF Inv, TypeOK

-----------------------------------------------------------------------------
LEMMA NextInv == Inv /\ AllHonest /\ [Next]_vars => Inv' /\ AllHonest'
<1> SUFFICES ASSUME Inv, AllHonest, [Next]_vars PROVE Inv' /\ AllHonest'
  OBVIOUS
<1>0. queue \in Seq(Clients) /\ held \in Clients \union {None}
  BY DEF Inv, TypeOK
<1>1. ASSUME NEW c \in Callers, NEW route \in Routes
      PROVE  /\ AnswerAtOnce(c, route) => Inv' /\ AllHonest'
             /\ Submit(c, route) => Inv' /\ AllHonest'
             /\ LogIn(c, route) => Inv' /\ AllHonest'
             /\ Call(c, route) => Inv' /\ AllHonest'
  <2>1. ASSUME Submit(c, route) PROVE Inv' /\ AllHonest'
    <3>1. /\ Called(c, route, "queued") /\ c \in Clients /\ c \notin Threads
          /\ UNCHANGED <<setting, held>> /\ queue' \in Seq(Clients)
      BY <1>0, <2>1, SettingsAssumption DEF Submit, Enqueue
    <3> QED BY <1>0, <3>1, BeginInv
  <2>2. ASSUME LogIn(c, route) PROVE Inv' /\ AllHonest'
    <3>1. /\ Called(c, route, "sent") /\ c \in Clients /\ c \notin Threads
          /\ held' = c /\ UNCHANGED <<setting, queue>>
      BY <2>2, SettingsAssumption DEF LogIn, LoginStep
    <3> QED BY <1>0, <3>1, BeginInv
  <2>3. ASSUME Call(c, route) PROVE Inv' /\ AllHonest'
    <3>1. /\ Called(c, route, "sent") /\ route \in BlockingRoutes
          /\ UNCHANGED <<setting, queue, held>>
      BY <2>3 DEF Call
    <3> QED BY <1>0, <3>1, BeginInv
  <2> QED BY <2>1, <2>2, <2>3, AnswerAtOnceInv
<1>2. CASE StartWork
  BY <1>2, StartWorkInv
<1>3. ASSUME NEW c \in Callers, Respond(c) \/ GiveUp(c)
      PROVE  Inv' /\ AllHonest'
  <2>1. PICK reply \in RepliesOf(calls[c].route) \union {NoReply, TimedOut} :
            Arrived(c, reply)
    BY <1>3, Zenon DEF Respond, GiveUp
  <2> QED BY <2>1, RoutesHaveReplies, ArrivedInv
<1>4. ASSUME NEW c \in Callers, Finish(c) \/ Return(c)
      PROVE  Inv' /\ AllHonest'
  BY <1>4, FinishInv, ReturnInv
<1>5. CASE UNCHANGED vars
  BY <1>5 DEF vars, Inv, AllHonest, TypeOK, ThreadsSend, Honest, AskedNobody,
              Unverified, NoUsers
<1> QED BY <1>1, <1>2, <1>3, <1>4, <1>5 DEF Next

LEMMA Invariance == Spec => [](Inv /\ AllHonest)
<1> QED BY InitInv, NextInv, PTL DEF Spec

\* Every answer has a code and a body the routes document or fall back to, or
\* a code of the users service, for any replies.
THEOREM ServiceTypes == Spec => []TypeOK
<1>1. Inv => TypeOK
  BY DEF Inv
<1> QED BY <1>1, Invariance, PTL

\* Interim codes are sent only by the routes of the users service, and are
\* the ones it sent.
THEOREM CodesAreFinal == Spec => []InterimCodesAreUsers
<1>1. AllHonest => InterimCodesAreUsers
  BY HonestyIsAll
<1> QED BY <1>1, Invariance, PTL

\* Success is reported for what was served, with Unverified's exceptions.
THEOREM SuccessMeansServed == Spec => []SuccessIsServed
<1>1. AllHonest => SuccessIsServed
  BY HonestyIsAll
<1> QED BY <1>1, Invariance, PTL

\* Silence is reported as an error, with the exceptions named there.
THEOREM SilenceReported == Spec => []SilenceIsNoSuccess
<1>1. AllHonest => SilenceIsNoSuccess
  BY HonestyIsAll
<1> QED BY <1>1, Invariance, PTL
=============================================================================
