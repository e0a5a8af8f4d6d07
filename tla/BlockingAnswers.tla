-------------------------- MODULE BlockingAnswers ---------------------------
(***************************************************************************)
(* MQServiceManager, the deprecated twin of AsyncMqServiceManager: what    *)
(* its methods make of the reply they waited for.  Each method repeats the *)
(* code of its twin and blocks the thread that calls it; only an inference *)
(* differs, which leaves pydantic's ValidationError to its caller and      *)
(* waits no longer than the default time-out.                              *)
(***************************************************************************)
EXTENDS ServiceAnswers

query_api_proxy(route, reply) == ProxyOutcome(route, reply)

query_llm(reply) == LlmOutcome(reply)

send_email(reply) == EmailOutcome(reply)

upload_metric == MetricOutcome

parse_ccl_script(reply) == CclOutcome(reply)

get_coupons(reply) == CouponsOutcome(reply)

get_stt(reply) == SttOutcome(reply)

get_tts(reply) == TtsOutcome(reply)

get_response(reply) == ResponseOutcome(reply)

get_brainforge_models(reply) == ModelsOutcome(reply)

get_brainforge_model_personas(reply) == PersonasOutcome(reply)

get_brainforge_model_inference(reply) == FieldOutcome(reply)

query_users_api(reply) == UsersOutcome(reply)

\* create_user, read_user and update_user raise what the query was refused.
read_user(reply) == query_users_api(reply)

\* The twin has no methods for skills, and logins do not go through it.
BlockingRoutes ==
    Routes \ (ListsOfSkills \union Logins \union {"status", "openai"})

BlockingOutcome(route, reply) ==
    IF reply = TimedOut /\ route \notin Expecting
    THEN Crash
    ELSE CASE route = "ccl" -> parse_ccl_script(reply)
           [] route = "coupons" -> get_coupons(reply)
           [] route \in Proxied -> query_api_proxy(route, reply)
           [] route = "llm" -> query_llm(reply)
           [] route = "email" -> send_email(reply)
           [] route = "metric" -> upload_metric
           [] route = "stt" -> get_stt(reply)
           [] route = "tts" -> get_tts(reply)
           [] route = "response" -> get_response(reply)
           [] route = "models" -> get_brainforge_models(reply)
           [] route = "personas" -> get_brainforge_model_personas(reply)
           [] route = "inference" -> get_brainforge_model_inference(reply)
           [] OTHER -> read_user(reply)
=============================================================================
