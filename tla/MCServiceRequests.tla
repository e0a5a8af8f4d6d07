------------------------- MODULE MCServiceRequests --------------------------
(***************************************************************************)
(* Two HTTP clients and one thread.  In a setting, one caller uses every   *)
(* route; the client beside it a few that keep a worker or the loop.       *)
(***************************************************************************)
EXTENDS ServiceRequests, TLC

CONSTANTS c1, c2, t1

Few == {"inference", "refresh"}

Uses(first, second, thread) ==
    (c1 :> first) @@ (c2 :> second) @@ (t1 :> thread)

Setting(uses, email, auth, secrets, connected, limit) ==
    [uses |-> uses, email |-> email, auth |-> auth, secrets |-> secrets,
     connected |-> connected, limit |-> limit]

MCSettings ==
    {Setting(Uses(Routes, Few, {}), TRUE, TRUE, TRUE, TRUE, 1),
     Setting(Uses(Routes, {}, {}), FALSE, FALSE, FALSE, TRUE, 0),
     Setting(Uses({"stt", "refresh"}, Few, {"tts"}), TRUE, TRUE, TRUE, FALSE, -1),
     Setting(Uses({"refresh"}, {"email"}, BlockingRoutes), FALSE, TRUE, TRUE, TRUE, 1)}
=============================================================================
