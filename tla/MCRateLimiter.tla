--------------------------- MODULE MCRateLimiter ---------------------------
(***************************************************************************)
(* Limits and periods small enough for a few fillings of every bucket;     *)
(* requests_per_minute is set or switched off.                             *)
(***************************************************************************)
EXTENDS RateLimiter

MCLimits == {[auth |-> 2, register |-> 1, total |-> rpm] : rpm \in {0, 1}}
MCPeriod == [k \in Classes |-> IF k = "register" THEN 4 ELSE 2]
=============================================================================
