------------------------- MODULE MCResponseSessions -------------------------
(***************************************************************************)
(* Two devices, the second with a single input.                            *)
(***************************************************************************)
EXTENDS ResponseSessions

CONSTANTS d1, d2, r0

MCDeviceOf == [r \in Requests |-> IF r = r0 THEN d2 ELSE d1]
=============================================================================
