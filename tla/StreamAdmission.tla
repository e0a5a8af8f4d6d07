-------------------------- MODULE StreamAdmission --------------------------
(***************************************************************************)
(* What ClientManager.check_connect_stream and disconnect_stream promise:  *)
(* a set of admitted audio streams that never outgrows the configured      *)
(* maximum.  Nothing is said of counters, coroutines, sessions or threads; *)
(* NodeSessions implements this specification.                             *)
(***************************************************************************)
EXTENDS Integers, FiniteSets

CONSTANTS StreamSockets,  \* the WebSockets opened on /node/v1/stream
          MaxStreams      \* max_streaming_clients; negative: no limit

VARIABLE admitted         \* the sockets that currently hold a slot

\* True when one more stream may be admitted.
HasRoom == MaxStreams >= 0 => Cardinality(admitted) < MaxStreams

Init == admitted = {}

Admit(s) ==
    /\ s \notin admitted
    /\ HasRoom
    /\ admitted' = admitted \union {s}

Release(s) ==
    /\ s \in admitted
    /\ admitted' = admitted \ {s}

Next == \E s \in StreamSockets : Admit(s) \/ Release(s)

Spec == Init /\ [][Next]_admitted
=============================================================================
