--------------------------- MODULE MCNodeSessions ---------------------------
(***************************************************************************)
(* Small instances of NodeSessions for TLC.                                *)
(***************************************************************************)
EXTENDS NodeSessions

CONSTANTS c1, c2,   \* clients
          n3, s3    \* the sockets of c2, in the configurations that have it

\* Every socket is c1's, except n3 and s3.
MCOwner == [x \in NodeSockets \union StreamSockets |->
               IF x \in {n3, s3} THEN c2 ELSE c1]

NoLimit == -1
=============================================================================
