----------------------------- MODULE HubPromise -----------------------------
(***************************************************************************)
(* What the docstrings of app/routers/hub.py promise of a Hub's identity:  *)
(* an id that is chosen once and then stable, and a display name that      *)
(* survives restarts unless the client that set it was warned.  There is   *)
(* no process, memory or file here: id and name are what lasts.            *)
(***************************************************************************)
CONSTANTS Names, DefaultName, HubIds, None

VARIABLES
    id,         \* the lasting hub_id, None while there is none
    name,       \* the lasting display name, None for the default
    volatile,   \* the name shown was set with a warning
    heard       \* the last identity a client was told

vars == <<id, name, volatile, heard>>

Shown(n) == IF n = None THEN DefaultName ELSE n

NotAsked == [hub_id |-> None, display_name |-> None, warning |-> FALSE]

Init ==
    /\ id \in HubIds \union {None}
    /\ name \in Names \union {None}
    /\ volatile = FALSE
    /\ heard = NotAsked

\* A client is told the id that lasts, once there is one.
Told(n, warning) ==
    /\ heard'.display_name = n
    /\ heard'.warning = warning
    /\ heard'.hub_id \in HubIds
    /\ id # None => heard'.hub_id = id

\* The Hub starts again: the id is chosen now or stays, and the name is the
\* lasting one.
Start ==
    /\ id' \in HubIds \union {None}
    /\ id # None => id' = id
    /\ volatile' = FALSE
    /\ heard' = NotAsked
    /\ UNCHANGED name

\* A name accepted without a warning lasts.
Accept(n) ==
    /\ name' = n
    /\ volatile' = FALSE
    /\ Told(n, FALSE)
    /\ UNCHANGED id

\* The Hub ends between keeping a name and answering: the name lasts, and no
\* client was told.
Interrupted(n) ==
    /\ name' = n
    /\ UNCHANGED <<id, volatile, heard>>

\* A name accepted with a warning is shown, and does not last.
Warn(n) ==
    /\ volatile' = TRUE
    /\ Told(n, TRUE)
    /\ UNCHANGED <<id, name>>

Ask ==
    /\ \E n \in Names \union {DefaultName} :
          /\ ~volatile => n = Shown(name)
          /\ Told(n, FALSE)
    /\ UNCHANGED <<id, name, volatile>>

Next == Start \/ Ask \/ \E n \in Names : Accept(n) \/ Warn(n) \/ Interrupted(n)

Spec == Init /\ [][Next]_vars
=============================================================================
