----------------------------- MODULE TokenStore -----------------------------
(***************************************************************************)
(* What the token lists of the users service promise for every user whose  *)
(* requests come one after the other: a list only grows, by one pair at a  *)
(* time; a pair is listed with one user; and a client is handed a pair     *)
(* only once it is listed.  The promise ends for a user when two requests  *)
(* work on it at once; other users do not notice.                          *)
(***************************************************************************)
CONSTANTS Users, Ids

VARIABLES
    lists,    \* lists[u]: the pairs listed with u, for the users it is kept for
    handed    \* handed[u]: the pairs of u that clients received, for the same

Init ==
    /\ \E kept \in SUBSET Users : lists = [u \in kept |-> {}]
    /\ handed = lists

\* A login or a refresh for u stores its pair.
List(u, id) ==
    /\ \A v \in DOMAIN lists : id \in lists[v] => v = u
    /\ lists' = [lists EXCEPT ![u] = @ \union {id}]
    /\ UNCHANGED handed

\* Its answer is sent.
HandOut(u, id) ==
    /\ id \in lists[u]
    /\ handed' = [handed EXCEPT ![u] = @ \union {id}]
    /\ UNCHANGED lists

\* Two requests work on u at once.
Forget(u) ==
    /\ lists' = [v \in DOMAIN lists \ {u} |-> lists[v]]
    /\ handed' = [v \in DOMAIN handed \ {u} |-> handed[v]]

Next ==
    \E u \in DOMAIN lists :
        Forget(u) \/ \E id \in Ids : List(u, id) \/ HandOut(u, id)

Spec == Init /\ [][Next]_<<lists, handed>>
=============================================================================
