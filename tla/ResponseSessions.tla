-------------------------- MODULE ResponseSessions --------------------------
(***************************************************************************)
(* The sessions that AsyncMqServiceManager caches for the HTTP clients of  *)
(* /neon/get_response: a request carries the cached session of its device, *)
(* Neon extends it, and the answer's session is cached for the next one.   *)
(* Requests are coroutines of one event loop; each is suspended while a    *)
(* pool thread waits for Neon.                                             *)
(***************************************************************************)
CONSTANTS
    Devices,        \* device_ids
    Requests,       \* the inputs that will be made
    DeviceOf,       \* the device of each input
    None            \* no input

ASSUME RequestsAssumption ==
    /\ DeviceOf \in [Requests -> Devices]
    /\ None \notin Requests

VARIABLES
    sessions,       \* sessions_by_id: the turns each cached session has seen
    request,        \* request[r]: where the coroutine of input r is
    carried,        \* carried[r]: the turns in the session sent with input r
    cause,          \* history: the turns of r's device Neon answered before r
    overlapped      \* history: devices that had two requests on their way

history == <<cause, overlapped>>
vars == <<sessions, request, carried, history>>

\* An "unread" response came, without the sentence its request looks for.
RequestStates == {"idle", "sent", "answered", "unread", "failed"}

\* An entry that is not there yet and a fresh session have the same turns.
TypeOK ==
    /\ sessions \in [Devices -> SUBSET Requests]
    /\ request \in [Requests -> RequestStates]
    /\ carried \in [Requests -> SUBSET Requests]
    /\ cause \in [Requests -> SUBSET Requests]
    /\ overlapped \subseteq Devices

Init ==
    /\ sessions = [d \in Devices |-> {}]
    /\ request = [r \in Requests |-> "idle"]
    /\ carried = [r \in Requests |-> {}]
    /\ cause = [r \in Requests |-> {}]
    /\ overlapped = {}

Sent(d) == {r \in Requests : DeviceOf[r] = d /\ request[r] = "sent"}
Responded(d) ==
    {r \in Requests : DeviceOf[r] = d /\ request[r] \in {"answered", "unread"}}

\* get_session: the cached session, for a new device one without turns.
SessionOf(d) == sessions[d]

\* get_response up to its await: the device's session is sent with the input.
Ask(r) ==
    LET d == DeviceOf[r]
    IN /\ request[r] = "idle"
       /\ request' = [request EXCEPT ![r] = "sent"]
       /\ carried' = [carried EXCEPT ![r] = SessionOf(d)]
       /\ cause' = [cause EXCEPT ![r] = Responded(d)]
       /\ overlapped' = IF Sent(d) = {} THEN overlapped ELSE overlapped \union {d}
       /\ UNCHANGED sessions

\* Mutant: an unknown turn is cached.
CacheUnknown(r) == carried[r] \union {None}

\* The session in Neon's response: the one that was sent, with this turn.
ResponseSession(r) == carried[r] \union {r}

\* Mutant of TakeResponse: the session is cached once the sentence is found.
CacheAfterLookup(r) ==
    /\ request[r] = "sent"
    /\ \E outcome \in {"answered", "unread"} :
           /\ request' = [request EXCEPT ![r] = outcome]
           /\ sessions' = IF outcome = "unread" THEN sessions
                          ELSE [sessions EXCEPT ![DeviceOf[r]] = ResponseSession(r)]
    /\ UNCHANGED <<carried, history>>

\* The response's session is cached first; then the sentence is looked up in
\* the request's language, which fails when Neon answered in another one.
TakeResponse(r) ==
    /\ request[r] = "sent"
    /\ sessions' = [sessions EXCEPT ![DeviceOf[r]] = ResponseSession(r)]
    /\ \E outcome \in {"answered", "unread"} :
           request' = [request EXCEPT ![r] = outcome]
    /\ UNCHANGED <<carried, history>>

\* No response in time, or one without a context: nothing is cached.
NoResponse(r) ==
    /\ request[r] = "sent"
    /\ request' = [request EXCEPT ![r] = "failed"]
    /\ UNCHANGED <<sessions, carried, history>>

Next == \E r \in Requests : Ask(r) \/ TakeResponse(r) \/ NoResponse(r)

Spec == Init /\ [][Next]_vars

-----------------------------------------------------------------------------
\* An input carries every turn of its device that Neon answered before it,
\* also those whose answer the client did not get because its sentence was not
\* found, unless the device made overlapping requests.
InputsCarryAnswers ==
    \A r \in Requests : DeviceOf[r] \notin overlapped => cause[r] \subseteq carried[r]
=============================================================================
