---------------------------- MODULE NodeSessions ----------------------------
(***************************************************************************)
(* The WebSocket side of HANA: the two Node endpoints of                   *)
(* app/routers/node_server.py, the session table of mq_websocket_api.py,   *)
(* the per-session audio thread of streaming_client.py and the stream      *)
(* counter of auth/client_manager.py.                                      *)
(*                                                                         *)
(* Three kinds of threads share the session table:                         *)
(*   - the event loop, which runs every endpoint coroutine, one at a time, *)
(*     from one await to the next;                                         *)
(*   - the MQ consumer threads, which run the handle_* response callbacks; *)
(*   - one RemoteStreamHandler thread per stream, which listens for hot    *)
(*     words and utterances.                                               *)
(* A coroutine that calls something blocking (sleep, Thread.join, an       *)
(* engine load) keeps the loop: no other coroutine runs until it returns.  *)
(***************************************************************************)
EXTENDS Integers, FiniteSets

CONSTANTS
    Clients,        \* client_ids; a session_id is the client_id of its token
    NodeSockets,    \* WebSockets opened on /node/v1, each used once
    StreamSockets,  \* WebSockets opened on /node/v1/stream, each used once
    Consumers,      \* MQ consumer threads of the NeonAIClient connection
    Owner,          \* the client each socket's token names
    MaxStreams,     \* max_streaming_clients; negative, False or unset: no limit
    WaitSeconds,    \* one-second sleeps new_stream makes before giving up
    MaxChunks,      \* bound on the audio chunks queued for one handler
    Overlap,        \* may a client open a Node socket before its last one ended?
    InputErrors,    \* may handling an input raise (not JSON, MQ send fails)?
    None            \* no socket, no stream, no session, nobody

ASSUME SocketsAssumption ==
    /\ Owner \in [NodeSockets \union StreamSockets -> Clients]
    /\ NodeSockets \intersect StreamSockets = {}
    /\ Consumers \intersect (NodeSockets \union StreamSockets) = {}
    /\ None \notin Clients \union NodeSockets \union StreamSockets \union Consumers
    /\ IsFiniteSet(StreamSockets)

ASSUME BoundsAssumption ==
    /\ MaxStreams \in Int
    /\ WaitSeconds \in Nat
    /\ MaxChunks \in Nat
    /\ Overlap \in BOOLEAN
    /\ InputErrors \in BOOLEAN

VARIABLES
    node,              \* node[n]: where the coroutine of Node socket n is
    stream,            \* stream[s]: where the coroutine of stream socket s is
    sessionSocket,     \* _sessions[c]["socket"], None when c has no session
    sessionStream,     \* _sessions[c].get("stream"), named by the socket it serves
    loop,              \* the socket whose coroutine blocks the event loop, or None
    joined,            \* the handler end_session is joining, or None
    waitLeft,          \* sleeps left in new_stream's wait
    lock,              \* who is inside a _session_lock section that spans steps
    handler,           \* handler[s]: the thread created for stream socket s
    chunks,            \* audio chunks in the queue of handler s
    stopped,           \* shutdown was called on handler s: its queue ends with None
    looping,           \* the flag of handler s's voice loop: set by its start,
                       \* cleared by shutdown
    consumer,          \* consumer[k]: the callback consumer thread k is running
    asked,             \* session ids of the messages sent to Neon so far
    connectedStreams   \* ClientManager._connected_streams

table       == <<sessionSocket, sessionStream>>
streamVars  == <<stream, connectedStreams>>
loopVars    == <<loop, joined, waitLeft>>
shutDown    == <<stopped, looping>>
handlerVars == <<handler, chunks, shutDown>>
mqVars      == <<consumer, asked>>
threads     == <<handlerVars, mqVars>>
vars == <<node, table, streamVars, loopVars, lock, threads>>

NodeStates == {"idle", "requested", "accepting", "open", "gone", "joining",
               "refused", "done", "failed"}
StreamStates == {"idle", "requested", "accepting", "waiting", "building",
                 "streaming", "refused", "unknown", "closed"}
HandlerStates == {"none", "unstarted", "starting", "listening", "hotword",
                  "notify", "input", "dead"}
Kinds == {"klat", "failure", "other"}
Outcomes == {"delivered", "logged", "raised"}
ConsumerStates == {"idle", "update", "user", "send", "audio"} \union Outcomes

\* A Node coroutine that is past new_connection and before end_session.
Serving == {"open", "gone"}
\* A Node coroutine that has ended, or never began.
Over == {"idle", "refused", "done", "failed"}
\* A stream coroutine between check_connect_stream and disconnect_stream.
Holding == {"accepting", "waiting", "building", "streaming"}
\* A RemoteStreamHandler thread that has been started and has not returned.
Running == {"starting", "listening", "hotword", "notify", "input"}

HasSession(c) == sessionSocket[c] # None
IsOpen(n) == n # None /\ node[n] = "open"

\* Mutants: new_stream waits off the event loop; _session_lock is not taken;
\* it is only handed out by the event loop.
WaitOffLoop == TRUE
NoLock == TRUE
LockNeedsLoop == lock = None /\ loop = None

LoopFree == loop = None
LockFree == lock = None

TypeOK ==
    /\ node \in [NodeSockets -> NodeStates]
    /\ stream \in [StreamSockets -> StreamStates]
    /\ sessionSocket \in [Clients -> NodeSockets \union {None}]
    /\ sessionStream \in [Clients -> StreamSockets \union {None}]
    /\ loop \in NodeSockets \union StreamSockets \union {None}
    /\ joined \in StreamSockets \union {None}
    /\ waitLeft \in 0..WaitSeconds
    /\ lock \in StreamSockets \union Consumers \union {None}
    /\ handler \in [StreamSockets -> HandlerStates]
    /\ chunks \in [StreamSockets -> 0..MaxChunks]
    /\ stopped \in [StreamSockets -> BOOLEAN]
    /\ looping \in [StreamSockets -> BOOLEAN]
    /\ consumer \in [Consumers -> [pc: ConsumerStates,
                                   client: Clients \union {None},
                                   kind: Kinds]]
    /\ asked \subseteq Clients \union {None}
    /\ connectedStreams \in Nat

Init ==
    /\ node = [n \in NodeSockets |-> "idle"]
    /\ stream = [s \in StreamSockets |-> "idle"]
    /\ sessionSocket = [c \in Clients |-> None]
    /\ sessionStream = [c \in Clients |-> None]
    /\ loop = None
    /\ joined = None
    /\ waitLeft = 0
    /\ lock = None
    /\ handler = [s \in StreamSockets |-> "none"]
    /\ chunks = [s \in StreamSockets |-> 0]
    /\ stopped = [s \in StreamSockets |-> FALSE]
    /\ looping = [s \in StreamSockets |-> FALSE]
    /\ consumer = [k \in Consumers |-> [pc |-> "idle", client |-> None,
                                        kind |-> "other"]]
    /\ asked = {}
    /\ connectedStreams = 0

-----------------------------------------------------------------------------
(* The Node endpoint, node_v1_endpoint. *)

\* Environment: a client opens /node/v1.  Unless Overlap, it has waited for
\* the server to be done with its previous Node socket.
ClientOpensNode(n) ==
    /\ node[n] = "idle"
    /\ \/ Overlap
       \/ \A m \in NodeSockets : Owner[m] = Owner[n] => node[m] \in Over
    /\ node' = [node EXCEPT ![n] = "requested"]
    /\ UNCHANGED <<streamVars, table, loopVars, lock, threads>>

\* The token is valid and its roles allow Node access: accept() is awaited.
AuthorizeNode(n) ==
    /\ LoopFree
    /\ node[n] = "requested"
    /\ node' = [node EXCEPT ![n] = "accepting"]
    /\ UNCHANGED <<streamVars, table, loopVars, lock, threads>>

\* The token or its roles are refused, or accept() raises.
RefuseNode(n) ==
    /\ LoopFree
    /\ node[n] \in {"requested", "accepting"}
    /\ node' = [node EXCEPT ![n] = "refused"]
    /\ UNCHANGED <<streamVars, table, loopVars, lock, threads>>

\* accept() returns: new_connection writes a fresh session under the client's
\* id, whatever was there, without taking the lock.
NewConnection(n) ==
    /\ LoopFree
    /\ node[n] = "accepting"
    /\ node' = [node EXCEPT ![n] = "open"]
    /\ sessionSocket' = [sessionSocket EXCEPT ![Owner[n]] = n]
    /\ sessionStream' = [sessionStream EXCEPT ![Owner[n]] = None]
    /\ UNCHANGED <<streamVars, loopVars, lock, threads>>

\* handle_client_input: the message sent to Neon carries the context of the
\* client's session, an empty one when there is no session.
Ask(c) == asked' = asked \union {IF HasSession(c) THEN c ELSE None}

NodeInput(n) ==
    /\ LoopFree
    /\ LockFree
    /\ node[n] \in Serving
    /\ Ask(Owner[n])
    /\ UNCHANGED <<node, streamVars, table, loopVars, lock, handlerVars,
                   consumer>>

\* Environment: the client's end of the socket goes away; the coroutine has
\* not seen it yet.
ClientDropsNode(n) ==
    /\ node[n] = "open"
    /\ node' = [node EXCEPT ![n] = "gone"]
    /\ UNCHANGED <<streamVars, table, loopVars, lock, threads>>

\* receive_json or handle_client_input raises something else than
\* WebSocketDisconnect: the coroutine ends without reaching end_session.
NodeFails(n) ==
    /\ InputErrors
    /\ LoopFree
    /\ node[n] \in Serving
    /\ node' = [node EXCEPT ![n] = "failed"]
    /\ UNCHANGED <<streamVars, table, loopVars, lock, threads>>

\* Mutants: the session stays; only its handler is removed.
KeepSession(c) == UNCHANGED <<sessionSocket, sessionStream>>

ReadSession(c) ==
    /\ UNCHANGED sessionSocket
    /\ sessionStream' = [sessionStream EXCEPT ![c] = None]

PopSession(c) ==
    /\ sessionSocket' = [sessionSocket EXCEPT ![c] = None]
    /\ sessionStream' = [sessionStream EXCEPT ![c] = None]

\* Mutant: the handler is joined with the lock held.
HeldByJoin(n) == n

\* Who holds the lock once a session is popped: it is released before the
\* handler is shut down and joined.
LockAfterPop(n) == None

\* WebSocketDisconnect: end_session pops the session of the client under the
\* lock, then, lock released, shuts its handler down and joins it, which
\* blocks the loop.
EndSession(n) ==
    LET c == Owner[n]
        h == sessionStream[c]
    IN /\ LoopFree
       /\ LockFree
       /\ node[n] = "gone"
       /\ PopSession(c)
       /\ \/ /\ h = None
             /\ node' = [node EXCEPT ![n] = "done"]
             /\ UNCHANGED <<loop, joined, shutDown>>
          \/ /\ h # None
             /\ node' = [node EXCEPT ![n] = "joining"]
             /\ loop' = n
             /\ joined' = h
             /\ stopped' = [stopped EXCEPT ![h] = TRUE]
             /\ looping' = [looping EXCEPT ![h] = FALSE]
       /\ lock' = LockAfterPop(n)
       /\ UNCHANGED <<streamVars, waitLeft, handler, chunks, mqVars>>

\* Mutant: the join is given up.
JoinTimesOut(n) ==
    /\ loop = n
    /\ node' = [node EXCEPT ![n] = "done"]
    /\ loop' = None
    /\ joined' = None
    /\ UNCHANGED <<streamVars, table, waitLeft, lock, threads>>

\* join() returns when the thread has; on a thread that never started it
\* raises, and the coroutine fails after the session is gone.
JoinHandler(n) ==
    /\ loop = n
    /\ node[n] = "joining"
    /\ \/ /\ handler[joined] = "dead"
          /\ node' = [node EXCEPT ![n] = "done"]
       \/ /\ handler[joined] = "unstarted"
          /\ node' = [node EXCEPT ![n] = "failed"]
    /\ loop' = None
    /\ joined' = None
    /\ UNCHANGED <<streamVars, table, waitLeft, lock, threads>>

-----------------------------------------------------------------------------
(* The stream endpoint, node_v1_stream_endpoint. *)

\* Environment: a client opens /node/v1/stream.
ClientOpensStream(s) ==
    /\ stream[s] = "idle"
    /\ stream' = [stream EXCEPT ![s] = "requested"]
    /\ UNCHANGED <<node, connectedStreams, table, loopVars, lock, threads>>

\* Mutant: one stream too many.
AllowsOneMore == MaxStreams >= 0 => connectedStreams <= MaxStreams

\* check_connect_stream's test on the counter.
StreamAllowed == MaxStreams >= 0 => connectedStreams < MaxStreams

\* get_client_id, then check_connect_stream: a slot is taken, accept() awaited.
AdmitStream(s) ==
    /\ LoopFree
    /\ stream[s] = "requested"
    /\ StreamAllowed
    /\ stream' = [stream EXCEPT ![s] = "accepting"]
    /\ connectedStreams' = connectedStreams + 1
    /\ UNCHANGED <<node, table, loopVars, lock, threads>>

\* The token does not decode, or no slot is free.  No slot is taken.
RefuseStream(s) ==
    /\ LoopFree
    /\ stream[s] = "requested"
    /\ stream' = [stream EXCEPT ![s] = "refused"]
    /\ UNCHANGED <<node, connectedStreams, table, loopVars, lock, threads>>

\* Mutants: the slot is given back twice; it is kept by an unknown client.
LeaveTwice(s, outcome) ==
    /\ stream' = [stream EXCEPT ![s] = outcome]
    /\ connectedStreams' = connectedStreams - 2

LeakSlot(s, outcome) ==
    /\ stream' = [stream EXCEPT ![s] = outcome]
    /\ connectedStreams' =
           IF outcome = "unknown" THEN connectedStreams ELSE connectedStreams - 1

\* The coroutine leaves its try block in the given state: whatever the
\* reason, the finally clause calls disconnect_stream.
LeaveStream(s, outcome) ==
    /\ stream' = [stream EXCEPT ![s] = outcome]
    /\ connectedStreams' = connectedStreams - 1

\* Mutant: the end of a stream ends the client's session with it.
StreamDisconnectEndsSession(s) ==
    /\ LoopFree
    /\ stream[s] \in {"accepting", "streaming"}
    /\ LeaveStream(s, "closed")
    /\ PopSession(Owner[s])
    /\ UNCHANGED <<node, loopVars, lock, threads>>

\* accept() raises, or the client disconnects from a running stream.
StreamDisconnect(s) ==
    /\ LoopFree
    /\ stream[s] \in {"accepting", "streaming"}
    /\ LeaveStream(s, "closed")
    /\ UNCHANGED <<node, table, loopVars, lock, threads>>

\* accept() returns and new_stream starts waiting for the session; from here
\* on it holds the event loop.
NewStream(s) ==
    /\ LoopFree
    /\ stream[s] = "accepting"
    /\ stream' = [stream EXCEPT ![s] = "waiting"]
    /\ loop' = s
    /\ waitLeft' = WaitSeconds
    /\ UNCHANGED <<node, connectedStreams, table, joined, lock, threads>>

\* One sleep(1) on the event loop's thread.
WaitForSession(s) ==
    /\ loop = s
    /\ stream[s] = "waiting"
    /\ ~HasSession(Owner[s])
    /\ waitLeft > 0
    /\ waitLeft' = waitLeft - 1
    /\ UNCHANGED <<node, streamVars, table, loop, joined, lock, threads>>

\* Still no session: ClientNotKnown, answered with 401.
StreamNotKnown(s) ==
    /\ loop = s
    /\ LockFree
    /\ stream[s] = "waiting"
    /\ ~HasSession(Owner[s])
    /\ waitLeft = 0
    /\ LeaveStream(s, "unknown")
    /\ loop' = None
    /\ UNCHANGED <<node, table, joined, waitLeft, lock, threads>>

\* The session already has a handler: it is kept, with its own client_socket.
ReuseHandler(s) ==
    /\ loop = s
    /\ LockFree
    /\ stream[s] = "waiting"
    /\ HasSession(Owner[s])
    /\ sessionStream[Owner[s]] # None
    /\ stream' = [stream EXCEPT ![s] = "streaming"]
    /\ loop' = None
    /\ UNCHANGED <<node, connectedStreams, table, joined, waitLeft, lock,
                   threads>>

\* No handler yet: its engines are loaded with the lock held.
StartBuild(s) ==
    /\ loop = s
    /\ LockFree
    /\ stream[s] = "waiting"
    /\ HasSession(Owner[s])
    /\ sessionStream[Owner[s]] = None
    /\ stream' = [stream EXCEPT ![s] = "building"]
    /\ lock' = s
    /\ UNCHANGED <<node, connectedStreams, table, loopVars, threads>>

\* The handler is attached to the session and started.  A RuntimeError of
\* start() is ignored: the handler stays attached, its thread never runs.
FinishBuild(s) ==
    /\ stream[s] = "building"
    /\ stream' = [stream EXCEPT ![s] = "streaming"]
    /\ sessionStream' = [sessionStream EXCEPT ![Owner[s]] = s]
    /\ \E started \in {"starting", "unstarted"} :
           handler' = [handler EXCEPT ![s] = started]
    /\ lock' = None
    /\ loop' = None
    /\ UNCHANGED <<node, connectedStreams, sessionSocket, joined, waitLeft,
                   chunks, shutDown, mqVars>>

\* Loading an engine raises: the lock is released, the endpoint logs and ends.
BuildFails(s) ==
    /\ stream[s] = "building"
    /\ LeaveStream(s, "closed")
    /\ lock' = None
    /\ loop' = None
    /\ UNCHANGED <<node, table, joined, waitLeft, threads>>

\* handle_audio_input_stream: a chunk is queued for the session's handler.
StreamAudio(s) ==
    LET h == sessionStream[Owner[s]]
    IN /\ LoopFree
       /\ stream[s] = "streaming"
       /\ h # None
       /\ chunks[h] < MaxChunks
       /\ chunks' = [chunks EXCEPT ![h] = @ + 1]
       /\ UNCHANGED <<node, streamVars, table, loopVars, lock, handler,
                      shutDown, mqVars>>

\* The same call when the session, or its stream, is no longer there: the
\* KeyError ends the endpoint.
StreamAudioFails(s) ==
    /\ LoopFree
    /\ stream[s] = "streaming"
    /\ sessionStream[Owner[s]] = None
    /\ LeaveStream(s, "closed")
    /\ UNCHANGED <<node, table, loopVars, lock, threads>>

-----------------------------------------------------------------------------
(* The RemoteStreamHandler threads. *)

\* Mutant: the voice loop runs once.
OneTurn(h) == "dead"

\* The head of the voice loop: its flag was cleared, or not.
NextTurn(h) == IF looping[h] THEN "listening" ELSE "dead"

\* The new thread gets to run: the voice loop sets its flag.  A shutdown that
\* came before is forgotten, but for the None in the queue.
HandlerStarts(h) ==
    /\ handler[h] = "starting"
    /\ handler' = [handler EXCEPT ![h] = "listening"]
    /\ looping' = [looping EXCEPT ![h] = TRUE]
    /\ UNCHANGED <<node, streamVars, table, loopVars, lock, chunks, stopped,
                   mqVars>>

\* The thread takes a chunk from its queue: nothing is recognised in it, or a
\* hot word, or the end of an utterance.
HandlerReads(h) ==
    /\ handler[h] = "listening"
    /\ chunks[h] > 0
    /\ chunks' = [chunks EXCEPT ![h] = @ - 1]
    /\ \E heard \in {NextTurn(h), "hotword", "input"} :
           handler' = [handler EXCEPT ![h] = heard]
    /\ UNCHANGED <<node, streamVars, table, loopVars, lock, shutDown, mqVars>>

\* Mutant: shutdown clears the flag but queues no None.
NoPill(h) == FALSE

\* The queue holds nothing but the None that shutdown put there, which ends
\* the voice loop.
HandlerStops(h) ==
    /\ handler[h] = "listening"
    /\ chunks[h] = 0
    /\ stopped[h]
    /\ handler' = [handler EXCEPT ![h] = "dead"]
    /\ UNCHANGED <<node, streamVars, table, loopVars, lock, chunks, shutDown,
                   mqVars>>

\* handle_ww_detected, first half: the session context is read under the lock.
\* Without a session it is empty and send_to_client raises at once.
HandlerHotword(h) ==
    /\ handler[h] = "hotword"
    /\ LockFree
    /\ handler' = [handler EXCEPT
                      ![h] = IF HasSession(Owner[h]) THEN "notify" ELSE "dead"]
    /\ UNCHANGED <<node, streamVars, table, loopVars, lock, chunks, shutDown,
                   mqVars>>

\* send_to_client looks the session up again, without the lock, and sends on
\* its socket.  A missing session raises; so may a socket whose client is
\* gone.  Nothing catches it: the thread ends.
HandlerNotifies(h) ==
    LET n == sessionSocket[Owner[h]]
    IN /\ handler[h] = "notify"
       /\ \/ /\ n # None
             /\ handler' = [handler EXCEPT ![h] = NextTurn(h)]
          \/ /\ ~IsOpen(n)
             /\ handler' = [handler EXCEPT ![h] = "dead"]
       /\ UNCHANGED <<node, streamVars, table, loopVars, lock, chunks,
                      shutDown, mqVars>>

\* on_input_audio: the utterance goes to Neon through handle_client_input.
HandlerInput(h) ==
    /\ handler[h] = "input"
    /\ LockFree
    /\ \/ /\ Ask(Owner[h])
          /\ handler' = [handler EXCEPT ![h] = NextTurn(h)]
       \/ /\ InputErrors
          /\ handler' = [handler EXCEPT ![h] = "dead"]
          /\ UNCHANGED asked
    /\ UNCHANGED <<node, streamVars, table, loopVars, lock, chunks, shutDown,
                   consumer>>

-----------------------------------------------------------------------------
(* The MQ consumer threads. *)

Goto(k, where) == consumer' = [consumer EXCEPT ![k].pc = where]

\* Where an exception takes the callback: handle_klat_response catches and
\* logs it, the other callbacks let it out into the consumer thread.
Raise(k) == Goto(k, IF consumer[k].kind = "klat" THEN "logged" ELSE "raised")

\* A message arrives whose context names a session some earlier message to
\* Neon carried, or no session.  klat.response and complete.intent.failure
\* update the session first when there is one; all others are only forwarded.
TakeResponse(k) ==
    /\ consumer[k].pc \in Outcomes \union {"idle"}
    /\ \E c \in asked, kind \in Kinds :
           consumer' = [consumer EXCEPT ![k] =
               [pc |-> IF kind = "other" \/ c = None THEN "send" ELSE "update",
                client |-> c,
                kind |-> kind]]
    /\ UNCHANGED <<node, streamVars, table, loopVars, lock, handlerVars,
                   asked>>

\* _update_session_data, first half: the lock is taken, the session context
\* is stored; a KeyError when the session is gone.
UpdateSession(k) ==
    /\ consumer[k].pc = "update"
    /\ LockFree
    /\ IF HasSession(consumer[k].client)
       THEN Goto(k, "user") /\ lock' = k
       ELSE Raise(k) /\ UNCHANGED lock
    /\ UNCHANGED <<node, streamVars, table, loopVars, handlerVars, asked>>

\* Second half: the user profile, when the message has one, is stored through
\* a second lookup of the session, and the lock is released.
UpdateUser(k) ==
    /\ consumer[k].pc = "user"
    /\ lock = k
    /\ \/ Goto(k, "send")
       \/ ~HasSession(consumer[k].client) /\ Raise(k)
    /\ lock' = None
    /\ UNCHANGED <<node, streamVars, table, loopVars, handlerVars, asked>>

\* send_to_client: an unlocked lookup, then the send on the session's socket.
SendToClient(k) ==
    LET c == consumer[k].client
        n == IF c = None THEN None ELSE sessionSocket[c]
    IN /\ consumer[k].pc = "send"
       /\ \/ /\ n # None
             /\ Goto(k, IF consumer[k].kind = "klat" THEN "audio" ELSE "delivered")
          \/ /\ ~IsOpen(n)
             /\ Raise(k)
       /\ UNCHANGED <<node, streamVars, table, loopVars, lock, handlerVars,
                      asked>>

\* handle_klat_response ends with the response audio: it goes out on the
\* client_socket of the session's handler, if there is one.
SendAudio(k) ==
    LET h == sessionStream[consumer[k].client]
    IN /\ consumer[k].pc = "audio"
       /\ \/ Goto(k, "delivered")
          \/ /\ h # None
             /\ stream[h] # "streaming"
             /\ Raise(k)
       /\ UNCHANGED <<node, streamVars, table, loopVars, lock, handlerVars,
                      asked>>

-----------------------------------------------------------------------------
NodeEndpoint(n) ==
    \/ ClientOpensNode(n) \/ AuthorizeNode(n) \/ RefuseNode(n)
    \/ NewConnection(n) \/ NodeInput(n) \/ ClientDropsNode(n)
    \/ NodeFails(n) \/ EndSession(n) \/ JoinHandler(n)

StreamEndpoint(s) ==
    \/ ClientOpensStream(s) \/ AdmitStream(s) \/ RefuseStream(s)
    \/ StreamDisconnect(s) \/ NewStream(s) \/ WaitForSession(s)
    \/ StreamNotKnown(s) \/ ReuseHandler(s) \/ StartBuild(s)
    \/ FinishBuild(s) \/ BuildFails(s)
    \/ StreamAudio(s) \/ StreamAudioFails(s)

HandlerThread(h) ==
    \/ HandlerStarts(h) \/ HandlerReads(h) \/ HandlerStops(h)
    \/ HandlerHotword(h) \/ HandlerNotifies(h) \/ HandlerInput(h)

ConsumerThread(k) ==
    \/ TakeResponse(k) \/ UpdateSession(k) \/ UpdateUser(k)
    \/ SendToClient(k) \/ SendAudio(k)

Next ==
    \/ \E n \in NodeSockets : NodeEndpoint(n)
    \/ \E s \in StreamSockets : StreamEndpoint(s) \/ HandlerThread(s)
    \/ \E k \in Consumers : ConsumerThread(k)

Spec == Init /\ [][Next]_vars

\* Scheduling.  A running thread keeps running, and a blocked call that can
\* return does (WF).  The event loop serves its ready coroutines in turn and
\* _session_lock starves nobody, so a step that needs the loop or the lock
\* and finds it free again and again is taken (SF).  Clients and Neon owe
\* nothing.
Fairness ==
    /\ \A n \in NodeSockets : SF_vars(EndSession(n)) /\ WF_vars(JoinHandler(n))
    /\ \A s \in StreamSockets :
           /\ WF_vars(WaitForSession(s))
           /\ SF_vars(StreamNotKnown(s) \/ ReuseHandler(s) \/ StartBuild(s))
           /\ WF_vars(FinishBuild(s) \/ BuildFails(s))
           /\ WF_vars(\/ HandlerStarts(s) \/ HandlerReads(s) \/ HandlerStops(s)
                      \/ HandlerNotifies(s))
           /\ SF_vars(HandlerHotword(s) \/ HandlerInput(s))
    /\ \A k \in Consumers : WF_vars(UpdateUser(k))

FairSpec == Spec /\ Fairness
-----------------------------------------------------------------------------
(* Safety. *)

\* A connected Node is where its client's responses go: the session of the
\* client names the socket of every coroutine that serves it.
OpenNodeIsRouted ==
    \A n \in NodeSockets :
        node[n] \in Serving => sessionSocket[Owner[n]] = n

\* end_session always runs: a session never outlives the coroutine of the
\* socket it names.
SessionHasOpenNode ==
    \A c \in Clients : HasSession(c) => node[sessionSocket[c]] \in Serving

\* No audio thread is lost: one that runs is attached to a session, which
\* will shut it down, or is being joined.
NoOrphanHandler ==
    \A h \in StreamSockets :
        handler[h] \in Running =>
            joined = h \/ \E c \in Clients : sessionStream[c] = h

\* While its Node is connected, the audio thread of a session does not die:
\* audio queued for it is still read.
OpenNodeKeepsHandler ==
    \A n \in NodeSockets :
        node[n] = "open" /\ sessionStream[Owner[n]] # None =>
            handler[sessionStream[Owner[n]]] # "dead"

\* The streams whose coroutine holds a slot.
Holders == {s \in StreamSockets : stream[s] \in Holding}

\* The stream counter is the number of coroutines that hold a slot, on every
\* path out of the endpoint: none is leaked, none is given back twice.
SlotsMatchStreams == connectedStreams = Cardinality(Holders)

\* Consumer thread k is between the two writes of _update_session_data, each
\* of which looks the session up anew.
Updating(k) == consumer[k].pc = "user"

\* The two writes of an update go to one session, when clients wait for their
\* last Node socket to end before they open the next: nothing that happens
\* between them removes the session or puts another in its place.
UpdateIsAtomic ==
    [][\A k \in Consumers :
         Updating(k) =>
            LET c == consumer[k].client
            IN HasSession(c) /\ sessionSocket'[c] = sessionSocket[c]]_vars

\* Without that discipline, _session_lock still keeps end_session out between
\* the two writes.  It does not keep out new_connection, which takes no lock:
\* a new Node socket of the same client may replace the session there, and
\* nothing else may touch it.
UpdateYieldsToNewSocket ==
    [][\A k \in Consumers :
         Updating(k) =>
            LET c == consumer[k].client
            IN /\ HasSession(c)
               /\ \/ sessionSocket'[c] = sessionSocket[c]
                  \/ \E n \in NodeSockets :
                        /\ Owner[n] = c
                        /\ node[n] = "accepting" /\ node'[n] = "open"
                        /\ sessionSocket'[c] = n]_vars

\* new_stream's wait never helps: once it has slept there is no session, and
\* there will be none, since only the loop it blocks could create one.
WaitNeverHelps ==
    \A s \in StreamSockets :
        stream[s] = "waiting" /\ waitLeft < WaitSeconds => ~HasSession(Owner[s])

\* A join waits neither for the event loop, which it blocks, nor for a lock
\* whose holder needs the loop: its thread exists and was told to end, and if
\* somebody holds the lock it is a consumer thread about to release it.
JoinsComeBack ==
    joined # None =>
        /\ stopped[joined]
        /\ handler[joined] # "none"
        /\ lock = None \/ \E k \in Consumers : lock = k /\ consumer[k].pc = "user"

\* How many steps an audio thread can still make: four for a chunk in its
\* queue, at the most, and what is left of the turn it is in.
StepsLeft == [none |-> 0, unstarted |-> 0, dead |-> 0, listening |-> 1,
              starting |-> 2, notify |-> 2, input |-> 2, hotword |-> 3]

WorkLeft(h) == 4 * chunks[h] + StepsLeft[handler[h]]

\* A handler that was shut down stays so and only comes closer to its end,
\* even if its thread starts after that and sets the flag again: it is given
\* no more audio, and works off what is in its queue at the most.
ShutDownApproaches ==
    [][\A h \in StreamSockets :
         stopped[h] =>
            /\ stopped'[h]
            /\ handler'[h] # handler[h] \/ chunks'[h] # chunks[h] =>
                  WorkLeft(h)' < WorkLeft(h)]_vars

\* Callback k fails to forward a response that names a client.
Lost(k) ==
    /\ consumer[k].pc \in {"update", "user", "send"}
    /\ consumer[k].client # None
    /\ consumer'[k].pc \in {"logged", "raised"}

\* The client has no connected Node.
Closed(c) == \A n \in NodeSockets : Owner[n] = c => node[n] # "open"

\* A callback that fails to forward a response only does so when its client
\* has no connected Node.
LostOnlyWhenClosed ==
    [][\A k \in Consumers : Lost(k) => Closed(consumer[k].client)]_vars

\* The streams holding a slot, whatever the sessions and threads do, are
\* admitted and released as StreamAdmission says.
Admission == INSTANCE StreamAdmission WITH admitted <- Holders

AdmissionSpec == Admission!Spec

-----------------------------------------------------------------------------
(* What the docs promise and the code does not keep. *)

\* A client may reconnect before the server has seen its last socket die:
\* the one Node that remains is then the one its session names.
LastNodeIsRouted ==
    \A n \in NodeSockets :
        (node[n] = "open" /\ \A m \in NodeSockets \ {n} :
                                Owner[m] = Owner[n] => node[m] \in Over) =>
            sessionSocket[Owner[n]] = n

\* A client with an established stream gets its response audio on a stream
\* that is still established.
ResponseAudioHasStream ==
    \A s \in StreamSockets :
        stream[s] = "streaming" /\ sessionStream[Owner[s]] # None =>
            stream[sessionStream[Owner[s]]] = "streaming"

-----------------------------------------------------------------------------
(* Liveness. *)

\* A disconnect is always dealt with, engine loads, waits and joins included.
DisconnectIsHandled ==
    \A n \in NodeSockets : node[n] = "gone" ~> node[n] \in Over

\* No coroutine blocks the event loop for ever: a join never waits for a
\* thread that waits for the lock or the loop.
LoopComesBack == []<>LoopFree

\* A handler that was told to shut down ends, whatever it was doing.
ShutDownHandlerEnds ==
    \A h \in StreamSockets : stopped[h] ~> handler[h] \in {"dead", "unstarted"}
=============================================================================
