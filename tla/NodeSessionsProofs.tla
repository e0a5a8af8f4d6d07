------------------------- MODULE NodeSessionsProofs -------------------------
(***************************************************************************)
(* What is proved of NodeSessions for every set of clients, sockets and    *)
(* consumer threads and every bound.                                       *)
(***************************************************************************)
EXTENDS NodeSessions, TLAPS, FiniteSetTheorems

\* The groups of variables are only abbreviations.
USE DEF vars, table, streamVars, loopVars, shutDown, handlerVars, mqVars, threads

-----------------------------------------------------------------------------
(* Types. *)

\* TypeOK but for the sign of the counter, which takes SlotsMatchStreams.
TypeNode ==
    /\ node \in [NodeSockets -> NodeStates]
    /\ sessionSocket \in [Clients -> NodeSockets \union {None}]
    /\ sessionStream \in [Clients -> StreamSockets \union {None}]

TypeStream == stream \in [StreamSockets -> StreamStates]

TypeLoop ==
    /\ loop \in NodeSockets \union StreamSockets \union {None}
    /\ joined \in StreamSockets \union {None}
    /\ waitLeft \in 0..WaitSeconds
    /\ lock \in StreamSockets \union Consumers \union {None}

TypeThreads ==
    /\ handler \in [StreamSockets -> HandlerStates]
    /\ chunks \in [StreamSockets -> 0..MaxChunks]
    /\ stopped \in [StreamSockets -> BOOLEAN]
    /\ looping \in [StreamSockets -> BOOLEAN]
    /\ consumer \in [Consumers -> [pc: ConsumerStates,
                                   client: Clients \union {None},
                                   kind: Kinds]]
    /\ asked \subseteq Clients \union {None}

Types == TypeNode /\ TypeStream /\ TypeLoop /\ TypeThreads

\* Every step of a Node endpoint keeps the types.
LEMMA NodeTypes ==
    ASSUME Types, NEW n \in NodeSockets, NodeEndpoint(n)
    PROVE  Types'
<1> USE SocketsAssumption, BoundsAssumption
<1> USE DEF Types, TypeNode, TypeStream, TypeLoop, TypeThreads, NodeStates
<1>1. CASE ClientOpensNode(n)
  BY <1>1 DEF ClientOpensNode
<1>2. CASE AuthorizeNode(n)
  BY <1>2 DEF AuthorizeNode
<1>3. CASE RefuseNode(n)
  BY <1>3 DEF RefuseNode
<1>4. CASE NewConnection(n)
  BY <1>4 DEF NewConnection
<1>5. CASE NodeInput(n)
  BY <1>5 DEF NodeInput, Ask
<1>6. CASE ClientDropsNode(n)
  BY <1>6 DEF ClientDropsNode
<1>7. CASE NodeFails(n)
  BY <1>7 DEF NodeFails
<1>8. CASE EndSession(n)
  <2>1. sessionStream[Owner[n]] \in StreamSockets \union {None}
    BY Owner[n] \in Clients
  <2>2. CASE sessionStream[Owner[n]] = None
    BY <1>8, <2>2 DEF EndSession, LockAfterPop, PopSession
  <2>3. CASE sessionStream[Owner[n]] # None
    BY <1>8, <2>1, <2>3 DEF EndSession, LockAfterPop, PopSession
  <2> QED BY <2>2, <2>3
<1>9. CASE JoinHandler(n)
  BY <1>9 DEF JoinHandler
<1> QED BY <1>1, <1>2, <1>3, <1>4, <1>5, <1>6, <1>7, <1>8, <1>9 DEF NodeEndpoint

\* Every step of a stream endpoint keeps the types.
LEMMA StreamTypes ==
    ASSUME Types, NEW s \in StreamSockets, StreamEndpoint(s)
    PROVE  Types'
<1> USE SocketsAssumption, BoundsAssumption
<1> USE DEF Types, TypeNode, TypeStream, TypeLoop, TypeThreads, StreamStates,
            LeaveStream
<1>1. CASE ClientOpensStream(s)
  BY <1>1 DEF ClientOpensStream
<1>2. CASE AdmitStream(s)
  BY <1>2 DEF AdmitStream
<1>3. CASE RefuseStream(s)
  BY <1>3 DEF RefuseStream
<1>4. CASE StreamDisconnect(s)
  BY <1>4 DEF StreamDisconnect
<1>5. CASE NewStream(s)
  BY <1>5 DEF NewStream
<1>6. CASE WaitForSession(s)
  BY <1>6 DEF WaitForSession
<1>7. CASE StreamNotKnown(s)
  BY <1>7 DEF StreamNotKnown
<1>8. CASE ReuseHandler(s)
  BY <1>8 DEF ReuseHandler
<1>9. CASE StartBuild(s)
  BY <1>9 DEF StartBuild
<1>10. CASE FinishBuild(s)
  BY <1>10 DEF FinishBuild, HandlerStates
<1>11. CASE BuildFails(s)
  BY <1>11 DEF BuildFails
<1>12. CASE StreamAudio(s)
  BY <1>12 DEF StreamAudio
<1>13. CASE StreamAudioFails(s)
  BY <1>13 DEF StreamAudioFails
<1> QED BY <1>1, <1>2, <1>3, <1>4, <1>5, <1>6, <1>7, <1>8, <1>9, <1>10, <1>11,
           <1>12, <1>13 DEF StreamEndpoint

\* Every step of an audio thread keeps the types.
LEMMA HandlerTypes ==
    ASSUME Types, NEW h \in StreamSockets, HandlerThread(h)
    PROVE  Types'
<1> USE SocketsAssumption, BoundsAssumption
<1> USE DEF Types, TypeNode, TypeStream, TypeLoop, TypeThreads, HandlerStates,
            NextTurn
<1>1. CASE HandlerReads(h)
  BY <1>1 DEF HandlerReads
<1>2. CASE HandlerStops(h)
  BY <1>2 DEF HandlerStops
<1>3. CASE HandlerHotword(h)
  BY <1>3 DEF HandlerHotword
<1>4. CASE HandlerNotifies(h)
  BY <1>4 DEF HandlerNotifies
<1>5. CASE HandlerInput(h)
  BY <1>5 DEF HandlerInput, Ask
<1>6. CASE HandlerStarts(h)
  BY <1>6 DEF HandlerStarts
<1> QED BY <1>1, <1>2, <1>3, <1>4, <1>5, <1>6 DEF HandlerThread

\* Every step of a consumer thread keeps the types.
LEMMA ConsumerTypes ==
    ASSUME Types, NEW k \in Consumers, ConsumerThread(k)
    PROVE  Types'
<1> USE SocketsAssumption, BoundsAssumption
<1> USE DEF Types, TypeNode, TypeStream, TypeLoop, TypeThreads, ConsumerStates,
            Outcomes, Goto, Raise
<1>1. CASE TakeResponse(k)
  BY <1>1 DEF TakeResponse
<1>2. CASE UpdateSession(k)
  BY <1>2 DEF UpdateSession
<1>3. CASE UpdateUser(k)
  BY <1>3 DEF UpdateUser
<1>4. CASE SendToClient(k)
  BY <1>4 DEF SendToClient
<1>5. CASE SendAudio(k)
  BY <1>5 DEF SendAudio
<1> QED BY <1>1, <1>2, <1>3, <1>4, <1>5 DEF ConsumerThread
-----------------------------------------------------------------------------
(* Slots. *)

\* A step of a stream endpoint leaves the slots alone, takes one for a stream
\* that has none and is allowed one, or gives back the one it has.
LEMMA SlotStep ==
    ASSUME Types, NEW s \in StreamSockets, StreamEndpoint(s)
    PROVE  \/ Holders' = Holders /\ connectedStreams' = connectedStreams
           \/ /\ s \notin Holders /\ Holders' = Holders \union {s}
              /\ StreamAllowed /\ connectedStreams' = connectedStreams + 1
           \/ /\ s \in Holders /\ Holders' = Holders \ {s}
              /\ connectedStreams' = connectedStreams - 1
<1> USE DEF Types, TypeStream, Holders, Holding, LeaveStream
<1>1. CASE ClientOpensStream(s)
  BY <1>1 DEF ClientOpensStream
<1>2. CASE AdmitStream(s)
  BY <1>2 DEF AdmitStream
<1>3. CASE RefuseStream(s)
  BY <1>3 DEF RefuseStream
<1>4. CASE StreamDisconnect(s)
  BY <1>4 DEF StreamDisconnect
<1>5. CASE NewStream(s)
  BY <1>5 DEF NewStream
<1>6. CASE WaitForSession(s)
  BY <1>6 DEF WaitForSession
<1>7. CASE StreamNotKnown(s)
  BY <1>7 DEF StreamNotKnown
<1>8. CASE ReuseHandler(s)
  BY <1>8 DEF ReuseHandler
<1>9. CASE StartBuild(s)
  BY <1>9 DEF StartBuild
<1>10. CASE FinishBuild(s)
  BY <1>10 DEF FinishBuild
<1>11. CASE BuildFails(s)
  BY <1>11 DEF BuildFails
<1>12. CASE StreamAudio(s)
  BY <1>12 DEF StreamAudio
<1>13. CASE StreamAudioFails(s)
  BY <1>13 DEF StreamAudioFails
<1> QED BY <1>1, <1>2, <1>3, <1>4, <1>5, <1>6, <1>7, <1>8, <1>9, <1>10, <1>11,
           <1>12, <1>13 DEF StreamEndpoint

\* Nobody else touches the slots.
LEMMA NoSlotStep ==
    ASSUME Types,
           \/ \E n \in NodeSockets : NodeEndpoint(n)
           \/ \E h \in StreamSockets : HandlerThread(h)
           \/ \E k \in Consumers : ConsumerThread(k)
           \/ UNCHANGED vars
    PROVE  Holders' = Holders /\ connectedStreams' = connectedStreams
<1>1. UNCHANGED <<stream, connectedStreams>>
  BY DEF NodeEndpoint, HandlerThread, ConsumerThread,
         ClientOpensNode, AuthorizeNode, RefuseNode, NewConnection, NodeInput,
         ClientDropsNode, NodeFails, EndSession, JoinHandler,
         HandlerStarts, HandlerReads, HandlerStops, HandlerHotword, HandlerNotifies,
         HandlerInput, TakeResponse, UpdateSession, UpdateUser, SendToClient,
         SendAudio
<1> QED BY <1>1 DEF Holders

\* The counter stays the number of slots held.
LEMMA SlotsMatch ==
    ASSUME Types, SlotsMatchStreams, [Next]_vars
    PROVE  SlotsMatchStreams'
<1>1. IsFiniteSet(Holders)
  BY SocketsAssumption, FS_Subset, Holders \subseteq StreamSockets DEF Holders
<1>2. CASE \E s \in StreamSockets : StreamEndpoint(s)
  <2>1. PICK s \in StreamSockets : StreamEndpoint(s)
    BY <1>2
  <2> QED BY <1>1, <2>1, SlotStep, FS_AddElement, FS_RemoveElement,
             FS_CardinalityType DEF SlotsMatchStreams
<1>3. CASE ~ \E s \in StreamSockets : StreamEndpoint(s)
  BY <1>3, NoSlotStep DEF Next, SlotsMatchStreams
<1> QED BY <1>2, <1>3
-----------------------------------------------------------------------------
(* Who blocks the loop, who holds the lock. *)

Turns ==
    /\ \A s \in StreamSockets : stream[s] \in {"waiting", "building"} <=> loop = s
    /\ \A n \in NodeSockets : node[n] = "joining" <=> loop = n
    /\ \A s \in StreamSockets : stream[s] = "building" <=> lock = s
    /\ \A k \in Consumers : consumer[k].pc = "user" <=> lock = k

\* The lock section of an update has a session all along.
UpdateFindsSession ==
    \A k \in Consumers : Updating(k) => HasSession(consumer[k].client)

Exclusion == Turns /\ UpdateFindsSession /\ WaitNeverHelps

\* Every step of a Node endpoint keeps the loop and the lock exclusive.
LEMMA NodeExclusion ==
    ASSUME Types, Exclusion, NEW n \in NodeSockets, NodeEndpoint(n)
    PROVE  Exclusion'
<1> USE SocketsAssumption, BoundsAssumption
<1> USE DEF Types, TypeNode, TypeStream, TypeLoop, TypeThreads, Exclusion,
            Turns,
            UpdateFindsSession, Updating, WaitNeverHelps, HasSession, LoopFree, LockFree
<1>1. CASE ClientOpensNode(n)
  BY <1>1 DEF ClientOpensNode
<1>2. CASE AuthorizeNode(n)
  BY <1>2 DEF AuthorizeNode
<1>3. CASE RefuseNode(n)
  BY <1>3 DEF RefuseNode
<1>4. CASE NewConnection(n)
  BY <1>4 DEF NewConnection
<1>5. CASE NodeInput(n)
  BY <1>5 DEF NodeInput, Ask
<1>6. CASE ClientDropsNode(n)
  BY <1>6 DEF ClientDropsNode
<1>7. CASE NodeFails(n)
  BY <1>7 DEF NodeFails
<1>8. CASE EndSession(n)
  BY <1>8 DEF EndSession, LockAfterPop, PopSession
<1>9. CASE JoinHandler(n)
  BY <1>9 DEF JoinHandler
<1> QED BY <1>1, <1>2, <1>3, <1>4, <1>5, <1>6, <1>7, <1>8, <1>9 DEF
           NodeEndpoint

\* Every step of a stream endpoint keeps the loop and the lock exclusive.
LEMMA StreamExclusion ==
    ASSUME Types, Exclusion, NEW s \in StreamSockets, StreamEndpoint(s)
    PROVE  Exclusion'
<1> USE SocketsAssumption, BoundsAssumption
<1> USE DEF Types, TypeNode, TypeStream, TypeLoop, TypeThreads, Exclusion,
            Turns,
            UpdateFindsSession, Updating, WaitNeverHelps, HasSession, LoopFree, LockFree,
            LeaveStream
<1>1. CASE ClientOpensStream(s)
  BY <1>1 DEF ClientOpensStream
<1>2. CASE AdmitStream(s)
  BY <1>2 DEF AdmitStream
<1>3. CASE RefuseStream(s)
  BY <1>3 DEF RefuseStream
<1>4. CASE StreamDisconnect(s)
  BY <1>4 DEF StreamDisconnect
<1>5. CASE NewStream(s)
  BY <1>5 DEF NewStream
<1>6. CASE WaitForSession(s)
  BY <1>6 DEF WaitForSession
<1>7. CASE StreamNotKnown(s)
  BY <1>7 DEF StreamNotKnown
<1>8. CASE ReuseHandler(s)
  BY <1>8 DEF ReuseHandler
<1>9. CASE StartBuild(s)
  BY <1>9 DEF StartBuild
<1>10. CASE FinishBuild(s)
  BY <1>10 DEF FinishBuild
<1>11. CASE BuildFails(s)
  BY <1>11 DEF BuildFails
<1>12. CASE StreamAudio(s)
  BY <1>12 DEF StreamAudio
<1>13. CASE StreamAudioFails(s)
  BY <1>13 DEF StreamAudioFails
<1> QED BY <1>1, <1>2, <1>3, <1>4, <1>5, <1>6, <1>7, <1>8, <1>9, <1>10, <1>11,
           <1>12, <1>13 DEF StreamEndpoint

\* Every step of an audio thread keeps the loop and the lock exclusive.
LEMMA HandlerExclusion ==
    ASSUME Types, Exclusion, NEW h \in StreamSockets, HandlerThread(h)
    PROVE  Exclusion'
<1> USE SocketsAssumption, BoundsAssumption
<1> USE DEF Types, TypeNode, TypeStream, TypeLoop, TypeThreads, Exclusion,
            Turns,
            UpdateFindsSession, Updating, WaitNeverHelps, HasSession, LoopFree, LockFree
<1>1. CASE HandlerReads(h)
  BY <1>1 DEF HandlerReads
<1>2. CASE HandlerStops(h)
  BY <1>2 DEF HandlerStops
<1>3. CASE HandlerHotword(h)
  BY <1>3 DEF HandlerHotword
<1>4. CASE HandlerNotifies(h)
  BY <1>4 DEF HandlerNotifies
<1>5. CASE HandlerInput(h)
  BY <1>5 DEF HandlerInput, Ask
<1>6. CASE HandlerStarts(h)
  BY <1>6 DEF HandlerStarts
<1> QED BY <1>1, <1>2, <1>3, <1>4, <1>5, <1>6 DEF HandlerThread

\* Every step of a consumer thread keeps the loop and the lock exclusive.
LEMMA ConsumerExclusion ==
    ASSUME Types, Exclusion, NEW k \in Consumers, ConsumerThread(k)
    PROVE  Exclusion'
<1> USE SocketsAssumption, BoundsAssumption
<1> USE DEF Types, TypeNode, TypeStream, TypeLoop, TypeThreads, Exclusion,
            Turns,
            UpdateFindsSession, Updating, WaitNeverHelps, HasSession, LoopFree, LockFree,
            Goto, Raise, Outcomes
<1>1. CASE TakeResponse(k)
  BY <1>1 DEF TakeResponse
<1>2. CASE UpdateSession(k)
  BY <1>2 DEF UpdateSession
<1>3. CASE UpdateUser(k)
  BY <1>3 DEF UpdateUser
<1>4. CASE SendToClient(k)
  BY <1>4 DEF SendToClient
<1>5. CASE SendAudio(k)
  <2>1. /\ consumer[k].pc = "audio"
        /\ \E where \in Outcomes : consumer' = [consumer EXCEPT ![k].pc = where]
        /\ UNCHANGED <<node, stream, sessionSocket, sessionStream, loop, waitLeft,
                       lock>>
    BY <1>5 DEF SendAudio
  <2>2. Turns'
    BY <2>1
  <2> QED BY <2>1, <2>2
<1> QED BY <1>1, <1>2, <1>3, <1>4, <1>5 DEF ConsumerThread

-----------------------------------------------------------------------------
(* The audio threads, from their creation to their end. *)

\* The session that a handler was built for still has it.
Attached(s) == sessionStream[Owner[s]] = s

\* A session only has handlers of its own client.  Only a stream that was
\* served may have a handler; one that is attached was built and not yet shut
\* down; the flag of a running one is only cleared by that; and only Node
\* coroutines join, once they have shut it down.
Handlers ==
    /\ \A c \in Clients : sessionStream[c] # None => Owner[sessionStream[c]] = c
    /\ \A s \in StreamSockets :
           /\ stream[s] \notin {"streaming", "closed"} => handler[s] = "none"
           /\ handler[s] = "none" => ~Attached(s) /\ ~stopped[s]
           /\ Attached(s) => ~stopped[s]
           /\ handler[s] \in Running \ {"starting"} => looping[s] \/ stopped[s]
    /\ joined # None => loop \in NodeSockets /\ stopped[joined]

\* Every step of a Node endpoint keeps them.
LEMMA NodeHandlers ==
    ASSUME Types, Turns, Handlers, NEW n \in NodeSockets, NodeEndpoint(n)
    PROVE  Handlers'
<1> USE SocketsAssumption
<1> USE DEF Types, TypeNode, TypeStream, TypeLoop, TypeThreads, Turns, LoopFree,
            Handlers, Attached, Running
<1>1. CASE ClientOpensNode(n)
  BY <1>1 DEF ClientOpensNode
<1>2. CASE AuthorizeNode(n)
  BY <1>2 DEF AuthorizeNode
<1>3. CASE RefuseNode(n)
  BY <1>3 DEF RefuseNode
<1>4. CASE NewConnection(n)
  BY <1>4 DEF NewConnection
<1>5. CASE NodeInput(n)
  BY <1>5 DEF NodeInput, Ask
<1>6. CASE ClientDropsNode(n)
  BY <1>6 DEF ClientDropsNode
<1>7. CASE NodeFails(n)
  BY <1>7 DEF NodeFails
<1>8. CASE EndSession(n)
  BY <1>8 DEF EndSession, LockAfterPop, PopSession
<1>9. CASE JoinHandler(n)
  BY <1>9 DEF JoinHandler
<1> QED BY <1>1, <1>2, <1>3, <1>4, <1>5, <1>6, <1>7, <1>8, <1>9 DEF NodeEndpoint

\* Every step of a stream endpoint keeps them.
LEMMA StreamHandlers ==
    ASSUME Types, Turns, Handlers, NEW s \in StreamSockets, StreamEndpoint(s)
    PROVE  Handlers'
<1> USE SocketsAssumption
<1> USE DEF Types, TypeNode, TypeStream, TypeLoop, TypeThreads, Turns, LoopFree,
            Handlers, Attached, Running, LeaveStream
<1>1. CASE ClientOpensStream(s)
  BY <1>1 DEF ClientOpensStream
<1>2. CASE AdmitStream(s)
  BY <1>2 DEF AdmitStream
<1>3. CASE RefuseStream(s)
  BY <1>3 DEF RefuseStream
<1>4. CASE StreamDisconnect(s)
  BY <1>4 DEF StreamDisconnect
<1>5. CASE NewStream(s)
  BY <1>5 DEF NewStream
<1>6. CASE WaitForSession(s)
  BY <1>6 DEF WaitForSession
<1>7. CASE StreamNotKnown(s)
  BY <1>7 DEF StreamNotKnown
<1>8. CASE ReuseHandler(s)
  BY <1>8 DEF ReuseHandler
<1>9. CASE StartBuild(s)
  BY <1>9 DEF StartBuild
<1>10. CASE FinishBuild(s)
  BY <1>10 DEF FinishBuild
<1>11. CASE BuildFails(s)
  BY <1>11 DEF BuildFails
<1>12. CASE StreamAudio(s)
  BY <1>12 DEF StreamAudio
<1>13. CASE StreamAudioFails(s)
  BY <1>13 DEF StreamAudioFails
<1> QED BY <1>1, <1>2, <1>3, <1>4, <1>5, <1>6, <1>7, <1>8, <1>9, <1>10, <1>11,
           <1>12, <1>13 DEF StreamEndpoint

\* Every step of an audio thread keeps them.
LEMMA ThreadHandlers ==
    ASSUME Types, Turns, Handlers, NEW h \in StreamSockets, HandlerThread(h)
    PROVE  Handlers'
<1> USE SocketsAssumption
<1> USE DEF Types, TypeNode, TypeStream, TypeLoop, TypeThreads, Turns, LoopFree,
            Handlers, Attached, Running, NextTurn
<1>1. CASE HandlerReads(h)
  BY <1>1 DEF HandlerReads
<1>2. CASE HandlerStops(h)
  BY <1>2 DEF HandlerStops
<1>3. CASE HandlerHotword(h)
  BY <1>3 DEF HandlerHotword
<1>4. CASE HandlerNotifies(h)
  BY <1>4 DEF HandlerNotifies
<1>5. CASE HandlerInput(h)
  BY <1>5 DEF HandlerInput, Ask
<1>6. CASE HandlerStarts(h)
  BY <1>6 DEF HandlerStarts
<1> QED BY <1>1, <1>2, <1>3, <1>4, <1>5, <1>6 DEF HandlerThread

\* Every step of a consumer thread keeps them.
LEMMA ConsumerHandlers ==
    ASSUME Types, Turns, Handlers, NEW k \in Consumers, ConsumerThread(k)
    PROVE  Handlers'
<1> USE SocketsAssumption
<1> USE DEF Types, TypeNode, TypeStream, TypeLoop, TypeThreads, Turns, LoopFree,
            Handlers, Attached, Running, Goto, Raise
<1>1. CASE TakeResponse(k)
  BY <1>1 DEF TakeResponse
<1>2. CASE UpdateSession(k)
  BY <1>2 DEF UpdateSession
<1>3. CASE UpdateUser(k)
  BY <1>3 DEF UpdateUser
<1>4. CASE SendToClient(k)
  BY <1>4 DEF SendToClient
<1>5. CASE SendAudio(k)
  BY <1>5 DEF SendAudio
<1> QED BY <1>1, <1>2, <1>3, <1>4, <1>5 DEF ConsumerThread

-----------------------------------------------------------------------------
(* The theorems that hold of every client. *)

Core == Types /\ SlotsMatchStreams /\ Exclusion /\ Handlers

\* The core invariant holds before the first connection.
LEMMA CoreInit == Init => Core
<1> SUFFICES ASSUME Init PROVE Core
  OBVIOUS
<1>1. Types
  BY BoundsAssumption DEF Init, Types, TypeNode, TypeStream, TypeLoop,
     TypeThreads, NodeStates, StreamStates, HandlerStates, ConsumerStates,
     Kinds
<1>2. Holders = {}
  BY DEF Init, Holders, Holding
<1>3. SlotsMatchStreams
  BY <1>2, FS_EmptySet DEF Init, SlotsMatchStreams
<1>4. Exclusion
  BY SocketsAssumption DEF Init, Exclusion, Turns, UpdateFindsSession, Updating,
     WaitNeverHelps
<1>5. Handlers
  BY SocketsAssumption DEF Init, Handlers, Attached, Running
<1> QED BY <1>1, <1>3, <1>4, <1>5 DEF Core

\* Every step of every thread keeps it.
LEMMA CoreStep == Core /\ [Next]_vars => Core'
<1> SUFFICES ASSUME Core, [Next]_vars PROVE Core'
  OBVIOUS
<1>1. CASE \E n \in NodeSockets : NodeEndpoint(n)
  BY <1>1, NodeTypes, NodeExclusion, NodeHandlers, SlotsMatch DEF Core, Exclusion
<1>2. CASE \E s \in StreamSockets : StreamEndpoint(s)
  BY <1>2, StreamTypes, StreamExclusion, StreamHandlers, SlotsMatch DEF Core, Exclusion
<1>3. CASE \E h \in StreamSockets : HandlerThread(h)
  BY <1>3, HandlerTypes, HandlerExclusion, ThreadHandlers, SlotsMatch DEF Core, Exclusion
<1>4. CASE \E k \in Consumers : ConsumerThread(k)
  BY <1>4, ConsumerTypes, ConsumerExclusion, ConsumerHandlers, SlotsMatch DEF Core, Exclusion
<1>5. CASE UNCHANGED vars
  <2>1. Types' /\ Exclusion' /\ Handlers'
    BY <1>5 DEF Core, Types, TypeNode, TypeStream, TypeLoop, TypeThreads,
       Exclusion, Turns, UpdateFindsSession, Updating, WaitNeverHelps, HasSession,
       Handlers, Attached
  <2> QED BY <2>1, SlotsMatch DEF Core
<1> QED BY <1>1, <1>2, <1>3, <1>4, <1>5 DEF Next

\* The types, the stream counter and the exclusion by loop and lock hold for
\* every client behaviour and every interleaving of the threads.
THEOREM CoreInvariant == Spec => []Core
BY CoreInit, CoreStep, PTL DEF Spec

\* Every variable keeps its type; the stream counter is never negative.
THEOREM TypeCorrect == Spec => []TypeOK
<1>1. Core => TypeOK
  <2> SUFFICES ASSUME Core PROVE TypeOK
    OBVIOUS
  <2>1. IsFiniteSet(Holders)
    BY SocketsAssumption, FS_Subset, Holders \subseteq StreamSockets DEF Holders
  <2> QED BY <2>1, FS_CardinalityType DEF Core, SlotsMatchStreams, TypeOK,
             Types, TypeNode, TypeStream, TypeLoop, TypeThreads
<1> QED BY <1>1, CoreInvariant, PTL

\* connected_streams counts the streams that hold a slot.
THEOREM SlotsExact == Spec => []SlotsMatchStreams
<1>1. Core => SlotsMatchStreams
  BY DEF Core
<1> QED BY <1>1, CoreInvariant, PTL

\* What a step does to the session an update is writing to.
Yields ==
    \A k \in Consumers :
        Updating(k) =>
            LET c == consumer[k].client
            IN /\ HasSession(c)
               /\ \/ sessionSocket'[c] = sessionSocket[c]
                  \/ \E n \in NodeSockets :
                        /\ Owner[n] = c
                        /\ node[n] = "accepting" /\ node'[n] = "open"
                        /\ sessionSocket'[c] = n

\* Only the Node endpoints write sessionSocket: new_connection, and
\* end_session, which finds the lock taken while an update holds it.
LEMMA StepYields == Core /\ [Next]_vars => Yields
<1> SUFFICES ASSUME Core, [Next]_vars, NEW k \in Consumers, Updating(k)
             PROVE  LET c == consumer[k].client
                    IN /\ HasSession(c)
                       /\ \/ sessionSocket'[c] = sessionSocket[c]
                          \/ \E n \in NodeSockets :
                                /\ Owner[n] = c
                                /\ node[n] = "accepting" /\ node'[n] = "open"
                                /\ sessionSocket'[c] = n
  BY DEF Yields
<1> DEFINE c == consumer[k].client
<1>1. HasSession(c) /\ lock = k /\ lock # None /\ c \in Clients \union {None}
  BY SocketsAssumption DEF Core, Exclusion, Turns, UpdateFindsSession, Updating,
     Types, TypeThreads
<1>2. CASE UNCHANGED sessionSocket
  BY <1>1, <1>2
<1>3. ASSUME NEW n \in NodeSockets, NewConnection(n)
      PROVE  \/ sessionSocket'[c] = sessionSocket[c]
             \/ /\ Owner[n] = c
                /\ node[n] = "accepting" /\ node'[n] = "open"
                /\ sessionSocket'[c] = n
  <2>1. /\ sessionSocket' = [sessionSocket EXCEPT ![Owner[n]] = n]
        /\ node' = [node EXCEPT ![n] = "open"]
        /\ node[n] = "accepting"
    BY <1>3 DEF NewConnection
  <2>2. Owner[n] \in Clients
    BY SocketsAssumption
  <2>3. node \in [NodeSockets -> NodeStates] /\ DOMAIN sessionSocket = Clients
    BY DEF Core, Types, TypeNode
  <2> QED BY <2>1, <2>2, <2>3
<1>4. ASSUME NEW n \in NodeSockets, NodeEndpoint(n), ~NewConnection(n)
      PROVE  UNCHANGED sessionSocket
  <2>1. ~EndSession(n)
    BY <1>1 DEF EndSession, LockFree
  <2> QED BY <1>4, <2>1 DEF NodeEndpoint, ClientOpensNode, AuthorizeNode,
             RefuseNode, NodeInput, ClientDropsNode, NodeFails, JoinHandler
<1>5. ASSUME NEW s \in StreamSockets, StreamEndpoint(s) \/ HandlerThread(s)
      PROVE  UNCHANGED sessionSocket
  BY <1>5 DEF StreamEndpoint, ClientOpensStream, AdmitStream, RefuseStream,
     StreamDisconnect, NewStream, WaitForSession, StreamNotKnown, ReuseHandler,
     StartBuild, FinishBuild, BuildFails, StreamAudio, StreamAudioFails,
     HandlerThread, HandlerStarts, HandlerReads, HandlerStops, HandlerHotword,
     HandlerNotifies, HandlerInput
<1>6. ASSUME NEW j \in Consumers, ConsumerThread(j)
      PROVE  UNCHANGED sessionSocket
  BY <1>6 DEF ConsumerThread, TakeResponse, UpdateSession, UpdateUser,
     SendToClient, SendAudio
<1> QED BY <1>1, <1>2, <1>3, <1>4, <1>5, <1>6 DEF Next

\* Whatever clients do, an update's session is only touched between its two
\* writes by a new Node socket of the same client.
THEOREM UpdatesYield == Spec => UpdateYieldsToNewSocket
<1>1. Core /\ [Next]_vars => [Yields]_vars
  BY StepYields
<1> QED BY <1>1, CoreInvariant, PTL DEF Spec, UpdateYieldsToNewSocket, Yields

\* A stream whose wait in new_stream has begun to sleep finds no session.
THEOREM WaitIsFutile == Spec => []WaitNeverHelps
<1>1. Core => WaitNeverHelps
  BY DEF Core, Exclusion
<1> QED BY <1>1, CoreInvariant, PTL

\* A join of end_session waits for a thread that exists and was told to end,
\* and for no lock whose holder needs the event loop, whatever clients do.
THEOREM JoinsReturn == Spec => []JoinsComeBack
<1>1. Core => JoinsComeBack
  <2> SUFFICES ASSUME Core, joined # None PROVE JoinsComeBack
    BY DEF JoinsComeBack
  <2> USE SocketsAssumption DEF Core, Types, TypeLoop, Exclusion, Turns
  <2>1. joined \in StreamSockets /\ stopped[joined] /\ loop \in NodeSockets
    BY DEF Handlers
  <2>2. handler[joined] # "none"
    BY <2>1 DEF Handlers
  <2>3. lock \notin StreamSockets
    BY <2>1
  <2> QED BY <2>1, <2>2, <2>3 DEF JoinsComeBack
<1> QED BY <1>1, CoreInvariant, PTL

\* What a step does to a handler that was shut down.
Approaches ==
    \A h \in StreamSockets :
        stopped[h] =>
            /\ stopped'[h]
            /\ handler'[h] # handler[h] \/ chunks'[h] # chunks[h] =>
                  WorkLeft(h)' < WorkLeft(h)

\* A Node endpoint leaves it alone.
LEMMA NodeApproaches ==
    ASSUME Types, Handlers, NEW n \in NodeSockets, NodeEndpoint(n)
    PROVE  Approaches
<1>1. /\ UNCHANGED <<handler, chunks>>
      /\ \A h \in StreamSockets : stopped[h] => stopped'[h]
  BY DEF Types, TypeThreads, NodeEndpoint, ClientOpensNode, AuthorizeNode,
     RefuseNode, NewConnection, NodeInput, ClientDropsNode, NodeFails,
     EndSession, JoinHandler
<1> QED BY <1>1 DEF Approaches

\* So does a stream endpoint: the handler it builds is new, and audio only
\* goes to one that is attached.
LEMMA StreamApproaches ==
    ASSUME Types, Handlers, NEW s \in StreamSockets, StreamEndpoint(s)
    PROVE  Approaches
<1> USE SocketsAssumption DEF Types, TypeNode, TypeThreads, Handlers, Attached
<1>1. CASE FinishBuild(s)
  <2>1. ~stopped[s]
    BY <1>1 DEF FinishBuild
  <2> QED BY <1>1, <2>1 DEF FinishBuild, Approaches
<1>2. CASE StreamAudio(s)
  <2> DEFINE h == sessionStream[Owner[s]]
  <2>1. h \in StreamSockets /\ Owner[h] = Owner[s]
    BY <1>2 DEF StreamAudio
  <2>2. ~stopped[h]
    BY <2>1
  <2> QED BY <1>2, <2>1, <2>2 DEF StreamAudio, Approaches
<1>3. CASE ~FinishBuild(s) /\ ~StreamAudio(s)
  <2>1. UNCHANGED handlerVars
    BY <1>3 DEF StreamEndpoint, ClientOpensStream, AdmitStream, RefuseStream,
       StreamDisconnect, NewStream, WaitForSession, StreamNotKnown,
       ReuseHandler, StartBuild, BuildFails, StreamAudioFails
  <2> QED BY <2>1 DEF Approaches
<1> QED BY <1>1, <1>2, <1>3

\* An audio thread that was shut down works off its queue.
LEMMA ThreadApproaches ==
    ASSUME Types, NEW h \in StreamSockets, HandlerThread(h)
    PROVE  Approaches
<1> USE BoundsAssumption
<1> USE DEF Types, TypeThreads, HandlerStates, StepsLeft, WorkLeft, NextTurn,
            Approaches
<1>1. CASE HandlerReads(h)
  BY <1>1 DEF HandlerReads
<1>2. CASE HandlerStops(h)
  BY <1>2 DEF HandlerStops
<1>3. CASE HandlerHotword(h)
  BY <1>3 DEF HandlerHotword
<1>4. CASE HandlerNotifies(h)
  BY <1>4 DEF HandlerNotifies
<1>5. CASE HandlerInput(h)
  BY <1>5 DEF HandlerInput
<1>6. CASE HandlerStarts(h)
  BY <1>6 DEF HandlerStarts
<1> QED BY <1>1, <1>2, <1>3, <1>4, <1>5, <1>6 DEF HandlerThread

\* A handler that was shut down works off what is in its queue at the most,
\* and is given no more audio, whatever clients do.
THEOREM ShutDownsApproach == Spec => ShutDownApproaches
<1>1. Core /\ [Next]_vars => [Approaches]_vars
  <2> SUFFICES ASSUME Core, Next PROVE Approaches
    OBVIOUS
  <2>1. ASSUME NEW k \in Consumers, ConsumerThread(k) PROVE Approaches
    <3>1. UNCHANGED handlerVars
      BY <2>1 DEF ConsumerThread, TakeResponse, UpdateSession, UpdateUser,
         SendToClient, SendAudio
    <3> QED BY <3>1 DEF Approaches
  <2> QED BY <2>1, NodeApproaches, StreamApproaches, ThreadApproaches DEF Next, Core
<1> QED BY <1>1, CoreInvariant, PTL DEF Spec, ShutDownApproaches, Approaches

\* The endpoints and the counter implement StreamAdmission: no stream is ever
\* admitted beyond max_streaming_clients, and every slot is given back once.
THEOREM ImplementsAdmission == Spec => AdmissionSpec
<1>1. Init => Admission!Init
  BY DEF Init, Admission!Init, Holders, Holding
<1>2. Core /\ [Next]_vars => [Admission!Next]_Holders
  <2> SUFFICES ASSUME Core, Next, Holders' # Holders
               PROVE  \E s \in StreamSockets : Admission!Admit(s) \/ Admission!Release(s)
    BY DEF Admission!Next, Holders
  <2>1. PICK s \in StreamSockets : StreamEndpoint(s)
    BY NoSlotStep DEF Core, Next
  <2>2. \/ /\ s \notin Holders /\ Holders' = Holders \union {s}
           /\ StreamAllowed
        \/ s \in Holders /\ Holders' = Holders \ {s}
    BY <2>1, SlotStep DEF Core
  <2>3. Admission!Cardinality(Holders) = Cardinality(Holders)
    BY DEF Cardinality, Admission!Cardinality
  <2>4. StreamAllowed => Admission!HasRoom
    BY <2>3 DEF Core, SlotsMatchStreams, StreamAllowed, Admission!HasRoom
  <2> QED BY <2>2, <2>4 DEF Admission!Admit, Admission!Release
<1> QED BY <1>1, <1>2, CoreInvariant, PTL DEF Spec, AdmissionSpec,
                                              Admission!Spec

\* So no more streams hold a slot than max_streaming_clients says, whatever
\* clients, sessions and threads do.
THEOREM StreamsWithinLimit ==
    Spec => [](MaxStreams >= 0 => Cardinality(Holders) <= MaxStreams)
<1> DEFINE Within == MaxStreams >= 0 => connectedStreams <= MaxStreams
           Fewer  == MaxStreams >= 0 => Cardinality(Holders) <= MaxStreams
<1>1. Init => Within
  BY BoundsAssumption DEF Init
<1>2. Core /\ Within /\ [Next]_vars => Within'
  <2> SUFFICES ASSUME Core, Within, [Next]_vars, MaxStreams >= 0
               PROVE  connectedStreams' <= MaxStreams
    OBVIOUS
  <2>1. connectedStreams \in Int /\ MaxStreams \in Int
    <3>1. IsFiniteSet(Holders)
      BY SocketsAssumption, FS_Subset, Holders \subseteq StreamSockets DEF Holders
    <3> QED BY <3>1, BoundsAssumption, FS_CardinalityType DEF Core, SlotsMatchStreams
  <2>2. CASE \E s \in StreamSockets : StreamEndpoint(s)
    BY <2>1, <2>2, SlotStep DEF Core, StreamAllowed
  <2>3. CASE ~ \E s \in StreamSockets : StreamEndpoint(s)
    BY <2>3, NoSlotStep DEF Core, Next
  <2> QED BY <2>2, <2>3
<1>3. Core /\ Within => Fewer
  BY DEF Core, SlotsMatchStreams
<1> HIDE DEF Within
<1> QED BY <1>1, <1>2, <1>3, CoreInvariant, PTL DEF Spec
-----------------------------------------------------------------------------
(* Clients that wait for one Node socket to end before they open the next,  *)
(* and inputs that only fail by disconnecting.                              *)

\* A client has at most one Node socket that is not over.
OneNode ==
    \A m, n \in NodeSockets :
        m # n /\ Owner[m] = Owner[n] => node[m] \in Over \/ node[n] \in Over

\* A session names a socket and a handler of its own client, and has no
\* handler unless it has a socket.
Owned ==
    \A c \in Clients :
        /\ HasSession(c) => Owner[sessionSocket[c]] = c
        /\ sessionStream[c] # None => HasSession(c) /\ Owner[sessionStream[c]] = c

\* An engine load is for a session that is there and has no handler.
BuiltForSession ==
    \A s \in StreamSockets :
        stream[s] = "building" =>
            HasSession(Owner[s]) /\ sessionStream[Owner[s]] = None

Routing ==
    /\ OneNode
    /\ Owned
    /\ BuiltForSession
    /\ OpenNodeIsRouted
    /\ SessionHasOpenNode

Attachment == NoOrphanHandler /\ OpenNodeKeepsHandler

\* Every step of a Node endpoint keeps sessions routed.
LEMMA NodeRouting ==
    ASSUME ~Overlap, ~InputErrors, Types, Turns, Routing,
           NEW n \in NodeSockets, NodeEndpoint(n)
    PROVE  Routing'
<1> USE SocketsAssumption, BoundsAssumption
<1> USE DEF Types, TypeNode, TypeStream, TypeLoop, TypeThreads,
            Serving, Over, Routing, OneNode, Owned, BuiltForSession,
            OpenNodeIsRouted, SessionHasOpenNode, HasSession, Turns, LoopFree,
            LockFree
<1>1. CASE ClientOpensNode(n)
  BY <1>1 DEF ClientOpensNode
<1>2. CASE AuthorizeNode(n)
  BY <1>2 DEF AuthorizeNode
<1>3. CASE RefuseNode(n)
  BY <1>3 DEF RefuseNode
<1>4. CASE NewConnection(n)
  <2>1. /\ node[n] = "accepting" /\ loop = None /\ Owner[n] \in Clients
        /\ node' = [node EXCEPT ![n] = "open"]
        /\ sessionSocket' = [sessionSocket EXCEPT ![Owner[n]] = n]
        /\ sessionStream' = [sessionStream EXCEPT ![Owner[n]] = None]
        /\ UNCHANGED stream
    BY <1>4 DEF NewConnection
  <2>2. OneNode' /\ Owned' /\ BuiltForSession'
    BY <2>1
  <2>3. OpenNodeIsRouted'
    BY <2>1
  <2>4. SessionHasOpenNode'
    BY <2>1
  <2> QED BY <2>2, <2>3, <2>4
<1>5. CASE NodeInput(n)
  BY <1>5 DEF NodeInput, Ask
<1>6. CASE ClientDropsNode(n)
  BY <1>6 DEF ClientDropsNode
<1>7. CASE NodeFails(n)
  BY <1>7 DEF NodeFails
<1>8. CASE EndSession(n)
  <2>1. /\ node[n] = "gone" /\ loop = None /\ Owner[n] \in Clients
        /\ \E over \in {"done", "joining"} : node' = [node EXCEPT ![n] = over]
        /\ sessionSocket' = [sessionSocket EXCEPT ![Owner[n]] = None]
        /\ sessionStream' = [sessionStream EXCEPT ![Owner[n]] = None]
        /\ UNCHANGED stream
    BY <1>8 DEF EndSession, PopSession
  <2>2. OneNode' /\ Owned' /\ BuiltForSession'
    BY <2>1
  <2>3. OpenNodeIsRouted'
    BY <2>1
  <2>4. SessionHasOpenNode'
    BY <2>1
  <2> QED BY <2>2, <2>3, <2>4
<1>9. CASE JoinHandler(n)
  BY <1>9 DEF JoinHandler
<1> QED BY <1>1, <1>2, <1>3, <1>4, <1>5, <1>6, <1>7, <1>8, <1>9 DEF
           NodeEndpoint

\* Every step of a Node endpoint keeps handlers attached.
LEMMA NodeAttachment ==
    ASSUME ~Overlap, ~InputErrors, Types, Turns, Handlers, Routing, Attachment,
           NEW n \in NodeSockets, NodeEndpoint(n)
    PROVE  Attachment'
<1> USE SocketsAssumption, BoundsAssumption
<1> USE DEF Types, TypeNode, TypeStream, TypeLoop, TypeThreads,
            Serving, Over, Routing, OneNode, Owned, BuiltForSession,
            OpenNodeIsRouted, SessionHasOpenNode, HasSession, Turns, LoopFree,
            LockFree, Attachment, Handlers,
            NoOrphanHandler, OpenNodeKeepsHandler, Attached, Running, IsOpen
<1>1. CASE ClientOpensNode(n)
  BY <1>1 DEF ClientOpensNode
<1>2. CASE AuthorizeNode(n)
  BY <1>2 DEF AuthorizeNode
<1>3. CASE RefuseNode(n)
  BY <1>3 DEF RefuseNode
<1>4. CASE NewConnection(n)
  <2>1. ~HasSession(Owner[n]) /\ Owner[n] \in Clients
    BY <1>4 DEF NewConnection
  <2>2. sessionStream' = sessionStream
    BY <1>4, <2>1 DEF NewConnection
  <2> QED BY <1>4, <2>2 DEF NewConnection
<1>5. CASE NodeInput(n)
  BY <1>5 DEF NodeInput, Ask
<1>6. CASE ClientDropsNode(n)
  BY <1>6 DEF ClientDropsNode
<1>7. CASE NodeFails(n)
  BY <1>7 DEF NodeFails
<1>8. CASE EndSession(n)
  <2> DEFINE h == sessionStream[Owner[n]]
  <2>1. h \in StreamSockets \union {None} /\ Owner[n] \in Clients
    OBVIOUS
  <2>2. CASE h = None
    <3>1. \A s \in StreamSockets : Attached(s)' <=> Attached(s)
      BY <1>8, <2>2 DEF EndSession, LockAfterPop, PopSession
    <3> QED BY <1>8, <2>2, <3>1 DEF EndSession, LockAfterPop, PopSession
  <2>3. CASE h # None
    <3>1. \A s \in StreamSockets : Attached(s)' <=> Attached(s) /\ s # h
      BY <1>8, <2>1, <2>3 DEF EndSession, LockAfterPop, PopSession
    <3>2. NoOrphanHandler'
      BY <1>8, <2>1, <2>3, <3>1 DEF EndSession, LockAfterPop, PopSession
    <3>3. OpenNodeKeepsHandler'
      BY <1>8, <2>1, <2>3 DEF EndSession, LockAfterPop, PopSession
    <3> QED BY <3>2, <3>3
  <2> QED BY <2>2, <2>3
<1>9. CASE JoinHandler(n)
  BY <1>9 DEF JoinHandler
<1> QED BY <1>1, <1>2, <1>3, <1>4, <1>5, <1>6, <1>7, <1>8, <1>9 DEF
           NodeEndpoint

\* Every step of a stream endpoint keeps sessions routed.
LEMMA StreamRouting ==
    ASSUME ~Overlap, ~InputErrors, Types, Turns, Routing,
           NEW s \in StreamSockets, StreamEndpoint(s)
    PROVE  Routing'
<1> USE SocketsAssumption, BoundsAssumption
<1> USE DEF Types, TypeNode, TypeStream, TypeLoop, TypeThreads,
            Serving, Over, Routing, OneNode, Owned, BuiltForSession,
            OpenNodeIsRouted, SessionHasOpenNode, HasSession, Turns, LoopFree,
            LockFree,
            LeaveStream
<1>1. CASE ClientOpensStream(s)
  BY <1>1 DEF ClientOpensStream
<1>2. CASE AdmitStream(s)
  BY <1>2 DEF AdmitStream
<1>3. CASE RefuseStream(s)
  BY <1>3 DEF RefuseStream
<1>4. CASE StreamDisconnect(s)
  BY <1>4 DEF StreamDisconnect
<1>5. CASE NewStream(s)
  BY <1>5 DEF NewStream
<1>6. CASE WaitForSession(s)
  BY <1>6 DEF WaitForSession
<1>7. CASE StreamNotKnown(s)
  BY <1>7 DEF StreamNotKnown
<1>8. CASE ReuseHandler(s)
  BY <1>8 DEF ReuseHandler
<1>9. CASE StartBuild(s)
  BY <1>9 DEF StartBuild
<1>10. CASE FinishBuild(s)
  BY <1>10 DEF FinishBuild
<1>11. CASE BuildFails(s)
  BY <1>11 DEF BuildFails
<1>12. CASE StreamAudio(s)
  BY <1>12 DEF StreamAudio
<1>13. CASE StreamAudioFails(s)
  BY <1>13 DEF StreamAudioFails
<1> QED BY <1>1, <1>2, <1>3, <1>4, <1>5, <1>6, <1>7, <1>8, <1>9, <1>10, <1>11,
           <1>12, <1>13 DEF StreamEndpoint

\* Every step of a stream endpoint keeps handlers attached.
LEMMA StreamAttachment ==
    ASSUME ~Overlap, ~InputErrors, Types, Turns, Handlers, Routing, Attachment,
           NEW s \in StreamSockets, StreamEndpoint(s)
    PROVE  Attachment'
<1> USE SocketsAssumption, BoundsAssumption
<1> USE DEF Types, TypeNode, TypeStream, TypeLoop, TypeThreads,
            Serving, Over, Routing, OneNode, Owned, BuiltForSession,
            OpenNodeIsRouted, SessionHasOpenNode, HasSession, Turns, LoopFree,
            LockFree, Attachment, Handlers,
            NoOrphanHandler, OpenNodeKeepsHandler, Attached, Running, IsOpen,
            LeaveStream
<1>1. CASE ClientOpensStream(s)
  BY <1>1 DEF ClientOpensStream
<1>2. CASE AdmitStream(s)
  BY <1>2 DEF AdmitStream
<1>3. CASE RefuseStream(s)
  BY <1>3 DEF RefuseStream
<1>4. CASE StreamDisconnect(s)
  BY <1>4 DEF StreamDisconnect
<1>5. CASE NewStream(s)
  BY <1>5 DEF NewStream
<1>6. CASE WaitForSession(s)
  BY <1>6 DEF WaitForSession
<1>7. CASE StreamNotKnown(s)
  BY <1>7 DEF StreamNotKnown
<1>8. CASE ReuseHandler(s)
  BY <1>8 DEF ReuseHandler
<1>9. CASE StartBuild(s)
  BY <1>9 DEF StartBuild
<1>10. CASE FinishBuild(s)
  BY <1>10 DEF FinishBuild
<1>11. CASE BuildFails(s)
  BY <1>11 DEF BuildFails
<1>12. CASE StreamAudio(s)
  BY <1>12 DEF StreamAudio
<1>13. CASE StreamAudioFails(s)
  BY <1>13 DEF StreamAudioFails
<1> QED BY <1>1, <1>2, <1>3, <1>4, <1>5, <1>6, <1>7, <1>8, <1>9, <1>10, <1>11,
           <1>12, <1>13 DEF StreamEndpoint

\* Every step of an audio thread keeps sessions routed.
LEMMA HandlerRouting ==
    ASSUME ~Overlap, ~InputErrors, Types, Turns, Routing,
           NEW h \in StreamSockets, HandlerThread(h)
    PROVE  Routing'
<1> USE SocketsAssumption, BoundsAssumption
<1> USE DEF Types, TypeNode, TypeStream, TypeLoop, TypeThreads,
            Serving, Over, Routing, OneNode, Owned, BuiltForSession,
            OpenNodeIsRouted, SessionHasOpenNode, HasSession, Turns, LoopFree,
            LockFree,
            NextTurn
<1>1. CASE HandlerReads(h)
  BY <1>1 DEF HandlerReads
<1>2. CASE HandlerStops(h)
  BY <1>2 DEF HandlerStops
<1>3. CASE HandlerHotword(h)
  BY <1>3 DEF HandlerHotword
<1>4. CASE HandlerNotifies(h)
  BY <1>4 DEF HandlerNotifies
<1>5. CASE HandlerInput(h)
  BY <1>5 DEF HandlerInput, Ask
<1>6. CASE HandlerStarts(h)
  BY <1>6 DEF HandlerStarts
<1> QED BY <1>1, <1>2, <1>3, <1>4, <1>5, <1>6 DEF HandlerThread

\* Every step of an audio thread keeps handlers attached.
LEMMA HandlerAttachment ==
    ASSUME ~Overlap, ~InputErrors, Types, Turns, Handlers, Routing, Attachment,
           NEW h \in StreamSockets, HandlerThread(h)
    PROVE  Attachment'
<1> USE SocketsAssumption, BoundsAssumption
<1> USE DEF Types, TypeNode, TypeStream, TypeLoop, TypeThreads,
            Serving, Over, Routing, OneNode, Owned, BuiltForSession,
            OpenNodeIsRouted, SessionHasOpenNode, HasSession, Turns, LoopFree,
            LockFree, Attachment, Handlers,
            NoOrphanHandler, OpenNodeKeepsHandler, Attached, Running, IsOpen,
            NextTurn
<1>1. CASE HandlerReads(h)
  BY <1>1 DEF HandlerReads
<1>2. CASE HandlerStops(h)
  BY <1>2 DEF HandlerStops
<1>3. CASE HandlerHotword(h)
  BY <1>3 DEF HandlerHotword
<1>4. CASE HandlerNotifies(h)
  BY <1>4 DEF HandlerNotifies
<1>5. CASE HandlerInput(h)
  BY <1>5 DEF HandlerInput, Ask
<1>6. CASE HandlerStarts(h)
  BY <1>6 DEF HandlerStarts
<1> QED BY <1>1, <1>2, <1>3, <1>4, <1>5, <1>6 DEF HandlerThread

\* Every step of a consumer thread keeps sessions routed.
LEMMA ConsumerRouting ==
    ASSUME ~Overlap, ~InputErrors, Types, Turns, Routing,
           NEW k \in Consumers, ConsumerThread(k)
    PROVE  Routing'
<1> USE SocketsAssumption, BoundsAssumption
<1> USE DEF Types, TypeNode, TypeStream, TypeLoop, TypeThreads,
            Serving, Over, Routing, OneNode, Owned, BuiltForSession,
            OpenNodeIsRouted, SessionHasOpenNode, HasSession, Turns, LoopFree,
            LockFree,
            Goto, Raise
<1>1. CASE TakeResponse(k)
  BY <1>1 DEF TakeResponse
<1>2. CASE UpdateSession(k)
  BY <1>2 DEF UpdateSession
<1>3. CASE UpdateUser(k)
  BY <1>3 DEF UpdateUser
<1>4. CASE SendToClient(k)
  BY <1>4 DEF SendToClient
<1>5. CASE SendAudio(k)
  BY <1>5 DEF SendAudio
<1> QED BY <1>1, <1>2, <1>3, <1>4, <1>5 DEF ConsumerThread

\* Every step of a consumer thread keeps handlers attached.
LEMMA ConsumerAttachment ==
    ASSUME ~Overlap, ~InputErrors, Types, Turns, Handlers, Routing, Attachment,
           NEW k \in Consumers, ConsumerThread(k)
    PROVE  Attachment'
<1> USE SocketsAssumption, BoundsAssumption
<1> USE DEF Types, TypeNode, TypeStream, TypeLoop, TypeThreads,
            Serving, Over, Routing, OneNode, Owned, BuiltForSession,
            OpenNodeIsRouted, SessionHasOpenNode, HasSession, Turns, LoopFree,
            LockFree, Attachment, Handlers,
            NoOrphanHandler, OpenNodeKeepsHandler, Attached, Running, IsOpen,
            Goto, Raise
<1>1. CASE TakeResponse(k)
  BY <1>1 DEF TakeResponse
<1>2. CASE UpdateSession(k)
  BY <1>2 DEF UpdateSession
<1>3. CASE UpdateUser(k)
  BY <1>3 DEF UpdateUser
<1>4. CASE SendToClient(k)
  BY <1>4 DEF SendToClient
<1>5. CASE SendAudio(k)
  BY <1>5 DEF SendAudio
<1> QED BY <1>1, <1>2, <1>3, <1>4, <1>5 DEF ConsumerThread

-----------------------------------------------------------------------------
(* The theorems that hold of such clients. *)

Orderly == Core /\ Routing /\ Attachment

LEMMA OrderlyInit == Init => Orderly
<1> SUFFICES ASSUME Init PROVE Orderly
  OBVIOUS
<1>1. Routing
  BY SocketsAssumption DEF Init, Routing, OneNode, Owned, BuiltForSession,
     OpenNodeIsRouted, SessionHasOpenNode, HasSession, Over, Serving
<1>2. Attachment
  BY SocketsAssumption DEF Init, Attachment, NoOrphanHandler,
     OpenNodeKeepsHandler, Running
<1> QED BY <1>1, <1>2, CoreInit DEF Orderly

LEMMA OrderlyStep ==
    ASSUME ~Overlap, ~InputErrors
    PROVE  Orderly /\ [Next]_vars => Orderly'
<1> SUFFICES ASSUME Orderly, [Next]_vars PROVE Routing' /\ Attachment'
  BY CoreStep DEF Orderly
<1> USE DEF Orderly, Core, Exclusion
<1>1. CASE \E n \in NodeSockets : NodeEndpoint(n)
  BY <1>1, NodeRouting, NodeAttachment
<1>2. CASE \E s \in StreamSockets : StreamEndpoint(s)
  BY <1>2, StreamRouting, StreamAttachment
<1>3. CASE \E h \in StreamSockets : HandlerThread(h)
  BY <1>3, HandlerRouting, HandlerAttachment
<1>4. CASE \E k \in Consumers : ConsumerThread(k)
  BY <1>4, ConsumerRouting, ConsumerAttachment
<1>5. CASE UNCHANGED vars
  BY <1>5 DEF Routing, OneNode, Owned, BuiltForSession, OpenNodeIsRouted,
     SessionHasOpenNode, HasSession, Attachment, NoOrphanHandler, OpenNodeKeepsHandler
<1> QED BY <1>1, <1>2, <1>3, <1>4, <1>5 DEF Next

THEOREM OrderlyInvariant ==
    ASSUME ~Overlap, ~InputErrors
    PROVE  Spec => []Orderly
BY OrderlyInit, OrderlyStep, PTL DEF Spec

\* A connected Node is the one its client's session names.
THEOREM NodesAreRouted ==
    ASSUME ~Overlap, ~InputErrors
    PROVE  Spec => []OpenNodeIsRouted
<1>1. Orderly => OpenNodeIsRouted
  BY DEF Orderly, Routing
<1> QED BY <1>1, OrderlyInvariant, PTL

\* No session outlives the Node it names.
THEOREM SessionsAreEnded ==
    ASSUME ~Overlap, ~InputErrors
    PROVE  Spec => []SessionHasOpenNode
<1>1. Orderly => SessionHasOpenNode
  BY DEF Orderly, Routing
<1> QED BY <1>1, OrderlyInvariant, PTL

\* Every running audio thread is attached to a session or being joined.
THEOREM HandlersAreAttached ==
    ASSUME ~Overlap, ~InputErrors
    PROVE  Spec => []NoOrphanHandler
<1>1. Orderly => NoOrphanHandler
  BY DEF Orderly, Attachment
<1> QED BY <1>1, OrderlyInvariant, PTL

\* The audio thread of a connected Node's session does not die.
THEOREM HandlersStayAlive ==
    ASSUME ~Overlap, ~InputErrors
    PROVE  Spec => []OpenNodeKeepsHandler
<1>1. Orderly => OpenNodeKeepsHandler
  BY DEF Orderly, Attachment
<1> QED BY <1>1, OrderlyInvariant, PTL

\* A response is lost only when its client has no connected Node.
THEOREM ResponsesReachNodes ==
    ASSUME ~Overlap, ~InputErrors
    PROVE  Spec => LostOnlyWhenClosed
<1> USE DEF Lost, Closed
<1>1. ASSUME Orderly, Next, NEW k \in Consumers, Lost(k)
      PROVE  Closed(consumer[k].client)
  <2> USE SocketsAssumption DEF Orderly, Core, Types, TypeNode, TypeThreads,
          Routing, OpenNodeIsRouted, SessionHasOpenNode, HasSession, Serving,
          Over
  <2>1. PICK j \in Consumers : ConsumerThread(j)
    BY <1>1 DEF Next, NodeEndpoint, StreamEndpoint, HandlerThread,
       ClientOpensNode, AuthorizeNode, RefuseNode, NewConnection, NodeInput,
       ClientDropsNode, NodeFails, EndSession, JoinHandler, ClientOpensStream,
       AdmitStream, RefuseStream, StreamDisconnect, NewStream, WaitForSession,
       StreamNotKnown, ReuseHandler, StartBuild, FinishBuild, BuildFails,
       StreamAudio, StreamAudioFails, HandlerStarts, HandlerReads, HandlerStops,
       HandlerHotword, HandlerNotifies, HandlerInput
  <2>2. CASE TakeResponse(j)
    BY <1>1, <2>2 DEF TakeResponse, Outcomes
  <2>3. CASE UpdateSession(j)
    BY <1>1, <2>3 DEF UpdateSession, Goto, Raise
  <2>4. CASE UpdateUser(j)
    <3>1. j = k /\ consumer[k].client \in Clients
      BY <1>1, <2>4 DEF UpdateUser, Goto, Raise
    <3>2. ~HasSession(consumer[k].client)
      BY <1>1, <2>4, <3>1 DEF UpdateUser, Goto, Raise
    <3> QED BY <1>1, <3>1, <3>2
  <2>5. CASE SendToClient(j)
    <3>1. j = k /\ consumer[k].client \in Clients
      BY <1>1, <2>5 DEF SendToClient, Goto, Raise
    <3>2. ~IsOpen(sessionSocket[consumer[k].client])
      BY <1>1, <2>5, <3>1 DEF SendToClient, Goto, Raise
    <3> QED BY <1>1, <3>1, <3>2 DEF IsOpen
  <2>6. CASE SendAudio(j)
    BY <1>1, <2>6 DEF SendAudio, Goto, Raise
  <2> QED BY <2>1, <2>2, <2>3, <2>4, <2>5, <2>6 DEF ConsumerThread
<1>2. Orderly /\ [Next]_vars =>
        [\A k \in Consumers : Lost(k) => Closed(consumer[k].client)]_vars
  BY <1>1
<1> QED BY <1>2, OrderlyInvariant, PTL DEF Spec, LostOnlyWhenClosed

\* Both writes of an update go to one session: a new Node socket of the client
\* waits for the socket of that session to end, and the end for the lock.
THEOREM UpdatesAreAtomic ==
    ASSUME ~Overlap, ~InputErrors
    PROVE  Spec => UpdateIsAtomic
<1> DEFINE Atomic == \A k \in Consumers :
                        Updating(k) =>
                           LET c == consumer[k].client
                           IN HasSession(c) /\ sessionSocket'[c] = sessionSocket[c]
<1>1. Orderly /\ [Next]_vars => [Atomic]_vars
  <2> SUFFICES ASSUME Orderly, [Next]_vars, NEW k \in Consumers, Updating(k),
                      NEW c, c = consumer[k].client
               PROVE  HasSession(c) /\ sessionSocket'[c] = sessionSocket[c]
    OBVIOUS
  <2>1. Yields /\ HasSession(c)
    BY StepYields DEF Orderly, Yields
  <2>2. ASSUME NEW n \in NodeSockets, Owner[n] = c, node[n] = "accepting"
        PROVE  FALSE
    <3>1. c \in Clients
      BY <2>2, SocketsAssumption
    <3>2. sessionSocket[c] \in NodeSockets /\ node[sessionSocket[c]] \in Serving
      BY <2>1, <3>1 DEF Orderly, Core, Types, TypeNode, Routing,
         SessionHasOpenNode, HasSession
    <3> QED BY <2>1, <2>2, <3>1, <3>2 DEF Orderly, Routing, OneNode, Owned,
               Serving, Over
  <2> QED BY <2>1, <2>2 DEF Yields
<1> HIDE DEF Atomic
<1>2. Spec => [][Atomic]_vars
  BY <1>1, OrderlyInvariant, PTL DEF Spec
<1> QED BY <1>2 DEF UpdateIsAtomic, Atomic
=============================================================================
