# HANA in TLA+

Specifications of [HANA](../src/README.md), the HTTP and WebSocket front end of
Neon: TLA+ modules translated from the Python sources, TLC configurations that
check them on small instances, and proofs that TLAPS checks for instances of
every size. `PROJECT.json` says for every definition which lines it stands for.

- [The system](#the-system)
- [Modules](#modules)
- [Runs](#runs)
- [Fairness](#fairness)
- [Proofs](#proofs)
- [Where the code and its documentation disagree](#where-the-code-and-its-documentation-disagree)
- [Abstractions](#abstractions)
- [Not modelled, and what could follow](#not-modelled-and-what-could-follow)

## The system

HANA is one process (several may share the services behind it): a uvicorn event
loop that runs FastAPI routes and WebSocket endpoints, the consumer threads of
an MQ connection, a default thread pool for blocking MQ requests, and one audio
thread for every connected microphone stream.

| Component | Source | State | Operations |
| --- | --- | --- | --- |
| Node endpoints | `app/routers/node_server.py` | one coroutine per WebSocket | `/node/v1`: authorize, accept, serve inputs, end the session; `/node/v1/stream`: count, accept, attach, queue audio, give the slot back |
| Session table | `mq_websocket_api.py` | `_sessions` (context, socket, user, stream), `_session_lock` | `new_connection`, `new_stream`, `end_session`, input, seven MQ callbacks, `send_to_client` |
| Audio threads | `streaming_client.py` | a queue, a voice loop, the client's socket | read chunks, hot word, utterance, response audio, `shutdown` |
| Stream counter | `auth/client_manager.py` | `_connected_streams` under a lock | `check_connect_stream`, `disconnect_stream` |
| Tokens and users | `auth/client_manager.py`, `mq_service_api.py` | `_authorized_clients`; the token lists of the users service | register, login, refresh, validate |
| Rate limits | `auth/client_manager.py` | a token bucket per origin and class | create, consume, refuse |
| Response sessions | `mq_service_api.py` | `sessions_by_id` | `get_session`, `get_response` |
| Service requests | `mq_service_api.py`, routes | the default thread pool's queue | proxy, LLM, e-mail, metrics, scripts, coupons, speech, skills, BrainForge, users, status |
| Blocking service manager | `mq_service_api.py` | none but its own session cache | the same requests from a thread that waits for itself |
| Permissions | `client_manager.py`, `brainforge.py`, `hub.py`, `node_server.py` | roles inside tokens | login, refresh, the tests before a route does its work |
| Hub identity | `hub_id.py`, `app/routers/hub.py` | `hub_id`, display name, in memory and on disk | generate, read, rename, report the configuration |

How they interact:

- A client logs in, opens `/node/v1` with its token, and is then known to the
  session table by the `client_id` of the token. It may open `/node/v1/stream`
  with the same token; the stream endpoint takes a slot of the stream counter,
  waits for the session to be there and attaches an audio thread to it.
- Inputs, typed or spoken, go to Neon over MQ with the context of the session.
  Responses come back in an MQ consumer thread, update the session by the id in
  their context and are forwarded to the session's socket, response audio to
  the socket the audio thread was made with.
- When the Node socket disconnects its coroutine pops the session, shuts the
  audio thread down and joins it. When a stream disconnects it only gives back
  its slot.
- Every route but the authentication and hub-discovery ones goes through
  `UserTokenAuth`, which takes a token of the origin's `total` bucket and then
  validates the access token.
- Login and refresh read the user from the users service, append the new token
  and write the user back, and a registration creates one; the event loop is
  blocked meanwhile (`_run_async`).
- A route that asks a service hands the request to the default thread pool and
  awaits it. All routes share the workers of that pool, and an inference may
  keep one for five minutes.
- The roles a route tests are those in the token, which are those the user had
  at the login the token goes back to.

What is hard in it:

- **The event loop blocks.** `new_stream` sleeps on it, loads engines on it and
  `end_session` joins a thread on it. A wait for something only another
  coroutine can do waits in vain, and a join of a thread that needs the loop or
  the lock would never return.
- **The lock covers some of the accesses.** `new_connection`, `send_to_client`,
  `handle_audio_input_stream` and the response audio look sessions up without
  it, between other threads' critical sections.
- **One id, several sockets.** A session is named by the client, and clients
  reconnect: the table can hold the session of a newer socket than the one
  whose coroutine is ending.
- **Paths out.** A slot of the stream counter has to come back on every path;
  a session has to end on every path.
- **Read, wait, write.** The users service and the HTTP session cache are both
  read before a wait and replaced after it.
- **Check, wait, use.** `jwt_bearer` looks at a token, and the body of the route
  decodes it again later; permissions change at the users service meanwhile.
- **Two places.** A hub's id and name are in memory and in a file that may not be
  writable, and the process may end between any two requests.
- **Many kinds of nothing.** A service may be silent, raise, reply without
  content, with content that is no JSON, or with JSON of another shape; each of
  twenty methods tells these apart in a way of its own.
- **Time.** Bucket fillings, announced waits, and the two expirations of a pair
  of tokens.

What makes each component correct:

- a connected Node is the one its session names; a session ends with its Node;
  a response that is lost was for a client without a Node;
- an audio thread that runs is attached to a session or being joined, and lives
  as long as its Node is connected; one that was shut down ends;
- the loop always comes back and disconnects are dealt with;
- the stream counter is the number of streams that hold a slot and never
  exceeds the maximum;
- a refresh token handed out is stored with its user, and with nobody else;
- no timing of requests gets more than two buckets through in a period;
- an HTTP input carries every turn of its device answered before it;
- where a role is tested a token gets nobody further than the roles its user had
  when it was made, and a token of a Node opens nothing there but the Node
  socket; the routes that test none are open to any token (`AnyTokenRoutes`), and
  while authentication is disabled some of them to an expired one;
- a hub has one id, unless it could not be written, and keeps a name it accepted
  without a warning;
- a client is told of success only when the service served what the route asks,
  every request is answered, and the loop comes back from the requests that keep
  it: logins, refreshes and registrations.

## Modules

**`StreamAdmission`** is what the stream counter promises: a set of admitted
streams that never outgrows the maximum. No counter, no coroutine.

**`NodeSessions`** is the core: endpoints, session table, audio threads and
counter composed in one machine, because they share the lock, the loop and the
table. One action is one stretch of code that no other thread can observe
inside of. Its lock covers what the code's covers: `end_session` and the two
writes of an update exclude each other, while `new_connection` writes a session
without it, even between those two. The state follows the code:

| Variable | Code |
| --- | --- |
| `node[n]`, `stream[s]` | where the endpoint coroutine of a socket is |
| `sessionSocket[c]`, `sessionStream[c]` | `_sessions[c]["socket"]`, `_sessions[c].get("stream")`; a handler is named by the stream socket it was made for |
| `loop`, `joined`, `waitLeft` | the coroutine that blocks the event loop, the thread it joins, the sleeps it has left |
| `lock` | who is inside a `_session_lock` section that spans several steps (engine loading, the two writes of `_update_session_data`); sections that are one step only ask that it be free |
| `handler[s]`, `chunks[s]` | the audio thread and its queue |
| `stopped[s]`, `looping[s]` | whether `shutdown` queued `None`; the voice loop's flag, which the thread sets when it starts and `shutdown` clears |
| `consumer[k]`, `asked` | the callback an MQ consumer thread runs; the session ids Neon has seen and may answer with |
| `connectedStreams` | `_connected_streams` |

`NodeEndpoint`, `StreamEndpoint`, `HandlerThread` and `ConsumerThread` group the
actions by the thread that takes them. Three actions are the clients' own:
`ClientOpensNode`, `ClientDropsNode`, `ClientOpensStream`. Two constants describe
what the outside may do: `Overlap` (a client opens its next Node socket before
the server is done with the last) and `InputErrors` (an input can raise
something else than `WebSocketDisconnect`). `AdmissionSpec` instantiates
`StreamAdmission` with `admitted <- Holders`, the streams whose coroutine is
between the two calls. The thread sets the flag of its voice loop itself: of a
shutdown that comes before `HandlerStarts` only the `None` in the queue is left,
which is why the shut-down properties do not speak of the flag.

**`TokenLifecycle`** has the users service and several HANA instances. One id
stands for an access token and its refresh token, which are made together and
share their `jti`. `work[i]` is the request instance `i` is blocked in;
`pending` are the writes sent to the service and not yet handled, which
stay when the instance gives up (`TimeOut`). `disableAuth` is chosen at the
start, as the configuration does. `contended` is history: the users that two
requests worked on at once, a write left behind by a time-out included.

**`TokenStore`** is what the lists promise, without instances, messages or answers:
a list only grows, by a pair at a time, a pair is listed with one user, and
nobody is handed a pair that is not listed. `KeepsTokenStore` is the refinement,
with `lists <- Lists` and `handed <- Handed`: the service's lists and the pairs given
out, restricted to `Kept`, the users whose requests came one after the other. A
user that becomes contended is forgotten, and the others do not notice.

**`RateLimiter`** has one bucket per origin and class (`auth`, `register`,
`total`), made by the first request that needs it. `max` holds the configured
limits, chosen at the start from the configurations in `Limits`. `passed` and `retryAt` are
history: the ticks at which requests got through, in order, and when the last
refusal said to come back. `SlidingBound` is stated on the order: the request
`2 * max` places after another came more than a period later.

**`ResponseSessions`** is `get_response` around its await. A session is the set
of turns it has seen. A response without the sentence its request looks for fails
the request ("unread") although its session was cached; the next input carries that
turn as well. `cause` and `overlapped` are history: the turns that were
`Responded` to when a request was made, and the devices that made a request before
the last one was over.

**`AccessControl`** follows roles from the users service into a pair of tokens,
through refreshes, and to the routes a token is shown to. `HttpRoutes` are the four
kinds of HTTP routes behind `jwt_bearer`: those whose body never looks at the token
("service": proxy, assist, LLM, MQ backend), those that decode it again and test no
role ("permissions"), BrainForge and renaming the hub, which test one; the Node
socket tests one as well. An HTTP route is two steps, `Validate` (the `jwt_bearer`
dependency) and `Body`; `Malformed` is a body that does not fit the route's
model. `Restart` loses requests under way, may change `disable_auth`, and keeps
tokens; `MaxPending` bounds the requests between the two steps. `held` and `asNode` are history: what a user ever was, and whether the
login a pair goes back to asked for `node_auth`.

**`HubPromise`** is what the docstrings of `hub.py` promise, without process,
memory or file: an id chosen once, and a name that lasts unless its client was
warned. A client that was not answered may find its name kept (`Interrupted`).
**`HubIdentity`** is the code: `hubId` and `config` in memory, `disk`, the
write that may fail at boot and at a rename, and the process that may end at any
moment, between writing a name and answering too (`RenameInterrupted`). `KeepsPromise` is the refinement, with `id <- disk.hub_id` and
`name <- disk.hub_display_name`. **`HubReport`** is `GET /hub/config` as a function
of `neon.yaml`, and `FilesAreReported` what is right about it. **`HubServer`** composes the three: a rename is a `Body` of
`AccessControl` and, behind its role test, a `Rename` of `HubIdentity`; a restart
is one step of both, and one that comes in the middle of a rename is
`InterruptRename`.

**`ServiceAnswers`** has no variables: `AsyncOutcome(route, reply)` is how the
manager's method ends, `Http` what FastAPI makes of it, and `Served` a reference
definition that judges a reply by what the route asks: of the proxied services
only Wolfram|Alpha answers in text, the others with the fields of their schema. A
reply is its status, the form of its content, and whether the content fits what
the route declares. The users service gives its refusals codes of its own choice,
which `_query_users_api_async` passes on (`UsersOutcome`). **`BlockingAnswers`**
is the deprecated twin manager in the same terms. **`ServiceRequests`** puts
both to work: `calls[c]` is the request of an HTTP client or a thread, with the
number of requests to the service it has `left`; `queue` is the
thread pool's, and `held` the login, refresh or registration that keeps the event
loop. `AnswerAtOnce` is every answer given before a request is sent, refused
refresh tokens included; `Submit`, `LogIn` and `Call` are the three
ways of sending; `Respond` and `GiveUp` end the wait, `Finish` and `Return` answer
with the `Result`. A login and a refresh send two requests, the second only if what
the first read is `Usable`. `Unverified` lists the successes nobody has checked.

The modules named `...Proofs` extend the ones they are about with theorems, see
[Proofs](#proofs). `MCNodeSessions`, `MCRateLimiter`, `MCResponseSessions`,
`MCHubServer` and `MCServiceRequests` give the constants that are functions or
sets of records their values for TLC. `TokenLifecycle` needs none.

Definitions whose comment begins with "Mutant" are used by no action: each is
a wrong version of the definition after it, one a slip in the code would
produce. Putting it in that definition's place breaks the property it is listed
with in `PROJECT.json`, which shows that the property depends on that code.

## Runs

Run with `tlc -config <cfg> <module>`. Every passing run finishes in
about three minutes or less.

| Run | Configuration | Question |
| --- | --- | --- |
| `node_safety` | one client, two Node sockets one after the other, two streams, one consumer | Do sessions, audio threads and responses stay together through all interleavings, and do both writes of an update go to one session? |
| `node_hostile` | the same client, one stream, `Overlap`, `InputErrors` and fairness | What holds whatever clients do: what may come between the two writes of an update (a new Node socket of the client, nothing else), does the wait in `new_stream` ever help, can the thread that is joined always finish, does every step after a shutdown bring it closer, do blocked loops, disconnects and shut-down threads always end? |
| `stream_admission` | two clients, three streams, one slot | Is the counter exact on every path, and is `StreamAdmission` implemented? |
| `tokens` | two instances, two users, two pairs, late and refused writes, with and without a users service | Is every refresh token handed out in its user's list, and in no other? Is `TokenStore` implemented? |
| `rate_limits` | one origin, buckets of one and two tokens, two ticks a second, with and without a limit for `total` | How much gets through in any period, is anybody refused before a bucket is spent, and how wrong can the announced wait be? |
| `response_sessions` | two devices, four inputs, three of them of one device | Does every input carry all answered turns? |
| `hub` | one user with two sets of permissions, two pairs, four kinds of routes and the Node socket, one name, two ids, both expirations, with and without authentication, restarts | Who may rename a hub, what does a token of a Node open and what not, does the hub keep its id and name through failing writes and restarts in the middle of a rename, what does it report? |
| `services` | two HTTP clients, a thread, one worker, four settings | Is every request answered, is success only reported for what was served to that route, whose codes are sent, and does the event loop come back? |

The other four runs end in a violation and are listed
[below](#where-the-code-and-its-documentation-disagree).

*Why the bounds are enough.* Two Node sockets of one client are what a stale
session, a lost response or an orphaned thread needs: an old and a new one. Two
streams are a first and a reopened one; three on one slot have one admitted,
one refused and one that comes later. Clients only meet in the stream counter,
which is why a second one appears in `stream_admission` alone. One consumer
thread is enough to interleave with the loop and the audio thread; a second
could only be kept out by the same lock. One queued chunk (`MaxChunks`) makes a
queue that is empty, or not, when shutdown arrives. `WaitSeconds = 1` has a
state before and a state after a sleep. Two pairs of tokens (`MaxTokens`) are a
login and a refresh of it, or two logins, at one instance or at two, which is
what one lost write takes; `MaxTime` reaches both expirations of a pair. In the
limiter every bucket is filled a second time within `MaxTime`, the shortest
ones a third time; `MaxPassed` is more than two of the largest buckets, and
half-second ticks are there for the rounding.
Three inputs of one device are two turns and an input that could lack one.
In `hub` a second pair is the refresh of the first, or one made after the user was
promoted; `MaxTime = 2` passes the second in which access tokens expire and refresh
tokens do not, and reaches the one in which both have. Two requests between bearer
and body (`MaxPending`) are two of one token, or one of each; bodies are single
steps, so a third adds nothing they could meet. Two adjectives and a noun make two ids, the one in the file and
another. In `services` one worker and two clients are a queue, and somebody
waiting behind a login or a refresh; between the four settings every route is used by an
HTTP client with e-mail and authentication on and off, and every blocking one by
a thread, with each kind of reply, and the limit of the inputs' length is positive,
zero and negative. The theorems have no bounds.

*Deadlock.* Sockets, pairs, inputs and ticks are finite in the models, and a
behaviour that has used them up stops, so the configurations say
`CHECK_DEADLOCK FALSE`. That no thread waits for ever is what the liveness
properties of `node_hostile` say. In `services` a client can always ask again, and
deadlock is checked: a login or refresh whose coroutine needed the loop that waits for it
would be one.

## Fairness

Two runs assume any. `node_hostile` (`FairSpec` of `NodeSessions`):

- weak fairness for a thread that runs and for a blocked call that can return
  (`JoinHandler`, `WaitForSession`, `FinishBuild`/`BuildFails`, the audio
  thread's own steps, `UpdateUser`): operating-system threads are scheduled, a
  sleep ends, an engine load returns or raises;
- strong fairness for what needs the event loop or the lock (`EndSession`, the
  end of `new_stream`'s wait, `HandlerHotword`, `HandlerInput`): asyncio takes
  its ready callbacks in turn, and a thread that waits for the lock gets it
  although others take it in between;
- nothing for clients and nothing for Neon: no disconnect, chunk, input or
  response has to come.

`services` (`FairSpec` of `ServiceRequests`):

- weak fairness for a worker that takes what is queued (`StartWork`), for
  `send_mq_request`, which gives up after its time-out (`GiveUp`), and for a thread
  that has its reply (`Return`);
- strong fairness for the coroutine that has its reply (`Finish`): the loop may be
  taken by a login or refresh again and again, and asyncio runs its ready callbacks in turn
  between them;
- nothing for the services: a reply never has to come.

## Proofs

`tlapm <module>` checks a module of proofs, each from nothing in a minute or two. The assumptions are the named `ASSUME`s of the
specifications (owners are clients, the three kinds of threads have different
names, finitely many stream sockets, bounds are naturals, `None` is no number and
no name, the limits of `auth` and `register` are positive, no engine is called what
the model writes for a missing one); every run's model satisfies them.

*For every client behaviour* (`CoreInvariant`). The invariant `Core` joins
the types, `SlotsMatchStreams`, `Handlers` and `Exclusion`. The last is what
is behind the two hostile properties: `Turns` says that the loop is held exactly
by the coroutine that is waiting, building or joining, and the lock exactly by
the building stream or the updating consumer. Without it nothing excludes that a
session is popped between the two writes of an update. It does not exclude that
`new_connection` replaces the session there, which the lock does not prevent. From it:

- `TypeCorrect`, and with it that the counter is never negative;
- `SlotsExact`: the counter is the number of slots held, by a cardinality
  argument over the steps of the stream endpoint (`SlotStep`);
- `UpdatesYield` (`UpdateYieldsToNewSocket`): between the two writes of an update
  its session is only replaced, by a new Node socket of the same client, and never
  removed; and `WaitIsFutile`;
- `JoinsReturn` (`JoinsComeBack`): whenever `end_session` joins a thread, that
  thread has its `None` queued and the lock is free, or with a consumer that
  can give it back. It needs `Handlers`: a session only names a handler of its
  own client that exists and was not shut down, and only a Node coroutine that
  holds the loop joins one, which it has shut down;
- `ShutDownsApproach` (`ShutDownApproaches`): `WorkLeft` is a variant. A handler
  that was shut down is given no chunk, because only an attached one is, so
  each of its steps takes away from what is left; liveness (`ShutDownHandlerEnds`)
  adds only that it takes them;
- `ImplementsAdmission`: initial states map to initial states, every step to
  `Admit`, `Release` or a stutter;
- `StreamsWithinLimit`: where a limit is configured, no more streams hold a slot.

*For clients that wait until the server is done with their last Node socket, and
inputs that only fail by disconnecting* (`~Overlap`, `~InputErrors`,
`OrderlyInvariant`). The invariant `Orderly` adds `Routing` (a client has
at most one coroutine that is not over, a session belongs to it, a building
stream still has the session it started from) and `Attachment` (whose handler is
in which state). `OneNode` is the part that fails without the assumption, and
everything else rests on it. From it: `NodesAreRouted`, `SessionsAreEnded`,
`HandlersAreAttached`, `HandlersStayAlive`, and the action properties
`ResponsesReachNodes` and `UpdatesAreAtomic`: with one coroutine to a client there
is no new socket to come between the writes.

*HTTP sessions* (`AnswersAreCarried`). For a device that never overlapped its
requests, at most one is on its way (`OneSent`), and the cached session and the
session of that request have every answered turn (`Cached`, `Carried`), so that
writing the response's session back drops none. `InputsCarryAnswers` alone is
not inductive: it says nothing of the cache the next input reads.
`SessionTypes` is the type invariant.

*Tokens and users* (`TokenLifecycleProofs`). The types and `TokensHaveUsers`
need to know what an instance works on (`WorkFits`: a pair being
stored is one of the user being read) and what is still to be written (`PendingFits`,
`OneWrite`: a write that has a sender was sent for what its sender works on, one
at a time, and lists tokens of its own user). `UncontendedIsStored` is not
inductive on these: `Alone(u)` says what it means that nobody contends for `u`. One
instance works on `u`, one write is on its way and it is that instance's, and it
already has everything that was given. A write left behind by a time-out keeps
the user's next request from being alone, which is what `contended` records.

`StoreImplemented` is the refinement of `TokenStore`, one lemma per step of the
abstract specification (`StoreForgets`, `StoreLists`, `StoreHandsOut`,
`StoreStutters`). The invariants above say which pairs are listed; they do not say that a write
*only adds* one: the service replaces the whole list. For that the proof adds
`WritesAppend`: the write on its way for an uncontended user is what is stored
now and the one pair its sender works for, because nobody wrote between the read
and the write.

*Rate limits* (`RateLimiterProofs`). What a bucket has left says nothing about the
past by itself. `Explains` says what it stands for: of the requests that passed, the
last `max - tokens` came since the last filling and within its period, and at most
`max` of the others since the filling before, a period earlier or more. A request
then meets, `2 * max` places back, one from before the last filling but one
(`SpendSlides`), which is `SlidingBound` (`TwoBucketsAtMost`); and who finds no
token has `max` requests of the same filling behind it (`LimitKeepersPass`). No sum is
needed: the bound speaks of positions in the sequence of what passed. `Announced`
ties a refusal to the bucket that refused it until that is filled again, and
`RoundIsNear` is the arithmetic of rounding to whole seconds; together they are
`WaitsAreNear`.

*Roles* (`AccessControlProofs`). `NodesStayNodes` (`NodeScope`) rests on one fact about
pairs: the roles of a pair that goes back to a Node's login are `NodeOnly`, because a
refresh copies them. It says what such a token is refused, and that the Node socket
and the routes that test no role turn it away only once it has expired, for any choice
of kinds of routes. Every role in
a pair is one its user held (`held`), or the default, and that is what
`NamesNeedAdministrators` carries over to the hub.

*The hub* (`HubIdentityProofs`, `HubServerProofs`). `HubMemory` and `HubKeepsPromise`: each
step of the code is a `Start`, `Accept`, `Warn`, `Interrupted` or `Ask` of
`HubPromise` or leaves it alone, given that memory and file agree unless a write failed. `ServerImplements`
shows that the composition is a behaviour of both its parts, so that what is
proved of either holds of it. `EnginesReported` is about the report as a function
of the file (`EngineOf`, `EveryFileReported`), for any engines whose names are not
among the marks `EngineAssumption` lists.

*Service requests* (`ServiceRequestsProofs`). The first lemmas are about functions
only: for every reply the world can produce, each method's outcome is typed and
`Sound`: success with content was served to the route, or is one of the blocking
manager's `Blind` ones, and a code below 200 is the users service's own. Of the routes
that hide silence (`Hiding`) only the types remain. The rest shows that the steps
preserve the types and who sends in which way (`Inv`), and
that each answer is `Honest`, by those lemmas. From it: `ServiceTypes`, `CodesAreFinal`
(`InterimCodesAreUsers`), `SuccessMeansServed` and `SilenceReported`.

Only model-checked are the five liveness properties of `node_hostile` and `services`
and the four violations: TLAPS does not prove liveness under fairness. Every
invariant, action property and refinement of a passing run is also a theorem.

## Where the code and its documentation disagree

| Run | Code | What happens |
| --- | --- | --- |
| `node_overlap` | `mq_websocket_api.py:109` | a client that reconnects early loses its new session when its old coroutine ends |
| `node_leak` | `node_server.py:79` | an input that raises ends the coroutine without `end_session` |
| `stream_reuse` | `mq_websocket_api.py:91` | a reopened stream's response audio goes to the closed socket |
| `refresh_once` | `client_manager.py:336` | a refresh token can be used again |

More disagreements were seen while modelling and have no run of their own:

- `mq_websocket_api.py:86`: the wait for the Node socket keeps the Node socket from
  connecting, so it never helps (`WaitNeverHelps` in `node_hostile`, `WaitIsFutile`);
  :84-85 says it is there for clients that do not wait themselves.
- `client_manager.py:384`: two instances that store a token for one user at once lose
  one of them, which is why `UncontendedIsStored` asks for users nobody contends for.
- `client_manager.py:108`: logins, refreshes and registrations keep the event loop
  until the users service answers or is given up (`LogIn`, `LoopComesBack`), while `mq_service_api.py:56-57` says of the manager that it
  does not block it.
- `mq_service_api.py:90-93`: the content put into a reply without one contains the
  reply; the error cannot be written as JSON, and "No response content was
  received" never arrives.
- `mq_service_api.py:227`: an LLM that does not answer in time is answered with 200
  and an empty response; `:389` does the same with a reply without data.
- `mq_service_api.py:115`: the comment speaks of a string the Wolfram API returns;
  a spoken answer that parses as JSON, a number for example, ends as an error.
- `brainforge.py:50`: a missing permission raises `PermissionError`, which nothing
  handles: the client sees 500 and not 403.
- `hub.py:121-123`: the docstring promises `None` for an unreadable `neon.yaml`; one that
  is not UTF-8, that the system fails to read in another way than the three named
  at :133, or that names a null module, is a 500.
- `mq_service_api.py:140`: the users service's code becomes the status of the answer
  as it is (:164, :187, :208), an interim one like 100 included, which the proxied
  services' codes cannot (:118). A refusal with the code 200 is no error to the
  manager: its message is returned in the user's place, fails the response model of
  the route, and counts as success where a login or refresh stores its token.
- `mq_service_api.py:109`: the manager returns content without the fields asked for;
  the routes' response models turn it into a 500. Callers of the blocking manager
  have no model and get it as success, although the comments at :112-114 and :460-462
  speak of malformed content and API errors.
- `hub.py:61`: `get_hub_identity`'s docstring (:72) calls the id stable; while the
  file cannot be written every start makes another, although clients were told the
  last (`idLost`). `HubPromise` promises an id only once it is in the file.
- `node_server.py:58`: `README.md:29` says of `disable_auth` that no authentication will
  be attempted and all connections will be allowed. `validate_auth` honours it, but
  every body that decodes the token again validates its expiration all the same: an
  expired token gets a 500 from the Node socket and from the routes that test a role
  or read the token, and is let in only by those of the "service" kind (`Status`).
- `user.py:51`: the manager's `update_user` has no such argument: the route always fails.
- `client_manager.py:303`: the `expiration` of a login's answer is the access
  token's; after a refresh (`:367`) and in the schema (`auth_requests.py:66-67`)
  it is the refresh token's.
- `client_manager.py:212`: the wait announced with a 429 is rounded to seconds and
  may be half a second too short; `WaitIsNearlyEnough` is what is left.
- `client_manager.py:225-230, 265-270`: logins and registrations take a token of
  their own bucket only, while `README.md:21` says they "also count towards" the
  limit of requests per minute.
- `mq_service_api.py:334`: of two overlapping requests of one device the response
  that arrives last caches a session without the other's turn. This is the case
  `InputsCarryAnswers` has to leave out.

## Abstractions

- A session's context and user profile are left out of `NodeSessions`; what is
  kept is whether the session is there and which socket and handler it names.
- Neon echoes the session id of the message it answers, or sends a message
  without a session. In `ResponseSessions` it returns the session it was sent,
  extended by the turn.
- The `None` that `shutdown` puts into the queue is the end of the audio for the
  voice loop, whatever its flag says: that is the library's doing.
- The voice loop, hot-word engines, the token bucket and the users service are
  libraries or services: they are modelled from how the code uses them.
  In each chunk the voice loop recognises nothing, a hot word or an utterance. A
  bucket is filled to the brim by the first request one period after the last
  filling. The users service handles a write at once or after the caller gave
  up, or refuses it.
- A send on a WebSocket whose client is gone may succeed or raise.
- A token is signed by HANA or refused: signatures and their failure are part
  of `RefuseNode`, `RefuseStream`, and not acting in `TokenLifecycle`.
- `validate_auth` also removes an expired client from `authorized_clients`,
  in the second in which the decoder still accepts the token; nothing reads the
  entry, so `Validate` only models acceptance.
- `_authorized_clients` is written at every login and refresh and decides nothing;
  `Authorize` keeps the note for completeness and no property is about it.
- Rate limits are left out of `TokenLifecycle`: a refused request changes
  nothing there. The two modules share no state.
- A reply is told apart by its status, by the form of its content and by whether
  it fits; audio, text, prices and personas are left out. The time-outs of the
  requests differ and are one action, `GiveUp`, which may come at any time.
- In `AccessControl` a pair of tokens exists as soon as it is made; where it is
  stored, and that the users service may be silent, is in `TokenLifecycle` and
  `ServiceRequests`. `ServiceRequests` in turn lets the users service accept or
  refuse, with a code and without saying why; the refusals of a refresh token are a
  choice of their three codes, what they depend on is in `TokenLifecycle`.
- The codes the users service gives are members of a small set, one below 200, 200
  and one above, as are the proxied services'.
- The three modules about tokens share no variable that both change; the composed
  properties (`RenamedByAdministrator`) are in `HubServer`.

## Not modelled, and what could follow

- `MQWebsocketAPI.shutdown` stops the event loop on SIGINT: nothing runs after it, and
  nothing is kept that a next start would find.
- The fields of the request and response schemas, and FastAPI's 422 for a body that
  does not fit (only where it stands between two steps, `Malformed`).
- The session cache of `MQServiceManager` is the code of `ResponseSessions` once more.
- Wiring, configuration reading, uvicorn, and the documentation routes of the Node
  sockets, which have no body.
- neon_mq_connector keeps replies apart by their message id, also where several
  requests name one response queue; that is outside `src/` and taken as given.

What could follow: the rate limits in front of the routes of `ServiceRequests`, so
that a refusal and a queued request meet in one machine.
