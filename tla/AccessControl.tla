--------------------------- MODULE AccessControl ---------------------------
(***************************************************************************)
(* The roles a token carries, and the routes it opens: auth/               *)
(* client_manager.py with the routers of app/routers.                      *)
(*                                                                         *)
(* A login copies the permissions of its user into a pair of tokens, a     *)
(* refresh copies those of the refresh token into a new pair, and a token  *)
(* is good for whatever it carries until it expires, by its signature      *)
(* alone: through changes of the user's permissions, restarts, and         *)
(* disable_auth being set or cleared between them.  An HTTP route is two   *)
(* steps, the jwt_bearer dependency and then the body of the route, with   *)
(* the event loop free in between; the Node socket tests its token at once.*)
(* Where pairs are stored is TokenLifecycle; how requests are counted is   *)
(* RateLimiter.                                                            *)
(***************************************************************************)
EXTENDS Integers, Sequences, FiniteSets

CONSTANTS
    Users,
    PermissionSets, \* what the users service may hold for a user
    HttpRoutes,     \* the kinds of HTTP routes that clients ask
    AccessTtl,      \* access_token_ttl
    RefreshTtl,     \* refresh_token_ttl
    MaxTokens,      \* bound on the pairs made
    MaxPending,     \* bound on the requests between bearer and body
    MaxTime         \* bound on the clock

\* AccessRoles.
NODE == -1
NONE == 0
GUEST == 10
USER == 20
ADMIN == 30
OWNER == 40
Roles == {NODE, NONE, GUEST, USER, ADMIN, OWNER}

\* The fields of PermissionsConfig that some route tests.
Fields == {"node", "hub", "llm"}
Permissions == [Fields -> Roles]

\* Every HTTP route behind jwt_bearer is of one of four kinds.  "service": its
\* body never looks at the token (api_proxy.py, assist.py, llm.py,
\* mq_backend.py).  "permissions": its body decodes the token again and tests
\* no role (/auth/permissions, /user/get).  The other two test one.
AnyTokenRoutes == {"service", "permissions"}
RoleRoutes == {"brainforge", "rename"}

ASSUME AccessAssumption ==
    /\ PermissionSets \subseteq Permissions
    /\ HttpRoutes \subseteq AnyTokenRoutes \union RoleRoutes
    /\ AccessTtl \in Nat /\ RefreshTtl \in Nat
    /\ MaxTokens \in Nat /\ MaxPending \in Nat /\ MaxTime \in Nat

VARIABLES
    disableAuth,    \* disable_auth, as configured for this run of HANA
    roles,          \* roles[u]: what the users service holds for u
    held,           \* history: held[u], everything it ever held for u
    tokens,         \* every pair made; its id is its position
    now,            \* time(), in seconds
    validated,      \* requests between jwt_bearer and the body of their route
    answer          \* the answer to the last request, NoAnswer while one begins

service == <<roles, held>>
vars == <<disableAuth, service, tokens, now, validated, answer>>

NoAnswer == [route |-> "none", id |-> 0, status |-> 0]
Answer(route, id, status) == [route |-> route, id |-> id, status |-> status]

\* asNode is a history: the login this pair goes back to asked for node_auth.
Pair == [user: Users, roles: Permissions, iat: Int, asNode: BOOLEAN]

TypeOK ==
    /\ disableAuth \in BOOLEAN
    /\ roles \in [Users -> Permissions]
    /\ held \in [Users -> SUBSET Permissions]
    /\ tokens \in Seq(Pair) /\ Len(tokens) <= MaxTokens
    /\ now \in 0..MaxTime
    /\ validated \subseteq HttpRoutes \X (1..Len(tokens))
    /\ answer \in [route: HttpRoutes \union {"none", "node"},
                   id: 0..Len(tokens), status: {0, 101, 200, 401, 403, 422, 500}]

\* _DEFAULT_USER_PERMISSIONS: what a registration stores for its user.
Default == [f \in Fields |-> USER]

\* node_auth: every field is NODE.
NodeOnly == [f \in Fields |-> NODE]

Init ==
    /\ disableAuth \in BOOLEAN
    /\ roles = [u \in Users |-> Default]
    /\ held = [u \in Users |-> {Default}]
    /\ tokens = <<>>
    /\ now = 0
    /\ validated = {}
    /\ answer = NoAnswer

\* The signature of an access token, or of a refresh token, has not expired.
AccessValid(id) == now < tokens[id].iat + AccessTtl
RefreshValid(id) == now < tokens[id].iat + RefreshTtl

-----------------------------------------------------------------------------
(* Tokens. *)

\* Mutant: node_auth leaves the fields alone that the user may use.
NodeField(u, nodeAuth) ==
    IF nodeAuth THEN [roles[u] EXCEPT !["node"] = NODE] ELSE roles[u]

\* The permissions a login gives: those of the user, or the default when
\* there is no users service; a Node gets none of them.
LoginRoles(u, nodeAuth) ==
    IF nodeAuth THEN NodeOnly
    ELSE IF disableAuth THEN Default ELSE roles[u]

\* check_auth_request, when the users service accepts the credentials.
Login(u, nodeAuth) ==
    /\ Len(tokens) < MaxTokens
    /\ tokens' = Append(tokens, [user |-> u, roles |-> LoginRoles(u, nodeAuth),
                                 iat |-> now - 1, asNode |-> nodeAuth])
    /\ UNCHANGED <<disableAuth, service, now, validated, answer>>

\* Mutant: a refresh asks the users service for the roles of the user.
CurrentRoles(id) == roles[tokens[id].user]

\* PermissionsConfig.from_roles(refresh_data.roles).
RefreshRoles(id) == tokens[id].roles

\* check_refresh_request, with a pair that has not expired.
Refresh(id) ==
    /\ RefreshValid(id)
    /\ Len(tokens) < MaxTokens
    /\ tokens' = Append(tokens, [tokens[id] EXCEPT !.roles = RefreshRoles(id),
                                                   !.iat = now - 1])
    /\ UNCHANGED <<disableAuth, service, now, validated, answer>>

-----------------------------------------------------------------------------
(* Routes. *)

\* validate_auth: a token that has not expired, any token without
\* authentication.
Validates(id) == disableAuth \/ AccessValid(id)

\* jwt_bearer, before the body of a route.
Validate(route, id) ==
    /\ <<route, id>> \notin validated
    /\ Cardinality(validated) < MaxPending
    /\ IF Validates(id)
       THEN /\ validated' = validated \union {<<route, id>>}
            /\ answer' = NoAnswer
       ELSE /\ answer' = Answer(route, id, 403)
            /\ UNCHANGED validated
    /\ UNCHANGED <<disableAuth, service, tokens, now>>

\* Mutant of HubAdmin: what every user has is enough.
HubUser(r) == r["hub"] >= USER

HubAdmin(r) == r["hub"] >= ADMIN

LlmGuest(r) == r["llm"] >= GUEST

NodeUser(r) == r["node"] > GUEST \/ r["node"] = NODE

\* The test of a route, on the roles in the token, if it has one.  Only the
\* Node socket asks whether authentication is disabled.
Permitted(route, id) ==
    CASE route = "brainforge" -> LlmGuest(tokens[id].roles)
      [] route = "rename" -> HubAdmin(tokens[id].roles)
      [] route = "node" -> NodeUser(tokens[id].roles) \/ disableAuth
      [] OTHER -> TRUE

\* What a refusal answers: brainforge raises a PermissionError, which nothing
\* handles.
Refusal == [brainforge |-> 500, rename |-> 403, node |-> 401]

\* All routes but those of the "service" kind decode the token again: one that
\* has expired since the bearer, or that the bearer never looked at, is an
\* error nothing handles.  Those of that kind let it in.
Status(route, id) ==
    IF route # "service" /\ ~AccessValid(id) THEN 500
    ELSE IF ~Permitted(route, id) THEN Refusal[route]
    ELSE IF route = "node" THEN 101 ELSE 200

\* The body of a route, up to its role test.
Body(route, id) ==
    /\ <<route, id>> \in validated
    /\ validated' = validated \ {<<route, id>>}
    /\ answer' = Answer(route, id, Status(route, id))
    /\ UNCHANGED <<disableAuth, service, tokens, now>>

\* A request whose content does not fit the model of its route is answered
\* between the two, whatever its token carries.  /auth/permissions and
\* /brainforge/get_models have none.
Malformed(route, id) ==
    /\ <<route, id>> \in validated
    /\ validated' = validated \ {<<route, id>>}
    /\ answer' = Answer(route, id, 422)
    /\ UNCHANGED <<disableAuth, service, tokens, now>>

\* node_v1_endpoint, up to accept(): decoding, validation and the role test
\* without an await between them.
ConnectNode(id) ==
    /\ answer' = Answer("node", id, Status("node", id))
    /\ UNCHANGED <<disableAuth, service, tokens, now, validated>>

-----------------------------------------------------------------------------
(* Surroundings. *)

\* An administrator of the users service changes a user's permissions.
ChangeRoles(u, p) ==
    /\ p # roles[u]
    /\ roles' = [roles EXCEPT ![u] = p]
    /\ held' = [held EXCEPT ![u] = @ \union {p}]
    /\ UNCHANGED <<disableAuth, tokens, now, validated, answer>>

\* HANA restarts, maybe with disable_auth changed: requests under way are
\* lost, the tokens of its clients are not.
Restart ==
    /\ disableAuth' \in BOOLEAN
    /\ validated' = {}
    /\ answer' = NoAnswer
    /\ UNCHANGED <<service, tokens, now>>

Tick ==
    /\ now < MaxTime
    /\ now' = now + 1
    /\ UNCHANGED <<disableAuth, service, tokens, validated, answer>>

-----------------------------------------------------------------------------
Next ==
    \/ \E u \in Users :
          \/ \E nodeAuth \in BOOLEAN : Login(u, nodeAuth)
          \/ \E p \in PermissionSets : ChangeRoles(u, p)
    \/ \E id \in 1..Len(tokens) :
          \/ Refresh(id) \/ ConnectNode(id)
          \/ \E route \in HttpRoutes :
                Validate(route, id) \/ Body(route, id) \/ Malformed(route, id)
    \/ Restart \/ Tick

Spec == Init /\ [][Next]_vars

-----------------------------------------------------------------------------
\* A token that goes back to a node_auth login is refused wherever an HTTP
\* route tests a role, even when it was refreshed after its user was promoted or
\* HANA restarted with authentication disabled.  The Node socket, and every HTTP
\* route that tests no role, turn it away only once it has expired.
NodeScope ==
    answer.id # 0 /\ tokens[answer.id].asNode =>
        IF answer.route \in RoleRoutes
        THEN answer.status # 200
        ELSE answer.status \in {101, 200, 422} \/ ~AccessValid(answer.id)
=============================================================================
