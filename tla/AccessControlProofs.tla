------------------------ MODULE AccessControlProofs ------------------------
(***************************************************************************)
(* Theorems about AccessControl: types, and what a token that goes back to  *)
(* a node_auth login opens and what it does not.                           *)
(***************************************************************************)
EXTENDS AccessControl, TLAPS

\* The roles of every pair are those of a Node, if its login asked for them,
\* and otherwise something the users service held for its user.
PairRoles ==
    \A id \in 1..Len(tokens) :
        IF tokens[id].asNode THEN tokens[id].roles = NodeOnly
        ELSE tokens[id].roles \in held[tokens[id].user]

\* What the service holds now, and the default, are in the history.
HeldNow == \A u \in Users : roles[u] \in held[u] /\ Default \in held[u]

\* TypeOK with the range of the clock, and what the properties rest on.
AccessInv == TypeOK /\ HeldNow /\ PairRoles /\ NodeScope

LEMMA RoleConstants ==
    /\ NODE \in Int /\ NODE < NONE /\ NONE < GUEST /\ GUEST < USER
    /\ USER < ADMIN /\ ADMIN < OWNER
    /\ Roles \subseteq Int /\ Default \in Permissions /\ NodeOnly \in Permissions
  BY DEF NODE, NONE, GUEST, USER, ADMIN, OWNER, Roles, Default, NodeOnly, Permissions

\* A Node's roles are short of every role a route for users asks for.
LEMMA NodeIsNoUser ==
    ~HubAdmin(NodeOnly) /\ ~LlmGuest(NodeOnly) /\ NodeUser(NodeOnly)
  BY DEF HubAdmin, LlmGuest, NodeUser, NodeOnly, Fields, NODE, GUEST, ADMIN

\* What NodeScope allows a route to answer a Node.
ForNode(route, id, status) ==
    IF route \in RoleRoutes
    THEN status # 200
    ELSE status \in {101, 200, 422} \/ ~AccessValid(id)

LEMMA RouteKinds ==
    /\ HttpRoutes \subseteq {"service", "permissions", "brainforge", "rename"}
    /\ RoleRoutes = {"brainforge", "rename"} /\ "node" \notin HttpRoutes
  BY AccessAssumption DEF AnyTokenRoutes, RoleRoutes

\* Appending keeps the pairs there are.
LEMMA AppendedPair ==
    ASSUME NEW p \in Pair, tokens \in Seq(Pair), tokens' = Append(tokens, p)
    PROVE  /\ tokens' \in Seq(Pair) /\ Len(tokens') = Len(tokens) + 1
           /\ Len(tokens) \in Nat
           /\ \A id \in 1..Len(tokens) : tokens'[id] = tokens[id]
           /\ tokens'[Len(tokens) + 1] = p
  OBVIOUS

LEMMA InitInv == Init => AccessInv
  BY AccessAssumption, RoleConstants
     DEF Init, AccessInv, TypeOK, HeldNow, PairRoles, NodeScope, NoAnswer

\* A new pair with the right roles keeps the invariant.
LEMMA NewPair ==
    ASSUME AccessInv, NEW p \in Pair, Len(tokens) < MaxTokens,
           tokens' = Append(tokens, p),
           IF p.asNode THEN p.roles = NodeOnly ELSE p.roles \in held[p.user],
           UNCHANGED <<disableAuth, service, now, validated, answer>>
    PROVE  AccessInv'
<1>1. /\ tokens' \in Seq(Pair) /\ Len(tokens') = Len(tokens) + 1
      /\ Len(tokens) \in Nat
      /\ \A id \in 1..Len(tokens) : tokens'[id] = tokens[id]
      /\ tokens'[Len(tokens) + 1] = p
  BY AppendedPair DEF AccessInv, TypeOK
<1>2. TypeOK'
  BY <1>1, AccessAssumption DEF AccessInv, TypeOK, service
<1>3. HeldNow' /\ PairRoles'
  BY <1>1 DEF AccessInv, HeldNow, PairRoles, service
<1>4. NodeScope'
  <2>1. answer.id # 0 => answer.id \in 1..Len(tokens)
    BY <1>1 DEF AccessInv, TypeOK
  <2> QED BY <2>1, <1>1 DEF AccessInv, NodeScope, AccessValid
<1> QED BY <1>2, <1>3, <1>4 DEF AccessInv

LEMMA LoginInv ==
    ASSUME AccessInv, NEW u \in Users, NEW nodeAuth \in BOOLEAN, Login(u, nodeAuth)
    PROVE  AccessInv'
<1> DEFINE p == [user |-> u, roles |-> LoginRoles(u, nodeAuth), iat |-> now - 1,
                 asNode |-> nodeAuth]
<1>1. LoginRoles(u, nodeAuth) \in Permissions
  BY RoleConstants DEF LoginRoles, AccessInv, TypeOK
<1>2. now - 1 \in Int
  BY AccessAssumption DEF AccessInv, TypeOK
<1>3. p \in Pair
  BY <1>1, <1>2 DEF Pair
<1>4. IF p.asNode THEN p.roles = NodeOnly ELSE p.roles \in held[p.user]
  BY DEF LoginRoles, AccessInv, HeldNow
<1> HIDE DEF p
<1>5. /\ Len(tokens) < MaxTokens /\ tokens' = Append(tokens, p)
      /\ UNCHANGED <<disableAuth, service, now, validated, answer>>
  BY DEF Login, p
<1> QED BY <1>3, <1>4, <1>5, NewPair

LEMMA RefreshInv ==
    ASSUME AccessInv, NEW id \in 1..Len(tokens), Refresh(id)
    PROVE  AccessInv'
<1> DEFINE p == [tokens[id] EXCEPT !.roles = RefreshRoles(id), !.iat = now - 1]
<1>1. tokens[id] \in Pair /\ now - 1 \in Int
  BY AccessAssumption DEF AccessInv, TypeOK
<1>2. /\ p \in Pair /\ p.roles = tokens[id].roles
      /\ p.asNode = tokens[id].asNode /\ p.user = tokens[id].user
  BY <1>1 DEF Pair, RefreshRoles
<1>3. IF p.asNode THEN p.roles = NodeOnly ELSE p.roles \in held[p.user]
  BY <1>2 DEF AccessInv, PairRoles
<1> HIDE DEF p
<1>4. /\ Len(tokens) < MaxTokens /\ tokens' = Append(tokens, p)
      /\ UNCHANGED <<disableAuth, service, now, validated, answer>>
  BY DEF Refresh, p
<1> QED BY <1>2, <1>3, <1>4, NewPair

\* An answer to a request leaves the pairs and the service alone.
LEMMA AnswerInv ==
    ASSUME AccessInv, NEW route \in HttpRoutes \union {"node"},
           NEW id \in 1..Len(tokens), NEW s \in {101, 200, 401, 403, 422, 500},
           answer' = Answer(route, id, s), validated' \subseteq validated,
           tokens[id].asNode => ForNode(route, id, s),
           UNCHANGED <<disableAuth, service, tokens, now>>
    PROVE  AccessInv'
<1>1. TypeOK'
  BY DEF AccessInv, TypeOK, service, Answer
<1>2. HeldNow' /\ PairRoles'
  BY DEF AccessInv, HeldNow, PairRoles, service
<1>3. NodeScope'
  BY DEF NodeScope, Answer, ForNode, AccessValid
<1> QED BY <1>1, <1>2, <1>3 DEF AccessInv

\* What the role test of a route answers a Node.
LEMMA NodeStatus ==
    ASSUME AccessInv, NEW route \in HttpRoutes \union {"node"},
           NEW id \in 1..Len(tokens)
    PROVE  /\ Status(route, id) \in {101, 200, 401, 403, 500}
           /\ tokens[id].asNode =>
                  ForNode(route, id, Status(route, id))
<1>1. Status(route, id) \in {101, 200, 401, 403, 500}
  BY RouteKinds DEF Status, Refusal, Permitted
<1>2. ASSUME tokens[id].asNode
      PROVE  ForNode(route, id, Status(route, id))
  <2>1. tokens[id].roles = NodeOnly
    BY <1>2 DEF AccessInv, PairRoles
  <2>2. CASE route = "node"
    BY <2>1, <2>2, NodeIsNoUser, RouteKinds DEF Status, Permitted, ForNode
  <2>3. CASE route \in RoleRoutes
    <3>1. ~Permitted(route, id) /\ route # "node" /\ route \in {"brainforge", "rename"}
      BY <2>1, <2>3, RouteKinds, NodeIsNoUser DEF Permitted
    <3>2. Status(route, id) \in {401, 403, 500}
      BY <3>1 DEF Status, Refusal
    <3> QED BY <3>1, <3>2, <2>3 DEF ForNode
  <2>4. CASE route \in {"service", "permissions"}
    <3>1. Permitted(route, id) /\ route \notin RoleRoutes
      BY <2>4, RouteKinds DEF Permitted
    <3>2. Status(route, id) = 200 \/ ~AccessValid(id)
      BY <3>1, <2>4 DEF Status
    <3> QED BY <3>1, <3>2, <2>4 DEF ForNode
  <2> QED BY <2>2, <2>3, <2>4, RouteKinds
<1> QED BY <1>1, <1>2

LEMMA RouteInv ==
    ASSUME AccessInv, NEW id \in 1..Len(tokens), NEW route \in HttpRoutes,
           Validate(route, id) \/ Body(route, id) \/ Malformed(route, id)
    PROVE  AccessInv'
<1>1. CASE Validate(route, id)
  <2>1. CASE Validates(id)
    <3>1. TypeOK'
      BY <1>1, <2>1 DEF Validate, AccessInv, TypeOK, service, NoAnswer
    <3>2. HeldNow' /\ PairRoles' /\ NodeScope'
      BY <1>1, <2>1 DEF Validate, AccessInv, HeldNow, PairRoles, NodeScope, service, NoAnswer
    <3> QED BY <3>1, <3>2 DEF AccessInv
  <2>2. CASE ~Validates(id)
    BY <1>1, <2>2, AnswerInv, RouteKinds DEF Validate, Validates, ForNode
  <2> QED BY <2>1, <2>2
<1>2. CASE Body(route, id)
  BY <1>2, NodeStatus, AnswerInv DEF Body
<1>3. CASE Malformed(route, id)
  BY <1>3, AnswerInv, RouteKinds DEF Malformed, ForNode
<1> QED BY <1>1, <1>2, <1>3

LEMMA ConnectInv ==
    ASSUME AccessInv, NEW id \in 1..Len(tokens), ConnectNode(id)
    PROVE  AccessInv'
<1> DEFINE node == "node"
<1>1. node \in HttpRoutes \union {"node"}
  OBVIOUS
<1>2. /\ answer' = Answer(node, id, Status(node, id))
      /\ UNCHANGED <<disableAuth, service, tokens, now, validated>>
  BY DEF ConnectNode
<1> HIDE DEF node
<1>3. /\ Status(node, id) \in {101, 200, 401, 403, 500}
      /\ tokens[id].asNode => ForNode(node, id, Status(node, id))
  BY <1>1, NodeStatus
<1> QED BY <1>1, <1>2, <1>3, AnswerInv

LEMMA SurroundingsInv ==
    ASSUME AccessInv,
           \/ Restart \/ Tick
           \/ \E u \in Users, p \in PermissionSets : ChangeRoles(u, p)
    PROVE  AccessInv'
<1>1. CASE Restart
  <2>1. TypeOK'
    BY <1>1 DEF Restart, AccessInv, TypeOK, service, NoAnswer
  <2> QED BY <1>1, <2>1
          DEF Restart, AccessInv, HeldNow, PairRoles, NodeScope, service, NoAnswer
<1>2. CASE Tick
  <2>1. TypeOK'
    BY <1>2, AccessAssumption DEF Tick, AccessInv, TypeOK, service
  <2>2. HeldNow' /\ PairRoles'
    BY <1>2 DEF Tick, AccessInv, HeldNow, PairRoles, service
  <2>3. ASSUME answer.id # 0
        PROVE  AccessValid(answer.id)' => AccessValid(answer.id)
    <3>1. tokens[answer.id] \in Pair /\ now \in Int
      BY <2>3, AccessAssumption DEF AccessInv, TypeOK
    <3>2. tokens[answer.id].iat \in Int
      BY <3>1 DEF Pair
    <3> QED BY <1>2, <3>1, <3>2, AccessAssumption DEF Tick, AccessValid
  <2>4. NodeScope'
    BY <1>2, <2>3 DEF Tick, AccessInv, NodeScope
  <2> QED BY <2>1, <2>2, <2>4 DEF AccessInv
<1>3. ASSUME NEW u \in Users, NEW p \in PermissionSets, ChangeRoles(u, p)
      PROVE  AccessInv'
  <2>1. \A v \in Users : held[v] \subseteq held'[v]
    BY <1>3 DEF ChangeRoles, AccessInv, TypeOK
  <2>2. TypeOK'
    BY <1>3, AccessAssumption DEF ChangeRoles, AccessInv, TypeOK
  <2>3. HeldNow'
    BY <1>3, <2>1 DEF ChangeRoles, AccessInv, TypeOK, HeldNow
  <2>4. PairRoles' /\ NodeScope'
    <3>1. \A id \in 1..Len(tokens) : tokens[id].user \in Users
      <4>1. \A id \in 1..Len(tokens) : tokens[id] \in Pair
        BY DEF AccessInv, TypeOK
      <4> QED BY <4>1 DEF Pair
    <3> QED BY <1>3, <2>1, <3>1
            DEF ChangeRoles, AccessInv, PairRoles, NodeScope, AccessValid
  <2> QED BY <2>2, <2>3, <2>4 DEF AccessInv
<1> QED BY <1>1, <1>2, <1>3

LEMMA StepInv == AccessInv /\ [Next]_vars => AccessInv'
<1> SUFFICES ASSUME AccessInv, [Next]_vars PROVE AccessInv'
  OBVIOUS
<1>1. CASE UNCHANGED vars
  BY <1>1 DEF vars, service, AccessInv, TypeOK, HeldNow, PairRoles, NodeScope, AccessValid
<1>2. CASE Next
  BY <1>2, LoginInv, RefreshInv, RouteInv, ConnectInv, SurroundingsInv DEF Next
<1> QED BY <1>1, <1>2

LEMMA AlwaysInv == Spec => []AccessInv
  BY InitInv, StepInv, PTL DEF Spec

\* Types.
THEOREM AccessTypes == Spec => []TypeOK
  BY AlwaysInv, PTL DEF AccessInv

\* A token of a node_auth login is refused wherever an HTTP route tests a role,
\* and nowhere else until it expires, for any permissions, lifetimes and numbers
\* of refreshes.
THEOREM NodesStayNodes == Spec => []NodeScope
  BY AlwaysInv, PTL DEF AccessInv
=============================================================================
