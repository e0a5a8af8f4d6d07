------------------------ MODULE TokenLifecycleProofs -------------------------
(***************************************************************************)
(* Theorems about TokenLifecycle, for any instances, users, clients and    *)
(* bounds: types, whose tokens are made and stored, what clients without a *)
(* users service are noted with, that a user nobody contends for keeps     *)
(* every token a client received, and the promise of TokenStore.           *)
(***************************************************************************)
EXTENDS TokenLifecycle, TLAPS

Ids == 1..Len(tokens)

(***************************************************************************)
(* The strengthening.  What an instance works on belongs together; what is *)
(* still to be written was sent for a request in flight, or for one that   *)
(* was given up; nothing is asked when there is no users service.          *)
(***************************************************************************)
WorkFits ==
    \A i \in Instances :
        LET w == work[i] IN
        /\ w.pc = "idle" => w = Idle
        /\ w.pc # "idle" => w.user \in Users /\ ~disableAuth
        /\ w.pc = "creating" => w.id = 0 /\ w.parent = 0
        /\ w.pc = "reading" => w.client \in Clients
        /\ w.parent # 0 => w.client \in Clients /\ w.id # 0
        /\ w.id # 0 => tokens[w.id].user = w.user

PendingFits ==
    \A r \in pending :
        /\ ~disableAuth
        /\ r.ids \subseteq Ids
        /\ \A id \in r.ids : tokens[id].user = r.user
        /\ r.from # None =>
              LET w == work[r.from] IN
              /\ w.user = r.user
              /\ w.pc = IF r.create THEN "creating" ELSE "updating"
              /\ w.id # 0 => w.id \in r.ids

\* An instance waits for one write at a time.
OneWrite ==
    \A r, s \in pending : r.from = s.from /\ r.from # None => r = s

Base == /\ TypeOK
        /\ WorkFits
        /\ PendingFits
        /\ OneWrite
        /\ TokensHaveUsers

\* A user that was never contended for: one request works on it at a time, one
\* write is to be handled, and it loses no token that was given.
Alone(u) ==
    /\ \A i, j \in Instances : work[i].user = u /\ work[j].user = u => i = j
    /\ \A r, s \in pending : r.user = u /\ s.user = u => r = s
    /\ \A r \in pending : \A i \in Instances :
          r.user = u /\ work[i].user = u => r.from = i
    /\ \A r \in pending : \A id \in given :
          r.user = u /\ ~r.create /\ tokens[id].user = u => id \in r.ids
    /\ \A i \in Instances :
          /\ work[i].user = u /\ work[i].pc = "answered" /\ work[i].id # 0
          => work[i].id \in stored[u]
    /\ \A id \in given : tokens[id].user = u => id \in stored[u]

UncontendedAlone == ~disableAuth => \A u \in Users \ contended : Alone(u)

-----------------------------------------------------------------------------
LEMMA IdleType ==
    /\ Idle \in [pc: Waiting \union {"idle"}, user: Users \union {None},
                 client: Clients \union {None}, id: {0}, parent: {0}]
    /\ Idle.pc = "idle" /\ Idle.user = None /\ Idle.id = 0 /\ Idle.parent = 0
BY DEF Idle

LEMMA PairsAreTyped ==
    ASSUME TypeOK, NEW id \in Ids
    PROVE  /\ tokens[id] \in Pair
           /\ tokens[id].user \in Users /\ tokens[id].client \in Clients
           /\ id \in 1..Len(tokens) /\ id # 0 /\ Len(tokens) \in Nat
<1>1. tokens[id] \in Pair /\ id \in 1..Len(tokens) /\ Len(tokens) \in Nat
  BY DEF TypeOK, Ids
<1> QED BY <1>1 DEF Pair

\* What is typed stays typed when pairs are made.
Works(n) == [pc: Waiting \union {"idle"}, user: Users \union {None},
             client: Clients \union {None}, id: 0..n, parent: 0..n]

LEMMA TypesGrow ==
    ASSUME TypeOK, NEW n \in Nat, Len(tokens) <= n
    PROVE  /\ stored \in [Users -> SUBSET (1..n)] /\ given \subseteq 1..n
           /\ work \in [Instances -> Works(n)]
           /\ authorized \in [Instances -> [Clients -> 0..n]]
<1>1. 1..Len(tokens) \subseteq 1..n /\ 0..Len(tokens) \subseteq 0..n
  BY DEF TypeOK
<1>2. Works(Len(tokens)) \subseteq Works(n)
  BY <1>1 DEF Works
<1>3. work \in [Instances -> Works(Len(tokens))]
  BY DEF TypeOK, Works
<1>4. [Clients -> 0..Len(tokens)] \subseteq [Clients -> 0..n]
  BY <1>1
<1> QED BY <1>1, <1>2, <1>3, <1>4 DEF TypeOK

\* Making a pair leaves the pairs made before as they are.
LEMMA MintGrows ==
    ASSUME TypeOK, NEW u \in Users, NEW c \in Clients,
           NEW parent \in 0..Len(tokens), Mint(u, c, parent)
    PROVE  /\ tokens' \in Seq(Pair)
           /\ Len(tokens') = Len(tokens) + 1 /\ Len(tokens') <= MaxTokens
           /\ \A id \in Ids : tokens'[id] = tokens[id]
           /\ tokens'[Len(tokens')].user = u
           /\ tokens'[Len(tokens')].client = c
<1> DEFINE pair == [user |-> u, client |-> c, iat |-> now - 1, parent |-> parent]
<1>1. /\ Len(tokens) \in Nat /\ MaxTokens \in Nat /\ now \in Int
      /\ tokens \in Seq(Pair) /\ Len(tokens) < MaxTokens
  BY TokenAssumption DEF TypeOK, Mint
<1>2. pair \in Pair /\ pair.user = u /\ pair.client = c
  BY <1>1 DEF Pair
<1>3. tokens' = Append(tokens, pair)
  BY DEF Mint
<1> HIDE DEF pair
<1> QED BY <1>1, <1>2, <1>3 DEF Ids

LEMMA InitBase == Init => Base /\ UncontendedAlone
<1> SUFFICES ASSUME Init PROVE Base /\ UncontendedAlone
  OBVIOUS
<1>1. /\ tokens = << >> /\ Len(tokens) = 0 /\ pending = {} /\ given = {}
      /\ \A i \in Instances : work[i] = Idle
      /\ \A u \in Users : stored[u] = {}
  BY DEF Init
<1>2. TypeOK
  BY <1>1, IdleType, TokenAssumption DEF Init, TypeOK
<1>3. WorkFits
  BY <1>1, IdleType DEF WorkFits
<1>4. PendingFits /\ OneWrite
  BY <1>1 DEF PendingFits, OneWrite
<1>5. TokensHaveUsers
  BY <1>1 DEF TokensHaveUsers
<1>6. UncontendedAlone
  BY <1>1, IdleType, TokenAssumption DEF UncontendedAlone, Alone
<1> QED BY <1>2, <1>3, <1>4, <1>5, <1>6 DEF Base

-----------------------------------------------------------------------------
(* The invariant without what is said of uncontended users. *)

LEMMA RegisterBase ==
    ASSUME Base, NEW i \in Instances, NEW u \in Users, Register(i, u)
    PROVE  Base'
<1> DEFINE w == [Idle EXCEPT !.pc = "creating", !.user = u]
           r == [user |-> u, ids |-> {}, create |-> TRUE, from |-> i]
<1>1. /\ work[i].pc = "idle" /\ ~disableAuth
      /\ pending' = pending \union {r}
      /\ work' = [work EXCEPT ![i] = w]
      /\ UNCHANGED <<disableAuth, now, registered, stored, tokens, given, authorized>>
      /\ contended' \in {contended, contended \union {u}}
  BY DEF Register, Free, Send, Contend, service, clients
<1>2. /\ w.pc = "creating" /\ w.user = u /\ w.id = 0 /\ w.parent = 0
      /\ w \in [pc: Waiting \union {"idle"}, user: Users \union {None},
                client: Clients \union {None}, id: {0}, parent: {0}]
  BY DEF Idle, Waiting
<1>3. /\ r \in Request /\ r.user = u /\ r.ids = {} /\ r.create = TRUE /\ r.from = i
  BY DEF Request
<1> HIDE DEF w, r
<1>4. /\ work'[i] = w /\ \A j \in Instances : j # i => work'[j] = work[j]
      /\ i # None
  BY <1>1, TokenAssumption DEF Base, TypeOK
<1>5. TypeOK'
  BY <1>1, <1>2, <1>3 DEF Base, TypeOK
<1>6. WorkFits'
  BY <1>1, <1>2, <1>4 DEF Base, WorkFits
<1>7. \A s \in pending : s.from # i
  BY <1>1, <1>4 DEF Base, PendingFits
<1>8. PendingFits'
  <2> SUFFICES ASSUME NEW s \in pending'
               PROVE  /\ ~disableAuth /\ s.ids \subseteq Ids
                      /\ \A id \in s.ids : tokens[id].user = s.user
                      /\ s.from # None =>
                            /\ work'[s.from].user = s.user
                            /\ work'[s.from].pc = IF s.create THEN "creating" ELSE "updating"
                            /\ work'[s.from].id # 0 => work'[s.from].id \in s.ids
    BY <1>1 DEF PendingFits, Ids
  <2>1. CASE s = r
    BY <1>1, <1>2, <1>3, <1>4, <2>1
  <2>2. CASE s \in pending
    <3>1. s.from # None => s.from \in Instances
      BY <2>2 DEF Base, TypeOK, Request
    <3> QED BY <1>1, <1>4, <1>7, <2>2, <3>1 DEF Base, PendingFits
  <2> QED BY <1>1, <2>1, <2>2
<1>9. OneWrite'
  BY <1>1, <1>3, <1>7 DEF Base, OneWrite
<1>10. TokensHaveUsers'
  BY <1>1 DEF Base, TokensHaveUsers
<1> QED BY <1>5, <1>6, <1>8, <1>9, <1>10 DEF Base

\* Without a users service a pair is made, given at once.
LEMMA GiveAtOnceBase ==
    ASSUME Base, disableAuth, NEW i \in Instances, NEW u \in Users, NEW c \in Clients,
           NEW parent \in 0..Len(tokens), Mint(u, c, parent),
           Authorize(i, c, Len(tokens')), given' = given \union {Len(tokens')},
           UNCHANGED <<disableAuth, now, service, pending, work>>,
           contended' \in {contended, contended \union {u}}
    PROVE  Base'
<1>1. /\ tokens' \in Seq(Pair)
      /\ Len(tokens') = Len(tokens) + 1 /\ Len(tokens') <= MaxTokens
      /\ \A id \in Ids : tokens'[id] = tokens[id]
      /\ tokens'[Len(tokens')].client = c
  BY MintGrows DEF Base
<1>2. Len(tokens) \in Nat
  BY DEF Base, TypeOK
<1>3. pending = {} /\ \A j \in Instances : work[j] = Idle
  BY DEF Base, PendingFits, WorkFits
<1>4. TypeOK'
  <2>1. Len(tokens') \in Nat /\ Len(tokens) <= Len(tokens')
    BY <1>1, <1>2
  <2>2. /\ stored \in [Users -> SUBSET (1..Len(tokens'))]
        /\ given \subseteq 1..Len(tokens')
        /\ work \in [Instances -> Works(Len(tokens'))]
        /\ authorized \in [Instances -> [Clients -> 0..Len(tokens')]]
    BY <2>1, TypesGrow DEF Base
  <2>3. Len(tokens') \in 1..Len(tokens') /\ Len(tokens') \in 0..Len(tokens')
    BY <1>1, <1>2
  <2>4. authorized' \in [Instances -> [Clients -> 0..Len(tokens')]]
    BY <2>2, <2>3 DEF Authorize
  <2> QED BY <1>1, <2>2, <2>3, <2>4 DEF Base, TypeOK, service, Works
<1>5. WorkFits' /\ PendingFits' /\ OneWrite'
  BY <1>3, IdleType DEF WorkFits, PendingFits, OneWrite
<1>6. TokensHaveUsers'
  BY DEF TokensHaveUsers
<1> QED BY <1>4, <1>5, <1>6 DEF Base

\* A free instance begins to read user u; a refresh has made its pair before.
LEMMA BeginReadingBase ==
    ASSUME Base, ~disableAuth, NEW i \in Instances, NEW u \in Users, NEW c \in Clients,
           NEW w, work[i].pc = "idle",
           work' = [work EXCEPT ![i] = w],
           tokens' \in Seq(Pair), Len(tokens') \in Len(tokens)..MaxTokens,
           \A id \in Ids : tokens'[id] = tokens[id],
           \A id \in 1..Len(tokens') : id \notin Ids => tokens'[id].user \in registered,
           w \in [pc: {"reading"}, user: {u}, client: {c},
                 id: 0..Len(tokens'), parent: 0..Len(tokens')],
           w.parent # 0 => w.id # 0,
           w.id # 0 => tokens'[w.id].user = u,
           UNCHANGED <<disableAuth, now, service, pending, given, authorized>>,
           contended' \in {contended, contended \union {u}}
    PROVE  Base'
<1>1. /\ work'[i] = w /\ \A j \in Instances : j # i => work'[j] = work[j]
      /\ i # None /\ Len(tokens) \in Nat
      /\ UNCHANGED <<registered, stored>>
  BY TokenAssumption DEF Base, TypeOK, service
<1>2. TypeOK'
  <2>1. Len(tokens') \in Nat /\ Len(tokens) <= Len(tokens') /\ Len(tokens') <= MaxTokens
    BY <1>1, TokenAssumption
  <2>2. /\ stored \in [Users -> SUBSET (1..Len(tokens'))]
        /\ given \subseteq 1..Len(tokens')
        /\ work \in [Instances -> Works(Len(tokens'))]
        /\ authorized \in [Instances -> [Clients -> 0..Len(tokens')]]
    BY <2>1, TypesGrow DEF Base
  <2>3. w \in Works(Len(tokens'))
    BY DEF Waiting, Works
  <2>4. work' \in [Instances -> Works(Len(tokens'))]
    BY <2>2, <2>3
  <2> QED BY <1>1, <2>1, <2>2, <2>4 DEF Base, TypeOK, Works
<1>3. WorkFits'
  <2>1. \A j \in Instances : j # i /\ work[j].id # 0 => work[j].id \in Ids
    BY <1>1 DEF Base, TypeOK, Ids
  <2> QED BY <1>1, <2>1 DEF Base, WorkFits
<1>4. \A s \in pending : s.from # i
  BY <1>1 DEF Base, PendingFits
<1>5. PendingFits'
  <2>1. \A s \in pending : s.from # None => s.from \in Instances /\ s.from # i
    BY <1>4 DEF Base, TypeOK, Request
  <2> QED BY <1>1, <2>1 DEF Base, PendingFits, Ids
<1>6. OneWrite'
  BY DEF Base, OneWrite
<1>7. TokensHaveUsers'
  <2>1. \A v \in Users : stored[v] \subseteq Ids
    BY DEF Base, TypeOK, Ids
  <2> QED BY <1>1, <2>1 DEF Base, TokensHaveUsers, Ids
<1> QED BY <1>2, <1>3, <1>5, <1>6, <1>7 DEF Base

LEMMA LoginBase ==
    ASSUME Base, NEW i \in Instances, NEW u \in Users, NEW c \in Clients, Login(i, u, c)
    PROVE  Base'
<1>1. /\ work[i].pc = "idle" /\ UNCHANGED <<disableAuth, now, service, pending>>
      /\ contended' \in {contended, contended \union {u}}
      /\ Len(tokens) \in Nat /\ Len(tokens) <= MaxTokens /\ tokens \in Seq(Pair)
      /\ MaxTokens \in Nat
  BY TokenAssumption DEF Login, Free, Contend, Base, TypeOK
<1>2. CASE disableAuth
  BY <1>1, <1>2, GiveAtOnceBase DEF Login
<1>3. CASE ~disableAuth
  <2> DEFINE w == [Idle EXCEPT !.pc = "reading", !.user = u, !.client = c]
  <2>1. /\ work' = [work EXCEPT ![i] = w] /\ UNCHANGED <<tokens, given, authorized>>
    BY <1>3 DEF Login, clients
  <2>2. w \in [pc: {"reading"}, user: {u}, client: {c},
              id: 0..Len(tokens), parent: 0..Len(tokens)]
        /\ w.id = 0 /\ w.parent = 0
    <3>1. w \in [pc: {"reading"}, user: {u}, client: {c}, id: {0}, parent: {0}]
      BY DEF Idle
    <3> HIDE DEF w
    <3> QED BY <1>1, <3>1
  <2> HIDE DEF w
  <2>3. Len(tokens') \in Len(tokens)..MaxTokens
    BY <1>1, <2>1
  <2> QED BY <1>1, <1>3, <2>1, <2>2, <2>3, BeginReadingBase DEF Ids
<1> QED BY <1>2, <1>3

LEMMA RefreshBase ==
    ASSUME Base, NEW i \in Instances, NEW id \in Ids, Refresh(i, id)
    PROVE  Base'
<1> DEFINE u == tokens[id].user
           c == tokens[id].client
<1>1. /\ work[i].pc = "idle" /\ UNCHANGED <<disableAuth, now, service, pending>>
      /\ Mint(u, c, id) /\ contended' \in {contended, contended \union {u}}
  BY DEF Refresh, Free, Contend
<1>2. /\ Len(tokens) \in Nat /\ Len(tokens) <= MaxTokens /\ tokens \in Seq(Pair)
      /\ MaxTokens \in Nat /\ u \in Users /\ c \in Clients /\ id \in 0..Len(tokens)
      /\ id # 0
  BY PairsAreTyped, TokenAssumption DEF Base, TypeOK
<1>3. /\ tokens' \in Seq(Pair)
      /\ Len(tokens') = Len(tokens) + 1 /\ Len(tokens') <= MaxTokens
      /\ \A k \in Ids : tokens'[k] = tokens[k]
      /\ tokens'[Len(tokens')].user = u
  BY <1>1, <1>2, MintGrows DEF Base
<1>4. CASE disableAuth
  <2>1. Authorize(i, c, Len(tokens')) /\ given' = given \union {Len(tokens')}
        /\ UNCHANGED work
    BY <1>4 DEF Refresh
  <2> HIDE DEF u, c
  <2> QED BY <1>1, <1>2, <1>4, <2>1, GiveAtOnceBase
<1>5. CASE ~disableAuth
  <2> DEFINE w == [pc |-> "reading", user |-> u, client |-> c,
                   id |-> Len(tokens'), parent |-> id]
  <2>1. work' = [work EXCEPT ![i] = w] /\ UNCHANGED <<given, authorized>>
    BY <1>5 DEF Refresh
  <2>2. u \in registered
    BY <1>5 DEF Base, TokensHaveUsers, Ids
  <2> HIDE DEF u, c
  <2>3. /\ w \in [pc: {"reading"}, user: {u}, client: {c},
                 id: 0..Len(tokens'), parent: 0..Len(tokens')]
        /\ w.id = Len(tokens') /\ w.parent # 0
    BY <1>2, <1>3
  <2> HIDE DEF w
  <2>4. Len(tokens') \in Len(tokens)..MaxTokens /\ Len(tokens') # 0
    BY <1>2, <1>3
  <2>5. \A k \in 1..Len(tokens') : k \notin Ids => tokens'[k].user \in registered
    BY <1>2, <1>3, <2>2 DEF Ids
  <2> QED BY <1>1, <1>2, <1>3, <1>5, <2>1, <2>3, <2>4, <2>5, BeginReadingBase
<1> QED BY <1>4, <1>5

LEMMA ValidateBase ==
    ASSUME Base, NEW i \in Instances, NEW id \in Ids, Validate(i, id)
    PROVE  Base'
<1>1. /\ UNCHANGED <<disableAuth, now, registered, stored, pending, tokens, given,
                     work, contended>>
      /\ ~disableAuth
      /\ authorized' = [authorized EXCEPT ![i][tokens[id].client] = id]
  BY DEF Validate, service, requests, Authorize
<1>2. id \in 0..Len(tokens) /\ Len(tokens) \in Nat
  BY DEF Base, TypeOK, Ids
<1>3. TypeOK'
  BY <1>1, <1>2 DEF Base, TypeOK
<1>4. WorkFits' /\ PendingFits' /\ OneWrite' /\ TokensHaveUsers'
  BY <1>1 DEF Base, WorkFits, PendingFits, OneWrite, TokensHaveUsers, Ids
<1> QED BY <1>3, <1>4 DEF Base

\* An instance is released; what it waited for, if it is still to be written,
\* is nobody's any more.
LEMMA ReleaseBase ==
    ASSUME Base, ~disableAuth, NEW i \in Instances, Release(i), pending' \subseteq Request,
           \A r \in pending' : r.from # i,
           \A r \in pending' : \E s \in pending :
              /\ r.user = s.user /\ r.ids = s.ids /\ r.create = s.create
              /\ r.from # None => r = s,
           UNCHANGED <<disableAuth, now, service, tokens, contended>>,
           \/ UNCHANGED <<given, authorized>>
           \/ /\ given' \subseteq Ids
              /\ authorized' \in [Instances -> [Clients -> 0..Len(tokens)]]
    PROVE  Base'
<1>1. /\ work'[i] = Idle /\ \A j \in Instances : j # i => work'[j] = work[j]
      /\ UNCHANGED <<registered, stored>> /\ Len(tokens) \in Nat
  BY DEF Release, service, Base, TypeOK
<1>2. \A r \in pending' : r.from # None => r \in pending /\ r.from \in Instances
  BY DEF Base, TypeOK, Request
<1>3. TypeOK'
  <2>1. work' \in [Instances -> Works(Len(tokens))]
    <3>1. Idle \in Works(Len(tokens))
      BY <1>1, IdleType DEF Works, Idle
    <3> QED BY <3>1 DEF Release, Base, TypeOK, Works
  <2> QED BY <1>1, <2>1 DEF Base, TypeOK, Works, Ids
<1>4. WorkFits'
  BY <1>1, IdleType DEF Base, WorkFits
<1>5. PendingFits'
  <2> SUFFICES ASSUME NEW r \in pending'
               PROVE  /\ ~disableAuth /\ r.ids \subseteq Ids
                      /\ \A id \in r.ids : tokens[id].user = r.user
                      /\ r.from # None =>
                            /\ work'[r.from].user = r.user
                            /\ work'[r.from].pc = IF r.create THEN "creating" ELSE "updating"
                            /\ work'[r.from].id # 0 => work'[r.from].id \in r.ids
    BY DEF PendingFits, Ids
  <2>1. r.ids \subseteq Ids /\ \A id \in r.ids : tokens[id].user = r.user
    BY DEF Base, PendingFits
  <2> QED BY <1>1, <1>2, <2>1 DEF Base, PendingFits
<1>6. OneWrite'
  BY <1>2 DEF Base, OneWrite
<1>7. TokensHaveUsers'
  BY <1>1 DEF Base, TokensHaveUsers
<1> QED BY <1>3, <1>4, <1>5, <1>6, <1>7 DEF Base

\* Who works on something works with a users service.
LEMMA BusyHasService ==
    ASSUME Base, NEW i \in Instances, work[i].pc # "idle"
    PROVE  ~disableAuth /\ work[i].user \in Users
BY DEF Base, WorkFits

LEMMA ReadFailsBase ==
    ASSUME Base, NEW i \in Instances, ReadFails(i)
    PROVE  Base'
<1>1. /\ work[i].pc = "reading" /\ Release(i) /\ pending' = pending
      /\ UNCHANGED <<disableAuth, now, service, tokens, given, authorized, contended>>
  BY DEF ReadFails, clients
<1>2. \A r \in pending : r.from # i
  BY <1>1, TokenAssumption DEF Base, PendingFits
<1> QED BY <1>1, <1>2, BusyHasService, ReleaseBase DEF Base, TypeOK

LEMMA TimeOutBase ==
    ASSUME Base, NEW i \in Instances, TimeOut(i)
    PROVE  Base'
<1> DEFINE orphan(r) == IF r.from = i THEN [r EXCEPT !.from = None] ELSE r
<1>1. /\ work[i].pc \in Waiting /\ Release(i)
      /\ pending' = {orphan(r) : r \in pending}
      /\ UNCHANGED <<disableAuth, now, service, tokens, given, authorized, contended>>
  BY DEF TimeOut, clients
<1>2. \A r \in pending :
          /\ orphan(r) \in Request /\ orphan(r).from # i
          /\ orphan(r).user = r.user /\ orphan(r).ids = r.ids
          /\ orphan(r).create = r.create /\ (orphan(r).from # None => orphan(r) = r)
  <2> SUFFICES ASSUME NEW r \in pending
               PROVE  /\ orphan(r) \in Request /\ orphan(r).from # i
                      /\ orphan(r).user = r.user /\ orphan(r).ids = r.ids
                      /\ orphan(r).create = r.create
                      /\ orphan(r).from # None => orphan(r) = r
    OBVIOUS
  <2>1. r \in Request
    BY DEF Base, TypeOK
  <2>2. CASE r.from = i
    <3>1. orphan(r) = [r EXCEPT !.from = None]
      BY <2>2
    <3> HIDE DEF orphan
    <3> QED BY <2>1, <3>1, TokenAssumption DEF Request
  <2>3. CASE r.from # i
    BY <2>1, <2>3
  <2> QED BY <2>2, <2>3
<1> HIDE DEF orphan
<1>3. pending' \subseteq Request /\ \A r \in pending' : r.from # i
  BY <1>1, <1>2
<1>4. \A r \in pending' : \E s \in pending :
          /\ r.user = s.user /\ r.ids = s.ids /\ r.create = s.create
          /\ r.from # None => r = s
  BY <1>1, <1>2
<1>5. ~disableAuth
  BY <1>1, BusyHasService DEF Waiting
<1> QED BY <1>1, <1>3, <1>4, <1>5, ReleaseBase

LEMMA AnswerBase ==
    ASSUME Base, NEW i \in Instances, Answer(i)
    PROVE  Base'
<1>1. /\ work[i].pc = "answered" /\ Release(i) /\ pending' = pending
      /\ given' = IF work[i].id = 0 THEN given ELSE given \union {work[i].id}
      /\ IF work[i].parent = 0 THEN UNCHANGED authorized
         ELSE Authorize(i, work[i].client, work[i].id)
      /\ UNCHANGED <<disableAuth, now, service, tokens, contended>>
  BY DEF Answer
<1>2. \A r \in pending : r.from # i
  BY <1>1, TokenAssumption DEF Base, PendingFits
<1>3. work[i].id \in 0..Len(tokens) /\ (work[i].id # 0 => work[i].id \in Ids)
  BY DEF Base, TypeOK, Ids
<1>4. given' \subseteq Ids
  BY <1>1, <1>3 DEF Base, TypeOK, Ids
<1>5. authorized' \in [Instances -> [Clients -> 0..Len(tokens)]]
  <2>1. work[i].parent # 0 => work[i].client \in Clients
    BY DEF Base, WorkFits
  <2>2. authorized \in [Instances -> [Clients -> 0..Len(tokens)]]
    BY DEF Base, TypeOK
  <2>3. CASE work[i].parent = 0
    BY <1>1, <2>2, <2>3
  <2>4. CASE work[i].parent # 0
    BY <1>1, <1>3, <2>1, <2>2, <2>4 DEF Authorize
  <2> QED BY <2>3, <2>4
<1>6. ~disableAuth /\ pending' \subseteq Request /\ \A r \in pending' : r.from # i
  BY <1>1, <1>2, BusyHasService DEF Base, TypeOK
<1> QED BY <1>1, <1>4, <1>5, <1>6, ReleaseBase

LEMMA RefuseBase ==
    ASSUME Base, NEW r \in pending, Refuse(r)
    PROVE  Base'
<1>1. /\ pending' = pending \ {r}
      /\ IF r.from = None THEN UNCHANGED work ELSE Release(r.from)
      /\ UNCHANGED <<disableAuth, now, registered, stored, tokens, given, authorized,
                     contended>>
  BY DEF Refuse, service, clients
<1>2. ~disableAuth /\ pending' \subseteq Request /\ r.from \in Instances \union {None}
  BY <1>1 DEF Base, PendingFits, TypeOK, Request
<1>3. CASE r.from = None
  BY <1>1, <1>3 DEF Base, TypeOK, WorkFits, PendingFits, OneWrite, TokensHaveUsers,
                    Ids
<1>4. CASE r.from # None
  <2>1. \A s \in pending' : s.from # r.from
    BY <1>1, <1>4 DEF Base, OneWrite
  <2> QED BY <1>1, <1>2, <1>4, <2>1, ReleaseBase DEF service
<1> QED BY <1>3, <1>4

LEMMA ApplyBase ==
    ASSUME Base, NEW r \in pending, Apply(r)
    PROVE  Base'
<1>1. /\ registered' = registered \union {r.user}
      /\ stored' = [stored EXCEPT ![r.user] = r.ids]
      /\ pending' = pending \ {r}
      /\ IF r.from = None THEN UNCHANGED work
         ELSE work' = [work EXCEPT ![r.from].pc = "answered"]
      /\ UNCHANGED <<disableAuth, now, tokens, given, authorized, contended>>
  BY DEF Apply, clients
<1>2. /\ r.user \in Users /\ r.from \in Instances \union {None} /\ r.ids \subseteq Ids
      /\ ~disableAuth /\ \A id \in r.ids : tokens[id].user = r.user
  BY DEF Base, TypeOK, PendingFits, Request
<1>3. /\ \A j \in Instances : j # r.from => work'[j] = work[j]
      /\ r.from # None =>
            /\ work'[r.from].pc = "answered"
            /\ work'[r.from].user = work[r.from].user
            /\ work'[r.from].client = work[r.from].client
            /\ work'[r.from].id = work[r.from].id
            /\ work'[r.from].parent = work[r.from].parent
      /\ work' \in [Instances -> Works(Len(tokens))]
  <2>1. work \in [Instances -> Works(Len(tokens))]
    BY DEF Base, TypeOK, Works
  <2>2. "answered" \in Waiting
    BY DEF Waiting
  <2> QED BY <1>1, <1>2, <2>1, <2>2, TokenAssumption DEF Works
<1>4. TypeOK'
  BY <1>1, <1>2, <1>3 DEF Base, TypeOK, Works, Ids
<1>5. WorkFits'
  <2>1. r.from # None => /\ work[r.from].user = r.user
                         /\ work[r.from].pc \in {"creating", "updating"}
    BY DEF Base, PendingFits
  <2>2. ASSUME NEW j \in Instances
        PROVE  LET w == work'[j] IN
               /\ w.pc = "idle" => w = Idle
               /\ w.pc # "idle" => w.user \in Users /\ ~disableAuth
               /\ w.pc = "creating" => w.id = 0 /\ w.parent = 0
               /\ w.pc = "reading" => w.client \in Clients
               /\ w.parent # 0 => w.client \in Clients /\ w.id # 0
               /\ w.id # 0 => tokens[w.id].user = w.user
    BY <1>2, <1>3, <2>1, TokenAssumption DEF Base, WorkFits
  <2> QED BY <1>1, <2>2 DEF WorkFits
<1>6. \A s \in pending' : s \in pending /\ (s.from # None => s.from # r.from)
  BY <1>1 DEF Base, OneWrite
<1>7. PendingFits'
  <2>1. \A s \in pending : s.from # None => s.from \in Instances
    BY DEF Base, TypeOK, Request
  <2> QED BY <1>1, <1>3, <1>6, <2>1 DEF Base, PendingFits, Ids
<1>8. OneWrite'
  BY <1>6 DEF Base, OneWrite
<1>9. TokensHaveUsers'
  BY <1>1, <1>2 DEF Base, TokensHaveUsers, TypeOK
<1> QED BY <1>4, <1>5, <1>7, <1>8, <1>9 DEF Base

\* The user is read: the write that is sent has what was stored and the new id.
LEMMA SendWriteBase ==
    ASSUME Base, NEW i \in Instances, NEW w, NEW r \in Request,
           work[i].pc = "reading", work[i].user \in registered,
           work' = [work EXCEPT ![i] = w],
           pending' = pending \union {r},
           tokens' \in Seq(Pair), Len(tokens') \in Len(tokens)..MaxTokens,
           \A id \in Ids : tokens'[id] = tokens[id],
           \A id \in 1..Len(tokens') : id \notin Ids => tokens'[id].user = work[i].user,
           w \in [pc: {"updating"}, user: {work[i].user}, client: {work[i].client},
                 id: 1..Len(tokens'), parent: {work[i].parent}],
           tokens'[w.id].user = work[i].user,
           r.user = work[i].user, r.ids = stored[work[i].user] \union {w.id},
           r.create = FALSE, r.from = i,
           authorized' \in [Instances -> [Clients -> 0..Len(tokens')]],
           UNCHANGED <<disableAuth, now, service, given, contended>>
    PROVE  Base'
<1>1. /\ work'[i] = w /\ \A j \in Instances : j # i => work'[j] = work[j]
      /\ i # None /\ Len(tokens) \in Nat /\ UNCHANGED <<registered, stored>>
      /\ ~disableAuth /\ work[i].user \in Users /\ work[i].client \in Clients
  BY TokenAssumption DEF Base, TypeOK, WorkFits, service
<1>2. Len(tokens') \in Nat /\ Len(tokens) <= Len(tokens') /\ Len(tokens') <= MaxTokens
  BY <1>1, TokenAssumption
<1>3. /\ stored \in [Users -> SUBSET (1..Len(tokens'))]
      /\ given \subseteq 1..Len(tokens')
      /\ work \in [Instances -> Works(Len(tokens'))]
  BY <1>2, TypesGrow DEF Base
<1>4. TypeOK'
  <2>1. w \in Works(Len(tokens'))
    <3>1. work[i].parent \in 0..Len(tokens')
      BY <1>3 DEF Works
    <3> QED BY <1>1, <1>2, <3>1 DEF Works, Waiting
  <2>2. work' \in [Instances -> Works(Len(tokens'))]
    BY <1>3, <2>1
  <2> QED BY <1>1, <1>2, <1>3, <2>2 DEF Base, TypeOK, Works
<1>5. WorkFits'
  <2>1. \A j \in Instances : j # i /\ work[j].id # 0 => work[j].id \in Ids
    BY <1>1 DEF Base, TypeOK, Ids
  <2> QED BY <1>1, <2>1 DEF Base, WorkFits
<1>6. \A s \in pending : s.from # i
  BY <1>1 DEF Base, PendingFits
<1>7. PendingFits'
  <2>1. r.ids \subseteq 1..Len(tokens') /\ \A id \in r.ids : tokens'[id].user = r.user
    <3>1. \A id \in stored[work[i].user] : id \in Ids /\ tokens[id].user = work[i].user
      BY <1>1 DEF Base, TokensHaveUsers, TypeOK, Ids
    <3> QED BY <1>1, <1>2, <3>1 DEF Ids
  <2>2. \A s \in pending : s.from # None => s.from \in Instances /\ s.from # i
    BY <1>6 DEF Base, TypeOK, Request
  <2>3. \A s \in pending :
            /\ s.ids \subseteq 1..Len(tokens')
            /\ \A id \in s.ids : tokens'[id].user = s.user
    BY <1>1, <1>2 DEF Base, PendingFits, Ids
  <2>4. ASSUME NEW s \in pending'
        PROVE  /\ s.ids \subseteq 1..Len(tokens')
               /\ \A id \in s.ids : tokens'[id].user = s.user
               /\ s.from # None =>
                     /\ work'[s.from].user = s.user
                     /\ work'[s.from].pc = IF s.create THEN "creating" ELSE "updating"
                     /\ work'[s.from].id # 0 => work'[s.from].id \in s.ids
    <3>1. CASE s = r
      BY <1>1, <2>1, <3>1
    <3>2. CASE s \in pending
      BY <1>1, <2>2, <2>3, <3>2 DEF Base, PendingFits
    <3> QED BY <3>1, <3>2
  <2> QED BY <1>1, <2>4 DEF PendingFits, Ids
<1>8. OneWrite'
  BY <1>6 DEF Base, OneWrite
<1>9. TokensHaveUsers'
  <2>1. \A v \in Users : stored[v] \subseteq Ids
    BY DEF Base, TypeOK, Ids
  <2> QED BY <1>1, <2>1 DEF Base, TokensHaveUsers, Ids
<1> QED BY <1>4, <1>5, <1>7, <1>8, <1>9 DEF Base

LEMMA ReadUserBase ==
    ASSUME Base, NEW i \in Instances, ReadUser(i)
    PROVE  Base'
<1> DEFINE u == work[i].user
           c == work[i].client
<1>1. /\ work[i].pc = "reading" /\ u \in registered
      /\ UNCHANGED <<disableAuth, now, service, given, contended>>
      /\ u \in Users /\ c \in Clients /\ Len(tokens) \in Nat /\ MaxTokens \in Nat
      /\ Len(tokens) <= MaxTokens /\ tokens \in Seq(Pair)
      /\ authorized \in [Instances -> [Clients -> 0..Len(tokens)]]
      /\ stored[u] \subseteq Ids
  BY TokenAssumption DEF ReadUser, CanRead, Base, WorkFits, TypeOK, Ids
<1>2. CASE work[i].parent = 0
  <2> DEFINE id == Len(tokens')
             w == [work[i] EXCEPT !.pc = "updating", !.id = id]
             r == [user |-> u, ids |-> stored[u] \union {id}, create |-> FALSE, from |-> i]
  <2>1. /\ Mint(u, c, 0) /\ Authorize(i, c, id)
        /\ work' = [work EXCEPT ![i] = w] /\ pending' = pending \union {r}
    BY <1>2 DEF ReadUser, AppendToken, Send, Base, TypeOK
  <2>2. /\ tokens' \in Seq(Pair)
        /\ id = Len(tokens) + 1 /\ id <= MaxTokens
        /\ \A k \in Ids : tokens'[k] = tokens[k]
        /\ tokens'[id].user = u
    BY <1>1, <2>1, MintGrows DEF Base
  <2>3. /\ w \in [pc: {"updating"}, user: {u}, client: {c}, id: 1..id,
                 parent: {work[i].parent}]
        /\ w.id = id
    <3>1. work[i] \in Works(Len(tokens)) /\ id \in 1..id
      BY <1>1, <2>2 DEF Base, TypeOK, Works
    <3> HIDE DEF id
    <3> QED BY <3>1 DEF Works
  <2>4. r \in Request
    <3>1. stored[u] \union {id} \subseteq 1..MaxTokens
      BY <1>1, <2>2 DEF Ids
    <3> HIDE DEF id, u
    <3> QED BY <1>1, <3>1 DEF Request
  <2>5. /\ r.user = u /\ r.ids = stored[u] \union {w.id} /\ r.create = FALSE
        /\ r.from = i
    BY <2>3
  <2>6. authorized' \in [Instances -> [Clients -> 0..id]]
    <3>1. id \in Nat /\ Len(tokens) <= id /\ id \in 0..id
      BY <1>1, <2>2
    <3>2. authorized \in [Instances -> [Clients -> 0..id]]
      BY <3>1, TypesGrow DEF Base
    <3> QED BY <2>1, <3>1, <3>2 DEF Authorize
  <2>7. /\ id \in Len(tokens)..MaxTokens
        /\ \A k \in 1..id : k \notin Ids => tokens'[k].user = u
    BY <1>1, <2>2 DEF Ids
  <2> HIDE DEF w, r
  <2> QED BY <1>1, <2>1, <2>2, <2>3, <2>4, <2>5, <2>6, <2>7, SendWriteBase
<1>3. CASE work[i].parent # 0
  <2> DEFINE id == work[i].id
             w == [work[i] EXCEPT !.pc = "updating"]
             r == [user |-> u, ids |-> stored[u] \union {id}, create |-> FALSE, from |-> i]
  <2>1. /\ UNCHANGED <<tokens, authorized>>
        /\ work' = [work EXCEPT ![i] = w] /\ pending' = pending \union {r}
    BY <1>3 DEF ReadUser, AppendToken, Send, Base, TypeOK
  <2>2. id \in Ids /\ tokens[id].user = u
    BY <1>3 DEF Base, WorkFits, TypeOK, Ids
  <2>3. /\ w \in [pc: {"updating"}, user: {u}, client: {c}, id: Ids,
                 parent: {work[i].parent}]
        /\ w.id = id
    <3>1. work[i] \in Works(Len(tokens))
      BY <1>1 DEF Base, TypeOK, Works
    <3> QED BY <2>2, <3>1 DEF Works
  <2>4. r \in Request
    <3>1. stored[u] \union {id} \subseteq 1..MaxTokens
      BY <1>1, <2>2 DEF Ids
    <3> HIDE DEF id, u
    <3> QED BY <1>1, <3>1 DEF Request
  <2>5. /\ r.user = u /\ r.ids = stored[u] \union {w.id} /\ r.create = FALSE
        /\ r.from = i
    BY <2>3
  <2>7. Len(tokens) \in Len(tokens)..MaxTokens
    BY <1>1
  <2> HIDE DEF w, r
  <2> QED BY <1>1, <2>1, <2>2, <2>3, <2>4, <2>5, <2>7, SendWriteBase DEF Ids
<1> QED BY <1>2, <1>3

LEMMA TickBase ==
    ASSUME Base, Tick
    PROVE  Base'
<1>1. /\ now' \in 0..MaxTime
      /\ UNCHANGED <<disableAuth, registered, stored, pending, tokens, given,
                     authorized, work, contended>>
  BY TokenAssumption DEF Tick, service, clients, requests, Base, TypeOK
<1> QED BY <1>1 DEF Base, TypeOK, WorkFits, PendingFits, OneWrite, TokensHaveUsers,
                    Ids

-----------------------------------------------------------------------------
(* What is said of uncontended users, with the rest of the invariant. *)

\* A step that gives no token away, and changes neither the work, the writes
\* nor the list of user u, leaves u alone.
LEMMA OtherUsers ==
    ASSUME Base, NEW u \in Users, Alone(u), u # None,
           given' = given, \A id \in given : tokens'[id] = tokens[id],
           \A i \in Instances : work'[i].user = u => work'[i] = work[i],
           \A r \in pending' : r.user = u => r \in pending,
           stored'[u] = stored[u]
    PROVE  Alone(u)'
BY DEF Alone

\* A free instance begins to work on u: nobody else does, and nothing of u is
\* to be written, or u becomes contended.
LEMMA BeginAlone ==
    ASSUME Base, NEW i \in Instances, NEW u \in Users, NEW v \in Users \ contended',
           ~disableAuth, work[i].pc = "idle", Contend(i, u), Alone(v),
           \A j \in Instances : j # i => work'[j] = work[j],
           work'[i].user = u, work'[i].pc # "answered",
           pending' \subseteq pending \union
               {[user |-> u, ids |-> {}, create |-> TRUE, from |-> i]},
           given' = given, \A id \in given : tokens'[id] = tokens[id],
           stored' = stored
    PROVE  Alone(v)'
<1> DEFINE new == [user |-> u, ids |-> {}, create |-> TRUE, from |-> i]
<1>3. new.user = u /\ new.from = i /\ new.create = TRUE
  OBVIOUS
<1>4. \A r \in pending' : r \in pending \/ r = new
  OBVIOUS
<1> HIDE DEF new
<1>1. CASE v # u
  BY <1>1, <1>3, <1>4, TokenAssumption, OtherUsers
<1>2. CASE v = u
  <2>1. /\ \A j \in Instances : j # i => work[j].user # u
        /\ \A r \in pending : r.user # u
    BY <1>2 DEF Contend
  <2>2. /\ \A j \in Instances : j # i => work'[j].user # u
        /\ \A r \in pending' : r.user = u => r = new
    BY <1>4, <2>1
  <2> QED BY <1>2, <1>3, <2>2 DEF Alone
<1> QED BY <1>1, <1>2

LEMMA RegisterAlone ==
    ASSUME Base, UncontendedAlone, NEW i \in Instances, NEW u \in Users, Register(i, u)
    PROVE  UncontendedAlone'
<1>1. /\ work[i].pc = "idle" /\ ~disableAuth /\ disableAuth' = disableAuth
      /\ pending' = pending \union
             {[user |-> u, ids |-> {}, create |-> TRUE, from |-> i]}
      /\ work' = [work EXCEPT ![i] = [Idle EXCEPT !.pc = "creating", !.user = u]]
      /\ UNCHANGED <<stored, tokens, given>>
      /\ Contend(i, u) /\ contended \subseteq contended'
  BY DEF Register, Free, Send, Contend, service, clients
<1>2. /\ work'[i].user = u /\ work'[i].pc # "answered"
      /\ \A j \in Instances : j # i => work'[j] = work[j]
  BY <1>1 DEF Idle, Base, TypeOK
<1>3. ASSUME NEW v \in Users \ contended' PROVE Alone(v)'
  <2>1. Alone(v)
    BY <1>1 DEF UncontendedAlone
  <2> QED BY <1>1, <1>2, <2>1, BeginAlone
<1> QED BY <1>3 DEF UncontendedAlone

LEMMA LoginAlone ==
    ASSUME Base, UncontendedAlone, NEW i \in Instances, NEW u \in Users,
           NEW c \in Clients, Login(i, u, c)
    PROVE  UncontendedAlone'
<1>1. /\ work[i].pc = "idle" /\ UNCHANGED <<disableAuth, stored, pending>>
      /\ Contend(i, u) /\ contended \subseteq contended'
  BY DEF Login, Free, Contend, service
<1>2. CASE disableAuth
  BY <1>1, <1>2 DEF UncontendedAlone
<1>3. CASE ~disableAuth
  <2>1. /\ work' = [work EXCEPT ![i] = [Idle EXCEPT !.pc = "reading", !.user = u,
                                                  !.client = c]]
        /\ UNCHANGED <<tokens, given>>
    BY <1>3 DEF Login, clients
  <2>2. /\ work'[i].user = u /\ work'[i].pc # "answered"
        /\ \A j \in Instances : j # i => work'[j] = work[j]
    BY <2>1 DEF Idle, Base, TypeOK
  <2>3. ASSUME NEW v \in Users \ contended' PROVE Alone(v)'
    <3>1. Alone(v)
      BY <1>1, <1>3 DEF UncontendedAlone
    <3> QED BY <1>1, <1>3, <2>1, <2>2, <3>1, BeginAlone
  <2> QED BY <2>3 DEF UncontendedAlone
<1> QED BY <1>2, <1>3

LEMMA RefreshAlone ==
    ASSUME Base, UncontendedAlone, NEW i \in Instances, NEW id \in Ids, Refresh(i, id)
    PROVE  UncontendedAlone'
<1> DEFINE u == tokens[id].user
           c == tokens[id].client
<1>1. /\ work[i].pc = "idle" /\ UNCHANGED <<disableAuth, stored, pending>>
      /\ Mint(u, c, id) /\ Contend(i, u) /\ contended \subseteq contended'
  BY DEF Refresh, Free, Contend, service
<1>2. CASE disableAuth
  BY <1>1, <1>2 DEF UncontendedAlone
<1>3. CASE ~disableAuth
  <2>1. /\ work' = [work EXCEPT ![i] =
                      [pc |-> "reading", user |-> u, client |-> c,
                       id |-> Len(tokens'), parent |-> id]]
        /\ given' = given
    BY <1>3 DEF Refresh
  <2>2. u \in Users /\ c \in Clients /\ id \in 0..Len(tokens)
    BY PairsAreTyped DEF Base
  <2>3. \A k \in given : tokens'[k] = tokens[k]
    BY <1>1, <2>2, MintGrows DEF Base, TypeOK, Ids
  <2> HIDE DEF u, c
  <2>4. /\ work'[i].user = u /\ work'[i].pc # "answered"
        /\ \A j \in Instances : j # i => work'[j] = work[j]
    BY <2>1 DEF Base, TypeOK
  <2>5. ASSUME NEW v \in Users \ contended' PROVE Alone(v)'
    <3>1. Alone(v)
      BY <1>1, <1>3 DEF UncontendedAlone
    <3> QED BY <1>1, <1>3, <2>1, <2>2, <2>3, <2>4, <3>1, BeginAlone
  <2> QED BY <2>5 DEF UncontendedAlone
<1> QED BY <1>2, <1>3

\* An instance is released: what it had to write is nobody's, or gone, and the
\* pair it worked for is given when its write was acknowledged.
LEMMA ReleaseAlone ==
    ASSUME Base, UncontendedAlone, NEW i \in Instances, work[i].pc # "idle", Release(i),
           NEW orphan,
           \A r \in pending' : \E s \in pending : r = orphan[s],
           \A s \in pending :
              /\ orphan[s].user = s.user /\ orphan[s].ids = s.ids
              /\ orphan[s].create = s.create
              /\ s.from # i => orphan[s] = s,
           given' \in {given, given \union {work[i].id}},
           given' # given => work[i].pc = "answered" /\ work[i].id # 0,
           UNCHANGED <<disableAuth, stored, tokens, contended>>
    PROVE  UncontendedAlone'
<1>1. /\ work'[i].user = None /\ \A j \in Instances : j # i => work'[j] = work[j]
  BY IdleType DEF Release, Base, TypeOK
<1>2. SUFFICES ASSUME ~disableAuth, NEW u \in Users \ contended PROVE Alone(u)'
  BY DEF UncontendedAlone
<1>3. Alone(u) /\ u # None
  BY <1>2, TokenAssumption DEF UncontendedAlone
<1>4. \A j \in Instances : work'[j].user = u => j # i /\ work'[j] = work[j]
  BY <1>1, <1>3
<1>5. \A j, k \in Instances : work'[j].user = u /\ work'[k].user = u => j = k
  BY <1>3, <1>4 DEF Alone
<1>6. \A r, s \in pending' : r.user = u /\ s.user = u => r = s
  BY <1>3 DEF Alone
<1>7. \A r \in pending' : \A j \in Instances :
          r.user = u /\ work'[j].user = u => r.from = j
  BY <1>3, <1>4 DEF Alone
<1>8. work[i].pc = "answered" /\ work[i].id # 0
      => /\ tokens[work[i].id].user = work[i].user
         /\ work[i].user = u => /\ work[i].id \in stored[u]
                               /\ \A r \in pending : r.user # u
  <2>1. ASSUME work[i].pc = "answered", work[i].user = u, NEW r \in pending, r.user = u
        PROVE  FALSE
    <3>1. r.from = i /\ i # None
      BY <1>3, <2>1, TokenAssumption DEF Alone
    <3> QED BY <2>1, <3>1 DEF Base, PendingFits
  <2> QED BY <1>3, <2>1 DEF Alone, Base, WorkFits
<1>9. \A r \in pending' : \A id \in given' :
          r.user = u /\ ~r.create /\ tokens[id].user = u => id \in r.ids
  BY <1>3, <1>8 DEF Alone
<1>10. \A j \in Instances :
          /\ work'[j].user = u /\ work'[j].pc = "answered" /\ work'[j].id # 0
          => work'[j].id \in stored[u]
  BY <1>3, <1>4 DEF Alone
<1>11. \A id \in given' : tokens[id].user = u => id \in stored[u]
  BY <1>3, <1>8 DEF Alone
<1> QED BY <1>5, <1>6, <1>7, <1>9, <1>10, <1>11 DEF Alone

LEMMA ReadFailsAlone ==
    ASSUME Base, UncontendedAlone, NEW i \in Instances, ReadFails(i)
    PROVE  UncontendedAlone'
<1> DEFINE same == [s \in pending |-> s]
<1>1. /\ work[i].pc = "reading" /\ Release(i) /\ pending' = pending
      /\ UNCHANGED <<disableAuth, stored, tokens, given, contended>>
  BY DEF ReadFails, clients, service
<1>2. \A s \in pending : same[s] = s
  OBVIOUS
<1> HIDE DEF same
<1> QED BY <1>1, <1>2, ReleaseAlone

LEMMA TimeOutAlone ==
    ASSUME Base, UncontendedAlone, NEW i \in Instances, TimeOut(i)
    PROVE  UncontendedAlone'
<1> DEFINE orphan == [s \in pending |->
                        IF s.from = i THEN [s EXCEPT !.from = None] ELSE s]
<1>1. /\ work[i].pc # "idle" /\ Release(i)
      /\ pending' = {IF s.from = i THEN [s EXCEPT !.from = None] ELSE s : s \in pending}
      /\ UNCHANGED <<disableAuth, stored, tokens, given, contended>>
  BY DEF TimeOut, clients, service, Waiting
<1>2. \A r \in pending' : \E s \in pending : r = orphan[s]
  BY <1>1
<1>3. \A s \in pending :
          /\ orphan[s].user = s.user /\ orphan[s].ids = s.ids
          /\ orphan[s].create = s.create
          /\ s.from # i => orphan[s] = s
  BY DEF Base, TypeOK, Request
<1> HIDE DEF orphan
<1> QED BY <1>1, <1>2, <1>3, ReleaseAlone

LEMMA AnswerAlone ==
    ASSUME Base, UncontendedAlone, NEW i \in Instances, Answer(i)
    PROVE  UncontendedAlone'
<1> DEFINE same == [s \in pending |-> s]
<1>1. /\ work[i].pc = "answered" /\ Release(i) /\ pending' = pending
      /\ given' = IF work[i].id = 0 THEN given ELSE given \union {work[i].id}
      /\ UNCHANGED <<disableAuth, stored, tokens, contended>>
  BY DEF Answer, service
<1>2. \A s \in pending : same[s] = s
  OBVIOUS
<1> HIDE DEF same
<1> QED BY <1>1, <1>2, ReleaseAlone

LEMMA RefuseAlone ==
    ASSUME Base, UncontendedAlone, NEW r \in pending, Refuse(r)
    PROVE  UncontendedAlone'
<1> DEFINE same == [s \in pending |-> s]
<1>1. /\ pending' \subseteq pending
      /\ IF r.from = None THEN UNCHANGED work ELSE Release(r.from)
      /\ UNCHANGED <<disableAuth, stored, tokens, given, contended>>
  BY DEF Refuse, service, clients
<1>2. CASE r.from = None
  <2>1. ASSUME NEW u \in Users, Alone(u) PROVE Alone(u)'
    BY <1>1, <1>2, <2>1 DEF Alone
  <2> QED BY <1>1, <2>1 DEF UncontendedAlone
<1>3. CASE r.from # None
  <2>1. r.from \in Instances /\ work[r.from].pc # "idle"
    BY <1>3 DEF Base, TypeOK, PendingFits, Request
  <2>2. \A s \in pending : same[s] = s
    OBVIOUS
  <2> HIDE DEF same
  <2> QED BY <1>1, <1>3, <2>1, <2>2, ReleaseAlone
<1> QED BY <1>2, <1>3

\* The write of an uncontended user has all that was given; a user that is
\* created was given nothing.
LEMMA ApplyAlone ==
    ASSUME Base, UncontendedAlone, NEW r \in pending, Apply(r)
    PROVE  UncontendedAlone'
<1>1. /\ r.create <=> r.user \notin registered
      /\ stored' = [stored EXCEPT ![r.user] = r.ids]
      /\ pending' = pending \ {r}
      /\ IF r.from = None THEN UNCHANGED work
         ELSE work' = [work EXCEPT ![r.from].pc = "answered"]
      /\ UNCHANGED <<disableAuth, tokens, given, contended>>
  BY DEF Apply, clients
<1>2. /\ r.user \in Users /\ r.from \in Instances \union {None} /\ ~disableAuth
  BY DEF Base, TypeOK, PendingFits, Request
<1>3. /\ \A j \in Instances : j # r.from => work'[j] = work[j]
      /\ \A j \in Instances :
            work'[j].user = work[j].user /\ work'[j].id = work[j].id
  <2>1. work \in [Instances -> Works(Len(tokens))]
    BY DEF Base, TypeOK, Works
  <2>2. CASE r.from = None
    BY <1>1, <2>2
  <2>3. CASE r.from # None
    <3>1. work[r.from] \in Works(Len(tokens))
      BY <1>2, <2>1, <2>3
    <3>2. work' = [work EXCEPT ![r.from].pc = "answered"]
      BY <1>1, <2>3
    <3> QED BY <2>1, <3>1, <3>2 DEF Works
  <2> QED BY <2>2, <2>3
<1>4. ASSUME NEW u \in Users \ contended PROVE Alone(u)'
  <2>1. Alone(u) /\ u # None
    BY <1>2, TokenAssumption DEF UncontendedAlone
  <2>2. CASE u = r.user
    <3>1. /\ stored'[u] = r.ids
          /\ \A s \in pending' : s.user # u
          /\ \A j \in Instances : work[j].user = u => r.from = j
      BY <1>1, <1>2, <2>1, <2>2 DEF Alone, Base, TypeOK
    <3>2. \A id \in given : tokens[id].user = u => id \in r.ids
      <4>1. \A id \in given : tokens[id].user \in registered
        BY <1>2 DEF Base, TypeOK, TokensHaveUsers
      <4> QED BY <1>1, <2>1, <2>2, <4>1 DEF Alone
    <3>3. \A j \in Instances : work[j].user = u /\ work[j].id # 0 => work[j].id \in r.ids
      BY <3>1, TokenAssumption DEF Base, PendingFits
    <3> QED BY <1>1, <1>3, <2>1, <3>1, <3>2, <3>3 DEF Alone
  <2>3. CASE u # r.user
    <3>1. stored'[u] = stored[u]
      BY <1>1, <2>3 DEF Base, TypeOK
    <3>2. \A j \in Instances : work'[j].user = u => work'[j] = work[j]
      <4>1. r.from # None => work[r.from].user = r.user
        BY DEF Base, PendingFits
      <4> QED BY <1>2, <1>3, <2>3, <4>1, TokenAssumption
    <3> QED BY <1>1, <2>1, <3>1, <3>2, OtherUsers
  <2> QED BY <2>2, <2>3
<1> QED BY <1>1, <1>4 DEF UncontendedAlone

\* The one request that works on an uncontended user has nothing to be
\* written yet, and what it sends has all that was stored and its own id.
LEMMA ReadUserAlone ==
    ASSUME Base, UncontendedAlone, NEW i \in Instances, ReadUser(i)
    PROVE  UncontendedAlone'
<1> DEFINE u == work[i].user
<1>1. PICK id : /\ pending' = pending \union
                      {[user |-> u, ids |-> stored[u] \union {id},
                        create |-> FALSE, from |-> i]}
                /\ work'[i].user = u /\ work'[i].pc = "updating"
                /\ \A j \in Instances : j # i => work'[j] = work[j]
  <2>1. CASE work[i].parent = 0
    <3>1. /\ Send(u, stored[u] \union {Len(tokens')}, FALSE, i)
          /\ work' = [work EXCEPT ![i].pc = "updating", ![i].id = Len(tokens')]
      BY <2>1 DEF ReadUser, AppendToken
    <3>2. /\ work'[i].user = u /\ work'[i].pc = "updating"
          /\ \A j \in Instances : j # i => work'[j] = work[j]
      BY <3>1 DEF Base, TypeOK
    <3> QED BY <3>1, <3>2 DEF Send
  <2>2. CASE work[i].parent # 0
    <3>1. /\ Send(u, stored[u] \union {work[i].id}, FALSE, i)
          /\ work' = [work EXCEPT ![i].pc = "updating"]
      BY <2>2 DEF ReadUser, AppendToken
    <3>2. /\ work'[i].user = u /\ work'[i].pc = "updating"
          /\ \A j \in Instances : j # i => work'[j] = work[j]
      BY <3>1 DEF Base, TypeOK
    <3> QED BY <3>1, <3>2 DEF Send
  <2> QED BY <2>1, <2>2
<1> DEFINE new == [user |-> u, ids |-> stored[u] \union {id},
                   create |-> FALSE, from |-> i]
<1>2. /\ work[i].pc = "reading" /\ UNCHANGED <<disableAuth, stored, given, contended>>
      /\ ~disableAuth /\ u \in Users /\ work[i].client \in Clients
  BY DEF ReadUser, service, Base, WorkFits
<1>3. \A k \in given : tokens'[k] = tokens[k]
  <2>1. Mint(u, work[i].client, 0) \/ UNCHANGED tokens
    BY DEF ReadUser
  <2>2. given \subseteq Ids /\ 0 \in 0..Len(tokens)
    BY DEF Base, TypeOK, Ids
  <2> QED BY <1>2, <2>1, <2>2, MintGrows DEF Base
<1>4. new.user = u /\ new.from = i /\ new.create = FALSE /\ stored[u] \subseteq new.ids
  OBVIOUS
<1>5. pending' = pending \union {new}
  BY <1>1
<1> HIDE DEF new, u
<1>6. ASSUME NEW v \in Users \ contended PROVE Alone(v)'
  <2>1. Alone(v) /\ v # None
    BY <1>2, TokenAssumption DEF UncontendedAlone
  <2>2. CASE v # u
    <3>1. \A j \in Instances : work'[j].user = v => work'[j] = work[j]
      BY <1>1, <2>2
    <3>2. \A r \in pending' : r.user = v => r \in pending
      BY <1>4, <1>5, <2>2
    <3> QED BY <1>2, <1>3, <2>1, <3>1, <3>2, OtherUsers
  <2>3. CASE v = u
    <3>1. ASSUME NEW r \in pending, r.user = u PROVE FALSE
      <4>1. r.from = i /\ i # None
        BY <2>1, <2>3, <3>1, TokenAssumption DEF Alone, u
      <4> QED BY <1>2, <4>1 DEF Base, PendingFits
    <3>2. \A j \in Instances : work'[j].user = u => j = i
      BY <1>1, <2>1, <2>3 DEF Alone, u
    <3>3. \A r \in pending' : r.user = u => r = new
      BY <1>5, <3>1
    <3> QED BY <1>1, <1>2, <1>3, <1>4, <2>1, <2>3, <3>2, <3>3 DEF Alone
  <2> QED BY <2>2, <2>3
<1> QED BY <1>2, <1>6 DEF UncontendedAlone

-----------------------------------------------------------------------------
LEMMA NextInv == Base /\ UncontendedAlone /\ [Next]_vars => Base' /\ UncontendedAlone'
<1> SUFFICES ASSUME Base, UncontendedAlone, [Next]_vars
             PROVE  Base' /\ UncontendedAlone'
  OBVIOUS
<1>1. ASSUME NEW i \in Instances, NEW u \in Users, Register(i, u)
      PROVE  Base' /\ UncontendedAlone'
  BY <1>1, RegisterBase, RegisterAlone
<1>2. ASSUME NEW i \in Instances, NEW u \in Users, NEW c \in Clients, Login(i, u, c)
      PROVE  Base' /\ UncontendedAlone'
  BY <1>2, LoginBase, LoginAlone
<1>3. ASSUME NEW i \in Instances, NEW id \in 1..Len(tokens), Refresh(i, id)
      PROVE  Base' /\ UncontendedAlone'
  BY <1>3, RefreshBase, RefreshAlone DEF Ids
<1>4. ASSUME NEW i \in Instances, NEW id \in 1..Len(tokens), Validate(i, id)
      PROVE  Base' /\ UncontendedAlone'
  <2>1. Base'
    BY <1>4, ValidateBase DEF Ids
  <2>2. UNCHANGED <<disableAuth, stored, pending, tokens, given, work, contended>>
    BY <1>4 DEF Validate, service, requests
  <2> QED BY <2>1, <2>2 DEF UncontendedAlone, Alone
<1>5. ASSUME NEW i \in Instances, ReadUser(i)
      PROVE  Base' /\ UncontendedAlone'
  BY <1>5, ReadUserBase, ReadUserAlone
<1>6. ASSUME NEW i \in Instances, ReadFails(i) \/ Answer(i) \/ TimeOut(i)
      PROVE  Base' /\ UncontendedAlone'
  BY <1>6, ReadFailsBase, ReadFailsAlone, AnswerBase, AnswerAlone, TimeOutBase,
     TimeOutAlone
<1>7. ASSUME NEW r \in pending, Apply(r) \/ Refuse(r)
      PROVE  Base' /\ UncontendedAlone'
  BY <1>7, ApplyBase, ApplyAlone, RefuseBase, RefuseAlone
<1>8. CASE Tick
  <2>1. UNCHANGED <<disableAuth, stored, pending, tokens, given, work, contended>>
    BY <1>8 DEF Tick, service, clients, requests
  <2> QED BY <1>8, <2>1, TickBase DEF UncontendedAlone, Alone
<1>9. CASE UNCHANGED vars
  <2>1. UNCHANGED <<disableAuth, now, registered, stored, pending, tokens, given,
                    authorized, work, contended>>
    BY <1>9 DEF vars, service, clients, requests
  <2> QED BY <2>1 DEF Base, TypeOK, WorkFits, PendingFits, OneWrite, TokensHaveUsers,
                      UncontendedAlone, Alone, Ids
<1> QED BY <1>1, <1>2, <1>3, <1>4, <1>5, <1>6, <1>7, <1>8, <1>9 DEF Next

LEMMA Invariance == Spec => [](Base /\ UncontendedAlone)
BY InitBase, NextInv, PTL DEF Spec

\* Types: all of the state stays within its bounds.
THEOREM TokenTypes == Spec => []TypeOK
<1>1. Base => TypeOK
  BY DEF Base
<1> QED BY <1>1, Invariance, PTL

\* Pairs are made and listed for users the users service knows, and for their
\* own user only, however late a write arrives.
THEOREM TokensBelong == Spec => []TokensHaveUsers
<1>1. Base => TokensHaveUsers
  BY DEF Base
<1> QED BY <1>1, Invariance, PTL

\* A user no two requests worked on at once keeps every token it was given.
THEOREM UncontendedKeep == Spec => []UncontendedIsStored
<1>1. Base /\ UncontendedAlone => UncontendedIsStored
  <2> SUFFICES ASSUME Base, UncontendedAlone, ~disableAuth, NEW id \in given,
                      tokens[id].user \notin contended
               PROVE  id \in stored[tokens[id].user]
    BY DEF UncontendedIsStored
  <2>1. tokens[id].user \in Users
    BY PairsAreTyped DEF Base, TypeOK, Ids
  <2> QED BY <2>1 DEF UncontendedAlone, Alone
<1> QED BY <1>1, Invariance, PTL

-----------------------------------------------------------------------------
(* TokenStore is implemented. *)

\* What waits to be written for an uncontended user is what is stored and one
\* pair more.
WritesAppend ==
    ~disableAuth =>
        \A r \in pending :
            r.user \notin contended /\ ~r.create =>
                \E id \in Ids : r.ids = stored[r.user] \union {id}

Inv == Base /\ UncontendedAlone /\ WritesAppend

\* A step that sends no write but one that creates a user, and leaves what is
\* stored for the users of the other writes, keeps them so.
LEMMA WritesKept ==
    ASSUME Inv, Ids \subseteq Ids', contended \subseteq contended', UNCHANGED disableAuth,
           \A r \in pending' : r.create \/ \E s \in pending :
               /\ r.user = s.user /\ r.ids = s.ids /\ r.create = s.create
               /\ r.user \notin contended => stored'[r.user] = stored[s.user]
    PROVE  WritesAppend'
BY DEF Inv, WritesAppend

\* Pairs are only added.
LEMMA IdsGrow ==
    ASSUME Base, [Next]_vars PROVE Ids \subseteq Ids' /\ \A id \in Ids : tokens'[id] = tokens[id]
<1>1. ASSUME NEW u \in Users, NEW c \in Clients, NEW parent \in 0..Len(tokens),
             Mint(u, c, parent)
      PROVE  Ids \subseteq Ids' /\ \A id \in Ids : tokens'[id] = tokens[id]
  BY <1>1, MintGrows DEF Base, TypeOK, Ids
<1>2. ASSUME UNCHANGED tokens
      PROVE  Ids \subseteq Ids' /\ \A id \in Ids : tokens'[id] = tokens[id]
  BY <1>2 DEF Ids
<1>3. 0 \in 0..Len(tokens) /\ Ids \subseteq 0..Len(tokens)
  BY DEF Base, TypeOK, Ids
<1>4. ASSUME NEW i \in Instances, NEW u \in Users, NEW c \in Clients, Login(i, u, c)
      PROVE  Ids \subseteq Ids' /\ \A id \in Ids : tokens'[id] = tokens[id]
  <2>1. Mint(u, c, 0) \/ UNCHANGED tokens
    BY <1>4 DEF Login, clients
  <2> QED BY <1>1, <1>2, <1>3, <2>1
<1>5. ASSUME NEW i \in Instances, NEW id \in Ids, Refresh(i, id)
      PROVE  Ids \subseteq Ids' /\ \A k \in Ids : tokens'[k] = tokens[k]
  <2>1. Mint(tokens[id].user, tokens[id].client, id)
    BY <1>5 DEF Refresh
  <2>2. tokens[id].user \in Users /\ tokens[id].client \in Clients
    BY PairsAreTyped DEF Base
  <2> QED BY <1>1, <1>3, <2>1, <2>2
<1>6. ASSUME NEW i \in Instances, ReadUser(i)
      PROVE  Ids \subseteq Ids' /\ \A id \in Ids : tokens'[id] = tokens[id]
  <2>1. Mint(work[i].user, work[i].client, 0) \/ UNCHANGED tokens
    BY <1>6 DEF ReadUser
  <2>2. work[i].user \in Users /\ work[i].client \in Clients
    BY <1>6 DEF ReadUser, Base, WorkFits
  <2> QED BY <1>1, <1>2, <1>3, <2>1, <2>2
<1>7. ASSUME NEW i \in Instances,
             \/ \E u \in Users : Register(i, u)
             \/ \E id \in Ids : Validate(i, id)
             \/ ReadFails(i) \/ Answer(i) \/ TimeOut(i)
      PROVE  UNCHANGED tokens
  BY <1>7 DEF Register, Validate, ReadFails, Answer, TimeOut, clients
<1>8. ASSUME NEW r \in pending, Apply(r) \/ Refuse(r) PROVE UNCHANGED tokens
  BY <1>8 DEF Apply, Refuse, clients
<1>9. Tick \/ UNCHANGED vars => UNCHANGED tokens
  BY DEF Tick, vars, clients
<1> QED BY <1>2, <1>4, <1>5, <1>6, <1>7, <1>8, <1>9 DEF Next, Ids

\* What ReadUser sends has what is stored and the pair of its request.
LEMMA ReadUserAppends ==
    ASSUME Inv, NEW i \in Instances, ReadUser(i)
    PROVE  WritesAppend'
<1> DEFINE u == work[i].user
<1>1. Base' /\ Ids \subseteq Ids'
  BY ReadUserBase, IdsGrow DEF Inv, Next
<1>2. UNCHANGED <<disableAuth, stored, contended>>
  BY DEF ReadUser, service
<1>3. PICK id \in Ids' :
         pending' = pending \union
            {[user |-> u, ids |-> stored[u] \union {id}, create |-> FALSE, from |-> i]}
  <2>1. CASE work[i].parent = 0
    <3>1. work' = [work EXCEPT ![i].pc = "updating", ![i].id = Len(tokens')]
      BY <2>1 DEF ReadUser
    <3>2. Mint(u, work[i].client, 0) /\ u \in Users /\ work[i].client \in Clients
      BY <2>1 DEF ReadUser, Inv, Base, WorkFits
    <3>3. 0 \in 0..Len(tokens)
      BY DEF Inv, Base, TypeOK
    <3>4. Len(tokens') \in Ids'
      BY <3>2, <3>3, MintGrows DEF Inv, Base, TypeOK, Ids
    <3> QED BY <2>1, <3>4 DEF ReadUser, Send, AppendToken
  <2>2. CASE work[i].parent # 0
    <3>1. work[i].id # 0 /\ work[i].id \in 0..Len(tokens) /\ Len(tokens) \in Nat
      BY <2>2 DEF Inv, Base, WorkFits, TypeOK
    <3>2. work[i].id \in Ids'
      BY <1>1, <3>1 DEF Ids
    <3> QED BY <2>2, <3>2 DEF ReadUser, Send, AppendToken
  <2> QED BY <2>1, <2>2
<1> DEFINE new == [user |-> u, ids |-> stored[u] \union {id}, create |-> FALSE, from |-> i]
<1>4. /\ new.user = u /\ new.ids = stored[u] \union {id}
      /\ \A r \in pending' : r \in pending \/ r = new
  BY <1>3
<1> HIDE DEF new, u
<1>5. ASSUME NEW r \in pending', ~disableAuth, r.user \notin contended, ~r.create
      PROVE  \E k \in Ids' : r.ids = stored[r.user] \union {k}
  <2>1. CASE r \in pending
    BY <1>1, <1>5, <2>1 DEF Inv, WritesAppend
  <2>2. CASE r = new
    BY <1>3, <1>4, <2>2
  <2> QED BY <1>4, <2>1, <2>2
<1> QED BY <1>2, <1>5 DEF WritesAppend

\* When a write takes effect, no other one for its user waits.
LEMMA ApplyAppends ==
    ASSUME Inv, NEW r \in pending, Apply(r)
    PROVE  WritesAppend'
<1>1. /\ stored' = [stored EXCEPT ![r.user] = r.ids]
      /\ pending' = pending \ {r} /\ UNCHANGED <<disableAuth, tokens, contended>>
  BY DEF Apply, clients
<1>2. ASSUME NEW s \in pending, s # r, s.user \notin contended
      PROVE  stored'[s.user] = stored[s.user]
  <2>1. s.user \in Users /\ ~disableAuth
    BY DEF Inv, Base, TypeOK, Request, PendingFits
  <2>2. s.user # r.user
    BY <1>2, <2>1 DEF Inv, UncontendedAlone, Alone
  <2> QED BY <1>1, <2>1, <2>2 DEF Inv, Base, TypeOK
<1>3. Ids' = Ids
  BY <1>1 DEF Ids
<1> QED BY <1>1, <1>2, <1>3, WritesKept

\* Every step keeps all of the invariant.
LEMMA InvStep == Inv /\ [Next]_vars => Inv'
<1> SUFFICES ASSUME Inv, [Next]_vars PROVE WritesAppend'
  BY NextInv DEF Inv
<1>1. Ids \subseteq Ids'
  BY IdsGrow DEF Inv
<1>2. ASSUME UNCHANGED <<disableAuth, stored>>, contended \subseteq contended',
             \A r \in pending' : r.create \/ r \in pending
      PROVE  WritesAppend'
  BY <1>1, <1>2, WritesKept
<1>3. ASSUME NEW i \in Instances, NEW u \in Users, Register(i, u)
      PROVE  WritesAppend'
  <2>1. /\ UNCHANGED <<disableAuth, stored>> /\ contended \subseteq contended'
        /\ pending' = pending \union
             {[user |-> u, ids |-> {}, create |-> TRUE, from |-> i]}
    BY <1>3 DEF Register, Send, Contend, service
  <2> QED BY <1>2, <2>1
<1>4. ASSUME NEW i \in Instances,
             \/ \E u \in Users, c \in Clients : Login(i, u, c)
             \/ \E id \in 1..Len(tokens) : Refresh(i, id) \/ Validate(i, id)
             \/ ReadFails(i) \/ Answer(i)
      PROVE  WritesAppend'
  <2>1. UNCHANGED <<disableAuth, stored, pending>> /\ contended \subseteq contended'
    BY <1>4 DEF Login, Refresh, Validate, ReadFails, Answer, Contend, service, requests
  <2> QED BY <1>2, <2>1
<1>5. ASSUME NEW i \in Instances, TimeOut(i) PROVE WritesAppend'
  <2>1. /\ UNCHANGED <<disableAuth, stored, contended>>
        /\ pending' = {IF r.from = i THEN [r EXCEPT !.from = None] ELSE r : r \in pending}
    BY <1>5 DEF TimeOut, service
  <2>2. \A r \in pending' : \E s \in pending :
           r.user = s.user /\ r.ids = s.ids /\ r.create = s.create
    BY <2>1 DEF Inv, Base, TypeOK, Request
  <2> QED BY <1>1, <2>1, <2>2, WritesKept
<1>6. ASSUME NEW r \in pending, Refuse(r) PROVE WritesAppend'
  <2>1. UNCHANGED <<disableAuth, stored, contended>> /\ pending' \subseteq pending
    BY <1>6 DEF Refuse, service
  <2> QED BY <1>2, <2>1
<1>7. CASE Tick \/ UNCHANGED vars
  <2>1. UNCHANGED <<disableAuth, stored, pending, contended>>
    BY <1>7 DEF Tick, vars, service, requests
  <2> QED BY <1>2, <2>1
<1> QED BY <1>3, <1>4, <1>5, <1>6, <1>7, ReadUserAppends, ApplyAppends DEF Next

\* The users that TokenStore speaks of have the stored lists, and the given
\* pairs are among those made.
LEMMA StoreTypes ==
    ASSUME Inv
    PROVE  /\ Kept \subseteq Users /\ (Kept # {} => ~disableAuth)
           /\ given \subseteq Ids /\ Ids \subseteq 1..MaxTokens
           /\ DOMAIN Lists = Kept /\ DOMAIN Handed = Kept
  BY TokenAssumption DEF Inv, Base, TypeOK, Ids, Kept, Lists, Handed

\* A step that changes neither a list, nor what was given, nor whom it is
\* about, is none of TokenStore.
LEMMA StoreStutters ==
    ASSUME Inv, [Next]_vars, UNCHANGED <<disableAuth, contended, given>>,
           \A u \in Kept : stored'[u] = stored[u]
    PROVE  UNCHANGED <<Lists, Handed>>
<1>1. Kept' = Kept
  BY DEF Kept
<1>2. \A id \in given : tokens'[id] = tokens[id]
  BY IdsGrow, StoreTypes DEF Inv
<1>3. \A u \in Kept : {id \in given : tokens[id].user = u}' = {id \in given : tokens[id].user = u}
  BY <1>2
<1> QED BY <1>1, <1>3 DEF Lists, Handed

\* A request that finds another one at work on its user ends the promise for
\* that user and for no other.
LEMMA StoreForgets ==
    ASSUME Inv, [Next]_vars, NEW i \in Instances, NEW u \in Users, Contend(i, u),
           UNCHANGED <<disableAuth, stored>>, ~disableAuth => UNCHANGED given
    PROVE  [Store!Next]_<<Lists, Handed>>
<1>1. CASE disableAuth
  <2>1. Kept = {} /\ Kept' = {}
    BY <1>1 DEF Kept
  <2> QED BY <2>1 DEF Lists, Handed
<1>2. CASE ~disableAuth /\ contended' = contended
  BY <1>2, StoreStutters
<1>3. CASE ~disableAuth /\ contended' # contended
  <2>1. u \in Kept /\ Kept' = Kept \ {u}
    BY <1>3 DEF Contend, Kept
  <2>2. \A id \in given : tokens'[id] = tokens[id]
    BY IdsGrow, StoreTypes DEF Inv
  <2>3. \A v \in Kept : {id \in given : tokens[id].user = v}' = {id \in given : tokens[id].user = v}
    BY <1>3, <2>2
  <2>4. /\ Lists' = [v \in Kept \ {u} |-> Lists[v]]
        /\ Handed' = [v \in Kept \ {u} |-> Handed[v]]
    BY <2>1, <2>3 DEF Lists, Handed
  <2>5. Store!Forget(u)
    BY <2>4, StoreTypes DEF Store!Forget
  <2> QED BY <2>1, <2>5, StoreTypes DEF Store!Next
<1> QED BY <1>1, <1>2, <1>3

\* A write that takes effect lists one pair with its user, or changes nothing.
LEMMA StoreLists ==
    ASSUME Inv, NEW r \in pending, Apply(r)
    PROVE  [Store!Next]_<<Lists, Handed>>
<1> DEFINE u == r.user
<1>1. /\ r.create <=> u \notin registered
      /\ stored' = [stored EXCEPT ![u] = r.ids]
      /\ UNCHANGED <<disableAuth, tokens, given, contended>> /\ [Next]_vars
  BY DEF Apply, clients, Next
<1>2. /\ u \in Users /\ ~disableAuth /\ r.ids \subseteq Ids
      /\ \A id \in r.ids : tokens[id].user = u
  BY DEF Inv, Base, TypeOK, Request, PendingFits
<1>3. /\ \A id \in Ids : tokens[id].user \in registered
      /\ \A v \in Users : \A id \in stored[v] : tokens[id].user = v
      /\ stored \in [Users -> SUBSET Ids]
  BY <1>2 DEF Inv, Base, TypeOK, TokensHaveUsers, Ids
<1> HIDE DEF u
<1>4. CASE u \notin Kept \/ r.create
  <2>1. r.create => stored[u] = {} /\ r.ids = {}
    BY <1>1, <1>2, <1>3
  <2>2. \A v \in Kept : stored'[v] = stored[v]
    BY <1>1, <1>2, <1>3, <1>4, <2>1, StoreTypes
  <2> QED BY <1>1, <2>2, StoreStutters
<1>5. CASE u \in Kept /\ ~r.create
  <2>1. PICK id \in Ids : r.ids = stored[u] \union {id}
    BY <1>2, <1>5 DEF Inv, WritesAppend, Kept, u
  <2>2. \A v \in Kept : id \in Lists[v] => v = u
    BY <1>2, <1>3, <2>1, StoreTypes DEF Lists
  <2>3. Kept' = Kept /\ Handed' = Handed
    BY <1>1 DEF Kept, Handed
  <2>4. Lists' = [Lists EXCEPT ![u] = @ \union {id}]
    BY <1>1, <1>3, <1>5, <2>1, <2>3, StoreTypes DEF Lists
  <2>5. Store!List(u, id)
    BY <2>2, <2>3, <2>4, StoreTypes DEF Store!List
  <2> QED BY <1>5, <2>5, StoreTypes DEF Store!Next
<1> QED BY <1>4, <1>5

\* An answer hands out the pair of its request, which is listed.
LEMMA StoreHandsOut ==
    ASSUME Inv, NEW i \in Instances, Answer(i)
    PROVE  [Store!Next]_<<Lists, Handed>>
<1> DEFINE u == work[i].user
           id == work[i].id
<1>1. /\ work[i].pc = "answered" /\ UNCHANGED <<disableAuth, stored, tokens, contended>>
      /\ given' = IF id = 0 THEN given ELSE given \union {id}
      /\ [Next]_vars
  BY DEF Answer, service, Next
<1>2. /\ u \in Users /\ ~disableAuth /\ Kept' = Kept
      /\ id # 0 => tokens[id].user = u
  BY <1>1 DEF Inv, Base, WorkFits, Kept
<1>3. u \in Kept /\ id # 0 => id \in stored[u] /\ id \in 1..MaxTokens
  <2>1. u \in Kept /\ id # 0 => id \in stored[u]
    BY <1>1, <1>2 DEF Inv, UncontendedAlone, Alone, Kept
  <2>2. stored[u] \subseteq 1..MaxTokens
    BY <1>2, StoreTypes DEF Inv, Base, TypeOK, Ids
  <2> QED BY <2>1, <2>2
<1> HIDE DEF u, id
<1>4. CASE id = 0
  BY <1>1, <1>4, StoreStutters
<1>5. CASE id # 0 /\ u \notin Kept
  <2>1. \A v \in Kept : {k \in given' : tokens'[k].user = v} = {k \in given : tokens[k].user = v}
    BY <1>1, <1>2, <1>5
  <2>2. Handed' = Handed
    BY <1>2, <2>1 DEF Handed
  <2> QED BY <1>1, <1>2, <2>2 DEF Lists
<1>6. CASE id # 0 /\ u \in Kept
  <2> DEFINE Old(v) == {k \in given : tokens[k].user = v}
             New(v) == {k \in given' : tokens'[k].user = v}
  <2>1. \A v \in Kept : New(v) = IF v = u THEN Old(v) \union {id} ELSE Old(v)
    BY <1>1, <1>2, <1>6
  <2>2. Handed = [v \in Kept |-> Old(v)] /\ Handed' = [v \in Kept |-> New(v)]
    BY <1>2 DEF Handed
  <2> HIDE DEF Old, New
  <2>3. Handed' = [Handed EXCEPT ![u] = @ \union {id}]
    BY <1>6, <2>1, <2>2
  <2>4. Lists' = Lists /\ id \in Lists[u]
    BY <1>1, <1>2, <1>3, <1>6 DEF Lists
  <2>5. Store!HandOut(u, id)
    BY <2>3, <2>4 DEF Store!HandOut
  <2> QED BY <1>3, <1>6, <2>5, StoreTypes DEF Store!Next
<1> QED BY <1>4, <1>5, <1>6

\* Every step is one of TokenStore, or none.
LEMMA StoreStep == Inv /\ [Next]_vars => [Store!Next]_<<Lists, Handed>>
<1> SUFFICES ASSUME Inv, [Next]_vars PROVE [Store!Next]_<<Lists, Handed>>
  OBVIOUS
<1>1. ASSUME NEW i \in Instances, NEW u \in Users,
             Register(i, u) \/ \E c \in Clients : Login(i, u, c)
      PROVE  [Store!Next]_<<Lists, Handed>>
  <2>1. /\ Contend(i, u) /\ UNCHANGED <<disableAuth, stored>>
        /\ ~disableAuth => UNCHANGED given
    BY <1>1 DEF Register, Login, service, clients
  <2> QED BY <2>1, StoreForgets
<1>2. ASSUME NEW i \in Instances, NEW id \in Ids, Refresh(i, id)
      PROVE  [Store!Next]_<<Lists, Handed>>
  <2>1. tokens[id].user \in Users
    BY PairsAreTyped DEF Inv, Base
  <2>2. /\ Contend(i, tokens[id].user) /\ UNCHANGED <<disableAuth, stored>>
        /\ ~disableAuth => UNCHANGED given
    BY <1>2 DEF Refresh, service
  <2> QED BY <2>1, <2>2, StoreForgets
<1>3. ASSUME \/ \E i \in Instances :
                   \/ \E id \in Ids : Validate(i, id)
                   \/ ReadUser(i) \/ ReadFails(i) \/ TimeOut(i)
             \/ \E r \in pending : Refuse(r)
             \/ Tick \/ UNCHANGED vars
      PROVE  [Store!Next]_<<Lists, Handed>>
  <2>1. UNCHANGED <<disableAuth, stored, given, contended>>
    BY <1>3 DEF Validate, ReadUser, ReadFails, TimeOut, Refuse, Tick, vars,
       service, clients, requests
  <2> QED BY <2>1, StoreStutters
<1> QED BY <1>1, <1>2, <1>3, StoreLists, StoreHandsOut DEF Next, Ids

\* The lists of the users service keep the promise of TokenStore for every
\* user whose requests come one after the other.
THEOREM StoreImplemented == Spec => KeepsTokenStore
<1>1. Init => Inv /\ Store!Init
  <2> SUFFICES ASSUME Init PROVE WritesAppend /\ Store!Init
    BY InitBase DEF Inv
  <2>1. WritesAppend
    BY DEF Init, WritesAppend
  <2>2. /\ Kept \in SUBSET Users
        /\ Lists = [u \in Kept |-> {}] /\ Handed = [u \in Kept |-> {}]
    BY DEF Init, Kept, Lists, Handed
  <2> QED BY <2>1, <2>2 DEF Store!Init
<1> QED BY <1>1, InvStep, StoreStep, PTL DEF Spec, KeepsTokenStore, Store!Spec
=============================================================================
