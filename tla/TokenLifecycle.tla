--------------------------- MODULE TokenLifecycle ---------------------------
(***************************************************************************)
(* Registration, login, refresh and validation in auth/client_manager.py,  *)
(* with the users service behind mq_service_api.py, for one or several     *)
(* HANA instances.                                                         *)
(*                                                                         *)
(* An access token and its refresh token are made together and share a     *)
(* jti: one id stands for the pair.  A login or a refresh reads the user,  *)
(* appends the pair's id to the tokens it read and writes the user back.   *)
(* _run_async blocks the event loop meanwhile, so an instance works on one *)
(* such request at a time; the users service works for all instances.      *)
(* Rate limits are not modelled here: a refused request changes nothing.   *)
(***************************************************************************)
EXTENDS Integers, Sequences

CONSTANTS
    Instances,      \* HANA processes that share a users service
    Users,
    Clients,        \* client_ids
    AccessTtl,      \* access_token_ttl
    RefreshTtl,     \* refresh_token_ttl
    MaxTokens,      \* bound on the pairs made
    MaxTime,        \* bound on the clock
    None

ASSUME TokenAssumption ==
    /\ AccessTtl \in Nat /\ RefreshTtl \in Nat
    /\ MaxTokens \in Nat /\ MaxTime \in Nat
    /\ None \notin Instances \union Users \union Clients

VARIABLES
    disableAuth,    \* disable_auth, as configured: there is no users service
    now,            \* time(), in seconds
    registered,     \* the users the users service knows
    stored,         \* stored[u]: the ids in the token list of user u
    pending,        \* requests to write a user, sent and not yet handled
    tokens,         \* every pair made; its id is its position
    given,          \* the ids of the pairs clients received
    work,           \* work[i]: what instance i is waiting for
    authorized,     \* authorized[i][c]: _authorized_clients, 0 when absent
    contended       \* history: users that two requests worked on at once

service == <<registered, stored>>
clients == <<tokens, given, authorized>>
requests == <<work, contended>>
vars == <<disableAuth, now, service, pending, clients, requests>>

\* parent is the pair a refresh was made from, 0 for a login.
Pair == [user: Users, client: Clients, iat: Int, parent: 0..MaxTokens]
Request == [user: Users, ids: SUBSET (1..MaxTokens), create: BOOLEAN,
            from: Instances \union {None}]
Idle == [pc |-> "idle", user |-> None, client |-> None, id |-> 0, parent |-> 0]
Waiting == {"creating", "reading", "updating", "answered"}

AccessExp(id) == tokens[id].iat + AccessTtl
RefreshExp(id) == tokens[id].iat + RefreshTtl

TypeOK ==
    /\ disableAuth \in BOOLEAN
    /\ now \in 0..MaxTime
    /\ registered \subseteq Users
    /\ stored \in [Users -> SUBSET (1..Len(tokens))]
    /\ pending \subseteq Request
    /\ tokens \in Seq(Pair) /\ Len(tokens) <= MaxTokens
    /\ given \subseteq 1..Len(tokens)
    /\ work \in [Instances -> [pc: Waiting \union {"idle"},
                               user: Users \union {None},
                               client: Clients \union {None},
                               id: 0..Len(tokens), parent: 0..Len(tokens)]]
    /\ authorized \in [Instances -> [Clients -> 0..Len(tokens)]]
    /\ contended \subseteq Users

Init ==
    /\ disableAuth \in BOOLEAN
    /\ now = 0
    /\ registered = {}
    /\ stored = [u \in Users |-> {}]
    /\ pending = {}
    /\ tokens = <<>>
    /\ given = {}
    /\ work = [i \in Instances |-> Idle]
    /\ authorized = [i \in Instances |-> [c \in Clients |-> 0]]
    /\ contended = {}

\* _create_tokens: the pair is dated one second back.
Mint(u, c, parent) ==
    /\ Len(tokens) < MaxTokens
    /\ tokens' = Append(tokens, [user |-> u, client |-> c, iat |-> now - 1,
                                 parent |-> parent])

\* The last answer to a client is noted; nothing reads it.
Authorize(i, c, id) == authorized' = [authorized EXCEPT ![i][c] = id]

Free(i) == work[i].pc = "idle"

\* Instance i begins to work on user u: another one does already, or a write
\* that its instance gave up is still to be handled.
Contend(i, u) ==
    contended' =
        IF \/ \E j \in Instances \ {i} : work[j].user = u
           \/ \E r \in pending : r.user = u
        THEN contended \union {u} ELSE contended

Release(i) == work' = [work EXCEPT ![i] = Idle]

Send(u, ids, create, i) ==
    pending' = pending \union
        {[user |-> u, ids |-> ids, create |-> create, from |-> i]}

-----------------------------------------------------------------------------
(* Requests. *)

\* check_registration_request.
Register(i, u) ==
    /\ Free(i)
    /\ ~disableAuth
    /\ Send(u, {}, TRUE, i)
    /\ work' = [work EXCEPT ![i] = [Idle EXCEPT !.pc = "creating", !.user = u]]
    /\ Contend(i, u)
    /\ UNCHANGED <<disableAuth, now, service, clients>>

\* check_auth_request, up to read_user.  Without a users service every login
\* is answered at once.
Login(i, u, c) ==
    /\ Free(i)
    /\ IF disableAuth
       THEN /\ Mint(u, c, 0)
            /\ Authorize(i, c, Len(tokens'))
            /\ given' = given \union {Len(tokens')}
            /\ UNCHANGED work
       ELSE /\ work' = [work EXCEPT ![i] = [Idle EXCEPT !.pc = "reading",
                                                !.user = u, !.client = c]]
            /\ UNCHANGED clients
    /\ Contend(i, u)
    /\ UNCHANGED <<disableAuth, now, service, pending>>

\* check_refresh_request with a pair the client holds: the new pair is made
\* before the user is read.  All that is asked of the old one is that its
\* refresh token has not expired.
CanRefresh(id) == id \in given /\ now < RefreshExp(id)

Refresh(i, id) ==
    LET u == tokens[id].user
        c == tokens[id].client
    IN /\ Free(i)
       /\ CanRefresh(id)
       /\ Mint(u, c, id)
       /\ IF disableAuth
          THEN /\ Authorize(i, c, Len(tokens'))
               /\ given' = given \union {Len(tokens')}
               /\ UNCHANGED work
          ELSE /\ work' = [work EXCEPT ![i] =
                      [pc |-> "reading", user |-> u, client |-> c,
                       id |-> Len(tokens'), parent |-> id]]
               /\ UNCHANGED <<given, authorized>>
       /\ Contend(i, u)
       /\ UNCHANGED <<disableAuth, now, service, pending>>

\* validate_auth: a token that is accepted is noted as its client's.
Validate(i, id) ==
    /\ Free(i)
    /\ ~disableAuth
    /\ id \in given
    /\ now < AccessExp(id)
    /\ Authorize(i, tokens[id].client, id)
    /\ UNCHANGED <<disableAuth, now, service, pending, tokens, given, requests>>

-----------------------------------------------------------------------------
(* The two exchanges with the users service. *)

\* Mutant: an unknown user is read as a new one.
AnyUser(u) == TRUE

\* The service finds the user and the credentials right.
CanRead(u) == u \in registered

\* Mutants of AppendToken: the list is replaced; the wrong id is appended.
OnlyToken(u, id) == {id}
NextToken(u, id) == stored[u] \union {id + 1}

\* _add_token_to_userdb: the new id is never in the list, nothing is removed.
AppendToken(u, id) == stored[u] \union {id}

\* read_user answers; a login now makes its pair and notes it as authorized;
\* then update_user is sent with the whole user.
ReadUser(i) ==
    LET u == work[i].user
        c == work[i].client
    IN /\ work[i].pc = "reading"
       /\ CanRead(u)
       /\ IF work[i].parent = 0
          THEN /\ Mint(u, c, 0)
               /\ Authorize(i, c, Len(tokens'))
               /\ work' = [work EXCEPT ![i].pc = "updating", ![i].id = Len(tokens')]
               /\ Send(u, AppendToken(u, Len(tokens')), FALSE, i)
          ELSE /\ work' = [work EXCEPT ![i].pc = "updating"]
               /\ Send(u, AppendToken(u, work[i].id), FALSE, i)
               /\ UNCHANGED <<tokens, authorized>>
       /\ UNCHANGED <<disableAuth, now, service, given, contended>>

\* read_user fails: unknown user, bad credentials, or no password_hash.
ReadFails(i) ==
    /\ work[i].pc = "reading"
    /\ Release(i)
    /\ UNCHANGED <<disableAuth, now, service, pending, clients, contended>>

\* The users service creates a new user, or replaces the one it has.
Apply(r) ==
    /\ r \in pending
    /\ r.create <=> r.user \notin registered
    /\ registered' = registered \union {r.user}
    /\ stored' = [stored EXCEPT ![r.user] = r.ids]
    /\ pending' = pending \ {r}
    /\ IF r.from = None
       THEN UNCHANGED work
       ELSE work' = [work EXCEPT ![r.from].pc = "answered"]
    /\ UNCHANGED <<disableAuth, now, clients, contended>>

\* The users service refuses the write: the request fails.
Refuse(r) ==
    /\ r \in pending
    /\ pending' = pending \ {r}
    /\ IF r.from = None THEN UNCHANGED work ELSE Release(r.from)
    /\ UNCHANGED <<disableAuth, now, service, clients, contended>>

\* The write is acknowledged: the client has its answer.
Answer(i) ==
    LET w == work[i]
    IN /\ w.pc = "answered"
       /\ Release(i)
       /\ given' = IF w.id = 0 THEN given ELSE given \union {w.id}
       /\ IF w.parent = 0 THEN UNCHANGED authorized ELSE Authorize(i, w.client, w.id)
       /\ UNCHANGED <<disableAuth, now, service, pending, tokens, contended>>

\* send_mq_request gives up: the request fails, what was sent stays sent.
TimeOut(i) ==
    /\ work[i].pc \in Waiting
    /\ Release(i)
    /\ pending' = {IF r.from = i THEN [r EXCEPT !.from = None] ELSE r : r \in pending}
    /\ UNCHANGED <<disableAuth, now, service, clients, contended>>

Tick ==
    /\ now < MaxTime
    /\ now' = now + 1
    /\ UNCHANGED <<disableAuth, service, pending, clients, requests>>

-----------------------------------------------------------------------------
Next ==
    \/ \E i \in Instances :
          \/ \E u \in Users : Register(i, u) \/ \E c \in Clients : Login(i, u, c)
          \/ \E id \in 1..Len(tokens) : Refresh(i, id) \/ Validate(i, id)
          \/ ReadUser(i) \/ ReadFails(i) \/ Answer(i) \/ TimeOut(i)
    \/ \E r \in pending : Apply(r) \/ Refuse(r)
    \/ Tick

Spec == Init /\ [][Next]_vars

-----------------------------------------------------------------------------
\* The refresh token of every pair a client received is in the token list of
\* its user, as long as no two requests worked on that user at once: neither
\* time-outs nor requests for other users remove it.
UncontendedIsStored ==
    ~disableAuth =>
        \A id \in given :
            tokens[id].user \notin contended => id \in stored[tokens[id].user]

\* A pair, which is valid by its signature alone, is only made for a user the
\* users service knows, and is only listed with that user, even when writes
\* arrive late and out of order.
TokensHaveUsers ==
    ~disableAuth =>
        /\ \A id \in 1..Len(tokens) : tokens[id].user \in registered
        /\ \A u \in Users : \A id \in stored[u] : tokens[id].user = u

\* The users whose requests have come one after the other so far; without a
\* users service there is nothing to keep.
Kept == IF disableAuth THEN {} ELSE Users \ contended

Lists == [u \in Kept |-> stored[u]]
Handed == [u \in Kept |-> {id \in given : tokens[id].user = u}]

\* For them the lists and the answers do what TokenStore promises, whatever
\* is given up, refused or late, and whatever happens to other users.
Store == INSTANCE TokenStore WITH
    Ids <- 1..MaxTokens, lists <- Lists, handed <- Handed

KeepsTokenStore == Store!Spec

-----------------------------------------------------------------------------
(* What the docs promise and the code does not keep. *)

\* A refresh token is used at most once.
RefreshOnce ==
    \A a, b \in given :
        tokens[a].parent = tokens[b].parent => a = b \/ tokens[a].parent = 0
=============================================================================
