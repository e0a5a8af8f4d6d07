---------------------------- MODULE RateLimiter ----------------------------
(***************************************************************************)
(* The rate limits of auth/client_manager.py: one token bucket per origin  *)
(* and class of request, made by the first request it limits.  The bucket  *)
(* is the token_throttler library's: full when made, and filled up again   *)
(* by the first request that comes replenish_time after the last filling.  *)
(* Time is counted in ticks, Second of them to a second.                   *)
(***************************************************************************)
EXTENDS Integers, Sequences

CONSTANTS
    Origins,        \* IP addresses; client_ids for Node sockets
    Limits,         \* the configurations: how many requests of each class
    Period,         \* Period[k]: its replenish_time, in ticks
    Second,         \* ticks per second
    MaxTime,        \* bound on the clock
    MaxPassed,      \* bound on the requests let through for an origin and class
    None

Classes == {"auth", "register", "total"}

ASSUME LimitsAssumption ==
    /\ Limits \subseteq [Classes -> Int]
    /\ \A limit \in Limits : limit["auth"] > 0 /\ limit["register"] > 0
    /\ Period \in [Classes -> Nat \ {0}]
    /\ Second \in Nat \ {0}
    /\ MaxTime \in Nat /\ MaxPassed \in Nat
    /\ None \notin Int

VARIABLES
    max,            \* max[k]: the configured limit of class k
    now,            \* time(), in ticks
    bucket,         \* bucket[o][k]: tokens left and time of the last filling
    passed,         \* passed[o][k]: the ticks at which requests were let through
    retryAt         \* retryAt[o][k]: when the last refusal said to come back

vars == <<max, now, bucket, passed, retryAt>>

NoBucket == [tokens |-> 0, filled |-> None]

TypeOK ==
    /\ max \in Limits
    /\ now \in 0..MaxTime
    /\ \A o \in Origins, k \in Classes :
          /\ bucket[o][k].tokens \in Nat
          /\ bucket[o][k].tokens > 0 => bucket[o][k].tokens <= max[k]
          /\ bucket[o][k].filled \in 0..now \union {None}
          /\ passed[o][k] \in Seq(0..now) /\ Len(passed[o][k]) <= MaxPassed
          /\ retryAt[o][k] \in Nat \union {None}

Init ==
    /\ max \in Limits
    /\ now = 0
    /\ bucket = [o \in Origins |-> [k \in Classes |-> NoBucket]]
    /\ passed = [o \in Origins |-> [k \in Classes |-> <<>>]]
    /\ retryAt = [o \in Origins |-> [k \in Classes |-> None]]

\* validate_auth skips the bucket when requests_per_minute is not positive.
Limited(k) == k = "total" => max[k] > 0

\* Mutants: every request finds a full bucket; a filling is dated with the next;
\* it comes a tick late.
Refilled(b, k) == [tokens |-> max[k], filled |-> now]
NextFilling(b, k) ==
    IF b.filled = None \/ now >= b.filled
    THEN [tokens |-> max[k], filled |-> now + Period[k]]
    ELSE b

LateFilling(b, k) ==
    IF b.filled = None \/ now > b.filled + Period[k]
    THEN [tokens |-> max[k], filled |-> now]
    ELSE b

\* The bucket a request finds: a new one, one filled up again, or as it was.
Filled(b, k) ==
    IF b.filled = None \/ now >= b.filled + Period[k]
    THEN [tokens |-> max[k], filled |-> now]
    ELSE b

\* Mutant: half of the wait is announced.
HalfWait(ticks) == ticks \div (2 * Second)

\* Python's round() of ticks / Second: to the nearest, halves to even.
Round(ticks) ==
    LET q == ticks \div Second
        r == ticks % Second
    IN  IF 2 * r > Second \/ (2 * r = Second /\ q % 2 = 1) THEN q + 1 ELSE q

LetThrough(o, k) ==
    /\ Len(passed[o][k]) < MaxPassed
    /\ passed' = [passed EXCEPT ![o][k] = Append(@, now)]
    /\ retryAt' = [retryAt EXCEPT ![o][k] = None]

\* A request of class k from o that finds a token.
Accept(o, k) ==
    LET b == Filled(bucket[o][k], k)
    IN /\ Limited(k)
       /\ b.tokens > 0
       /\ bucket' = [bucket EXCEPT ![o][k] = [b EXCEPT !.tokens = @ - 1]]
       /\ LetThrough(o, k)
       /\ UNCHANGED <<max, now>>

\* One that finds none is told to wait for the next filling, in seconds.
Refuse(o, k) ==
    LET b == Filled(bucket[o][k], k)
    IN /\ Limited(k)
       /\ b.tokens = 0
       /\ retryAt' = [retryAt EXCEPT
              ![o][k] = now + Second * Round(b.filled + Period[k] - now)]
       /\ UNCHANGED <<max, now, bucket, passed>>

\* Without a limit the bucket is made and never used.
AcceptUnlimited(o, k) ==
    /\ ~Limited(k)
    /\ bucket' = [bucket EXCEPT ![o][k].filled = IF @ = None THEN now ELSE @]
    /\ LetThrough(o, k)
    /\ UNCHANGED <<max, now>>

Tick ==
    /\ now < MaxTime
    /\ now' = now + 1
    /\ UNCHANGED <<max, bucket, passed, retryAt>>

Next ==
    \/ \E o \in Origins, k \in Classes :
          Accept(o, k) \/ Refuse(o, k) \/ AcceptUnlimited(o, k)
    \/ Tick

Spec == Init /\ [][Next]_vars

-----------------------------------------------------------------------------
\* Whatever the timing of the requests, two buckets and one request more never
\* pass within replenish_time: one filling's tokens may be spent at its end,
\* the next filling's at once, but no third filling comes that soon.
SlidingBound ==
    \A o \in Origins, k \in Classes :
        Limited(k) =>
            \A i \in 1..(Len(passed[o][k]) - 2 * max[k]) :
                passed[o][k][i + 2 * max[k]] > passed[o][k][i] + Period[k]

\* A request of class k from o would be refused now.
Refused(o, k) == Limited(k) /\ Filled(bucket[o][k], k).tokens = 0

\* Nobody who keeps to the configured limit is refused: when a request is, as
\* many as the limit allows have passed since less than replenish_time.
RefusedOnlyWhenSpent ==
    \A o \in Origins, k \in Classes :
        Refused(o, k) =>
            LET n == Len(passed[o][k])
            IN /\ n >= max[k]
               /\ passed[o][k][n - max[k] + 1] > now - Period[k]

\* The announced wait is rounded to seconds.  A client that waits as long as it
\* is told, and half a second more, is only refused again if another request
\* of its origin took the tokens of a later filling.
RefusedAgain(o, k) ==
    /\ retryAt[o][k] # None
    /\ retryAt'[o][k] \notin {None, retryAt[o][k]}

WaitIsNearlyEnough ==
    [][\A o \in Origins, k \in Classes :
         RefusedAgain(o, k) => 2 * now <= 2 * retryAt[o][k] + Second]_vars
=============================================================================
