------------------------- MODULE RateLimiterProofs --------------------------
(***************************************************************************)
(* Theorems about RateLimiter, for any origins, limits and periods: types, *)
(* how much passes within a period, who is refused, and how wrong the      *)
(* announced wait can be.                                                  *)
(***************************************************************************)
EXTENDS RateLimiter, TLAPS

\* What TypeOK says of the values, with the shape of the functions.
Buckets == [tokens: Nat, filled: Int \union {None}]

Shape ==
    /\ max \in Limits
    /\ now \in 0..MaxTime
    /\ bucket \in [Origins -> [Classes -> Buckets]]
    /\ passed \in [Origins -> [Classes -> Seq(Int)]]
    /\ retryAt \in [Origins -> [Classes -> Nat \union {None}]]

\* The tokens of a bucket of l that its last filling lost.
Used(b, l) == l - b.tokens

(***************************************************************************)
(* At time t, a bucket b of l tokens with replenish_time d, and the        *)
(* requests p that passed it.  As many as tokens were used passed since    *)
(* the last filling, and before its period was over; at most l of the      *)
(* others since the filling before that, which was d earlier or more.      *)
(***************************************************************************)
Explains(b, p, l, d, t) ==
    /\ b.filled = None => b.tokens = 0 /\ p = <<>>
    /\ b.filled # None =>
          /\ 0 <= b.filled /\ b.filled <= t
          /\ b.tokens <= l
          /\ Used(b, l) <= Len(p)
          /\ \A i \in 1..Len(p) :
                IF i > Len(p) - Used(b, l)
                THEN b.filled <= p[i] /\ p[i] < b.filled + d
                ELSE p[i] < b.filled
          /\ \A i \in 1..(Len(p) - Used(b, l) - l) : p[i] + d < b.filled

\* A bucket without a limit is made, and never used.
Unused(b) == b.tokens = 0 /\ b.filled \in 0..now \union {None}

\* What passed, as the history records it.
Recorded(p) == p \in Seq(0..now) /\ Len(p) <= MaxPassed

\* SlidingBound of one sequence of requests.
Slides(p, l, d) == \A i \in 1..(Len(p) - 2 * l) : p[i + 2 * l] > p[i] + d

\* A client that was told to come back at time r still faces the empty bucket
\* it was refused by, and r is at most half a second before its next filling.
Announced(b, r, k) ==
    r # None =>
        /\ Limited(k)
        /\ b.filled # None
        /\ b.tokens = 0
        /\ 2 * r + Second >= 2 * (b.filled + Period[k])

Good(b, p, r, k) ==
    /\ Recorded(p)
    /\ Limited(k) => /\ Explains(b, p, max[k], Period[k], now)
                     /\ Slides(p, max[k], Period[k])
    /\ ~Limited(k) => Unused(b)
    /\ Announced(b, r, k)

Inv ==
    /\ Shape
    /\ \A o \in Origins, k \in Classes :
          Good(bucket[o][k], passed[o][k], retryAt[o][k], k)

-----------------------------------------------------------------------------
\* Limits are numbers, and those that limit are positive.
LEMMA LimitsAreTyped ==
    ASSUME max \in Limits, NEW k \in Classes
    PROVE  max[k] \in Int /\ Period[k] \in Nat \ {0} /\ (Limited(k) => max[k] > 0)
BY LimitsAssumption DEF Classes, Limited

\* The announced wait is a whole number of seconds, and at most half a second
\* too short.
LEMMA RoundIsNear ==
    ASSUME NEW t \in Nat
    PROVE  Round(t) \in Nat /\ 2 * (Second * Round(t)) + Second >= 2 * t
<1> DEFINE q == t \div Second
           r == t % Second
<1>1. /\ q \in Nat /\ r \in 0..(Second - 1) /\ t = Second * q + r
      /\ Second \in Nat \ {0}
  BY LimitsAssumption
<1>2. Second * (q + 1) = Second * q + Second
  BY <1>1
<1>3. Second * q \in Nat
  BY <1>1
<1> HIDE DEF q, r
<1>4. CASE 2 * r > Second
  <2>1. Round(t) = q + 1
    BY <1>4 DEF Round, q, r
  <2> QED BY <2>1, <1>1, <1>2, <1>3
<1>5. CASE 2 * r <= Second
  <2>1. Round(t) \in {q, q + 1}
    BY DEF Round, q, r
  <2> QED BY <2>1, <1>5, <1>1, <1>2, <1>3
<1> QED BY <1>4, <1>5, <1>1

-----------------------------------------------------------------------------
\* The bucket a request finds at time t: Filled, as a function of its values.
Found(b, l, d, t) ==
    IF b.filled = None \/ t >= b.filled + d THEN [tokens |-> l, filled |-> t] ELSE b

Spend(b) == [b EXCEPT !.tokens = @ - 1]

\* A token is spent: the request is of the filling its bucket has now.
LEMMA SpendExplained ==
    ASSUME NEW l \in Nat \ {0}, NEW d \in Nat \ {0}, NEW t \in Nat,
           NEW b \in Buckets, NEW p \in Seq(Int),
           Explains(b, p, l, d, t), Found(b, l, d, t).tokens > 0
    PROVE  Explains(Spend(Found(b, l, d, t)), Append(p, t), l, d, t)
<1>0. PICK q : q = Append(p, t)
  OBVIOUS
<1>1. /\ q \in Seq(Int) /\ Len(q) = Len(p) + 1 /\ q[Len(p) + 1] = t
      /\ \A i \in 1..Len(p) : q[i] = p[i]
      /\ \A i \in 1..Len(p) : p[i] \in Int
      /\ Len(p) \in Nat
  BY <1>0
<1>2. CASE b.filled = None
  <2>1. Spend(Found(b, l, d, t)) = [tokens |-> l - 1, filled |-> t]
    BY <1>2 DEF Spend, Found
  <2>2. Len(p) = 0
    BY <1>2 DEF Explains
  <2>3. t # None
    BY LimitsAssumption
  <2>4. \A i \in 1..Len(q) : i = 1 /\ q[i] = t
    BY <2>2, <1>1
  <2> QED BY <2>1, <2>2, <2>3, <2>4, <1>1, <1>0 DEF Explains, Used
<1>3. CASE b.filled # None /\ t >= b.filled + d
  <2>1. Spend(Found(b, l, d, t)) = [tokens |-> l - 1, filled |-> t]
    BY <1>3 DEF Spend, Found
  <2>2. /\ t # None /\ b.filled \in Int /\ b.tokens \in Nat
        /\ Used(b, l) \in Nat /\ Used(b, l) <= l /\ Used(b, l) <= Len(p)
    BY <1>1, <1>3, LimitsAssumption DEF Explains, Used, Buckets
  <2>3. ASSUME NEW i \in 1..Len(p)
        PROVE  /\ p[i] \in Int /\ q[i] = p[i]
               /\ p[i] < b.filled + d
               /\ i <= Len(p) - l => p[i] < b.filled
    <3>1. i > Len(p) - Used(b, l) => p[i] < b.filled + d
      BY <1>3 DEF Explains
    <3>2. ~(i > Len(p) - Used(b, l)) => p[i] < b.filled
      BY <1>3 DEF Explains
    <3>3. p[i] \in Int /\ q[i] = p[i] /\ Len(p) \in Nat
      BY <1>1
    <3>4. p[i] < b.filled => p[i] < b.filled + d
      BY <2>2, <3>3
    <3>5. i <= Len(p) - l => ~(i > Len(p) - Used(b, l))
      BY <2>2, <3>3
    <3> QED BY <3>1, <3>2, <3>3, <3>4, <3>5
  <2>4. ASSUME NEW i \in 1..Len(q)
        PROVE  IF i > Len(p) THEN q[i] = t ELSE q[i] < t
    <3>1. CASE i > Len(p)
      BY <3>1, <1>1
    <3>2. CASE i \in 1..Len(p)
      BY <3>2, <2>2, <2>3, <1>3
    <3> QED BY <3>1, <3>2, <1>1
  <2>5. ASSUME NEW i \in 1..(Len(p) - l)
        PROVE  q[i] + d < t
    <3>1. i \in 1..Len(p) /\ i <= Len(p) - l
      BY <1>1
    <3> QED BY <3>1, <2>2, <2>3, <1>3
  <2>6. PICK c : c = Spend(Found(b, l, d, t))
    OBVIOUS
  <2>7. c.filled = t /\ c.tokens = l - 1 /\ Used(c, l) = 1
    BY <2>1, <2>6 DEF Used
  <2>8. /\ Used(c, l) <= Len(q)
        /\ Len(q) - Used(c, l) = Len(p)
        /\ t < t + d
    BY <2>7, <1>1
  <2>9. \A i \in 1..Len(q) :
           IF i > Len(q) - Used(c, l) THEN t <= q[i] /\ q[i] < t + d ELSE q[i] < t
    BY <2>4, <2>8
  <2>10. \A i \in 1..(Len(q) - Used(c, l) - l) : q[i] + d < t
    BY <2>5, <2>8
  <2>11. Explains(c, q, l, d, t)
    BY <2>2, <2>7, <2>8, <2>9, <2>10 DEF Explains
  <2> QED BY <2>6, <2>11, <1>0
<1>4. CASE b.filled # None /\ ~(t >= b.filled + d)
  <2>1. /\ b.filled \in Int /\ b.tokens \in Nat /\ b.tokens > 0
        /\ Spend(Found(b, l, d, t)).tokens = b.tokens - 1
        /\ Spend(Found(b, l, d, t)).filled = b.filled
    BY <1>4 DEF Spend, Found, Buckets
  <2>2. PICK c : c = Spend(Found(b, l, d, t))
    OBVIOUS
  <2>3. /\ Used(b, l) <= Len(p) /\ b.tokens <= l /\ 0 <= b.filled /\ b.filled <= t
        /\ \A i \in 1..Len(p) :
              IF i > Len(p) - Used(b, l)
              THEN b.filled <= p[i] /\ p[i] < b.filled + d
              ELSE p[i] < b.filled
        /\ \A i \in 1..(Len(p) - Used(b, l) - l) : p[i] + d < b.filled
    BY <1>4 DEF Explains
  <2>4. /\ Used(b, l) \in Nat /\ Used(c, l) = Used(b, l) + 1
        /\ c.filled = b.filled /\ c.tokens = b.tokens - 1
    BY <2>1, <2>2, <2>3 DEF Used
  <2>5. /\ Len(q) - Used(c, l) = Len(p) - Used(b, l)
        /\ Used(c, l) <= Len(q) /\ c.tokens <= l
    BY <2>1, <2>3, <2>4, <1>1
  <2>6. ASSUME NEW i \in 1..Len(q)
        PROVE  IF i > Len(q) - Used(c, l)
               THEN c.filled <= q[i] /\ q[i] < c.filled + d
               ELSE q[i] < c.filled
    <3>1. CASE i \in 1..Len(p)
      BY <3>1, <2>3, <2>4, <2>5, <1>1
    <3>2. CASE i = Len(p) + 1
      <4>1. q[i] = t /\ i > Len(q) - Used(c, l)
        BY <3>2, <2>4, <2>5, <1>1
      <4> QED BY <4>1, <2>1, <2>3, <2>4, <1>4
    <3> QED BY <3>1, <3>2, <1>1
  <2>7. ASSUME NEW i \in 1..(Len(q) - Used(c, l) - l)
        PROVE  q[i] + d < c.filled
    <3>1. i \in 1..(Len(p) - Used(b, l) - l) /\ i \in 1..Len(p)
      BY <2>3, <2>4, <2>5, <1>1
    <3>2. p[i] + d < b.filled /\ q[i] = p[i]
      BY <3>1, <2>3, <1>1
    <3> QED BY <3>2, <2>4
  <2>8. Explains(c, q, l, d, t)
    BY <2>3, <2>4, <2>5, <2>6, <2>7, <1>4 DEF Explains
  <2> QED BY <2>2, <2>8, <1>0
<1> QED BY <1>2, <1>3, <1>4

\* Two buckets earlier was before the last filling but one.
LEMMA SpendSlides ==
    ASSUME NEW l \in Nat \ {0}, NEW d \in Nat \ {0}, NEW t \in Nat,
           NEW b \in Buckets, NEW p \in Seq(Int), Slides(p, l, d),
           b.filled # None, Explains(b, Append(p, t), l, d, t)
    PROVE  Slides(Append(p, t), l, d)
<1>0. PICK q : q = Append(p, t)
  OBVIOUS
<1>1. /\ Len(q) = Len(p) + 1 /\ q[Len(p) + 1] = t
      /\ \A i \in 1..Len(p) : q[i] = p[i]
      /\ \A i \in 1..Len(p) : p[i] \in Int
      /\ Len(p) \in Nat
  BY <1>0
<1>2. /\ b.filled \in Int /\ b.tokens \in Nat /\ b.filled <= t
      /\ \A i \in 1..(Len(q) - Used(b, l) - l) : q[i] + d < b.filled
  BY <1>0 DEF Explains, Buckets
<1>3. SUFFICES ASSUME NEW i \in 1..(Len(q) - 2 * l)
               PROVE  q[i + 2 * l] > q[i] + d
  BY <1>0 DEF Slides
<1>4. CASE i + 2 * l <= Len(p)
  <2>1. i \in 1..(Len(p) - 2 * l) /\ i \in 1..Len(p) /\ i + 2 * l \in 1..Len(p)
    BY <1>4, <1>1
  <2>2. p[i + 2 * l] > p[i] + d
    BY <2>1 DEF Slides
  <2> QED BY <2>1, <2>2, <1>1
<1>5. CASE i + 2 * l = Len(p) + 1
  <2>1. i \in 1..(Len(q) - Used(b, l) - l) /\ i \in 1..Len(p)
    BY <1>5, <1>1, <1>2 DEF Used
  <2>2. q[i + 2 * l] = t /\ q[i] + d < b.filled /\ q[i] \in Int
    BY <2>1, <1>1, <1>2, <1>5
  <2> QED BY <2>2, <1>2
<1>6. i + 2 * l <= Len(p) \/ i + 2 * l = Len(p) + 1
  BY <1>1
<1> QED BY <1>4, <1>5, <1>6

\* Who finds no token comes within a period of as many requests as there were.
LEMMA NoTokenMeansSpent ==
    ASSUME NEW l \in Nat \ {0}, NEW d \in Nat \ {0}, NEW t \in Nat,
           NEW b \in Buckets, NEW p \in Seq(Int),
           Explains(b, p, l, d, t), Found(b, l, d, t).tokens = 0
    PROVE  /\ b.filled # None /\ t < b.filled + d /\ b.tokens = 0
           /\ Len(p) >= l /\ p[Len(p) - l + 1] > t - d
<1>1. b.filled # None /\ t < b.filled + d /\ b.tokens = 0 /\ b.filled \in Int
  BY DEF Found, Buckets
<1>2. Len(p) >= l /\ Len(p) \in Nat
  BY <1>1 DEF Explains, Used
<1>3. Len(p) - l + 1 \in 1..Len(p)
  BY <1>2
<1>4. b.filled <= p[Len(p) - l + 1] /\ p[Len(p) - l + 1] \in Int
  <2>1. \A i \in 1..Len(p) : p[i] \in Int /\ (i > Len(p) - l => b.filled <= p[i])
    BY <1>1, <1>2 DEF Explains, Used
  <2> QED BY <2>1, <1>2, <1>3
<1> QED BY <1>1, <1>2, <1>4

\* Nothing a bucket is explained by becomes wrong by waiting.
LEMMA WaitExplained ==
    ASSUME NEW l \in Nat \ {0}, NEW d \in Nat \ {0}, NEW t \in Nat,
           NEW b \in Buckets, NEW p \in Seq(Int), Explains(b, p, l, d, t)
    PROVE  Explains(b, p, l, d, t + 1)
BY DEF Explains, Buckets

-----------------------------------------------------------------------------
LEMMA FilledIsFound ==
    ASSUME NEW b, NEW k
    PROVE  Filled(b, k) = Found(b, max[k], Period[k], now)
BY DEF Filled, Found

LEMMA FoundIsBucket ==
    ASSUME NEW l \in Nat, NEW d, NEW t \in Nat, NEW b \in Buckets
    PROVE  Found(b, l, d, t) \in Buckets
BY DEF Found, Buckets

\* The state of origin o and class k becomes b, p and r, all others stay.
Becomes(o, k, b, p, r) ==
    /\ UNCHANGED <<max, now>>
    /\ bucket' = [bucket EXCEPT ![o] = [@ EXCEPT ![k] = b]]
    /\ passed' = [passed EXCEPT ![o] = [@ EXCEPT ![k] = p]]
    /\ retryAt' = [retryAt EXCEPT ![o] = [@ EXCEPT ![k] = r]]

\* A step that leaves one bucket good leaves them all good.
LEMMA OneBucket ==
    ASSUME Inv, NEW o \in Origins, NEW k \in Classes,
           NEW b \in Buckets, NEW p \in Seq(Int), NEW r \in Nat \union {None},
           Becomes(o, k, b, p, r), Good(b, p, r, k)
    PROVE  Inv'
<1>1. Shape'
  BY DEF Inv, Shape, Becomes
<1>2. ASSUME NEW q \in Origins, NEW j \in Classes
      PROVE  \/ /\ bucket'[q][j] = bucket[q][j] /\ passed'[q][j] = passed[q][j]
                /\ retryAt'[q][j] = retryAt[q][j]
             \/ /\ j = k
                /\ bucket'[q][j] = b /\ passed'[q][j] = p /\ retryAt'[q][j] = r
  BY DEF Inv, Shape, Becomes
<1>3. ASSUME NEW q \in Origins, NEW j \in Classes
      PROVE  Good(bucket[q][j], passed[q][j], retryAt[q][j], j)'
  <2>1. \/ Good(bucket'[q][j], passed'[q][j], retryAt'[q][j], j)
    BY <1>2 DEF Inv
  <2>2. max' = max /\ now' = now
    BY DEF Becomes
  <2> QED BY <2>1, <2>2 DEF Good, Recorded, Unused, Announced, Limited
<1> QED BY <1>1, <1>3 DEF Inv

LEMMA InvInit == Init => Inv
<1> SUFFICES ASSUME Init PROVE Inv
  OBVIOUS
<1>1. Shape
  BY LimitsAssumption DEF Init, Shape, Buckets, NoBucket
<1>2. ASSUME NEW o \in Origins, NEW k \in Classes
      PROVE  Good(bucket[o][k], passed[o][k], retryAt[o][k], k)
  <2>1. /\ bucket[o][k] = NoBucket /\ passed[o][k] = <<>> /\ retryAt[o][k] = None
        /\ max[k] \in Int
    BY LimitsAreTyped DEF Init
  <2>2. Recorded(<<>>)
    BY LimitsAssumption DEF Recorded
  <2>3. Explains(NoBucket, <<>>, max[k], Period[k], now)
    BY DEF Explains, NoBucket
  <2>4. Limited(k) => Slides(<<>>, max[k], Period[k])
    BY LimitsAreTyped DEF Slides, Init
  <2>5. Unused(NoBucket) /\ Announced(NoBucket, None, k)
    BY DEF Unused, NoBucket, Announced
  <2> QED BY <2>1, <2>2, <2>3, <2>4, <2>5 DEF Good
<1> QED BY <1>1, <1>2 DEF Inv

LEMMA AcceptInv ==
    ASSUME Inv, NEW o \in Origins, NEW k \in Classes, Accept(o, k)
    PROVE  Inv'
<1>1. PICK b, p, c : b = bucket[o][k] /\ p = passed[o][k] /\ c = Filled(b, k)
  OBVIOUS
<1>2. /\ b \in Buckets /\ p \in Seq(Int) /\ now \in Nat /\ Limited(k)
      /\ max[k] \in Nat \ {0} /\ Period[k] \in Nat \ {0}
      /\ Recorded(p) /\ Explains(b, p, max[k], Period[k], now)
      /\ Slides(p, max[k], Period[k])
  BY <1>1, LimitsAreTyped, LimitsAssumption DEF Inv, Shape, Good, Accept
<1>3. /\ c = Found(b, max[k], Period[k], now) /\ c.tokens > 0
      /\ c \in Buckets
  BY <1>1, <1>2, FilledIsFound, FoundIsBucket DEF Accept
<1>4. Spend(c) \in Buckets /\ Spend(c).filled = c.filled
  BY <1>3 DEF Spend, Buckets
<1>5. Explains(Spend(c), Append(p, now), max[k], Period[k], now)
  BY <1>2, <1>3, SpendExplained
<1>6. c.filled # None
  BY <1>3, <1>2, LimitsAssumption DEF Found
<1>7. Slides(Append(p, now), max[k], Period[k])
  BY <1>2, <1>4, <1>5, <1>6, SpendSlides
<1>8. Len(p) < MaxPassed
  BY <1>1 DEF Accept, LetThrough
<1>9. Append(p, now) \in Seq(Int) /\ Recorded(Append(p, now))
  BY <1>2, <1>8, LimitsAssumption DEF Recorded
<1>10. Becomes(o, k, Spend(c), Append(p, now), None)
  BY <1>1 DEF Becomes, Accept, LetThrough, Spend, Inv, Shape
<1>11. Good(Spend(c), Append(p, now), None, k)
  BY <1>2, <1>5, <1>7, <1>9 DEF Good, Announced
<1> QED BY <1>4, <1>9, <1>10, <1>11, OneBucket

LEMMA RefuseInv ==
    ASSUME Inv, NEW o \in Origins, NEW k \in Classes, Refuse(o, k)
    PROVE  Inv'
<1>1. PICK b, p, r :
         /\ b = bucket[o][k] /\ p = passed[o][k]
         /\ r = now + Second * Round(b.filled + Period[k] - now)
  OBVIOUS
<1>2. /\ b \in Buckets /\ p \in Seq(Int) /\ now \in Nat /\ Limited(k)
      /\ max[k] \in Nat \ {0} /\ Period[k] \in Nat \ {0}
      /\ Explains(b, p, max[k], Period[k], now)
      /\ Good(b, p, retryAt[o][k], k)
  BY <1>1, LimitsAreTyped, LimitsAssumption DEF Inv, Shape, Good, Refuse
<1>3. /\ Found(b, max[k], Period[k], now).tokens = 0
      /\ Filled(b, k) = Found(b, max[k], Period[k], now)
  BY <1>1, FilledIsFound DEF Refuse
<1>4. b.filled # None /\ now < b.filled + Period[k] /\ b.tokens = 0
  BY <1>2, <1>3, NoTokenMeansSpent
<1>5. Filled(b, k) = b /\ b.filled \in Int
  BY <1>2, <1>3, <1>4 DEF Found, Buckets
<1>6. PICK t \in Nat : t = b.filled + Period[k] - now
  BY <1>2, <1>4, <1>5
<1>7. r \in Nat /\ 2 * r + Second >= 2 * (b.filled + Period[k])
  <2>1. PICK w \in Nat : w = Second * Round(t)
    BY RoundIsNear, LimitsAssumption
  <2>2. 2 * w + Second >= 2 * t
    BY <2>1, RoundIsNear
  <2>3. r = now + w
    BY <1>1, <1>6, <2>1
  <2>4. PICK next \in Int : next = b.filled + Period[k]
    BY <1>2, <1>5
  <2>5. /\ now \in Nat /\ Second \in Nat /\ b.filled \in Int /\ Period[k] \in Nat
    BY <1>2, <1>5, LimitsAssumption
  <2>6. next = t + now
    BY <1>6, <2>4, <2>5
  <2>7. r \in Nat /\ 2 * r + Second >= 2 * next
    BY <2>1, <2>2, <2>3, <2>5, <2>6
  <2> QED BY <2>4, <2>7
<1>8. Becomes(o, k, b, p, r)
  BY <1>1, <1>5 DEF Becomes, Refuse, Inv, Shape
<1>9. Good(b, p, r, k)
  BY <1>2, <1>4, <1>7 DEF Good, Announced
<1> QED BY <1>2, <1>7, <1>8, <1>9, OneBucket

LEMMA AcceptUnlimitedInv ==
    ASSUME Inv, NEW o \in Origins, NEW k \in Classes, AcceptUnlimited(o, k)
    PROVE  Inv'
<1>1. PICK b, p, c :
         /\ b = bucket[o][k] /\ p = passed[o][k]
         /\ c = [b EXCEPT !.filled = IF @ = None THEN now ELSE @]
  OBVIOUS
<1>2. /\ b \in Buckets /\ p \in Seq(Int) /\ now \in 0..MaxTime /\ ~Limited(k)
      /\ Recorded(p) /\ Unused(b)
  BY <1>1 DEF Inv, Shape, Good, AcceptUnlimited
<1>3. c \in Buckets /\ Unused(c)
  BY <1>1, <1>2, LimitsAssumption DEF Buckets, Unused
<1>4. Append(p, now) \in Seq(Int) /\ Recorded(Append(p, now))
  BY <1>1, <1>2, LimitsAssumption DEF Recorded, AcceptUnlimited, LetThrough
<1>5. Becomes(o, k, c, Append(p, now), None)
  BY <1>1 DEF Becomes, AcceptUnlimited, LetThrough, Inv, Shape
<1>6. Good(c, Append(p, now), None, k)
  BY <1>2, <1>3, <1>4 DEF Good, Announced
<1> QED BY <1>3, <1>4, <1>5, <1>6, OneBucket

LEMMA TickInv == ASSUME Inv, Tick PROVE Inv'
<1>1. Shape'
  BY LimitsAssumption DEF Inv, Shape, Tick
<1>2. ASSUME NEW o \in Origins, NEW k \in Classes
      PROVE  Good(bucket[o][k], passed[o][k], retryAt[o][k], k)'
  <2>1. PICK b, p, r : b = bucket[o][k] /\ p = passed[o][k] /\ r = retryAt[o][k]
    OBVIOUS
  <2>2. /\ b \in Buckets /\ p \in Seq(Int) /\ now \in Nat /\ now' = now + 1
        /\ max' = max /\ Good(b, p, r, k)
        /\ b = bucket'[o][k] /\ p = passed'[o][k] /\ r = retryAt'[o][k]
    BY <2>1, LimitsAssumption DEF Inv, Shape, Tick
  <2>3. Limited(k) => Explains(b, p, max[k], Period[k], now + 1)
    BY <2>2, WaitExplained, LimitsAreTyped DEF Good, Inv, Shape
  <2>4. p \in Seq(0..(now + 1)) /\ Len(p) <= MaxPassed
    BY <2>2 DEF Good, Recorded
  <2>5. Unused(b) => b.tokens = 0 /\ b.filled \in 0..(now + 1) \union {None}
    BY <2>2 DEF Unused
  <2>6. Good(b, p, r, k)'
    BY <2>2, <2>3, <2>4, <2>5 DEF Good, Recorded, Unused, Announced, Limited
  <2> QED BY <2>2, <2>6
<1> QED BY <1>1, <1>2 DEF Inv

LEMMA InvStep == Inv /\ [Next]_vars => Inv'
<1> SUFFICES ASSUME Inv, [Next]_vars PROVE Inv'
  OBVIOUS
<1>1. CASE \E o \in Origins, k \in Classes : Accept(o, k)
  BY <1>1, AcceptInv
<1>2. CASE \E o \in Origins, k \in Classes : Refuse(o, k)
  BY <1>2, RefuseInv
<1>3. CASE \E o \in Origins, k \in Classes : AcceptUnlimited(o, k)
  BY <1>3, AcceptUnlimitedInv
<1>4. CASE Tick
  BY <1>4, TickInv
<1>5. CASE UNCHANGED vars
  BY <1>5 DEF vars, Inv, Shape, Good, Recorded, Unused, Announced, Limited
<1> QED BY <1>1, <1>2, <1>3, <1>4, <1>5 DEF Next

LEMMA LimitsInvariant == Spec => []Inv
BY InvInit, InvStep, PTL DEF Spec

-----------------------------------------------------------------------------
\* Buckets, the history and the announced times keep their types; a bucket
\* never holds more tokens than its limit, nor is it filled in the future.
THEOREM LimiterTypes == Spec => []TypeOK
<1>1. Inv => TypeOK
  <2> SUFFICES ASSUME Inv, NEW o \in Origins, NEW k \in Classes
               PROVE  /\ bucket[o][k].tokens \in Nat
                      /\ bucket[o][k].tokens > 0 => bucket[o][k].tokens <= max[k]
                      /\ bucket[o][k].filled \in 0..now \union {None}
                      /\ passed[o][k] \in Seq(0..now)
                      /\ Len(passed[o][k]) <= MaxPassed
                      /\ retryAt[o][k] \in Nat \union {None}
    BY DEF TypeOK, Inv, Shape
  <2>1. PICK b : b = bucket[o][k]
    OBVIOUS
  <2>2. /\ b \in Buckets /\ Recorded(passed[o][k])
        /\ Limited(k) => Explains(b, passed[o][k], max[k], Period[k], now)
        /\ ~Limited(k) => Unused(b)
        /\ retryAt[o][k] \in Nat \union {None} /\ now \in Nat
    BY <2>1, LimitsAssumption DEF Inv, Shape, Good
  <2>3. /\ b.tokens > 0 => b.tokens <= max[k]
        /\ b.filled \in 0..now \union {None}
    BY <2>2 DEF Explains, Unused, Buckets
  <2> QED BY <2>1, <2>2, <2>3 DEF Buckets, Recorded
<1> QED BY <1>1, LimitsInvariant, PTL

\* For any limits and periods, and whatever the timing of the requests: no
\* more than two buckets pass within replenish_time.
THEOREM TwoBucketsAtMost == Spec => []SlidingBound
<1>1. Inv => SlidingBound
  BY DEF Inv, Good, Slides, SlidingBound
<1> QED BY <1>1, LimitsInvariant, PTL

\* A request is only refused when the configured number of requests passed
\* less than replenish_time ago.
THEOREM LimitKeepersPass == Spec => []RefusedOnlyWhenSpent
<1>1. Inv => RefusedOnlyWhenSpent
  <2> SUFFICES ASSUME Inv, NEW o \in Origins, NEW k \in Classes, Refused(o, k)
               PROVE  LET n == Len(passed[o][k])
                      IN /\ n >= max[k]
                         /\ passed[o][k][n - max[k] + 1] > now - Period[k]
    BY DEF RefusedOnlyWhenSpent
  <2>1. /\ bucket[o][k] \in Buckets /\ passed[o][k] \in Seq(Int) /\ now \in Nat
        /\ max[k] \in Nat \ {0} /\ Period[k] \in Nat \ {0}
        /\ Explains(bucket[o][k], passed[o][k], max[k], Period[k], now)
        /\ Found(bucket[o][k], max[k], Period[k], now).tokens = 0
    BY LimitsAreTyped, LimitsAssumption, FilledIsFound
       DEF Inv, Shape, Good, Refused
  <2> QED BY <2>1, NoTokenMeansSpent
<1> QED BY <1>1, LimitsInvariant, PTL

\* A client that waited as long as it was told, and half a second more, is only
\* refused once more when others took the tokens of a later filling.
THEOREM WaitsAreNear == Spec => WaitIsNearlyEnough
<1>1. ASSUME Inv, [Next]_vars, NEW o \in Origins, NEW k \in Classes,
             RefusedAgain(o, k)
      PROVE  2 * now <= 2 * retryAt[o][k] + Second
  <2>1. ASSUME NEW q \in Origins, NEW j \in Classes,
               Accept(q, j) \/ AcceptUnlimited(q, j)
        PROVE  FALSE
    <3>1. retryAt' = [retryAt EXCEPT ![q][j] = None]
      BY <2>1 DEF Accept, AcceptUnlimited, LetThrough
    <3>2. retryAt'[o][k] \in {None, retryAt[o][k]}
      BY <3>1, <1>1 DEF Inv, Shape
    <3> QED BY <3>2, <1>1 DEF RefusedAgain
  <2>2. CASE Tick \/ UNCHANGED vars
    BY <2>2, <1>1 DEF Tick, vars, RefusedAgain
  <2>3. ASSUME NEW q \in Origins, NEW j \in Classes, Refuse(q, j)
        PROVE  2 * now <= 2 * retryAt[o][k] + Second
    <3>1. q = o /\ j = k
      BY <2>3, <1>1 DEF Refuse, RefusedAgain, Inv, Shape
    <3>2. PICK b : b = bucket[o][k]
      OBVIOUS
    <3>3. /\ b \in Buckets /\ passed[o][k] \in Seq(Int) /\ now \in Nat
          /\ max[k] \in Nat \ {0} /\ Period[k] \in Nat \ {0}
          /\ Explains(b, passed[o][k], max[k], Period[k], now)
          /\ Found(b, max[k], Period[k], now).tokens = 0
      BY <2>3, <3>1, <3>2, <1>1, LimitsAreTyped, LimitsAssumption, FilledIsFound
         DEF Inv, Shape, Good, Refuse
    <3>4. b.filled # None /\ now < b.filled + Period[k] /\ b.filled \in Int
      BY <3>3, NoTokenMeansSpent DEF Buckets
    <3>5. /\ retryAt[o][k] \in Nat
          /\ 2 * retryAt[o][k] + Second >= 2 * (b.filled + Period[k])
      BY <1>1, <3>2 DEF Inv, Shape, Good, Announced, RefusedAgain
    <3>6. PICK next \in Int : next = b.filled + Period[k]
      BY <3>3, <3>4
    <3>7. now < next /\ 2 * retryAt[o][k] + Second >= 2 * next
      BY <3>4, <3>5, <3>6
    <3>8. now \in Nat /\ Second \in Nat
      BY <3>3, LimitsAssumption
    <3> QED BY <3>5, <3>7, <3>8
  <2> QED BY <2>1, <2>2, <2>3, <1>1 DEF Next
<1>2. Inv /\ [Next]_vars =>
        [\A o \in Origins, k \in Classes :
           RefusedAgain(o, k) => 2 * now <= 2 * retryAt[o][k] + Second]_vars
  BY <1>1
<1> QED BY <1>2, LimitsInvariant, PTL DEF Spec, WaitIsNearlyEnough
=============================================================================
