------------------------- MODULE RateLimiter_proofs -------------------------
(***************************************************************************)
(* What is proved of RateLimiter for every pair of rates, burst size, idle *)
(* limit and resolution of the clock.                                      *)
(***************************************************************************)
EXTENDS RateLimiter, TLAPS

(***************************************************************************)
(* Arithmetic.                                                             *)
(***************************************************************************)

\* Refilling longer, or at a faster rate, adds at least as much (IPRateLimiter.Allow).
LEMMA ProductMonotone ==
    ASSUME NEW a \in Nat, NEW b \in Nat, NEW c \in Nat, a <= b
    PROVE  a * c \in Nat /\ a * c <= b * c
<1>1. a * c \in Nat /\ b * c \in Nat /\ (b - a) * c \in Nat
  <2>1. b - a \in Nat
    OBVIOUS
  <2>2. \A x, y \in Nat : x * y \in Nat
    OBVIOUS
  <2> QED  BY <2>1, <2>2
<1>2. b * c = a * c + (b - a) * c
  OBVIOUS
<1> QED  BY <1>1, <1>2

\* Rounding up: so many whole periods of d make up for x (Retry-After).
LEMMA CeilingCovers ==
    ASSUME NEW x \in Nat, NEW d \in Nat \ {0}
    PROVE  /\ (x + d - 1) \div d \in Nat
           /\ x <= d * ((x + d - 1) \div d)
<1> DEFINE y == x + d - 1
<1>1. y \in Nat
  OBVIOUS
<1>2. y \div d \in Int /\ y % d \in 0..(d - 1) /\ y = (d * (y \div d)) + (y % d)
  BY <1>1
<1>3. y \div d \in Nat
  BY <1>1
<1> QED  BY <1>2, <1>3

(***************************************************************************)
(* The level of a bucket.                                                  *)
(***************************************************************************)

\* The units of a bucket and of a refill are natural numbers.
LEMMA Constants ==
    /\ Unit \in Nat \ {0} /\ Cap \in Nat /\ Unit <= Cap
    /\ FastestRate \in Nat \ {0}
    /\ \A kind \in Kind : Rate(kind) \in Nat \ {0} /\ Rate(kind) <= FastestRate
<1>1. Unit \in Nat \ {0}
  BY LimitAssumption DEF LimitAssumption, Unit
<1>2. Cap \in Nat /\ Unit <= Cap
  <2>1. 1 \in Nat /\ Burst \in Nat /\ 1 <= Burst /\ Unit \in Nat
    BY <1>1, LimitAssumption DEF LimitAssumption
  <2>2. Burst * Unit \in Nat /\ 1 * Unit <= Burst * Unit
    <3>1. 1 * Unit <= Burst * Unit
      BY <2>1, ProductMonotone
    <3>2. Burst * Unit \in Nat
      BY <2>1, ProductMonotone
    <3> QED  BY <3>1, <3>2
  <2> QED  BY <1>1, <2>2 DEF Cap
<1>3. FastestRate \in Nat \ {0}
  BY LimitAssumption DEF LimitAssumption, FastestRate, Larger
<1>4. ASSUME NEW kind \in Kind PROVE Rate(kind) \in Nat \ {0} /\ Rate(kind) <= FastestRate
  BY LimitAssumption DEF LimitAssumption, FastestRate, Larger, Rate
<1> QED  BY <1>1, <1>2, <1>3, <1>4

\* A refill never takes from a bucket, and gives it at most the faster rate.
LEMMA RefillBounds ==
    ASSUME TypeOK, NEW ip \in DOMAIN buckets, NEW kind \in Kind
    PROVE  /\ Refilled(buckets[ip], kind) \in 0..Cap
           /\ buckets[ip].tokens <= Refilled(buckets[ip], kind)
           /\ Refilled(buckets[ip], kind)
                <= buckets[ip].tokens + FastestRate * (now - buckets[ip].lastRefill)
<1>1. PICK t \in 0..Cap, e \in Nat :
         t = buckets[ip].tokens /\ e = now - buckets[ip].lastRefill
  BY DEF TypeOK, Bucket
<1>2. PICK r \in Nat, f \in Nat : r = Rate(kind) /\ f = FastestRate /\ r <= f
  BY Constants
<1>3. e * r \in Nat /\ r * e <= f * e /\ e * r = r * e
  <2>1. e <= e /\ r <= f
    BY <1>2
  <2>2. e * r \in Nat
    BY <2>1, ProductMonotone
  <2>3. r * e <= f * e
    BY <2>1, ProductMonotone
  <2> QED  BY <2>2, <2>3
<1>4. Refilled(buckets[ip], kind) = IF Cap <= t + e * r THEN Cap ELSE t + e * r
  BY <1>1, <1>2 DEF Refilled, Smaller
<1>5. PICK x \in Nat, y \in Nat : x = e * r /\ y = f * e /\ x <= y
  BY <1>3, ProductMonotone
<1>6. Cap \in Nat
  BY Constants
<1> QED  BY <1>1, <1>2, <1>4, <1>5, <1>6

(***************************************************************************)
(* Types.                                                                  *)
(***************************************************************************)

\* Whatever the outcome of a request, it leaves a bucket filled now, and a
\* refusal with a time that is not before now.
LEMMA AllowEffect ==
    ASSUME TypeOK, NEW ip \in Ip, NEW kind \in Kind, Allow(ip, kind)
    PROVE  \E level \in 0..Cap, answer \in [kind: Kind \cup {"none"}, retryAt: Nat] :
               /\ PutBucket(ip, level) /\ told' = [told EXCEPT ![ip] = answer]
               /\ now' = now
               /\ answer.kind # "none" =>
                     /\ answer.kind = kind
                     /\ now <= answer.retryAt
                     /\ Unit <= level + (answer.retryAt - now) * Rate(kind)
<1> DEFINE A == [kind: Kind \cup {"none"}, retryAt: Nat]
<1>1. Nothing \in A /\ Nothing.kind = "none"
  BY DEF Nothing
<1>2. CASE Create(ip)
  <2>1. Cap - Unit \in 0..Cap
    BY Constants
  <2> QED  BY <1>1, <1>2, <2>1 DEF Create, Allow
<1>3. CASE Spend(ip, kind)
  <2>1. Refilled(buckets[ip], kind) - Unit \in 0..Cap
    BY <1>3, Constants, RefillBounds DEF Spend
  <2> QED  BY <1>1, <1>3, <2>1 DEF Spend, Allow
<1>4. CASE Deny(ip, kind)
  <2>1. PICK level \in 0..Cap : level = Refilled(buckets[ip], kind) /\ level < Unit
    BY <1>4, RefillBounds DEF Deny
  <2>2. PICK s \in Nat : s = RetryAfter(level, kind) /\ Unit - level <= (TicksPerSecond * Rate(kind)) * s
    <3>1. PICK d \in Nat \ {0} : d = TicksPerSecond * Rate(kind)
      BY Constants, LimitAssumption DEF LimitAssumption
    <3>2. PICK x \in Nat : x = Unit - level
      BY <2>1, Constants
    <3>3. PICK c \in Nat : c = (x + d - 1) \div d /\ x <= d * c
      BY CeilingCovers
    <3>4. RetryAfter(level, kind) = IF 1 >= c THEN 1 ELSE c
      BY <3>1, <3>2, <3>3 DEF RetryAfter, Larger
    <3>5. PICK s \in Nat : s = RetryAfter(level, kind) /\ c <= s
      BY <3>4
    <3>6. d * c <= d * s
      BY <3>5, ProductMonotone
    <3>7. x <= d * s
      BY <3>3, <3>6
    <3> QED  BY <3>1, <3>2, <3>5, <3>7
  <2>3. PICK at \in Nat : at = now + TicksPerSecond * s
    BY LimitAssumption DEF LimitAssumption, TypeOK
  <2>4. now <= at /\ (at - now) * Rate(kind) = (TicksPerSecond * Rate(kind)) * s
    BY <2>3, Constants, LimitAssumption DEF LimitAssumption, TypeOK
  <2>5. Unit <= level + (at - now) * Rate(kind)
    <3>1. PICK x \in Int : x = (TicksPerSecond * Rate(kind)) * s
      BY Constants, LimitAssumption DEF LimitAssumption
    <3>2. Unit - level <= x /\ (at - now) * Rate(kind) = x
      BY <2>2, <2>4, <3>1
    <3> QED  BY <2>1, <3>1, <3>2, Constants
  <2>6. [kind |-> kind, retryAt |-> at] \in A
    OBVIOUS
  <2> QED  BY <1>4, <2>1, <2>2, <2>3, <2>4, <2>5, <2>6 DEF Deny, Allow
<1> QED  BY <1>2, <1>3, <1>4 DEF Allow

LEMMA InitType == Init => TypeOK
BY DEF Init, TypeOK, Nothing

LEMMA StepType == TypeOK /\ [Next]_vars => TypeOK'
<1> SUFFICES ASSUME TypeOK, [Next]_vars PROVE TypeOK'
  OBVIOUS
<1>1. ASSUME NEW ip \in Ip, NEW kind \in Kind, Allow(ip, kind) PROVE TypeOK'
  <2>1. PICK level \in 0..Cap, answer \in [kind: Kind \cup {"none"}, retryAt: Nat] :
           PutBucket(ip, level) /\ told' = [told EXCEPT ![ip] = answer] /\ now' = now
    BY <1>1, AllowEffect
  <2>2. told' \in [Ip -> [kind: Kind \cup {"none"}, retryAt: Nat]]
    BY <2>1 DEF TypeOK
  <2>3. DOMAIN buckets' = DOMAIN buckets \cup {ip}
    BY <2>1 DEF PutBucket
  <2>4. ASSUME NEW i \in DOMAIN buckets'
        PROVE  buckets'[i] \in Bucket /\ buckets'[i].lastRefill <= now'
    <3>1. CASE i = ip
      BY <2>1, <3>1 DEF PutBucket, TypeOK, Bucket
    <3>2. CASE i # ip
      BY <2>1, <2>3, <2>4, <3>2 DEF PutBucket, TypeOK
    <3> QED  BY <3>1, <3>2
  <2> QED  BY <2>1, <2>2, <2>3, <2>4 DEF TypeOK
<1>2. CASE CleanupStaleBuckets
  BY <1>2 DEF CleanupStaleBuckets, TypeOK
<1>3. CASE Tick
  BY <1>3 DEF Tick, TypeOK, Bucket
<1>4. CASE Restart
  BY <1>4 DEF Restart, TypeOK
<1>5. CASE UNCHANGED vars
  BY <1>5 DEF vars, TypeOK
<1> QED  BY <1>1, <1>2, <1>3, <1>4, <1>5 DEF Next

\* However the two rates alternate, a level stays within the burst size
\* (IPRateLimiter.Allow).
THEOREM LimiterTypeOK == Spec => []TypeOK
BY InitType, StepType, PTL DEF Spec

(***************************************************************************)
(* Retry-After.                                                            *)
(***************************************************************************)

\* The last refusal of an address and its bucket fit together: refilled from
\* its last change to the promised time, the bucket holds a token.  Unlike the
\* property, this does not depend on the clock.
Promised(b, t) ==
    t.kind # "none" => /\ b.lastRefill <= t.retryAt
                       /\ Unit <= b.tokens + (t.retryAt - b.lastRefill) * Rate(t.kind)
PromiseInv == \A ip \in DOMAIN buckets : Promised(buckets[ip], told[ip])

LEMMA StepPromise == TypeOK /\ PromiseInv /\ [Next]_vars => PromiseInv'
<1> SUFFICES ASSUME TypeOK, PromiseInv, [Next]_vars PROVE PromiseInv'
  OBVIOUS
<1>1. ASSUME NEW ip \in Ip, NEW kind \in Kind, Allow(ip, kind) PROVE PromiseInv'
  <2>1. PICK level \in 0..Cap, answer \in [kind: Kind \cup {"none"}, retryAt: Nat] :
           /\ PutBucket(ip, level) /\ told' = [told EXCEPT ![ip] = answer]
           /\ answer.kind # "none" =>
                 /\ answer.kind = kind
                 /\ now <= answer.retryAt
                 /\ Unit <= level + (answer.retryAt - now) * Rate(kind)
    BY <1>1, AllowEffect
  <2>2. ASSUME NEW i \in DOMAIN buckets' PROVE Promised(buckets'[i], told'[i])
    <3>1. CASE i = ip
      <4>1. buckets'[i] = [tokens |-> level, lastRefill |-> now] /\ told'[i] = answer
        BY <2>1, <2>2, <3>1 DEF PutBucket, TypeOK
      <4> QED  BY <2>1, <4>1 DEF Promised
    <3>2. CASE i # ip
      <4>1. i \in DOMAIN buckets /\ buckets'[i] = buckets[i] /\ told'[i] = told[i]
        BY <2>1, <2>2, <3>2 DEF PutBucket, TypeOK
      <4> QED  BY <4>1 DEF PromiseInv
    <3> QED  BY <3>1, <3>2
  <2> QED  BY <2>2 DEF PromiseInv, Promised
<1>2. CASE CleanupStaleBuckets
  BY <1>2 DEF CleanupStaleBuckets, PromiseInv, Promised
<1>3. CASE UNCHANGED <<buckets, told>>
  BY <1>3 DEF PromiseInv, Promised
<1>4. CASE Restart
  BY <1>4 DEF Restart, PromiseInv
<1> QED  BY <1>1, <1>2, <1>3, <1>4 DEF Next, Tick, vars

LEMMA PromiseKept == TypeOK /\ PromiseInv => RetryAfterHonest
<1> SUFFICES ASSUME TypeOK, PromiseInv, NEW ip \in Ip, told[ip].kind # "none",
                    now >= told[ip].retryAt, ip \in DOMAIN buckets
             PROVE  Refilled(buckets[ip], told[ip].kind) >= Unit
  BY DEF RetryAfterHonest
<1>1. PICK t \in Nat, last \in Nat, at \in Nat, kind \in Kind :
         /\ t = buckets[ip].tokens /\ last = buckets[ip].lastRefill
         /\ at = told[ip].retryAt /\ kind = told[ip].kind
  BY Constants DEF TypeOK, Bucket
<1>2. PICK r \in Nat : r = Rate(kind)
  BY Constants
<1>3. last <= at /\ at <= now /\ Unit <= t + (at - last) * r
  BY <1>1, <1>2 DEF PromiseInv, Promised, TypeOK
<1>4. PICK e \in Nat, f \in Nat : e = at - last /\ f = now - last /\ e <= f
  BY <1>1, <1>3 DEF TypeOK
<1>5. PICK x \in Nat, y \in Nat : x = e * r /\ y = f * r /\ x <= y
  <2>1. e * r \in Nat /\ e * r <= f * r
    BY <1>4, ProductMonotone
  <2>2. f * r \in Nat
    <3>1. f <= f
      OBVIOUS
    <3> QED  BY <3>1, ProductMonotone
  <2> QED  BY <2>1, <2>2
<1>6. Refilled(buckets[ip], kind) = IF Cap <= t + y THEN Cap ELSE t + y
  BY <1>1, <1>2, <1>4, <1>5 DEF Refilled, Smaller
<1>7. Unit <= t + x
  BY <1>3, <1>4, <1>5
<1> QED  BY <1>1, <1>5, <1>6, <1>7, Constants

\* A client that waits as long as Retry-After says is admitted, for every pair
\* of rates and every burst size (IPRateLimiter.Allow, writeTooManyRequests).
THEOREM RetryAfterIsHonest == Spec => []RetryAfterHonest
<1>1. Init => PromiseInv
  BY DEF Init, PromiseInv
<1> QED  BY <1>1, InitType, StepType, StepPromise, PromiseKept, PTL DEF Spec

(***************************************************************************)
(* The limiter is a meter.                                                 *)
(***************************************************************************)

\* What a bucket owes is a natural number within the limit.
LEMMA DebtType ==
    ASSUME TypeOK, NEW ip \in Ip
    PROVE  Debt(ip) \in 0..Cap
<1>1. CASE ip \notin DOMAIN buckets
  BY <1>1, Constants DEF Debt
<1>2. CASE ip \in DOMAIN buckets
  <2>1. PICK t \in 0..Cap, e \in Nat :
           t = buckets[ip].tokens /\ e = now - buckets[ip].lastRefill
    BY <1>2 DEF TypeOK, Bucket
  <2>2. PICK x \in Nat : x = FastestRate * e
    <3>1. FastestRate \in Nat /\ FastestRate <= FastestRate
      BY Constants
    <3> QED  BY <3>1, ProductMonotone
  <2>3. Debt(ip) = IF 0 >= Cap - t - x THEN 0 ELSE Cap - t - x
    BY <1>2, <2>1, <2>2 DEF Debt, Larger
  <2> QED  BY <2>1, <2>2, <2>3, Constants
<1> QED  BY <1>1, <1>2

\* A bucket changed just now owes what it lacks.
LEMMA PutBucketDebt ==
    ASSUME TypeOK, NEW ip \in Ip, NEW level \in 0..Cap, PutBucket(ip, level), now' = now
    PROVE  [i \in Ip |-> Debt(i)]' = [[i \in Ip |-> Debt(i)] EXCEPT ![ip] = Cap - level]
<1>1. (Debt(ip))' = Cap - level
  <2>1. ip \in DOMAIN buckets' /\ buckets'[ip] = [tokens |-> level, lastRefill |-> now]
    BY DEF PutBucket
  <2>2. now' - buckets'[ip].lastRefill = 0
    BY <2>1 DEF TypeOK
  <2>3. FastestRate * 0 = 0 /\ Cap - level >= 0
    BY Constants
  <2> QED  BY <2>1, <2>2, <2>3, Constants DEF Debt, Larger
<1>2. ASSUME NEW i \in Ip, i # ip PROVE (Debt(i))' = Debt(i)
  BY <1>2 DEF PutBucket, Debt
<1> QED  BY <1>1, <1>2

\* What a request finds in a bucket is at most what the meter allows it.
LEMMA DebtCovers ==
    ASSUME TypeOK, NEW ip \in DOMAIN buckets, NEW kind \in Kind
    PROVE  Debt(ip) <= Cap - Refilled(buckets[ip], kind)
<1>1. PICK t \in 0..Cap, e \in Nat, f \in Nat :
         t = buckets[ip].tokens /\ e = now - buckets[ip].lastRefill /\ f = FastestRate
  BY Constants DEF TypeOK, Bucket
<1>2. PICK level \in 0..Cap : level = Refilled(buckets[ip], kind) /\ level <= t + f * e
  BY <1>1, RefillBounds
<1>3. Debt(ip) = IF 0 >= Cap - t - f * e THEN 0 ELSE Cap - t - f * e
  BY <1>1 DEF Debt, Larger
<1>4. PICK x \in Int : x = f * e
  OBVIOUS
<1> QED  BY <1>1, <1>2, <1>3, <1>4, Constants

\* Admitting and refusing are steps of the meter.
LEMMA AllowSimulates ==
    ASSUME TypeOK, NEW ip \in Ip, NEW kind \in Kind, Allow(ip, kind)
    PROVE  Meter!Next
<1>1. ASSUME NEW level \in 0..Cap, PutBucket(ip, level),
             Debt(ip) + Unit <= Cap - level
      PROVE  Meter!Admit(ip)
  <2>1. PICK d \in 0..Cap : d = Cap - level /\ Debt(ip) + Unit <= d
    BY <1>1, Constants
  <2>2. [i \in Ip |-> Debt(i)][ip] = Debt(ip)
    OBVIOUS
  <2>3. d \in Debt(ip) + Unit .. Cap
    BY <2>1, DebtType, Constants
  <2>4. now' = now
    BY DEF Allow
  <2> QED  BY <1>1, <2>1, <2>2, <2>3, <2>4, PutBucketDebt DEF Meter!Admit
<1>2. ASSUME NEW level \in 0..Cap, PutBucket(ip, level), Debt(ip) <= Cap - level
      PROVE  Meter!Refuse(ip)
  <2>1. PICK d \in 0..Cap : d = Cap - level /\ Debt(ip) <= d
    BY <1>2, Constants
  <2>2. [i \in Ip |-> Debt(i)][ip] = Debt(ip)
    OBVIOUS
  <2>3. d \in Debt(ip) .. Cap
    BY <2>1, DebtType, Constants
  <2>4. now' = now
    BY DEF Allow
  <2> QED  BY <1>2, <2>1, <2>2, <2>3, <2>4, PutBucketDebt DEF Meter!Refuse
<1>3. CASE Create(ip)
  <2>1. Cap - Unit \in 0..Cap /\ Debt(ip) = 0 /\ Cap - (Cap - Unit) = Unit
    BY <1>3, Constants DEF Create, Debt
  <2> QED  BY <1>1, <1>3, <2>1, Constants DEF Create, Meter!Next
<1>4. CASE Spend(ip, kind)
  <2>1. PICK level \in 0..Cap : level = Refilled(buckets[ip], kind) /\ level >= Unit
    BY <1>4, RefillBounds DEF Spend
  <2>2. Debt(ip) <= Cap - level
    BY <1>4, <2>1, DebtCovers DEF Spend
  <2>3. level - Unit \in 0..Cap /\ Debt(ip) + Unit <= Cap - (level - Unit)
    BY <2>1, <2>2, DebtType, Constants
  <2> QED  BY <1>1, <1>4, <2>1, <2>3 DEF Spend, Meter!Next
<1>5. CASE Deny(ip, kind)
  <2>1. Refilled(buckets[ip], kind) \in 0..Cap
    BY <1>5, RefillBounds DEF Deny
  <2> QED  BY <1>2, <1>5, <2>1, DebtCovers DEF Deny, Meter!Next
<1> QED  BY <1>3, <1>4, <1>5 DEF Allow

\* Time pays off as much as the bucket would be refilled at the faster rate.
LEMMA TickSimulates == TypeOK /\ Tick => Meter!Next
<1> SUFFICES ASSUME TypeOK, Tick PROVE Meter!Next
  OBVIOUS
<1>1. ASSUME NEW ip \in Ip
      PROVE  (Debt(ip))' = IF Debt(ip) > FastestRate THEN Debt(ip) - FastestRate ELSE 0
  <2>1. CASE ip \notin DOMAIN buckets
    BY <2>1, Constants DEF Debt, Tick
  <2>2. CASE ip \in DOMAIN buckets
    <3>1. PICK t \in 0..Cap, e \in Nat, f \in Nat \ {0} :
             t = buckets[ip].tokens /\ e = now - buckets[ip].lastRefill /\ f = FastestRate
      BY <2>2, Constants DEF TypeOK, Bucket
    <3>2. now' - buckets'[ip].lastRefill = e + 1 /\ buckets'[ip] = buckets[ip]
      BY <2>2, <3>1 DEF Tick, TypeOK, Bucket
    <3>3. PICK x \in Int : x = f * e /\ f * (e + 1) = x + f
      OBVIOUS
    <3>4. Debt(ip) = IF 0 >= Cap - t - x THEN 0 ELSE Cap - t - x
      BY <2>2, <3>1, <3>3 DEF Debt, Larger
    <3>5. (Debt(ip))' = IF 0 >= Cap - t - (x + f) THEN 0 ELSE Cap - t - (x + f)
      BY <2>2, <3>1, <3>2, <3>3 DEF Debt, Larger, Tick
    <3> QED  BY <3>1, <3>3, <3>4, <3>5, Constants
  <2> QED  BY <2>1, <2>2
<1>2. Meter!Tick
  BY <1>1 DEF Meter!Tick, Tick
<1> QED  BY <1>2 DEF Meter!Next

\* A bucket old enough to be dropped owes nothing, so dropping it is no step
\* of the meter.
LEMMA CleanupStutters ==
    ASSUME IdleAssumption, TypeOK, CleanupStaleBuckets
    PROVE  UNCHANGED <<now, [ip \in Ip |-> Debt(ip)]>>
<1>1. ASSUME NEW ip \in Ip PROVE (Debt(ip))' = Debt(ip)
  <2>1. CASE ip \notin DOMAIN buckets \/ buckets[ip].lastRefill >= now - IdleLimit
    BY <2>1 DEF CleanupStaleBuckets, Debt
  <2>2. CASE ip \in DOMAIN buckets /\ ~(buckets[ip].lastRefill >= now - IdleLimit)
    <3>1. (Debt(ip))' = 0
      BY <2>2 DEF CleanupStaleBuckets, Debt
    <3>2. PICK t \in 0..Cap, e \in Nat, f \in Nat :
             t = buckets[ip].tokens /\ e = now - buckets[ip].lastRefill /\ f = FastestRate
      BY <2>2, Constants DEF TypeOK, Bucket
    <3>3. IdleLimit \in Nat /\ IdleLimit <= e
      BY <2>2, <3>2, LimitAssumption DEF LimitAssumption, TypeOK, Bucket
    <3>4. IdleLimit * f <= e * f /\ f * e = e * f
      BY <3>3, ProductMonotone
    <3>5. PICK x \in Int : x = f * e /\ Cap <= x
      <4>1. Cap <= IdleLimit * f
        BY <3>2 DEF IdleAssumption
      <4>2. PICK y \in Int, x \in Int : y = IdleLimit * f /\ x = f * e
        BY <3>3
      <4> QED  BY <3>4, <4>1, <4>2, Constants
    <3>6. Debt(ip) = IF 0 >= Cap - t - x THEN 0 ELSE Cap - t - x
      BY <2>2, <3>2, <3>5 DEF Debt, Larger
    <3>7. Debt(ip) = 0
      BY <3>5, <3>6, Constants
    <3> QED  BY <3>1, <3>7
  <2> QED  BY <2>1, <2>2
<1> QED  BY <1>1 DEF CleanupStaleBuckets

LEMMA StepSimulates ==
    ASSUME IdleAssumption
    PROVE  TypeOK /\ [Next]_vars => [Meter!Next]_Meter!vars
<1> SUFFICES ASSUME TypeOK, [Next]_vars PROVE [Meter!Next]_Meter!vars
  OBVIOUS
<1>1. ASSUME NEW ip \in Ip, NEW kind \in Kind, Allow(ip, kind) PROVE Meter!Next
  BY <1>1, AllowSimulates
<1>2. CASE CleanupStaleBuckets
  BY <1>2, CleanupStutters DEF Meter!vars
<1>3. CASE Tick
  BY <1>3, TickSimulates
<1>4. CASE Restart
  BY <1>4 DEF Restart, Debt, Meter!Reset, Meter!Next
<1>5. CASE UNCHANGED vars
  BY <1>5 DEF vars, Meter!vars, Debt
<1> QED  BY <1>1, <1>2, <1>3, <1>4, <1>5 DEF Next

\* Where ten minutes suffice to fill a bucket at the faster rate, the limiter
\* is a meter at that rate: neither the alternation of the two rates nor the
\* loss of idle buckets admits more (IPRateLimiter.Allow, cleanupStaleBuckets).
THEOREM LimiterImplementsMeter ==
  ASSUME IdleAssumption
  PROVE  Spec => ImplementsMeter
<1>1. Init => Meter!Init
  BY DEF Init, Meter!Init, Debt
<1> QED
  BY <1>1, InitType, StepType, StepSimulates, PTL
  DEF Spec, ImplementsMeter, Meter!Spec

=============================================================================
