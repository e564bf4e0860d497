----------------------------- MODULE RateLimiter -----------------------------
(***************************************************************************)
(* The rate limiter of internal/middleware/ratelimit.go: one token bucket  *)
(* per client address, refilled when a request comes and dropped by a      *)
(* background clean-up when idle.  Allow reads the clock and changes the   *)
(* bucket under one mutex, so a request is one step.                       *)
(*                                                                         *)
(* A bucket has one level but two rates: it is refilled, for the whole     *)
(* time since the last request, at the rate of the request that comes now. *)
(*                                                                         *)
(* A tick is 1/TicksPerSecond seconds, and levels count units of which a   *)
(* token has Unit, so that a tick adds exactly rpm units.  The code counts *)
(* in float64; its rounding is left out.                                   *)
(***************************************************************************)
EXTENDS Integers

CONSTANTS
    Ip,               \* client addresses
    Rpm,              \* rate_limit.requests_per_minute
    HeartbeatRpm,     \* rate_limit.heartbeat_rpm
    Burst,            \* rate_limit.burst
    TicksPerSecond,   \* resolution of the clock
    IdleLimit,        \* the ten minutes of cleanupStaleBuckets, in ticks
    MaxTime           \* bound on the clock

ASSUME LimitAssumption ==
    /\ Rpm \in Nat \ {0} /\ HeartbeatRpm \in Nat \ {0}
    /\ Burst \in Nat \ {0} /\ TicksPerSecond \in Nat \ {0}
    /\ IdleLimit \in Nat /\ MaxTime \in Nat

VARIABLES
    now,       \* time.Now
    buckets,   \* the map of buckets
    told       \* what each client knows: its last answer, if that was a refusal

vars == <<now, buckets, told>>

Larger(a, b) == IF a >= b THEN a ELSE b
Smaller(a, b) == IF a <= b THEN a ELSE b

Unit == 60 * TicksPerSecond
Cap == Burst * Unit

\* PUT /relays/{id} has a rate of its own; every other limited request, PUT
\* /v1/relays/{id} among them, has the general one.
Kind == {"heartbeat", "general"}
Rate(kind) == IF kind = "heartbeat" THEN HeartbeatRpm ELSE Rpm
FastestRate == Larger(Rpm, HeartbeatRpm)

Bucket == [tokens: 0..Cap, lastRefill: Nat]
Nothing == [kind |-> "none", retryAt |-> 0]

Init ==
    /\ now = 0
    /\ buckets = [ip \in {} |-> [tokens |-> 0, lastRefill |-> 0]]
    /\ told = [ip \in Ip |-> Nothing]

\* Faulty variant: the level is not cut to the burst size.
Refilled_NoCap(b, kind) == b.tokens + (now - b.lastRefill) * Rate(kind)

\* The level of b when a request of this kind finds it.
Refilled(b, kind) == Smaller(Cap, b.tokens + (now - b.lastRefill) * Rate(kind))

\* Faulty variant: rounds down.
RetryAfter_Floor(level, kind) ==
    Larger(1, (Unit - level) \div (TicksPerSecond * Rate(kind)))

\* The whole seconds until a bucket at this level holds a token again: the
\* least s > 0 with level + s * TicksPerSecond * Rate(kind) >= Unit.
RetryAfter(level, kind) ==
    Larger(1, (Unit - level + TicksPerSecond * Rate(kind) - 1) \div (TicksPerSecond * Rate(kind)))

PutBucket(ip, level) ==
    buckets' = [i \in DOMAIN buckets \cup {ip} |->
                   IF i = ip THEN [tokens |-> level, lastRefill |-> now] ELSE buckets[i]]

\* The first request of an address takes one token of a full bucket.
Create(ip) ==
    /\ ip \notin DOMAIN buckets
    /\ PutBucket(ip, Cap - Unit)
    /\ told' = [told EXCEPT ![ip] = Nothing]

Spend(ip, kind) ==
    /\ ip \in DOMAIN buckets
    /\ Refilled(buckets[ip], kind) >= Unit
    /\ PutBucket(ip, Refilled(buckets[ip], kind) - Unit)
    /\ told' = [told EXCEPT ![ip] = Nothing]

\* A refusal refills the bucket too, and names the time to come again.
Deny(ip, kind) ==
    /\ ip \in DOMAIN buckets
    /\ Refilled(buckets[ip], kind) < Unit
    /\ PutBucket(ip, Refilled(buckets[ip], kind))
    /\ told' = [told EXCEPT ![ip] =
          [kind |-> kind,
           retryAt |-> now + TicksPerSecond * RetryAfter(Refilled(buckets[ip], kind), kind)]]

Allow(ip, kind) ==
    /\ Create(ip) \/ Spend(ip, kind) \/ Deny(ip, kind)
    /\ UNCHANGED now

\* Faulty variant: takes the present for the cutoff.
CleanupStaleBuckets_Now ==
    /\ buckets' = [ip \in {i \in DOMAIN buckets : buckets[i].lastRefill >= now} |-> buckets[ip]]
    /\ UNCHANGED <<now, told>>

\* The ticker of startCleanupLoop may fire at any time.
CleanupStaleBuckets ==
    /\ buckets' = [ip \in {i \in DOMAIN buckets : buckets[i].lastRefill >= now - IdleLimit} |->
                      buckets[ip]]
    /\ UNCHANGED <<now, told>>

Tick ==
    /\ now < MaxTime
    /\ now' = now + 1
    /\ UNCHANGED <<buckets, told>>

\* The buckets are in memory only.
Restart ==
    /\ buckets' = [ip \in {} |-> [tokens |-> 0, lastRefill |-> 0]]
    /\ UNCHANGED <<now, told>>

Next ==
    \/ \E ip \in Ip, kind \in Kind : Allow(ip, kind)
    \/ CleanupStaleBuckets
    \/ Tick
    \/ Restart

Spec == Init /\ [][Next]_vars

(***************************************************************************)
(* Properties.                                                             *)
(***************************************************************************)

\* Every level is between nothing and the burst size, and no bucket or refusal
\* is from the future (IPRateLimiter.Allow against cleanupStaleBuckets).
TypeOK ==
    /\ now \in Nat
    /\ DOMAIN buckets \subseteq Ip
    /\ \A ip \in DOMAIN buckets : buckets[ip] \in Bucket /\ buckets[ip].lastRefill <= now
    /\ told \in [Ip -> [kind: Kind \cup {"none"}, retryAt: Nat]]

\* A client that was refused and comes again with a request of the same kind at
\* or after the time of Retry-After is admitted, if no other request of its
\* address came in between: Allow's rounding, its refill at the next request and
\* the loss of the bucket in cleanupStaleBuckets or a restart included.
RetryAfterHonest ==
    \A ip \in Ip :
        told[ip].kind # "none" /\ now >= told[ip].retryAt /\ ip \in DOMAIN buckets
            => Refilled(buckets[ip], told[ip].kind) >= Unit

\* Where the bucket cannot have run full within IdleLimit, dropping it would
\* admit more than the rate allows.
IdleAssumption == IdleLimit * FastestRate >= Cap

\* What the bucket of ip still owes, as if it had been refilled all along at the
\* faster of the two rates.
Debt(ip) ==
    IF ip \in DOMAIN buckets
    THEN Larger(0, Cap - buckets[ip].tokens - FastestRate * (now - buckets[ip].lastRefill))
    ELSE 0

Meter == INSTANCE RateMeter WITH
    Charge <- Unit, Relief <- FastestRate, Limit <- Cap, debt <- [ip \in Ip |-> Debt(ip)]

\* The limiter is a RateMeter at the faster rate: an address is admitted at most
\* Burst requests at once and FastestRate a minute after that, although one
\* bucket serves two rates and idle buckets come back full (Allow,
\* cleanupStaleBuckets).
ImplementsMeter == Meter!Spec

=============================================================================
