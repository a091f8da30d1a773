------------------------------- MODULE RateLimit -------------------------------
(***************************************************************************)
(* The token buckets of lib/ratelimit.ts and the refusal that              *)
(* enforceRateLimit makes of an empty one.                                 *)
(*                                                                         *)
(* The limiter is synchronous, so a call is one step; what moves under it  *)
(* is the clock.  Date.now() runs forward and can be set back, buckets are *)
(* refilled only when they are asked, idle ones are evicted from a large   *)
(* map, and a restart forgets them all.                                    *)
(*                                                                         *)
(* A token is counted in Window[b] parts, so that a bucket refills by      *)
(* Capacity[b] parts a millisecond and all numbers are integers.  The code *)
(* computes in floating point, with errors far below a part: they can tip  *)
(* a comparison of equal numbers, which is a choice here.                  *)
(***************************************************************************)
EXTENDS Integers, FiniteSets

CONSTANTS
    Bucket,          \* the (scope, key) pairs
    Capacity,        \* capacity of the configuration of each of them
    Window,          \* its windowMs
    IdleEvictMs,     \* IDLE_EVICT_MS
    SweepThreshold,  \* SWEEP_THRESHOLD
    Second,          \* milliseconds of a second
    NoBucket,        \* the map has no entry
    NoPromise,       \* no refused caller is waiting
    MaxNow,          \* bound of the model: the latest time
    MaxSetBack,      \* bound of the model: the largest correction of the clock
    MaxSetBacks,     \* bound of the model: corrections of the clock
    MaxRestarts      \* bound of the model: restarts of the process

ASSUME ConfigAssumption ==
    /\ Capacity \in [Bucket -> Nat] /\ Window \in [Bucket -> Nat]
    /\ Second \in Nat \ {0}

\* No window of RateLimits, MENTION_LIMIT or LOGIN_LIMIT is longer than the
\* time after which a bucket may be evicted.
ASSUME IdleAssumption == IdleEvictMs \in Nat /\ \A b \in Bucket : Window[b] <= IdleEvictMs

ASSUME NoValueAssumption ==
    NoPromise \notin Int /\ NoBucket \notin [tokens : Nat, updatedAt : Int]

VARIABLES
    now,        \* Date.now()
    buckets,    \* the map, a function on all keys
    elapsed,    \* time that passed since the count of accepted began
    accepted,   \* requests granted since then, per bucket
    restarts,   \* restarts since then
    promise,    \* when a refused caller was told to come back, per bucket
    setBacks    \* corrections of the clock so far

history == <<elapsed, accepted, restarts, promise, setBacks>>
limiterVars == <<now, buckets, history>>

Entry == [tokens : Nat, updatedAt : Int]

LimiterTypeOK ==
    /\ now \in Int
    /\ buckets \in [Bucket -> Entry \cup {NoBucket}]
    /\ elapsed \in Nat /\ accepted \in [Bucket -> Nat] /\ restarts \in Nat
    /\ promise \in [Bucket -> Int \cup {NoPromise}]
    /\ setBacks \in Nat

NoneAccepted == [b \in Bucket |-> 0]
NoPromises == [b \in Bucket |-> NoPromise]

LimiterInit ==
    /\ now = 0
    /\ buckets = [b \in Bucket |-> NoBucket]
    /\ elapsed = 0 /\ accepted = NoneAccepted /\ restarts = 0
    /\ promise = NoPromises /\ setBacks = 0

-----------------------------------------------------------------------------
\* Whether the configuration limits at all.
Limits(b) == Capacity[b] > 0 /\ Window[b] > 0

\* A full bucket, in parts.
Full(b) == Capacity[b] * Window[b]

AtMost(n, limit) == IF n <= limit THEN n ELSE limit
AtLeast(n, limit) == IF n >= limit THEN n ELSE limit

\* What has come into a stored bucket until now, the cap aside.
Refilled(b) == buckets[b].tokens + AtLeast(now - buckets[b].updatedAt, 0) * Capacity[b]

\* Mutant: the refill has no cap.
LevelUncapped(b) == IF buckets[b] = NoBucket THEN Full(b) ELSE Refilled(b)

\* The tokens of a bucket after the refill that a call begins with.
Level(b) == IF buckets[b] = NoBucket THEN Full(b) ELSE AtMost(Refilled(b), Full(b))

\* Whether tokens >= 1 can come out true, and whether it can come out false: a
\* refill that is exactly one token may fall short of it by its rounding.
HasToken(b) == Level(b) >= Window[b]
LacksToken(b) == buckets[b] # NoBucket /\ Refilled(b) <= Window[b]

Size(map) == Cardinality({b \in Bucket : map[b] # NoBucket})

\* sweepIfNeeded: a large map loses its idle buckets.
Swept(map) ==
    IF Size(map) < SweepThreshold THEN map
    ELSE [b \in Bucket |->
            IF map[b] # NoBucket /\ map[b].updatedAt < now - IdleEvictMs
            THEN NoBucket ELSE map[b]]

Stored(b, tokens) ==
    Swept([buckets EXCEPT ![b] = [tokens |-> tokens, updatedAt |-> now]])

\* The wait until the bucket holds a token, rounded up; the division may come
\* out a little above a whole number.
RetryAfterMs(b) ==
    {ms \in 1..Window[b] + 1 :
        /\ ms * Capacity[b] >= Window[b] - Level(b)
        /\ (ms - 1) * Capacity[b] <= Window[b] - Level(b)}

\* The Retry-After header of enforceRateLimit.
RetryAfterSec(ms) == AtLeast((ms + Second - 1) \div Second, 1)

\* A misconfigured limiter fails open: it grants and stores nothing.
Unlimited(b) ==
    /\ ~Limits(b)
    /\ UNCHANGED limiterVars

Granted(b) ==
    /\ Limits(b) /\ HasToken(b)
    /\ buckets' = Stored(b, Level(b) - Window[b])
    /\ accepted' = [accepted EXCEPT ![b] = @ + 1]
    /\ promise' = [promise EXCEPT ![b] = NoPromise]
    /\ UNCHANGED <<now, elapsed, restarts, setBacks>>

\* The caller learns when to come back, from the verdict or, rounded to
\* seconds, from the header; one that is waiting already keeps to that.
Told(b) ==
    \E ms \in RetryAfterMs(b) : \E wait \in {ms, Second * RetryAfterSec(ms)} :
        promise' = [promise EXCEPT ![b] = IF @ = NoPromise THEN now + wait ELSE @]

\* Mutant: a refused call moves updatedAt but does not store the refill.
RefusedUnfilled(b) ==
    /\ Limits(b) /\ LacksToken(b)
    /\ buckets' = Stored(b, buckets[b].tokens)
    /\ Told(b)
    /\ UNCHANGED <<now, elapsed, accepted, restarts, setBacks>>

Refused(b) ==
    /\ Limits(b) /\ LacksToken(b)
    /\ buckets' = Stored(b, Level(b))
    /\ Told(b)
    /\ UNCHANGED <<now, elapsed, accepted, restarts, setBacks>>

-----------------------------------------------------------------------------
(***************************************************************************)
(* The clock and the process                                               *)
(***************************************************************************)

Elapse(ms) ==
    /\ now + ms <= MaxNow
    /\ now' = now + ms
    /\ elapsed' = elapsed + ms
    /\ UNCHANGED <<buckets, accepted, restarts, promise, setBacks>>

\* The system clock is corrected backwards: no promise holds any more.
SetBack(ms) ==
    /\ setBacks < MaxSetBacks
    /\ now' = now - ms
    /\ setBacks' = setBacks + 1
    /\ promise' = NoPromises
    /\ UNCHANGED <<buckets, elapsed, accepted, restarts>>

LimiterRestart ==
    /\ restarts < MaxRestarts
    /\ restarts' = restarts + 1
    /\ buckets' = [b \in Bucket |-> NoBucket]
    /\ UNCHANGED <<now, elapsed, accepted, promise, setBacks>>

\* An observer begins to count anew: what holds of its counters holds of every
\* stretch of an execution.
CountAnew ==
    /\ elapsed' = 0 /\ accepted' = NoneAccepted /\ restarts' = 0
    /\ UNCHANGED <<now, buckets, promise, setBacks>>

LimiterNext ==
    \/ \E b \in Bucket : Unlimited(b) \/ Granted(b) \/ Refused(b)
    \/ \E ms \in 1..MaxNow : Elapse(ms)
    \/ \E ms \in 1..MaxSetBack : SetBack(ms)
    \/ LimiterRestart \/ CountAnew

LimiterSpec == LimiterInit /\ [][LimiterNext]_limiterVars

-----------------------------------------------------------------------------
(***************************************************************************)
(* Properties                                                              *)
(***************************************************************************)

\* What the limiter guarantees of any stretch of time: the requests it grants
\* are at most a bucket for the start, a bucket for each restart and the
\* refill of the time that passed.  Lazy refills, evictions and corrections of
\* the clock give nothing on top.
GrantsBounded ==
    \A b \in Bucket :
        Limits(b) =>
            accepted[b] * Window[b] <= Full(b) * (restarts + 1) + Capacity[b] * elapsed

\* A refused caller that comes back a millisecond later than it was told is
\* granted, although it asked in between and its bucket was stored or evicted
\* meanwhile; only another grant takes the token it waits for.  The first wait
\* counts: asking again and being told a new one does not put it off.
RetryHonoured ==
    \A b \in Bucket :
        promise[b] # NoPromise /\ now > promise[b] => HasToken(b) /\ ~LacksToken(b)

\* No request is granted or refused differently because a bucket was evicted:
\* a bucket that leaves the map is full.
EvictedAreFull ==
    [][restarts' # restarts + 1 =>
         \A b \in Bucket : buckets[b] # NoBucket /\ buckets'[b] = NoBucket => Level(b) = Full(b)]_limiterVars
=============================================================================
