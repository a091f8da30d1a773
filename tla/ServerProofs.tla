----------------------------- MODULE ServerProofs ------------------------------
(***************************************************************************)
(* Theorems about the server around the AIs: what the start script keeps   *)
(* true of the database (Startup), for any number of releases,             *)
(* deployments, crashes and restarts, and what the rate limiter grants     *)
(* (RateLimit), for every set of buckets, every limit and every clock.     *)
(***************************************************************************)
EXTENDS Startup, RateLimit, FiniteSetTheorems, TLAPS

-----------------------------------------------------------------------------
(***************************************************************************)
(* The start of a container                                                *)
(***************************************************************************)

\* While the CLI applies a migration, the script waits for it, its row says
\* that it has started, and its objects are there once its script has run.
ApplyingHolds ==
    migrating # Unset =>
        /\ phase \in {"deploy", "retry"}
        /\ migrating \in failed
        /\ ran => migrating \in objects

\* What the script is about to do is what the variables ask for.
ChoiceHolds ==
    /\ listed \subseteq env.baseline
    /\ phase = "push" => env.strategy = "push"
    /\ phase = "reset" => env.reset /\ failed # {}

SchemaInv == TypeOK /\ ApplyingHolds /\ ChoiceHolds /\ HistoryIsTrue /\ ServesRelease

-----------------------------------------------------------------------------
\* A migration is a number, and so neither of the two other values.
LEMMA MigrationsAreNumbers == Unset \notin Migration /\ FromError \notin Migration
BY UnsetAssumption DEF Migration

LEMMA SchemaInvInit == Init => SchemaInv
<1> SUFFICES ASSUME Init PROVE SchemaInv
  OBVIOUS
<1>1. TypeOK
  <2>1. PICK release \in 0..Releases : objects = 1..release /\ data = (release > 0)
    BY DEF Init
  <2>2. objects \subseteq Migration /\ data \in BOOLEAN
    BY <2>1, ReleasesAssumption DEF Migration
  <2>3. retries \in 0..MaxRetries
    BY ReleasesAssumption DEF Init
  <2> QED BY <2>2, <2>3 DEF Init, TypeOK, Phase
<1>2. ApplyingHolds /\ ChoiceHolds /\ HistoryIsTrue /\ ServesRelease
  BY DEF Init, ApplyingHolds, ChoiceHolds, HistoryIsTrue, ServesRelease
<1> QED BY <1>1, <1>2 DEF SchemaInv

\* A container that goes down leaves the database as it is.
LEMMA GoDownKeeps ==
    ASSUME SchemaInv, GoDown, UNCHANGED <<env, retries, calm, database>>
    PROVE  SchemaInv'
BY DEF SchemaInv, TypeOK, ApplyingHolds, ChoiceHolds, HistoryIsTrue, ServesRelease,
       GoDown, Phase, database, Shipped

\* So does a step to another phase, when its conditions hold already.
LEMMA GoToKeeps ==
    ASSUME SchemaInv, NEW next \in Phase, GoTo(next), Idle,
           UNCHANGED <<env, calm, database>>, retries' \in 0..MaxRetries,
           next = "push" => env.strategy = "push",
           next = "reset" => env.reset /\ failed # {},
           next \in {"seed", "prepare", "serving"} => phase \in {"seed", "prepare"}
    PROVE  SchemaInv'
<1>1. TypeOK'
  BY DEF SchemaInv, TypeOK, GoTo, database
<1>2. ApplyingHolds' /\ ChoiceHolds' /\ HistoryIsTrue'
  BY DEF SchemaInv, ApplyingHolds, ChoiceHolds, HistoryIsTrue, GoTo, Idle, database
<1>3. ServesRelease'
  BY DEF SchemaInv, ServesRelease, GoTo, database, Shipped
<1> QED BY <1>1, <1>2, <1>3 DEF SchemaInv

\* Outside deploy and retry the CLI applies nothing.
LEMMA IdleElsewhere ==
    ASSUME SchemaInv, phase \notin {"deploy", "retry"}
    PROVE  Idle
BY DEF SchemaInv, ApplyingHolds, Idle

-----------------------------------------------------------------------------
(***************************************************************************)
(* prisma migrate deploy                                                   *)
(***************************************************************************)

LEMMA UpToDateKeeps == ASSUME SchemaInv, UpToDate PROVE SchemaInv'
<1>1. TypeOK'
  BY DEF SchemaInv, TypeOK, UpToDate, GoTo, Phase
<1>2. ApplyingHolds' /\ ChoiceHolds' /\ HistoryIsTrue'
  BY DEF SchemaInv, ApplyingHolds, ChoiceHolds, HistoryIsTrue, UpToDate, Deploying,
         Idle, GoTo
<1>3. Shipped \subseteq applied /\ failed = {} /\ applied \subseteq objects \cup misled
  BY DEF SchemaInv, HistoryIsTrue, UpToDate, Pending, P3009
<1>4. ServesRelease'
  BY <1>3 DEF ServesRelease, UpToDate, Shipped
<1> QED BY <1>1, <1>2, <1>4 DEF SchemaInv

LEMMA RecordStartKeeps ==
    ASSUME SchemaInv, NEW m \in Migration, RecordStart(m) PROVE SchemaInv'
<1>1. TypeOK'
  BY DEF SchemaInv, TypeOK, RecordStart
<1>2. ApplyingHolds' /\ ChoiceHolds' /\ HistoryIsTrue'
  BY DEF SchemaInv, ApplyingHolds, ChoiceHolds, HistoryIsTrue, RecordStart, Deploying
<1>3. ServesRelease'
  BY DEF ServesRelease, RecordStart, Deploying
<1> QED BY <1>1, <1>2, <1>3 DEF SchemaInv

LEMMA RunScriptKeeps == ASSUME SchemaInv, RunScript PROVE SchemaInv'
<1>1. migrating \in Migration /\ phase \in {"deploy", "retry"}
  BY DEF SchemaInv, TypeOK, ApplyingHolds, RunScript, Idle
<1>2. TypeOK'
  BY <1>1 DEF SchemaInv, TypeOK, RunScript
<1>3. ApplyingHolds' /\ ChoiceHolds' /\ HistoryIsTrue'
  BY DEF SchemaInv, ApplyingHolds, ChoiceHolds, HistoryIsTrue, RunScript
<1>4. ServesRelease'
  BY <1>1 DEF ServesRelease, RunScript
<1> QED BY <1>2, <1>3, <1>4 DEF SchemaInv

LEMMA RecordFinishKeeps == ASSUME SchemaInv, RecordFinish PROVE SchemaInv'
<1>1. migrating \in Migration /\ phase \in {"deploy", "retry"} /\ migrating \in objects
  BY DEF SchemaInv, TypeOK, ApplyingHolds, RecordFinish, Idle
<1>2. TypeOK'
  BY <1>1 DEF SchemaInv, TypeOK, RecordFinish
<1>3. ApplyingHolds' /\ ChoiceHolds' /\ HistoryIsTrue'
  BY <1>1 DEF SchemaInv, ApplyingHolds, ChoiceHolds, HistoryIsTrue, RecordFinish
<1>4. ServesRelease'
  BY <1>1 DEF ServesRelease, RecordFinish
<1> QED BY <1>2, <1>3, <1>4 DEF SchemaInv

-----------------------------------------------------------------------------
(***************************************************************************)
(* The recoveries                                                          *)
(***************************************************************************)

LEMMA StartBaselineKeeps == ASSUME SchemaInv, StartBaseline PROVE SchemaInv'
<1>1. env.baseline \subseteq Migration
  BY DEF SchemaInv, TypeOK, Env
<1>2. TypeOK'
  BY <1>1 DEF SchemaInv, TypeOK, StartBaseline, Baselined, Phase, database
<1>3. ApplyingHolds' /\ ChoiceHolds' /\ HistoryIsTrue' /\ ServesRelease'
  BY DEF SchemaInv, ApplyingHolds, ChoiceHolds, HistoryIsTrue, ServesRelease,
         StartBaseline, Baselined, Idle, database
<1> QED BY <1>2, <1>3 DEF SchemaInv

\* A name that is resolved is in the schema, or its operator was wrong.
LEMMA ResolveAppliedKeeps ==
    ASSUME SchemaInv, NEW m \in Migration, ResolveApplied(m) PROVE SchemaInv'
<1>1. m \in env.baseline /\ Idle
  BY IdleElsewhere DEF SchemaInv, ChoiceHolds, ResolveApplied
<1>2. TypeOK'
  BY DEF SchemaInv, TypeOK, ResolveApplied, Phase
<1>3. ApplyingHolds' /\ ChoiceHolds'
  BY <1>1 DEF SchemaInv, ApplyingHolds, ChoiceHolds, ResolveApplied, Idle
<1>4. HistoryIsTrue'
  BY <1>1 DEF SchemaInv, HistoryIsTrue, ResolveApplied
<1>5. ServesRelease'
  BY DEF ServesRelease, ResolveApplied
<1> QED BY <1>2, <1>3, <1>4, <1>5 DEF SchemaInv

LEMMA DropKeeps == ASSUME SchemaInv, Drop PROVE SchemaInv'
<1>1. Idle
  BY IdleElsewhere DEF Drop
<1>2. TypeOK'
  BY DEF SchemaInv, TypeOK, Drop, GoTo, Phase
<1>3. ApplyingHolds' /\ ChoiceHolds' /\ HistoryIsTrue' /\ ServesRelease'
  BY <1>1 DEF SchemaInv, ApplyingHolds, ChoiceHolds, HistoryIsTrue, ServesRelease,
         Drop, GoTo, Idle
<1> QED BY <1>2, <1>3 DEF SchemaInv

LEMMA ResolveRolledBackKeeps ==
    ASSUME SchemaInv, NEW m \in Migration, ResolveRolledBack(m) PROVE SchemaInv'
<1>1. Idle
  BY IdleElsewhere DEF ResolveRolledBack
<1>2. TypeOK'
  BY DEF SchemaInv, TypeOK, ResolveRolledBack, GoTo, Phase
<1>3. ApplyingHolds' /\ ChoiceHolds' /\ HistoryIsTrue' /\ ServesRelease'
  BY <1>1 DEF SchemaInv, ApplyingHolds, ChoiceHolds, HistoryIsTrue, ServesRelease,
         ResolveRolledBack, GoTo, Idle
<1> QED BY <1>2, <1>3 DEF SchemaInv

\* What a push takes away under a history is remembered.
LEMMA PushKeeps == ASSUME SchemaInv, Push PROVE SchemaInv'
<1>1. Idle /\ env.strategy = "push"
  BY IdleElsewhere DEF Push, SchemaInv, ChoiceHolds
<1>2. Shipped \subseteq Migration
  BY ReleasesAssumption DEF SchemaInv, TypeOK, Env, Shipped, Migration
<1>3. TypeOK'
  BY <1>2 DEF SchemaInv, TypeOK, Push, GoTo, Phase
<1>4. ApplyingHolds' /\ ChoiceHolds' /\ HistoryIsTrue'
  BY <1>1 DEF SchemaInv, ApplyingHolds, ChoiceHolds, HistoryIsTrue, Push, GoTo, Idle
<1>5. ServesRelease'
  BY <1>1 DEF ServesRelease, Push
<1> QED BY <1>3, <1>4, <1>5 DEF SchemaInv

LEMMA MaybeSeedKeeps == ASSUME SchemaInv, MaybeSeed PROVE SchemaInv'
<1>1. Idle
  BY IdleElsewhere DEF MaybeSeed
<1>2. UNCHANGED <<table, applied, failed, objects, misled>> /\ data' \in BOOLEAN
  BY DEF SchemaInv, TypeOK, MaybeSeed, database
<1>3. TypeOK'
  BY <1>2 DEF SchemaInv, TypeOK, MaybeSeed, GoTo, Phase
<1>4. ApplyingHolds' /\ ChoiceHolds' /\ HistoryIsTrue'
  BY <1>1, <1>2 DEF SchemaInv, ApplyingHolds, ChoiceHolds, HistoryIsTrue, MaybeSeed,
         GoTo, Idle
<1>5. ServesRelease'
  BY <1>2 DEF SchemaInv, ServesRelease, MaybeSeed, GoTo, Shipped
<1> QED BY <1>3, <1>4, <1>5 DEF SchemaInv

-----------------------------------------------------------------------------
LEMMA RestartKeeps == ASSUME SchemaInv, Restart PROVE SchemaInv'
<1>1. Idle
  BY IdleElsewhere DEF Restart
<1>2. retries' \in 0..MaxRetries
  BY ReleasesAssumption DEF SchemaInv, TypeOK, Restart
<1>3. FirstPhase \in {"push", "deploy"} /\ (FirstPhase = "push" => env.strategy = "push")
  BY DEF FirstPhase
<1>4. GoTo(FirstPhase) /\ UNCHANGED <<env, calm, database>>
  BY DEF Restart
<1> QED BY <1>1, <1>2, <1>3, <1>4, GoToKeeps DEF Phase

LEMMA RedeployKeeps ==
    ASSUME SchemaInv, NEW e \in Env, NEW last \in BOOLEAN, Redeploy(e, last)
    PROVE  SchemaInv'
<1>0. retries' \in 0..MaxRetries /\ phase' \in {"push", "deploy"}
  BY ReleasesAssumption DEF Redeploy
<1>1. TypeOK'
  BY <1>0 DEF SchemaInv, TypeOK, Redeploy, Phase, database
<1>2. ApplyingHolds' /\ ChoiceHolds' /\ HistoryIsTrue' /\ ServesRelease'
  BY DEF SchemaInv, ApplyingHolds, ChoiceHolds, HistoryIsTrue, ServesRelease, Redeploy,
         database
<1> QED BY <1>1, <1>2 DEF SchemaInv

\* The steps that only change the phase.
LEMMA PhasesKeep ==
    ASSUME SchemaInv, StartReset \/ StartRollBack \/ Listen \/ Shutdown
    PROVE  SchemaInv'
<1>0. retries \in 0..MaxRetries
  BY DEF SchemaInv, TypeOK
<1>1. CASE StartReset
  <2>1. env.reset /\ failed # {} /\ Idle /\ GoTo("reset") /\ "reset" \in Phase
    BY <1>1 DEF StartReset, Resets, P3009, Phase
  <2>2. UNCHANGED <<env, calm, database>> /\ retries' \in 0..MaxRetries
    BY <1>0, <1>1 DEF StartReset
  <2> QED BY <2>1, <2>2, GoToKeeps
<1>2. CASE StartRollBack
  <2>1. Idle /\ GoTo("rollback") /\ "rollback" \in Phase
    BY <1>2 DEF StartRollBack, Phase
  <2>2. UNCHANGED <<env, calm, database>> /\ retries' \in 0..MaxRetries
    BY <1>0, <1>2 DEF StartRollBack
  <2> QED BY <2>1, <2>2, GoToKeeps
<1>3. CASE Listen
  <2>1. Idle /\ GoTo("serving") /\ "serving" \in Phase /\ phase = "prepare"
    BY <1>3, IdleElsewhere DEF Listen, Phase
  <2>2. UNCHANGED <<env, calm, database>> /\ retries' \in 0..MaxRetries
    BY <1>0, <1>3 DEF Listen
  <2> QED BY <2>1, <2>2, GoToKeeps
<1>4. CASE Shutdown
  <2>1. Idle /\ GoTo("draining") /\ "draining" \in Phase
    BY <1>4, IdleElsewhere DEF Shutdown, Phase
  <2>2. UNCHANGED <<env, calm, database>> /\ retries' \in 0..MaxRetries
    BY <1>0, <1>4 DEF Shutdown
  <2> QED BY <2>1, <2>2, GoToKeeps
<1> QED BY <1>1, <1>2, <1>3, <1>4

LEMMA WorkKeeps == ASSUME SchemaInv, Work PROVE SchemaInv'
BY DEF SchemaInv, TypeOK, ApplyingHolds, ChoiceHolds, HistoryIsTrue, ServesRelease,
       Work, container, Shipped

LEMMA SchemaInvStep == SchemaInv /\ [Next]_vars => SchemaInv'
<1> SUFFICES ASSUME SchemaInv, [Next]_vars PROVE SchemaInv'
  OBVIOUS
<1>1. CASE Boot
  <2>1. CASE ScriptFails \/ RollBackRefused \/ GiveUp
    BY <2>1, GoDownKeeps DEF ScriptFails, RollBackRefused, GiveUp
  <2>2. CASE UpToDate \/ RunScript \/ RecordFinish
    BY <2>2, UpToDateKeeps, RunScriptKeeps, RecordFinishKeeps
  <2>3. CASE StartBaseline \/ Drop \/ Push \/ MaybeSeed
    BY <2>3, StartBaselineKeeps, DropKeeps, PushKeeps, MaybeSeedKeeps
  <2>4. CASE StartReset \/ StartRollBack \/ Listen
    BY <2>4, PhasesKeep
  <2>5. CASE \E m \in Migration : RecordStart(m) \/ ResolveApplied(m) \/ ResolveRolledBack(m)
    BY <2>5, RecordStartKeeps, ResolveAppliedKeeps, ResolveRolledBackKeeps
  <2> QED BY <1>1, <2>1, <2>2, <2>3, <2>4, <2>5 DEF Boot
<1>2. CASE Crash \/ PrepareFails \/ Exit
  BY <1>2, GoDownKeeps DEF Crash, PrepareFails, Exit
<1>3. CASE Restart \/ Work \/ Shutdown
  BY <1>3, RestartKeeps, WorkKeeps, PhasesKeep
<1>4. CASE \E e \in Env, last \in BOOLEAN : Redeploy(e, last)
  BY <1>4, RedeployKeeps
<1>5. CASE UNCHANGED vars
  BY <1>5 DEF SchemaInv, TypeOK, ApplyingHolds, ChoiceHolds, HistoryIsTrue,
       ServesRelease, vars, container, database, Shipped
<1> QED BY <1>1, <1>2, <1>3, <1>4, <1>5 DEF Next

\* The schema, the history of migrations and the step of the start script stay
\* related, wherever containers died before (railway-start.ts).
THEOREM SchemaIsKept == Spec => []SchemaInv
BY SchemaInvInit, SchemaInvStep, PTL DEF Spec

\* The variables of the start keep their types.
THEOREM TypesHold == Spec => []TypeOK
BY SchemaIsKept, PTL DEF SchemaInv

\* Under migrate deploy, a server that comes up has every migration of its
\* release recorded and in the schema, up to what an operator listed wrongly or
\* pushed away, whatever crashed before.
THEOREM ServersHaveTheirSchema == Spec => []ServesRelease
BY SchemaIsKept, PTL DEF SchemaInv

\* The history of migrations never claims what the schema lacks, unless an
\* operator made it so.
THEOREM HistoryIsKeptTrue == Spec => []HistoryIsTrue
BY SchemaIsKept, PTL DEF SchemaInv

-----------------------------------------------------------------------------
\* Only the reset and the push lose data: the one begins with a failed
\* migration, the other with another schema.
LEMMA OnlyDropLoses ==
    ASSUME SchemaInv, [Next]_vars, data, ~data'
    PROVE  DropsAllowed
<1>1. Drop \/ Push
  BY DEF Next, Boot, UpToDate, RunScript, RecordFinish, ScriptFails, StartBaseline,
         StartReset, StartRollBack, RollBackRefused, GiveUp, MaybeSeed, Listen,
         RecordStart, ResolveApplied, ResolveRolledBack, Restart, Crash, PrepareFails,
         Work, Shutdown, Exit, Redeploy, vars, database
<1>2. CASE Drop
  BY <1>2 DEF Drop, SchemaInv, ChoiceHolds, DropsAllowed
<1>3. CASE Push
  BY <1>3 DEF Push, SchemaInv, ChoiceHolds, DropsAllowed
<1> QED BY <1>1, <1>2, <1>3

\* Data is dropped only when the reset is asked for and a migration was left
\* unfinished, or when a push is and the schema is another one.
THEOREM DropsAreAskedFor == Spec => DropsOnlyBroken
<1>1. SchemaInv /\ [Next]_vars => [data /\ ~data' => DropsAllowed]_vars
  BY OnlyDropLoses
<1> QED BY <1>1, SchemaIsKept, PTL DEF Spec, DropsOnlyBroken
-----------------------------------------------------------------------------
(***************************************************************************)
(* The rate limiter                                                        *)
(***************************************************************************)

\* The tokens of a bucket count against the bound on what it granted.
AccountHolds ==
    \A b \in Bucket :
        Limits(b) => accepted[b] * Window[b] + Level(b)
                        <= Full(b) * (restarts + 1) + Capacity[b] * elapsed

\* A stored bucket has the token of a waiting caller by the time it was told.
PromiseHolds ==
    \A b \in Bucket : promise[b] # NoPromise =>
        /\ Limits(b)
        /\ buckets[b] # NoBucket =>
              /\ buckets[b].updatedAt <= now /\ buckets[b].updatedAt <= promise[b]
              /\ buckets[b].tokens + (promise[b] - buckets[b].updatedAt) * Capacity[b]
                    >= Window[b]

RateInv == LimiterTypeOK /\ AccountHolds /\ PromiseHolds

-----------------------------------------------------------------------------
(***************************************************************************)
(* Arithmetic                                                              *)
(***************************************************************************)

LEMMA ProductType == ASSUME NEW a \in Nat, NEW c \in Nat PROVE a * c \in Nat
OBVIOUS

LEMMA ProductOfInt == ASSUME NEW a \in Int, NEW c \in Int PROVE a * c \in Int
OBVIOUS

LEMMA ProductGrows ==
    ASSUME NEW a \in Int, NEW b \in Int, NEW c \in Nat, a <= b PROVE a * c <= b * c
OBVIOUS

LEMMA ProductOfSum ==
    ASSUME NEW a \in Int, NEW b \in Int, NEW c \in Int
    PROVE  /\ (a + b) * c = a * c + b * c
           /\ c * (a + b) = c * a + c * b
OBVIOUS

\* Seconds, rounded up, are no shorter than the milliseconds.
LEMMA SecondsSuffice ==
    ASSUME NEW ms \in Nat \ {0}
    PROVE  /\ RetryAfterSec(ms) \in Nat
           /\ Second * RetryAfterSec(ms) \in Nat
           /\ Second * RetryAfterSec(ms) >= ms
<1> DEFINE q == (ms + Second - 1) \div Second
<1>0. Second \in Nat /\ Second > 0
  BY ConfigAssumption
<1>1. q \in Nat /\ q * Second + Second > ms + Second - 1
  BY <1>0
<1> HIDE DEF q
<1>2. q * Second >= ms
  BY <1>0, <1>1
<1>3. RetryAfterSec(ms) = AtLeast(q, 1)
  BY DEF RetryAfterSec, q
<1>4. RetryAfterSec(ms) \in Nat /\ RetryAfterSec(ms) >= q
  BY <1>1, <1>3 DEF AtLeast
<1>5. RetryAfterSec(ms) * Second >= q * Second
  BY <1>0, <1>1, <1>4, ProductGrows
<1> QED BY <1>0, <1>1, <1>2, <1>4, <1>5, ProductType

-----------------------------------------------------------------------------
(***************************************************************************)
(* The level of a bucket                                                   *)
(***************************************************************************)

LEMMA ConfigType ==
    ASSUME NEW b \in Bucket
    PROVE  /\ Capacity[b] \in Nat /\ Window[b] \in Nat /\ Full(b) \in Nat
           /\ Window[b] <= IdleEvictMs /\ IdleEvictMs \in Nat
           /\ Limits(b) => Window[b] <= Full(b)
<1>1. Capacity[b] \in Nat /\ Window[b] \in Nat
  BY ConfigAssumption
<1>2. Limits(b) => 1 * Window[b] <= Capacity[b] * Window[b]
  BY <1>1, ProductGrows DEF Limits
<1> QED BY <1>1, <1>2, IdleAssumption, ProductType DEF Full

LEMMA RefilledType ==
    ASSUME LimiterTypeOK, NEW b \in Bucket, buckets[b] # NoBucket
    PROVE  /\ buckets[b] \in Entry /\ buckets[b].tokens \in Nat /\ buckets[b].updatedAt \in Int
           /\ Refilled(b) \in Nat /\ Refilled(b) >= buckets[b].tokens
           /\ now <= buckets[b].updatedAt => Refilled(b) = buckets[b].tokens
           /\ now >= buckets[b].updatedAt =>
                 Refilled(b) = buckets[b].tokens + (now - buckets[b].updatedAt) * Capacity[b]
<1>1. buckets[b] \in Entry /\ buckets[b].tokens \in Nat /\ buckets[b].updatedAt \in Int
  BY DEF LimiterTypeOK, Entry
<1>2. now \in Int /\ Capacity[b] \in Nat
  BY ConfigType DEF LimiterTypeOK
<1> DEFINE gap == AtLeast(now - buckets[b].updatedAt, 0)
<1>3. /\ gap \in Nat
      /\ now <= buckets[b].updatedAt => gap = 0
      /\ now >= buckets[b].updatedAt => gap = now - buckets[b].updatedAt
  BY <1>1, <1>2 DEF AtLeast
<1>4. Refilled(b) = buckets[b].tokens + gap * Capacity[b]
  BY DEF Refilled
<1> HIDE DEF gap
<1>5. gap * Capacity[b] \in Nat /\ (gap = 0 => gap * Capacity[b] = 0)
  BY <1>2, <1>3, ProductType
<1> QED BY <1>1, <1>2, <1>3, <1>4, <1>5

LEMMA LevelType ==
    ASSUME LimiterTypeOK, NEW b \in Bucket
    PROVE  /\ Level(b) \in Nat /\ Level(b) <= Full(b)
           /\ buckets[b] # NoBucket => Level(b) <= Refilled(b)
<1>1. CASE buckets[b] = NoBucket
  BY <1>1, ConfigType DEF Level
<1>2. CASE buckets[b] # NoBucket
  BY <1>2, ConfigType, RefilledType DEF Level, AtMost
<1> QED BY <1>1, <1>2

\* A bucket that the sweep takes had the time to become full.
LEMMA IdleIsFull ==
    ASSUME LimiterTypeOK, NEW b \in Bucket, buckets[b] # NoBucket,
           buckets[b].updatedAt < now - IdleEvictMs
    PROVE  Level(b) = Full(b)
<1>1. /\ buckets[b].updatedAt \in Int /\ now \in Int /\ Capacity[b] \in Nat /\ Window[b] \in Nat
      /\ Window[b] <= IdleEvictMs /\ IdleEvictMs \in Nat /\ buckets[b].tokens \in Nat
      /\ Full(b) \in Nat
  BY ConfigType, RefilledType DEF LimiterTypeOK
<1>2. Refilled(b) = buckets[b].tokens + (now - buckets[b].updatedAt) * Capacity[b]
  BY <1>1, RefilledType
<1>3. now - buckets[b].updatedAt \in Int /\ Window[b] <= now - buckets[b].updatedAt
  BY <1>1
<1>4. Window[b] * Capacity[b] <= (now - buckets[b].updatedAt) * Capacity[b]
  BY <1>1, <1>3, ProductGrows
<1>5. Full(b) = Window[b] * Capacity[b]
  BY <1>1 DEF Full
<1>6. Refilled(b) \in Nat
  BY RefilledType
<1>7. (now - buckets[b].updatedAt) * Capacity[b] \in Int
  BY <1>1, <1>3, ProductOfInt
<1>8. Refilled(b) >= Full(b)
  BY <1>1, <1>2, <1>4, <1>5, <1>7
<1> QED BY <1>1, <1>6, <1>8 DEF Level, AtMost

\* A call stores its bucket, which the sweep leaves; of the others it takes
\* some that are idle.
LEMMA StoredBuckets ==
    ASSUME LimiterTypeOK, NEW b \in Bucket, NEW tokens \in Nat, buckets' = Stored(b, tokens)
    PROVE  /\ buckets' \in [Bucket -> Entry \cup {NoBucket}]
           /\ buckets'[b] # NoBucket
           /\ buckets'[b].tokens = tokens /\ buckets'[b].updatedAt = now
           /\ \A other \in Bucket \ {b} :
                 \/ buckets'[other] = buckets[other]
                 \/ /\ buckets'[other] = NoBucket /\ buckets[other] # NoBucket
                    /\ buckets[other].updatedAt < now - IdleEvictMs
<1> DEFINE new == [tokens |-> tokens, updatedAt |-> now]
           map == [buckets EXCEPT ![b] = new]
<1>1. /\ new \in Entry /\ new.tokens = tokens /\ new.updatedAt = now
      /\ now \in Int /\ IdleEvictMs \in Nat
  BY IdleAssumption DEF LimiterTypeOK, Entry
<1>2. new # NoBucket
  BY <1>1, NoValueAssumption DEF Entry
<1>3. /\ map \in [Bucket -> Entry \cup {NoBucket}] /\ map[b] = new
      /\ \A other \in Bucket \ {b} : map[other] = buckets[other]
  BY <1>1 DEF LimiterTypeOK
<1>4. buckets' = Swept(map)
  BY DEF Stored
<1> HIDE DEF map, new
<1>5. ~(new.updatedAt < now - IdleEvictMs)
  BY <1>1
<1>6. CASE Size(map) < SweepThreshold
  <2>1. buckets' = map
    BY <1>4, <1>6 DEF Swept
  <2> QED BY <1>1, <1>2, <1>3, <2>1
<1>7. CASE ~(Size(map) < SweepThreshold)
  <2>1. buckets' = [a \in Bucket |->
                      IF map[a] # NoBucket /\ map[a].updatedAt < now - IdleEvictMs
                      THEN NoBucket ELSE map[a]]
    BY <1>4, <1>7 DEF Swept
  <2>2. buckets' \in [Bucket -> Entry \cup {NoBucket}]
    BY <1>3, <2>1
  <2>3. buckets'[b] = new
    BY <1>3, <1>5, <2>1
  <2>4. \A other \in Bucket \ {b} :
           \/ buckets'[other] = buckets[other]
           \/ /\ buckets'[other] = NoBucket /\ buckets[other] # NoBucket
              /\ buckets[other].updatedAt < now - IdleEvictMs
    BY <1>3, <2>1
  <2> QED BY <1>1, <1>2, <2>2, <2>3, <2>4
<1> QED BY <1>6, <1>7

\* The level of the other buckets does not change when they are swept.
LEMMA OtherLevels ==
    ASSUME LimiterTypeOK, NEW b \in Bucket, NEW tokens \in Nat, buckets' = Stored(b, tokens),
           now' = now, NEW other \in Bucket \ {b}
    PROVE  Level(other)' = Level(other)
<1>1. CASE buckets'[other] = buckets[other]
  BY <1>1 DEF Level, Refilled
<1>2. CASE buckets'[other] # buckets[other]
  <2>1. buckets'[other] = NoBucket /\ Level(other) = Full(other)
    BY <1>2, StoredBuckets, IdleIsFull
  <2> QED BY <2>1 DEF Level, Full
<1> QED BY <1>1, <1>2

\* The bucket that was stored holds what was stored.
LEMMA OwnLevel ==
    ASSUME LimiterTypeOK, NEW b \in Bucket, NEW tokens \in Nat, buckets' = Stored(b, tokens),
           now' = now, tokens <= Full(b)
    PROVE  Level(b)' = tokens /\ Refilled(b)' = tokens
<1>1. buckets'[b] # NoBucket /\ buckets'[b].tokens = tokens /\ buckets'[b].updatedAt = now
  BY StoredBuckets
<1>2. now \in Int /\ Capacity[b] \in Nat /\ Full(b) \in Nat
  BY ConfigType DEF LimiterTypeOK
<1>3. AtLeast(now - now, 0) = 0 /\ 0 * Capacity[b] = 0
  BY <1>2 DEF AtLeast
<1>4. Refilled(b)' = tokens
  BY <1>1, <1>3 DEF Refilled
<1> QED BY <1>1, <1>2, <1>4 DEF Level, AtMost, Full

-----------------------------------------------------------------------------
(***************************************************************************)
(* The steps                                                               *)
(***************************************************************************)

LEMMA RateInvInit == LimiterInit => RateInv
<1> SUFFICES ASSUME LimiterInit PROVE RateInv
  OBVIOUS
<1>1. LimiterTypeOK
  BY DEF LimiterInit, LimiterTypeOK, NoneAccepted, NoPromises
<1>2. AccountHolds
  <2> SUFFICES ASSUME NEW b \in Bucket
               PROVE  accepted[b] * Window[b] + Level(b)
                         <= Full(b) * (restarts + 1) + Capacity[b] * elapsed
    BY DEF AccountHolds
  <2>1. accepted[b] = 0 /\ restarts = 0 /\ elapsed = 0 /\ Level(b) = Full(b)
    BY DEF LimiterInit, NoneAccepted, Level
  <2> QED BY <2>1, ConfigType
<1>3. PromiseHolds
  BY DEF LimiterInit, PromiseHolds, NoPromises
<1> QED BY <1>1, <1>2, <1>3 DEF RateInv

\* The two sides of the account are numbers.
LEMMA AccountType ==
    ASSUME LimiterTypeOK, NEW b \in Bucket
    PROVE  /\ accepted[b] \in Nat /\ restarts \in Nat /\ elapsed \in Nat
           /\ accepted[b] * Window[b] \in Nat /\ Full(b) * (restarts + 1) \in Nat
           /\ Capacity[b] * elapsed \in Nat /\ Level(b) \in Nat
<1>1. accepted[b] \in Nat /\ restarts \in Nat /\ elapsed \in Nat /\ restarts + 1 \in Nat
  BY DEF LimiterTypeOK
<1> QED BY <1>1, ConfigType, LevelType, ProductType

LEMMA GrantedKeeps ==
    ASSUME RateInv, NEW b \in Bucket, Granted(b) PROVE RateInv'
<1> DEFINE left == Level(b) - Window[b]
<1>1. /\ LimiterTypeOK /\ Limits(b) /\ Level(b) \in Nat /\ Window[b] \in Nat /\ Full(b) \in Nat
      /\ left \in Nat /\ left <= Full(b)
  BY LevelType, ConfigType DEF RateInv, Granted, HasToken
<1>2. buckets' = Stored(b, left) /\ UNCHANGED <<now, elapsed, restarts, setBacks>>
  BY DEF Granted
<1>3. /\ accepted' = [accepted EXCEPT ![b] = @ + 1]
      /\ promise' = [promise EXCEPT ![b] = NoPromise]
  BY DEF Granted
<1> HIDE DEF left
<1>4. LimiterTypeOK'
  <2>1. buckets' \in [Bucket -> Entry \cup {NoBucket}]
    BY <1>1, <1>2, StoredBuckets
  <2>2. accepted' \in [Bucket -> Nat] /\ promise' \in [Bucket -> Int \cup {NoPromise}]
    BY <1>1, <1>3 DEF LimiterTypeOK
  <2> QED BY <1>1, <1>2, <2>1, <2>2 DEF LimiterTypeOK
<1>5. ASSUME NEW c \in Bucket, Limits(c)
      PROVE  accepted'[c] * Window[c] + Level(c)'
                <= Full(c) * (restarts + 1) + Capacity[c] * elapsed
  <2>0. accepted[c] * Window[c] + Level(c) <= Full(c) * (restarts + 1) + Capacity[c] * elapsed
    BY <1>5 DEF RateInv, AccountHolds
  <2>1. CASE c = b
    <3>1. Level(b)' = left
      BY <1>1, <1>2, OwnLevel
    <3>2. accepted'[b] = accepted[b] + 1 /\ accepted[b] \in Nat
      BY <1>1, <1>3 DEF LimiterTypeOK
    <3>3. accepted'[b] * Window[b] = accepted[b] * Window[b] + Window[b]
      <4>1. (accepted[b] + 1) * Window[b] = accepted[b] * Window[b] + 1 * Window[b]
        BY <1>1, <3>2, ProductOfSum
      <4>2. 1 * Window[b] = Window[b]
        BY <1>1
      <4> QED BY <3>2, <4>1, <4>2
    <3>4. accepted[b] * Window[b] \in Nat /\ Full(b) * (restarts + 1) \in Nat
          /\ Capacity[b] * elapsed \in Nat
      BY <1>1, AccountType
    <3> QED BY <1>1, <2>0, <2>1, <3>1, <3>3, <3>4 DEF left
  <2>2. CASE c # b
    <3>1. Level(c)' = Level(c) /\ accepted'[c] = accepted[c]
      BY <1>1, <1>2, <1>3, <2>2, OtherLevels DEF LimiterTypeOK
    <3> QED BY <2>0, <3>1
  <2> QED BY <2>1, <2>2
<1>6. AccountHolds'
  BY <1>2, <1>5 DEF AccountHolds, Limits, Full
<1>7. PromiseHolds'
  <2> SUFFICES ASSUME NEW c \in Bucket, promise'[c] # NoPromise
               PROVE  /\ Limits(c)
                      /\ buckets'[c] # NoBucket => buckets'[c] = buckets[c]
                      /\ promise'[c] = promise[c]
    BY <1>2 DEF RateInv, PromiseHolds, Limits
  <2>1. c # b /\ promise'[c] = promise[c]
    BY <1>1, <1>3 DEF LimiterTypeOK
  <2> QED BY <1>1, <1>2, <2>1, StoredBuckets DEF RateInv, PromiseHolds
<1> QED BY <1>4, <1>6, <1>7 DEF RateInv

\* A caller who is told how long to wait finds a token then.
LEMMA PromiseIsLateEnough ==
    ASSUME LimiterTypeOK, NEW b \in Bucket, Limits(b), NEW ms \in RetryAfterMs(b),
           NEW wait \in {ms, Second * RetryAfterSec(ms)}
    PROVE  /\ wait \in Nat /\ wait * Capacity[b] >= Window[b] - Level(b)
<1>1. /\ ms \in Nat \ {0} /\ ms * Capacity[b] >= Window[b] - Level(b)
      /\ Capacity[b] \in Nat /\ Window[b] \in Nat /\ Level(b) \in Nat
  BY ConfigType, LevelType DEF RetryAfterMs
<1>2. wait \in Nat /\ wait >= ms
  BY <1>1, SecondsSuffice
<1>3. wait * Capacity[b] >= ms * Capacity[b]
  BY <1>1, <1>2, ProductGrows
<1>4. wait * Capacity[b] \in Nat /\ ms * Capacity[b] \in Nat
  BY <1>1, <1>2, ProductType
<1> QED BY <1>1, <1>2, <1>3, <1>4

\* A waiting caller is refused only before its time.
LEMMA RefusedIsEarly ==
    ASSUME RateInv, NEW b \in Bucket, LacksToken(b), promise[b] # NoPromise
    PROVE  /\ now <= promise[b]
           /\ Refilled(b) + (promise[b] - now) * Capacity[b] >= Window[b]
<1> DEFINE at == buckets[b].updatedAt
           tokens == buckets[b].tokens
           C == Capacity[b]
<1>1. /\ at \in Int /\ tokens \in Nat /\ now \in Int /\ promise[b] \in Int
      /\ C \in Nat /\ C >= 1 /\ Window[b] \in Nat
      /\ at <= now /\ at <= promise[b] /\ tokens + (promise[b] - at) * C >= Window[b]
      /\ Refilled(b) = tokens + (now - at) * C /\ Refilled(b) <= Window[b]
  BY ConfigType, RefilledType DEF RateInv, LimiterTypeOK, LacksToken, PromiseHolds, Limits
<1> HIDE DEF at, tokens, C
<1>2. now - at \in Int /\ promise[b] - at \in Int /\ promise[b] - now \in Int
  BY <1>1
<1>3. (promise[b] - at) * C = ((now - at) + (promise[b] - now)) * C
  BY <1>1
<1>4. (promise[b] - at) * C = (now - at) * C + (promise[b] - now) * C
  BY <1>1, <1>2, <1>3, ProductOfSum
<1>5. (now - at) * C \in Int /\ (promise[b] - now) * C \in Int
  BY <1>1, <1>2, ProductOfInt
<1>6. Refilled(b) + (promise[b] - now) * C >= Window[b]
  BY <1>1, <1>4, <1>5
<1>7. now <= promise[b]
  <2> SUFFICES ASSUME promise[b] - now <= -1 PROVE FALSE
    BY <1>1
  <2>1. (promise[b] - now) * C <= (-1) * C
    BY <1>1, <1>2, ProductGrows
  <2>2. (-1) * C <= -1
    BY <1>1
  <2> QED BY <1>1, <1>5, <1>6, <2>1, <2>2
<1> QED BY <1>6, <1>7 DEF C

LEMMA RefusedKeeps ==
    ASSUME RateInv, NEW b \in Bucket, Refused(b) PROVE RateInv'
<1>1. /\ LimiterTypeOK /\ Limits(b) /\ LacksToken(b) /\ Level(b) \in Nat /\ Window[b] \in Nat
      /\ Level(b) <= Full(b) /\ now \in Int /\ Capacity[b] \in Nat
  BY LevelType, ConfigType DEF RateInv, Refused, LimiterTypeOK
<1>2. buckets' = Stored(b, Level(b)) /\ UNCHANGED <<now, elapsed, accepted, restarts, setBacks>>
  BY DEF Refused
<1>3. PICK ms \in RetryAfterMs(b) : \E wait \in {ms, Second * RetryAfterSec(ms)} :
         promise' = [promise EXCEPT ![b] = IF @ = NoPromise THEN now + wait ELSE @]
  BY DEF Refused, Told
<1>4. PICK wait \in {ms, Second * RetryAfterSec(ms)} :
         promise' = [promise EXCEPT ![b] = IF @ = NoPromise THEN now + wait ELSE @]
  BY <1>3
<1>5. wait \in Nat /\ wait * Capacity[b] >= Window[b] - Level(b)
  BY <1>1, PromiseIsLateEnough
<1>6. /\ promise' \in [Bucket -> Int \cup {NoPromise}]
      /\ promise'[b] = IF promise[b] = NoPromise THEN now + wait ELSE promise[b]
      /\ \A c \in Bucket \ {b} : promise'[c] = promise[c]
  BY <1>1, <1>4, <1>5 DEF LimiterTypeOK
<1>7. LimiterTypeOK'
  BY <1>1, <1>2, <1>6, StoredBuckets DEF LimiterTypeOK
<1>8. \A c \in Bucket : Level(c)' = Level(c)
  BY <1>1, <1>2, OwnLevel, OtherLevels
<1>9. AccountHolds'
  BY <1>2, <1>8 DEF RateInv, AccountHolds, Limits, Full
<1>10. Level(b) = Refilled(b)
  BY <1>1, ConfigType, RefilledType DEF LacksToken, Level, AtMost
<1>11. PromiseHolds'
  <2> SUFFICES ASSUME NEW c \in Bucket, promise'[c] # NoPromise
               PROVE  /\ Limits(c)
                      /\ buckets'[c] # NoBucket =>
                            /\ buckets'[c].updatedAt <= now
                            /\ buckets'[c].updatedAt <= promise'[c]
                            /\ buckets'[c].tokens
                                  + (promise'[c] - buckets'[c].updatedAt) * Capacity[c]
                                  >= Window[c]
    BY <1>2 DEF PromiseHolds, Limits
  <2>1. CASE c # b
    <3>1. promise'[c] = promise[c] /\ (buckets'[c] # NoBucket => buckets'[c] = buckets[c])
      BY <1>1, <1>2, <1>6, <2>1, StoredBuckets
    <3> QED BY <3>1 DEF RateInv, PromiseHolds
  <2>2. CASE c = b
    <3>1. buckets'[b].tokens = Level(b) /\ buckets'[b].updatedAt = now
      BY <1>1, <1>2, StoredBuckets
    <3>2. CASE promise[b] = NoPromise
      <4>1. promise'[b] = now + wait /\ promise'[b] - now = wait
        BY <1>1, <1>5, <1>6, <3>2
      <4>2. wait * Capacity[b] \in Nat
        BY <1>1, <1>5, ProductType
      <4> QED BY <1>1, <1>5, <2>2, <3>1, <4>1, <4>2
    <3>3. CASE promise[b] # NoPromise
      <4>1. promise'[b] = promise[b]
        BY <1>6, <3>3
      <4> QED BY <1>1, <1>10, <2>2, <3>1, <3>3, <4>1, RefusedIsEarly
    <3> QED BY <3>2, <3>3
  <2> QED BY <2>1, <2>2
<1> QED BY <1>7, <1>9, <1>11 DEF RateInv

\* Time refills a bucket at its rate, at most.
LEMMA ElapseKeeps ==
    ASSUME RateInv, NEW ms \in 1..MaxNow, Elapse(ms) PROVE RateInv'
<1>1. /\ LimiterTypeOK /\ ms \in Nat /\ now \in Int /\ elapsed \in Nat
      /\ now' = now + ms /\ elapsed' = elapsed + ms
      /\ UNCHANGED <<buckets, accepted, restarts, promise, setBacks>>
  BY DEF RateInv, LimiterTypeOK, Elapse
<1>2. LimiterTypeOK'
  BY <1>1 DEF LimiterTypeOK
<1>3. ASSUME NEW b \in Bucket
      PROVE  Level(b)' <= Level(b) + ms * Capacity[b] /\ Level(b)' \in Nat
  <2>0. Full(b)' = Full(b) /\ Capacity[b] \in Nat /\ Full(b) \in Nat /\ ms * Capacity[b] \in Nat
    BY <1>1, ConfigType, ProductType DEF Full
  <2>1. CASE buckets[b] = NoBucket
    BY <1>1, <2>0, <2>1 DEF Level
  <2>2. CASE buckets[b] # NoBucket
    <3> DEFINE before == AtLeast(now - buckets[b].updatedAt, 0)
               after == AtLeast(now + ms - buckets[b].updatedAt, 0)
    <3>1. buckets[b].updatedAt \in Int /\ buckets[b].tokens \in Nat /\ Refilled(b) \in Nat
      BY <1>1, <2>2, RefilledType
    <3>2. before \in Nat /\ after \in Nat /\ after <= before + ms
      BY <1>1, <3>1 DEF AtLeast
    <3>3. /\ Refilled(b) = buckets[b].tokens + before * Capacity[b]
          /\ Refilled(b)' = buckets[b].tokens + after * Capacity[b]
      <4>1. Refilled(b) = buckets[b].tokens + before * Capacity[b]
        BY DEF Refilled
      <4>2. buckets'[b] = buckets[b] /\ now' = now + ms
        BY <1>1
      <4>3. Refilled(b)' = buckets[b].tokens + after * Capacity[b]
        <5>1. Refilled(b)' = buckets'[b].tokens
                                + AtLeast(now' - buckets'[b].updatedAt, 0) * Capacity[b]
          BY DEF Refilled
        <5>2. now' - buckets'[b].updatedAt = now + ms - buckets[b].updatedAt
          BY <1>1, <3>1, <4>2
        <5>3. AtLeast(now' - buckets'[b].updatedAt, 0) = after
          BY <5>2 DEF AtLeast
        <5> QED BY <4>2, <5>1, <5>3
      <4> QED BY <4>1, <4>3
    <3> HIDE DEF before, after
    <3>4. after * Capacity[b] <= (before + ms) * Capacity[b]
      BY <1>1, <2>0, <3>2, ProductGrows
    <3>5. (before + ms) * Capacity[b] = before * Capacity[b] + ms * Capacity[b]
      BY <1>1, <2>0, <3>2, ProductOfSum
    <3>6. after * Capacity[b] \in Nat /\ before * Capacity[b] \in Nat
      BY <2>0, <3>2, ProductType
    <3>7. Refilled(b)' <= Refilled(b) + ms * Capacity[b] /\ Refilled(b)' \in Nat
      BY <2>0, <3>1, <3>3, <3>4, <3>5, <3>6
    <3>8. Level(b) = AtMost(Refilled(b), Full(b)) /\ Level(b)' = AtMost(Refilled(b)', Full(b))
      BY <1>1, <2>0, <2>2 DEF Level
    <3> QED BY <2>0, <3>1, <3>7, <3>8 DEF AtMost
  <2> QED BY <2>1, <2>2
<1>4. ASSUME NEW b \in Bucket, Limits(b)
      PROVE  accepted[b] * Window[b] + Level(b)'
                <= Full(b) * (restarts + 1) + Capacity[b] * (elapsed + ms)
  <2>1. accepted[b] * Window[b] + Level(b) <= Full(b) * (restarts + 1) + Capacity[b] * elapsed
    BY <1>4 DEF RateInv, AccountHolds
  <2>2. Capacity[b] * (elapsed + ms) = Capacity[b] * elapsed + ms * Capacity[b]
    BY <1>1, ConfigType, ProductOfSum
  <2>3. Level(b)' \in Nat
    BY <1>3
  <2>4. ms * Capacity[b] \in Nat
    BY <1>1, ConfigType, ProductType
  <2> QED BY <1>1, <1>3, <2>1, <2>2, <2>3, <2>4, AccountType
<1>5. AccountHolds'
  BY <1>1, <1>4 DEF AccountHolds, Limits, Full
<1>6. PromiseHolds'
  <2>1. \A b \in Bucket : buckets[b] # NoBucket => buckets[b].updatedAt \in Int
    BY <1>1, RefilledType
  <2> QED BY <1>1, <2>1 DEF RateInv, PromiseHolds, Limits
<1> QED BY <1>2, <1>5, <1>6 DEF RateInv

\* A clock that runs backwards refills nothing.
LEMMA SetBackKeeps ==
    ASSUME RateInv, NEW ms \in 1..MaxSetBack, SetBack(ms) PROVE RateInv'
<1>1. /\ LimiterTypeOK /\ ms \in Nat /\ now \in Int /\ now' = now - ms /\ promise' = NoPromises
      /\ setBacks' = setBacks + 1 /\ UNCHANGED <<buckets, elapsed, accepted, restarts>>
  BY DEF RateInv, LimiterTypeOK, SetBack
<1>2. LimiterTypeOK'
  BY <1>1 DEF LimiterTypeOK, NoPromises
<1>3. ASSUME NEW b \in Bucket
      PROVE  Level(b)' <= Level(b) /\ Level(b)' \in Nat
  <2>0. Full(b)' = Full(b) /\ Capacity[b] \in Nat /\ Full(b) \in Nat
    BY ConfigType DEF Full
  <2>1. CASE buckets[b] = NoBucket
    BY <1>1, <2>0, <2>1 DEF Level
  <2>2. CASE buckets[b] # NoBucket
    <3> DEFINE before == AtLeast(now - buckets[b].updatedAt, 0)
               after == AtLeast(now' - buckets'[b].updatedAt, 0)
    <3>1. buckets[b].updatedAt \in Int /\ buckets[b].tokens \in Nat /\ Refilled(b) \in Nat
      BY <1>1, <2>2, RefilledType
    <3>2. buckets'[b] = buckets[b]
      BY <1>1
    <3>3. before \in Nat /\ after \in Nat /\ after <= before
      BY <1>1, <3>1, <3>2 DEF AtLeast
    <3>4. Refilled(b) = buckets[b].tokens + before * Capacity[b]
      BY DEF Refilled
    <3>5. Refilled(b)' = buckets[b].tokens + after * Capacity[b]
      BY <3>2 DEF Refilled
    <3> HIDE DEF before, after
    <3>6. after * Capacity[b] <= before * Capacity[b]
      BY <2>0, <3>3, ProductGrows
    <3>7. after * Capacity[b] \in Nat /\ before * Capacity[b] \in Nat
      BY <2>0, <3>3, ProductType
    <3>8. Refilled(b)' <= Refilled(b) /\ Refilled(b)' \in Nat
      BY <3>1, <3>4, <3>5, <3>6, <3>7
    <3>9. Level(b) = AtMost(Refilled(b), Full(b)) /\ Level(b)' = AtMost(Refilled(b)', Full(b))
      BY <1>1, <2>0, <2>2 DEF Level
    <3> QED BY <2>0, <3>1, <3>8, <3>9 DEF AtMost
  <2> QED BY <2>1, <2>2
<1>4. ASSUME NEW b \in Bucket, Limits(b)
      PROVE  accepted[b] * Window[b] + Level(b)'
                <= Full(b) * (restarts + 1) + Capacity[b] * elapsed
  <2>1. accepted[b] * Window[b] + Level(b) <= Full(b) * (restarts + 1) + Capacity[b] * elapsed
    BY <1>4 DEF RateInv, AccountHolds
  <2> QED BY <1>1, <1>3, <2>1, AccountType
<1>5. AccountHolds'
  BY <1>1, <1>4 DEF AccountHolds, Limits, Full
<1>6. PromiseHolds'
  BY <1>1 DEF PromiseHolds, NoPromises
<1> QED BY <1>2, <1>5, <1>6 DEF RateInv

\* A restart grants every bucket once more.
LEMMA LimiterRestartKeeps == ASSUME RateInv, LimiterRestart PROVE RateInv'
<1>1. /\ LimiterTypeOK /\ restarts \in Nat /\ restarts' = restarts + 1
      /\ buckets' = [b \in Bucket |-> NoBucket]
      /\ UNCHANGED <<now, elapsed, accepted, promise, setBacks>>
  BY DEF RateInv, LimiterTypeOK, LimiterRestart
<1>2. LimiterTypeOK'
  BY <1>1 DEF LimiterTypeOK
<1>3. ASSUME NEW b \in Bucket, Limits(b)
      PROVE  accepted[b] * Window[b] + Level(b)'
                <= Full(b) * (restarts + 1 + 1) + Capacity[b] * elapsed
  <2>1. Level(b)' = Full(b) /\ Full(b) \in Nat
    BY <1>1, ConfigType DEF Level, Full
  <2>2. accepted[b] * Window[b] + Level(b) <= Full(b) * (restarts + 1) + Capacity[b] * elapsed
    BY <1>3 DEF RateInv, AccountHolds
  <2>3. Full(b) * (restarts + 1 + 1) = Full(b) * (restarts + 1) + Full(b)
    <3>1. Full(b) * (restarts + 1 + 1) = Full(b) * (restarts + 1) + Full(b) * 1
      BY <1>1, <2>1, ProductOfSum
    <3> QED BY <2>1, <3>1
  <2> QED BY <1>1, <2>1, <2>2, <2>3, AccountType
<1>4. AccountHolds'
  BY <1>1, <1>3 DEF AccountHolds, Limits, Full
<1>5. PromiseHolds'
  BY <1>1 DEF RateInv, PromiseHolds, Limits
<1> QED BY <1>2, <1>4, <1>5 DEF RateInv

\* What a bucket holds when a count begins is at most a full bucket.
LEMMA CountAnewKeeps == ASSUME RateInv, CountAnew PROVE RateInv'
<1>1. /\ LimiterTypeOK /\ elapsed' = 0 /\ accepted' = NoneAccepted /\ restarts' = 0
      /\ UNCHANGED <<now, buckets, promise, setBacks>>
  BY DEF RateInv, CountAnew
<1>2. LimiterTypeOK'
  BY <1>1 DEF LimiterTypeOK, NoneAccepted
<1>3. ASSUME NEW b \in Bucket
      PROVE  accepted'[b] * Window[b] + Level(b)' <= Full(b) * (0 + 1) + Capacity[b] * 0
  <2>1. Level(b)' = Level(b)
    BY <1>1 DEF Level, Refilled, Full
  <2>2. Level(b) \in Nat /\ Level(b) <= Full(b)
    BY <1>1, LevelType
  <2>3. accepted'[b] = 0
    BY <1>1 DEF NoneAccepted
  <2> QED BY <2>1, <2>2, <2>3, ConfigType
<1>4. AccountHolds'
  BY <1>1, <1>3 DEF AccountHolds, Limits, Full
<1>5. PromiseHolds'
  BY <1>1 DEF RateInv, PromiseHolds, Limits
<1> QED BY <1>2, <1>4, <1>5 DEF RateInv

LEMMA RateInvStep == RateInv /\ [LimiterNext]_limiterVars => RateInv'
<1> SUFFICES ASSUME RateInv, [LimiterNext]_limiterVars PROVE RateInv'
  OBVIOUS
<1>1. CASE UNCHANGED limiterVars
  BY <1>1 DEF RateInv, LimiterTypeOK, AccountHolds, PromiseHolds, Level, Refilled, Limits, Full,
     limiterVars, history
<1>2. ASSUME NEW b \in Bucket, Unlimited(b) PROVE RateInv'
  BY <1>1, <1>2 DEF Unlimited
<1>3. ASSUME NEW b \in Bucket, Granted(b) \/ Refused(b) PROVE RateInv'
  BY <1>3, GrantedKeeps, RefusedKeeps
<1>4. ASSUME NEW ms \in 1..MaxNow, Elapse(ms) PROVE RateInv'
  BY <1>4, ElapseKeeps
<1>5. ASSUME NEW ms \in 1..MaxSetBack, SetBack(ms) PROVE RateInv'
  BY <1>5, SetBackKeeps
<1>6. CASE LimiterRestart \/ CountAnew
  BY <1>6, LimiterRestartKeeps, CountAnewKeeps
<1> QED BY <1>1, <1>2, <1>3, <1>4, <1>5, <1>6 DEF LimiterNext

\* What a bucket holds and what it has granted stay in balance, over refills,
\* evictions, restarts and corrections of the clock (rateLimit).
THEOREM RateInvHolds == LimiterSpec => []RateInv
BY RateInvInit, RateInvStep, PTL DEF LimiterSpec

\* The variables of the limiter keep their types: a bucket never holds less than
\* nothing.
THEOREM LimiterTypesHold == LimiterSpec => []LimiterTypeOK
BY RateInvHolds, PTL DEF RateInv

\* Of every bucket, in every stretch of time, no more is granted than a bucket
\* at its start, a bucket for each restart and the refill.
LEMMA RateInvBounds == RateInv => GrantsBounded
<1> SUFFICES ASSUME RateInv, NEW b \in Bucket, Limits(b)
             PROVE  accepted[b] * Window[b]
                       <= Full(b) * (restarts + 1) + Capacity[b] * elapsed
  BY DEF GrantsBounded
<1>1. LimiterTypeOK
  BY DEF RateInv
<1>2. accepted[b] * Window[b] + Level(b) <= Full(b) * (restarts + 1) + Capacity[b] * elapsed
  BY DEF RateInv, AccountHolds
<1> QED BY <1>1, <1>2, AccountType

\* Of every bucket no more is granted than it held, its restarts and its refill
\* allow.
THEOREM GrantsAreBounded == LimiterSpec => []GrantsBounded
BY RateInvHolds, RateInvBounds, PTL

\* A caller who comes back after the time it was told is granted.
LEMMA RateInvHonours == RateInv => RetryHonoured
<1> SUFFICES ASSUME RateInv, NEW b \in Bucket, promise[b] # NoPromise, now > promise[b]
             PROVE  HasToken(b) /\ ~LacksToken(b)
  BY DEF RetryHonoured
<1>1. /\ LimiterTypeOK /\ now \in Int /\ promise[b] \in Int /\ Limits(b)
      /\ Window[b] \in Nat /\ Window[b] <= Full(b) /\ Full(b) \in Nat
  BY ConfigType DEF RateInv, LimiterTypeOK, PromiseHolds
<1>2. ~LacksToken(b)
  <2>1. LacksToken(b) => now <= promise[b]
    BY RefusedIsEarly
  <2> QED BY <1>1, <2>1
<1>3. CASE buckets[b] = NoBucket
  BY <1>1, <1>2, <1>3 DEF HasToken, Level
<1>4. CASE buckets[b] # NoBucket
  <2>1. Refilled(b) \in Nat /\ Refilled(b) > Window[b]
    BY <1>1, <1>2, <1>4, RefilledType DEF LacksToken
  <2> QED BY <1>1, <1>2, <1>4, <2>1 DEF HasToken, Level, AtMost
<1> QED BY <1>3, <1>4

\* A caller who waits as long as Retry-After says is granted.
THEOREM RetriesAreHonoured == LimiterSpec => []RetryHonoured
BY RateInvHolds, RateInvHonours, PTL

-----------------------------------------------------------------------------
\* Only a sweep takes a bucket between restarts, and it takes full ones.
LEMMA SweptWereFull ==
    ASSUME RateInv, [LimiterNext]_limiterVars, restarts' # restarts + 1,
           NEW b \in Bucket, buckets[b] # NoBucket, buckets'[b] = NoBucket
    PROVE  Level(b) = Full(b)
<1>1. PICK c \in Bucket : Granted(c) \/ Refused(c)
  BY DEF LimiterNext, Unlimited, Elapse, SetBack, LimiterRestart, CountAnew, limiterVars
<1>2. LimiterTypeOK /\ Level(c) \in Nat /\ (Granted(c) => Level(c) - Window[c] \in Nat)
  BY LevelType, ConfigType DEF RateInv, Granted, HasToken
<1>3. \E tokens \in Nat : buckets' = Stored(c, tokens)
  BY <1>1, <1>2 DEF Granted, Refused
<1>4. buckets[b].updatedAt < now - IdleEvictMs
  BY <1>2, <1>3, StoredBuckets
<1> QED BY <1>2, <1>4, IdleIsFull

\* Eviction changes no decision.
THEOREM EvictionsAreFull == LimiterSpec => EvictedAreFull
<1>1. RateInv /\ [LimiterNext]_limiterVars
        => [restarts' # restarts + 1 =>
              \A b \in Bucket : buckets[b] # NoBucket /\ buckets'[b] = NoBucket
                                    => Level(b) = Full(b)]_limiterVars
  BY SweptWereFull
<1> QED BY <1>1, RateInvHolds, PTL DEF LimiterSpec, EvictedAreFull
================================================================================
