-------------------------------- MODULE Startup --------------------------------
(***************************************************************************)
(* The start of a container: scripts/railway-start.ts brings the schema of *)
(* the database up to date with the Prisma CLI, seeds it on request and    *)
(* runs server.ts.  Any failure ends the container, which the platform     *)
(* starts again a few times with the same environment.                     *)
(*                                                                         *)
(* The database outlives the container, and the container can die between  *)
(* any two steps, those inside a CLI command included.  The commands are   *)
(* modelled by what they do to the schema and to the history of            *)
(* migrations.  Migrations are numbered in the order of their directories; *)
(* release r ships the migrations 1..r.                                    *)
(***************************************************************************)
EXTENDS Integers, FiniteSets

CONSTANTS
    Releases,     \* bound of the model: the releases are 1..Releases
    MaxRetries,   \* restartPolicyMaxRetries
    FromError,    \* the value auto of PRISMA_RESOLVE_ROLLED_BACK
    Unset         \* the variable is not set, or nothing is under way

ASSUME ReleasesAssumption == Releases \in Nat \ {0} /\ MaxRetries \in Nat

ASSUME UnsetAssumption == FromError \notin Nat /\ Unset \notin Nat /\ FromError # Unset

VARIABLES
    env,        \* the variables of the service
    phase,      \* where the container is
    listed,     \* the baseline names that are not resolved yet
    migrating,  \* the migration that the CLI is applying
    ran,        \* whether its script has run
    retries,    \* restarts since the variables were last set
    calm,       \* nothing kills the container or fails by itself any more
    table,      \* the table of the migration history exists
    applied,    \* the migrations recorded as applied
    failed,     \* the migrations recorded as started and not finished
    objects,    \* the migrations whose objects are in the schema
    data,       \* the database holds data of its users
    misled      \* the migrations that an operator put out of step with the history

container == <<phase, listed, migrating, ran>>
database == <<table, applied, failed, objects, data, misled>>
vars == <<env, container, retries, calm, database>>

Migration == 1..Releases
Phase == {"down", "deploy", "baseline", "reset", "rollback", "retry", "push",
          "seed", "prepare", "serving", "draining"}

\* The environment; no baseline list is the empty set.
Env == [release : Migration, strategy : {"migrate", "push"}, baseline : SUBSET Migration,
        reset : BOOLEAN, rolledBack : Migration \cup {FromError, Unset}]

Shipped == 1..env.release
Pending == Shipped \ applied

TypeOK ==
    /\ env \in Env
    /\ phase \in Phase
    /\ listed \subseteq Migration
    /\ migrating \in Migration \cup {Unset} /\ ran \in BOOLEAN
    /\ retries \in 0..MaxRetries /\ calm \in BOOLEAN
    /\ table \in BOOLEAN /\ data \in BOOLEAN
    /\ applied \subseteq Migration /\ failed \subseteq Migration
    /\ objects \subseteq Migration /\ misled \subseteq Migration

\* A database that is empty, or one that db push has made for some release.
Init ==
    /\ env \in Env
    /\ phase = "down" /\ listed = {} /\ migrating = Unset /\ ran = FALSE
    /\ retries = 0 /\ calm = FALSE
    /\ table = FALSE /\ applied = {} /\ failed = {} /\ misled = {}
    /\ \E release \in 0..Releases : objects = 1..release /\ data = (release > 0)

-----------------------------------------------------------------------------
(***************************************************************************)
(* The container                                                           *)
(***************************************************************************)

Idle == migrating = Unset

GoTo(next) == phase' = next /\ UNCHANGED <<listed, migrating, ran>>

\* The start script gives up, or the container is gone.
GoDown == phase' = "down" /\ listed' = {} /\ migrating' = Unset /\ ran' = FALSE

FirstPhase == IF env.strategy = "push" THEN "push" ELSE "deploy"

\* The platform starts a container that failed again, a few times.
Restart ==
    /\ phase = "down"
    /\ retries < MaxRetries
    /\ retries' = retries + 1
    /\ GoTo(FirstPhase)
    /\ UNCHANGED <<env, calm, database>>

\* The operator sets the variables, which replaces the container, a running one
\* by way of its end.  With the last of these deployments the troubles may be
\* over.
Redeploy(e, last) ==
    /\ ~calm /\ phase = "down"
    /\ env' = e /\ calm' = last /\ retries' = 0
    /\ phase' = IF e.strategy = "push" THEN "push" ELSE "deploy"
    /\ listed' = {} /\ migrating' = Unset /\ ran' = FALSE
    /\ UNCHANGED database

Crash ==
    /\ ~calm /\ phase # "down"
    /\ GoDown
    /\ UNCHANGED <<env, retries, calm, database>>

-----------------------------------------------------------------------------
(***************************************************************************)
(* prisma migrate deploy                                                   *)
(***************************************************************************)

Deploying == phase \in {"deploy", "retry"} /\ Idle

P3009 == failed # {}
P3005 == ~table /\ objects # {}

UpToDate ==
    /\ Deploying /\ ~P3009 /\ ~P3005
    /\ Pending = {}
    /\ GoTo("seed")
    /\ table' = TRUE
    /\ UNCHANGED <<env, retries, calm, applied, failed, objects, data, misled>>

\* The row of the first pending migration is written before its script runs.
RecordStart(m) ==
    /\ Deploying /\ ~P3009 /\ ~P3005
    /\ m \in Pending /\ \A other \in Pending : m <= other
    /\ migrating' = m /\ ran' = FALSE
    /\ table' = TRUE /\ failed' = failed \cup {m}
    /\ UNCHANGED <<env, phase, listed, retries, calm, applied, objects, data, misled>>

\* The script is one transaction of PostgreSQL.  It creates its objects and
\* alters those of the migrations before it.
CanRun(m) == m \notin objects /\ 1..m - 1 \subseteq objects

RunScript ==
    /\ ~Idle /\ ~ran
    /\ CanRun(migrating)
    /\ ran' = TRUE
    /\ objects' = objects \cup {migrating}
    /\ UNCHANGED <<env, phase, listed, migrating, retries, calm, table, applied, failed, data, misled>>

RecordFinish ==
    /\ ~Idle /\ ran
    /\ applied' = applied \cup {migrating} /\ failed' = failed \ {migrating}
    /\ migrating' = Unset /\ ran' = FALSE
    /\ UNCHANGED <<env, phase, listed, retries, calm, table, objects, data, misled>>

\* The script fails, and deploy with it: no error the script knows.
ScriptFails ==
    /\ ~Idle /\ ~ran
    /\ ~CanRun(migrating) \/ ~calm
    /\ GoDown
    /\ UNCHANGED <<env, retries, calm, database>>

-----------------------------------------------------------------------------
(***************************************************************************)
(* applySchema: the recoveries                                             *)
(***************************************************************************)

\* Mutant: every migration of the release is taken as applied.
BaselinedAll == IF env.baseline = {} THEN {} ELSE Shipped

\* The migrations that the operator lists as applied.
Baselined == env.baseline

\* P3005, and the list names migrations of this release.
StartBaseline ==
    /\ phase = "deploy" /\ Idle /\ P3005
    /\ Baselined # {} /\ Baselined \subseteq Shipped
    /\ phase' = "baseline" /\ listed' = Baselined
    /\ UNCHANGED <<env, migrating, ran, retries, calm, database>>

\* migrate resolve --applied, one command for each name.
ResolveApplied(m) ==
    /\ phase = "baseline" /\ m \in listed
    /\ listed' = listed \ {m}
    /\ phase' = IF listed = {m} THEN "retry" ELSE phase
    /\ table' = TRUE /\ applied' = applied \cup {m}
    /\ misled' = IF m \in env.baseline \ objects THEN misled \cup {m} ELSE misled
    /\ UNCHANGED <<env, migrating, ran, retries, calm, failed, objects, data>>

\* Mutant: the roll-back is tried before the reset.
ResetsSecond == env.reset /\ env.rolledBack = Unset

\* What is done about P3009: the reset comes first.
Resets == env.reset
RollsBack == ~Resets /\ env.rolledBack # Unset

\* Mutant: the variable asks for a reset on every start.
ResetAlways ==
    /\ phase = "deploy" /\ Idle
    /\ env.reset
    /\ GoTo("reset")
    /\ UNCHANGED <<env, retries, calm, database>>

\* P3009, and the operator accepts that everything is dropped.
StartReset ==
    /\ phase = "deploy" /\ Idle /\ P3009
    /\ Resets
    /\ GoTo("reset")
    /\ UNCHANGED <<env, retries, calm, database>>

\* migrate reset --force: everything is dropped, then deployed anew.
Drop ==
    /\ phase = "reset"
    /\ GoTo("retry")
    /\ table' = FALSE /\ applied' = {} /\ failed' = {} /\ objects' = {} /\ data' = FALSE
    /\ misled' = {}
    /\ UNCHANGED <<env, retries, calm>>

\* P3009, and the operator names the migration or has it read from the error.
StartRollBack ==
    /\ phase = "deploy" /\ Idle /\ P3009
    /\ RollsBack
    /\ GoTo("rollback")
    /\ UNCHANGED <<env, retries, calm, database>>

\* Mutant: auto takes the newest migration of the release.
TargetNewest == {IF env.rolledBack = FromError THEN env.release ELSE env.rolledBack}

\* What --rolled-back is given.
Target == IF env.rolledBack = FromError THEN failed ELSE {env.rolledBack}

\* migrate resolve --rolled-back; it refuses what has not failed.
ResolveRolledBack(m) ==
    /\ phase = "rollback"
    /\ m \in Target \cap failed
    /\ failed' = failed \ {m}
    /\ GoTo("retry")
    /\ UNCHANGED <<env, retries, calm, table, applied, objects, data, misled>>

RollBackRefused ==
    /\ phase = "rollback"
    /\ Target \ failed # {}
    /\ GoDown
    /\ UNCHANGED <<env, retries, calm, database>>

\* Whether applySchema throws: no recovery is chosen, or the one chosen did not
\* help.
Hopeless ==
    /\ Idle
    /\ \/ phase = "deploy" /\ P3005 /\ (Baselined = {} \/ ~(Baselined \subseteq Shipped))
       \/ phase = "deploy" /\ P3009 /\ ~Resets /\ ~RollsBack
       \/ phase = "retry" /\ (P3005 \/ P3009)

\* Mutant: an error of applySchema is not fatal, like one of the seed.
CarryOn ==
    /\ Hopeless
    /\ GoTo("seed")
    /\ UNCHANGED <<env, retries, calm, database>>

GiveUp ==
    /\ Hopeless
    /\ GoDown
    /\ UNCHANGED <<env, retries, calm, database>>

\* db push --accept-data-loss makes the schema that of the release, at the
\* price of data where they differ, and keeps no history.
Push ==
    /\ phase = "push"
    /\ GoTo("seed")
    /\ objects' = Shipped
    /\ \/ UNCHANGED data
       \/ objects # Shipped /\ data' = FALSE
    /\ misled' = misled \cup (applied \ Shipped)
    /\ UNCHANGED <<env, retries, calm, table, applied, failed>>

-----------------------------------------------------------------------------
(***************************************************************************)
(* The server                                                              *)
(***************************************************************************)

\* The seed, if it is asked for, does not decide about the start.
MaybeSeed ==
    /\ phase = "seed"
    /\ GoTo("prepare")
    /\ \/ UNCHANGED database
       \/ data' = TRUE /\ UNCHANGED <<table, applied, failed, objects, misled>>
    /\ UNCHANGED <<env, retries, calm>>

Listen ==
    /\ phase = "prepare"
    /\ GoTo("serving")
    /\ UNCHANGED <<env, retries, calm, database>>

PrepareFails ==
    /\ phase = "prepare" /\ ~calm
    /\ GoDown
    /\ UNCHANGED <<env, retries, calm, database>>

Work ==
    /\ phase = "serving"
    /\ data' = TRUE
    /\ UNCHANGED <<env, container, retries, calm, table, applied, failed, objects, misled>>

\* SIGTERM or SIGINT: the loop and the reports stop, the sockets are closed and
\* the requests under way are answered.
Shutdown ==
    /\ phase = "serving" /\ ~calm
    /\ GoTo("draining")
    /\ UNCHANGED <<env, retries, calm, database>>

Exit ==
    /\ phase = "draining"
    /\ GoDown
    /\ UNCHANGED <<env, retries, calm, database>>

-----------------------------------------------------------------------------
Boot ==
    \/ UpToDate \/ RunScript \/ RecordFinish \/ ScriptFails
    \/ StartBaseline \/ StartReset \/ Drop \/ StartRollBack \/ RollBackRefused
    \/ GiveUp \/ Push \/ MaybeSeed \/ Listen
    \/ \E m \in Migration : RecordStart(m) \/ ResolveApplied(m) \/ ResolveRolledBack(m)

Next ==
    \/ Boot
    \/ Restart \/ Crash \/ PrepareFails \/ Work \/ Shutdown \/ Exit
    \/ \E e \in Env, last \in BOOLEAN : Redeploy(e, last)

Spec == Init /\ [][Next]_vars

\* The script and the CLI run on, and the platform restarts what failed.
Fairness == WF_vars(Boot) /\ WF_vars(Restart)

FairSpec == Spec /\ Fairness

-----------------------------------------------------------------------------
(***************************************************************************)
(* Properties                                                              *)
(***************************************************************************)

\* "... instead of silently coming up half-broken": a server that comes up
\* under migrate deploy has the schema of its release and a history that will
\* not stop the next start.  Only what an operator listed wrongly, or pushed
\* away under a history, can be missing.
ServesRelease ==
    phase \in {"seed", "prepare", "serving"} /\ env.strategy = "migrate" =>
        /\ Shipped \subseteq objects \cup misled
        /\ Shipped \subseteq applied /\ failed = {}

\* A migration that is recorded as applied is in the schema, however often the
\* container died while it was recorded; an operator alone can break that.
HistoryIsTrue == applied \subseteq objects \cup misled

\* The variables of the recoveries may stay set: data is dropped only when a
\* reset is asked for and an earlier start has left a migration unfinished, or
\* when a push meets another schema, never from a database that has served this
\* release and whose container is merely restarted.
DropsAllowed ==
    \/ env.reset /\ failed # {}
    \/ env.strategy = "push" /\ objects # Shipped
DropsOnlyBroken == [][data /\ ~data' => DropsAllowed]_vars

\* The last deployment of a troubled time begins.
Deployed == calm /\ env.strategy = "migrate" /\ phase = "deploy" /\ Idle /\ retries = 0

\* The destructive recovery always ends in a server, within the restarts that
\* the platform makes: of a database with a history, whatever is wrong with it.
ResetRecovers == Deployed /\ env.reset /\ table ~> phase = "serving"

\* The conditions under which the text of P3009 advises a roll-back: the
\* migration that failed left nothing behind.
CanRollBack ==
    /\ failed # {} /\ ~env.reset /\ env.rolledBack \in failed \cup {FromError}
    /\ applied \subseteq objects /\ Pending \cap objects = {}
    /\ objects = 1..Cardinality(objects)

\* The condition under which the text of P3005 advises a baseline: the list
\* names what is in the database.
CanBaseline == P3005 /\ env.baseline = objects /\ objects \subseteq Shipped

\* The two recoveries that keep the data do bring the server up, with the data,
\* when what the operator was told to ensure holds.
RecoversWithData ==
    \A held \in BOOLEAN :
        Deployed /\ (CanRollBack \/ CanBaseline) /\ data = held
            ~> phase = "serving" /\ (held => data)
=============================================================================
