---- MODULE SchemaMigrations ----
(***************************************************************************)
(* The start of the API process (src/src/api/server.ts) and the migrations *)
(* it runs first (src/src/api/models/database.ts), by replicas of two      *)
(* builds that start beside each other on one PostgreSQL database.  A      *)
(* replica's migrations are one transaction.  Two transactions that create *)
(* the same table, or insert the same name, meet in a unique index of the  *)
(* catalog or of _migrations: the later one waits for the earlier one to   *)
(* end, is refused when it committed and goes on when it rolled back.      *)
(***************************************************************************)
EXTENDS Naturals, Sequences

CONSTANTS
    Replicas,   \* the API processes started on the database
    MaxFaults,  \* bound: statements that fail, answers lost, processes stopped
    MaxDeploys  \* bound: replicas replaced by one of the other build

ASSUME BoundsAssumption == MaxFaults \in Nat /\ MaxDeploys \in Nat

InitialSchema == <<"dashboard_users", "tenants", "entra_users", "entra_groups",
    "conditional_access_policies", "security_alerts", "audit_logs", "license_info",
    "agent_connections", "portal_audit_log">>

IntuneTables == <<"managed_devices", "device_compliance_policies", "device_configurations">>

\* The table a REFERENCES clause of each table names.
References(t) ==
    IF t \in {"dashboard_users", "tenants", "portal_audit_log", "_migrations"} THEN {} ELSE {"tenants"}

\* The tables each entry of migrations creates, in order; entry 0 is the table
\* that records them.  A build knows the entries up to its own number.
Schema ==
    [m \in 0..2 |-> IF m = 0 THEN <<"_migrations">> ELSE IF m = 1 THEN InitialSchema ELSE IntuneTables]
Names == <<"001_initial_schema", "002_intune_tables">>
Builds == 1..2

TablesOf(m) == {Schema[m][i] : i \in DOMAIN Schema[m]}
Objects(m) == TablesOf(m) \cup (IF m = 0 THEN {} ELSE {Names[m]})
AllObjects == UNION {Objects(m) : m \in 0..2}

VARIABLES
    committed, \* the tables that exist and the names _migrations holds
    build,     \* how many migrations the build each replica runs knows
    pc,        \* where its start is
    mig,       \* the migration it is at
    nth,       \* the statement of the migration it is at
    made,      \* what its open transaction has created and inserted
    waits,     \* whether its statement waits for another transaction
    faults, deploys

vars == <<committed, build, pc, mig, nth, made, waits, faults, deploys>>

TypeOK ==
    /\ committed \subseteq AllObjects
    /\ build \in [Replicas -> Builds]
    /\ pc \in [Replicas -> {"down", "select", "run", "commit", "migrated", "listening"}]
    /\ mig \in [Replicas -> 0..2]
    /\ nth \in [Replicas -> 1..11]
    /\ made \in [Replicas -> SUBSET AllObjects]
    /\ waits \in [Replicas -> BOOLEAN]
    /\ faults \in 0..MaxFaults
    /\ deploys \in 0..MaxDeploys

Init ==
    /\ committed = {}
    /\ build \in [Replicas -> Builds]
    /\ pc = [r \in Replicas |-> "down"]
    /\ mig = [r \in Replicas |-> 0]
    /\ nth = [r \in Replicas |-> 1]
    /\ made = [r \in Replicas |-> {}]
    /\ waits = [r \in Replicas |-> FALSE]
    /\ faults = 0
    /\ deploys = 0

----
(* The statements of runMigrations. *)

Visible(r) == committed \cup made[r]

HeldByAnother(r, x) == \E q \in Replicas \ {r} : x \in made[q]

\* The INSERT of the name comes after the last table.
AtInsert(r) == nth[r] = Len(Schema[mig[r]]) + 1

\* What the statement is about to create or to insert.
Target(r) == IF AtInsert(r) THEN Names[mig[r]] ELSE Schema[mig[r]][nth[r]]

\* The loop goes on to the next migration the build knows.
NextMigration(r) ==
    IF mig[r] < build[r]
    THEN /\ mig' = [mig EXCEPT ![r] = @ + 1]
         /\ pc' = [pc EXCEPT ![r] = "select"]
         /\ UNCHANGED nth
    ELSE /\ pc' = [pc EXCEPT ![r] = "commit"]
         /\ UNCHANGED <<mig, nth>>

\* start, initDatabase: a connection is made and the transaction begun.
Start(r) ==
    /\ pc[r] = "down"
    /\ pc' = [pc EXCEPT ![r] = "run"]
    /\ mig' = [mig EXCEPT ![r] = 0]
    /\ nth' = [nth EXCEPT ![r] = 1]
    /\ UNCHANGED <<committed, build, made, waits, faults, deploys>>

\* A migration without the look at what was applied.
SelectNothing(r) ==
    /\ pc[r] = "select"
    /\ pc' = [pc EXCEPT ![r] = "run"] /\ nth' = [nth EXCEPT ![r] = 1] /\ UNCHANGED mig
    /\ UNCHANGED <<committed, build, made, waits, faults, deploys>>

SelectMigration(r) ==
    /\ pc[r] = "select"
    /\ IF Names[mig[r]] \in Visible(r)
       THEN NextMigration(r)
       ELSE pc' = [pc EXCEPT ![r] = "run"] /\ nth' = [nth EXCEPT ![r] = 1] /\ UNCHANGED mig
    /\ UNCHANGED <<committed, build, made, waits, faults, deploys>>

AfterTable(r) ==
    IF mig[r] = 0 THEN NextMigration(r)
    ELSE nth' = [nth EXCEPT ![r] = @ + 1] /\ UNCHANGED <<pc, mig>>

\* The second migration's statements sent side by side, done in any order.
CreateInAnyOrder(r) ==
    /\ pc[r] = "run" /\ ~waits[r] /\ ~AtInsert(r)
    /\ \E t \in IF mig[r] = 2 THEN TablesOf(2) ELSE {Target(r)} :
           /\ ~HeldByAnother(r, t)
           /\ made' = [made EXCEPT ![r] = @ \cup ({t} \ committed)]
    /\ AfterTable(r)
    /\ UNCHANGED <<committed, build, waits, faults, deploys>>

\* A table committed as it is created.
CreateOutside(r) ==
    /\ pc[r] = "run" /\ ~waits[r] /\ ~AtInsert(r)
    /\ ~HeldByAnother(r, Target(r))
    /\ committed' = committed \cup {Target(r)}
    /\ AfterTable(r)
    /\ UNCHANGED <<build, made, waits, faults, deploys>>

\* CREATE TABLE IF NOT EXISTS: what the transaction sees is not created again.
CreateTable(r) ==
    /\ pc[r] = "run" /\ ~waits[r] /\ ~AtInsert(r)
    /\ Target(r) \notin Visible(r) => ~HeldByAnother(r, Target(r)) /\ References(Target(r)) \subseteq Visible(r)
    /\ made' = [made EXCEPT ![r] = @ \cup ({Target(r)} \ committed)]
    /\ AfterTable(r)
    /\ UNCHANGED <<committed, build, waits, faults, deploys>>

\* A name that may be inserted again.
InsertNameAgain(r) ==
    /\ pc[r] = "run" /\ ~waits[r] /\ AtInsert(r)
    /\ ~HeldByAnother(r, Target(r))
    /\ made' = [made EXCEPT ![r] = @ \cup {Target(r)}]
    /\ NextMigration(r)
    /\ UNCHANGED <<committed, build, waits, faults, deploys>>

InsertName(r) ==
    /\ pc[r] = "run" /\ ~waits[r] /\ AtInsert(r)
    /\ Target(r) \notin Visible(r) /\ ~HeldByAnother(r, Target(r))
    /\ made' = [made EXCEPT ![r] = @ \cup {Target(r)}]
    /\ NextMigration(r)
    /\ UNCHANGED <<committed, build, waits, faults, deploys>>

Wait(r) ==
    /\ pc[r] = "run" /\ ~waits[r]
    /\ Target(r) \notin Visible(r) /\ HeldByAnother(r, Target(r))
    /\ waits' = [waits EXCEPT ![r] = TRUE]
    /\ UNCHANGED <<committed, build, pc, mig, nth, made, faults, deploys>>

\* The transaction waited for was rolled back.
Resume(r) ==
    /\ waits[r]
    /\ Target(r) \notin committed /\ ~HeldByAnother(r, Target(r))
    /\ waits' = [waits EXCEPT ![r] = FALSE]
    /\ UNCHANGED <<committed, build, pc, mig, nth, made, faults, deploys>>

\* ROLLBACK and the process's end; the container is started again.
Ends(r) ==
    /\ pc' = [pc EXCEPT ![r] = "down"]
    /\ mig' = [mig EXCEPT ![r] = 0]
    /\ nth' = [nth EXCEPT ![r] = 1]
    /\ made' = [made EXCEPT ![r] = {}]
    /\ waits' = [waits EXCEPT ![r] = FALSE]

\* What it waited for, or was about to insert, is there; or a table is missing
\* that the new one refers to.
MustFail(r) ==
    IF waits[r] THEN Target(r) \in committed
    ELSE IF AtInsert(r) THEN Target(r) \in Visible(r)
    ELSE Target(r) \notin Visible(r) /\ ~(References(Target(r)) \subseteq Visible(r))

\* The catch block rolls back and throws, and start exits with 1.
Refused(r) ==
    /\ pc[r] = "run"
    /\ MustFail(r)
    /\ Ends(r)
    /\ UNCHANGED <<committed, build, faults, deploys>>

Commit(r) ==
    /\ pc[r] = "commit"
    /\ committed' = committed \cup made[r]
    /\ made' = [made EXCEPT ![r] = {}]
    /\ pc' = [pc EXCEPT ![r] = "migrated"]
    /\ UNCHANGED <<build, mig, nth, waits, faults, deploys>>

\* seedDefaultAdmin done, both servers listen.
Listen(r) ==
    /\ pc[r] = "migrated"
    /\ pc' = [pc EXCEPT ![r] = "listening"]
    /\ UNCHANGED <<committed, build, mig, nth, made, waits, faults, deploys>>

----
(* Faults and deployments. *)

\* A migration error that is logged and not thrown.
FailsQuietly(r) ==
    /\ faults < MaxFaults /\ faults' = faults + 1
    /\ pc[r] # "down"
    /\ pc' = [pc EXCEPT ![r] = "migrated"]
    /\ made' = [made EXCEPT ![r] = {}]
    /\ waits' = [waits EXCEPT ![r] = FALSE]
    /\ UNCHANGED <<committed, build, mig, nth, deploys>>

\* A statement fails, the connection is lost or the process is stopped.
Fails(r) ==
    /\ faults < MaxFaults /\ faults' = faults + 1
    /\ pc[r] # "down"
    /\ Ends(r)
    /\ UNCHANGED <<committed, build, deploys>>

\* The server commits but its answer is lost: the process ends all the same.
CommitUnanswered(r) ==
    /\ faults < MaxFaults /\ faults' = faults + 1
    /\ pc[r] = "commit"
    /\ committed' = committed \cup made[r]
    /\ Ends(r)
    /\ UNCHANGED <<build, deploys>>

\* A replica is replaced by one of the other build, newer or older.
Deploy(r) ==
    /\ deploys < MaxDeploys /\ deploys' = deploys + 1
    /\ pc[r] = "down"
    /\ \E b \in Builds \ {build[r]} : build' = [build EXCEPT ![r] = b]
    /\ UNCHANGED <<committed, pc, mig, nth, made, waits, faults>>

Step(r) ==
    \/ Start(r) \/ SelectMigration(r) \/ CreateTable(r) \/ InsertName(r)
    \/ Wait(r) \/ Resume(r) \/ Refused(r) \/ Commit(r) \/ Listen(r)

Next == \E r \in Replicas : Step(r) \/ Fails(r) \/ CommitUnanswered(r) \/ Deploy(r)

Spec == Init /\ [][Next]_vars

\* Each process runs on, and a process that ended is started again (restart:
\* unless-stopped of src/docker/docker-compose.yml).
FairSpec == Spec /\ \A r \in Replicas : WF_vars(Step(r))

----
\* A migration's name is recorded if and only if all its tables exist, and no
\* table of an unrecorded one does, whichever replicas ran it side by side and
\* wherever one of them ended (the transaction of runMigrations).
AllOrNothing ==
    \A m \in 1..2 : committed \cap Objects(m) \in {{}, Objects(m)}

\* Version v of the schema is what the entries before v make.
Content == [v \in 0..3 |-> UNION {Objects(m) : m \in {n \in 0..2 : n < v}}]

Upgrade == INSTANCE SchemaUpgrade WITH
    Versions <- 1..3,
    schema <- committed,
    serves <- [r \in Replicas |-> IF pc[r] = "listening" THEN build[r] + 1 ELSE 0]

\* However many processes of either build run the migrations side by side, and
\* wherever they end, the schema goes from one whole version to a later one,
\* never back, and each process serves only when all its build knows is there.
UpgradesAreWhole == Upgrade!Spec

\* A process that serves requests has every table its build's queries name: an
\* error of a migration must end it before it listens (start, runMigrations).
ServesItsSchema ==
    \A r \in Replicas : pc[r] \in {"migrated", "listening"} =>
        \A m \in 0..build[r] : Objects(m) \subseteq committed

\* What an open transaction made, no other has made and none committed: a
\* migration is never applied twice, though every replica that looked before
\* the first commit found it missing (the UNIQUE name behind the SELECT).
AppliedOnce ==
    \A r \in Replicas : \A x \in made[r] : x \notin committed /\ ~HeldByAnother(r, x)

\* A replica that waits for another's migration holds nothing a third could
\* wait for, so replicas that start together never wait in a circle: all meet
\* at the first table of the first migration that is missing.
WaitersHoldNothing == \A r \in Replicas : waits[r] => made[r] = {}

----
(* The inductive invariant. *)

InTransaction == {"select", "run", "commit"}

\* The statements of migration m in order, and how many they are.
Statement(m, i) == IF i <= Len(Schema[m]) THEN Schema[m][i] ELSE Names[m]
Last(m) == IF m = 0 THEN 1 ELSE Len(Schema[m]) + 1

\* Migrations are committed whole, and none before those ahead of it.
CommittedInOrder ==
    \A m \in 0..2 : committed \cap Objects(m) # {} => \A n \in 0..m : Objects(n) \subseteq committed

\* Only an open transaction holds anything, and one that waits has not begun.
HoldsRightly(r) ==
    /\ pc[r] \notin InTransaction => made[r] = {}
    /\ waits[r] => pc[r] = "run" /\ nth[r] = 1 /\ made[r] = {}

\* What lies behind a transaction is there for it, what lies ahead it has not
\* touched, and at its migration it has made all it passed or none of it.
InProgress(r) ==
    pc[r] \in InTransaction =>
        /\ mig[r] <= build[r]
        /\ \A n \in 0..2 : n < mig[r] => Objects(n) \subseteq Visible(r)
        /\ \A n \in 0..2 : n > mig[r] => made[r] \cap Objects(n) = {}
        /\ pc[r] = "commit" => mig[r] = build[r] /\ Objects(mig[r]) \subseteq Visible(r)
        /\ pc[r] = "select" => made[r] \cap Objects(mig[r]) = {} /\ mig[r] > 0
        /\ pc[r] = "run" =>
              /\ nth[r] <= Last(mig[r])
              /\ \A i \in 1..Last(mig[r]) : Statement(mig[r], i) \in made[r] =>
                    i < nth[r] /\ \A j \in 1..(nth[r] - 1) : Statement(mig[r], j) \in made[r]
              /\ nth[r] > 1 => \/ Statement(mig[r], 1) \in made[r]
                              \/ Objects(mig[r]) \subseteq committed

IInv ==
    /\ TypeOK
    /\ CommittedInOrder
    /\ AppliedOnce
    /\ \A r \in Replicas : HoldsRightly(r) /\ InProgress(r)
    /\ ServesItsSchema

----
\* Whatever they met at the start, all replicas serve in the end: one refused
\* because another was first finds the migration recorded when it is restarted.
AllServe == \A r \in Replicas : <>[](pc[r] = "listening")
====
