-------------------------------- MODULE Startup --------------------------------
(***************************************************************************)
(* How the uvicorn workers of one deployment start: each runs lifespan     *)
(* (main.py), which applies the Neo4j constraints and then                 *)
(* migrations.upgrade_to_head under one PostgreSQL advisory lock.          *)
(*                                                                         *)
(* The lock, the revision and the table list are read on one connection,   *)
(* the stamp and the upgrade run on connections of their own.  Either may  *)
(* fail, the lock's session may end while the other goes on, and a worker  *)
(* may die with its COMMIT under way: each of them is an action.           *)
(***************************************************************************)
EXTENDS FiniteSets

CONSTANTS
    Workers,    \* worker processes, and runs of scripts/migrate.py
    NULL        \* no revision, no holder

Baseline == "0001"

ASSUME NullAssumption == NULL \notin Workers /\ NULL # Baseline

VARIABLES
    tables,         \* which SQL files of the baseline the database holds
    revision,       \* alembic_version: NULL or Baseline
    lock,           \* the worker whose session holds MIGRATION_LOCK_ID
    orphans,        \* COMMITs of dead workers that have not arrived yet
    constrained,    \* whether the Neo4j constraints exist
    boot,           \* [Workers -> how far lifespan has come]
    unguarded       \* history: a writer was without the lock at some time

schemaVars == <<tables, revision, orphans, constrained>>
startVars == <<schemaVars, lock, boot, unguarded>>

-----------------------------------------------------------------------------
\* The SQL files of revision 0001 by the table one looks for in each.
Files == {"cases", "service_exposures"}

Phases == {"down", "starting", "locking", "reading", "listing", "stamping", "planning",
           "upgrading", "unlocking", "serving"}

\* What a worker writes without looking at the lock.
Writing == {"stamping", "planning", "upgrading"}

\* outcome: what upgrade_to_head came to; "collided" is a CREATE of what exists,
\* "aborted" a failed statement on the connection that holds the lock.
\* version: the revision it read last.
Lifespan ==
    [phase : Phases, outcome : {"none", "migrated", "deferred", "collided", "aborted"},
     version : {NULL, Baseline}]

Down == [phase |-> "down", outcome |-> "none", version |-> NULL]

To(w, phase) == boot' = [boot EXCEPT ![w].phase = phase]

End(w, phase, outcome) ==
    boot' = [boot EXCEPT ![w] = [phase |-> phase, outcome |-> outcome, version |-> NULL]]

-----------------------------------------------------------------------------
Launch(w) ==
    /\ boot[w].phase = "down"
    /\ To(w, "starting")
    /\ UNCHANGED <<schemaVars, lock, unguarded>>

\* Each statement that fails is logged and not tried again before a restart.
ApplyConstraints(w) ==
    /\ boot[w].phase = "starting"
    /\ constrained' \in {constrained, TRUE}
    /\ To(w, "locking")
    /\ UNCHANGED <<tables, revision, orphans, lock, unguarded>>

\* Slip: pg_try_advisory_lock, whose answer nobody looks at.
AcquireOrNot(w) ==
    /\ boot[w].phase = "locking"
    /\ lock' = IF lock = NULL THEN w ELSE lock
    /\ To(w, "reading")
    /\ UNCHANGED <<schemaVars, unguarded>>

\* SELECT pg_advisory_lock: blocks until the holder unlocks or its session ends.
Acquire(w) ==
    /\ boot[w].phase = "locking"
    /\ lock = NULL
    /\ lock' = w
    /\ To(w, "reading")
    /\ UNCHANGED <<schemaVars, unguarded>>

ReadRevision(w) ==
    /\ boot[w].phase = "reading"
    /\ boot' = [boot EXCEPT ![w] = [@ EXCEPT !.phase = "listing", !.version = revision]]
    /\ UNCHANGED <<schemaVars, lock, unguarded>>

\* A schema without a revision predates alembic.
ListTables(w) ==
    /\ boot[w].phase = "listing"
    /\ To(w, IF boot[w].version = NULL /\ "cases" \in tables THEN "stamping" ELSE "planning")
    /\ UNCHANGED <<schemaVars, lock, unguarded>>

\* command.stamp, committed on its own connection.
Stamp(w) ==
    /\ boot[w].phase = "stamping"
    /\ revision' = Baseline
    /\ To(w, "planning")
    /\ UNCHANGED <<tables, orphans, constrained, lock, unguarded>>

\* command.upgrade reads alembic_version in its own transaction.
PlanUpgrade(w) ==
    /\ boot[w].phase = "planning"
    /\ boot' = [boot EXCEPT ![w] = [@ EXCEPT !.phase = "upgrading", !.version = revision]]
    /\ UNCHANGED <<schemaVars, lock, unguarded>>

\* Nothing to do, or the whole baseline in one transaction, which waits for one
\* that has created the same types and not ended.
Upgrade(w) ==
    /\ boot[w].phase = "upgrading"
    /\ End(w, "unlocking", "migrated")
    /\ \/ boot[w].version = Baseline /\ UNCHANGED <<tables, revision>>
       \/ /\ boot[w].version = NULL
          /\ "cases" \notin tables /\ "upgrade" \notin orphans
          /\ tables' = Files
          /\ revision' = Baseline
    /\ UNCHANGED <<orphans, constrained, lock, unguarded>>

\* CREATE TYPE of a type that exists: the transaction is rolled back.
UpgradeCollides(w) ==
    /\ boot[w].phase = "upgrading"
    /\ boot[w].version = NULL
    /\ "cases" \in tables
    /\ End(w, "unlocking", "collided")
    /\ UNCHANGED <<schemaVars, lock, unguarded>>

\* PostgreSQL cannot be reached.  As after every error the worker serves all the
\* same ("an API that refuses to start cannot even tell anyone why").
ConnectFails(w) ==
    /\ boot[w].phase = "locking"
    /\ End(w, "serving", "deferred")
    /\ UNCHANGED <<schemaVars, lock, unguarded>>

\* An error of the stamp or the upgrade, rolled back on its own connection.
MigrationFails(w) ==
    /\ boot[w].phase \in Writing
    /\ End(w, "unlocking", "deferred")
    /\ UNCHANGED <<schemaVars, lock, unguarded>>

\* A read on the connection with the lock fails, the first two or the one after
\* the upgrade: its transaction refuses the unlock of the finally clause too, and
\* the session goes back to the pool with the lock.
ReadFails(w) ==
    /\ lock = w
    /\ \/ boot[w].phase \in {"reading", "listing"}
       \/ boot[w].phase = "unlocking" /\ boot[w].outcome = "migrated"
    /\ End(w, "serving", "aborted")
    /\ UNCHANGED <<schemaVars, lock, unguarded>>

\* Slip: the unlock outside the finally clause.
UnlockOnSuccess(w) ==
    /\ boot[w].phase = "unlocking"
    /\ lock' = IF lock = w /\ boot[w].outcome = "migrated" THEN NULL ELSE lock
    /\ To(w, "serving")
    /\ UNCHANGED <<schemaVars, unguarded>>

\* finally: pg_advisory_unlock.  Without its session that is an error too.
Unlock(w) ==
    /\ boot[w].phase = "unlocking"
    /\ lock' = IF lock = w THEN NULL ELSE lock
    /\ End(w, "serving",
           IF lock # w /\ boot[w].outcome = "migrated" THEN "deferred" ELSE boot[w].outcome)
    /\ UNCHANGED <<schemaVars, unguarded>>

\* PostgreSQL ends the session that holds the lock.  The worker notices when it
\* next uses it: at once while it reads, not before the end while it writes.
LockSessionEnds(w) ==
    /\ lock = w
    /\ lock' = NULL
    /\ IF boot[w].phase \in {"reading", "listing"} THEN End(w, "serving", "deferred")
       ELSE UNCHANGED boot
    /\ unguarded' = (unguarded \/ boot[w].phase \in Writing)
    /\ UNCHANGED schemaVars

\* What a worker may have sent a COMMIT for.
Sent(w) ==
    IF boot[w].phase = "stamping" THEN {"stamp"}
    ELSE IF boot[w].phase = "upgrading" /\ boot[w].version = NULL /\ "cases" \notin tables
    THEN {"upgrade"}
    ELSE {}

\* The process dies.  PostgreSQL ends its sessions one by one, the one with the
\* lock perhaps before it has executed the COMMIT of the other.
Die(w) ==
    /\ boot[w].phase # "down"
    /\ boot' = [boot EXCEPT ![w] = Down]
    /\ lock' = IF lock = w THEN NULL ELSE lock
    /\ orphans' \in {orphans, orphans \cup Sent(w)}
    /\ unguarded' = (unguarded \/ orphans' # {})
    /\ UNCHANGED <<tables, revision, constrained>>

OrphanCommits(k) ==
    /\ k \in orphans
    /\ orphans' = orphans \ {k}
    /\ revision' = Baseline
    /\ tables' = IF k = "upgrade" THEN Files ELSE tables
    /\ UNCHANGED <<constrained, lock, boot, unguarded>>

-----------------------------------------------------------------------------
\* A new volume without and with the initdb scripts, one made before
\* 002_exposure.sql was written, and one a worker has migrated.
StartInit ==
    /\ \/ tables \in {{}, {"cases"}, Files} /\ revision = NULL
       \/ tables \in {{"cases"}, Files} /\ revision = Baseline
    /\ lock = NULL
    /\ orphans = {}
    /\ constrained \in BOOLEAN
    /\ boot = [w \in Workers |-> Down]
    /\ unguarded = FALSE

\* upgrade_to_head with the lock, as long as nothing fails.
Migrate(w) ==
    \/ ReadRevision(w) \/ ListTables(w) \/ Stamp(w) \/ PlanUpgrade(w)
    \/ Upgrade(w) \/ UpgradeCollides(w) \/ Unlock(w)

Deferred(w) == ConnectFails(w) \/ MigrationFails(w) \/ ReadFails(w)

StartNext ==
    \/ \E w \in Workers :
          \/ Launch(w) \/ ApplyConstraints(w) \/ Acquire(w) \/ Migrate(w) \/ Deferred(w)
          \/ LockSessionEnds(w) \/ Die(w)
    \/ \E k \in orphans : OrphanCommits(k)

StartSpec == StartInit /\ [][StartNext]_startVars

-----------------------------------------------------------------------------
(* Properties *)

\* Every variable has the shape its definition says.
StartTypeOK ==
    /\ tables \subseteq Files
    /\ revision \in {NULL, Baseline}
    /\ lock \in Workers \cup {NULL}
    /\ orphans \subseteq {"stamp", "upgrade"}
    /\ constrained \in BOOLEAN
    /\ boot \in [Workers -> Lifespan]
    /\ unguarded \in BOOLEAN

\* However many workers start and die together, over every kind of database: a
\* recorded baseline has its core tables; a worker that reports success, or meets
\* a schema it wanted to create, serves a database at head; and none applies the
\* baseline to a schema that exists ("two of them applying the same CREATE TABLE
\* is a startup crash"), unless some worker's session with the lock ended while
\* that worker, or the COMMIT it died with, was still to write.
SchemaBuiltOnce ==
    /\ revision = Baseline => "cases" \in tables
    /\ \A w \in Workers :
          /\ boot[w].outcome \in {"migrated", "collided"} => revision = Baseline
          /\ boot[w].outcome = "collided" => unguarded
=============================================================================
