---------------------------- MODULE Migrations ----------------------------
(***************************************************************************)
(* How a database of the 1.x framework gets its tables: a backend's        *)
(* initialize(), then MigrationRunner's discover(), apply_all() and the     *)
(* rollbacks, by a process that may die between any two statements.        *)
(***************************************************************************)
EXTENDS Schema, Naturals, Sequences, FiniteSets, FiniteSetsExt

CONSTANTS
  Backends,     \* of "sqlite", "sa_sqlite", "postgres", "sa_postgres"
  MaxCommands   \* bound on commands given to the runner

ASSUME MigAssumption == MaxCommands \in Nat

VARIABLES
  backend,      \* the backend the database is used with
  tables,       \* the tables there are
  forced,       \* the tables with row level security forced ...
  policies,     \* ... and the ones with a policy
  uniqueSeq,    \* uq_audit_sequence is there
  applied,      \* the rows of scoped_migrations
  runner,       \* the command under way
  commands,     \* commands so far
  disorder,      \* apply_one() or rollback_one() was used out of order
  torn,         \* a rollback was cut short: its migration is recorded, its tables are gone
  failed        \* a command or initialize() has raised

migVars == <<backend, tables, forced, policies, uniqueSeq, applied, runner, commands, disorder, torn, failed>>

Postgres == backend \in {"postgres", "sa_postgres"}

AllVersions == 1..16

\* Mutant: the last version is not found either.
LastMissed == AllVersions \ {8, 9, 10, 16}

\* discover() registers the classes it finds; 8, 9 and 10 have none.
Discovered == AllVersions \ {8, 9, 10}

\* What the up() of a version creates, in any fixed order.
Creates(v) ==
  CASE v = 1 -> InitialSchema
    [] v = 2 -> AddContracts
    [] v = 3 -> AddBlobs
    [] v = 4 -> AddScopeSettings
    [] v = 5 -> AddSearchIndex
    [] v = 6 -> AddTemplates
    [] v = 7 -> AddTieringArchival
    [] v = 8 -> EventsWebhooks
    [] v = 9 -> Notifications
    [] v = 10 -> Scheduling
    [] v = 11 -> AddSyncState
    [] v = 16 -> FederationReplay
    [] OTHER -> {}

\* A script that PostgreSQL gets is split at its semicolons.
CreatedBy(v) == IF Postgres /\ v = 1 THEN Creates(v) \ Headed ELSE Creates(v)

\* Every down() drops what its up() creates.
Drops(v) == Creates(v)

\* The tables an up() expects to be there: it puts indexes or constraints on
\* them, or its script is to create them and does not.
Needs(v) ==
  CASE v = 12 -> {"scope_projections", "scope_memberships", "audit_trail"}
    [] v = 14 -> {"audit_trail"}
    [] v = 15 -> {"environments", "environment_objects", "environment_snapshots"}
    [] OTHER -> Creates(v) \ CreatedBy(v)

\* Migration 13 is the one whose statements matter one by one.
Secured == OwnerTables \o MemberTables

Idle == [pc |-> "idle", todo |-> {}, at |-> 1]

MigInit ==
  /\ backend \in Backends
  /\ tables = {}
  /\ forced = {} /\ policies = {}
  /\ uniqueSeq = FALSE
  /\ applied = {}
  /\ runner = [Idle EXCEPT !.pc = "new"]
  /\ commands = 0
  /\ disorder = FALSE /\ torn = FALSE
  /\ failed = FALSE

-----------------------------------------------------------------------------
(* StorageBackend.initialize(). *)

\* sqlite.py and sa_sqlite.py; the latter adds uq_audit_sequence.
InitializeSqlite ==
  /\ ~Postgres
  /\ tables' = IF backend = "sqlite" THEN Lite \union {"scoped_migrations"} ELSE Metadata
  /\ uniqueSeq' = (backend = "sa_sqlite")
  /\ runner' = Idle
  /\ UNCHANGED failed

\* sa_postgres.py: create_all() and nothing else.
InitializeSaPostgres ==
  /\ backend = "sa_postgres"
  /\ tables' = Metadata
  /\ runner' = Idle
  /\ UNCHANGED <<uniqueSeq, failed>>

\* postgres.py: the script without the Headed tables, in one transaction that
\* an index on one of them fails.
InitializePostgres ==
  /\ backend = "postgres"
  /\ LET created == Pg \ Headed IN
     IF Pg \ PgUnindexed \subseteq created
     THEN tables' = created /\ runner' = Idle /\ UNCHANGED failed
     ELSE UNCHANGED tables /\ runner' = [runner EXCEPT !.pc = "unusable"] /\ failed' = TRUE
  /\ UNCHANGED uniqueSeq

Initialize ==
  /\ runner.pc = "new"
  /\ InitializeSqlite \/ InitializeSaPostgres \/ InitializePostgres
  /\ UNCHANGED <<backend, forced, policies, applied, commands, disorder, torn>>

-----------------------------------------------------------------------------
(* Commands.  get_pending() and get_applied() are read once, at the start. *)

Command(pc, todo) ==
  /\ runner.pc = "idle"
  /\ commands < MaxCommands
  /\ todo # {}
  /\ commands' = commands + 1
  /\ runner' = [pc |-> pc, todo |-> todo, at |-> 1]
  /\ UNCHANGED <<backend, tables, forced, policies, uniqueSeq, applied, torn, failed>>

ApplyAll == Command("up", Discovered \ applied) /\ UNCHANGED disorder

ApplyUpTo(v) == Command("up", {u \in Discovered \ applied : u <= v}) /\ UNCHANGED disorder

ApplyOne(v) ==
  /\ v \in Discovered \ applied
  /\ Command("up", {v})
  /\ disorder' = (disorder \/ \E u \in Discovered \ applied : u < v)

\* rollback_last() is rollback_to() the version before the last.
RollbackTo(v) == Command("down", {u \in Discovered \intersect applied : u > v}) /\ UNCHANGED disorder

RollbackOne(v) ==
  /\ v \in Discovered \intersect applied
  /\ Command("down", {v})
  /\ disorder' = (disorder \/ \E u \in applied : u > v)

-----------------------------------------------------------------------------
(* _apply_one() and _rollback_one(), statement by statement. *)

Current == IF runner.pc = "up" THEN Min(runner.todo) ELSE Max(runner.todo)

Raises ==
  /\ failed' = TRUE
  /\ runner' = Idle

\* One more CREATE TABLE IF NOT EXISTS or DROP TABLE IF EXISTS.  An index goes
\* with its table, and so do row level security and policies.
UpCreates ==
  /\ runner.pc = "up"
  /\ ~(CreatedBy(Current) \subseteq tables)
  /\ tables' = tables \union {CHOOSE t \in CreatedBy(Current) \ tables : TRUE}
  /\ UNCHANGED <<backend, forced, policies, uniqueSeq, applied, runner, commands, disorder, torn, failed>>

DownDrops ==
  /\ runner.pc = "down"
  /\ Drops(Current) \intersect tables # {}
  /\ LET t == CHOOSE u \in Drops(Current) \intersect tables : TRUE IN
     /\ tables' = tables \ {t}
     /\ forced' = forced \ {t}
     /\ policies' = policies \ {t}
     /\ uniqueSeq' = (uniqueSeq /\ t # "audit_trail")
  /\ UNCHANGED <<backend, applied, runner, commands, disorder, torn, failed>>

\* Mutant: CREATE TABLE without IF NOT EXISTS.
UpRaisesExisting ==
  /\ runner.pc = "up"
  /\ CreatedBy(Current) \intersect tables # {}
  /\ Raises
  /\ UNCHANGED <<backend, tables, forced, policies, uniqueSeq, applied, commands, disorder, torn>>

\* A statement of up() raises: there is no such table, or (ADD CONSTRAINT has
\* no IF NOT EXISTS) the constraint is there already.
UpRaises ==
  /\ runner.pc = "up"
  /\ CreatedBy(Current) \subseteq tables
  /\ \/ ~(Needs(Current) \subseteq tables)
     \/ Current = 14 /\ Postgres /\ uniqueSeq
  /\ Raises
  /\ UNCHANGED <<backend, tables, forced, policies, uniqueSeq, applied, commands, disorder, torn>>

\* Migration 13 on PostgreSQL: ENABLE and FORCE, then CREATE POLICY, which
\* raises where there is one already, or no such column.
UpSecures ==
  LET t == Secured[runner.at] IN
  /\ runner.pc = "up" /\ Current = 13 /\ Postgres /\ runner.at <= Len(Secured)
  /\ IF t \notin tables THEN Raises /\ UNCHANGED <<forced, policies>>
     ELSE /\ forced' = forced \union {t}
          /\ IF t \in Ownerless \union policies THEN Raises /\ UNCHANGED policies
             ELSE /\ policies' = policies \union {t}
                  /\ runner' = [runner EXCEPT !.at = @ + 1]
                  /\ UNCHANGED failed
  /\ UNCHANGED <<backend, tables, uniqueSeq, applied, commands, disorder, torn>>

\* The rest of up(), which nothing stops, and its row of scoped_migrations.
UpReturns ==
  /\ runner.pc = "up"
  /\ CreatedBy(Current) \subseteq tables /\ Needs(Current) \subseteq tables
  /\ Current = 13 /\ Postgres => runner.at > Len(Secured)
  /\ ~(Current = 14 /\ Postgres /\ uniqueSeq)
  /\ uniqueSeq' = (uniqueSeq \/ Current = 14)
  /\ runner' = [runner EXCEPT !.pc = "recordUp", !.at = 1]
  /\ UNCHANGED <<backend, tables, forced, policies, applied, commands, disorder, torn, failed>>

DownReturns ==
  /\ runner.pc = "down"
  /\ Drops(Current) \intersect tables = {}
  /\ IF Current = 13 /\ Postgres THEN forced' = {} /\ policies' = {}
     ELSE UNCHANGED <<forced, policies>>
  /\ uniqueSeq' = (uniqueSeq /\ Current # 14)
  /\ runner' = [runner EXCEPT !.pc = "recordDown"]
  /\ UNCHANGED <<backend, tables, applied, commands, disorder, torn, failed>>

Done(pc, v) ==
  IF runner.todo = {v} THEN Idle ELSE [runner EXCEPT !.pc = pc, !.todo = @ \ {v}]

RecordApplied ==
  /\ runner.pc = "recordUp"
  /\ applied' = applied \union {Min(runner.todo)}
  /\ runner' = Done("up", Min(runner.todo))
  /\ UNCHANGED <<backend, tables, forced, policies, uniqueSeq, commands, disorder, torn, failed>>

RecordRolledBack ==
  /\ runner.pc = "recordDown"
  /\ applied' = applied \ {Max(runner.todo)}
  /\ runner' = Done("down", Max(runner.todo))
  /\ UNCHANGED <<backend, tables, forced, policies, uniqueSeq, commands, disorder, torn, failed>>

\* The process dies.
RunnerDies ==
  /\ runner.pc \in {"up", "down", "recordUp", "recordDown"}
  /\ runner' = Idle
  /\ torn' = (torn \/ runner.pc \in {"down", "recordDown"})
  /\ UNCHANGED <<backend, tables, forced, policies, uniqueSeq, applied, commands, disorder, failed>>

-----------------------------------------------------------------------------
MigNext ==
  \/ Initialize
  \/ ApplyAll
  \/ \E v \in Discovered : ApplyUpTo(v) \/ ApplyOne(v) \/ RollbackTo(v) \/ RollbackOne(v)
  \/ UpCreates \/ UpRaises \/ UpSecures \/ UpReturns \/ RecordApplied
  \/ DownDrops \/ DownReturns \/ RecordRolledBack
  \/ RunnerDies

MigSpec == MigInit /\ [][MigNext]_migVars

-----------------------------------------------------------------------------
(* Properties. *)

MigTypeOK ==
  /\ backend \in Backends
  /\ tables \subseteq Metadata
  /\ forced \union policies \subseteq {Secured[i] : i \in 1..Len(Secured)}
  /\ applied \subseteq Discovered
  /\ runner.pc \in {"new", "unusable", "idle", "up", "down", "recordUp", "recordDown"}
  /\ runner.todo \subseteq Discovered /\ runner.at \in 1..(Len(Secured) + 1)
  /\ commands \in 0..MaxCommands
  /\ {uniqueSeq, disorder, torn, failed} \subseteq BOOLEAN

\* Whatever commands were given before, and whichever up() was cut short: when
\* every migration is applied, the database has every table the metadata
\* knows, although three migrations are never discovered and each backend
\* starts from a script of its own; and unless migrations were applied or
\* rolled back out of order, audit sequences are unique.
FullyMigrated ==
  runner.pc = "idle" /\ applied = Discovered /\ ~torn =>
    /\ tables = Metadata
    /\ disorder \/ uniqueSeq

\* On SQLite an apply that was cut short can always be given again: it never
\* meets its own traces.  Only migrations taken out of order and rollbacks that
\* were cut short make a command fail.
Repeatable == ~Postgres /\ ~disorder /\ ~torn => ~failed

\* docs/security.md, "Run migration m0013": initialize(), discover() and
\* apply_all() end with policies on all tables that have row level security.
PoliciesInstalled == runner.pc = "idle" /\ forced # {} => forced \subseteq policies

=============================================================================
