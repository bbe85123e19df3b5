------------------------------- MODULE Limits -------------------------------
(***************************************************************************)
(* Quotas and rate limits of the 1.x framework (rules/quotas.py,           *)
(* rules/rate_limit.py) as ScopedManager.create() applies them: the rate   *)
(* is read off the audit trail before the transaction, the quota counted   *)
(* inside it, and the creation recorded after it.  One principal, one      *)
(* object type, one rule of each kind.                                     *)
(***************************************************************************)
EXTENDS Naturals, FiniteSets, FiniteSetsExt

CONSTANTS
  Creator,       \* threads that call create()
  QuotaMax,      \* max_count of the quota rule
  RateMax,       \* max_count of the rate-limit rule
  Window,        \* its window_seconds
  MaxNow,        \* bound on the clock
  MaxCreated     \* bound on creations

ASSUME LimitsAssumption ==
  /\ IsFiniteSet(Creator)
  /\ QuotaMax \in Nat \ {0} /\ RateMax \in Nat \ {0}
  /\ Window \in Nat /\ MaxNow \in Nat /\ MaxCreated \in Nat

VARIABLES
  setup,      \* the database, "sqlite" or "postgres", and whether there is a quota rule
  now,        \* the clock
  active,     \* objects of the type with lifecycle ACTIVE
  commits,    \* transactions committed, which tells a snapshot from a newer one
  actionLog,  \* "create" entries of the audit trail: when, and whether the call named a scope
  creator     \* per thread: the create() under way

limitVars == <<setup, now, active, commits, actionLog, creator>>

Unused == [pc |-> "none", scoped |-> FALSE, snapshot |-> 0]

LimitsInit ==
  /\ setup \in [engine : {"sqlite", "postgres"}, quota : BOOLEAN]
  /\ now = 0
  /\ active = 0
  /\ commits = 0
  /\ actionLog = {}
  /\ creator = [c \in Creator |-> Unused]

LimitTick ==
  /\ now < MaxNow
  /\ now' = now + 1
  /\ UNCHANGED <<setup, active, commits, actionLog, creator>>

\* Entries of the window, from its first instant on.
InWindow(e) == e.at + Window >= now

\* Mutant: the first instant of the window is not counted.
CountLater(scoped) == IF scoped THEN 0 ELSE Cardinality({e \in actionLog : e.at + Window > now})

\* _count_actions(): of no entry, when a scope is asked for, since create()
\* records its entry without one.
CountActions(scoped) == IF scoped THEN 0 ELSE Cardinality({e \in actionLog : InWindow(e)})

\* A check refuses at max_count.
UnderLimit(count, max) == count < max

\* The rate check of create(), when it passes.
CheckRate(c, scoped) ==
  /\ creator[c].pc = "none"
  /\ UnderLimit(CountActions(scoped), RateMax)
  /\ creator' = [creator EXCEPT ![c] = [Unused EXCEPT !.pc = "begin", !.scoped = scoped]]
  /\ UNCHANGED <<setup, now, active, commits, actionLog>>

\* The transaction begins and check_in_txn() counts; over quota it rolls back.
\* A quota rule asked with a scope raises: scoped_objects has no scope_id.
CheckInTxn(c) ==
  /\ creator[c].pc = "begin"
  /\ creator' = [creator EXCEPT ![c] =
       IF setup.quota => UnderLimit(active, QuotaMax) /\ ~@.scoped
       THEN [@ EXCEPT !.pc = "insert", !.snapshot = commits]
       ELSE Unused]
  /\ UNCHANGED <<setup, now, active, commits, actionLog>>

\* Mutant: SQLite writes over a snapshot that is no longer the last.
AnySnapshot(c) == TRUE

\* BEGIN is deferred: SQLite refuses to write from a snapshot another writer has
\* overtaken; PostgreSQL, at READ COMMITTED, does not.
MayWrite(c) == setup.engine = "sqlite" => creator[c].snapshot = commits

PersistObject(c) ==
  /\ creator[c].pc = "insert"
  /\ commits < MaxCreated
  /\ IF MayWrite(c)
     THEN /\ active' = active + 1
          /\ commits' = commits + 1
          /\ creator' = [creator EXCEPT ![c].pc = "record"]
     ELSE /\ creator' = [creator EXCEPT ![c] = Unused]
          /\ UNCHANGED <<active, commits>>
  /\ UNCHANGED <<setup, now, actionLog>>

\* The audit entry, after the commit.
RecordCreate(c) ==
  /\ creator[c].pc = "record"
  /\ actionLog' = actionLog \union {[at |-> now, scoped |-> creator[c].scoped, id |-> Cardinality(actionLog)]}
  /\ creator' = [creator EXCEPT ![c] = Unused]
  /\ UNCHANGED <<setup, now, active, commits>>

\* tombstone() of one of the objects.
ArchiveObject ==
  /\ active > 0
  /\ commits < MaxCreated
  /\ active' = active - 1
  /\ commits' = commits + 1
  /\ UNCHANGED <<setup, now, actionLog, creator>>

Create(c) ==
  \/ \E s \in BOOLEAN : CheckRate(c, s)
  \/ CheckInTxn(c) \/ PersistObject(c) \/ RecordCreate(c)

LimitsNext == LimitTick \/ ArchiveObject \/ \E c \in Creator : Create(c)

LimitsSpec == LimitsInit /\ [][LimitsNext]_limitVars

-----------------------------------------------------------------------------
(* Properties. *)

LimitsTypeOK ==
  /\ now \in 0..MaxNow
  /\ active \in 0..MaxCreated
  /\ \A c \in Creator : creator[c].pc \in {"none", "begin", "insert", "record"}

\* "Quota checks run inside the write transaction to prevent TOCTOU races": on
\* SQLite the quota holds, on PostgreSQL each other thread may add one.
QuotaBounded ==
  setup.quota => active <= QuotaMax + IF setup.engine = "postgres" THEN Cardinality(Creator) - 1 ELSE 0

\* "Approximate, outside txn": creations without a scope exceed the rate of a
\* window by at most one per other thread, however the threads interleave.
RateBounded ==
  Cardinality({e \in actionLog : InWindow(e) /\ ~e.scoped}) <= RateMax + Cardinality(Creator) - 1

\* What the docstring of create() says; PostgreSQL breaks it.
QuotaKept == setup.quota => active <= QuotaMax

=============================================================================
