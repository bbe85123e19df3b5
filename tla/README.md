# PyScoped: a TLA+ model

PyScoped 2 (`src/pyscoped/`, 1,400 lines of Python) adds tenant scoping and an
audit history to the models of an existing Django application. A registered
model's writes must happen inside a *context* (an actor and a scope); each one
appends, in the same database transaction, an event to the hash-chained history
of the row it changes.

`src/legacy/v1/scoped` is the 1.x framework, some 40,000 lines: a set of services
(objects, tenancy, rules, audit, secrets, deployments, ...) over a SQLite or
PostgreSQL database, most of whose operations are several autocommitted statements
without locks. PyScoped 2 excludes it from the package and uses none of it; it is
modelled here because it is most of the code of the repository, and most of its
concurrency.

This directory models the parts of both that run concurrently or in several
steps, checks them with TLC, and proves the central results with TLAPS.

## 1. Inventory

### PyScoped 2

| Part | State it keeps | Operations | What is hard |
|---|---|---|---|
| Audited writes (`registry.py`, `query.py`) | rows of the application's table; the transaction of each request | `save()`, `create()`, `update()`, `bulk_create()`, `bulk_update()`, `delete()` | several statements each, interleaved with other requests' at READ COMMITTED; failures half-way; savepoints in the application's transactions |
| Audit events (`audit.py`, `models.py`) | one `Resource` (head: scope, revision, digest) and its `AuditEvent`s per primary key | `append_event()` | first-write races, key reuse across tenants, one chain without forks |
| History (`history.py`) | the same tables | `verify_history()`, `backfill()`, `restore()`, `history()` | reads of head and events in two statements; row-by-row commits, interruption, concurrent backfills; optimistic revision check; data or history changed behind its back |
| Relations (`audit.py` `check_relations`) | parent rows and their locks | checks and locks during writes | parents locked in the children's order; deferred foreign keys |
| Scope managers (`context.py`) | the ContextVar `_current` per thread or task; `_token` per manager | `scope(...)` enter/exit, sync and async | re-entry, sharing between tasks |
| Request context (`middleware.py`, `integration.py`) | `_current`; the resolved context of each response that is being streamed | `__call__`, `_stream`, `in_scope` | chunks pulled by turns and on several threads; close, drop and failure between chunks; scopes inside generators |
| Scoped reads and joins (`query.py`) | the context a queryset was built in, its result cache | evaluation, iteration, combination, ON-clause predicates | querysets that outlive their context |
| Registration (`registry.py`, `apps.py`, `checks.py`) | `_registry`, patched descriptors | `register()`, `install_relation_guards()` | registration order |

The middleware (or a `scope` block) sets `_current`; every write and history call
reads it; writes call `append_event()` inside their `transaction.atomic()`;
`restore()` ends in an ordinary `save(update_fields=...)` with the action name
overridden; everything meets in the two audit tables and in the row locks of the
database.

Correct means:
* rows and events commit together and the events account for every change of the
  row, with no gap (`AuditedStore`);
* a history is one chain, of one scope, whose head is its last event, and names
  actors of that scope; changes made behind its back show;
* verification, backfill and restore do what they say next to concurrent writes;
* related rows are of one scope; no relation is left unguarded;
* operations do not wait for ever;
* code runs in the context it was authorized for, reads rows of its scope only, and
  leaves the thread as it found it.

### The 1.x framework

| Part | State | What is hard |
|---|---|---|
| `audit/`, `sync/` | the hash-chained trail, each process' last hash, the sync watermark | writers of several processes, retention and verification at once; pushes that are lost or unanswered, two agent threads |
| `objects/`, `temporal/` | object rows and versions, the trace, blobs | lost updates, rollback among writes, bytes and rows stored apart |
| `tenancy/` | scopes, memberships, projections, settings | checks and writes in separate statements; two implementations of visibility; inheritance |
| `secrets/` | secrets, versions, references, policies | rotation, revocation and resolution interleaved, deaths between statements |
| `rules/` | rules, versions, bindings, the cache; quotas, rates | stale caches, two implementations of the decision, check-then-insert |
| `environments/`, `flow/` | environments, their objects and scope, snapshots; stages | failures half-way through promotion, discard and restore |
| `registry/`, `identity/` | the in-memory registry, its table, principals | two stores, failures in between, restarts |
| `deployments/` | deployments, gates | two executors, rollback, death |
| `integrations/` | plugins, hooks, permissions | dispatch among suspensions and uninstallations |
| `connector/` | connectors, policies, traffic; the replay ledger | revocation racing a sync; lost, repeated, reordered messages |
| `events/`, `scheduling/` | deliveries; actions and jobs | what must eventually happen, and not twice |
| `storage/` | schema and migrations; the cache of tenants' back ends; tiers and archives | five spellings of one schema, interrupted migrations; teardown of a back end in use; seal against delete |

`PROJECT.json` lists the hazards behind these, line by line, under `hazards`, and every
part with what of it is modelled under `components`.

## 2. Modules

| Module | Models | Composition |
|---|---|---|
| `ScopedDatabase` | the tables, and the transactions PyScoped relies on (external) | |
| `ScopedWrites` | the supported writes | EXTENDS `ScopedDatabase`; INSTANCE `AuditedStore` |
| `AuditedStore` | the promise: a store whose rows change only together with the events that account for it | |
| `ScopedHistory` | `history.py`, and writes that bypass PyScoped | EXTENDS `ScopedWrites` |
| `RelationGuards` | `check_relations()` in bulk writes of children, with creation and deletion of parents | |
| `HistoryChain` | `verify_history()` against edits of events and head | |
| `RequestContext` | the middleware around views and streams, and the `scope(...)` blocks inside them | |
| `ScopeManager` | `scope` managers used again, nested, handed from task to task | |
| `ScopedReads` | querysets built in one block and read in another | EXTENDS `ScopeManager` |
| `Registration` | registration of models in every order, and relation guards | |
| `AuditTrail`, `SyncAgent` | 1.x audit and sync | `SyncAgent` EXTENDS `AuditTrail` |
| `Schema`, `Migrations` | the tables of each back end and migration; the runner | `Migrations` EXTENDS `Schema` |
| `ObjectStore`, `BlobStore`, `Limits` | 1.x objects and rollback; blobs; quotas and rates | |
| `Tenancy`, `ScopeSettings`, `SecretVault`, `Rules`, `Environments`, `StageFlow`, `Identities`, `Deployments`, `Plugins`, `Connector`, `Federation`, `EventDelivery`, `Scheduling`, `TenantRouter`, `ColdStorage` | the 1.x parts of those names | |
| `MCWrites`, `MCHistory`, `MCRequest` | small instances for TLC | EXTEND the above |
| `MCLive`, `MCLegacy`, `MCProgress` | small instances of many parts | EXTEND the above |
| `ScopedWritesProofs` | theorems about the writes and their locks | EXTENDS `ScopedWrites` |
| `ScopedHistoryProofs` | theorems about `history.py`, and the refinement of `AuditedStore` | EXTENDS `ScopedHistory`, `ScopedWritesProofs` |
| `LiveProofs` | theorems about requests, managers and reads, registration, tampering, and `MCLive` | EXTENDS `MCLive` |
| `AuditProofs`, `LegacyStoreProofs`, `LegacyPartsProofs` | theorems about the 1.x parts, one by one | EXTEND the modules of those parts |
| `LegacyProofs` | what `MCLegacy` promises, from the theorems about its parts | EXTENDS `MCLegacy` and the three |
| `ProgressProofs` | theorems about relation guards, sync, scheduling and events, and `MCProgress` | EXTENDS `MCProgress`, `AuditProofs` |

Definitions after a comment that starts with *Mutant* are deliberately wrong
variants; nothing uses them but the mutation runs listed in `PROJECT.json`,
which show that each property can fail.

The parts in `MCLive`, `MCLegacy` and `MCProgress` share no state with each other. One
run checks several of them: a variable `focus`, chosen in the initial state, names
the one part that moves, so that the state space is the sum of the parts' and not
their product.

### Database (`ScopedDatabase`)

`row` and `hist` are the committed tables. `txn[w]` holds the rows and histories
that worker `w`'s transaction has locked or written: owning a key is holding its
lock, and the owned version is what `w` sees and what it will commit. `mark[w]` is
the savepoint of the operation `w` is in. What the model takes from PostgreSQL
and Django:
* READ COMMITTED: a statement sees its own transaction's rows and otherwise what
  is committed when it runs;
* `SELECT ... FOR UPDATE` waits for a lock on a row that exists, then reads it
  again; it neither locks nor waits for a row that does not exist;
* `INSERT` waits for whoever has the key and fails if it is taken;
* UPDATE and DELETE of several keys take the locks they still need in one step;
* `atomic()` is a transaction, or a savepoint within one. PyScoped nests several
  of its own (`save`, `save_base`, `append_event`); exceptions pass through all of
  them, so one mark per operation stands for them.

A digest is modelled as the very sequence of event contents it hashes: SHA-256 is
taken to be free of collisions. Time, reason and request id are left out of the
content; a snapshot is one value for all audited fields, and unaudited fields are
left out.

### Writes (`ScopedWrites`)

A worker is a request with one context. Its operation is a walk through program
points, one action per SQL statement:

* `save`/`create`: `SaveLoads` (locking SELECT, scope checks) → `SaveUpdates`
  (UPDATE by key, falling through to) → `InsertRow` → `Record` (read back, check,
  `append_event`) → `Return`;
* `update`: `UpdateLocks` per row in key order → `UpdateRows` → `Record` per row;
* `bulk_update`: `BulkUpdateLocks` per row → `BulkUpdateReads` (the second,
  unlocked SELECT the snapshots come from) → `UpdateRows` → `Record` per row;
* `bulk_create`: `InsertRow` per row → `Record` per row;
* `delete`: `DeleteLoads`/`DeleteRecords` per collected row (the `pre_delete`
  receiver) → `DeleteRows` (Django's DELETE).

`append_event()` is one step: from the insertion or lock of the head to its update
no other transaction can touch that history. `Raise` is an exception: the
operation's savepoint is rolled back. `OpenBlock`/`CloseBlock` are the
application's own transactions, `Fail` a statement that fails at any point.
`Mode` is the registration's mode; `OwnKeys` tells application-chosen primary keys
from those of a sequence (whose values rollbacks do not return). `bulk_update()` is
modelled without further filters on the queryset.

### History (`ScopedHistory`)

`verify_history()` is three statements (find, lock, read the events); `backfill()`
runs outside application transactions, as the management command does, and
commits each row; `restore()` locks the row, compares the expected revision with an
unlocked head, verifies under the head's lock, compares the row with the last
event, and goes on as a `save(update_fields=...)` with the action `restore`.
`DriftWrite` is a write PyScoped does not see. `history()` and
`backfill(dry_run=True)` change nothing and are left out.

### Contexts (`RequestContext`)

`RequestContext` follows a request from `__call__` through the resolver, the view
and each pull of a streamed response, on any threads. `tokens[r]` is the stack of
values its middleware frames will restore; `own[r]` the token of a `scope` block (or
`@in_scope` function) its application code is in, which a content generator keeps
across chunks; resetting a token on another thread than its own raises, and
`Raises` covers that. `Close` is the `finally` clause of `chunks()`; `Release` is every
other end of a stream: before the first chunk, or where that clause does nothing or
comes too late, and the content generator is ended by the interpreter or by the
response. The last is the usual case: Django makes a `map()` of every synchronous
content, which has no `close()`. A generator that is paused inside a `scope` block of
its own then runs that block's `__exit__()` in the server's context, which leaves its
request's context there; `abandoned[r]` remembers the thread. `ServerUntouched` says
that a free thread is in its own context or in that of such a request, and no other;
`ServerClean`, without the exception, is what `docs/adoption.md:125` ("clears it before
yielding to the caller") would suggest, and fails. The sync and async variants do the
same to `_current` and are modelled once.

### Reads, managers, registration, relations, tampering

`ScopeManager` splits `__enter__` in the check and the `set()`, so that two tasks can
pass the check of one manager at once; from then on the property claims nothing.
`ScopedReads` puts querysets into those blocks: a queryset carries its context
through clones and combination, keeps a result cache, and hands a cursor out row by
row. `Evaluate` and `NextItem` check the context; `ReadCached` (indexing, slices, `first()`,
`repr()` and `contains()` of a queryset that has its cache) does not, because Django
answers those without `_fetch_all()`. `seenRows` are the rows handed out after a check,
`cacheRows` those handed out without one: of the latter `RowsInScope` says only that they
had been handed out in their scope before. `Registration` creates and registers classes in any order, before, while and
after the application registry gets ready, and keeps the guards installed by each
call. `RelationGuards` takes the locks of `check_relations()` one parent at a time and
lets the database break a deadlock by failing one transaction; foreign keys are
checked at commit. In `HistoryChain` somebody with SQL edits events and head, computes
digests and copies events between histories, while PyScoped goes on appending.

### The 1.x modules

All follow one pattern. A thread's call is a record with a program point; one action
per SQL statement (or per transaction, where the code has one), named for what the
statement does; what was read before is kept in the record and may be stale when used.
`...Dies` actions end a call between two statements, `...Fails` make one raise. The
network in `Federation`, `Connector`, `EventDelivery` and `SyncAgent` loses requests and
answers. Some properties are about what a call does when nobody overtakes it; the
model then records that in a history variable (`calm`, `closedCalmly`, `overlapped`,
`tainted`, `removed`, ...), which no guard reads. The property's comment says which
interleavings it leaves out, and the hazard's note in `PROJECT.json` says what the code
does in them.

`Environments` has the calls that touch an environment and its isolation scope statement
by statement. `create_scope()` is an INSERT of the scope, of the owner's membership and
of the audit entry, and only a failing INSERT of the environment is caught
(`CleanUpScope`); `_transition()` is an UPDATE and an audit entry, and in `discard()` both
are outside of its `try`; `archive_scope()` is a transaction and an audit entry after it,
whose failure makes `discard()` return to a state whose scope is gone (`RevertState`).
`RollBackState` is what `temporal/rollback.py` does to an environment: it writes a state of
the trail, and not the scope. `adrift` remembers that one of these came between state and
scope; `ScopeFollowsState` is about environments for which none did, and so about what the
handlers and checks of the code do keep: a failed INSERT of the environment, a failed
tombstone or archiving, a refused one, retried promotions, transitions that raise.

`TenantRouter` separates the factory from `initialize()`, and `teardown_tenant()` (out of the
cache, then closed) from `close()` (closed in a loop, then out of the cache, unless an
exception ends the loop). `strays` are back ends that an `initialize()` or `close()` that
raised left open, `cutShort` those that a `close()` of the router that raised left in the
cache, closed; `NoBackendLeaks` and `CachedIsOpen` name them, and the moment between the
loop and `clear()`.

`ColdStorage` collects versions while updates add rows of `object_versions` and rollbacks
delete them (a number may be used again). `kept` are the versions of an object that
were there all the while, `ever` those that were at any time: an archive contains all of
the former and none but the latter.

Data is reduced to what the properties tell apart: an object's content is one of two
values, an environment has two objects, the rule's effect stands for everything
an edit may change, a hash is the id of the entry it covers, time is a counter or a
flag that something has expired. `Schema` keeps only the names of tables.

## 3. Runs

Instances have two workers (or threads, requests), one or two keys and scopes,
one or two values. Every property here concerns one key, or the order of two, and
the interference of one worker with another; two values tell a stale snapshot from
a fresh one, and where the property is about locking or presence only, one value
is enough. `MaxCalls` (3 or 4) allows an operation that prepares the state and two
that race, and one more to observe or destroy what they left. Version bounds of 2 or
3 allow two racing updates after the first; bounds on deaths, faults and restarts of
1 or 2 allow a call that is cut short and another that meets what it left. Threads
are interchangeable in `legacy_stores`, which is checked with symmetry; it checks no
liveness.

| Run | Instance | Shows |
|---|---|---|
| `writes_saves` | one tenant, 2 keys, 2 values, no deletes | types; every committed history verifies; the tables implement `AuditedStore` under concurrent saves, creates, updates and bulk operations |
| `writes_deletes` | the same with deletes, application transactions and failing statements, and no `save()` of whole instances | the refinement, with exceptions the application catches |
| `writes_revival` | two tenants, 1 key both may choose, all operations | through deletion and re-creation, the history stays in its scope and names actors of its scope (that it verifies is proved, section 4) |
| `writes_audit` | audit mode, two tenants | `AuditedStore`'s promise row by row |
| `history_backfill` | 2 rows from before registration, faults | concurrent and interrupted backfills among writes and restores; sound verification; the refinement |
| `history_restore` | 1 row, 2 values, writes that bypass PyScoped | restores do what was asked, on reconciled data |
| `history_progress` | 2 rows of one scope, fair | every operation ends |
| `live_parts` | 2 requests on 2 threads, up to 3 chunks; 3 managers, 2 tasks, 2 querysets; 3 models, 5 relations; 2 histories, 2 edits | context isolation; the innermost block's context; rows of one's own scope only; no relation unguarded; edits show |
| `legacy_stores` | 2 threads for each of 19 parts of the 1.x framework | what those parts promise, see below |
| `progress` | relations, sync agent, scheduling, event delivery, fair | writes end, entries arrive, due actions are settled, deliveries are settled; and their safety |
| `delete_race`, `stream_scope` | | the findings below |

The parts of `legacy_stores` and `progress` state their properties in their own modules.
The MC modules gather them by what they promise, each gathering is one property of the
run, and `PROJECT.json` lists a mutant for nearly every member of it:

| Property | Members |
|---|---|
| `NothingDangling` | `CurrentReadable` (secrets), `BlobReadable`, `PeopleRegistered` (identities), `RolledBackHasReversal` (deployments), `CachedIsOpen`, `NoBackendLeaks` (tenant router) |
| `ClosedStaysClosed` | `ClosedForGood` (scopes), `ResolvesOpenOnly` (secret references), `HandlersOfActive`, `RemovedForGood` (plugins), `SealedStays` (archives) |
| `AnswersAgree` | `ListMatchesSight` (tenancy), `ExplanationAgrees`, `CacheHonest` (rules), `NearestWins` (settings), `NoFalseAlarm` (audit verification) |
| `GatesHold` | `QuotaBounded`, `RateBounded` (limits), `SecretsStay`, `NeverUnapproved` (connectors) |
| `OnlyOnce` | `AcceptedOnce`, `NoFalseReplay` (federation), `OneActivePerUrn` (registry) |
| `SchemaReached` | `FullyMigrated`, `Repeatable` (migrations) |
| `RecordsTrue` | `DeployedHasRun`, `RecordedTruly` (traffic), `StagesConnected`, `SnapshotsIntact` (blobs), `ArchiveCovers`, `ScopeFollowsState` (environments) |
| `NothingUndone` | `VersionsKept` (objects), `AppendOnly` (audit trail), `GrantsKept` (memberships), `RotationForward` (secrets), `PoliciesCool` (tiers) |
| `EnvironmentsKeep` | `PromotesAll`, `RestoreMatches` |
| `NothingMissed` | `WatermarkHonest` (sync), `NoOccurrenceLost`, `RunsOnce` (scheduling), `DeliveredIsReceived`, `PostsBounded` (events) |

`ChainIntact` (audit trail) and `RestoresContent` (rollback) stand alone. `NothingMissed` does
not say that an occurrence of an action is enqueued once: two dispatchers that read
the same row may both enqueue it, and nobody has to die for that.

Environments have two focuses. In `environments` failures, deaths and rollbacks come
between the statements of the calls, and there are no snapshots; in `snapshots` snapshots
are taken, dropped and restored among the calls, and nothing fails. With both at once
the part alone has some 18 million states. A failure in the middle of a restore is covered by
the proof (`EnvironmentsHold`), which has all actions together. `legacy_stores` visits
1.6 million states in all, `live_parts` 1.7 million.

`writes_saves` leaves deletes out, and `writes_deletes` leaves `save()` of whole
instances out, because with both the refinement fails; that is the first finding
below. `save(update_fields=...)` is in all of them, and `writes_revival` has all
operations. In `live_parts` the second thread's server code has a context of its
own, as a test client inside a `scope` block has.

**Deadlock checking** is off (`CHECK_DEADLOCK FALSE`) in `history_progress`, where the
property, that every operation ends, is the statement of it, and in `live_parts`,
`legacy_stores` and `progress`, where the bounds on calls, versions and faults stop the
model and the system would go on.

**Fairness.** `history_progress` assumes weak fairness of each worker's steps:
PostgreSQL queues the waiters of a lock, an application does not stop in the middle of
a library call, and the number of calls is bounded; nothing obliges anyone to start a
call. Faults are off in this run: a fault ends an operation and would hide a
deadlock that PostgreSQL has to break. `progress` assumes the same of writers of
related rows, of the sync thread's loop, of the process that calls
`process_due_actions()` and of the queue's runner, all of which the framework expects
to be called for ever. A courier's calls of `retry_failed()` get strong fairness: it is
called again and again, but only has something to do while no other call has its
rows. Failures of requests are bounded (`MaxFaults`), and what the code does not
recover from (a runner that died with a job, a row left in `retrying`) is named in the
property.

### Findings

Each of the first two is a run that TLC must find violated; `PROJECT.json` quotes the
line of the repository it contradicts.

1. `delete_race`: the `pre_delete` receiver passes over a collected row that is
   gone; if a stale instance's `save()` brings the key back before Django's DELETE,
   the row is deleted with no event.
2. `stream_scope`: a content generator that yields inside its own `scope` block
   continues, inside the block, in the request's context.

Other statements the modules make and no run checks, because the code as modelled does
not keep them; the hazards refer to them:

* `ScopedWrites!ContinuousHistory`: the locking SELECT of `save()` locks nothing when the
  row does not exist; a row inserted meanwhile is overwritten and recorded as
  created. (The unlocked second SELECT of `bulk_update()` has the same shape.)
* `RequestContext!ServerClean`: a synchronous streaming response that is dropped while its
  generator is inside a `scope` block of its own leaves its request's context on the
  server's thread (section 2).
* `ScopedReads!CachedRowsInScope`: `docs/guarantees.md:17-18` says that querysets "cannot be
  evaluated under another context, even if their earlier results are cached"; `qs[0]`,
  `qs.first()` and `qs.contains()` on an evaluated queryset answer in any context, or in
  none (`query.py:74-156` overrides neither them nor `__getitem__`). Two reads break it.
* `Environments!ScopeNeverAdrift`: what sets `adrift` does separate an environment from its
  scope. The shortest way is a failing INSERT of the owner's membership in `spawn()`:
  the scope stays, active and without an environment.
* `TenantRouter!NothingStrays` and `CacheAlwaysOpen`: an `initialize()` that raises after it has
  opened the back end leaves it open and out of reach, and the lock-free look-up at
  `tenant_router.py:103` finds closed back ends while `close()` goes round, and after it
  has raised.
* `Environments!ResultsKept`: discarding a promoted environment archives what was
  promoted. `ObjectStore!RestoresLife`: a rollback does not bring a tombstoned object
  back to life. `ScopeSettings!SetAgain`: `set()` after `delete()` of a key raises.
* Races: `Limits!QuotaKept` (on PostgreSQL), `Connector!RevokedForGood` (a transition that
  read the row before), `BlobStore!SnapshotsImmutable` (overlapping updates share a
  path), `TenantRouter!UsesOpen` (a back end torn down in use), `Identities!UrnsUnique` (an
  archived entry brought back), `SecretVault!EveryAttemptLogged`.
* `Migrations!PoliciesInstalled`: the migration that installs row-level security policies
  raises at a table without the columns its policy names, and leaves the tables from there
  on without one.

## 4. Proofs

TLAPS checks the theorems for every value of the constants: any number of workers,
keys, scopes, tasks, models, and every bound. They rest on the assumptions the modules
name: keys are naturals (`KeyAssumption`, the code orders by them); `Null` is no value,
worker, row or history (`NullAssumption`, `AbsenceAssumption`); there is a scope and a
value (`SomeAssumption`); each worker has a scope (`CtxAssumption`) and the model one of
the two modes (`ModeAssumption`); a manager's absent token is no token
(`TokenAssumption`). The assumptions of the other parts say that bounds are naturals (and
positive where the code needs it: a batch, a depth, a retry), that an absent value is none
of the values (`BlobAssumption`, `ObjAssumption`, `VaultAssumption`, `StageFlowAssumption`,
`RelationAssumption`, `TenancyAssumption`), that constants have the shape of what they
stand for (`TenancyAssumption`, `RulesAssumption`, `PluginsAssumption`), and that there are
finitely many threads where the code or the bound counts them (`LimitsAssumption`,
`SchedulingAssumption`, `DeliveryAssumption`). TLC evaluates all of them in the runs.

Two hypotheses say more, and are stated in the theorems that need them: `LongHorizon`, that
retention keeps the newest entry and what is newer than the calls in progress (with a
shorter age limit it removes entries between two writers' clocks, and the chain does
break), and `OneSender`, that the sending threads of a federation connector belong to one
process (its lock is a process'; with two, a number is used twice and `NoFalseReplay`
fails). Both are how the runs are instantiated.

Under these, and the hypotheses given below for the writes, every invariant, action
property and refinement that a passing run checks is a theorem. `PROJECT.json` lists the
theorems a reader should know of; the modules hold some more, on which those rest.

### Writes

`HistoryVerifies` speaks of committed histories only and is not inductive: what a
transaction will commit, and what a rollback to a savepoint will bring back, must
verify too. The invariant `IInv(P)` of `ScopedWritesProofs` is

* `GoodTables`: committed rows and histories are typed, and each history `Sound`: it
  verifies, and is `Signed` (in enforce mode by actors of its scope; a baseline only
  first; a restore only from where the event before it ended);
* `GoodTxns`: the same of every `txn[w]` and of the savepoint `mark[w]`;
* `GoodControl(P)`: types of the control state, with program points in `P`;
* `Holds`: where `before_delete()`, `backfill()` and `restore()` are about to use a row,
  they have locked and checked it;
* `RestoreHolds`: a `restore()` that has come to its `save()` owns the row and the head,
  and the head says what the row was.

The key lemma is that appending the event made from a sound head gives a sound
history. The preservation proof has one step per action; `P` is a parameter so that
the lemmas also serve `ScopedHistory`, which adds program points. It gives
`TypeCorrect`, `HistoriesVerify` and `ActorsActInScope`.

`RowsFollowHistory` (`HistoryInScope`) needs the locks. `ScopeInv` says that no two
transactions own a row or a head in common (`Apart`), and that each transaction would leave every key `Settled` if it committed now: a row in the scope of
the history it owns, or else in the scope the row had. The exception are the keys an
operation is `Busy` with, between the write of a row and its event, and there it
cannot commit. A commit of one worker leaves a key settled for the others because they
own nothing of it.

### History

`ScopedHistoryProofs` proves the same of `HistorySpec`, where backfills, verifications,
restores and drift run among the writes, and what `history.py` itself promises:

* `VerdictsSound`: a head that is locked and the events read after it belong together
  (`HistoryAt`).
* `BaselinesFirst` and `RestoresReconcile` are parts of `Signed`.
* `BackfillLeavesNoGap`: `Underway` says that a row `backfill()` has passed has history, in
  its own transaction at least. A commit of another worker that puts a row where there
  was none puts its history there too: that is what `Settled` says.
* `RestoresAsTold`: if `bulk_update()` is not among the operations used, `RestoresAsAsked`.
  `restore()` compares the expected revision with a head it has not locked
  (`history.py:144`) and locks the head later, in `verify_history()`. `Owning` says why this
  is safe: every event is appended by a transaction that owns the row it is about, and
  `restore()` has locked the row before; `Asked` says what each of its statements may
  rely on. The hypothesis is needed: `bulk_update()` snapshots rows in a second,
  unlocked SELECT, so that a row deleted and re-created (with a chosen key) between
  its statements is recorded without being owned, and such an event can come
  between the two. TLC finds this with `Ops = {"create", "bulk_update", "delete",
  "restore"}`, `OwnKeys = TRUE`, one key and five calls: the restore then is two
  revisions after the expected one.

### The refinement

`ScopedHistoryProofs` also proves that the committed rows and events implement `AuditedStore`:
`WritesKeepPromise` and `WritesKeepAuditPromise` of `Spec`, `HistoryKeepsPromise` and
`HistoryKeepsAuditPromise` of `HistorySpec` with `Drift = FALSE`. The hypothesis `NoReuse`
is the one under which the runs check it: keys come from the sequence, and the
application uses `delete()` or `save()` of whole instances but not both. Without it a
key is used again and the refinement fails (`delete_race`, below).

The store's step is the commit, so the argument is about what a transaction would
commit. `PromiseInv` says, beside `IInv` and `ScopeInv`:

* `Honest`: the events a transaction adds to a history are its worker's, start from the
  committed row and leave no gap (`Accounts`); a row it puts where there is none is the
  first of its key;
* `Clean`: each row it owns is what its last event says, or the committed row if it has
  none. Only the `Pending` keys of an operation are exempt: rows written and not yet
  recorded, and in `delete()` rows recorded and not yet deleted;
* the savepoint is honest and clean too, since an exception goes back to it;
* `Midway`: what each operation knows between its statements, such as that the snapshot
  it took is still what the history says of the row when it records. This is where
  the locks count: a snapshot is of a row that is owned;
* `FreshInv`: nobody has anything under a key the sequence has given or has still to
  give, and it gives none twice; `LiveRows`: where whole instances are saved, no row
  that has history is missing; `Opened`: no head is committed without an event.

`Advances(w)` collects what a step has to show for its own worker, with one lemma per
action; `AdvanceKeeps` derives the invariant for all the others from it, because a commit
touches only what its worker owns. `CommitKeepsPromise` then turns a clean and honest
commit into `Promise!Transaction`, in the worker's scope in enforce mode by `Signed`.

Two consequences for a reader of a history: under the same hypotheses its newest event
says what the row is (`HeadsMatchRows`), and each event starts from what the one before
it left (`HistoriesContinuous`). The first is the property `delete_race` refutes, so the
hypothesis marks where the finding begins.

### Contexts, reads, registration, relations

* `NoInheritance` (`OwnContext`): the invariant adds that no two requests run on one
  thread, that an unresolved request has no context, and that leaving an application's
  own scope goes back to its request's context.
* `ServerGetsItsContextBack` (`ServerUntouched`), without a hypothesis about the content. It
  adds that the outermost frame of a running request will restore what a thread can be
  left in (`LeftIn`), that only a generator that was started can be paused inside a scope,
  and that the token of such a scope is that of its request's context. `AbandonedDone`
  says that the context of an abandoned request does not change any more, so that what
  a thread can be left in only grows (`LeftInGrows`).
* `ContextRestored` (`InnermostContext`): as long as no two tasks passed the check of one
  manager together, the token of a manager is that of the one block it was entered for
  (`InUse`, `OneBlockEach`), blocks remember the manager around them (`Nested`), and a
  manager past its check is free (`EnteringFree`).
* `ReadsStayInScope` (`RowsInScope`): the caches and cursors of a queryset hold rows of the
  scope of the context it was built in, and a queryset has its cache only after somebody
  saw those rows in that scope (`CachesSeen`), which is what is left to say of
  `ReadCached`.
* `EveryRelationGuarded` (`GuardsComplete`) is inductive with the types; `GuardsStay` is the
  action property that no guard is taken off and no mode changes.
* `TamperingAlwaysShows` (`TamperingShows`): `ChainInv` says that what PyScoped wrote is
  `Chained`: each event's digest is over its content and the digest before it, and the
  head has the last one. If only events or only the head were edited, a verified history
  ends in the digest PyScoped gave it; equal digests are of equal contents, so that by
  `SameHeads` and `SameDigests` the two chains agree from the last event down to the first.
* `LivePartsRefined` and `LiveTypeCorrect` carry this over to the `live_parts` run: every
  behaviour of the composition is one of each of its parts.

### The 1.x parts

`AuditProofs`, `LegacyStoreProofs` and `LegacyPartsProofs` have for each part one inductive
invariant (`AuditInv`, `ObjInv`, `TenancyInv`, ...), which is the types of rows and calls,
what the part promises, and what a call under way relies on. That last conjunct
(`WriterKnows`, `HandKnows`, `CallKnows`, `KeeperKnows`, `AgentKnows`, `Cleared`,
`CallOnScope`, ...) is the point of each: between two statements others may write, and
it says what of the rows read before is true still. Some of them:

* audit (`AuditChainHolds`): a writer's last hash is the newest entry's whenever its
  sequence is the newest one, and otherwise its insert collides. Retention must not
  remove what a writer that is inserting has read; that is where `LongHorizon` is needed.
  It gives one linked chain, no false alarm of verification, and that no entry changes.
* objects: a rollback that nobody disturbs has undone the entries of the trace down to the
  one before the head of its list: the pointer stands below that one, and the versions of
  the time it goes back to are there (`UndoneFrom`).
* migrations: `Built` says for each version what its being recorded, or being next in a
  command that was interrupted, means for the tables there are.
* limits: those who have passed the check count (`PassedQuota`, `PassedRate`), one per
  thread; the theorem is about cardinalities of finite sets.
* federation: a message's number is in the ledger when it is accepted, and with one
  sending process it is its place among the messages (`InTurn`).
* environments: `OwnerPoint` says for each point of a call what state and scope are, unless
  the environment is adrift; that includes the points at which a handler will run, so
  that the handlers are shown to put right what reaches them.
* cold storage: what is collected is between `kept` and `ever` for each object done, and the
  rows are for the others; a row that comes or goes keeps that (`CollectedStays`).
* tenant router: whoever checks, creates or initializes holds the lock, and so does a
  `close()` between its loop and its `clear()`; what is torn down is no longer the cached
  one (`LockGuards`).

`LegacyProofs` puts them together: `StoresRefined`, `PoliciesRefined` and `OthersRefined` say
that every behaviour of `MCLegacy` is one of each part, and the properties of the
`legacy_stores` run follow from the parts' invariants for every value of the constants.

### Relations, sync, scheduling, events

* `ChildrenAgree` (`RelationsInScope`): a worker's second check has confirmed the scope of
  each parent it has passed (`CheckedAgree`), and a lock is of a transaction under way
  (`LocksOfTheLiving`); `NoLockOutlives` follows from the latter.
* `NothingIsSkipped` (`WatermarkHonest`), under `LongHorizon`: all up to the newest sequence of
  the batch a thread has in hand has arrived or is in that batch (`HandsOn`). This
  stays true while other threads push and move the watermark, because the trail only
  grows past its newest entry: a gap, once passed, would never be filled.
* `OccurrencesGetJobs` (`NoOccurrenceLost`, `RunsOnce`): the occurrences before the one a
  dispatcher has read have their jobs (`Reached`), and it moves `next_run_at` on only after
  enqueueing; the arithmetic is that between two multiples of the interval there is none.
  Jobs and dispatchers about to enqueue together stay within the bound. A single
  runner has executed none of the jobs it has still to do (`SoleOK`).
* `DeliveriesHonest` (`DeliveredIsReceived`, `PostsBounded`): a single courier has read what its
  rows still say, and every post but those its deaths explain and the one in hand is
  recorded (`Alone`).
* `ProgressRefined` proves that `MCProgress` implements its parts together with their
  fairness; `NothingIsMissed`, `RelationsStayInScope` and `ProgressTypeCorrect` are what the
  `progress` run checks.

For these proofs `Scheduling` and `EventDelivery` keep the rows a thread has read as a set, of
which it takes the oldest next; the order of the SELECT is that of the rows' numbers.

### Only model-checked

Liveness under fairness (`OperationsEnd`, `WritesEnd`, `EntriesArrive`, `DueIsSettled`,
`DeliverySettles`) is out of the prover's reach, and the two findings are counterexamples
that TLC gives. All else the runs check is proved.

## 5. Not modelled, and what is left

Left out for good: system checks, Django migrations, argument parsing of the
management command (no state), validation of identities and JSON encoding
(`identity`, `plain`), the ON-clause predicates of scoped joins (SQL that Django's
compiler assembles), the example application, SQLite under PyScoped 2 (one writer at a
time). Of 1.x: the client, configuration, namespaces, adapters (`contrib/`), the
compliance test engine and the manifest loader, which call the services and keep no
state; notifications, marketplace, contracts and templates, search, export and
import, which are single inserts and queries; connection pools, key-management and
cloud blob back ends, which are other people's services.

Worth doing next:

1. Races that 1.x does not handle, as bounds rather than exceptions: how far a transition
   that overlaps a revocation, an archiving or an uninstallation can reach.
2. Cascades between registered models.
3. Composition of 1.x parts that call each other: environments with tenancy, plugins
   and connectors with rules.
