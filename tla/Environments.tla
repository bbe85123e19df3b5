---------------------------- MODULE Environments ----------------------------
(***************************************************************************)
(* An environment of the 1.x framework (environments/), its isolation      *)
(* scope (tenancy/lifecycle.py), the promotion of its objects              *)
(* (flow/promotion.py) and the rollback of its state                       *)
(* (temporal/rollback.py).  The owner's calls change the state, the        *)
(* scope, the objects tracked and the audit trail, one autocommitted       *)
(* statement after the other.  A statement may fail, the owner's process   *)
(* may die, and somebody may roll the state back, between any two of them. *)
(***************************************************************************)
EXTENDS Naturals, FiniteSets

CONSTANTS
  Obj,              \* objects
  MaxObjVersion,    \* bound on versions of an object
  MaxMishaps        \* bound on failures, deaths and rollbacks

ASSUME EnvironmentsAssumption == MaxObjVersion \in Nat /\ MaxMishaps \in Nat

VARIABLES
  env,        \* state of the environment, "none" before it is spawned
  envScope,   \* lifecycle of its scope, "none" before it is created
  inside,     \* environment_objects: origin per object, "none" for no row
  objects,    \* scoped_objects and object_versions: life, current and last version
  promoted,   \* objects projected into the target scope by a promotion
  snapshot,   \* {} or {the last snapshot}
  owner,      \* the call under way
  traced,     \* audit entries of the environment: states before and after
  adrift,     \* a mishap has come between the state and the scope
  mishaps     \* failures, deaths and rollbacks so far

envVars == <<env, envScope, inside, objects, promoted, snapshot, owner, traced, adrift, mishaps>>

\* The audit trail and what went wrong.
trailVars == <<traced, adrift, mishaps>>

EnvState == {"none", "spawning", "active", "suspended", "completed", "discarded", "promoted"}

EnvIdle == [pc |-> "idle", target |-> "none", todo |-> {}, prev |-> "none", scoped |-> FALSE]

EnvInit ==
  /\ env = "none"
  /\ envScope = "none"
  /\ inside = [o \in Obj |-> "none"]
  /\ objects = [o \in Obj |-> [life |-> "ACTIVE", current |-> 1, last |-> 1]]
  /\ promoted = {}
  /\ snapshot = {}
  /\ owner = EnvIdle
  /\ traced = {}
  /\ adrift = FALSE
  /\ mishaps = 0

\* VALID_TRANSITIONS
ValidTransition ==
  {<<"spawning", "active">>, <<"active", "suspended">>, <<"active", "completed">>,
   <<"suspended", "active">>, <<"completed", "discarded">>, <<"completed", "promoted">>,
   <<"promoted", "discarded">>}

Created == {o \in Obj : inside[o] = "created"}

Continue(pc, target, todo, prev) ==
  owner' = [owner EXCEPT !.pc = pc, !.target = target, !.todo = todo, !.prev = prev]

Return == owner' = EnvIdle

-----------------------------------------------------------------------------
(* EnvironmentLifecycle. *)

\* spawn(): create_scope() inserts the scope ...
SpawnScope ==
  /\ owner.pc = "idle" /\ env = "none"
  /\ envScope' = "ACTIVE"
  /\ Continue("member", "spawning", {}, "none")
  /\ UNCHANGED <<env, inside, objects, promoted, snapshot, trailVars>>

\* ... and, in statements of its own, its owner's membership and the audit entry.
ScopeIsMade ==
  /\ owner.pc = "member"
  /\ Continue("spawn", "spawning", {}, "none")
  /\ UNCHANGED <<env, envScope, inside, objects, promoted, snapshot, trailVars>>

\* Then the environment ...
SpawnInsert ==
  /\ owner.pc = "spawn"
  /\ env' = "spawning"
  /\ Continue("audit", "spawning", {}, "none")
  /\ UNCHANGED <<envScope, inside, objects, promoted, snapshot, trailVars>>

\* ... and, when its INSERT failed, archive_scope() from the handler.
CleanUpScope ==
  /\ owner.pc = "cleanup"
  /\ envScope' = "ARCHIVED"
  /\ Return
  /\ UNCHANGED <<env, inside, objects, promoted, snapshot, trailVars>>

\* activate(), suspend(), resume(), complete(), and promote() without a target:
\* _transition() reads and checks ...
BeginTransition(target) ==
  /\ owner.pc = "idle"
  /\ target # "discarded"
  /\ <<env, target>> \in ValidTransition
  /\ Continue("write", target, {}, env)
  /\ UNCHANGED <<env, envScope, inside, objects, promoted, snapshot, trailVars>>

\* ... writes ...
WriteState ==
  /\ owner.pc = "write"
  /\ env' = owner.target
  /\ Continue("audit", owner.target, {}, owner.prev)
  /\ UNCHANGED <<envScope, inside, objects, promoted, snapshot, trailVars>>

\* ... and records what it did, as spawn() does at its end; discard() goes on.
RecordState ==
  /\ owner.pc = "audit"
  /\ traced' = traced \union {<<owner.prev, owner.target>>}
  /\ IF owner.target = "discarded" THEN Continue("tombstone", "discarded", Created, owner.prev) ELSE Return
  /\ UNCHANGED <<env, envScope, inside, objects, promoted, snapshot, adrift, mishaps>>

\* discard() remembers the state to return to; its reading and _transition()'s
\* are one step.
BeginDiscard ==
  /\ owner.pc = "idle"
  /\ <<env, "discarded">> \in ValidTransition
  /\ Continue("write", "discarded", {}, env)
  /\ UNCHANGED <<env, envScope, inside, objects, promoted, snapshot, trailVars>>

\* _tombstone_created_objects(), a row at a time ...
TombstoneOne(o) ==
  /\ owner.pc = "tombstone"
  /\ o \in owner.todo
  /\ objects' = [objects EXCEPT ![o].life = "ARCHIVED"]
  /\ owner' = [owner EXCEPT !.todo = @ \ {o}]
  /\ UNCHANGED <<env, envScope, inside, promoted, snapshot, trailVars>>

\* ... and then the scope, by archive_scope(): a transaction ...
ArchiveEnvScope ==
  /\ owner.pc = "tombstone"
  /\ owner.todo = {}
  /\ envScope # "ARCHIVED"
  /\ envScope' = "ARCHIVED"
  /\ Continue("archived", "discarded", {}, owner.prev)
  /\ UNCHANGED <<env, inside, objects, promoted, snapshot, trailVars>>

\* ... which raises when the scope is archived already ...
ArchiveRefused ==
  /\ owner.pc = "tombstone"
  /\ owner.todo = {}
  /\ envScope = "ARCHIVED"
  /\ Continue("revert", "discarded", {}, owner.prev)
  /\ UNCHANGED <<env, envScope, inside, objects, promoted, snapshot, trailVars>>

\* ... and the scope's audit entry after the commit.
RecordArchival ==
  /\ owner.pc = "archived"
  /\ Return
  /\ UNCHANGED <<env, envScope, inside, objects, promoted, snapshot, trailVars>>

\* Mutant: discard() does not return to the previous state.
StaysDiscarded == env

\* The state discard() returns to.
Reverted == owner.prev

\* discard()'s handler.
RevertState ==
  /\ owner.pc = "revert"
  /\ env' = Reverted
  /\ Return
  /\ UNCHANGED <<envScope, inside, objects, promoted, snapshot, trailVars>>

\* promote(target_scope_id=...) looks at the owner, not at the state ...
BeginPromote ==
  /\ owner.pc = "idle"
  /\ env # "none"
  /\ owner' = [owner EXCEPT !.pc = "promote", !.target = "promoted", !.todo = Created, !.scoped = TRUE]
  /\ UNCHANGED <<env, envScope, inside, objects, promoted, snapshot, trailVars>>

\* ... has PromotionManager project the objects one by one ...
PromoteOne(o) ==
  /\ owner.pc = "promote"
  /\ o \in owner.todo
  /\ promoted' = promoted \union {o}
  /\ owner' = [owner EXCEPT !.todo = @ \ {o}]
  /\ UNCHANGED <<env, envScope, inside, objects, snapshot, trailVars>>

\* Mutant: the state is written before the objects are promoted.
PromoteEarly ==
  /\ owner.pc = "promote"
  /\ env' = IF <<env, "promoted">> \in ValidTransition THEN "promoted" ELSE env
  /\ IF owner.todo = {} THEN Return ELSE UNCHANGED owner
  /\ UNCHANGED <<envScope, inside, objects, promoted, snapshot, trailVars>>

\* ... and makes the transition at the end, which may refuse.
PromoteLast ==
  /\ owner.pc = "promote"
  /\ owner.todo = {}
  /\ IF <<env, "promoted">> \in ValidTransition
     THEN Continue("write", "promoted", {}, env)
     ELSE Return
  /\ UNCHANGED <<env, envScope, inside, objects, promoted, snapshot, trailVars>>

-----------------------------------------------------------------------------
(* EnvironmentContainer and ScopedManager. *)

\* add_object() and project_in(): the state is checked, then the row inserted.
AddObject(o, origin) ==
  /\ owner.pc = "idle"
  /\ env = "active"
  /\ inside[o] = "none"
  /\ inside' = [inside EXCEPT ![o] = origin]
  /\ UNCHANGED <<env, envScope, objects, promoted, snapshot, owner, trailVars>>

\* remove_object(), in any state.
RemoveObject(o) ==
  /\ owner.pc = "idle"
  /\ inside[o] # "none"
  /\ inside' = [inside EXCEPT ![o] = "none"]
  /\ UNCHANGED <<env, envScope, objects, promoted, snapshot, owner, trailVars>>

\* ScopedManager.update(): version current + 1, which must be free.
Updatable(o) == objects[o].life = "ACTIVE" /\ objects[o].current = objects[o].last

UpdateObject(o) ==
  /\ owner.pc = "idle"
  /\ Updatable(o)
  /\ objects[o].last < MaxObjVersion
  /\ objects' = [objects EXCEPT ![o].current = @ + 1, ![o].last = @ + 1]
  /\ UNCHANGED <<env, envScope, inside, promoted, snapshot, owner, trailVars>>

-----------------------------------------------------------------------------
(* SnapshotManager.  A snapshot is collected in one step: nothing here rests
   on its being consistent. *)

Capture ==
  /\ owner.pc = "idle" /\ env # "none"
  /\ snapshot' = {[rows |-> inside, versions |-> [o \in Obj |-> IF inside[o] = "none" THEN 0 ELSE objects[o].current]]}
  /\ UNCHANGED <<env, envScope, inside, objects, promoted, owner, trailVars>>

\* apply_retention() that leaves none.
ApplyRetention ==
  /\ owner.pc = "idle"
  /\ snapshot # {}
  /\ snapshot' = {}
  /\ UNCHANGED <<env, envScope, inside, objects, promoted, owner, trailVars>>

\* restore(): the version pointers of the snapshot's objects ...
RestoreVersions ==
  \E s \in snapshot :
    /\ owner.pc = "idle"
    /\ objects' = [o \in Obj |-> IF s.rows[o] = "none" THEN objects[o]
                                 ELSE [objects[o] EXCEPT !.current = s.versions[o]]]
    /\ Continue("restore", env, {}, env)
    /\ UNCHANGED <<env, envScope, inside, promoted, snapshot, trailVars>>

\* Mutant: a row the snapshot does not have is left alone.
AddsOnly(s, o) == IF s.rows[o] = "none" \/ inside[o] # "none" THEN inside[o] ELSE s.rows[o]

\* ... and its rows: extra ones are removed, missing ones added.
Resynced(s, o) ==
  IF s.rows[o] = "none" THEN "none" ELSE IF inside[o] = "none" THEN s.rows[o] ELSE inside[o]

RestoreRows ==
  \E s \in snapshot :
    /\ owner.pc = "restore"
    /\ inside' = [o \in Obj |-> Resynced(s, o)]
    /\ Return
    /\ UNCHANGED <<env, envScope, objects, promoted, snapshot, trailVars>>

-----------------------------------------------------------------------------
(* Mishaps. *)

\* The owner's call is between its writes of the state and of the scope.
Exposed ==
  \/ owner.pc \in {"member", "spawn", "cleanup", "tombstone", "revert"}
  \/ owner.pc = "audit" /\ owner.target = "discarded"

\* A statement raises: spawn()'s and discard()'s handlers go on, the other calls
\* return as they are.  discard()'s own audit entry is outside of its try.
Fail ==
  /\ owner.pc # "idle"
  /\ mishaps < MaxMishaps
  /\ mishaps' = mishaps + 1
  /\ CASE owner.pc = "spawn" -> Continue("cleanup", "spawning", {}, "none")
       [] owner.pc \in {"tombstone", "archived"} -> Continue("revert", "discarded", {}, owner.prev)
       [] OTHER -> Return
  \* Nothing puts this right; archive_scope() has its commit behind it.
  /\ adrift' = (adrift \/ owner.pc = "archived" \/ (Exposed /\ owner.pc \notin {"spawn", "tombstone"}))
  /\ UNCHANGED <<env, envScope, inside, objects, promoted, snapshot, traced>>

\* The process dies: no handler runs.
Die ==
  /\ owner.pc # "idle"
  /\ mishaps < MaxMishaps
  /\ mishaps' = mishaps + 1
  /\ owner' = EnvIdle
  /\ adrift' = (adrift \/ Exposed)
  /\ UNCHANGED <<env, envScope, inside, objects, promoted, snapshot, traced>>

\* RollbackExecutor takes back an entry of the environment, whatever came after
\* it: the state before is written, "discarded" for the spawning, and an entry
\* recorded unless that fails.  The scope is left alone.
RollBackState ==
  \E e \in traced :
    /\ env # "none"
    /\ mishaps < MaxMishaps
    /\ mishaps' = mishaps + 1
    /\ env' = IF e[1] = "none" THEN "discarded" ELSE e[1]
    /\ traced' \in {traced, traced \union {<<e[2], e[1]>>}}
    /\ adrift' = (adrift \/ (env = "discarded") # (env' = "discarded"))
    /\ UNCHANGED <<envScope, inside, objects, promoted, snapshot, owner>>

-----------------------------------------------------------------------------
CallsNext ==
  \/ SpawnScope \/ ScopeIsMade \/ SpawnInsert \/ CleanUpScope
  \/ \E t \in {"active", "suspended", "completed", "promoted"} : BeginTransition(t)
  \/ WriteState \/ RecordState
  \/ BeginDiscard \/ ArchiveEnvScope \/ ArchiveRefused \/ RecordArchival \/ RevertState
  \/ BeginPromote \/ PromoteLast
  \/ \E o \in Obj : TombstoneOne(o) \/ PromoteOne(o) \/ RemoveObject(o) \/ UpdateObject(o)
  \/ \E o \in Obj, origin \in {"created", "projected"} : AddObject(o, origin)

SnapshotsNext == Capture \/ ApplyRetention \/ RestoreVersions \/ RestoreRows

MishapsNext == Fail \/ Die \/ RollBackState

EnvNext == CallsNext \/ SnapshotsNext \/ MishapsNext

EnvSpec == EnvInit /\ [][EnvNext]_envVars

-----------------------------------------------------------------------------
(* Properties. *)

EnvTypeOK ==
  /\ env \in EnvState
  /\ envScope \in {"none", "ACTIVE", "ARCHIVED"}
  /\ \A o \in Obj : inside[o] \in {"none", "created", "projected"}
  /\ \A o \in Obj : objects[o].current \in 1..objects[o].last
  /\ promoted \subseteq Obj
  /\ owner.todo \subseteq Obj
  /\ traced \subseteq EnvState \X EnvState
  /\ adrift \in BOOLEAN

\* When no call is under way the scope is archived, or there is none: the
\* environment is discarded or was never made.
InStep == envScope = "ARCHIVED" <=> env = "discarded" \/ (env = "none" /\ envScope # "none")

\* An environment is usable exactly as long as its scope is: through failing
\* inserts, tombstones and archivings, retried promotions and transitions that
\* raise, the handlers of spawn() and discard() keep the two together.  What
\* they do not reach sets adrift.
ScopeFollowsState == owner.pc = "idle" /\ ~adrift => InStep

\* The same, whatever went wrong.  The code breaks this: see Fail, Die and
\* RollBackState.
ScopeNeverAdrift == owner.pc = "idle" => InStep

\* "The env state flip to PROMOTED happens only after all promotions succeed":
\* a promotion into a scope ends with every object created in the environment
\* projected there, however many attempts failed half-way before.
PromotesEach ==
  env' = "promoted" /\ env # "promoted" /\ owner.scoped /\ mishaps' = mishaps => Created \subseteq promoted'
PromotesAll == [][PromotesEach]_envVars

\* "Re-synchronises the environment_objects rows so they match the snapshot".
MatchesSnapshot ==
  owner.pc = "restore" /\ owner'.pc = "idle" /\ mishaps' = mishaps =>
    \E s \in snapshot : \A o \in Obj :
      /\ (inside'[o] = "none") = (s.rows[o] = "none")
      /\ inside'[o] # "none" => objects'[o].current = s.versions[o]
RestoreMatches == [][MatchesSnapshot]_envVars

\* "Mark environment as promoted (results have been kept) ... the environment
\* can still be discarded": what was promoted is not archived with it.  The
\* code breaks this.
ResultsKept == \A o \in promoted : objects[o].life = "ACTIVE"

=============================================================================
