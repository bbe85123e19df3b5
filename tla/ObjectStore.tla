---------------------------- MODULE ObjectStore ----------------------------
(***************************************************************************)
(* A versioned object of the 1.x framework, shared with a second principal *)
(* (objects/manager.py), and the rollback of what was done to it           *)
(* (temporal/).  An operation reads and checks, then writes in one         *)
(* transaction, then records its trace: three steps, and others come       *)
(* between them.  A rollback is a statement at a time.                     *)
(***************************************************************************)
EXTENDS Naturals, Sequences, FiniteSets

CONSTANTS
  Owner, Guest,    \* principals; the object is projected to the guest's scope
  Data, NoData,    \* contents of a version
  Levels,          \* of "none", "read", "write", "admin"
  Barred,          \* principals a rule denies "rollback"
  MaxVersion,      \* bound on version numbers
  MaxTrace,        \* bound on trace entries when a call other than a rollback records
  MaxRollbacks     \* bound on calls of the rollback executor

ASSUME ObjAssumption ==
  /\ MaxVersion \in Nat \ {0} /\ MaxTrace \in Nat /\ MaxRollbacks \in Nat
  /\ NoData \notin Data

VARIABLES
  obj,        \* the scoped_objects row, its object_versions and its tombstone
  level,      \* the guest's access level
  trace,      \* the audit entries of the object, in order; an index is a time
  call,       \* the operation each principal is in
  rollbacks,  \* rollbacks so far
  calm        \* of a first rollback under way: nobody else has written the object since it began

objVars == <<obj, level, trace, call, rollbacks, calm>>

Caller == {Owner, Guest}

\* ScopedObject: `rows` are its versions, by number.
NoObject == [life |-> "none", current |-> 0, rows |-> [v \in {} |-> NoData], tomb |-> FALSE]

\* TraceEntry: the versions of its metadata (0: none) and its states.
TraceOf(act, before, after, old, new) ==
  [act |-> act, before |-> before, after |-> after, old |-> old, new |-> new]

Quiet == [pc |-> "idle", seen |-> 0, data |-> NoData, old |-> NoData, todo |-> <<>>, at |-> 0]

ObjInit ==
  /\ obj = NoObject
  /\ level \in Levels
  /\ trace = <<>>
  /\ call = [p \in Caller |-> Quiet]
  /\ rollbacks = 0
  /\ calm = [p \in Caller |-> FALSE]

Versions == DOMAIN obj.rows
DataAt(v) == IF v \in Versions THEN obj.rows[v] ELSE NoData

\* Someone who writes the object disturbs every rollback but its own.
Disturbs(p) == calm' = [q \in Caller |-> calm[q] /\ q = p]

-----------------------------------------------------------------------------
(* ScopedManager. *)

\* get() and get_or_raise(): the owner, or whoever it is projected to.
CanSee(p) == obj.life # "none" /\ (p = Owner \/ level # "none")

\* _check_access_level()
HasLevel(p, required) ==
  p = Owner \/ level \in (CASE required = "write" -> {"write", "admin"}
                             [] required = "admin" -> {"admin"})

Share(l) ==
  /\ l # level
  /\ level' = l
  /\ UNCHANGED <<obj, trace, call, rollbacks, calm>>

\* create(), create_many(): the row and its first version, in one transaction.
CreateObject(d) ==
  /\ obj.life = "none"
  /\ call[Owner].pc = "idle"
  /\ obj' = [NoObject EXCEPT !.life = "active", !.current = 1, !.rows = [v \in {1} |-> d]]
  /\ call' = [call EXCEPT ![Owner] = [Quiet EXCEPT !.pc = "traceCreate", !.data = d]]
  /\ UNCHANGED <<level, trace, rollbacks, calm>>

\* update(): the row is read and every check made ...
UpdateReads(p, d) ==
  /\ call[p].pc = "idle"
  /\ CanSee(p) /\ HasLevel(p, "write") /\ obj.life = "active"
  /\ obj.current < MaxVersion
  /\ call' = [call EXCEPT ![p] = [Quiet EXCEPT !.pc = "update", !.seen = obj.current, !.data = d,
                                               !.old = DataAt(obj.current)]]
  /\ UNCHANGED <<obj, level, trace, rollbacks, calm>>

\* Mutant: no such constraint, a second row takes the first one's place.
AnyVersion(v) == TRUE

\* UNIQUE(object_id, version)
VersionFree(v) == v \notin Versions

\* Mutant: the row is written without its data.
UpdateWritesBlank(p) ==
  LET v == call[p].seen + 1 IN
  /\ call[p].pc = "update"
  /\ obj' = [obj EXCEPT !.current = v,
                        !.rows = [w \in Versions \union {v} |-> IF w = v THEN NoData ELSE obj.rows[w]]]
  /\ call' = [call EXCEPT ![p].pc = "traceUpdate"]
  /\ Disturbs(p)
  /\ UNCHANGED <<level, trace, rollbacks>>

\* ... and the next version written, unless somebody else has done so.
UpdateWrites(p) ==
  LET v == call[p].seen + 1 IN
  /\ call[p].pc = "update"
  /\ IF VersionFree(v)
     THEN /\ obj' = [obj EXCEPT !.current = v,
                                !.rows = [w \in Versions \union {v} |->
                                            IF w = v THEN call[p].data ELSE obj.rows[w]]]
          /\ call' = [call EXCEPT ![p].pc = "traceUpdate"]
          /\ Disturbs(p)
     ELSE /\ call' = [call EXCEPT ![p] = Quiet]
          /\ UNCHANGED <<obj, calm>>
  /\ UNCHANGED <<level, trace, rollbacks>>

\* tombstone(), in the same two steps; UNIQUE(object_id) of the tombstones.
TombstoneReads(p) ==
  /\ call[p].pc = "idle"
  /\ CanSee(p) /\ HasLevel(p, "admin") /\ obj.life = "active"
  /\ call' = [call EXCEPT ![p] = [Quiet EXCEPT !.pc = "tombstone", !.seen = obj.current,
                                               !.old = DataAt(obj.current)]]
  /\ UNCHANGED <<obj, level, trace, rollbacks, calm>>

TombstoneWrites(p) ==
  /\ call[p].pc = "tombstone"
  /\ IF obj.tomb
     THEN call' = [call EXCEPT ![p] = Quiet] /\ UNCHANGED <<obj, calm>>
     ELSE /\ obj' = [obj EXCEPT !.life = "archived", !.tomb = TRUE]
          /\ call' = [call EXCEPT ![p].pc = "traceDelete"]
          /\ Disturbs(p)
  /\ UNCHANGED <<level, trace, rollbacks>>

\* The audit entry that create(), update() and tombstone() end with.
EntryOf(c) ==
  CASE c.pc = "traceCreate" -> TraceOf("create", 0, 1, NoData, c.data)
    [] c.pc = "traceUpdate" -> TraceOf("update", c.seen, c.seen + 1, c.old, c.data)
    [] c.pc = "traceDelete" -> TraceOf("delete", c.seen, 0, c.old, NoData)

RecordTrace(p) ==
  /\ call[p].pc \in {"traceCreate", "traceUpdate", "traceDelete"}
  /\ Len(trace) < MaxTrace
  /\ trace' = Append(trace, EntryOf(call[p]))
  /\ call' = [call EXCEPT ![p] = Quiet]
  /\ Disturbs(p)
  /\ UNCHANGED <<obj, level, rollbacks>>

\* A process dies with what it was doing.
CallerDies(p) ==
  /\ call[p].pc # "idle"
  /\ call' = [call EXCEPT ![p] = Quiet]
  /\ calm' = [calm EXCEPT ![p] = FALSE]
  /\ UNCHANGED <<obj, level, trace, rollbacks>>

-----------------------------------------------------------------------------
(* RollbackExecutor. *)

\* Mutant: the oldest entry first.
OldestFirst(T) == [i \in 1..(Len(trace) - T) |-> T + i]

\* The entries after time T, the newest first.
NewestFirst(T) == [i \in 1..(Len(trace) - T) |-> Len(trace) + 1 - i]

\* RollbackConstraintChecker: entries of one object are all denied or none is.
RollbackPermitted(p) == p \notin Barred

RollbackBegins(p, todo, T) ==
  /\ call[p].pc = "idle"
  /\ RollbackPermitted(p)
  /\ rollbacks < MaxRollbacks
  /\ rollbacks' = rollbacks + 1
  /\ call' = [call EXCEPT ![p] = [Quiet EXCEPT !.pc = "point", !.todo = todo, !.at = T]]
  /\ calm' = [calm EXCEPT ![p] = rollbacks = 0 /\ \A q \in Caller \ {p} : call[q].pc = "idle"]
  /\ UNCHANGED <<obj, level, trace>>

\* rollback_action(); rollback_cascade() of an entry nothing depends on.
RollbackAction(p, i) == i \in 1..Len(trace) /\ RollbackBegins(p, <<i>>, 0)

\* rollback_to_timestamp()
RollbackToTrace(p, T) == T \in 1..(Len(trace) - 1) /\ RollbackBegins(p, NewestFirst(T), T)

\* _apply_rollback_state(), first statement: the pointer goes back, or what
\* was created is archived.  A rollback entry has no versions: unless it has
\* no before-state either, nothing is done.
RollbackPoints(p) ==
  LET e == trace[Head(call[p].todo)] IN
  /\ call[p].pc = "point"
  /\ obj' = IF e.before # 0 THEN [obj EXCEPT !.current = e.before]
            ELSE IF e.old = NoData THEN [obj EXCEPT !.life = "archived"] ELSE obj
  /\ call' = [call EXCEPT ![p].pc = "prune"]
  /\ Disturbs(p)
  /\ UNCHANGED <<level, trace, rollbacks>>

\* Second statement: the version that was written is deleted.
RollbackPrunes(p) ==
  LET e == trace[Head(call[p].todo)] IN
  /\ call[p].pc = "prune"
  /\ obj' = IF e.before # 0 /\ e.after # 0
            THEN [obj EXCEPT !.rows = [v \in Versions \ {e.after} |-> obj.rows[v]]]
            ELSE obj
  /\ call' = [call EXCEPT ![p].pc = "traceRollback"]
  /\ Disturbs(p)
  /\ UNCHANGED <<level, trace, rollbacks>>

\* _execute_single_rollback() records what it did; then the next entry.
RollbackRecords(p) ==
  LET e == trace[Head(call[p].todo)] IN
  /\ call[p].pc = "traceRollback"
  /\ trace' = Append(trace, TraceOf("rollback", 0, 0, e.new, e.old))
  /\ call' = [call EXCEPT ![p].todo = Tail(@),
                          ![p].pc = IF Len(call[p].todo) > 1 THEN "point" ELSE "rolled"]
  /\ UNCHANGED <<obj, level, rollbacks, calm>>

RollbackReturns(p) ==
  /\ call[p].pc = "rolled"
  /\ call' = [call EXCEPT ![p] = Quiet]
  /\ calm' = [calm EXCEPT ![p] = FALSE]
  /\ UNCHANGED <<obj, level, trace, rollbacks>>

-----------------------------------------------------------------------------
ObjNext ==
  \/ \E l \in Levels : Share(l)
  \/ \E d \in Data : CreateObject(d)
  \/ \E p \in Caller :
       \/ \E d \in Data : UpdateReads(p, d)
       \/ UpdateWrites(p)
       \/ TombstoneReads(p) \/ TombstoneWrites(p)
       \/ RecordTrace(p)
       \/ CallerDies(p)
       \/ \E i \in 1..MaxTrace : RollbackAction(p, i) \/ RollbackToTrace(p, i)
       \/ RollbackPoints(p) \/ RollbackPrunes(p) \/ RollbackRecords(p) \/ RollbackReturns(p)

ObjSpec == ObjInit /\ [][ObjNext]_objVars

-----------------------------------------------------------------------------
(* Properties. *)

ObjTypeOK ==
  /\ obj.life \in {"none", "active", "archived"}
  /\ Versions \subseteq 1..MaxVersion
  /\ obj.rows \in [Versions -> Data]
  /\ obj.current \in 0..MaxVersion
  /\ level \in Levels
  /\ \A i \in 1..Len(trace) : trace[i].act # "rollback" => i <= MaxTrace
  /\ calm \in [Caller -> BOOLEAN]

\* update() "never modifies existing data": a version keeps its content for
\* as long as it is there, however two updates and a rollback interleave, and
\* only a rollback takes one away.
KeepsVersions ==
  \A v \in Versions :
    \/ v \in DOMAIN obj'.rows /\ obj'.rows[v] = obj.rows[v]
    \/ \E p \in Caller : call[p].pc = "prune"
VersionsKept == [][KeepsVersions]_objVars

\* StateReconstructor.reconstruct(): the last state recorded up to a time.
Reconstructed(T) ==
  LET known == {i \in 1..T : trace[i].new # NoData} IN
  IF known = {} THEN NoData ELSE trace[CHOOSE i \in known : \A j \in known : j <= i].new

\* The first n entries came in the order of the writes they are about: nobody
\* was overtaken, or died, between a write and its entry.
InOrder(n) ==
  /\ trace[1].act = "create"
  /\ \A i \in 2..n :
       /\ trace[i].act \in {"update", "delete"}
       /\ trace[i].before = trace[i - 1].after

\* rollback_to_timestamp() that nobody disturbs brings back the content the
\* reconstruction gives for that time, whoever wrote what in between, as long
\* as it has no earlier rollback to undo.
RestoresContent ==
  \A p \in Caller :
    LET T == call[p].at
        n == Cardinality({i \in 1..Len(trace) : trace[i].act # "rollback"})
    IN  call[p].pc = "rolled" /\ calm[p] /\ T > 0 /\ InOrder(n)
          => DataAt(obj.current) = Reconstructed(T)

\* "Restore a target to its state at timestamp": an object that was active
\* then is active again.
RestoresLife ==
  \A p \in Caller :
    LET T == call[p].at IN
    call[p].pc = "rolled" /\ calm[p] /\ T > 0
      /\ (\A i \in 1..T : trace[i].act \in {"create", "update"})
      => obj.life = "active"

=============================================================================
