-------------------------- MODULE ScopedWrites --------------------------
(***************************************************************************)
(* The supported writes of a registered model: Model.save(), create(),     *)
(* QuerySet.update(), bulk_update(), bulk_create() and delete(), as the     *)
(* wrappers that src/pyscoped/registry.py and query.py put around Django's  *)
(* and the append_event() of audit.py they all end in.                     *)
(*                                                                         *)
(* A worker is a request under one context (its actor and its scope).  An  *)
(* operation is the sequence of SQL statements the code issues, one action *)
(* for each statement whose place among the others matters; statements of  *)
(* different workers interleave.                                           *)
(***************************************************************************)
EXTENDS ScopedDatabase

CONSTANTS
  CtxScope,     \* the scope of each worker's ScopeContext
  Mode,         \* the model's registration: "enforce" or "audit"
  Ops,          \* the operations the application uses
  OwnKeys,      \* TRUE: the application chooses primary keys;
                \* FALSE: they come from a database sequence
  Blocks,       \* the application opens transactions of its own
  Faults,       \* statements may fail
  LegacyKeys,   \* rows that may be there from before registration
  MaxCalls      \* bound on the operations started

ASSUME CtxAssumption == CtxScope \in [Worker -> Scope]
ASSUME ModeAssumption == Mode \in {"enforce", "audit"}
ASSUME BoundAssumption == MaxCalls \in Nat /\ LegacyKeys \subseteq Key

VARIABLES
  pc,           \* where each worker is
  call,         \* the operation it is in, with its arguments
  todo,         \* the keys the current loop of the operation has still to visit
  seen,         \* the operation's "before" snapshots, by key
  block,        \* whether the worker is inside an application's atomic()
  unused,       \* what is left of the key sequence; rollbacks do not return keys
  calls         \* operations started so far

vars == <<row, hist, txn, mark, pc, call, todo, seen, block, unused, calls>>

\* The operations that go through save_base(), and those that lock sets of rows.
SaveOps == {"save", "save_fields", "create", "restore"}
AllOps == SaveOps \union {"update", "bulk_update", "bulk_create", "delete",
                          "backfill", "verify"}

NoCall == [op |-> "none", keys |-> {}, scope |-> CHOOSE s \in Scope : TRUE,
           val |-> CHOOSE v \in Value : TRUE]

-----------------------------------------------------------------------------
(* The checks and the snapshots of audit.py. *)

\* Mutant: nothing is checked.
AnyScope(w, s) == TRUE

\* check_scope(): does it let a row, or an instance, of scope s pass?
CheckScope(w, s) == Mode = "enforce" => s = CtxScope[w]

\* A row the worker's manager selects: in its scope, or any in audit mode.
Selected(w, r) == r # Null /\ CheckScope(w, r.scope)

Snapshot(r) == IF r = Null THEN Null ELSE r.val

\* before.get(pk)
Before(w, k) == IF k \in DOMAIN seen[w] THEN seen[w][k] ELSE Null

\* event_digest(): what the previous digest stands for, and this event.
EventDigest(e) ==
  Append(e.previous, [revision |-> e.revision, scope |-> e.scope, actor |-> e.actor,
                      action |-> e.action, before |-> e.before, after |-> e.after])

\* The event append_event() adds to the head h of a row r.
NewEvent(w, h, r, action, before, after) ==
  LET e == [revision |-> h.revision + 1, scope |-> r.scope, actor |-> w,
            action |-> action, before |-> before, after |-> after,
            previous |-> h.digest, digest |-> <<>>]
  IN  [e EXCEPT !.digest = EventDigest(e)]

\* Resource.objects.get_or_create(): the head of a row never written before.
HeadOf(w, k, r) ==
  IF VisibleHist(w, k) # Null THEN VisibleHist(w, k)
  ELSE [scope |-> r.scope, revision |-> 0, digest |-> <<>>, events |-> <<>>]

\* Mutants: the head's digest is forgotten, or is lost.
AppendedHeadless(h, e) == [h EXCEPT !.revision = e.revision, !.events = Append(@, e)]
AppendedBlank(h, e) ==
  [h EXCEPT !.revision = e.revision, !.digest = Null, !.events = Append(@, e)]

\* The event is inserted, and the head's revision and digest saved.
Appended(h, e) ==
  [h EXCEPT !.revision = e.revision, !.digest = e.digest, !.events = Append(@, e)]

\* Mutant: a history may change scope.
NeverReassigned(h, r) == FALSE

\* The history of a primary key stays in the scope it was opened in.
Reassigned(h, r) == h.scope # r.scope

\* verify_history() finds nothing wrong with the head h and its events.
Verifies(h) ==
  /\ \A i \in 1..Len(h.events) :
       /\ h.events[i].revision = i
       /\ h.events[i].previous = (IF i = 1 THEN <<>> ELSE h.events[i - 1].digest)
       /\ h.events[i].scope = h.scope
       /\ h.events[i].digest = EventDigest(h.events[i])
  /\ h.revision = Len(h.events)
  /\ h.digest = (IF h.events = <<>> THEN <<>> ELSE h.events[Len(h.events)].digest)

-----------------------------------------------------------------------------
(* How operations begin and end. *)

\* The least of a set of keys, if it has any: the loops go in this order.
FirstOf(K) == {k \in K : \A x \in K : k <= x}

\* atomic() opens a transaction, or a savepoint in the application's.
Begin(w, c, next, work) ==
  /\ pc[w] \in {"idle", "open"}
  /\ calls < MaxCalls
  /\ c.op \in Ops
  /\ calls' = calls + 1
  /\ call' = [call EXCEPT ![w] = c]
  /\ pc' = [pc EXCEPT ![w] = next]
  /\ todo' = [todo EXCEPT ![w] = work]
  /\ mark' = [mark EXCEPT ![w] = txn[w]]
  /\ UNCHANGED <<row, hist, txn, seen, block>>

Ends(w) ==
  /\ pc' = [pc EXCEPT ![w] = IF block[w] THEN "open" ELSE "idle"]
  /\ call' = [call EXCEPT ![w] = NoCall]
  /\ todo' = [todo EXCEPT ![w] = {}]
  /\ seen' = [seen EXCEPT ![w] = Empty]
  /\ mark' = [mark EXCEPT ![w] = NoLocks]
  /\ UNCHANGED <<block, unused, calls>>

\* Mutant: no savepoint around the operation.
RaiseKeeping(w) == Ends(w) /\ UNCHANGED <<row, hist, txn>>

\* An exception leaves the operation: its atomic() undoes what it did.
Raise(w) == Rollback(w, mark[w]) /\ Ends(w)

\* The operation goes on.
Goto(w, next, work) ==
  /\ pc' = [pc EXCEPT ![w] = next]
  /\ todo' = [todo EXCEPT ![w] = work]
  /\ UNCHANGED <<row, hist, mark, call, block, unused, calls>>

\* append_event(), from get_or_create() to the update of the head.  It waits
\* for the head, and refuses a row of another scope than the history's.
AppendEvent(w, k, r, action, before, after, next) ==
  LET h == HeadOf(w, k, r) IN
  /\ HistFree(w, k)
  /\ IF Reassigned(h, r)
     THEN Raise(w)
     ELSE /\ txn' = PutHist(w, k, Appended(h, NewEvent(w, h, r, action, before, after)))
          /\ Goto(w, next, todo[w] \ {k})
          /\ UNCHANGED seen

\* The operation returns.  Outside an application block this commits.
Return(w) ==
  /\ pc[w] = "record" /\ todo[w] = {}
  /\ Ends(w)
  /\ IF block[w] THEN UNCHANGED <<row, hist, txn>> ELSE Commit(w)

-----------------------------------------------------------------------------
(* save(), save(update_fields=...) and create(): save_base(). *)

\* A primary key the application can have an instance of, deleted rows too.
KnownKeys(w) ==
  IF OwnKeys THEN Key ELSE {k \in Key : VisibleRow(w, k) # Null \/ VisibleHist(w, k) # Null}

\* A primary key for a new row.
FreshKeys == IF OwnKeys THEN Key ELSE unused

BeginSave(w) ==
  /\ \E op \in {"save", "save_fields"}, k \in KnownKeys(w), s \in Scope, v \in Value :
       Begin(w, [op |-> op, keys |-> {k}, scope |-> s, val |-> v], "lock", {k})
  /\ UNCHANGED unused

BeginCreate(w) ==
  \E k \in FreshKeys, s \in Scope, v \in Value :
    /\ Begin(w, [op |-> "create", keys |-> {k}, scope |-> s, val |-> v], "lock", {k})
    /\ unused' = unused \ {k}

\* Mutant: an instance may carry its row to another scope.
NeverMoves(w, r) == FALSE

\* The instance has another scope than its row.
MovesScope(w, r) == r.scope # call[w].scope

\* load_row(lock=True) and the checks that follow it.
SaveLoads(w) ==
  /\ pc[w] = "lock" /\ call[w].op \in SaveOps
  /\ \E k \in todo[w] :
       LET found == VisibleRow(w, k) IN
       /\ ~SelectWaits(w, k)
       /\ IF /\ CheckScope(w, call[w].scope)
             /\ found # Null => CheckScope(w, found.scope) /\ ~MovesScope(w, found)
          THEN /\ txn' = Locked(w, k)
               /\ seen' = [seen EXCEPT ![w] = [x \in {k} |-> Snapshot(found)]]
               /\ Goto(w, IF call[w].op = "create" THEN "insert" ELSE "write", {k})
          ELSE Raise(w)

\* Django's UPDATE ... WHERE pk: all columns, or those of update_fields.  When
\* it finds no row, save() goes on to INSERT, and update_fields is an error.
SaveUpdates(w) ==
  /\ pc[w] = "write" /\ call[w].op \in SaveOps
  /\ \E k \in todo[w] :
       LET found == VisibleRow(w, k)
           new == [scope |-> IF call[w].op = "save" THEN call[w].scope ELSE found.scope,
                   val |-> call[w].val]
       IN /\ ~SelectWaits(w, k)
          /\ CASE found # Null ->
                    /\ txn' = PutRows(w, [x \in {k} |-> new])
                    /\ Goto(w, "record", {k})
                    /\ UNCHANGED seen
               [] found = Null /\ call[w].op = "save" ->
                    Goto(w, "insert", {k}) /\ UNCHANGED <<txn, seen>>
               [] OTHER -> Raise(w)

-----------------------------------------------------------------------------
(* bulk_create(), and the INSERTs of save() and create(). *)

\* The scope of every object is checked before the first statement.
BeginBulkCreate(w) ==
  \E K \in SUBSET FreshKeys \ {{}}, s \in Scope, v \in Value :
    /\ CheckScope(w, s)
    /\ Begin(w, [op |-> "bulk_create", keys |-> K, scope |-> s, val |-> v], "insert", K)
    /\ unused' = unused \ K

\* INSERT waits for whoever has the key, then needs it to be free.  The rows
\* of bulk_create() go in in the order of the caller's list.
InsertRow(w) ==
  /\ pc[w] = "insert"
  /\ \E k \in todo[w] :
       /\ RowFree(w, k)
       /\ IF VisibleRow(w, k) = Null
          THEN /\ txn' = PutRows(w, [x \in {k} |-> [scope |-> call[w].scope,
                                                    val |-> call[w].val]])
               /\ IF todo[w] = {k} THEN Goto(w, "record", call[w].keys)
                                   ELSE Goto(w, "insert", todo[w] \ {k})
               /\ UNCHANGED seen
          ELSE Raise(w)

-----------------------------------------------------------------------------
(* QuerySet.update() and bulk_update(). *)

BeginUpdate(w) ==
  /\ \E K \in SUBSET Key, v \in Value :
       Begin(w, [op |-> "update", keys |-> K, scope |-> CtxScope[w], val |-> v], "lock",
             {k \in K : Selected(w, VisibleRow(w, k))})
  /\ UNCHANGED unused

BeginBulkUpdate(w) ==
  /\ \E K \in SUBSET KnownKeys(w) \ {{}}, v \in Value :
       Begin(w, [op |-> "bulk_update", keys |-> K, scope |-> CtxScope[w], val |-> v], "lock",
             {k \in K : VisibleRow(w, k) # Null})
  /\ UNCHANGED unused

\* order_by("pk") of the locking queries.
LockOrder(K) == FirstOf(K)

\* SELECT ... ORDER BY pk FOR UPDATE, one row of it.  A row that was deleted
\* while the statement waited drops out.
UpdateLocks(w) ==
  /\ pc[w] = "lock" /\ call[w].op = "update"
  /\ \E k \in LockOrder(todo[w]) :
       LET found == VisibleRow(w, k) IN
       /\ ~SelectWaits(w, k)
       /\ IF Selected(w, found)
          THEN /\ txn' = Locked(w, k)
               /\ seen' = [seen EXCEPT ![w] = Merge([x \in {k} |-> Snapshot(found)], @)]
          ELSE UNCHANGED <<txn, seen>>
       /\ Goto(w, "lock", todo[w] \ {k})

\* The same without the manager's filter: a row of another scope is an error.
BulkUpdateLocks(w) ==
  /\ pc[w] = "lock" /\ call[w].op = "bulk_update"
  /\ \E k \in LockOrder(todo[w]) :
       LET found == VisibleRow(w, k) IN
       /\ ~SelectWaits(w, k)
       /\ IF found # Null /\ ~CheckScope(w, found.scope)
          THEN Raise(w)
          ELSE /\ txn' = Locked(w, k)
               /\ Goto(w, "lock", todo[w] \ {k})
               /\ UNCHANGED seen

\* bulk_update() takes its snapshots with a second, unlocked SELECT.
BulkUpdateReads(w) ==
  /\ pc[w] = "lock" /\ call[w].op = "bulk_update" /\ todo[w] = {}
  /\ seen' = [seen EXCEPT ![w] =
       [k \in {x \in call[w].keys : Selected(w, VisibleRow(w, x))} |->
          Snapshot(VisibleRow(w, k))]]
  /\ Goto(w, "write", {})
  /\ UNCHANGED txn

\* UPDATE ... WHERE pk IN (the rows snapshots were taken of).
UpdateRows(w) ==
  /\ \/ pc[w] = "lock" /\ call[w].op = "update" /\ todo[w] = {}
     \/ pc[w] = "write" /\ call[w].op = "bulk_update"
  /\ LET hit == {k \in DOMAIN seen[w] : VisibleRow(w, k) # Null} IN
     /\ \A k \in hit : RowFree(w, k)
     /\ txn' = PutRows(w, [k \in hit |-> [VisibleRow(w, k) EXCEPT !.val = call[w].val]])
  /\ Goto(w, "record", DOMAIN seen[w])
  /\ UNCHANGED seen

\* The events of bulk_create() come in the order of the caller's list, those of
\* the other operations in the order of the primary keys.
RecordOrder(w) == IF call[w].op = "bulk_create" THEN todo[w] ELSE FirstOf(todo[w])

\* The end of save_base() and each turn of _record_bulk(): the row is read
\* back and checked, and its event appended.
Record(w) ==
  /\ pc[w] = "record"
  /\ \E k \in RecordOrder(w) :
       LET r == VisibleRow(w, k)
           action == CASE call[w].op = "restore" -> "restore"
                       [] call[w].op # "restore" /\ Before(w, k) = Null -> "create"
                       [] OTHER -> "update"
       IN IF Selected(w, r)
          THEN AppendEvent(w, k, r, action, Before(w, k), Snapshot(r), "record")
          ELSE Raise(w)

-----------------------------------------------------------------------------
(* Model.delete() and QuerySet.delete(). *)

\* Django's collector: the instance, or the rows the queryset selects; it
\* locks nothing, and sorts them by primary key.
BeginDelete(w) ==
  /\ \E K \in {{k} : k \in KnownKeys(w)}
              \union {{k \in K : Selected(w, VisibleRow(w, k))} : K \in SUBSET Key} :
       Begin(w, [op |-> "delete", keys |-> K, scope |-> CtxScope[w],
                 val |-> NoCall.val], "lock", K)
  /\ UNCHANGED unused

\* before_delete(), the pre_delete receiver: a row already gone is passed over.
DeleteLoads(w) ==
  /\ pc[w] = "lock" /\ call[w].op = "delete"
  /\ \E k \in FirstOf(todo[w]) :
       LET found == VisibleRow(w, k) IN
       /\ ~SelectWaits(w, k)
       /\ IF found # Null /\ ~CheckScope(w, found.scope)
          THEN Raise(w)
          ELSE /\ txn' = Locked(w, k)
               /\ IF found = Null THEN Goto(w, "lock", todo[w] \ {k})
                                  ELSE Goto(w, "delete", todo[w])
               /\ UNCHANGED seen

DeleteRecords(w) ==
  /\ pc[w] = "delete"
  /\ \E k \in FirstOf(todo[w]) :
       LET r == VisibleRow(w, k) IN
       AppendEvent(w, k, r, "delete", Snapshot(r), Null, "lock")

\* DELETE ... WHERE pk IN (all that was collected), after the last receiver.
DeleteRows(w) ==
  /\ pc[w] = "lock" /\ call[w].op = "delete" /\ todo[w] = {}
  /\ LET hit == {k \in call[w].keys : VisibleRow(w, k) # Null} IN
     /\ \A k \in hit : RowFree(w, k)
     /\ txn' = PutRows(w, [k \in hit |-> Null])
  /\ Goto(w, "record", {})
  /\ UNCHANGED seen

-----------------------------------------------------------------------------
(* The application's own transactions, and failures. *)

OpenBlock(w) ==
  /\ Blocks /\ pc[w] = "idle" /\ calls < MaxCalls
  /\ pc' = [pc EXCEPT ![w] = "open"]
  /\ block' = [block EXCEPT ![w] = TRUE]
  /\ UNCHANGED <<row, hist, txn, mark, call, todo, seen, unused, calls>>

CloseBlock(w) ==
  /\ pc[w] = "open"
  /\ pc' = [pc EXCEPT ![w] = "idle"]
  /\ block' = [block EXCEPT ![w] = FALSE]
  /\ Commit(w) \/ (Faults /\ Rollback(w, NoLocks))
  /\ UNCHANGED <<mark, call, todo, seen, unused, calls>>

\* A statement fails: a constraint, a timeout, a deadlock PostgreSQL breaks.
Fail(w) == Faults /\ pc[w] \notin {"idle", "open"} /\ Raise(w)

-----------------------------------------------------------------------------

Init ==
  /\ row \in {f \in [Key -> MaybeRow] : \A k \in Key \ LegacyKeys : f[k] = Null}
  /\ hist = [k \in Key |-> Null]
  /\ txn = [w \in Worker |-> NoLocks]
  /\ mark = [w \in Worker |-> NoLocks]
  /\ pc = [w \in Worker |-> "idle"]
  /\ call = [w \in Worker |-> NoCall]
  /\ todo = [w \in Worker |-> {}]
  /\ seen = [w \in Worker |-> Empty]
  /\ block = [w \in Worker |-> FALSE]
  /\ unused = Key \ LegacyKeys
  /\ calls = 0

Start(w) ==
  \/ BeginSave(w) \/ BeginCreate(w) \/ BeginBulkCreate(w)
  \/ BeginUpdate(w) \/ BeginBulkUpdate(w) \/ BeginDelete(w)
  \/ OpenBlock(w)

\* A step of an operation under way.
Step(w) ==
  \/ SaveLoads(w) \/ SaveUpdates(w) \/ InsertRow(w)
  \/ UpdateLocks(w) \/ BulkUpdateLocks(w) \/ BulkUpdateReads(w) \/ UpdateRows(w)
  \/ DeleteLoads(w) \/ DeleteRecords(w) \/ DeleteRows(w)
  \/ Record(w) \/ Return(w) \/ CloseBlock(w)

\* All is done that MaxCalls allows.
Done == calls = MaxCalls /\ (\A w \in Worker : pc[w] = "idle") /\ UNCHANGED vars

Next == (\E w \in Worker : Start(w) \/ Step(w) \/ Fail(w)) \/ Done

Spec == Init /\ [][Next]_vars

\* PostgreSQL queues the waiters of a lock and the application does not stop
\* in the middle of an operation; nothing obliges it to start another.
FairSpec == Spec /\ \A w \in Worker : WF_vars(Step(w))

-----------------------------------------------------------------------------
(* Properties. *)

CallType == [op : AllOps \union {"none"}, keys : SUBSET Key, scope : Scope, val : Value]

WritePoints == {"idle", "open", "lock", "write", "insert", "record", "delete"}

TypeOKWith(points) ==
  /\ DatabaseTypeOK
  /\ pc \in [Worker -> points]
  /\ call \in [Worker -> CallType]
  /\ todo \in [Worker -> SUBSET Key]
  /\ DOMAIN seen = Worker
  /\ \A w \in Worker : Partial(seen[w], Image)
  /\ block \in [Worker -> BOOLEAN]
  /\ unused \in SUBSET Key
  /\ calls \in 0..MaxCalls

TypeOK == TypeOKWith(WritePoints)

\* Whatever the writers do at the same time, verify_history() accepts every
\* committed history: no fork, no gap, no repeated revision, no event of
\* another scope, and a head that is the last event.
HistoryVerifies == \A k \in Key : hist[k] # Null => Verifies(hist[k])

\* A row is in the scope its history was opened in, through deletion and
\* re-creation of the key and concurrent saves with other scopes.
HistoryInScope ==
  \A k \in Key : row[k] # Null /\ hist[k] # Null => row[k].scope = hist[k].scope

\* In enforce mode the actor an event names was acting in the event's scope.
ActorsInScope ==
  Mode = "enforce" =>
    \A k \in Key : \A i \in DOMAIN Events(hist[k]) :
      CtxScope[Events(hist[k])[i].actor] = Events(hist[k])[i].scope

\* The newest event of a row says what the row is, deletion included.
HeadMatchesRow ==
  \A k \in Key : hist[k] # Null =>
    hist[k].events[Len(hist[k].events)].after = Snapshot(row[k])

\* Each event starts from the state the one before it ended in.
ContinuousHistory ==
  \A k \in Key : \A i \in 2..Len(Events(hist[k])) :
    Events(hist[k])[i].before = Events(hist[k])[i - 1].after

Promise ==
  INSTANCE AuditedStore WITH row <- row, log <- [k \in Key |-> Events(hist[k])]

\* The committed rows and events are those of the store PyScoped promises:
\* save(), update(), bulk operations and delete() change rows only together
\* with events that lead from the old row to the new one, in one scope.
KeepsPromise == Promise!Spec

\* The same of a model registered in audit mode: every change of a row is
\* accounted for in the row's own scope, whoever makes it.
KeepsAuditPromise == Promise!AuditSpec

\* Every operation ends: nobody waits for ever for a lock.
OperationsEnd == \A w \in Worker : pc[w] \notin {"idle", "open"} ~> pc[w] \in {"idle", "open"}

=============================================================================
