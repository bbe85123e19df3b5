-------------------------- MODULE ScopedHistory --------------------------
(***************************************************************************)
(* src/pyscoped/history.py beside the writes of ScopedWrites: backfill(),   *)
(* verify_history() and restore(), and the writes that go round PyScoped    *)
(* (raw SQL, an administrator) which restore() has to notice.              *)
(***************************************************************************)
EXTENDS ScopedWrites

CONSTANT Drift        \* rows may be changed behind PyScoped's back

VARIABLES
  goal,       \* the revisions a restore() was asked for and told to expect
  peek,       \* the head verify_history() read when it locked it
  verdict     \* what the worker's last verify_history() answered

historyVars == <<vars, goal, peek, verdict>>

NoGoal == [target |-> 0, expected |-> 0]

-----------------------------------------------------------------------------
(* verify_history() *)

\* _resource() raises for a history of another scope, in audit mode too.
ForeignHistory(w, k) ==
  VisibleHist(w, k) # Null /\ VisibleHist(w, k).scope # CtxScope[w]

BeginVerify(w) ==
  /\ \E k \in KnownKeys(w) :
       Begin(w, [op |-> "verify", keys |-> {k}, scope |-> CtxScope[w], val |-> NoCall.val],
             "v_find", {k})
  /\ verdict' = [verdict EXCEPT ![w] = "none"]
  /\ UNCHANGED <<unused, goal, peek>>

VerifyFinds(w) ==
  /\ pc[w] = "v_find"
  /\ \E k \in todo[w] :
       CASE ForeignHistory(w, k) -> Raise(w) /\ UNCHANGED verdict
         [] VisibleHist(w, k) = Null ->
              /\ verdict' = [verdict EXCEPT ![w] = "missing"]
              /\ Goto(w, "record", {})
              /\ UNCHANGED <<txn, seen>>
         [] OTHER -> Goto(w, "v_lock", {k}) /\ UNCHANGED <<txn, seen, verdict>>
  /\ UNCHANGED <<goal, peek>>

\* Mutant: the head is read and not locked.
VerifyPeeks(w) ==
  /\ pc[w] = "v_lock"
  /\ \E k \in todo[w] :
       peek' = [peek EXCEPT ![w] = VisibleHist(w, k)] /\ Goto(w, "v_read", {k})
  /\ UNCHANGED <<txn, seen, goal, verdict>>

\* SELECT ... FOR UPDATE of the head.
VerifyLocks(w) ==
  /\ pc[w] = "v_lock"
  /\ \E k \in todo[w] :
       /\ HistFree(w, k)
       /\ txn' = PutHist(w, k, VisibleHist(w, k))
       /\ peek' = [peek EXCEPT ![w] = VisibleHist(w, k)]
       /\ Goto(w, "v_read", {k})
  /\ UNCHANGED <<seen, goal, verdict>>

\* SELECT of the events, a statement of its own, and the walk through them.
VerifyReads(w) ==
  /\ pc[w] = "v_read"
  /\ \E k \in todo[w] :
       LET h == [peek[w] EXCEPT !.events = VisibleHist(w, k).events] IN
       verdict' = [verdict EXCEPT ![w] = IF Verifies(h) THEN "valid" ELSE "invalid"]
  /\ peek' = [peek EXCEPT ![w] = Null]
  /\ Goto(w, "record", {})
  /\ UNCHANGED <<txn, seen, goal>>

-----------------------------------------------------------------------------
(* backfill(dry_run=False), as the management command runs it: outside any  *)
(* transaction of the application, each row in one of its own.             *)

BeginBackfill(w) ==
  /\ pc[w] = "idle"
  /\ LET pks == {k \in Key : row[k] # Null /\ row[k].scope = CtxScope[w]} IN
     Begin(w, [op |-> "backfill", keys |-> pks, scope |-> CtxScope[w], val |-> NoCall.val],
           "b_load", pks)
  /\ UNCHANGED <<unused, goal, peek, verdict>>

\* Mutant: select_for_update(skip_locked=True).
BackfillSkipsLocked(w) ==
  /\ pc[w] = "b_load"
  /\ \E k \in FirstOf(todo[w]) :
       IF Selected(w, VisibleRow(w, k)) /\ RowFree(w, k)
       THEN txn' = Locked(w, k) /\ Goto(w, "b_check", todo[w]) /\ UNCHANGED seen
       ELSE Goto(w, "b_load", todo[w] \ {k}) /\ UNCHANGED <<txn, seen>>
  /\ UNCHANGED <<goal, peek, verdict>>

BackfillLoads(w) ==
  /\ pc[w] = "b_load"
  /\ \E k \in FirstOf(todo[w]) :
       LET found == VisibleRow(w, k) IN
       /\ ~SelectWaits(w, k)
       /\ CASE found = Null -> Goto(w, "b_load", todo[w] \ {k}) /\ UNCHANGED <<txn, seen>>
            [] found # Null /\ CheckScope(w, found.scope) ->
                 /\ txn' = Locked(w, k)
                 /\ Goto(w, "b_check", todo[w])
                 /\ UNCHANGED seen
            [] OTHER -> Raise(w)
  /\ UNCHANGED <<goal, peek, verdict>>

\* Mutant: every row gets a baseline.
NeverRecorded(h) == FALSE

HasHistory(h) == h # Null /\ h.revision > 0

\* A row with history is skipped; any other gets the baseline of what it is now.
BackfillChecks(w) ==
  /\ pc[w] = "b_check"
  /\ \E k \in FirstOf(todo[w]) :
       LET r == VisibleRow(w, k) IN
       IF HasHistory(VisibleHist(w, k))
       THEN Goto(w, "b_commit", todo[w] \ {k}) /\ UNCHANGED <<txn, seen>>
       ELSE AppendEvent(w, k, r, "baseline", Null, Snapshot(r), "b_commit")
  /\ UNCHANGED <<goal, peek, verdict>>

BackfillCommits(w) ==
  /\ pc[w] = "b_commit"
  /\ Commit(w)
  /\ pc' = [pc EXCEPT ![w] = "b_load"]
  /\ UNCHANGED <<mark, call, todo, seen, block, unused, calls, goal, peek, verdict>>

BackfillReturns(w) ==
  /\ pc[w] = "b_load" /\ todo[w] = {}
  /\ Ends(w)
  /\ UNCHANGED <<row, hist, txn, goal, peek, verdict>>

-----------------------------------------------------------------------------
(* restore() *)

BeginRestore(w) ==
  /\ \E k \in KnownKeys(w), target, expected \in 1..MaxCalls :
       /\ target <= expected
       /\ Begin(w, [op |-> "restore", keys |-> {k}, scope |-> CtxScope[w],
                    val |-> NoCall.val], "r_load", {k})
       /\ goal' = [goal EXCEPT ![w] = [target |-> target, expected |-> expected]]
  /\ UNCHANGED <<unused, peek, verdict>>

\* Mutant: restore() locks the head first, the row later.
RestoreLocksHead(w) ==
  /\ pc[w] = "r_load"
  /\ \E k \in todo[w] :
       /\ HistFree(w, k)
       /\ IF Selected(w, VisibleRow(w, k))
          THEN /\ txn' = PutHist(w, k, VisibleHist(w, k))
               /\ Goto(w, "r_head", {k})
               /\ UNCHANGED seen
          ELSE Raise(w)
  /\ UNCHANGED <<goal, peek, verdict>>

\* load_row(lock=True); a deleted row is not restored.
RestoreLoads(w) ==
  /\ pc[w] = "r_load"
  /\ \E k \in todo[w] :
       /\ ~SelectWaits(w, k)
       /\ IF Selected(w, VisibleRow(w, k))
          THEN txn' = Locked(w, k) /\ Goto(w, "r_head", {k}) /\ UNCHANGED seen
          ELSE Raise(w)
  /\ UNCHANGED <<goal, peek, verdict>>

\* Mutant: a caller that is behind is let through.
AtLeastExpected(w, h) == h.revision >= goal[w].expected

AsExpected(w, h) == h.revision = goal[w].expected

\* The revision the caller expects, against a head that is read unlocked.
RestoreReads(w) ==
  /\ pc[w] = "r_head"
  /\ \E k \in todo[w] :
       LET h == VisibleHist(w, k) IN
       IF h # Null /\ ~ForeignHistory(w, k) /\ AsExpected(w, h)
       THEN Goto(w, "r_verify", {k}) /\ UNCHANGED <<txn, seen>>
       ELSE Raise(w)
  /\ UNCHANGED <<goal, peek, verdict>>

\* Mutant: the row is not compared with the history.
NeverDrifted(r, h) == FALSE

\* Current data differs from the history head.
Drifted(r, h) == Snapshot(r) # h.events[Len(h.events)].after

\* verify_history(), which locks the head; the row must be what the last event
\* left; then save(update_fields=...) of the target's fields takes over.
RestoreVerifies(w) ==
  /\ pc[w] = "r_verify"
  /\ \E k \in todo[w] :
       LET h == VisibleHist(w, k)
           t == goal[w].target
       IN /\ HistFree(w, k)
          /\ IF /\ Verifies(h)
                /\ h.events # <<>>
                /\ ~Drifted(VisibleRow(w, k), h)
                /\ t \in DOMAIN h.events
                /\ h.events[t].after # Null
             THEN /\ txn' = PutHist(w, k, h)
                  /\ call' = [call EXCEPT ![w].scope = VisibleRow(w, k).scope,
                                          ![w].val = h.events[t].after]
                  /\ pc' = [pc EXCEPT ![w] = "lock"]
                  /\ UNCHANGED <<row, hist, mark, todo, seen, block, unused, calls>>
             ELSE Raise(w)
  /\ UNCHANGED <<goal, peek, verdict>>

-----------------------------------------------------------------------------
(* A write PyScoped does not see, in a transaction of its own. *)

DriftWrite ==
  /\ Drift /\ calls < MaxCalls
  /\ \E k \in Key, v \in Value :
       /\ row[k] # Null
       /\ \A w \in Worker : k \notin DOMAIN txn[w].row
       /\ row' = [row EXCEPT ![k].val = v]
  /\ calls' = calls + 1
  /\ UNCHANGED <<hist, txn, mark, pc, call, todo, seen, block, unused, goal, peek, verdict>>

-----------------------------------------------------------------------------

HistoryInit ==
  /\ Init
  /\ goal = [w \in Worker |-> NoGoal]
  /\ peek = [w \in Worker |-> Null]
  /\ verdict = [w \in Worker |-> "none"]

HistoryStart(w) == BeginVerify(w) \/ BeginBackfill(w) \/ BeginRestore(w)

HistoryStep(w) ==
  \/ VerifyFinds(w) \/ VerifyLocks(w) \/ VerifyReads(w)
  \/ BackfillLoads(w) \/ BackfillChecks(w) \/ BackfillCommits(w) \/ BackfillReturns(w)
  \/ RestoreLoads(w) \/ RestoreReads(w) \/ RestoreVerifies(w)

HistoryNext ==
  \/ Next /\ UNCHANGED <<goal, peek, verdict>>
  \/ \E w \in Worker : HistoryStart(w) \/ HistoryStep(w)
  \/ DriftWrite

HistorySpec == HistoryInit /\ [][HistoryNext]_historyVars

HistoryFairSpec ==
  /\ HistorySpec
  /\ \A w \in Worker :
       WF_historyVars((Step(w) /\ UNCHANGED <<goal, peek, verdict>>) \/ HistoryStep(w))

-----------------------------------------------------------------------------
(* Properties. *)

HistoryPoints ==
  WritePoints \union {"v_find", "v_lock", "v_read", "b_load", "b_check", "b_commit",
                      "r_load", "r_head", "r_verify"}

HistoryTypeOK ==
  /\ TypeOKWith(HistoryPoints)
  /\ goal \in [Worker -> [target : 0..MaxCalls, expected : 0..MaxCalls]]
  /\ peek \in [Worker -> MaybeHist]
  /\ verdict \in [Worker -> {"none", "missing", "valid", "invalid"}]

\* verify_history() never answers "invalid" about a history only PyScoped
\* wrote, whatever appends happen between its statements.
VerdictSound == \A w \in Worker : verdict[w] # "invalid"

\* A restore() that succeeds is the event right after the revision its caller
\* expected, and leaves the values of the revision it named.
RestoresAsAsked ==
  \A w \in Worker : \A k \in call[w].keys :
    call[w].op = "restore" /\ pc[w] = "record" /\ todo[w] = {} =>
      LET h == VisibleHist(w, k) IN
      /\ h.revision = goal[w].expected + 1
      /\ h.events[h.revision].action = "restore"
      /\ h.events[h.revision].after = h.events[goal[w].target].after

\* restore() is never recorded over data that had drifted from the history:
\* its event starts where the event before it ended.
RestoresReconciled ==
  \A k \in Key : \A i \in DOMAIN Events(hist[k]) :
    LET e == Events(hist[k])[i] IN
    e.action = "restore" => i > 1 /\ e.before = Events(hist[k])[i - 1].after

\* Backfills that run at once, are interrupted or are run again never give a
\* row a second baseline, nor one after another event.
BaselineFirst ==
  \A k \in Key : \A i \in DOMAIN Events(hist[k]) :
    Events(hist[k])[i].action = "baseline" => i = 1

\* What backfill() has passed has history, or is no longer there.
BackfillCovers ==
  \A w \in Worker : pc[w] = "b_load" =>
    \A k \in call[w].keys \ todo[w] : row[k] # Null => hist[k] # Null

=============================================================================
