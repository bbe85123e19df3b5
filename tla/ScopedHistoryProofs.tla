------------------------ MODULE ScopedHistoryProofs -------------------------
(***************************************************************************)
(* Proofs about ScopedHistory: what backfill(), verify_history() and       *)
(* restore() promise while the writes of ScopedWrites, and writes that go  *)
(* round PyScoped, run beside them, for every value of the constants.  Then*)
(* the proof that ScopedWrites and ScopedHistory implement AuditedStore:   *)
(* every commit changes rows only together with the events that account    *)
(* for the change.  It rests on the locks, on the order in which operations*)
(* read, write and record, and on no primary key being used again.         *)
(***************************************************************************)
EXTENDS ScopedHistory, ScopedWritesProofs

-----------------------------------------------------------------------------
(* The inductive invariant. *)

Answers == {"none", "missing", "valid"}

\* Between its statements a verify_history() or a restore() knows that the head
\* is there; once it has locked the head, the one it read is the one there is.
HistoryAt(w) ==
  /\ pc[w] \in {"v_lock", "r_verify"} => \A k \in todo[w] : VisibleHist(w, k) # Null
  /\ pc[w] = "v_read" =>
       \A k \in todo[w] : k \in DOMAIN txn[w].hist /\ peek[w] = txn[w].hist[k]
  /\ pc[w] = "r_verify" => \E k \in Key : todo[w] = {k}

HistoryInv ==
  /\ IInv(HistoryPoints)
  /\ \A w \in Worker : HistoryAt(w)
  /\ goal \in [Worker -> [target : 0..MaxCalls, expected : 0..MaxCalls]]
  /\ peek \in [Worker -> MaybeHist]
  /\ verdict \in [Worker -> Answers]

-----------------------------------------------------------------------------
(* What a step of one worker leaves to the others. *)

\* A committed history never goes away.
LEMMA HistoriesStay ==
  ASSUME NEW P, IInv(P), NEW w \in Worker, Local(w), NEW k \in Key, hist[k] # Null
  PROVE  hist'[k] # Null
<1>1. CASE hist' = hist
  BY <1>1
<1>2. CASE Commit(w)
  <2>1. hist'[k] = IF k \in DOMAIN txn[w].hist THEN txn[w].hist[k] ELSE hist[k]
    BY <1>2, MergeTable DEF Commit, IInv, GoodTables, GoodTxns, GoodTxn, TxnTypeOK
  <2>2. QED
    BY <2>1 DEF IInv, GoodTxns, GoodTxn
<1>3. QED
  BY <1>1, <1>2 DEF Local

\* What the others know stays true.
LEMMA OthersKnow ==
  ASSUME NEW P, IInv(P), NEW w \in Worker, Local(w),
         \A v \in Worker \ {w} : peek'[v] = peek[v],
         NEW v \in Worker \ {w}, HistoryAt(v)
  PROVE  HistoryAt(v)'
<1>1. /\ txn'[v] = txn[v] /\ pc'[v] = pc[v] /\ todo'[v] = todo[v] /\ peek'[v] = peek[v]
      /\ todo[v] \subseteq Key
  BY DEF Local, IInv, GoodControl
<1>2. pc[v] \in {"v_lock", "r_verify"} => \A k \in todo[v] : VisibleHist(v, k)' # Null
  <2> SUFFICES ASSUME pc[v] \in {"v_lock", "r_verify"}, NEW k \in todo[v]
               PROVE  VisibleHist(v, k)' # Null
    OBVIOUS
  <2>1. VisibleHist(v, k) # Null
    BY DEF HistoryAt
  <2>2. CASE k \in DOMAIN txn[v].hist
    BY <1>1, <2>1, <2>2 DEF VisibleHist
  <2>3. CASE k \notin DOMAIN txn[v].hist
    <3>1. hist[k] # Null
      BY <2>1, <2>3 DEF VisibleHist
    <3>2. hist'[k] # Null
      BY <1>1, <3>1, HistoriesStay
    <3>3. QED
      BY <1>1, <2>3, <3>2 DEF VisibleHist
  <2>4. QED
    BY <2>2, <2>3
<1>3. QED
  BY <1>1, <1>2 DEF HistoryAt

\* The invariant after a step of w, from what the step did for w itself.
LEMMA HistoryKeeps ==
  ASSUME HistoryInv, NEW w \in Worker, IInv(HistoryPoints)', Local(w), HistoryAt(w)',
         goal' \in [Worker -> [target : 0..MaxCalls, expected : 0..MaxCalls]],
         peek' \in [Worker -> MaybeHist], \A v \in Worker \ {w} : peek'[v] = peek[v],
         verdict' \in [Worker -> Answers]
  PROVE  HistoryInv'
<1>1. \A v \in Worker \ {w} : HistoryAt(v)'
  BY OthersKnow DEF HistoryInv
<1>2. \A v \in Worker : HistoryAt(v)'
  BY <1>1
<1>3. QED
  BY <1>2 DEF HistoryInv

\* The same where nothing need be known of the histories.
LEMMA PlainKeeps ==
  ASSUME HistoryInv, NEW w \in Worker, IInv(HistoryPoints)', Local(w),
         pc'[w] \notin {"v_lock", "v_read", "r_verify"},
         goal' \in [Worker -> [target : 0..MaxCalls, expected : 0..MaxCalls]],
         peek' \in [Worker -> MaybeHist], \A v \in Worker \ {w} : peek'[v] = peek[v],
         verdict' \in [Worker -> Answers]
  PROVE  HistoryInv'
<1>1. HistoryAt(w)'
  BY DEF HistoryAt
<1>2. QED
  BY <1>1, HistoryKeeps

\* An exception, anywhere.
LEMMA RaiseHistory ==
  ASSUME HistoryInv, NEW w \in Worker, Raise(w), goal' = goal, peek' = peek, verdict' = verdict
  PROVE  HistoryInv'
<1>1. {"idle", "open"} \subseteq HistoryPoints
  BY DEF HistoryPoints, WritePoints
<1>2. IInv(HistoryPoints)'
  BY <1>1, RaiseKeeps DEF HistoryInv
<1>3. Local(w) /\ pc'[w] \in {"idle", "open"}
  BY RaiseLocal DEF HistoryInv
<1>4. QED
  BY <1>2, <1>3, PlainKeeps DEF HistoryInv

-----------------------------------------------------------------------------
(* One lemma for each group of actions. *)

\* The operations of history.py start in a state of the right types.
LEMMA HistoryStartKeeps ==
  ASSUME HistoryInv, NEW w \in Worker, HistoryStart(w)
  PROVE  HistoryInv'
<1>1. KnownKeys(w) \subseteq Key /\ unused \subseteq Key
  BY DEF HistoryInv, IInv, GoodControl, KnownKeys
<1>2. CtxScope[w] \in Scope /\ NoCall.val \in Value
  BY CtxAssumption, SomeAssumption DEF NoCall
<1>3. {"v_find", "b_load", "r_load"} \subseteq HistoryPoints \ HoldPoints
  BY DEF HistoryPoints, HoldPoints
<1>4. {"verify", "backfill", "restore"} \subseteq AllOps
  BY DEF AllOps, SaveOps
<1>5. \E op \in {"verify", "backfill", "restore"}, next \in {"v_find", "b_load", "r_load"},
          K \in SUBSET Key :
        Begin(w, [op |-> op, keys |-> K, scope |-> CtxScope[w], val |-> NoCall.val], next, K)
  <2>1. CASE BeginVerify(w)
    BY <1>1, <2>1 DEF BeginVerify
  <2>2. CASE BeginBackfill(w)
    BY <2>2 DEF BeginBackfill
  <2>3. CASE BeginRestore(w)
    BY <1>1, <2>3 DEF BeginRestore
  <2>4. QED
    BY <2>1, <2>2, <2>3 DEF HistoryStart
<1>6. PICK op \in {"verify", "backfill", "restore"}, next \in {"v_find", "b_load", "r_load"},
           K \in SUBSET Key :
        Begin(w, [op |-> op, keys |-> K, scope |-> CtxScope[w], val |-> NoCall.val], next, K)
  BY <1>5
<1>7. [op |-> op, keys |-> K, scope |-> CtxScope[w], val |-> NoCall.val] \in CallType
  BY <1>2, <1>4 DEF CallType
<1>8. unused' = unused /\ peek' = peek
  BY DEF HistoryStart, BeginVerify, BeginBackfill, BeginRestore
<1>9. IInv(HistoryPoints)'
  BY <1>1, <1>3, <1>6, <1>7, <1>8, BeginKeeps DEF HistoryInv
<1>10. Local(w) /\ pc'[w] = next
  BY <1>6, BeginLocal DEF HistoryInv
<1>11. goal' \in [Worker -> [target : 0..MaxCalls, expected : 0..MaxCalls]]
  <2>1. CASE goal' = goal
    BY <2>1 DEF HistoryInv
  <2>2. CASE BeginRestore(w)
    BY <2>2, BoundAssumption DEF BeginRestore, HistoryInv
  <2>3. QED
    BY <2>1, <2>2 DEF HistoryStart, BeginVerify, BeginBackfill
<1>12. verdict' \in [Worker -> Answers]
  BY DEF HistoryStart, BeginVerify, BeginBackfill, BeginRestore, HistoryInv, Answers
<1>13. QED
  BY <1>8, <1>9, <1>10, <1>11, <1>12, PlainKeeps DEF HistoryInv

\* verify_history() locks a head that is there and that no writer changes after.
LEMMA VerifyKeeps ==
  ASSUME HistoryInv, NEW w \in Worker, VerifyFinds(w) \/ VerifyLocks(w) \/ VerifyReads(w)
  PROVE  HistoryInv'
<1>1. /\ todo[w] \subseteq Key /\ DOMAIN seen = Worker /\ DOMAIN txn = Worker
      /\ Partial(seen[w], Image) /\ GoodTxn(txn[w]) /\ IInv(HistoryPoints)
  BY DEF HistoryInv, IInv, GoodControl, GoodTxns
<1>2. {"record", "v_lock", "v_read"} \subseteq HistoryPoints \ HoldPoints
  BY DEF HistoryPoints, WritePoints, HoldPoints
<1>3. \A p, K : p \in {"v_lock", "v_read"} => RestoreAt(p, K, txn'[w], seen'[w])
  BY DEF RestoreAt
<1>4. RestoreAt("record", {}, txn[w], seen[w])
  BY DEF RestoreAt
<1>5. CASE VerifyFinds(w)
  <2>1. PICK k \in todo[w] :
          \/ Raise(w) /\ verdict' = verdict
          \/ /\ verdict' = [verdict EXCEPT ![w] = "missing"]
             /\ Goto(w, "record", {}) /\ txn' = txn /\ seen' = seen
          \/ /\ VisibleHist(w, k) # Null
             /\ Goto(w, "v_lock", {k}) /\ txn' = txn /\ seen' = seen /\ verdict' = verdict
    BY <1>5 DEF VerifyFinds
  <2>2. goal' = goal /\ peek' = peek
    BY <1>5 DEF VerifyFinds
  <2>3. CASE Raise(w) /\ verdict' = verdict
    BY <2>2, <2>3, RaiseHistory
  <2>4. CASE /\ verdict' = [verdict EXCEPT ![w] = "missing"]
             /\ Goto(w, "record", {}) /\ txn' = txn /\ seen' = seen
    <3>1. IInv(HistoryPoints)'
      BY <1>1, <1>2, <1>4, <2>4, PlainGotoKeeps
    <3>2. Local(w) /\ pc'[w] = "record"
      BY <1>1, <2>4, GotoLocal
    <3>3. verdict' \in [Worker -> Answers]
      BY <2>4 DEF HistoryInv, Answers
    <3>4. QED
      BY <2>2, <3>1, <3>2, <3>3, PlainKeeps DEF HistoryInv
  <2>5. CASE /\ VisibleHist(w, k) # Null
             /\ Goto(w, "v_lock", {k}) /\ txn' = txn /\ seen' = seen /\ verdict' = verdict
    <3>1. IInv(HistoryPoints)'
      BY <1>1, <1>2, <1>3, <2>5, PlainGotoKeeps
    <3>2. Local(w) /\ pc'[w] = "v_lock"
      BY <1>1, <2>5, GotoLocal
    <3>3. HistoryAt(w)'
      <4>1. todo'[w] = {k} /\ hist' = hist
        BY <1>1, <2>5 DEF Goto, IInv, GoodControl
      <4>2. VisibleHist(w, k)' # Null
        BY <2>5, <4>1 DEF VisibleHist
      <4>3. QED
        BY <3>2, <4>1, <4>2 DEF HistoryAt
    <3>4. QED
      BY <2>2, <2>5, <3>1, <3>2, <3>3, HistoryKeeps DEF HistoryInv
  <2>6. QED
    BY <2>1, <2>3, <2>4, <2>5
<1>6. CASE VerifyLocks(w)
  <2>1. PICK k \in todo[w] :
          /\ txn' = PutHist(w, k, VisibleHist(w, k))
          /\ peek' = [peek EXCEPT ![w] = VisibleHist(w, k)]
          /\ Goto(w, "v_read", {k})
    BY <1>6 DEF VerifyLocks
  <2>2. pc[w] = "v_lock" /\ seen' = seen /\ goal' = goal /\ verdict' = verdict
    BY <1>6 DEF VerifyLocks
  <2>3. k \in Key /\ VisibleHist(w, k) # Null
    BY <1>1, <2>2 DEF HistoryInv, HistoryAt
  <2>4. /\ VisibleHist(w, k) \in Resource /\ Verifies(VisibleHist(w, k))
        /\ Signed(VisibleHist(w, k))
    BY <1>1, <2>3, VisibleTyped DEF IInv, MaybeHist, Sound
  <2>5. /\ DOMAIN txn' = Worker /\ GoodTxn(txn'[w])
        /\ \A v \in Worker \ {w} : txn'[v] = txn[v]
        /\ k \in DOMAIN txn'[w].hist /\ txn'[w].hist[k] = VisibleHist(w, k)
    BY <1>1, <2>1, <2>3, <2>4, PutHistGood DEF IInv
  <2>6. Held("v_read", {k}) = {}
    BY HeldNowhere DEF HoldPoints
  <2>7. IInv(HistoryPoints)'
    <3>1. "v_read" \in HistoryPoints /\ {k} \in SUBSET Key
      BY <1>2, <2>3
    <3>2. /\ DOMAIN seen' = Worker /\ Partial(seen'[w], Image)
          /\ \A v \in Worker \ {w} : seen'[v] = seen[v]
      BY <1>1, <2>2
    <3>3. RestoreAt("v_read", {k}, txn'[w], seen'[w])
      BY <1>3
    <3>4. QED
      BY <1>1, <2>1, <2>5, <2>6, <3>1, <3>2, <3>3, GotoKeeps
  <2>8. Local(w) /\ pc'[w] = "v_read"
    BY <1>1, <2>1, <2>2, <2>5, GotoLocal
  <2>9. /\ peek' \in [Worker -> MaybeHist] /\ peek'[w] = VisibleHist(w, k)
        /\ \A v \in Worker \ {w} : peek'[v] = peek[v]
    BY <2>1, <2>4 DEF HistoryInv, MaybeHist
  <2>10. HistoryAt(w)'
    <3>1. todo'[w] = {k}
      BY <1>1, <2>1 DEF Goto, IInv, GoodControl
    <3>2. QED
      BY <2>5, <2>8, <2>9, <3>1 DEF HistoryAt
  <2>11. QED
    BY <2>2, <2>7, <2>8, <2>9, <2>10, HistoryKeeps DEF HistoryInv
<1>7. CASE VerifyReads(w)
  <2>1. PICK k \in todo[w] :
          verdict' = [verdict EXCEPT ![w] =
            IF Verifies([peek[w] EXCEPT !.events = VisibleHist(w, k).events])
            THEN "valid" ELSE "invalid"]
    BY <1>7 DEF VerifyReads
  <2>2. /\ pc[w] = "v_read" /\ peek' = [peek EXCEPT ![w] = Null]
        /\ Goto(w, "record", {}) /\ txn' = txn /\ seen' = seen /\ goal' = goal
    BY <1>7 DEF VerifyReads
  <2>3. k \in DOMAIN txn[w].hist /\ peek[w] = txn[w].hist[k]
    BY <2>2 DEF HistoryInv, HistoryAt
  <2>4. peek[w] \in Resource /\ Verifies(peek[w]) /\ VisibleHist(w, k) = peek[w]
    <3>1. VisibleHist(w, k) = txn[w].hist[k] /\ k \in Key
      BY <1>1, <2>3 DEF VisibleHist
    <3>2. peek[w] # Null /\ Sound(peek[w])
      BY <1>1, <2>3 DEF GoodTxn
    <3>3. QED
      BY <2>3, <3>1, <3>2 DEF HistoryInv, MaybeHist, Sound
  <2>5. [peek[w] EXCEPT !.events = VisibleHist(w, k).events] = peek[w]
    BY <2>4 DEF Resource
  <2>6. verdict' \in [Worker -> Answers]
    BY <2>1, <2>4, <2>5 DEF HistoryInv, Answers
  <2>7. IInv(HistoryPoints)'
    BY <1>1, <1>2, <1>4, <2>2, PlainGotoKeeps
  <2>8. Local(w) /\ pc'[w] = "record"
    BY <1>1, <2>2, GotoLocal
  <2>9. peek' \in [Worker -> MaybeHist] /\ \A v \in Worker \ {w} : peek'[v] = peek[v]
    BY <2>2 DEF HistoryInv, MaybeHist
  <2>10. QED
    BY <2>2, <2>6, <2>7, <2>8, <2>9, PlainKeeps DEF HistoryInv
<1>8. QED
  BY <1>5, <1>6, <1>7

\* A key that comes first in a loop is the only one that does.
LEMMA FirstOfOne ==
  ASSUME NEW K \in SUBSET Key, NEW k \in FirstOf(K) PROVE k \in Key /\ FirstOf(K) = {k}
<1>1. k \in K /\ k \in Nat
  BY KeyAssumption DEF FirstOf
<1>2. ASSUME NEW x \in FirstOf(K) PROVE x = k
  <2>1. x \in Nat /\ x <= k /\ k <= x
    BY <1>1, KeyAssumption DEF FirstOf
  <2>2. QED
    BY <1>1, <2>1
<1>3. QED
  BY <1>1, <1>2

\* Locking a row that check_scope() lets pass, and going on to hold it.
LEMMA LockKeeps ==
  ASSUME HistoryInv, NEW w \in Worker, NEW k \in Key, NEW next \in {"b_check", "r_head"},
         NEW work \in SUBSET Key, Held(next, work) = {k}, Selected(w, VisibleRow(w, k)),
         txn' = Locked(w, k), Goto(w, next, work), seen' = seen,
         goal' = goal, peek' = peek, verdict' = verdict
  PROVE  HistoryInv'
<1>1. IInv(HistoryPoints) /\ DOMAIN seen = Worker /\ Partial(seen[w], Image)
  BY DEF HistoryInv, IInv, GoodControl
<1>2. /\ DOMAIN txn' = Worker /\ GoodTxn(txn'[w])
      /\ k \in DOMAIN txn'[w].row /\ txn'[w].row[k] = VisibleRow(w, k)
      /\ \A v \in Worker \ {w} : txn'[v] = txn[v]
  BY <1>1, LockedGood DEF IInv, Selected
<1>3. \A x \in Held(next, work) : HoldsRow(txn'[w], w, x)
  BY <1>2 DEF HoldsRow, Selected
<1>4. next \in HistoryPoints /\ RestoreAt(next, work, txn'[w], seen'[w])
  BY DEF HistoryPoints, RestoreAt
<1>5. DOMAIN seen' = Worker /\ Partial(seen'[w], Image)
      /\ \A v \in Worker \ {w} : seen'[v] = seen[v]
  BY <1>1
<1>6. IInv(HistoryPoints)'
  BY <1>1, <1>2, <1>3, <1>4, <1>5, GotoKeeps
<1>7. Local(w) /\ pc'[w] = next
  BY <1>1, <1>2, <1>5, GotoLocal
<1>8. QED
  BY <1>6, <1>7, PlainKeeps DEF HistoryInv

\* backfill() appends a baseline to a row it has locked, that has no event.
LEMMA BackfillKeeps ==
  ASSUME HistoryInv, NEW w \in Worker,
         BackfillLoads(w) \/ BackfillChecks(w) \/ BackfillCommits(w) \/ BackfillReturns(w)
  PROVE  HistoryInv'
<1>1. /\ todo[w] \in SUBSET Key /\ DOMAIN seen = Worker /\ DOMAIN txn = Worker
      /\ Partial(seen[w], Image) /\ GoodTxn(txn[w]) /\ IInv(HistoryPoints)
  BY DEF HistoryInv, IInv, GoodControl, GoodTxns
<1>2. {"idle", "open", "b_load", "b_commit"} \subseteq HistoryPoints \ HoldPoints
  BY DEF HistoryPoints, WritePoints, HoldPoints
<1>3. goal' = goal /\ peek' = peek /\ verdict' = verdict
  BY DEF BackfillLoads, BackfillChecks, BackfillCommits, BackfillReturns
<1>4. \A p, K, t, s : p \in {"b_load", "b_commit"} => RestoreAt(p, K, t, s)
  BY DEF RestoreAt
<1>5. CASE BackfillLoads(w)
  <2>1. PICK k \in FirstOf(todo[w]) :
          \/ Raise(w)
          \/ Goto(w, "b_load", todo[w] \ {k}) /\ txn' = txn /\ seen' = seen
          \/ /\ VisibleRow(w, k) # Null /\ CheckScope(w, VisibleRow(w, k).scope)
             /\ txn' = Locked(w, k) /\ Goto(w, "b_check", todo[w]) /\ seen' = seen
    BY <1>5 DEF BackfillLoads
  <2>2. CASE Raise(w)
    BY <1>3, <2>2, RaiseHistory
  <2>3. CASE Goto(w, "b_load", todo[w] \ {k}) /\ txn' = txn /\ seen' = seen
    <3>1. todo[w] \ {k} \in SUBSET Key
      BY <1>1
    <3>2. IInv(HistoryPoints)'
      BY <1>1, <1>2, <1>4, <2>3, <3>1, PlainGotoKeeps
    <3>3. Local(w) /\ pc'[w] = "b_load"
      BY <1>1, <2>3, GotoLocal
    <3>4. QED
      BY <1>3, <3>2, <3>3, PlainKeeps DEF HistoryInv
  <2>4. CASE /\ VisibleRow(w, k) # Null /\ CheckScope(w, VisibleRow(w, k).scope)
             /\ txn' = Locked(w, k) /\ Goto(w, "b_check", todo[w]) /\ seen' = seen
    <3>1. k \in Key /\ Held("b_check", todo[w]) = {k}
      BY <1>1, FirstOfOne DEF Held
    <3>2. Selected(w, VisibleRow(w, k))
      BY <2>4 DEF Selected
    <3>3. QED
      BY <1>1, <1>3, <2>4, <3>1, <3>2, LockKeeps
  <2>5. QED
    BY <2>1, <2>2, <2>3, <2>4
<1>6. CASE BackfillChecks(w)
  <2>1. PICK k \in FirstOf(todo[w]) :
          IF HasHistory(VisibleHist(w, k))
          THEN Goto(w, "b_commit", todo[w] \ {k}) /\ txn' = txn /\ seen' = seen
          ELSE AppendEvent(w, k, VisibleRow(w, k), "baseline", Null,
                           Snapshot(VisibleRow(w, k)), "b_commit")
    BY <1>6 DEF BackfillChecks
  <2>2. k \in Key /\ todo[w] \ {k} \in SUBSET Key
    BY <1>1, FirstOfOne
  <2>3. CASE HasHistory(VisibleHist(w, k))
    <3>1. Goto(w, "b_commit", todo[w] \ {k}) /\ txn' = txn /\ seen' = seen
      BY <2>1, <2>3
    <3>2. IInv(HistoryPoints)'
      BY <1>1, <1>2, <1>4, <2>2, <3>1, PlainGotoKeeps
    <3>3. Local(w) /\ pc'[w] = "b_commit"
      BY <1>1, <3>1, GotoLocal
    <3>4. QED
      BY <1>3, <3>2, <3>3, PlainKeeps DEF HistoryInv
  <2>4. CASE ~HasHistory(VisibleHist(w, k))
    <3> DEFINE r == VisibleRow(w, k)
    <3>1. AppendEvent(w, k, r, "baseline", Null, Snapshot(r), "b_commit")
      BY <2>1, <2>4
    <3>2. HoldsRow(txn[w], w, k)
      BY <1>1, <1>6 DEF BackfillChecks, IInv, Holds, Held
    <3>3. CheckScope(w, r.scope) /\ r \in Row
      BY <1>1, <2>2, <3>2, VisibleTyped DEF HoldsRow, VisibleRow, IInv, MaybeRow
    <3>4. HeadOf(w, k, r).revision = 0
      <4>1. VisibleHist(w, k) \in MaybeHist
        BY <1>1, <2>2, VisibleTyped DEF IInv
      <4>2. QED
        BY <2>4, <4>1 DEF HeadOf, HasHistory, MaybeHist, Resource
    <3>5. Null \in Image /\ Snapshot(r) \in Image /\ "baseline" \in Action
      BY <3>3 DEF Image, Snapshot, Row, Action
    <3> HIDE DEF r
    <3>6. IInv(HistoryPoints)'
      BY <1>1, <1>2, <2>2, <3>1, <3>3, <3>4, <3>5, AppendKeeps
    <3>7. Local(w) /\ pc'[w] \in {"b_commit", "idle", "open"}
      BY <1>1, <3>1, AppendLocal
    <3>8. QED
      BY <1>3, <3>6, <3>7, PlainKeeps DEF HistoryInv
  <2>5. QED
    BY <2>3, <2>4
<1>7. CASE BackfillCommits(w)
  <2>1. /\ Commit(w) /\ pc' = [pc EXCEPT ![w] = "b_load"] /\ mark' = mark /\ call' = call
        /\ todo' = todo /\ seen' = seen /\ block' = block /\ unused' = unused /\ calls' = calls
    BY <1>7 DEF BackfillCommits
  <2>2. /\ GoodTables' /\ DOMAIN txn' = Worker /\ GoodTxn(txn'[w])
        /\ \A v \in Worker \ {w} : txn'[v] = txn[v]
    BY <1>1, <2>1, CommitGood, EmptyGood DEF IInv
  <2>3. GoodTxns'
    BY <1>1, <2>1, <2>2 DEF IInv, GoodTxns
  <2>4. GoodControl(HistoryPoints)'
    BY <1>1, <1>2, <2>1 DEF IInv, GoodControl
  <2>5. todo' = [todo EXCEPT ![w] = todo[w]] /\ Held("b_load", todo[w]) = {}
    BY <1>1, <2>1, HeldNowhere DEF IInv, GoodControl, HoldPoints
  <2>6. Holds'
    BY <1>1, <2>1, <2>2, <2>5, HoldsStep DEF IInv
  <2>7. RestoreHolds'
    <3>1. RestoreAt("b_load", todo[w], txn'[w], seen'[w])
      BY <1>4
    <3>2. \A v \in Worker \ {w} : txn'[v] = txn[v] /\ seen'[v] = seen[v] /\ call'[v] = call[v]
      BY <2>1, <2>2
    <3>3. QED
      BY <1>1, <2>1, <2>5, <3>1, <3>2, RestoreStep DEF IInv
  <2>8. IInv(HistoryPoints)'
    BY <2>2, <2>3, <2>4, <2>6, <2>7 DEF IInv
  <2>9. Local(w) /\ pc'[w] = "b_load"
    BY <1>1, <2>1, <2>2 DEF Local, IInv, GoodControl
  <2>10. QED
    BY <1>3, <2>8, <2>9, PlainKeeps DEF HistoryInv
<1>8. CASE BackfillReturns(w)
  <2>1. Ends(w) /\ row' = row /\ hist' = hist /\ txn' = txn
    BY <1>8 DEF BackfillReturns
  <2>2. DOMAIN mark' = Worker /\ GoodTxn(mark'[w]) /\ \A v \in Worker \ {w} : mark'[v] = mark[v]
    BY <1>1, <2>1, EmptyGood DEF IInv, Ends, GoodTxns
  <2>3. GoodTables' /\ GoodTxns'
    BY <1>1, <2>1, <2>2, TxnStep DEF IInv
  <2>4. GoodControl(HistoryPoints)' /\ Holds' /\ RestoreHolds'
    BY <1>1, <1>2, <2>1, EndsControl, EndsHolds DEF IInv
  <2>5. IInv(HistoryPoints)'
    BY <2>3, <2>4 DEF IInv
  <2>6. Local(w) /\ pc'[w] \in {"idle", "open"}
    BY <1>1, <2>1, EndsLocal
  <2>7. QED
    BY <1>3, <2>5, <2>6, PlainKeeps DEF HistoryInv
<1>9. QED
  BY <1>5, <1>6, <1>7, <1>8

\* restore() comes to its save() with the row and the head locked and agreeing.
LEMMA RestoreKeeps ==
  ASSUME HistoryInv, NEW w \in Worker, RestoreLoads(w) \/ RestoreReads(w) \/ RestoreVerifies(w)
  PROVE  HistoryInv'
<1>1. /\ todo[w] \in SUBSET Key /\ DOMAIN seen = Worker /\ DOMAIN txn = Worker
      /\ Partial(seen[w], Image) /\ GoodTxn(txn[w]) /\ IInv(HistoryPoints)
  BY DEF HistoryInv, IInv, GoodControl, GoodTxns
<1>2. goal' = goal /\ peek' = peek /\ verdict' = verdict
  BY DEF RestoreLoads, RestoreReads, RestoreVerifies
<1>3. CASE Raise(w)
  BY <1>2, <1>3, RaiseHistory
<1>4. CASE RestoreLoads(w) /\ ~Raise(w)
  <2>1. PICK k \in todo[w] :
          /\ Selected(w, VisibleRow(w, k))
          /\ txn' = Locked(w, k) /\ Goto(w, "r_head", {k}) /\ seen' = seen
    BY <1>4 DEF RestoreLoads
  <2>2. k \in Key /\ {k} \in SUBSET Key /\ Held("r_head", {k}) = {k}
    BY <1>1 DEF Held
  <2>3. QED
    BY <1>2, <2>1, <2>2, LockKeeps
<1>5. CASE RestoreReads(w) /\ ~Raise(w)
  <2>1. PICK k \in todo[w] :
          /\ VisibleHist(w, k) # Null
          /\ Goto(w, "r_verify", {k}) /\ txn' = txn /\ seen' = seen
    BY <1>5 DEF RestoreReads
  <2>2. k \in Key /\ {k} \in SUBSET Key /\ "r_verify" \in HistoryPoints
    BY <1>1 DEF HistoryPoints
  <2>3. \A x \in Held("r_verify", {k}) : HoldsRow(txn'[w], w, x)
    BY <1>1, <1>5, <2>1 DEF RestoreReads, IInv, Holds, Held
  <2>4. RestoreAt("r_verify", {k}, txn'[w], seen'[w])
    BY DEF RestoreAt
  <2>5. IInv(HistoryPoints)'
    BY <1>1, <2>1, <2>2, <2>3, <2>4, GotoKeeps
  <2>6. Local(w) /\ pc'[w] = "r_verify"
    BY <1>1, <2>1, GotoLocal
  <2>7. HistoryAt(w)'
    <3>1. todo'[w] = {k} /\ hist' = hist
      BY <1>1, <2>1 DEF Goto, IInv, GoodControl
    <3>2. VisibleHist(w, k)' # Null
      BY <2>1, <3>1 DEF VisibleHist
    <3>3. QED
      BY <2>2, <2>6, <3>1, <3>2 DEF HistoryAt
  <2>8. QED
    BY <1>2, <2>5, <2>6, <2>7, HistoryKeeps DEF HistoryInv
<1>6. CASE RestoreVerifies(w) /\ ~Raise(w)
  <2>1. pc[w] = "r_verify"
    BY <1>6 DEF RestoreVerifies
  <2>2. PICK k \in todo[w] :
          LET h == VisibleHist(w, k) IN
          /\ h.events # <<>>
          /\ ~Drifted(VisibleRow(w, k), h)
          /\ goal[w].target \in DOMAIN h.events
          /\ h.events[goal[w].target].after # Null
          /\ txn' = PutHist(w, k, h)
          /\ call' = [call EXCEPT ![w].scope = VisibleRow(w, k).scope,
                                  ![w].val = h.events[goal[w].target].after]
          /\ pc' = [pc EXCEPT ![w] = "lock"]
          /\ UNCHANGED <<row, hist, mark, todo, seen, block, unused, calls>>
    BY <1>6 DEF RestoreVerifies
  <2> DEFINE h == VisibleHist(w, k)
  <2> DEFINE a == h.events[goal[w].target].after
  <2>3. k \in Key /\ todo[w] = {k} /\ h # Null
    BY <1>1, <2>1 DEF HistoryInv, HistoryAt
  <2>4. h \in Resource /\ Verifies(h) /\ Signed(h)
    BY <1>1, <2>3, VisibleTyped DEF IInv, MaybeHist, Sound
  <2>5. HoldsRow(txn[w], w, k)
    BY <1>1, <2>1 DEF IInv, Holds, Held
  <2>6. VisibleRow(w, k) = txn[w].row[k] /\ VisibleRow(w, k) \in Row
    BY <1>1, <2>3, <2>5, VisibleTyped DEF HoldsRow, VisibleRow, IInv, MaybeRow
  <2>7. VisibleRow(w, k).scope \in Scope /\ a \in Value
    <3>1. h.events \in Seq(Event) /\ goal[w].target \in DOMAIN h.events /\ a # Null
      BY <2>2, <2>4 DEF Resource
    <3>2. h.events[goal[w].target] \in Event
      BY <3>1
    <3>3. QED
      BY <2>6, <3>1, <3>2 DEF Event, Image, Row
  <2>8. /\ txn' = PutHist(w, k, h)
        /\ call' = [call EXCEPT ![w].scope = VisibleRow(w, k).scope, ![w].val = a]
        /\ pc' = [pc EXCEPT ![w] = "lock"]
        /\ row' = row /\ hist' = hist /\ mark' = mark /\ todo' = todo /\ seen' = seen
        /\ block' = block /\ unused' = unused /\ calls' = calls
    BY <2>2
  <2>9. h.events # <<>> /\ h.events[Len(h.events)].after = txn[w].row[k].val
    BY <2>2, <2>5, <2>6 DEF Drifted, Snapshot, HoldsRow
  <2> HIDE DEF h, a
  <2>10. /\ DOMAIN txn' = Worker /\ GoodTxn(txn'[w])
         /\ \A v \in Worker \ {w} : txn'[v] = txn[v]
         /\ k \in DOMAIN txn'[w].hist /\ txn'[w].hist[k] = h /\ txn'[w].row = txn[w].row
    BY <1>1, <2>3, <2>4, <2>8, PutHistGood DEF IInv
  <2>11. GoodTables' /\ GoodTxns'
    BY <1>1, <2>8, <2>10, TxnStep DEF IInv, GoodTxns
  <2>12. "lock" \in HistoryPoints /\ Held("lock", todo[w]) = {}
    BY HeldNowhere DEF HoldPoints, HistoryPoints, WritePoints
  <2>13. call' \in [Worker -> CallType] /\ \A v \in Worker \ {w} : call'[v] = call[v]
    <3>1. call \in [Worker -> CallType]
      BY <1>1 DEF IInv, GoodControl
    <3>2. [call[w] EXCEPT !.scope = VisibleRow(w, k).scope, !.val = a] \in CallType
      BY <2>7, <3>1 DEF CallType
    <3>3. call' = [call EXCEPT ![w] = [call[w] EXCEPT !.scope = VisibleRow(w, k).scope,
                                                      !.val = a]]
      BY <2>8, <3>1
    <3>4. QED
      BY <3>1, <3>2, <3>3
  <2>14. GoodControl(HistoryPoints)'
    BY <1>1, <2>8, <2>12, <2>13 DEF IInv, GoodControl
  <2>15. todo' = [todo EXCEPT ![w] = todo[w]] /\ \A v \in Worker : seen'[v] = seen[v]
    BY <1>1, <2>8 DEF IInv, GoodControl
  <2>16. Holds'
    BY <1>1, <2>8, <2>10, <2>12, <2>15, HoldsStep DEF IInv
  <2>17. RestoreAt("lock", todo[w], txn'[w], seen'[w])
    <3>1. Reconciled("lock", txn'[w], seen'[w], k)
      BY <2>5, <2>9, <2>10 DEF Reconciled, HoldsRow
    <3>2. QED
      BY <2>3, <3>1 DEF RestoreAt
  <2>18. RestoreHolds'
    BY <1>1, <2>8, <2>10, <2>13, <2>15, <2>17, RestoreStep DEF IInv
  <2>19. IInv(HistoryPoints)'
    BY <2>11, <2>14, <2>16, <2>18 DEF IInv
  <2>20. Local(w) /\ pc'[w] = "lock"
    BY <1>1, <2>8, <2>10, <2>13 DEF Local, IInv, GoodControl
  <2>21. QED
    BY <1>2, <2>19, <2>20, PlainKeeps DEF HistoryInv
<1>7. QED
  BY <1>3, <1>4, <1>5, <1>6

\* A write that goes round PyScoped changes the values of a row nobody holds.
LEMMA DriftKeeps ==
  ASSUME HistoryInv, DriftWrite PROVE HistoryInv'
<1>1. /\ hist' = hist /\ txn' = txn /\ mark' = mark /\ pc' = pc /\ call' = call /\ todo' = todo
      /\ seen' = seen /\ block' = block /\ unused' = unused /\ goal' = goal /\ peek' = peek
      /\ verdict' = verdict /\ calls < MaxCalls /\ calls' = calls + 1
  BY DEF DriftWrite
<1>2. PICK k \in Key, v \in Value : row[k] # Null /\ row' = [row EXCEPT ![k].val = v]
  BY DEF DriftWrite
<1>3. row \in [Key -> MaybeRow] /\ row[k] \in Row
  BY <1>2 DEF HistoryInv, IInv, GoodTables, MaybeRow
<1>4. [row[k] EXCEPT !.val = v] \in Row
  BY <1>3 DEF Row
<1>5. row' \in [Key -> MaybeRow]
  BY <1>2, <1>3, <1>4 DEF MaybeRow
<1>6. GoodTables' /\ GoodTxns'
  BY <1>1, <1>5 DEF HistoryInv, IInv, GoodTables, GoodTxns
<1>7. GoodControl(HistoryPoints)'
  BY <1>1, BoundAssumption DEF HistoryInv, IInv, GoodControl
<1>8. Holds' /\ RestoreHolds'
  BY <1>1 DEF HistoryInv, IInv, Holds, RestoreHolds
<1>9. \A w \in Worker : HistoryAt(w)'
  BY <1>1 DEF HistoryInv, HistoryAt, VisibleHist
<1>10. QED
  BY <1>1, <1>6, <1>7, <1>8, <1>9 DEF HistoryInv, IInv

\* A step of one of the writes.
LEMMA WriteKeeps ==
  ASSUME HistoryInv, NEW w \in Worker, Start(w) \/ Step(w) \/ Fail(w),
         goal' = goal, peek' = peek, verdict' = verdict
  PROVE  HistoryInv'
<1>1. IInv(HistoryPoints) /\ WritePoints \subseteq HistoryPoints
  BY DEF HistoryInv, HistoryPoints
<1>2. IInv(HistoryPoints)'
  BY <1>1, StartKeeps, SaveKeeps, UpdateKeeps, RecordKeeps, DeleteKeeps, FinishKeeps DEF Step
<1>3. Local(w) /\ pc'[w] \in WritePoints
  BY <1>1, LocalStep
<1>4. pc'[w] \notin {"v_lock", "v_read", "r_verify"}
  BY <1>3 DEF WritePoints
<1>5. QED
  BY <1>2, <1>3, <1>4, PlainKeeps DEF HistoryInv

-----------------------------------------------------------------------------
(* The theorems. *)

\* The initial states satisfy the invariant.
LEMMA HistoryInitInv == HistoryInit => HistoryInv
<1> SUFFICES ASSUME HistoryInit PROVE HistoryInv
  OBVIOUS
<1>1. IInv(HistoryPoints)
  BY InitIInv DEF HistoryInit, HistoryPoints
<1>2. \A w \in Worker : HistoryAt(w)
  BY DEF HistoryInit, Init, HistoryAt
<1>3. /\ goal \in [Worker -> [target : 0..MaxCalls, expected : 0..MaxCalls]]
      /\ peek \in [Worker -> MaybeHist] /\ verdict \in [Worker -> Answers]
  BY BoundAssumption DEF HistoryInit, NoGoal, MaybeHist, Answers
<1>4. QED
  BY <1>1, <1>2, <1>3 DEF HistoryInv

\* Every step keeps it.
LEMMA HistoryNextInv == HistoryInv /\ [HistoryNext]_historyVars => HistoryInv'
<1> SUFFICES ASSUME HistoryInv, [HistoryNext]_historyVars PROVE HistoryInv'
  OBVIOUS
<1>1. CASE UNCHANGED historyVars
  <2>1. UNCHANGED vars /\ goal' = goal /\ peek' = peek /\ verdict' = verdict
    BY <1>1 DEF historyVars
  <2>2. IInv(HistoryPoints)'
    BY <2>1, SameKeeps DEF HistoryInv
  <2>3. \A w \in Worker : HistoryAt(w)'
    BY <2>1 DEF vars, HistoryInv, HistoryAt, VisibleHist
  <2>4. QED
    BY <2>1, <2>2, <2>3 DEF HistoryInv
<1>2. CASE Next /\ goal' = goal /\ peek' = peek /\ verdict' = verdict
  <2>1. CASE Done
    BY <1>1, <1>2, <2>1 DEF Done, historyVars
  <2>2. QED
    BY <1>2, <2>1, WriteKeeps DEF Next
<1>3. ASSUME NEW w \in Worker, HistoryStart(w) \/ HistoryStep(w) PROVE HistoryInv'
  BY <1>3, HistoryStartKeeps, VerifyKeeps, BackfillKeeps, RestoreKeeps DEF HistoryStep
<1>4. QED
  BY <1>1, <1>2, <1>3, DriftKeeps DEF HistoryNext

\* What the invariant says of the state and of the committed histories.
LEMMA HistoryInvImplies ==
  ASSUME HistoryInv
  PROVE  /\ HistoryTypeOK /\ VerdictSound /\ HistoryVerifies
         /\ BaselineFirst /\ RestoresReconciled
<1>1. HistoryTypeOK
  BY IInvTypeOK DEF HistoryInv, HistoryTypeOK, Answers
<1>2. VerdictSound
  BY DEF HistoryInv, VerdictSound, Answers
<1>3. \A k \in Key : hist[k] \in MaybeHist /\ Sound(hist[k])
  BY DEF HistoryInv, IInv, GoodTables
<1>4. HistoryVerifies
  BY <1>3 DEF HistoryVerifies, Sound
<1>5. ASSUME NEW k \in Key, NEW i \in DOMAIN Events(hist[k])
      PROVE  LET e == Events(hist[k])[i] IN
             /\ e.action = "baseline" => i = 1
             /\ e.action = "restore" => i > 1 /\ e.before = Events(hist[k])[i - 1].after
  <2>1. CASE hist[k] = Null
    BY <1>5, <2>1 DEF Events
  <2>2. CASE hist[k] # Null
    <3>1. Events(hist[k]) = hist[k].events /\ hist[k].events \in Seq(Event) /\ Signed(hist[k])
      BY <1>3, <2>2 DEF Events, MaybeHist, Resource, Sound
    <3>2. i \in 1..Len(hist[k].events)
      BY <1>5, <3>1
    <3>3. QED
      BY <3>1, <3>2 DEF Signed
  <2>3. QED
    BY <2>1, <2>2
<1>6. QED
  BY <1>1, <1>2, <1>4, <1>5 DEF BaselineFirst, RestoresReconciled

\* The state stays well typed with history.py's operations beside the writes.
THEOREM HistoryTypeCorrect == HistorySpec => []HistoryTypeOK
BY HistoryInitInv, HistoryNextInv, HistoryInvImplies, PTL DEF HistorySpec

\* verify_history() never calls a history invalid that only PyScoped wrote,
\* although it reads the head and the events in two statements: the lock it
\* takes on the head keeps every append out between them.
THEOREM VerdictsSound == HistorySpec => []VerdictSound
BY HistoryInitInv, HistoryNextInv, HistoryInvImplies, PTL DEF HistorySpec

\* Baselines, restores and writes that go round PyScoped leave every committed
\* history one that verify_history() accepts.
THEOREM HistoriesStillVerify == HistorySpec => []HistoryVerifies
BY HistoryInitInv, HistoryNextInv, HistoryInvImplies, PTL DEF HistorySpec

\* backfill() writes a baseline only as the first event of a history, with any
\* number of backfills at once, interrupted or run again among writers.
THEOREM BaselinesFirst == HistorySpec => []BaselineFirst
BY HistoryInitInv, HistoryNextInv, HistoryInvImplies, PTL DEF HistorySpec

\* The event of a restore() starts where the event before it ended: data that
\* drifted from the history is never restored over, whenever the drift came.
THEOREM RestoresReconcile == HistorySpec => []RestoresReconciled
BY HistoryInitInv, HistoryNextInv, HistoryInvImplies, PTL DEF HistorySpec

-----------------------------------------------------------------------------
(* Scopes, and what backfill() has passed. *)

BackfillPoints == {"b_load", "b_check", "b_commit"}

\* backfill() owns nothing between rows, and every row it has passed has history,
\* if only in its own transaction.  Only restore() is at restore()'s points.
Underway(w) ==
  /\ pc[w] = "b_load" => txn[w] = NoLocks
  /\ pc[w] \in BackfillPoints =>
       /\ ~block[w]
       /\ \A k \in call[w].keys \ todo[w] : row[k] # Null => VisibleHist(w, k) # Null
  /\ pc[w] \in {"r_load", "r_head", "r_verify"} => call[w].op = "restore"

CoverInv == ScopeInv /\ \A w \in Worker : Underway(w)

\* A commit of another worker that puts a row where there was none puts its
\* history there too.
LEMMA OthersPassed ==
  ASSUME HistoryInv, CoverInv, NEW w \in Worker, Local(w),
         \/ row' = row /\ hist' = hist
         \/ Commit(w) /\ \A k \in Key : Settled(row, txn[w], k),
         NEW v \in Worker \ {w}
  PROVE  Underway(v)'
<1>1. /\ txn'[v] = txn[v] /\ pc'[v] = pc[v] /\ todo'[v] = todo[v] /\ call'[v] = call[v]
      /\ block'[v] = block[v]
  BY DEF Local
<1>2. Underway(v) /\ call[v].keys \subseteq Key /\ IInv(HistoryPoints) /\ GoodTxn(txn[v])
  BY DEF CoverInv, HistoryInv, IInv, GoodControl, GoodTxns, CallType
<1>3. ASSUME pc[v] \in BackfillPoints, NEW k \in call[v].keys \ todo[v], row'[k] # Null
      PROVE  VisibleHist(v, k)' # Null
  <2>1. CASE k \in DOMAIN txn[v].hist
    BY <1>1, <1>2, <2>1 DEF VisibleHist, GoodTxn
  <2>2. CASE k \notin DOMAIN txn[v].hist
    <3>1. k \in Key /\ (row[k] # Null => hist[k] # Null)
      BY <1>2, <1>3, <2>2 DEF Underway, VisibleHist
    <3>2. CASE row[k] # Null
      <4>1. hist'[k] # Null
        BY <1>2, <3>1, <3>2, HistoriesStay
      <4>2. QED
        BY <1>1, <2>2, <4>1 DEF VisibleHist
    <3>3. CASE row[k] = Null
      <4>1. Commit(w) /\ Settled(row, txn[w], k)
        BY <1>3, <3>1, <3>3
      <4>2. /\ row'[k] = IF k \in DOMAIN txn[w].row THEN txn[w].row[k] ELSE row[k]
            /\ hist'[k] = IF k \in DOMAIN txn[w].hist THEN txn[w].hist[k] ELSE hist[k]
        BY <1>2, <3>1, <4>1, MergeTable DEF Commit, IInv, GoodTables, GoodTxns, GoodTxn, TxnTypeOK
      <4>3. k \in DOMAIN txn[w].hist
        BY <1>3, <3>3, <4>1, <4>2 DEF Settled
      <4>4. hist'[k] # Null
        BY <1>2, <4>2, <4>3 DEF IInv, GoodTxns, GoodTxn
      <4>5. QED
        BY <1>1, <2>2, <4>4 DEF VisibleHist
    <3>4. QED
      BY <3>2, <3>3
  <2>3. QED
    BY <2>1, <2>2
<1>4. QED
  BY <1>1, <1>2, <1>3 DEF Underway

\* The invariant after a step of w, from what the step did for w itself.
LEMMA CoverKeeps ==
  ASSUME HistoryInv, CoverInv, NEW w \in Worker, Local(w), ScopeInv', Underway(w)',
         \/ row' = row /\ hist' = hist
         \/ Commit(w) /\ \A k \in Key : Settled(row, txn[w], k)
  PROVE  CoverInv'
<1>1. \A v \in Worker \ {w} : Underway(v)'
  BY OthersPassed
<1>2. \A v \in Worker : Underway(v)'
  BY <1>1
<1>3. QED
  BY <1>2 DEF CoverInv

\* The same where the worker is in no backfill() and not before a restore()'s save().
LEMMA PlainCover ==
  ASSUME HistoryInv, CoverInv, NEW w \in Worker, Local(w), ScopeInv',
         pc'[w] \notin BackfillPoints \union {"r_load", "r_head", "r_verify"},
         \/ row' = row /\ hist' = hist
         \/ Commit(w) /\ \A k \in Key : Settled(row, txn[w], k)
  PROVE  CoverInv'
<1>1. Underway(w)'
  BY DEF Underway, BackfillPoints
<1>2. QED
  BY <1>1, CoverKeeps

\* An exception.
LEMMA RaiseCover ==
  ASSUME HistoryInv, CoverInv, NEW w \in Worker, Raise(w)
  PROVE  CoverInv'
<1>1. Local(w) /\ pc'[w] \in {"idle", "open"} /\ row' = row /\ hist' = hist
  BY RaiseLocal DEF HistoryInv, Raise, Rollback
<1>2. ScopeInv'
  BY RaiseScope DEF HistoryInv, CoverInv
<1>3. QED
  BY <1>1, <1>2, PlainCover DEF BackfillPoints

\* The writes.
LEMMA WriteCover ==
  ASSUME HistoryInv, CoverInv, NEW w \in Worker, Start(w) \/ Step(w) \/ Fail(w)
  PROVE  CoverInv'
<1>1. IInv(HistoryPoints) /\ ScopeInv
  BY DEF HistoryInv, CoverInv
<1>2. Local(w) /\ pc'[w] \in WritePoints
  BY <1>1, LocalStep
<1>3. pc'[w] \notin BackfillPoints \union {"r_load", "r_head", "r_verify"}
  BY <1>2 DEF WritePoints, BackfillPoints
<1>4. ScopeInv'
  BY <1>1, WriteScope
<1>5. \/ row' = row /\ hist' = hist
      \/ Commit(w) /\ \A k \in Key : Settled(row, txn[w], k)
  BY <1>1, CommitsSettled
<1>6. QED
  BY <1>2, <1>3, <1>4, <1>5, PlainCover

\* The operations of history.py start.
LEMMA HistoryStartCover ==
  ASSUME HistoryInv, CoverInv, NEW w \in Worker, HistoryStart(w)
  PROVE  CoverInv'
<1> DEFINE Starts(op, next, K) ==
      /\ Begin(w, [op |-> op, keys |-> K, scope |-> CtxScope[w], val |-> NoCall.val], next, K)
      /\ next = "b_load" => pc[w] = "idle"
      /\ next = "r_load" => op = "restore"
<1>1. PICK op \in {"verify", "backfill", "restore"}, next \in {"v_find", "b_load", "r_load"},
           K \in SUBSET Key : Starts(op, next, K)
  <2>1. \A k \in KnownKeys(w) : {k} \in SUBSET Key
    BY DEF KnownKeys
  <2>2. CASE BeginVerify(w)
    <3>1. PICK k \in KnownKeys(w) : Starts("verify", "v_find", {k})
      BY <2>2 DEF BeginVerify
    <3> HIDE DEF Starts
    <3>2. QED
      BY <2>1, <3>1
  <2>3. CASE BeginBackfill(w)
    BY <2>3 DEF BeginBackfill
  <2>4. CASE BeginRestore(w)
    <3>1. PICK k \in KnownKeys(w) : Starts("restore", "r_load", {k})
      BY <2>4 DEF BeginRestore
    <3> HIDE DEF Starts
    <3>2. QED
      BY <2>1, <3>1
  <2>5. QED
    BY <2>2, <2>3, <2>4 DEF HistoryStart
<1> DEFINE c == [op |-> op, keys |-> K, scope |-> CtxScope[w], val |-> NoCall.val]
<1>2. c.op = op /\ c.keys = K /\ Begin(w, c, next, K)
  BY <1>1
<1> HIDE DEF c
<1>3. Local(w) /\ ScopeInv'
  BY <1>1, <1>2, BeginLocal, BeginScope DEF HistoryInv, CoverInv
<1>4. /\ row' = row /\ hist' = hist /\ txn' = txn /\ block' = block
      /\ pc'[w] = next /\ call'[w] = c /\ todo'[w] = K
  BY <1>2 DEF Begin, HistoryInv, IInv, GoodControl
<1>5. pc[w] = "idle" => txn[w] = NoLocks /\ ~block[w]
  BY DEF CoverInv, ScopeInv, Orderly, Session
<1>6. Underway(w)'
  BY <1>1, <1>2, <1>4, <1>5 DEF Underway, BackfillPoints
<1>7. QED
  BY <1>3, <1>4, <1>6, CoverKeeps

\* Going on from one of history.py's points, with at most a row locked.
LEMMA LocksCover ==
  ASSUME HistoryInv, CoverInv, NEW w \in Worker, NEW next, NEW work, Goto(w, next, work),
         seen' = seen, pc[w] \notin {"idle", "open", "insert", "record"},
         next \notin {"idle", "open", "lock", "write", "insert", "delete"},
         \/ txn' = txn
         \/ \E k \in Key : ~SelectWaits(w, k) /\ txn' = Locked(w, k),
         Underway(w)'
  PROVE  CoverInv'
<1>1. IInv(HistoryPoints) /\ ScopeInv /\ row' = row /\ hist' = hist
  BY DEF HistoryInv, CoverInv, Goto
<1>2. \A v \in Worker \ {w} : txn'[v] = txn[v] /\ seen'[v] = seen[v]
  BY <1>1, PutLocal DEF IInv
<1>3. Local(w)
  BY <1>1, <1>2, GotoLocal
<1>4. Visits(next, call[w], work)
  BY DEF Visits
<1>5. ScopeInv'
  BY <1>1, <1>3, <1>4, LocksScope
<1>6. QED
  BY <1>1, <1>3, <1>5, CoverKeeps

\* verify_history() takes a head that agrees with the row.
LEMMA VerifyCover ==
  ASSUME HistoryInv, CoverInv, NEW w \in Worker,
         VerifyFinds(w) \/ VerifyLocks(w) \/ VerifyReads(w)
  PROVE  CoverInv'
<1>1. /\ IInv(HistoryPoints) /\ ScopeInv /\ todo[w] \in SUBSET Key
      /\ pc[w] \in {"v_find", "v_lock", "v_read"} /\ DOMAIN pc = Worker
  BY DEF HistoryInv, CoverInv, IInv, GoodControl, VerifyFinds, VerifyLocks, VerifyReads
<1>2. CASE Raise(w)
  BY <1>2, RaiseCover
<1>3. CASE (VerifyFinds(w) \/ VerifyReads(w)) /\ ~Raise(w)
  <2>1. PICK next \in {"record", "v_lock"} :
          \E work : Goto(w, next, work) /\ txn' = txn /\ seen' = seen
    <3>1. CASE VerifyFinds(w)
      BY <1>3, <3>1 DEF VerifyFinds
    <3>2. CASE VerifyReads(w)
      BY <3>2 DEF VerifyReads
    <3>3. QED
      BY <1>3, <3>1, <3>2
  <2>2. pc'[w] = next
    BY <1>1, <2>1 DEF Goto
  <2>3. Underway(w)'
    BY <2>2 DEF Underway, BackfillPoints
  <2>4. QED
    BY <1>1, <2>1, <2>3, LocksCover
<1>4. CASE VerifyLocks(w)
  <2>1. PICK k \in todo[w] :
          /\ HistFree(w, k) /\ txn' = PutHist(w, k, VisibleHist(w, k))
          /\ Goto(w, "v_read", {k})
    BY <1>4 DEF VerifyLocks
  <2>2. seen' = seen /\ pc[w] = "v_lock" /\ k \in Key
    BY <1>1, <1>4 DEF VerifyLocks
  <2>3. \A x \in Key : Settled(row, txn[w], x)
    BY <1>1, <2>2 DEF ScopeInv, Orderly, Busy
  <2>4. VisibleHist(w, k) # Null
    BY <2>2 DEF HistoryInv, HistoryAt
  <2>5. VisibleRow(w, k) # Null => VisibleRow(w, k).scope = VisibleHist(w, k).scope
    BY <1>1, <2>2, <2>3, <2>4, HeadAgrees
  <2>6. Takes(w, txn'[w]) /\ \A x \in Key : Settled(row, txn'[w], x)
    BY <1>1, <2>1, <2>2, <2>3, <2>5, PutHistTakes
  <2>7. Local(w) /\ pc'[w] = "v_read" /\ row' = row /\ hist' = hist
    <3>1. \A v \in Worker \ {w} : txn'[v] = txn[v] /\ seen'[v] = seen[v]
      BY <1>1, <2>1, <2>2, PutLocal DEF IInv
    <3>2. QED
      BY <1>1, <2>1, <3>1, GotoLocal DEF Goto
  <2>8. Visits("v_read", call[w], {k})
    BY DEF Visits
  <2>9. ScopeInv'
    BY <1>1, <2>1, <2>2, <2>6, <2>7, <2>8, GotoScope
  <2>10. QED
    BY <2>7, <2>9, PlainCover DEF BackfillPoints
<1>5. QED
  BY <1>2, <1>3, <1>4

\* backfill() passes a row when it is gone, has history, or has been given some.
LEMMA BackfillCover ==
  ASSUME HistoryInv, CoverInv, NEW w \in Worker,
         BackfillLoads(w) \/ BackfillChecks(w) \/ BackfillCommits(w) \/ BackfillReturns(w)
  PROVE  CoverInv'
<1>1. /\ IInv(HistoryPoints) /\ ScopeInv /\ todo[w] \in SUBSET Key /\ call[w].keys \subseteq Key
      /\ pc[w] \in BackfillPoints /\ DOMAIN pc = Worker /\ DOMAIN todo = Worker
      /\ GoodTxn(txn[w]) /\ DOMAIN mark = Worker /\ DOMAIN txn = Worker
  BY DEF HistoryInv, CoverInv, IInv, GoodControl, GoodTxns, CallType, BackfillPoints,
         BackfillLoads, BackfillChecks, BackfillCommits, BackfillReturns
<1>2. /\ Orderly(w) /\ Underway(w) /\ ~block[w]
      /\ \A k \in call[w].keys \ todo[w] : row[k] # Null => VisibleHist(w, k) # Null
  BY <1>1 DEF CoverInv, ScopeInv, Underway
<1>3. mark[w] = NoLocks /\ \A x \in Key : Settled(row, txn[w], x)
  BY <1>1, <1>2 DEF Orderly, Session, Busy, BackfillPoints
<1>4. CASE Raise(w)
  BY <1>4, RaiseCover
<1>5. CASE BackfillLoads(w) /\ ~Raise(w)
  <2>1. PICK k \in FirstOf(todo[w]) :
          /\ ~SelectWaits(w, k)
          /\ \/ /\ VisibleRow(w, k) = Null /\ Goto(w, "b_load", todo[w] \ {k})
                /\ txn' = txn /\ seen' = seen
             \/ txn' = Locked(w, k) /\ Goto(w, "b_check", todo[w]) /\ seen' = seen
    BY <1>5 DEF BackfillLoads
  <2>2. pc[w] = "b_load" /\ k \in Key /\ txn[w] = NoLocks
    BY <1>1, <1>2, <1>5 DEF BackfillLoads, FirstOf, Underway
  <2>3. CASE /\ VisibleRow(w, k) = Null /\ Goto(w, "b_load", todo[w] \ {k})
             /\ txn' = txn /\ seen' = seen
    <3>1. /\ pc'[w] = "b_load" /\ todo'[w] = todo[w] \ {k} /\ call' = call /\ block' = block
          /\ row' = row /\ hist' = hist
      BY <1>1, <2>3 DEF Goto
    <3>2. row[k] = Null
      BY <2>2, <2>3 DEF VisibleRow, NoLocks, Empty
    <3>3. \A x : VisibleHist(w, x)' = VisibleHist(w, x)
      BY <2>3, <3>1 DEF VisibleHist
    <3>4. Underway(w)'
      BY <1>2, <2>2, <2>3, <3>1, <3>2, <3>3 DEF Underway
    <3>5. QED
      BY <2>2, <2>3, <3>4, LocksCover
  <2>4. CASE txn' = Locked(w, k) /\ Goto(w, "b_check", todo[w]) /\ seen' = seen
    <3>1. /\ pc'[w] = "b_check" /\ todo'[w] = todo[w] /\ call' = call /\ block' = block
          /\ row' = row /\ hist' = hist
      BY <1>1, <2>4 DEF Goto
    <3>2. txn'[w].hist = txn[w].hist
      BY <1>1, <2>2, <2>4, LockedGood DEF IInv
    <3>3. \A x : VisibleHist(w, x)' = VisibleHist(w, x)
      BY <3>1, <3>2 DEF VisibleHist
    <3>4. Underway(w)'
      BY <1>2, <3>1, <3>3 DEF Underway
    <3>5. QED
      BY <2>1, <2>2, <2>4, <3>4, LocksCover
  <2>5. QED
    BY <2>1, <2>3, <2>4
<1>6. CASE BackfillChecks(w) /\ ~Raise(w)
  <2>1. PICK k \in FirstOf(todo[w]) :
          IF HasHistory(VisibleHist(w, k))
          THEN Goto(w, "b_commit", todo[w] \ {k}) /\ txn' = txn /\ seen' = seen
          ELSE AppendEvent(w, k, VisibleRow(w, k), "baseline", Null,
                           Snapshot(VisibleRow(w, k)), "b_commit")
    BY <1>6 DEF BackfillChecks
  <2>2. pc[w] = "b_check" /\ k \in Key
    BY <1>1, <1>6 DEF BackfillChecks, FirstOf
  <2>3. CASE HasHistory(VisibleHist(w, k))
    <3>1. Goto(w, "b_commit", todo[w] \ {k}) /\ txn' = txn /\ seen' = seen
      BY <2>1, <2>3
    <3>2. /\ pc'[w] = "b_commit" /\ todo'[w] = todo[w] \ {k} /\ call' = call /\ block' = block
          /\ row' = row /\ hist' = hist
      BY <1>1, <3>1 DEF Goto
    <3>3. \A x : VisibleHist(w, x)' = VisibleHist(w, x)
      BY <3>1, <3>2 DEF VisibleHist
    <3>4. Underway(w)'
      BY <1>2, <2>3, <3>2, <3>3 DEF Underway, HasHistory
    <3>5. QED
      BY <2>2, <3>1, <3>4, LocksCover
  <2>4. CASE ~HasHistory(VisibleHist(w, k))
    <3> DEFINE r == VisibleRow(w, k)
    <3>1. AppendEvent(w, k, r, "baseline", Null, Snapshot(r), "b_commit")
      BY <2>1, <2>4
    <3>2. HoldsRow(txn[w], w, k)
      BY <1>1, <2>2 DEF IInv, Holds, Held
    <3>3. r \in Row
      BY <1>1, <2>2, <3>2, VisibleTyped DEF HoldsRow, VisibleRow, IInv, MaybeRow
    <3>4. ScopeInv'
      BY <1>1, <2>2, <3>1, <3>3, AppendScope
    <3>5. Local(w)
      BY <1>1, <3>1, AppendLocal
    <3>6. PICK h : /\ txn' = PutHist(w, k, h)
                   /\ Goto(w, "b_commit", todo[w] \ {k})
      BY <1>6, <3>1 DEF AppendEvent
    <3>7. /\ pc'[w] = "b_commit" /\ todo'[w] = todo[w] \ {k} /\ call' = call /\ block' = block
          /\ row' = row /\ hist' = hist
      BY <1>1, <3>6 DEF Goto
    <3>8. ASSUME NEW x \in call[w].keys \ todo'[w], row[x] # Null PROVE VisibleHist(w, x)' # Null
      <4>1. /\ DOMAIN txn'[w].hist = DOMAIN txn[w].hist \union {k}
            /\ \A y \in DOMAIN txn[w].hist \ {k} : txn'[w].hist[y] = txn[w].hist[y]
        BY <1>1, <3>6 DEF PutHist, Merge
      <4>2. CASE x = k
        <5>1. GoodTxn(txn'[w])
          BY BackfillKeeps DEF HistoryInv, IInv, GoodTxns
        <5>2. QED
          BY <4>1, <4>2, <5>1 DEF VisibleHist, GoodTxn
      <4>3. CASE x # k
        <5>1. VisibleHist(w, x) # Null
          BY <1>2, <3>7, <3>8, <4>3
        <5>2. QED
          BY <3>7, <4>1, <4>3, <5>1 DEF VisibleHist
      <4>4. QED
        BY <4>2, <4>3
    <3>9. Underway(w)'
      BY <1>2, <3>7, <3>8 DEF Underway
    <3>10. QED
      BY <3>4, <3>5, <3>7, <3>9, CoverKeeps
  <2>5. QED
    BY <2>3, <2>4
<1>7. CASE BackfillCommits(w)
  <2>1. /\ Commit(w) /\ pc'[w] = "b_load" /\ mark' = mark /\ call' = call /\ todo' = todo
        /\ block' = block /\ seen' = seen /\ \A v \in Worker \ {w} : pc'[v] = pc[v]
    BY <1>1, <1>7 DEF BackfillCommits
  <2>2. Local(w) /\ txn'[w] = NoLocks
    BY <1>1, <2>1 DEF Local, Commit
  <2>3. Session(pc'[w], block'[w], NoLocks, mark'[w]) /\ mark'[w] = NoLocks
    BY <1>2, <1>3, <2>1 DEF Session
  <2>4. ScopeInv'
    BY <1>1, <1>3, <2>1, <2>2, <2>3, CommitScope
  <2>5. ASSUME NEW k \in call[w].keys \ todo[w], row'[k] # Null PROVE VisibleHist(w, k)' # Null
    <3>1. k \in Key /\ VisibleHist(w, k)' = hist'[k]
      BY <1>1, <2>2 DEF VisibleHist, NoLocks, Empty
    <3>2. /\ row'[k] = IF k \in DOMAIN txn[w].row THEN txn[w].row[k] ELSE row[k]
          /\ hist'[k] = IF k \in DOMAIN txn[w].hist THEN txn[w].hist[k] ELSE hist[k]
      BY <1>1, <2>1, <3>1, MergeTable DEF Commit, IInv, GoodTables, GoodTxn, TxnTypeOK
    <3>3. CASE k \in DOMAIN txn[w].hist
      BY <1>1, <3>1, <3>2, <3>3 DEF GoodTxn
    <3>4. CASE k \notin DOMAIN txn[w].hist
      <4>1. row[k] # Null
        BY <1>3, <2>5, <3>1, <3>2, <3>4 DEF Settled
      <4>2. QED
        BY <1>2, <3>1, <3>2, <3>4, <4>1 DEF VisibleHist
    <3>5. QED
      BY <3>3, <3>4
  <2>6. Underway(w)'
    BY <1>2, <2>1, <2>2, <2>5 DEF Underway
  <2>7. QED
    BY <1>3, <2>1, <2>2, <2>4, <2>6, CoverKeeps
<1>8. CASE BackfillReturns(w)
  <2>1. /\ Ends(w) /\ row' = row /\ hist' = hist /\ txn' = txn /\ txn[w] = NoLocks
    BY <1>2, <1>8 DEF BackfillReturns, Underway
  <2>2. Local(w)
    BY <1>1, <2>1, EndsLocal
  <2>3. pc'[w] = "idle" /\ block' = block /\ mark'[w] = NoLocks
    BY <1>1, <1>2, <2>1 DEF Ends
  <2>4. Session(pc'[w], block'[w], txn'[w], mark'[w]) /\ Visits(pc'[w], call'[w], todo'[w])
    BY <1>2, <2>1, <2>3 DEF Session, Visits
  <2>5. Orderly(w)'
    BY <2>1, <2>3, <2>4, NothingSettled DEF Orderly
  <2>6. ScopeInv'
    <3>1. \A v \in Worker \ {w} : Apart(txn'[w], txn[v])
      BY <1>1, <2>1 DEF ScopeInv
    <3>2. QED
      BY <1>1, <2>1, <2>2, <2>5, <3>1, ScopeStep
  <2>7. QED
    BY <2>1, <2>2, <2>3, <2>6, PlainCover DEF BackfillPoints
<1>9. QED
  BY <1>4, <1>5, <1>6, <1>7, <1>8

\* restore() takes a head that agrees with the row it has locked.
LEMMA RestoreCover ==
  ASSUME HistoryInv, CoverInv, NEW w \in Worker,
         RestoreLoads(w) \/ RestoreReads(w) \/ RestoreVerifies(w)
  PROVE  CoverInv'
<1>1. /\ IInv(HistoryPoints) /\ ScopeInv /\ todo[w] \in SUBSET Key
      /\ pc[w] \in {"r_load", "r_head", "r_verify"} /\ DOMAIN pc = Worker
  BY DEF HistoryInv, CoverInv, IInv, GoodControl, RestoreLoads, RestoreReads, RestoreVerifies
<1>2. Orderly(w) /\ call[w].op = "restore"
  BY <1>1 DEF CoverInv, ScopeInv, Underway
<1>3. CASE Raise(w)
  BY <1>3, RaiseCover
<1>4. CASE (RestoreLoads(w) \/ RestoreReads(w)) /\ ~Raise(w)
  <2>1. PICK next \in {"r_head", "r_verify"}, k \in Key :
          /\ Goto(w, next, {k}) /\ seen' = seen
          /\ txn' = txn \/ (~SelectWaits(w, k) /\ txn' = Locked(w, k))
    <3>1. CASE RestoreLoads(w)
      BY <1>1, <1>4, <3>1 DEF RestoreLoads
    <3>2. CASE RestoreReads(w)
      BY <1>1, <1>4, <3>2 DEF RestoreReads
    <3>3. QED
      BY <1>4, <3>1, <3>2
  <2>2. pc'[w] = next /\ call' = call
    BY <1>1, <2>1 DEF Goto
  <2>3. Underway(w)'
    BY <1>2, <2>2 DEF Underway, BackfillPoints
  <2>4. QED
    BY <1>1, <2>1, <2>3, LocksCover
<1>5. CASE RestoreVerifies(w) /\ ~Raise(w)
  <2>1. PICK k \in todo[w] :
          /\ HistFree(w, k)
          /\ txn' = PutHist(w, k, VisibleHist(w, k))
          /\ call' = [call EXCEPT ![w].scope = VisibleRow(w, k).scope,
                                  ![w].val = VisibleHist(w, k).events[goal[w].target].after]
          /\ pc' = [pc EXCEPT ![w] = "lock"]
          /\ row' = row /\ hist' = hist /\ mark' = mark /\ todo' = todo /\ seen' = seen
          /\ block' = block
    BY <1>5 DEF RestoreVerifies
  <2>2. pc[w] = "r_verify" /\ k \in Key
    BY <1>1, <1>5 DEF RestoreVerifies
  <2>3. \A x \in Key : Settled(row, txn[w], x)
    BY <1>2, <2>2 DEF Orderly, Busy
  <2>4. VisibleHist(w, k) # Null
    BY <2>2 DEF HistoryInv, HistoryAt
  <2>5. VisibleRow(w, k) # Null => VisibleRow(w, k).scope = VisibleHist(w, k).scope
    BY <1>1, <2>2, <2>3, <2>4, HeadAgrees
  <2>6. Takes(w, txn'[w]) /\ \A x \in Key : Settled(row, txn'[w], x)
    BY <1>1, <2>1, <2>2, <2>3, <2>5, PutHistTakes
  <2>7. call'[w].op = "restore" /\ \A v \in Worker \ {w} : call'[v] = call[v]
    BY <1>1, <1>2, <2>1 DEF IInv, GoodControl, CallType
  <2>8. pc'[w] = "lock" /\ \A v \in Worker \ {w} : pc'[v] = pc[v]
    BY <1>1, <2>1
  <2>9. Local(w)
    <3>1. \A v \in Worker \ {w} : txn'[v] = txn[v]
      BY <1>1, <2>1, PutLocal DEF IInv
    <3>2. QED
      BY <2>1, <2>7, <2>8, <3>1 DEF Local
  <2>10. Session("lock", block[w], txn'[w], mark[w]) /\ Visits("lock", call'[w], todo[w])
    BY <1>2, <2>2, <2>7 DEF Orderly, Session, Visits
  <2>11. Orderly(w)'
    BY <1>2, <2>1, <2>6, <2>8, <2>10 DEF Orderly, Takes
  <2>12. ScopeInv'
    BY <1>1, <2>1, <2>6, <2>9, <2>11, ScopeStep DEF Takes
  <2>13. QED
    BY <2>1, <2>8, <2>9, <2>12, PlainCover DEF BackfillPoints
<1>6. QED
  BY <1>3, <1>4, <1>5

\* A write that goes round PyScoped moves no row.
LEMMA DriftCover ==
  ASSUME HistoryInv, CoverInv, DriftWrite PROVE CoverInv'
<1>1. /\ hist' = hist /\ txn' = txn /\ mark' = mark /\ pc' = pc /\ call' = call /\ todo' = todo
      /\ block' = block
  BY DEF DriftWrite
<1>2. PICK k \in Key, v \in Value : row[k] # Null /\ row' = [row EXCEPT ![k].val = v]
  BY DEF DriftWrite
<1>3. row \in [Key -> MaybeRow] /\ row[k] \in Row
  BY <1>2 DEF HistoryInv, IInv, GoodTables, MaybeRow
<1>4. row'[k] = [row[k] EXCEPT !.val = v] /\ \A x \in Key \ {k} : row'[x] = row[x]
  BY <1>2, <1>3
<1>5. row'[k] \in Row /\ row'[k].scope = row[k].scope
  BY <1>3, <1>4 DEF Row
<1>6. \A x \in Key : /\ row'[x] # Null <=> row[x] # Null
                     /\ row[x] # Null => row'[x].scope = row[x].scope
  BY <1>2, <1>4, <1>5, AbsenceAssumption
<1>7. \A t : \A x \in Key : Settled(row, t, x) => Settled(row', t, x)
  BY <1>6 DEF Settled
<1>8. ScopeInv'
  <2>1. HistoryInScope'
    BY <1>1, <1>6 DEF CoverInv, ScopeInv, HistoryInScope
  <2>2. ASSUME NEW w \in Worker PROVE Orderly(w)'
    <3>1. Orderly(w)
      BY DEF CoverInv, ScopeInv
    <3>2. \A x \in Key \ Busy(pc[w], call[w], todo[w]) : Settled(row', txn[w], x)
      BY <1>7, <3>1 DEF Orderly
    <3>3. \A x \in Key : Settled(row', mark[w], x)
      BY <1>7, <3>1 DEF Orderly
    <3>4. QED
      BY <1>1, <3>1, <3>2, <3>3 DEF Orderly
  <2>3. \A w \in Worker : \A u \in Worker \ {w} : Apart(txn'[w], txn'[u])
    BY <1>1 DEF CoverInv, ScopeInv
  <2>4. QED
    BY <2>1, <2>2, <2>3 DEF ScopeInv
<1>9. ASSUME NEW w \in Worker PROVE Underway(w)'
  <2>1. Underway(w) /\ call[w].keys \subseteq Key
    BY DEF CoverInv, HistoryInv, IInv, GoodControl, CallType
  <2>2. \A x : VisibleHist(w, x)' = VisibleHist(w, x)
    BY <1>1 DEF VisibleHist
  <2>3. QED
    BY <1>1, <1>6, <2>1, <2>2 DEF Underway
<1>10. QED
  BY <1>8, <1>9 DEF CoverInv

\* The initial states satisfy the invariant, and every step keeps it.
LEMMA CoverAlways ==
  /\ HistoryInit => CoverInv
  /\ HistoryInv /\ CoverInv /\ [HistoryNext]_historyVars => CoverInv'
<1>1. HistoryInit => CoverInv
  BY InitScope DEF HistoryInit, CoverInv, Underway, Init, BackfillPoints
<1>2. ASSUME HistoryInv, CoverInv, UNCHANGED historyVars PROVE CoverInv'
  <2>1. UNCHANGED vars
    BY <1>2 DEF historyVars
  <2>2. ScopeInv'
    BY <1>2, <2>1, SameScopes DEF CoverInv
  <2>3. \A w \in Worker : Underway(w)'
    BY <1>2, <2>1 DEF vars, CoverInv, Underway, VisibleHist
  <2>4. QED
    BY <2>2, <2>3 DEF CoverInv
<1>3. ASSUME HistoryInv, CoverInv, HistoryNext PROVE CoverInv'
  <2>1. CASE Next /\ goal' = goal /\ peek' = peek /\ verdict' = verdict
    <3>1. CASE Done
      BY <1>2, <1>3, <2>1, <3>1 DEF Done, historyVars
    <3>2. QED
      BY <1>3, <2>1, <3>1, WriteCover DEF Next
  <2>2. ASSUME NEW w \in Worker, HistoryStart(w) \/ HistoryStep(w) PROVE CoverInv'
    BY <1>3, <2>2, HistoryStartCover, VerifyCover, BackfillCover, RestoreCover DEF HistoryStep
  <2>3. QED
    BY <1>3, <2>1, <2>2, DriftCover DEF HistoryNext
<1>4. QED
  BY <1>1, <1>2, <1>3

\* Rows stay in the scope of their history beside backfills, restores and
\* writes that go round PyScoped, too.
THEOREM RowsStillFollowHistory == HistorySpec => []HistoryInScope
<1>1. CoverInv => HistoryInScope
  BY DEF CoverInv, ScopeInv
<1>2. QED
  BY <1>1, HistoryInitInv, HistoryNextInv, CoverAlways, PTL DEF HistorySpec

\* Whatever is written, deleted, re-created or rolled back while a backfill()
\* runs, a row it has passed has history or is no longer there.
THEOREM BackfillLeavesNoGap == HistorySpec => []BackfillCovers
<1>1. CoverInv => BackfillCovers
  <2> SUFFICES ASSUME CoverInv, NEW w \in Worker, pc[w] = "b_load",
                      NEW k \in call[w].keys \ todo[w], row[k] # Null
               PROVE  hist[k] # Null
    BY DEF BackfillCovers
  <2>1. txn[w] = NoLocks /\ VisibleHist(w, k) # Null
    BY DEF CoverInv, Underway, BackfillPoints
  <2>2. QED
    BY <2>1 DEF VisibleHist, NoLocks, Empty
<1>2. QED
  BY <1>1, HistoryInitInv, HistoryNextInv, CoverAlways, PTL DEF HistorySpec

-----------------------------------------------------------------------------
(* restore() does what it was asked. *)

\* The head h is the one the caller of w expects, and v what the revision it
\* named left.
AsksFor(w, h, v) ==
  /\ h.revision = goal[w].expected
  /\ goal[w].target \in 1..Len(h.events)
  /\ h.events[goal[w].target].after = v

\* The last event of h is the restore() that w was asked for.
Fulfils(w, h) ==
  /\ h.revision = goal[w].expected + 1
  /\ h.events[h.revision].action = "restore"
  /\ h.events[h.revision].after = h.events[goal[w].target].after

RestorePoints == {"r_load", "r_head", "r_verify", "lock", "write", "record"}

\* A restore() between its statements.  The head it compared, unlocked, with
\* the revision its caller expects is still that head when it locks it: the row
\* is locked, and nobody else appends an event about it.
Asked(w) ==
  call[w].op = "restore" =>
    /\ pc[w] \in RestorePoints
    /\ \A k \in call[w].keys :
         /\ pc[w] = "r_verify" => VisibleHist(w, k).revision = goal[w].expected
         /\ pc[w] \in {"lock", "write", "record"} /\ k \in todo[w] =>
              k \in DOMAIN txn[w].hist /\ AsksFor(w, txn[w].hist[k], call[w].val)
         /\ pc[w] = "record" /\ k \in todo[w] => txn[w].row[k].val = call[w].val
         /\ pc[w] = "record" /\ todo[w] = {} =>
              k \in DOMAIN txn[w].hist /\ Fulfils(w, txn[w].hist[k])

AskInv == \A w \in Worker : Owning(w) /\ Asked(w)

\* A restore() of another worker keeps the row it has locked, so the head it has
\* read does not move.
LEMMA OthersAsked ==
  ASSUME HistoryInv, CoverInv, AskInv, NEW w \in Worker, Local(w), NEW v \in Worker \ {w},
         goal'[v] = goal[v]
  PROVE  Asked(v)'
<1> SUFFICES ASSUME call[v].op = "restore" PROVE Asked(v)'
  BY DEF Local, Asked
<1>1. /\ txn'[v] = txn[v] /\ pc'[v] = pc[v] /\ todo'[v] = todo[v] /\ call'[v] = call[v]
  BY DEF Local
<1>2. /\ IInv(HistoryPoints) /\ Asked(v) /\ Owning(v) /\ Owning(w) /\ HistoryAt(v)
      /\ Apart(txn[w], txn[v])
  BY DEF HistoryInv, CoverInv, ScopeInv, AskInv
<1>3. PICK k \in Key : call[v].keys = {k} /\ todo[v] \subseteq {k}
  BY <1>2 DEF Owning, SaveOps
<1>4. ASSUME pc[v] = "r_verify" PROVE VisibleHist(v, k)' = VisibleHist(v, k)
  <2>1. k \in DOMAIN txn[v].row
    <3>1. todo[v] = {k}
      BY <1>2, <1>3, <1>4 DEF HistoryAt
    <3>2. QED
      BY <1>2, <1>4, <3>1 DEF IInv, Holds, Held, HoldsRow
  <2>2. hist'[k] = hist[k]
    <3>1. CASE Commit(w)
      <4>1. hist'[k] = IF k \in DOMAIN txn[w].hist THEN txn[w].hist[k] ELSE hist[k]
        BY <1>2, <3>1, MergeTable DEF Commit, IInv, GoodTables, GoodTxns, GoodTxn, TxnTypeOK
      <4>2. k \notin DOMAIN txn[w].row
        BY <1>2, <2>1 DEF Apart
      <4>3. QED
        BY <1>2, <4>1, <4>2 DEF Owning, OwnedHeads
    <3>2. QED
      BY <3>1 DEF Local
  <2>3. QED
    BY <1>1, <2>2 DEF VisibleHist
<1>5. \A h, x : /\ AsksFor(v, h, x)' <=> AsksFor(v, h, x)
                /\ Fulfils(v, h)' <=> Fulfils(v, h)
  BY DEF AsksFor, Fulfils
<1>6. QED
  BY <1>1, <1>2, <1>3, <1>4, <1>5 DEF Asked

\* The invariant after a step of w, from what the step did for w itself.
LEMMA AskKeeps ==
  ASSUME HistoryInv, CoverInv, AskInv, NEW w \in Worker, Local(w), Owning(w)', Asked(w)',
         \A v \in Worker \ {w} : goal'[v] = goal[v]
  PROVE  AskInv'
<1>1. \A v \in Worker : Owning(v)'
  BY OwningStep DEF HistoryInv, CoverInv, AskInv
<1>2. \A v \in Worker \ {w} : Asked(v)'
  BY OthersAsked
<1>3. QED
  BY <1>1, <1>2 DEF AskInv

\* An exception.
LEMMA RaiseAsks ==
  ASSUME HistoryInv, CoverInv, AskInv, NEW w \in Worker, Raise(w), goal' = goal
  PROVE  AskInv'
<1>1. IInv(HistoryPoints) /\ Owning(w)
  BY DEF HistoryInv, AskInv
<1>2. Local(w) /\ Owning(w)'
  BY <1>1, RaiseLocal, RaiseOwns
<1>3. call'[w].op = "none"
  BY <1>1 DEF Raise, Ends, IInv, GoodControl, NoCall
<1>4. Asked(w)'
  BY <1>3 DEF Asked
<1>5. QED
  BY <1>2, <1>4, AskKeeps

\* The writes a restore() ends in are those of its save().
LEMMA StillRestoring ==
  ASSUME HistoryInv, CoverInv, AskInv, NEW w \in Worker, Start(w) \/ Step(w) \/ Fail(w),
         call'[w].op = "restore"
  PROVE  /\ call[w].op = "restore" /\ ~Raise(w)
         /\ SaveLoads(w) \/ SaveUpdates(w) \/ Record(w)
<1>1. /\ DOMAIN call = Worker /\ call[w] \in CallType
      /\ call[w].op = "restore" => pc[w] \in RestorePoints
  BY DEF HistoryInv, IInv, GoodControl, AskInv, Asked
<1>2. ~Ends(w) /\ ~Raise(w)
  BY <1>1 DEF Raise, Ends, NoCall
<1>3. ~Start(w)
  <2>1. ~OpenBlock(w)
    BY <1>1 DEF OpenBlock, RestorePoints
  <2>2. ASSUME NEW c, NEW next, NEW work, Begin(w, c, next, work) PROVE c.op = "restore"
    BY <1>1, <2>2 DEF Begin
  <2>3. ~BeginSave(w)
    <3>1. BeginSave(w) => \E c, next, work : Begin(w, c, next, work) /\ c.op # "restore"
      BY DEF BeginSave
    <3>2. QED
      BY <2>2, <3>1
  <2>4. ~BeginCreate(w)
    <3>1. BeginCreate(w) => \E c, next, work : Begin(w, c, next, work) /\ c.op = "create"
      BY DEF BeginCreate
    <3>2. QED
      BY <2>2, <3>1
  <2>5. ~BeginBulkCreate(w)
    <3>1. BeginBulkCreate(w) => \E c, next, work : Begin(w, c, next, work) /\ c.op = "bulk_create"
      BY DEF BeginBulkCreate
    <3>2. QED
      BY <2>2, <3>1
  <2>6. ~BeginUpdate(w)
    <3>1. BeginUpdate(w) => \E c, next, work : Begin(w, c, next, work) /\ c.op = "update"
      BY DEF BeginUpdate
    <3>2. QED
      BY <2>2, <3>1
  <2>7. ~BeginBulkUpdate(w)
    <3>1. BeginBulkUpdate(w) => \E c, next, work : Begin(w, c, next, work) /\ c.op = "bulk_update"
      BY DEF BeginBulkUpdate
    <3>2. QED
      BY <2>2, <3>1
  <2>8. ~BeginDelete(w)
    <3>1. BeginDelete(w) => \E c, next, work : Begin(w, c, next, work) /\ c.op = "delete"
      BY DEF BeginDelete
    <3>2. QED
      BY <2>2, <3>1
  <2>9. QED
    BY <2>1, <2>3, <2>4, <2>5, <2>6, <2>7, <2>8 DEF Start
<1>4. ~Fail(w) /\ ~Return(w)
  BY <1>2 DEF Fail, Return
<1>5. call[w].op = "restore"
  <2>1. CASE CloseBlock(w)
    BY <2>1 DEF CloseBlock
  <2>2. CASE SaveLoads(w) \/ SaveUpdates(w) \/ InsertRow(w)
    BY <1>2, <2>2 DEF SaveLoads, SaveUpdates, InsertRow, Goto
  <2>3. CASE UpdateLocks(w) \/ BulkUpdateLocks(w) \/ BulkUpdateReads(w) \/ UpdateRows(w)
    BY <1>2, <2>3 DEF UpdateLocks, BulkUpdateLocks, BulkUpdateReads, UpdateRows, Goto
  <2>4. CASE DeleteLoads(w) \/ DeleteRecords(w) \/ DeleteRows(w) \/ Record(w)
    BY <1>2, <2>4 DEF DeleteLoads, DeleteRecords, DeleteRows, Record, AppendEvent, Goto
  <2>5. QED
    BY <1>3, <1>4, <2>1, <2>2, <2>3, <2>4 DEF Step
<1>6. ~CloseBlock(w) /\ ~InsertRow(w) /\ ~DeleteRecords(w)
  BY <1>1, <1>5 DEF CloseBlock, InsertRow, DeleteRecords, RestorePoints
<1>7. /\ ~UpdateLocks(w) /\ ~BulkUpdateLocks(w) /\ ~BulkUpdateReads(w) /\ ~UpdateRows(w)
      /\ ~DeleteLoads(w) /\ ~DeleteRows(w)
  BY <1>5 DEF UpdateLocks, BulkUpdateLocks, BulkUpdateReads, UpdateRows, DeleteLoads, DeleteRows
<1>8. QED
  BY <1>2, <1>3, <1>4, <1>5, <1>6, <1>7 DEF Step

\* What append_event() adds to a head that verifies is its last event.
LEMMA AppendedLast ==
  ASSUME NEW h \in Resource, Verifies(h), NEW r \in Row, NEW w, NEW action, NEW before, NEW after
  PROVE  LET g == Appended(h, NewEvent(w, h, r, action, before, after)) IN
         /\ g.revision = h.revision + 1
         /\ g.events[g.revision].action = action /\ g.events[g.revision].after = after
         /\ \A i \in 1..Len(h.events) : g.events[i] = h.events[i]
<1> DEFINE e == NewEvent(w, h, r, action, before, after)
<1> DEFINE g == Appended(h, e)
<1>1. e.revision = h.revision + 1 /\ e.action = action /\ e.after = after
  BY DEF NewEvent
<1> HIDE DEF e
<1>2. g.revision = h.revision + 1 /\ g.events = Append(h.events, e)
  BY <1>1 DEF Appended, Resource
<1>3. h.revision = Len(h.events) /\ h.events \in Seq(Event)
  BY DEF Verifies, Resource
<1> HIDE DEF g
<1>4. /\ g.events[Len(h.events) + 1] = e
      /\ \A i \in 1..Len(h.events) : g.events[i] = h.events[i]
  BY <1>2, <1>3
<1>5. QED
  BY <1>1, <1>2, <1>3, <1>4 DEF e, g

\* The save() of a restore(): it writes what the target revision left, under the
\* locks that its checks were made under.
LEMMA WriteAsks ==
  ASSUME HistoryInv, CoverInv, AskInv, "bulk_update" \notin Ops, NEW w \in Worker,
         Start(w) \/ Step(w) \/ Fail(w), goal' = goal
  PROVE  AskInv'
<1>1. /\ IInv(HistoryPoints) /\ ScopeInv /\ Owning(w) /\ Asked(w) /\ call[w] \in CallType
      /\ todo[w] \in SUBSET Key /\ GoodTxn(txn[w])
  BY DEF HistoryInv, CoverInv, AskInv, IInv, GoodControl, GoodTxns
<1>2. Local(w) /\ Owning(w)'
  BY <1>1, LocalStep, WriteOwns DEF AskInv
<1> SUFFICES ASSUME call'[w].op = "restore" PROVE Asked(w)'
  BY <1>2, AskKeeps DEF Asked
<1>3. /\ call[w].op = "restore" /\ ~Raise(w)
      /\ SaveLoads(w) \/ SaveUpdates(w) \/ Record(w)
  BY StillRestoring
<1>4. PICK k \in Key : call[w].keys = {k} /\ todo[w] \subseteq {k}
  BY <1>1, <1>3 DEF Owning, SaveOps
<1>5. ASSUME pc[w] \in {"lock", "write", "record"}, k \in todo[w]
      PROVE  /\ k \in DOMAIN txn[w].row /\ txn[w].row[k] \in Row
             /\ k \in DOMAIN txn[w].hist /\ txn[w].hist[k] \in Resource
             /\ Verifies(txn[w].hist[k])
             /\ AsksFor(w, txn[w].hist[k], call[w].val)
             /\ pc[w] = "record" => txn[w].row[k].val = call[w].val
  <2>1. Reconciled(pc[w], txn[w], seen[w], k)
    BY <1>1, <1>3, <1>5 DEF IInv, RestoreHolds, RestoreAt
  <2>2. k \in DOMAIN txn[w].row /\ txn[w].row[k] \in Row
    BY <1>1, <2>1 DEF Reconciled, GoodTxn, TxnTypeOK, Partial, MaybeRow
  <2>3. /\ k \in DOMAIN txn[w].hist /\ txn[w].hist[k] \in Resource
        /\ Verifies(txn[w].hist[k])
    BY <1>1, <2>1 DEF Reconciled, GoodTxn, TxnTypeOK, Partial, MaybeHist, Sound
  <2>4. QED
    BY <1>1, <1>3, <1>4, <1>5, <2>2, <2>3 DEF Asked
<1>6. \A h, x : /\ AsksFor(w, h, x)' <=> AsksFor(w, h, x)
                /\ Fulfils(w, h)' <=> Fulfils(w, h)
  BY DEF AsksFor, Fulfils
<1>7. CASE SaveLoads(w)
  <2>1. pc[w] = "lock" /\ k \in todo[w] /\ txn' = Locked(w, k) /\ Goto(w, "write", {k})
    BY <1>3, <1>4, <1>7 DEF SaveLoads
  <2>2. pc'[w] = "write" /\ call' = call
    BY <1>1, <2>1 DEF Goto, IInv, GoodControl
  <2>3. txn'[w].hist = txn[w].hist
    BY <1>1, <2>1, LockedGood DEF IInv
  <2>4. QED
    BY <1>4, <1>5, <1>6, <2>1, <2>2, <2>3 DEF Asked, RestorePoints
<1>8. CASE SaveUpdates(w)
  <2> DEFINE new == [scope |-> IF call[w].op = "save" THEN call[w].scope
                                                      ELSE VisibleRow(w, k).scope,
                     val |-> call[w].val]
  <2>1. pc[w] = "write" /\ k \in todo[w]
    BY <1>4, <1>8 DEF SaveUpdates
  <2>2. VisibleRow(w, k) \in Row
    BY <1>5, <2>1 DEF VisibleRow
  <2>3. txn' = PutRows(w, [x \in {k} |-> new]) /\ Goto(w, "record", {k})
    BY <1>3, <1>4, <1>8, <2>2, AbsenceAssumption DEF SaveUpdates
  <2>4. pc'[w] = "record" /\ todo'[w] = {k} /\ call' = call
    BY <1>1, <2>3 DEF Goto, IInv, GoodControl
  <2>5. new \in Row /\ new.val = call[w].val
    BY <1>1, <2>2 DEF Row, CallType
  <2> HIDE DEF new
  <2> DEFINE f == [x \in {k} |-> new]
  <2>6. Partial(f, MaybeRow) /\ DOMAIN f = {k} /\ f[k] = new
    BY <2>5 DEF Partial, MaybeRow
  <2> HIDE DEF f
  <2>7. txn'[w].hist = txn[w].hist /\ txn'[w].row[k] = new
    BY <1>1, <2>3, <2>6, PutRowsGood DEF f, IInv
  <2>8. QED
    BY <1>4, <1>5, <1>6, <2>1, <2>4, <2>5, <2>7 DEF Asked, RestorePoints
<1>9. CASE Record(w)
  <2> DEFINE h == txn[w].hist[k]
  <2> DEFINE r == txn[w].row[k]
  <2> DEFINE g == Appended(h, NewEvent(w, h, r, "restore", Before(w, k), Snapshot(r)))
  <2>1. pc[w] = "record" /\ k \in todo[w] /\ todo[w] \ {k} = {}
    BY <1>4, <1>9 DEF Record, RecordOrder, FirstOf
  <2>2. r \in Row /\ h \in Resource /\ Verifies(h)
    BY <1>5, <2>1
  <2>3. VisibleRow(w, k) = r /\ HeadOf(w, k, r) = h
    BY <1>5, <2>1, <2>2, AbsenceAssumption DEF VisibleRow, VisibleHist, HeadOf
  <2>4. AppendEvent(w, k, r, "restore", Before(w, k), Snapshot(r), "record")
    BY <1>3, <1>4, <1>9, <2>3 DEF Record, RecordOrder, FirstOf
  <2>5. txn' = PutHist(w, k, g) /\ Goto(w, "record", {})
    BY <1>3, <2>1, <2>3, <2>4 DEF AppendEvent
  <2>6. pc'[w] = "record" /\ todo'[w] = {} /\ call' = call
    BY <1>1, <2>5 DEF Goto, IInv, GoodControl
  <2>7. /\ g.revision = h.revision + 1
        /\ g.events[g.revision].action = "restore" /\ g.events[g.revision].after = Snapshot(r)
        /\ \A i \in 1..Len(h.events) : g.events[i] = h.events[i]
    <3> HIDE DEF h, r
    <3> QED
      BY <2>2, AppendedLast
  <2>8. Snapshot(r) = call[w].val /\ AsksFor(w, h, call[w].val)
    BY <1>5, <2>1, <2>2, AbsenceAssumption DEF Snapshot
  <2> HIDE DEF g
  <2>9. Fulfils(w, g)
    BY <2>7, <2>8 DEF Fulfils, AsksFor
  <2>10. k \in DOMAIN txn'[w].hist /\ txn'[w].hist[k] = g
    BY <1>1, <2>5 DEF PutHist, Merge, IInv, GoodTxns
  <2>11. QED
    BY <1>4, <1>6, <2>6, <2>9, <2>10 DEF Asked, RestorePoints
<1>10. QED
  BY <1>3, <1>7, <1>8, <1>9

\* The operations of history.py start, and restore() with its goal.
LEMMA HistoryStartAsks ==
  ASSUME HistoryInv, CoverInv, AskInv, NEW w \in Worker, HistoryStart(w)
  PROVE  AskInv'
<1>1. IInv(HistoryPoints) /\ Owning(w) /\ KnownKeys(w) \subseteq Key /\ DOMAIN call = Worker
  BY DEF HistoryInv, AskInv, KnownKeys, IInv, GoodControl
<1>2. CASE BeginVerify(w) \/ BeginBackfill(w)
  <2>1. \E c, work : \E next \in {"v_find", "b_load"} :
          Begin(w, c, next, work) /\ c.op \in {"verify", "backfill"}
    <3>1. CASE BeginVerify(w)
      BY <3>1 DEF BeginVerify
    <3>2. CASE BeginBackfill(w)
      BY <3>2 DEF BeginBackfill
    <3>3. QED
      BY <1>2, <3>1, <3>2
  <2>2. PICK c, work : \E next \in {"v_find", "b_load"} :
          Begin(w, c, next, work) /\ c.op \in {"verify", "backfill"}
    BY <2>1
  <2>3. PICK next \in {"v_find", "b_load"} :
          Begin(w, c, next, work) /\ c.op \in {"verify", "backfill"}
    BY <2>2
  <2>4. Local(w) /\ Owning(w)'
    BY <1>1, <2>3, BeginLocal, BeginOwns DEF SaveOps
  <2>5. call'[w].op # "restore"
    BY <1>1, <2>3 DEF Begin
  <2>6. goal' = goal
    BY <1>2 DEF BeginVerify, BeginBackfill
  <2>7. QED
    BY <2>4, <2>5, <2>6, AskKeeps DEF Asked
<1>3. CASE BeginRestore(w)
  <2>1. PICK k \in KnownKeys(w), target \in 1..MaxCalls, expected \in 1..MaxCalls :
          /\ Begin(w, [op |-> "restore", keys |-> {k}, scope |-> CtxScope[w],
                       val |-> NoCall.val], "r_load", {k})
          /\ goal' = [goal EXCEPT ![w] = [target |-> target, expected |-> expected]]
    BY <1>3 DEF BeginRestore
  <2>2. Local(w) /\ Owning(w)'
    BY <1>1, <2>1, BeginLocal, BeginOwns
  <2>3. pc'[w] = "r_load"
    BY <1>1, <2>1 DEF Begin, IInv, GoodControl
  <2>4. Asked(w)'
    BY <2>3 DEF Asked, RestorePoints
  <2>5. \A v \in Worker \ {w} : goal'[v] = goal[v]
    BY <2>1 DEF HistoryInv
  <2>6. QED
    BY <2>2, <2>4, <2>5, AskKeeps
<1>4. QED
  BY <1>2, <1>3 DEF HistoryStart

\* A worker that is at none of restore()'s points is in no restore().
LEMMA NotAsked ==
  ASSUME HistoryInv, CoverInv, AskInv, NEW w \in Worker, Local(w), Owning(w)',
         pc[w] \notin RestorePoints, call'[w].op = "restore" => call'[w].op = call[w].op,
         goal' = goal
  PROVE  AskInv'
<1>1. call[w].op # "restore"
  BY DEF AskInv, Asked
<1>2. Asked(w)'
  BY <1>1 DEF Asked
<1>3. QED
  BY <1>2, AskKeeps

\* verify_history() takes the head that is there.
LEMMA VerifyAsks ==
  ASSUME HistoryInv, CoverInv, AskInv, NEW w \in Worker,
         VerifyFinds(w) \/ VerifyLocks(w) \/ VerifyReads(w)
  PROVE  AskInv'
<1>1. /\ IInv(HistoryPoints) /\ Owning(w) /\ DOMAIN txn = Worker /\ DOMAIN seen = Worker
      /\ goal' = goal /\ pc[w] \notin RestorePoints /\ OwnedHeads(hist, txn[w])
  BY DEF HistoryInv, AskInv, IInv, GoodControl, GoodTxns, VerifyFinds, VerifyLocks, VerifyReads,
         RestorePoints, Owning
<1>2. CASE Raise(w)
  BY <1>1, <1>2, RaiseAsks
<1>3. ASSUME NEW next \in {"record", "v_lock", "v_read"}, NEW work \in SUBSET todo[w],
             next = "record" => work = {}, Goto(w, next, work), seen' = seen,
             OwnedHeads(hist, txn'[w]), \A v \in Worker \ {w} : txn'[v] = txn[v]
      PROVE  AskInv'
  <2>1. call[w].op \in SaveOps => work \subseteq call[w].keys
    BY <1>1 DEF Owning
  <2>2. Owning(w)'
    BY <1>1, <1>3, <2>1, GotoOwns
  <2>3. Local(w) /\ call' = call
    BY <1>1, <1>3, GotoLocal DEF Goto
  <2>4. QED
    BY <1>1, <2>2, <2>3, NotAsked
<1>4. CASE VerifyFinds(w) /\ ~Raise(w)
  <2>1. PICK k \in todo[w] :
          /\ Goto(w, "record", {}) \/ Goto(w, "v_lock", {k})
          /\ txn' = txn /\ seen' = seen
    BY <1>4 DEF VerifyFinds
  <2>2. QED
    BY <1>1, <1>3, <2>1
<1>5. CASE VerifyLocks(w)
  <2>1. PICK k \in todo[w] : txn' = PutHist(w, k, VisibleHist(w, k)) /\ Goto(w, "v_read", {k})
    BY <1>5 DEF VerifyLocks
  <2>2. seen' = seen
    BY <1>5 DEF VerifyLocks
  <2>3. /\ txn'[w].row = txn[w].row /\ DOMAIN txn'[w].hist = DOMAIN txn[w].hist \union {k}
        /\ \A x \in DOMAIN txn[w].hist \ {k} : txn'[w].hist[x] = txn[w].hist[x]
        /\ txn'[w].hist[k] = VisibleHist(w, k)
        /\ \A v \in Worker \ {w} : txn'[v] = txn[v]
    BY <1>1, <2>1 DEF PutHist, Merge
  <2>4. OwnedHeads(hist, txn'[w])
    BY <1>1, <2>3 DEF OwnedHeads, VisibleHist
  <2>5. QED
    BY <1>3, <2>1, <2>2, <2>3, <2>4
<1>6. CASE VerifyReads(w)
  <2>1. Goto(w, "record", {}) /\ txn' = txn /\ seen' = seen
    BY <1>6 DEF VerifyReads
  <2>2. QED
    BY <1>1, <1>3, <2>1
<1>7. QED
  BY <1>2, <1>4, <1>5, <1>6

\* backfill() appends about the row it has locked.
LEMMA BackfillAsks ==
  ASSUME HistoryInv, CoverInv, AskInv, NEW w \in Worker,
         BackfillLoads(w) \/ BackfillChecks(w) \/ BackfillCommits(w) \/ BackfillReturns(w)
  PROVE  AskInv'
<1>1. /\ IInv(HistoryPoints) /\ Owning(w) /\ DOMAIN txn = Worker /\ DOMAIN seen = Worker
      /\ goal' = goal /\ pc[w] \notin RestorePoints /\ OwnedHeads(hist, txn[w])
      /\ todo[w] \in SUBSET Key /\ DOMAIN pc = Worker /\ DOMAIN call = Worker
  BY DEF HistoryInv, AskInv, IInv, GoodControl, GoodTxns, BackfillLoads, BackfillChecks,
         BackfillCommits, BackfillReturns, RestorePoints, Owning
<1>2. CASE Raise(w)
  BY <1>1, <1>2, RaiseAsks
<1>3. call[w].op \in SaveOps => \A work \in SUBSET todo[w] : work \subseteq call[w].keys
  BY <1>1 DEF Owning
<1>4. CASE BackfillLoads(w) /\ ~Raise(w)
  <2>1. PICK k \in FirstOf(todo[w]) :
          \/ Goto(w, "b_load", todo[w] \ {k}) /\ txn' = txn /\ seen' = seen
          \/ Goto(w, "b_check", todo[w]) /\ txn' = Locked(w, k) /\ seen' = seen
    BY <1>4 DEF BackfillLoads
  <2>2. k \in Key
    BY <1>1 DEF FirstOf
  <2>3. CASE Goto(w, "b_load", todo[w] \ {k}) /\ txn' = txn /\ seen' = seen
    <3>1. Owning(w)' /\ Local(w) /\ call' = call
      BY <1>1, <1>3, <2>3, GotoOwns, GotoLocal DEF Goto
    <3>2. QED
      BY <1>1, <3>1, NotAsked
  <2>4. CASE Goto(w, "b_check", todo[w]) /\ txn' = Locked(w, k) /\ seen' = seen
    <3>1. OwnedHeads(hist, txn'[w]) /\ \A v \in Worker \ {w} : txn'[v] = txn[v]
      BY <1>1, <2>2, <2>4, RowsOwned, LockedGood DEF IInv
    <3>2. Owning(w)' /\ Local(w) /\ call' = call
      BY <1>1, <1>3, <2>4, <3>1, GotoOwns, GotoLocal DEF Goto
    <3>3. QED
      BY <1>1, <3>2, NotAsked
  <2>5. QED
    BY <2>1, <2>3, <2>4
<1>5. CASE BackfillChecks(w) /\ ~Raise(w)
  <2>1. PICK k \in FirstOf(todo[w]) :
          \/ Goto(w, "b_commit", todo[w] \ {k}) /\ txn' = txn /\ seen' = seen
          \/ AppendEvent(w, k, VisibleRow(w, k), "baseline", Null, Snapshot(VisibleRow(w, k)),
                         "b_commit")
    BY <1>5 DEF BackfillChecks
  <2>2. pc[w] = "b_check" /\ k \in Key
    BY <1>1, <1>5 DEF BackfillChecks, FirstOf
  <2>3. k \in DOMAIN txn[w].row
    BY <1>1, <2>2 DEF IInv, Holds, Held, HoldsRow
  <2>4. CASE Goto(w, "b_commit", todo[w] \ {k}) /\ txn' = txn /\ seen' = seen
    <3>1. Owning(w)' /\ Local(w) /\ call' = call
      BY <1>1, <1>3, <2>4, GotoOwns, GotoLocal DEF Goto
    <3>2. QED
      BY <1>1, <3>1, NotAsked
  <2>5. CASE AppendEvent(w, k, VisibleRow(w, k), "baseline", Null, Snapshot(VisibleRow(w, k)),
                         "b_commit")
    <3>1. Owning(w)' /\ Local(w)
      BY <1>1, <2>2, <2>3, <2>5, AppendOwns, AppendLocal
    <3>2. call' = call
      BY <1>5, <2>5 DEF AppendEvent, Goto
    <3>3. QED
      BY <1>1, <3>1, <3>2, NotAsked
  <2>6. QED
    BY <2>1, <2>4, <2>5
<1>6. CASE BackfillCommits(w)
  <2>1. /\ Commit(w) /\ pc[w] = "b_commit" /\ pc' = [pc EXCEPT ![w] = "b_load"]
        /\ mark' = mark /\ call' = call /\ todo' = todo /\ seen' = seen /\ block' = block
    BY <1>6 DEF BackfillCommits
  <2>2. mark[w] = NoLocks
    BY <2>1 DEF CoverInv, ScopeInv, Underway, Orderly, Session, BackfillPoints
  <2>3. txn'[w] = NoLocks /\ pc'[w] = "b_load" /\ \A v \in Worker \ {w} : txn'[v] = txn[v]
    BY <1>1, <2>1 DEF Commit
  <2>4. Owning(w)'
    BY <1>1, <2>1, <2>2, <2>3, NothingOwned DEF Owning
  <2>5. Local(w)
    BY <1>1, <2>1, <2>3 DEF Local
  <2>6. QED
    BY <1>1, <2>1, <2>4, <2>5, NotAsked
<1>7. CASE BackfillReturns(w)
  <2>1. Ends(w) /\ row' = row /\ hist' = hist /\ txn' = txn
    BY <1>7 DEF BackfillReturns
  <2>2. Owning(w)' /\ Local(w)
    BY <1>1, <2>1, EndsOwns, EndsLocal
  <2>3. call'[w].op # "restore"
    BY <1>1, <2>1 DEF Ends, NoCall
  <2>4. QED
    BY <1>1, <2>2, <2>3, NotAsked
<1>8. QED
  BY <1>2, <1>4, <1>5, <1>6, <1>7

\* restore() on the way to its save().
LEMMA RestoreAsks ==
  ASSUME HistoryInv, CoverInv, AskInv, NEW w \in Worker,
         RestoreLoads(w) \/ RestoreReads(w) \/ RestoreVerifies(w)
  PROVE  AskInv'
<1>1. /\ IInv(HistoryPoints) /\ Owning(w) /\ Asked(w) /\ DOMAIN txn = Worker /\ DOMAIN seen = Worker
      /\ goal' = goal /\ pc[w] \in {"r_load", "r_head", "r_verify"} /\ OwnedHeads(hist, txn[w])
      /\ todo[w] \in SUBSET Key /\ DOMAIN pc = Worker /\ DOMAIN call = Worker
      /\ call[w] \in CallType
  BY DEF HistoryInv, AskInv, IInv, GoodControl, GoodTxns, RestoreLoads, RestoreReads,
         RestoreVerifies, Owning
<1>2. call[w].op = "restore"
  BY <1>1 DEF CoverInv, Underway
<1>3. PICK k \in Key : call[w].keys = {k} /\ todo[w] \subseteq {k}
  BY <1>1, <1>2 DEF Owning, SaveOps
<1>4. CASE Raise(w)
  BY <1>1, <1>4, RaiseAsks
<1>5. CASE RestoreLoads(w) /\ ~Raise(w)
  <2>1. Goto(w, "r_head", {k}) /\ txn' = Locked(w, k) /\ seen' = seen
    BY <1>3, <1>5 DEF RestoreLoads
  <2>2. OwnedHeads(hist, txn'[w]) /\ \A v \in Worker \ {w} : txn'[v] = txn[v]
    BY <1>1, <2>1, RowsOwned, LockedGood DEF IInv
  <2>3. Owning(w)' /\ Local(w) /\ pc'[w] = "r_head"
    BY <1>1, <1>3, <2>1, <2>2, GotoOwns, GotoLocal
  <2>4. Asked(w)'
    BY <2>3 DEF Asked, RestorePoints
  <2>5. QED
    BY <1>1, <2>3, <2>4, AskKeeps
<1>6. CASE RestoreReads(w) /\ ~Raise(w)
  <2>1. /\ Goto(w, "r_verify", {k}) /\ txn' = txn /\ seen' = seen
        /\ VisibleHist(w, k).revision = goal[w].expected
    BY <1>3, <1>6 DEF RestoreReads, AsExpected
  <2>2. Owning(w)' /\ Local(w) /\ pc'[w] = "r_verify"
    BY <1>1, <1>3, <2>1, GotoOwns, GotoLocal
  <2>3. VisibleHist(w, k)' = VisibleHist(w, k) /\ call' = call
    BY <2>1 DEF Goto, VisibleHist
  <2>4. Asked(w)'
    BY <1>1, <1>3, <2>1, <2>2, <2>3 DEF Asked, RestorePoints
  <2>5. QED
    BY <1>1, <2>2, <2>4, AskKeeps
<1>7. CASE RestoreVerifies(w) /\ ~Raise(w)
  <2> DEFINE h == VisibleHist(w, k)
  <2> DEFINE t == goal[w].target
  <2>1. /\ pc[w] = "r_verify" /\ k \in todo[w]
        /\ t \in DOMAIN h.events /\ txn' = PutHist(w, k, h)
        /\ call' = [call EXCEPT ![w].scope = VisibleRow(w, k).scope,
                                ![w].val = h.events[t].after]
        /\ pc' = [pc EXCEPT ![w] = "lock"]
        /\ row' = row /\ hist' = hist /\ mark' = mark /\ todo' = todo /\ seen' = seen
        /\ block' = block
    BY <1>3, <1>7 DEF RestoreVerifies
  <2>2. k \in DOMAIN txn[w].row
    BY <1>1, <2>1 DEF IInv, Holds, Held, HoldsRow
  <2>3. h \in Resource /\ h.revision = goal[w].expected
    <3>1. h # Null /\ h \in MaybeHist
      BY <1>1, <2>1, VisibleTyped DEF HistoryInv, HistoryAt, IInv
    <3>2. QED
      BY <1>1, <1>2, <1>3, <2>1, <3>1 DEF Asked, MaybeHist
  <2>4. t \in 1..Len(h.events)
    BY <2>1, <2>3 DEF Resource
  <2> HIDE DEF h
  <2>5. /\ txn'[w].row = txn[w].row /\ DOMAIN txn'[w].hist = DOMAIN txn[w].hist \union {k}
        /\ \A x \in DOMAIN txn[w].hist \ {k} : txn'[w].hist[x] = txn[w].hist[x]
        /\ txn'[w].hist[k] = h
        /\ \A v \in Worker \ {w} : txn'[v] = txn[v]
    BY <1>1, <2>1 DEF PutHist, Merge
  <2>6. /\ call'[w].op = "restore" /\ call'[w].keys = {k} /\ call'[w].val = h.events[t].after
        /\ \A v \in Worker \ {w} : call'[v] = call[v]
    BY <1>1, <1>2, <1>3, <2>1 DEF CallType
  <2>7. pc'[w] = "lock" /\ \A v \in Worker \ {w} : pc'[v] = pc[v]
    BY <1>1, <2>1
  <2>8. Local(w)
    BY <2>1, <2>5, <2>6, <2>7 DEF Local
  <2>9. Owning(w)'
    <3>1. OwnedHeads(hist, txn'[w]) /\ OwnedHeads(hist, mark[w]) /\ "restore" \in Ops
      BY <1>1, <1>2, <2>2, <2>5 DEF OwnedHeads, Owning
    <3>2. QED
      BY <1>3, <2>1, <2>6, <2>7, <3>1 DEF Owning
  <2>10. AsksFor(w, h, h.events[t].after) /\ \A g, x : AsksFor(w, g, x)' <=> AsksFor(w, g, x)
    BY <1>1, <2>3, <2>4 DEF AsksFor
  <2>11. Asked(w)'
    BY <2>5, <2>6, <2>7, <2>10 DEF Asked, RestorePoints
  <2>12. QED
    BY <1>1, <2>8, <2>9, <2>11, AskKeeps
<1>8. QED
  BY <1>4, <1>5, <1>6, <1>7

\* The initial states satisfy the invariant, and every step keeps it where the
\* application does not use bulk_update().
LEMMA AskAlways ==
  /\ HistoryInit => AskInv
  /\ "bulk_update" \notin Ops /\ HistoryInv /\ CoverInv /\ AskInv /\ [HistoryNext]_historyVars
       => AskInv'
<1>1. HistoryInit => AskInv
  <2> SUFFICES ASSUME HistoryInit, NEW w \in Worker PROVE Owning(w) /\ Asked(w)
    BY DEF AskInv
  <2>1. Init /\ call[w].op = "none"
    BY DEF HistoryInit, Init, NoCall
  <2>2. QED
    BY <2>1, InitOwns DEF Asked
<1>2. ASSUME AskInv, hist' = hist, txn' = txn, mark' = mark, pc' = pc, call' = call,
             todo' = todo, seen' = seen, goal' = goal
      PROVE  AskInv'
  <2> SUFFICES ASSUME NEW w \in Worker PROVE Owning(w)' /\ Asked(w)'
    BY DEF AskInv
  <2>1. Owning(w) /\ Asked(w)
    BY <1>2 DEF AskInv
  <2>2. \A h, x : /\ AsksFor(w, h, x)' <=> AsksFor(w, h, x)
                  /\ Fulfils(w, h)' <=> Fulfils(w, h)
    BY <1>2 DEF AsksFor, Fulfils
  <2>3. \A k : VisibleHist(w, k)' = VisibleHist(w, k)
    BY <1>2 DEF VisibleHist
  <2>4. Asked(w)'
    BY <1>2, <2>1, <2>2, <2>3 DEF Asked
  <2>5. QED
    BY <1>2, <2>1, <2>4 DEF Owning
<1>3. ASSUME "bulk_update" \notin Ops, HistoryInv, CoverInv, AskInv, HistoryNext PROVE AskInv'
  <2>1. CASE Next /\ goal' = goal /\ peek' = peek /\ verdict' = verdict
    <3>1. CASE Done
      BY <1>2, <1>3, <2>1, <3>1 DEF Done, vars
    <3>2. QED
      BY <1>3, <2>1, <3>1, WriteAsks DEF Next
  <2>2. ASSUME NEW w \in Worker, HistoryStart(w) \/ HistoryStep(w) PROVE AskInv'
    BY <1>3, <2>2, HistoryStartAsks, VerifyAsks, BackfillAsks, RestoreAsks DEF HistoryStep
  <2>3. CASE DriftWrite
    BY <1>2, <1>3, <2>3 DEF DriftWrite
  <2>4. QED
    BY <1>3, <2>1, <2>2, <2>3 DEF HistoryNext
<1>4. QED
  BY <1>1, <1>2, <1>3 DEF historyVars, vars

\* A restore() that succeeds is the event right after the revision its caller
\* expected and leaves the values of the revision it named, whatever is written
\* between its unlocked reading of the head and the locking of it: the row's lock
\* keeps every other append out.  Only bulk_update() appends events about rows
\* it has not locked, and with it the promise does not hold.
THEOREM RestoresAsTold ==
  ASSUME "bulk_update" \notin Ops PROVE HistorySpec => []RestoresAsAsked
<1>1. HistoryInv /\ CoverInv /\ AskInv => RestoresAsAsked
  <2> SUFFICES ASSUME HistoryInv, CoverInv, AskInv, NEW w \in Worker, NEW k \in call[w].keys,
                      call[w].op = "restore", pc[w] = "record", todo[w] = {}
               PROVE  Fulfils(w, VisibleHist(w, k))
    BY DEF RestoresAsAsked, Fulfils
  <2>1. k \in DOMAIN txn[w].hist /\ Fulfils(w, txn[w].hist[k])
    BY DEF AskInv, Asked
  <2>2. QED
    BY <2>1 DEF VisibleHist
<1>2. HistoryInv /\ CoverInv /\ AskInv /\ [HistoryNext]_historyVars => AskInv'
  BY AskAlways
<1>3. QED
  BY <1>1, <1>2, HistoryInitInv, HistoryNextInv, CoverAlways, AskAlways, PTL DEF HistorySpec

-----------------------------------------------------------------------------
(* The promise of AuditedStore.                                            *)

\* Primary keys come from the sequence, and the application either deletes no
\* rows or saves no instances whose row may be gone.  With either, a key can be
\* re-used, and the runs writes_revival and delete_race show what happens then.
NoReuse == ~OwnKeys /\ ("delete" \notin Ops \/ "save" \notin Ops)

-----------------------------------------------------------------------------
(* The inductive invariant.  Of one key k: r and h are its committed row and *)
(* history, t and m the transaction of a worker w and its savepoint.        *)

\* The history g says what became of the row r with history h: its events are
\* those of h and then events of w that start from r and leave no gap.
Accounts(w, r, h, g) ==
  LET n == Len(Events(h)) IN
  /\ n <= Len(g.events)
  /\ \A i \in 1..n : g.events[i] = Events(h)[i]
  /\ \A i \in (n + 1)..Len(g.events) :
       LET prior == IF i = n + 1 THEN Snapshot(r) ELSE g.events[i - 1].after IN
       /\ g.events[i].actor = w
       /\ IF g.events[i].action = "baseline"
          THEN i = 1 /\ g.events[i].before = Null /\ g.events[i].after = prior
          ELSE g.events[i].before = prior
  /\ n < Len(g.events) /\ r # Null => r.scope = g.scope

\* The transaction has appended events about k; what the last of them says.
Written(h, t, k) == k \in DOMAIN t.hist /\ Len(Events(h)) < Len(t.hist[k].events)

Saying(r, h, t, k) ==
  IF Written(h, t, k) THEN t.hist[k].events[Len(t.hist[k].events)].after ELSE Snapshot(r)

\* The history t owns has events and accounts for what w did, and a row it puts
\* where there is none is the first of its key.
Honest(w, r, h, t, k) ==
  /\ k \in DOMAIN t.hist => t.hist[k].events # <<>> /\ Accounts(w, r, h, t.hist[k])
  /\ k \in DOMAIN t.row /\ t.row[k] # Null /\ r = Null => h = Null

\* The row t owns is what its events say; without events it is the committed one.
Clean(r, h, t, k) ==
  k \in DOMAIN t.row =>
    /\ Snapshot(t.row[k]) = Saying(r, h, t, k)
    /\ ~Written(h, t, k) => t.row[k] = r

\* Deleted for good.
Gone(r, h) == r = Null /\ h # Null

\* The row is owned and there, with the value v.
Owns(t, k, v) == k \in DOMAIN t.row /\ t.row[k] # Null /\ t.row[k].val = v

\* The snapshot an operation has of k.
Seen(s, k) == IF k \in DOMAIN s THEN s[k] ELSE Null

Creates == {"create", "bulk_create"}

\* The keys whose rows are ahead of their events or, in delete(), behind them.
Pending(p, c, K) ==
  IF p = "insert" THEN c.keys \ K
  ELSE IF p = "record" THEN K
  ELSE IF p \in {"lock", "delete"} /\ c.op = "delete" THEN c.keys \ K
  ELSE {}

\* An instance the application passes is of a key that is, or was, in use.
Named(c, m, r, h, k) ==
  c.op \in {"save", "save_fields", "delete", "bulk_update"} /\ k \in c.keys =>
    k \in DOMAIN m.row \/ r # Null \/ h # Null

\* delete() has recorded the deletion of k, or found no row to delete.
Passed(r, h, t, k) ==
  IF k \in DOMAIN t.row
  THEN Saying(r, h, t, k) = Null /\ (Written(h, t, k) \/ (t.row[k] = Null /\ r = Null))
  ELSE Gone(r, h)

\* What an operation knows of k where it is.
Midway(p, c, K, s, t, r, h, k) ==
  /\ p = "delete" /\ k \in K => c.op = "delete"
  /\ p \in {"lock", "delete"} /\ c.op = "delete" =>
       /\ k \in K => k \in c.keys
       /\ k \in c.keys \ K => Passed(r, h, t, k)
  /\ p = "lock" /\ c.op = "bulk_update" /\ k \in c.keys \ K =>
       k \in DOMAIN t.row \/ Gone(r, h)
  /\ (p = "lock" /\ c.op = "update") \/ (p = "write" /\ c.op = "bulk_update") =>
       (k \in DOMAIN s => Owns(t, k, s[k]))
  /\ p = "write" /\ c.op \in SaveOps /\ k \in K =>
       \/ Owns(t, k, Seen(s, k)) /\ t.row[k].scope = c.scope
       \/ c.op # "save" /\ IF k \in DOMAIN t.row THEN t.row[k] = Null ELSE Gone(r, h)
  /\ p = "insert" /\ k \in c.keys =>
       /\ c.op \in Creates /\ Seen(s, k) = Null
       /\ k \notin K => r = Null /\ h = Null /\ k \notin DOMAIN t.hist
  /\ p = "record" /\ k \in K =>
       /\ Seen(s, k) = Saying(r, h, t, k)
       /\ ~Written(h, t, k) /\ r # Null => t.row[k].scope = r.scope

\* What the transaction of w has to say about k.
Entry(w, k) ==
  /\ Honest(w, row[k], hist[k], txn[w], k)
  /\ Honest(w, row[k], hist[k], mark[w], k) /\ Clean(row[k], hist[k], mark[w], k)
  /\ k \notin Pending(pc[w], call[w], todo[w]) => Clean(row[k], hist[k], txn[w], k)
  /\ Named(call[w], mark[w], row[k], hist[k], k)
  /\ Midway(pc[w], call[w], todo[w], seen[w], txn[w], row[k], hist[k], k)

\* Keys drawn from the sequence for rows that are still to be inserted.
Allotted(p, c, K) == IF c.op \in Creates /\ p \in {"lock", "insert"} THEN K ELSE {}

AllottedTo(w) == Allotted(pc[w], call[w], todo[w])

\* Nobody has anything under the key k.
Fresh(k) ==
  row[k] = Null /\ hist[k] = Null /\ \A v \in Worker : k \notin DOMAIN txn[v].row

\* What the sequence has still to give, and what it gave, is fresh, and it gives
\* no key twice.
FreshInv ==
  /\ \A k \in unused : Fresh(k)
  /\ \A w \in Worker : \A k \in AllottedTo(w) : Fresh(k) /\ k \notin unused
  /\ \A w \in Worker : \A v \in Worker \ {w} : AllottedTo(w) \cap AllottedTo(v) = {}

\* Where instances are saved no row is ever deleted.
LiveTxn(t) == \A k \in DOMAIN t.row : t.row[k] # Null

LiveRows ==
  "save" \in Ops =>
    /\ \A k \in Key : hist[k] # Null => row[k] # Null
    /\ \A w \in Worker : LiveTxn(txn[w]) /\ LiveTxn(mark[w])

\* Each worker owns the rows its events are about.
Ledgers == \A w \in Worker : Owning(w) /\ \A k \in Key : Entry(w, k)

\* A head is not committed without its first event.
Opened == \A k \in Key : hist[k] # Null => hist[k].events # <<>>

PromiseInv == FreshInv /\ LiveRows /\ Opened /\ Ledgers

-----------------------------------------------------------------------------
(* What a commit does, as a step of AuditedStore. *)

\* A transaction that has not written about k changes nothing of k.
LEMMA UnwrittenKeeps ==
  ASSUME NEW P, IInv(P), NEW w \in Worker, NEW k \in Key, NEW t, GoodTxn(t),
         Honest(w, row[k], hist[k], t, k), Clean(row[k], hist[k], t, k), ~Written(hist[k], t, k)
  PROVE  /\ k \in DOMAIN t.row => t.row[k] = row[k]
         /\ k \in DOMAIN t.hist => Events(t.hist[k]) = Events(hist[k])
<1>1. k \in DOMAIN t.row => t.row[k] = row[k]
  BY DEF Clean
<1>2. ASSUME k \in DOMAIN t.hist PROVE Events(t.hist[k]) = Events(hist[k])
  <2> DEFINE g == t.hist[k]
  <2>1. g \in Resource /\ g # Null
    BY <1>2 DEF GoodTxn, TxnTypeOK, Partial, MaybeHist
  <2>2. g.events \in Seq(Event) /\ Events(g) = g.events
    BY <2>1 DEF Resource, Events
  <2>3. hist[k] \in MaybeHist
    BY DEF IInv, GoodTables
  <2>4. Events(hist[k]) \in Seq(Event)
    BY <2>3 DEF Events, MaybeHist, Resource
  <2> HIDE DEF g
  <2>5. /\ Len(g.events) = Len(Events(hist[k]))
        /\ \A i \in 1..Len(Events(hist[k])) : g.events[i] = Events(hist[k])[i]
    BY <1>2, <2>2, <2>4 DEF Honest, Accounts, Written, g
  <2>6. g.events = Events(hist[k])
    BY <2>2, <2>4, <2>5
  <2>7. QED
    BY <2>2, <2>6 DEF g
<1>3. QED
  BY <1>1, <1>2

\* The events a transaction appended lead from the row before the commit to the
\* row after it, in the scope of the history.
LEMMA WrittenAccounted ==
  ASSUME NEW P, IInv(P), NEW w \in Worker, NEW k \in Key,
         Honest(w, row[k], hist[k], txn[w], k), Clean(row[k], hist[k], txn[w], k),
         Settled(row, txn[w], k), OwnedHeads(hist, txn[w]), Written(hist[k], txn[w], k),
         row'[k] = VisibleRow(w, k), hist'[k] = VisibleHist(w, k)
  PROVE  /\ Promise!Write(k, txn[w].hist[k].scope)
         /\ Mode = "enforce" => txn[w].hist[k].scope = CtxScope[w]
<1> DEFINE g == txn[w].hist[k]
<1> DEFINE old == Events(hist[k])
<1> DEFINE new == g.events
<1> DEFINE n == Len(old)
<1> DEFINE added == SubSeq(new, n + 1, Len(new))
<1>1. k \in DOMAIN txn[w].hist /\ n < Len(new)
  BY DEF Written
<1>2. g \in Resource /\ g # Null /\ Verifies(g) /\ Signed(g)
  BY <1>1 DEF IInv, GoodTxns, GoodTxn, TxnTypeOK, Partial, MaybeHist, Sound
<1>3. new \in Seq(Event) /\ Events(g) = new /\ g.scope \in Scope
  BY <1>2 DEF Resource, Events
<1>4. old \in Seq(Event)
  <2>1. hist[k] \in MaybeHist
    BY DEF IInv, GoodTables
  <2>2. QED
    BY <2>1 DEF Events, MaybeHist, Resource
<1>5. Accounts(w, row[k], hist[k], g)
  BY <1>1 DEF Honest
<1>6. k \in DOMAIN txn[w].row
  <2>1. k \in DOMAIN txn[w].row \/ g = hist[k]
    BY <1>1 DEF OwnedHeads
  <2>2. g # hist[k]
    BY <1>1, <1>3, <1>4
  <2>3. QED
    BY <2>1, <2>2
<1>7. row'[k] = txn[w].row[k] /\ hist'[k] = g
  BY <1>1, <1>6 DEF VisibleRow, VisibleHist
<1>8. /\ \A i \in 1..n : new[i] = old[i]
      /\ \A i \in (n + 1)..Len(new) :
           LET prior == IF i = n + 1 THEN Snapshot(row[k]) ELSE new[i - 1].after IN
           /\ new[i].actor = w
           /\ IF new[i].action = "baseline"
              THEN i = 1 /\ new[i].before = Null /\ new[i].after = prior
              ELSE new[i].before = prior
      /\ row[k] # Null => row[k].scope = g.scope
  BY <1>1, <1>5 DEF Accounts
<1>9. \A i \in 1..Len(new) : new[i].scope = g.scope
  BY <1>2 DEF Verifies
<1>10. Snapshot(row'[k]) = new[Len(new)].after
  BY <1>1, <1>6, <1>7 DEF Clean, Saying
<1>11. row'[k] # Null => row'[k].scope = g.scope
  BY <1>1, <1>6, <1>7 DEF Settled
<1>12. \A r : Promise!Image(r) = Snapshot(r)
  BY DEF Promise!Image, Snapshot
<1> HIDE DEF g, old, new
<1>13. n \in Nat /\ Len(new) \in Nat
  BY <1>3, <1>4
<1>14. /\ added \in Seq(Event) /\ Len(added) = Len(new) - n
       /\ \A i \in 1..(Len(new) - n) : added[i] = new[n + i]
  BY <1>1, <1>3, <1>13
<1>15. Promise!IsPrefix(old, new)
  <2>1. SubSeq(old, 1, n) = SubSeq(new, 1, n)
    BY <1>1, <1>3, <1>4, <1>8, <1>13
  <2>2. QED
    BY <1>1, <2>1 DEF Promise!IsPrefix
<1> HIDE DEF added, n
<1> DEFINE log == [x \in Key |-> Events(hist[x])]
<1>16. ASSUME NEW i \in DOMAIN added
       PROVE  LET prior == IF i = 1 THEN Promise!Image(row[k]) ELSE added[i - 1].after IN
              /\ added[i].scope = g.scope
              /\ IF added[i].action = "baseline"
                 THEN n + i = 1 /\ added[i].before = Null /\ added[i].after = prior
                 ELSE added[i].before = prior
  <2>1. i \in 1..(Len(new) - n) /\ n + i \in (n + 1)..Len(new) /\ n + i \in 1..Len(new)
    BY <1>13, <1>14
  <2>2. added[i] = new[n + i]
    BY <1>14, <2>1
  <2>3. i # 1 => added[i - 1] = new[n + i - 1]
    <3> SUFFICES ASSUME i # 1 PROVE added[i - 1] = new[n + i - 1]
      OBVIOUS
    <3>1. i - 1 \in 1..(Len(new) - n) /\ n + (i - 1) = n + i - 1
      BY <1>13, <2>1
    <3>2. QED
      BY <1>14, <3>1
  <2>4. n + i = n + 1 <=> i = 1
    BY <1>13, <2>1
  <2>5. LET prior == IF n + i = n + 1 THEN Snapshot(row[k]) ELSE new[n + i - 1].after IN
        IF new[n + i].action = "baseline"
        THEN n + i = 1 /\ new[n + i].before = Null /\ new[n + i].after = prior
        ELSE new[n + i].before = prior
    BY <1>8, <2>1 DEF n
  <2>6. new[n + i].scope = g.scope
    BY <1>9, <2>1
  <2>7. CASE i = 1
    BY <1>12, <2>2, <2>4, <2>5, <2>6, <2>7
  <2>8. CASE i # 1
    BY <2>2, <2>3, <2>4, <2>5, <2>6, <2>8
  <2>9. QED
    BY <2>7, <2>8
<1>17. added[Len(added)] = new[Len(new)]
  BY <1>1, <1>13, <1>14 DEF n
<1>18. Promise!Write(k, g.scope)
  <2>1. Events(hist'[k]) = new /\ Events(hist[k]) = old
    BY <1>3, <1>7 DEF old
  <2>2. Promise!Accounted(k, g.scope, added)
    BY <1>8, <1>10, <1>11, <1>12, <1>16, <1>17, <2>1 DEF Promise!Accounted, Promise!Last, n
  <2>3. QED
    BY <1>1, <1>15, <2>1, <2>2 DEF Promise!Write, added, n
<1>19. ASSUME Mode = "enforce" PROVE g.scope = CtxScope[w]
  <2>1. Len(new) \in (n + 1)..Len(new) /\ Len(new) \in 1..Len(new)
    BY <1>1, <1>13 DEF n
  <2>2. new[Len(new)].actor = w /\ new[Len(new)].scope = g.scope
    BY <1>8, <1>9, <2>1
  <2>3. CtxScope[new[Len(new)].actor] = new[Len(new)].scope
    BY <1>2, <1>19, <2>1 DEF Signed, new
  <2>4. QED
    BY <2>2, <2>3
<1>20. QED
  BY <1>18, <1>19 DEF g

\* A commit with every row clean is a step of AuditedStore.
LEMMA CommitKeepsPromise ==
  ASSUME NEW P, IInv(P), NEW w \in Worker, Commit(w), OwnedHeads(hist, txn[w]),
         \A k \in Key : /\ Honest(w, row[k], hist[k], txn[w], k)
                        /\ Clean(row[k], hist[k], txn[w], k) /\ Settled(row, txn[w], k)
  PROVE  /\ Mode = "enforce" => Promise!Transaction(CtxScope[w])
         /\ \A k \in Key : (\E s \in Scope : Promise!Write(k, s)) \/ Promise!Keep(k)
<1> SUFFICES ASSUME NEW k \in Key
             PROVE  \/ /\ \E s \in Scope : Promise!Write(k, s)
                       /\ Mode = "enforce" => Promise!Write(k, CtxScope[w])
                    \/ Promise!Keep(k)
  BY DEF Promise!Transaction
<1>1. row'[k] = VisibleRow(w, k) /\ hist'[k] = VisibleHist(w, k)
  BY MergeTable DEF Commit, IInv, GoodTables, GoodTxns, GoodTxn, TxnTypeOK, VisibleRow, VisibleHist
<1>2. CASE Written(hist[k], txn[w], k)
  <2>1. /\ Promise!Write(k, txn[w].hist[k].scope)
        /\ Mode = "enforce" => txn[w].hist[k].scope = CtxScope[w]
    BY <1>1, <1>2, WrittenAccounted
  <2>2. txn[w].hist[k] \in Resource
    BY <1>2 DEF Written, IInv, GoodTxns, GoodTxn, TxnTypeOK, Partial, MaybeHist
  <2>3. txn[w].hist[k].scope \in Scope
    BY <2>2 DEF Resource
  <2>4. QED
    BY <2>1, <2>3
<1>3. CASE ~Written(hist[k], txn[w], k)
  <2>1. /\ k \in DOMAIN txn[w].row => txn[w].row[k] = row[k]
        /\ k \in DOMAIN txn[w].hist => Events(txn[w].hist[k]) = Events(hist[k])
    BY <1>3, UnwrittenKeeps DEF IInv, GoodTxns
  <2>2. row'[k] = row[k] /\ Events(hist'[k]) = Events(hist[k])
    BY <1>1, <2>1 DEF VisibleRow, VisibleHist
  <2>3. QED
    BY <2>2 DEF Promise!Keep
<1>4. QED
  BY <1>2, <1>3

-----------------------------------------------------------------------------
(* What the statements do to what a transaction says of a key. *)

\* The transactions t and u own the same of k.
SameAt(t, u, k) ==
  /\ k \in DOMAIN u.row <=> k \in DOMAIN t.row
  /\ k \in DOMAIN u.hist <=> k \in DOMAIN t.hist
  /\ k \in DOMAIN t.row => u.row[k] = t.row[k]
  /\ k \in DOMAIN t.hist => u.hist[k] = t.hist[k]

\* They say the same of it then.
LEMMA SameSays ==
  ASSUME NEW t, NEW u, NEW k, SameAt(t, u, k), NEW r, NEW h
  PROVE  /\ Written(h, t, k) <=> Written(h, u, k)
         /\ Saying(r, h, t, k) = Saying(r, h, u, k)
         /\ \A w : Honest(w, r, h, t, k) => Honest(w, r, h, u, k)
         /\ Clean(r, h, t, k) => Clean(r, h, u, k)
         /\ Passed(r, h, t, k) => Passed(r, h, u, k)
         /\ \A v : Owns(t, k, v) => Owns(u, k, v)
<1>1. (Written(h, t, k) <=> Written(h, u, k)) /\ Saying(r, h, t, k) = Saying(r, h, u, k)
  BY DEF SameAt, Written, Saying
<1>2. \A w : Honest(w, r, h, t, k) => Honest(w, r, h, u, k)
  BY DEF SameAt, Honest
<1>3. Clean(r, h, t, k) => Clean(r, h, u, k)
  BY <1>1 DEF SameAt, Clean
<1>4. Passed(r, h, t, k) => Passed(r, h, u, k)
  BY <1>1 DEF SameAt, Passed
<1>5. \A v : Owns(t, k, v) => Owns(u, k, v)
  BY DEF SameAt, Owns
<1>6. QED
  BY <1>1, <1>2, <1>3, <1>4, <1>5

\* A transaction that owns nothing has nothing to say.
LEMMA NothingSaid ==
  ASSUME NEW w, NEW r, NEW h, NEW k
  PROVE  Honest(w, r, h, NoLocks, k) /\ Clean(r, h, NoLocks, k)
BY DEF Honest, Clean, NoLocks, Empty

\* A head that is only looked at is the committed one: nothing is written.
LEMMA LookedAt ==
  ASSUME NEW P, IInv(P), NEW w \in Worker, OwnedHeads(hist, txn[w]), NEW k \in Key,
         k \notin DOMAIN txn[w].row
  PROVE  ~Written(hist[k], txn[w], k)
<1> SUFFICES ASSUME k \in DOMAIN txn[w].hist
             PROVE  ~(Len(Events(hist[k])) < Len(txn[w].hist[k].events))
  BY DEF Written
<1>1. txn[w].hist[k] = hist[k] /\ hist[k] # Null
  BY DEF OwnedHeads, IInv, GoodTxns, GoodTxn
<1>2. hist[k] \in Resource
  BY <1>1 DEF IInv, GoodTables, MaybeHist
<1>3. Events(hist[k]) = hist[k].events /\ hist[k].events \in Seq(Event)
  BY <1>1, <1>2 DEF Events, Resource
<1>4. QED
  BY <1>1, <1>3

\* A history accounts for what it has always said.
LEMMA AccountsItself ==
  ASSUME NEW h \in Resource, NEW w, NEW r
  PROVE  Accounts(w, r, h, h)
<1>1. h # Null /\ h.events \in Seq(Event)
  BY AbsenceAssumption DEF Resource
<1>2. Events(h) = h.events /\ Len(h.events) \in Nat
  BY <1>1 DEF Events
<1>3. QED
  BY <1>2 DEF Accounts

\* Locking a row says nothing new.
LEMMA LockedSays ==
  ASSUME NEW P, IInv(P), NEW w \in Worker, OwnedHeads(hist, txn[w]), NEW k \in Key, NEW x \in Key
  PROVE  LET u == Locked(w, k)[w] IN
         /\ Honest(w, row[x], hist[x], txn[w], x) => Honest(w, row[x], hist[x], u, x)
         /\ Clean(row[x], hist[x], txn[w], x) => Clean(row[x], hist[x], u, x)
         /\ x # k \/ x \in DOMAIN txn[w].row => SameAt(txn[w], u, x)
<1> DEFINE u == Locked(w, k)[w]
<1>1. /\ VisibleRow(w, k) # Null => k \in DOMAIN u.row /\ u.row[k] = VisibleRow(w, k)
      /\ u.hist = txn[w].hist
      /\ DOMAIN txn[w].row \subseteq DOMAIN u.row
      /\ \A y \in DOMAIN txn[w].row : u.row[y] = txn[w].row[y]
      /\ DOMAIN u.row \subseteq DOMAIN txn[w].row \union {k}
      /\ VisibleRow(w, k) = Null => u = txn[w]
  BY LockedGood DEF IInv, Locked
<1> HIDE DEF u
<1>2. CASE x # k \/ x \in DOMAIN txn[w].row \/ VisibleRow(w, k) = Null
  <2>1. SameAt(txn[w], u, x)
    BY <1>1, <1>2 DEF SameAt
  <2>2. QED
    BY <2>1, SameSays DEF u
<1>3. CASE x = k /\ x \notin DOMAIN txn[w].row /\ VisibleRow(w, k) # Null
  <2>1. u.row[x] = row[x] /\ row[x] # Null
    BY <1>1, <1>3 DEF VisibleRow
  <2>2. ~Written(hist[x], u, x)
    BY <1>1, <1>3, LookedAt DEF Written
  <2>3. Clean(row[x], hist[x], u, x)
    BY <2>1, <2>2 DEF Clean, Saying
  <2>4. Honest(w, row[x], hist[x], txn[w], x) => Honest(w, row[x], hist[x], u, x)
    BY <1>1, <2>1 DEF Honest
  <2>5. QED
    BY <1>3, <2>3, <2>4 DEF u
<1>4. QED
  BY <1>2, <1>3

\* Writing rows leaves what the events say, and all other keys.
LEMMA PutRowsSays ==
  ASSUME NEW P, IInv(P), NEW w \in Worker, NEW f, Partial(f, MaybeRow), NEW x \in Key
  PROVE  LET u == PutRows(w, f)[w] IN
         /\ x \notin DOMAIN f => SameAt(txn[w], u, x)
         /\ x \in DOMAIN f => x \in DOMAIN u.row /\ u.row[x] = f[x]
         /\ u.hist = txn[w].hist
         /\ Written(hist[x], u, x) <=> Written(hist[x], txn[w], x)
         /\ Saying(row[x], hist[x], u, x) = Saying(row[x], hist[x], txn[w], x)
         /\ /\ Honest(w, row[x], hist[x], txn[w], x)
            /\ x \in DOMAIN f /\ f[x] # Null /\ row[x] = Null => hist[x] = Null
            => Honest(w, row[x], hist[x], u, x)
<1> DEFINE u == PutRows(w, f)[w]
<1>1. /\ DOMAIN u.row = DOMAIN f \union DOMAIN txn[w].row
      /\ \A k \in DOMAIN f : u.row[k] = f[k]
      /\ \A k \in DOMAIN txn[w].row \ DOMAIN f : u.row[k] = txn[w].row[k]
      /\ u.hist = txn[w].hist
  BY PutRowsGood DEF IInv
<1> HIDE DEF u
<1>2. x \notin DOMAIN f => SameAt(txn[w], u, x)
  BY <1>1 DEF SameAt
<1>3. /\ Written(hist[x], u, x) <=> Written(hist[x], txn[w], x)
      /\ Saying(row[x], hist[x], u, x) = Saying(row[x], hist[x], txn[w], x)
  BY <1>1 DEF Written, Saying
<1>4. ASSUME Honest(w, row[x], hist[x], txn[w], x),
             x \in DOMAIN f /\ f[x] # Null /\ row[x] = Null => hist[x] = Null
      PROVE  Honest(w, row[x], hist[x], u, x)
  BY <1>1, <1>4 DEF Honest
<1>5. QED
  BY <1>1, <1>2, <1>3, <1>4 DEF u

\* The event that append_event() adds to a head is its last, and the others stay.
LEMMA AppendedEvents ==
  ASSUME NEW h \in Resource, NEW r \in Row, NEW w, NEW action, NEW before, NEW after
  PROVE  LET e == NewEvent(w, h, r, action, before, after)
             g == Appended(h, e)
         IN /\ e.actor = w /\ e.action = action /\ e.before = before /\ e.after = after
            /\ g.scope = h.scope /\ Len(g.events) = Len(h.events) + 1
            /\ g.events[Len(h.events) + 1] = e
            /\ \A i \in 1..Len(h.events) : g.events[i] = h.events[i]
<1> DEFINE e == NewEvent(w, h, r, action, before, after)
<1> DEFINE g == Appended(h, e)
<1>1. e.actor = w /\ e.action = action /\ e.before = before /\ e.after = after
  BY DEF NewEvent
<1> HIDE DEF e
<1>2. g.scope = h.scope /\ g.events = Append(h.events, e) /\ h.events \in Seq(Event)
  BY DEF Appended, Resource
<1> HIDE DEF g
<1>3. /\ Len(g.events) = Len(h.events) + 1 /\ g.events[Len(h.events) + 1] = e
      /\ \A i \in 1..Len(h.events) : g.events[i] = h.events[i]
  BY <1>2
<1>4. QED
  BY <1>1, <1>2, <1>3 DEF e, g

\* A head that is found, or opened, accounts for what its transaction did.
LEMMA HeadAccounts ==
  ASSUME NEW P, IInv(P), NEW w \in Worker, NEW k \in Key, NEW r \in Row,
         Honest(w, row[k], hist[k], txn[w], k)
  PROVE  LET h == HeadOf(w, k, r) IN
         /\ Accounts(w, row[k], hist[k], h)
         /\ Len(Events(hist[k])) \in Nat /\ Len(h.events) \in Nat
         /\ Written(hist[k], txn[w], k) <=> Len(Events(hist[k])) < Len(h.events)
         /\ Written(hist[k], txn[w], k) => h = txn[w].hist[k]
<1> DEFINE h == HeadOf(w, k, r)
<1>1. h \in Resource /\ h.events \in Seq(Event)
  BY HeadGood DEF IInv, Resource
<1>2. hist[k] \in MaybeHist
  BY DEF IInv, GoodTables
<1>3. Events(hist[k]) \in Seq(Event)
  BY <1>2 DEF Events, MaybeHist, Resource
<1>4. CASE k \in DOMAIN txn[w].hist
  <2>1. h = txn[w].hist[k]
    BY <1>4 DEF HeadOf, VisibleHist, IInv, GoodTxns, GoodTxn
  <2> HIDE DEF h
  <2>2. QED
    BY <1>1, <1>3, <1>4, <2>1 DEF Honest, Written, h
<1>5. CASE k \notin DOMAIN txn[w].hist /\ hist[k] # Null
  <2>1. h = hist[k] /\ Events(hist[k]) = h.events
    BY <1>5 DEF HeadOf, VisibleHist, Events
  <2> HIDE DEF h
  <2>2. Accounts(w, row[k], hist[k], h)
    BY <1>1, <2>1, AccountsItself
  <2>3. QED
    BY <1>1, <1>3, <1>5, <2>1, <2>2 DEF Written, h
<1>6. CASE k \notin DOMAIN txn[w].hist /\ hist[k] = Null
  <2>1. h.events = <<>> /\ Events(hist[k]) = <<>>
    BY <1>6 DEF HeadOf, VisibleHist, Events
  <2> HIDE DEF h
  <2>2. Accounts(w, row[k], hist[k], h)
    BY <2>1 DEF Accounts
  <2>3. QED
    BY <1>6, <2>1, <2>2 DEF Written, h
<1>7. QED
  BY <1>4, <1>5, <1>6

\* append_event() about a row that is owned accounts for it, if it starts from
\* what the events said so far.
LEMMA AppendSays ==
  ASSUME NEW P, IInv(P), NEW w \in Worker, NEW k \in Key, NEW r \in Row,
         Honest(w, row[k], hist[k], txn[w], k),
         NEW action, NEW before, NEW after,
         ~Reassigned(HeadOf(w, k, r), r),
         ~Written(hist[k], txn[w], k) /\ row[k] # Null => r.scope = row[k].scope,
         IF action = "baseline"
         THEN /\ HeadOf(w, k, r).events = <<>> /\ before = Null
              /\ after = Saying(row[k], hist[k], txn[w], k)
         ELSE before = Saying(row[k], hist[k], txn[w], k)
  PROVE  LET h == HeadOf(w, k, r)
             g == Appended(h, NewEvent(w, h, r, action, before, after))
         IN /\ Accounts(w, row[k], hist[k], g)
            /\ Len(Events(hist[k])) < Len(g.events) /\ g.events[Len(g.events)].after = after
<1> DEFINE h == HeadOf(w, k, r)
<1> DEFINE e == NewEvent(w, h, r, action, before, after)
<1> DEFINE g == Appended(h, e)
<1> DEFINE n == Len(Events(hist[k]))
<1> DEFINE m == Len(h.events)
<1>1. h \in Resource
  BY HeadGood DEF IInv
<1>2. /\ Accounts(w, row[k], hist[k], h) /\ n \in Nat /\ m \in Nat
      /\ Written(hist[k], txn[w], k) <=> n < m
      /\ Written(hist[k], txn[w], k) => h = txn[w].hist[k]
  BY HeadAccounts
<1>3. h.scope = r.scope
  BY DEF Reassigned
<1>4. IF action = "baseline"
      THEN h.events = <<>> /\ before = Null /\ after = Saying(row[k], hist[k], txn[w], k)
      ELSE before = Saying(row[k], hist[k], txn[w], k)
  OBVIOUS
<1> HIDE DEF h
<1>5. /\ e.actor = w /\ e.action = action /\ e.before = before /\ e.after = after
      /\ g.scope = h.scope /\ Len(g.events) = m + 1 /\ g.events[m + 1] = e
      /\ \A i \in 1..m : g.events[i] = h.events[i]
  BY <1>1, AppendedEvents
<1>6. Saying(row[k], hist[k], txn[w], k) = IF n < m THEN h.events[m].after ELSE Snapshot(row[k])
  BY <1>2 DEF Saying
<1>7. /\ n <= m
      /\ \A i \in 1..n : h.events[i] = Events(hist[k])[i]
      /\ \A i \in (n + 1)..m :
           LET prior == IF i = n + 1 THEN Snapshot(row[k]) ELSE h.events[i - 1].after IN
           /\ h.events[i].actor = w
           /\ IF h.events[i].action = "baseline"
              THEN i = 1 /\ h.events[i].before = Null /\ h.events[i].after = prior
              ELSE h.events[i].before = prior
      /\ n < m /\ row[k] # Null => row[k].scope = h.scope
  BY <1>2 DEF Accounts
<1> HIDE DEF e, g
<1>8. \A i \in 1..n : g.events[i] = Events(hist[k])[i]
  BY <1>2, <1>5, <1>7
<1>9. ASSUME NEW i \in (n + 1)..(m + 1)
      PROVE  LET prior == IF i = n + 1 THEN Snapshot(row[k]) ELSE g.events[i - 1].after IN
             /\ g.events[i].actor = w
             /\ IF g.events[i].action = "baseline"
                THEN i = 1 /\ g.events[i].before = Null /\ g.events[i].after = prior
                ELSE g.events[i].before = prior
  <2>1. CASE i \in (n + 1)..m
    <3>1. g.events[i] = h.events[i]
      BY <1>2, <1>5, <2>1
    <3>2. i # n + 1 => g.events[i - 1] = h.events[i - 1]
      <4> SUFFICES ASSUME i # n + 1 PROVE g.events[i - 1] = h.events[i - 1]
        OBVIOUS
      <4>1. i - 1 \in 1..m
        BY <1>2, <2>1
      <4>2. QED
        BY <1>5, <4>1
    <3>3. QED
      BY <1>7, <2>1, <3>1, <3>2
  <2>2. CASE i = m + 1
    <3>1. g.events[i] = e
      BY <1>5, <2>2
    <3>2. (IF i = n + 1 THEN Snapshot(row[k]) ELSE g.events[i - 1].after)
             = Saying(row[k], hist[k], txn[w], k)
      <4>1. CASE n < m
        <5>1. i - 1 = m /\ m \in 1..m /\ i # n + 1
          BY <1>2, <2>2, <4>1
        <5>2. QED
          BY <1>5, <1>6, <4>1, <5>1
      <4>2. CASE ~(n < m)
        <5>1. i = n + 1
          BY <1>2, <1>7, <2>2, <4>2
        <5>2. QED
          BY <1>6, <4>2, <5>1
      <4>3. QED
        BY <4>1, <4>2
    <3>3. h.events = <<>> => i = 1
      BY <2>2
    <3>4. QED
      BY <1>4, <1>5, <3>1, <3>2, <3>3
  <2>3. QED
    BY <1>2, <2>1, <2>2, SMTT(30)
<1>10. row[k] # Null => row[k].scope = g.scope
  BY <1>2, <1>3, <1>5, <1>7
<1>11. Accounts(w, row[k], hist[k], g)
  BY <1>2, <1>5, <1>7, <1>8, <1>9, <1>10 DEF Accounts
<1>12. n < Len(g.events) /\ g.events[Len(g.events)].after = after
  BY <1>2, <1>5, <1>7
<1>13. QED
  BY <1>11, <1>12 DEF g, e, h

-----------------------------------------------------------------------------
(* What the steps an operation is made of keep. *)

Standing(P) == IInv(P) /\ ScopeInv /\ PromiseInv

\* The tables change only by a commit of clean rows.
CommitsClean(w) ==
  \/ row' = row /\ hist' = hist
  \/ Commit(w) /\ \A k \in Key : Clean(row[k], hist[k], txn[w], k)

\* A commit of w leaves what it does not own, and what was once there leaves a
\* row or a history behind.
LEMMA TablesAfter ==
  ASSUME NEW P, IInv(P), ScopeInv, NEW w \in Worker, CommitsClean(w), OwnedHeads(hist, txn[w]),
         NEW k \in Key, Honest(w, row[k], hist[k], txn[w], k)
  PROVE  /\ k \notin DOMAIN txn[w].row => row'[k] = row[k] /\ hist'[k] = hist[k]
         /\ k \notin DOMAIN txn[w].hist => hist'[k] = hist[k]
         /\ Gone(row[k], hist[k]) => Gone(row'[k], hist'[k])
         /\ row[k] # Null \/ hist[k] # Null => row'[k] # Null \/ hist'[k] # Null
<1>1. CASE row' = row /\ hist' = hist
  BY <1>1
<1>2. CASE Commit(w) /\ \A x \in Key : Clean(row[x], hist[x], txn[w], x)
  <2>1. row'[k] = VisibleRow(w, k) /\ hist'[k] = VisibleHist(w, k)
    BY <1>2, MergeTable
       DEF Commit, IInv, GoodTables, GoodTxns, GoodTxn, TxnTypeOK, VisibleRow, VisibleHist
  <2>2. k \in DOMAIN txn[w].hist => txn[w].hist[k] # Null
    BY DEF IInv, GoodTxns, GoodTxn
  <2>3. k \notin DOMAIN txn[w].row => row'[k] = row[k] /\ hist'[k] = hist[k]
    BY <2>1 DEF OwnedHeads, VisibleRow, VisibleHist
  <2>4. k \notin DOMAIN txn[w].hist => hist'[k] = hist[k]
    BY <2>1 DEF VisibleHist
  <2>5. hist[k] # Null => hist'[k] # Null
    BY <2>1, <2>2 DEF VisibleHist
  <2>6. Gone(row[k], hist[k]) => Gone(row'[k], hist'[k])
    BY <2>1, <2>5 DEF Gone, Honest, VisibleRow
  <2>7. row[k] # Null => row'[k] # Null \/ hist'[k] # Null
    <3>1. CASE k \in DOMAIN txn[w].row /\ ~Written(hist[k], txn[w], k)
      BY <1>2, <2>1, <3>1 DEF Clean, VisibleRow
    <3>2. CASE Written(hist[k], txn[w], k)
      BY <2>1, <2>2, <3>2 DEF Written, VisibleHist
    <3>3. QED
      BY <2>3, <3>1, <3>2
  <2>8. QED
    BY <2>3, <2>4, <2>5, <2>6, <2>7
<1>3. QED
  BY <1>1, <1>2 DEF CommitsClean

\* The step of a worker leaves what others have to say about a key true.
LEMMA EntryElsewhere ==
  ASSUME NEW P, IInv(P), ScopeInv, Ledgers, NEW w \in Worker, Local(w), CommitsClean(w),
         NEW v \in Worker \ {w}, NEW k \in Key
  PROVE  Entry(v, k)'
<1>1. /\ txn'[v] = txn[v] /\ mark'[v] = mark[v] /\ pc'[v] = pc[v] /\ call'[v] = call[v]
      /\ todo'[v] = todo[v] /\ seen'[v] = seen[v]
  BY DEF Local
<1>2. /\ Entry(v, k) /\ Owning(v) /\ Owning(w) /\ Honest(w, row[k], hist[k], txn[w], k)
      /\ Apart(txn[w], txn[v])
  BY DEF Ledgers, Entry, ScopeInv
<1>3. DOMAIN mark[v].row \subseteq DOMAIN txn[v].row /\ DOMAIN mark[v].hist \subseteq DOMAIN txn[v].hist
  BY DEF ScopeInv, Orderly
<1>4. /\ k \notin DOMAIN txn[w].row => row'[k] = row[k] /\ hist'[k] = hist[k]
      /\ k \notin DOMAIN txn[w].hist => hist'[k] = hist[k]
      /\ Gone(row[k], hist[k]) => Gone(row'[k], hist'[k])
      /\ row[k] # Null \/ hist[k] # Null => row'[k] # Null \/ hist'[k] # Null
  BY <1>2, TablesAfter DEF Owning
<1>5. CASE row'[k] = row[k] /\ hist'[k] = hist[k]
  BY <1>1, <1>2, <1>5 DEF Entry
<1>6. CASE ~(row'[k] = row[k] /\ hist'[k] = hist[k])
  <2>1. k \in DOMAIN txn[w].row
    BY <1>4, <1>6
  <2>2. k \notin DOMAIN txn[v].row /\ k \notin DOMAIN mark[v].row
    BY <1>2, <1>3, <2>1 DEF Apart
  <2>3. ASSUME NEW t, t \in {txn[v], mark[v]} PROVE Honest(v, row'[k], hist'[k], t, k)
    <3>1. Honest(v, row[k], hist[k], t, k)
      BY <1>2, <2>3 DEF Entry
    <3> SUFFICES ASSUME k \in DOMAIN t.hist PROVE Accounts(v, row'[k], hist'[k], t.hist[k])
      BY <2>2, <2>3, <3>1 DEF Honest
    <3>2. k \notin DOMAIN txn[w].hist
      BY <1>2, <1>3, <2>3 DEF Apart
    <3>3. t.hist[k] = hist'[k]
      BY <1>2, <1>4, <2>2, <2>3, <3>2 DEF Owning, OwnedHeads
    <3>4. t.hist[k] \in Resource
      BY <2>3 DEF IInv, GoodTxns, GoodTxn, TxnTypeOK, Partial, MaybeHist
    <3>5. QED
      BY <3>3, <3>4, AccountsItself
  <2>4. Clean(row'[k], hist'[k], txn[v], k) /\ Clean(row'[k], hist'[k], mark[v], k)
    BY <2>2 DEF Clean
  <2>5. Named(call[v], mark[v], row'[k], hist'[k], k)
    BY <1>2, <1>4, <2>2 DEF Entry, Named
  <2>6. Midway(pc[v], call[v], todo[v], seen[v], txn[v], row'[k], hist'[k], k)
    <3>1. Midway(pc[v], call[v], todo[v], seen[v], txn[v], row[k], hist[k], k)
      BY <1>2 DEF Entry
    <3>2. pc[v] = "insert" => k \notin call[v].keys \ todo[v]
      BY <1>2, <2>2 DEF Owning
    <3>3. pc[v] = "record" => k \notin todo[v]
      BY <1>2, <2>2 DEF Owning
    <3>4. QED
      BY <1>4, <2>2, <3>1, <3>2, <3>3 DEF Midway, Passed, Owns
  <2>7. QED
    BY <1>1, <2>3, <2>4, <2>5, <2>6 DEF Entry
<1>7. QED
  BY <1>5, <1>6

\* What the step of w has to show for w itself.
Advances(w) ==
  /\ Owning(w)' /\ \A k \in Key : Entry(w, k)'
  /\ unused' \subseteq unused /\ AllottedTo(w)' \subseteq AllottedTo(w) \union (unused \ unused')
  /\ \A k \in DOMAIN txn'[w].row :
       k \in DOMAIN txn[w].row \/ VisibleRow(w, k) # Null \/ k \in AllottedTo(w) \ AllottedTo(w)'
  /\ "save" \in Ops => LiveTxn(txn'[w]) /\ LiveTxn(mark'[w])

\* The keys of the sequence stay fresh.
LEMMA FreshStep ==
  ASSUME NEW P, IInv(P), ScopeInv, FreshInv, Ledgers, NEW w \in Worker, Local(w), CommitsClean(w),
         Advances(w)
  PROVE  FreshInv'
<1>1. \A v \in Worker \ {w} : txn'[v] = txn[v] /\ AllottedTo(v)' = AllottedTo(v)
  BY DEF Local, AllottedTo
<1>2. /\ unused \subseteq Key /\ \A v \in Worker : AllottedTo(v) \subseteq Key
  BY DEF IInv, GoodControl, AllottedTo, Allotted
<1>3. ASSUME NEW k \in Key, Fresh(k), k \notin DOMAIN txn'[w].row PROVE Fresh(k)'
  <2>1. Owning(w) /\ Honest(w, row[k], hist[k], txn[w], k)
    BY DEF Ledgers, Entry
  <2>2. row'[k] = row[k] /\ hist'[k] = hist[k]
    BY <1>3, <2>1, TablesAfter DEF Owning, Fresh
  <2>3. QED
    BY <1>1, <1>3, <2>2 DEF Fresh
<1>4. ASSUME NEW k \in Key, Fresh(k), k \notin AllottedTo(w) \ AllottedTo(w)'
      PROVE  k \notin DOMAIN txn'[w].row
  BY <1>4 DEF Advances, Fresh, VisibleRow
<1>5. \A k \in unused' : Fresh(k)'
  BY <1>2, <1>3, <1>4 DEF Advances, FreshInv
<1>6. ASSUME NEW v \in Worker, NEW k \in AllottedTo(v)' PROVE Fresh(k)' /\ k \notin unused'
  <2>1. CASE v = w
    <3>1. k \in Key /\ Fresh(k) /\ k \notin unused'
      BY <1>2, <1>6, <2>1 DEF Advances, FreshInv
    <3>2. QED
      BY <1>3, <1>4, <1>6, <2>1, <3>1
  <2>2. CASE v # w
    <3>1. k \in Key /\ Fresh(k) /\ k \notin unused /\ k \notin AllottedTo(w)
      BY <1>1, <1>2, <1>6, <2>2 DEF FreshInv
    <3>2. QED
      BY <1>3, <1>4, <3>1 DEF Advances
  <2>3. QED
    BY <2>1, <2>2
<1>7. ASSUME NEW u \in Worker, NEW v \in Worker \ {u} PROVE AllottedTo(u)' \cap AllottedTo(v)' = {}
  BY <1>1 DEF Advances, FreshInv
<1>8. QED
  BY <1>5, <1>6, <1>7 DEF FreshInv

\* No row is deleted where none is.
LEMMA LiveStep ==
  ASSUME NEW P, IInv(P), LiveRows, NEW w \in Worker, Local(w), OwnedHeads(hist, txn[w]), Advances(w)
  PROVE  LiveRows'
<1> SUFFICES ASSUME "save" \in Ops
             PROVE  /\ \A k \in Key : hist'[k] # Null => row'[k] # Null
                    /\ \A v \in Worker : LiveTxn(txn'[v]) /\ LiveTxn(mark'[v])
  BY DEF LiveRows
<1>1. \A v \in Worker : LiveTxn(txn'[v]) /\ LiveTxn(mark'[v])
  BY DEF Advances, Local, LiveRows
<1>2. ASSUME NEW k \in Key, hist'[k] # Null PROVE row'[k] # Null
  <2>1. CASE row' = row /\ hist' = hist
    BY <1>2, <2>1 DEF LiveRows
  <2>2. CASE Commit(w)
    <3>1. row'[k] = VisibleRow(w, k) /\ hist'[k] = VisibleHist(w, k)
      BY <2>2, MergeTable
         DEF Commit, IInv, GoodTables, GoodTxns, GoodTxn, TxnTypeOK, VisibleRow, VisibleHist
    <3>2. k \in DOMAIN txn[w].row => txn[w].row[k] # Null
      BY DEF LiveRows, LiveTxn
    <3>3. k \notin DOMAIN txn[w].row => hist'[k] = hist[k]
      BY <3>1 DEF OwnedHeads, VisibleHist
    <3>4. QED
      BY <1>2, <3>1, <3>2, <3>3 DEF LiveRows, VisibleRow
  <2>3. QED
    BY <2>1, <2>2 DEF Local
<1>3. QED
  BY <1>1, <1>2

\* Heads are committed with their events.
LEMMA OpenedStep ==
  ASSUME NEW P, IInv(P), Opened, Ledgers, NEW w \in Worker, Local(w)
  PROVE  Opened'
<1>1. CASE row' = row /\ hist' = hist
  BY <1>1 DEF Opened
<1>2. CASE Commit(w)
  <2>1. \A k \in Key : hist'[k] = VisibleHist(w, k)
    BY <1>2, MergeTable
       DEF Commit, IInv, GoodTables, GoodTxns, GoodTxn, TxnTypeOK, VisibleHist
  <2>2. \A k \in Key : k \in DOMAIN txn[w].hist => txn[w].hist[k].events # <<>>
    BY DEF Ledgers, Entry, Honest
  <2>3. QED
    BY <2>1, <2>2 DEF Opened, VisibleHist
<1>3. QED
  BY <1>1, <1>2 DEF Local

\* A step of w, from what it did for w itself.
LEMMA AdvanceKeeps ==
  ASSUME NEW P, Standing(P), NEW w \in Worker, Local(w), CommitsClean(w), Advances(w)
  PROVE  PromiseInv'
<1>1. /\ IInv(P) /\ ScopeInv /\ FreshInv /\ LiveRows /\ Opened /\ Ledgers
      /\ OwnedHeads(hist, txn[w])
      /\ \A v \in Worker : Owning(v)
  BY DEF Standing, PromiseInv, Ledgers, Owning
<1>2. FreshInv' /\ LiveRows' /\ Opened'
  BY <1>1, FreshStep, LiveStep, OpenedStep
<1>3. \A v \in Worker : Owning(v)'
  BY <1>1, OwningStep DEF Advances
<1>4. \A v \in Worker : \A k \in Key : Entry(v, k)'
  BY <1>1, EntryElsewhere DEF Advances
<1>5. QED
  BY <1>2, <1>3, <1>4 DEF PromiseInv, Ledgers

\* An exception gives back the transaction of the savepoint.
LEMMA RaiseAdvances ==
  ASSUME NEW P, Standing(P), NEW w \in Worker, Raise(w)
  PROVE  Advances(w)
<1>1. IInv(P) /\ ScopeInv /\ Owning(w) /\ LiveRows /\ \A k \in Key : Entry(w, k)
  BY DEF Standing, PromiseInv, Ledgers
<1>2. /\ row' = row /\ hist' = hist /\ txn'[w] = mark[w] /\ mark'[w] = NoLocks
      /\ pc'[w] \in {"idle", "open"} /\ call'[w] = NoCall /\ todo'[w] = {} /\ unused' = unused
  BY <1>1 DEF Raise, Rollback, Ends, IInv, GoodControl, GoodTxns
<1>3. Owning(w)'
  BY <1>1, RaiseOwns
<1>4. NoCall.op = "none" /\ NoCall.keys = {}
  BY DEF NoCall
<1>5. ASSUME NEW k \in Key PROVE Entry(w, k)'
  <2>1. Honest(w, row[k], hist[k], mark[w], k) /\ Clean(row[k], hist[k], mark[w], k)
    BY <1>1 DEF Entry
  <2>2. Named(NoCall, NoLocks, row[k], hist[k], k)
    BY <1>4 DEF Named
  <2>3. Midway(pc'[w], NoCall, {}, seen'[w], mark[w], row[k], hist[k], k)
    BY <1>2, <1>4 DEF Midway
  <2>4. QED
    BY <1>2, <2>1, <2>2, <2>3, NothingSaid DEF Entry
<1>6. AllottedTo(w)' = {}
  BY <1>2, <1>4 DEF AllottedTo, Allotted
<1>7. DOMAIN mark[w].row \subseteq DOMAIN txn[w].row
  BY <1>1 DEF ScopeInv, Orderly
<1>8. "save" \in Ops => LiveTxn(mark[w]) /\ LiveTxn(NoLocks)
  BY <1>1 DEF LiveRows, LiveTxn, NoLocks, Empty
<1>9. QED
  BY <1>2, <1>3, <1>5, <1>6, <1>7, <1>8 DEF Advances

\* Going on inside an operation.
LEMMA GotoAdvances ==
  ASSUME NEW P, Standing(P), NEW w \in Worker, NEW next, NEW work, Goto(w, next, work), Owning(w)',
         \A k \in Key :
           /\ Honest(w, row[k], hist[k], txn'[w], k)
           /\ k \notin Pending(next, call[w], work) => Clean(row[k], hist[k], txn'[w], k)
           /\ Midway(next, call[w], work, seen'[w], txn'[w], row[k], hist[k], k),
         Allotted(next, call[w], work) \subseteq AllottedTo(w),
         \A k \in DOMAIN txn'[w].row :
           \/ k \in DOMAIN txn[w].row \/ VisibleRow(w, k) # Null
           \/ k \in AllottedTo(w) \ Allotted(next, call[w], work),
         "save" \in Ops => LiveTxn(txn'[w])
  PROVE  Advances(w)
<1>1. IInv(P) /\ LiveRows /\ \A k \in Key : Entry(w, k)
  BY DEF Standing, PromiseInv, Ledgers
<1>2. /\ pc'[w] = next /\ todo'[w] = work /\ row' = row /\ hist' = hist /\ mark' = mark
      /\ call' = call /\ unused' = unused
  BY <1>1 DEF Goto, IInv, GoodControl
<1>3. \A k \in Key : Entry(w, k)'
  BY <1>1, <1>2 DEF Entry
<1>4. AllottedTo(w)' = Allotted(next, call[w], work)
  BY <1>2 DEF AllottedTo
<1>5. "save" \in Ops => LiveTxn(mark'[w])
  BY <1>1, <1>2 DEF LiveRows
<1>6. QED
  BY <1>2, <1>3, <1>4, <1>5 DEF Advances

\* Starting an operation on keys the application knows, or was given.
LEMMA BeginAdvances ==
  ASSUME NEW P, Standing(P), NEW w \in Worker, NEW c, NEW next, NEW work, Begin(w, c, next, work),
         Owning(w)', unused' \subseteq unused, Allotted(next, c, work) \subseteq unused \ unused',
         \A k \in Key : /\ Named(c, txn[w], row[k], hist[k], k)
                        /\ Midway(next, c, work, Empty, txn[w], row[k], hist[k], k)
  PROVE  Advances(w)
<1>1. IInv(P) /\ LiveRows /\ Owning(w) /\ \A k \in Key : Entry(w, k)
  BY DEF Standing, PromiseInv, Ledgers
<1>2. /\ pc'[w] = next /\ todo'[w] = work /\ row' = row /\ hist' = hist /\ mark'[w] = txn[w]
      /\ call'[w] = c /\ txn' = txn /\ seen' = seen /\ pc[w] \in {"idle", "open"}
  BY <1>1 DEF Begin, IInv, GoodControl, GoodTxns
<1>3. seen[w] = Empty /\ Pending(pc[w], call[w], todo[w]) = {}
  BY <1>1, <1>2 DEF Owning, Pending
<1>4. \A k \in Key : Entry(w, k)'
  BY <1>1, <1>2, <1>3 DEF Entry
<1>5. AllottedTo(w)' = Allotted(next, c, work)
  BY <1>2 DEF AllottedTo
<1>6. "save" \in Ops => LiveTxn(txn[w])
  BY <1>1 DEF LiveRows
<1>7. QED
  BY <1>2, <1>4, <1>5, <1>6 DEF Advances

\* append_event() about a row that is owned, starting from what the events said
\* so far: the row is accounted for.
LEMMA AppendAdvances ==
  ASSUME NEW P, Standing(P), NEW w \in Worker, NEW k \in Key, k \in todo[w], NEW r \in Row,
         k \in DOMAIN txn[w].row, txn[w].row[k] = r,
         NEW action, NEW before, NEW after, NEW next,
         AppendEvent(w, k, r, action, before, after, next),
         ~Written(hist[k], txn[w], k) /\ row[k] # Null => r.scope = row[k].scope,
         IF action = "baseline"
         THEN /\ HeadOf(w, k, r).events = <<>> /\ before = Null
              /\ after = Saying(row[k], hist[k], txn[w], k)
         ELSE before = Saying(row[k], hist[k], txn[w], k),
         \/ pc[w] = "record" /\ next = "record" /\ after = Snapshot(r)
         \/ pc[w] = "delete" /\ next = "lock" /\ call[w].op = "delete" /\ after = Null
         \/ pc[w] = "b_check" /\ next = "b_commit" /\ after = Snapshot(r)
  PROVE  Advances(w)
<1>1. IInv(P) /\ LiveRows /\ Owning(w) /\ \A x \in Key : Entry(w, x)
  BY DEF Standing, PromiseInv, Ledgers
<1>2. CASE Raise(w)
  BY <1>2, RaiseAdvances
<1>3. CASE ~Raise(w)
  <2> DEFINE h == HeadOf(w, k, r)
  <2> DEFINE g == Appended(h, NewEvent(w, h, r, action, before, after))
  <2>1. /\ ~Reassigned(h, r) /\ txn' = PutHist(w, k, g) /\ Goto(w, next, todo[w] \ {k})
        /\ seen' = seen
    BY <1>3 DEF AppendEvent
  <2>2. /\ Accounts(w, row[k], hist[k], g)
        /\ Len(Events(hist[k])) < Len(g.events) /\ g.events[Len(g.events)].after = after
    BY <1>1, <2>1, AppendSays DEF Entry
  <2>3. g.events # <<>>
    <3>1. Len(Events(hist[k])) \in Nat
      BY <1>1, HeadAccounts DEF Entry
    <3>2. QED
      BY <2>2, <3>1
  <2> HIDE DEF g, h
  <2>4. /\ txn'[w].row = txn[w].row /\ DOMAIN txn'[w].hist = DOMAIN txn[w].hist \union {k}
        /\ txn'[w].hist[k] = g
        /\ \A x \in DOMAIN txn[w].hist \ {k} : txn'[w].hist[x] = txn[w].hist[x]
    BY <1>1, <2>1 DEF PutHist, Merge, IInv, GoodTxns
  <2> DEFINE u == txn'[w]
  <2> HIDE DEF u
  <2>5. /\ Written(hist[k], u, k) /\ Saying(row[k], hist[k], u, k) = after
        /\ Honest(w, row[k], hist[k], u, k)
    <3>1. Written(hist[k], u, k)
      BY <2>2, <2>4 DEF Written, u
    <3>2. Saying(row[k], hist[k], u, k) = after
      BY <2>2, <2>4, <3>1 DEF Saying, u
    <3>3. Honest(w, row[k], hist[k], u, k)
      BY <1>1, <2>2, <2>4, <2>3 DEF Entry, Honest, u
    <3>4. QED
      BY <3>1, <3>2, <3>3
  <2>6. ASSUME NEW x \in Key
        PROVE  /\ Honest(w, row[x], hist[x], u, x)
               /\ x \notin Pending(next, call[w], todo[w] \ {k}) => Clean(row[x], hist[x], u, x)
               /\ Midway(next, call[w], todo[w] \ {k}, seen[w], u, row[x], hist[x], x)
    <3>1. Entry(w, x)
      BY <1>1
    <3>2. CASE x = k
      <4>1. k \in call[w].keys \/ next # "lock"
        BY <3>1, <3>2 DEF Entry, Midway
      <4>2. QED
        BY <2>4, <2>5, <3>2, <4>1 DEF Clean, Pending, Midway, Passed, u
    <3>3. CASE x # k
      <4>1. SameAt(txn[w], u, x)
        BY <2>4, <3>3 DEF SameAt, u
      <4>2. x \notin Pending(next, call[w], todo[w] \ {k}) => x \notin Pending(pc[w], call[w], todo[w])
        BY <3>3 DEF Pending
      <4>3. Midway(next, call[w], todo[w] \ {k}, seen[w], u, row[x], hist[x], x)
        <5>1. /\ Written(hist[x], txn[w], x) <=> Written(hist[x], u, x)
              /\ Saying(row[x], hist[x], txn[w], x) = Saying(row[x], hist[x], u, x)
              /\ Passed(row[x], hist[x], txn[w], x) => Passed(row[x], hist[x], u, x)
          BY <4>1, SameSays
        <5>2. Midway(pc[w], call[w], todo[w], seen[w], txn[w], row[x], hist[x], x)
          BY <3>1 DEF Entry
        <5>3. pc[w] = "record" /\ x \in todo[w] => u.row[x] = txn[w].row[x]
          BY <2>4 DEF u
        <5>4. QED
          BY <3>3, <5>1, <5>2, <5>3 DEF Midway, SaveOps
      <4>4. QED
        BY <3>1, <4>1, <4>2, <4>3, SameSays DEF Entry
    <3>4. QED
      BY <3>2, <3>3
  <2>7. Owning(w)'
    BY <1>1, AppendOwns
  <2>8. Allotted(next, call[w], todo[w] \ {k}) = {}
    BY DEF Allotted, Creates
  <2>9. "save" \in Ops => LiveTxn(u)
    BY <1>1, <2>4 DEF LiveRows, LiveTxn, u
  <2>10. QED
    BY <2>1, <2>4, <2>6, <2>7, <2>8, <2>9, GotoAdvances DEF u
<1>4. QED
  BY <1>2, <1>3

-----------------------------------------------------------------------------
(* The operations. *)

\* A key the application knows is, or was, in use.
LEMMA KnownNamed ==
  ASSUME NEW P, Standing(P), ~OwnKeys, NEW w \in Worker, NEW k \in KnownKeys(w)
  PROVE  /\ k \in Key
         /\ k \in DOMAIN txn[w].row \/ row[k] # Null \/ hist[k] # Null
         /\ VisibleRow(w, k) = Null => k \in DOMAIN txn[w].row \/ Gone(row[k], hist[k])
<1>1. OwnedHeads(hist, txn[w]) /\ \A x \in DOMAIN txn[w].hist : txn[w].hist[x] # Null
  BY DEF Standing, PromiseInv, Ledgers, Owning, IInv, GoodTxns, GoodTxn
<1>2. k \in Key /\ (VisibleRow(w, k) # Null \/ VisibleHist(w, k) # Null)
  BY DEF KnownKeys
<1>3. QED
  BY <1>1, <1>2 DEF OwnedHeads, VisibleRow, VisibleHist, Gone

\* The operations start with nothing pending.
LEMMA StartAdvances ==
  ASSUME NEW P, Standing(P), NoReuse, NEW w \in Worker, Start(w)
  PROVE  Advances(w)
<1>1. /\ IInv(P) /\ LiveRows /\ Owning(w) /\ ~OwnKeys /\ unused \subseteq Key
      /\ \A k \in Key : Entry(w, k)
  BY DEF Standing, PromiseInv, Ledgers, NoReuse, IInv, GoodControl
<1>2. Owning(w)'
  BY <1>1, StartOwns
<1>3. \A k \in KnownKeys(w) :
        /\ k \in Key
        /\ k \in DOMAIN txn[w].row \/ row[k] # Null \/ hist[k] # Null
        /\ VisibleRow(w, k) = Null => k \in DOMAIN txn[w].row \/ Gone(row[k], hist[k])
  BY <1>1, KnownNamed
<1>4. CASE OpenBlock(w)
  <2>1. /\ pc[w] = "idle" /\ pc'[w] = "open" /\ row' = row /\ hist' = hist /\ txn' = txn
        /\ mark' = mark /\ call' = call /\ todo' = todo /\ seen' = seen /\ unused' = unused
    BY <1>1, <1>4 DEF OpenBlock, IInv, GoodControl
  <2>2. ASSUME NEW k \in Key PROVE Entry(w, k)'
    <3>1. Entry(w, k)
      BY <1>1
    <3>2. Midway("open", call[w], todo[w], seen[w], txn[w], row[k], hist[k], k)
      BY DEF Midway
    <3>3. Pending("idle", call[w], todo[w]) = {}
      BY DEF Pending
    <3>4. QED
      BY <2>1, <3>1, <3>2, <3>3 DEF Entry
  <2>3. AllottedTo(w)' = {}
    BY <2>1 DEF AllottedTo, Allotted
  <2>4. QED
    BY <1>1, <1>2, <2>1, <2>2, <2>3 DEF Advances, LiveRows
<1>5. CASE BeginSave(w)
  <2>1. PICK op \in {"save", "save_fields"}, k \in KnownKeys(w), s \in Scope, v \in Value :
          Begin(w, [op |-> op, keys |-> {k}, scope |-> s, val |-> v], "lock", {k})
    BY <1>5 DEF BeginSave
  <2> DEFINE c == [op |-> op, keys |-> {k}, scope |-> s, val |-> v]
  <2>2. c.op = op /\ c.keys = {k}
    OBVIOUS
  <2> HIDE DEF c
  <2>3. unused' = unused /\ Allotted("lock", c, {k}) = {}
    BY <1>5, <2>2 DEF BeginSave, Allotted, Creates
  <2>4. ASSUME NEW x \in Key
        PROVE  /\ Named(c, txn[w], row[x], hist[x], x)
               /\ Midway("lock", c, {k}, Empty, txn[w], row[x], hist[x], x)
    BY <1>3, <2>2 DEF Named, Midway
  <2>5. QED
    BY <1>2, <2>1, <2>3, <2>4, BeginAdvances DEF c
<1>6. CASE BeginCreate(w)
  <2>1. PICK k \in FreshKeys, s \in Scope, v \in Value :
          /\ Begin(w, [op |-> "create", keys |-> {k}, scope |-> s, val |-> v], "lock", {k})
          /\ unused' = unused \ {k}
    BY <1>6 DEF BeginCreate
  <2> DEFINE c == [op |-> "create", keys |-> {k}, scope |-> s, val |-> v]
  <2>2. c.op = "create" /\ c.keys = {k}
    OBVIOUS
  <2> HIDE DEF c
  <2>3. unused' \subseteq unused /\ Allotted("lock", c, {k}) \subseteq unused \ unused'
    BY <1>1, <2>1, <2>2 DEF FreshKeys, Allotted
  <2>4. ASSUME NEW x \in Key
        PROVE  /\ Named(c, txn[w], row[x], hist[x], x)
               /\ Midway("lock", c, {k}, Empty, txn[w], row[x], hist[x], x)
    BY <2>2 DEF Named, Midway
  <2>5. QED
    BY <1>2, <2>1, <2>3, <2>4, BeginAdvances DEF c
<1>7. CASE BeginBulkCreate(w)
  <2>1. PICK K \in SUBSET FreshKeys \ {{}}, s \in Scope, v \in Value :
          /\ Begin(w, [op |-> "bulk_create", keys |-> K, scope |-> s, val |-> v], "insert", K)
          /\ unused' = unused \ K
    BY <1>7 DEF BeginBulkCreate
  <2> DEFINE c == [op |-> "bulk_create", keys |-> K, scope |-> s, val |-> v]
  <2>2. c.op = "bulk_create" /\ c.keys = K
    OBVIOUS
  <2> HIDE DEF c
  <2>3. unused' \subseteq unused /\ Allotted("insert", c, K) \subseteq unused \ unused'
    BY <1>1, <2>1, <2>2 DEF FreshKeys, Allotted
  <2>4. ASSUME NEW x \in Key
        PROVE  /\ Named(c, txn[w], row[x], hist[x], x)
               /\ Midway("insert", c, K, Empty, txn[w], row[x], hist[x], x)
    BY <2>2 DEF Named, Midway, Creates, Seen, Empty
  <2>5. QED
    BY <1>2, <2>1, <2>3, <2>4, BeginAdvances DEF c
<1>8. CASE BeginUpdate(w)
  <2>1. PICK K \in SUBSET Key, v \in Value :
          Begin(w, [op |-> "update", keys |-> K, scope |-> CtxScope[w], val |-> v], "lock",
                {k \in K : Selected(w, VisibleRow(w, k))})
    BY <1>8 DEF BeginUpdate
  <2> DEFINE c == [op |-> "update", keys |-> K, scope |-> CtxScope[w], val |-> v]
  <2> DEFINE work == {k \in K : Selected(w, VisibleRow(w, k))}
  <2>2. c.op = "update"
    OBVIOUS
  <2> HIDE DEF c, work
  <2>3. unused' = unused /\ Allotted("lock", c, work) = {}
    BY <1>8, <2>2 DEF BeginUpdate, Allotted, Creates
  <2>4. ASSUME NEW x \in Key
        PROVE  /\ Named(c, txn[w], row[x], hist[x], x)
               /\ Midway("lock", c, work, Empty, txn[w], row[x], hist[x], x)
    BY <2>2 DEF Named, Midway, Empty
  <2>5. QED
    BY <1>2, <2>1, <2>3, <2>4, BeginAdvances DEF c, work
<1>9. CASE BeginBulkUpdate(w)
  <2>1. PICK K \in SUBSET KnownKeys(w) \ {{}}, v \in Value :
          Begin(w, [op |-> "bulk_update", keys |-> K, scope |-> CtxScope[w], val |-> v], "lock",
                {k \in K : VisibleRow(w, k) # Null})
    BY <1>9 DEF BeginBulkUpdate
  <2> DEFINE c == [op |-> "bulk_update", keys |-> K, scope |-> CtxScope[w], val |-> v]
  <2> DEFINE work == {k \in K : VisibleRow(w, k) # Null}
  <2>2. c.op = "bulk_update" /\ c.keys = K /\ \A x \in K \ work : VisibleRow(w, x) = Null
    OBVIOUS
  <2> HIDE DEF c, work
  <2>3. unused' = unused /\ Allotted("lock", c, work) = {}
    BY <1>9, <2>2 DEF BeginBulkUpdate, Allotted, Creates
  <2>4. ASSUME NEW x \in Key
        PROVE  /\ Named(c, txn[w], row[x], hist[x], x)
               /\ Midway("lock", c, work, Empty, txn[w], row[x], hist[x], x)
    BY <1>3, <2>2 DEF Named, Midway, SaveOps
  <2>5. QED
    BY <1>2, <2>1, <2>3, <2>4, BeginAdvances DEF c, work
<1>10. CASE BeginDelete(w)
  <2>1. PICK K \in {{k} : k \in KnownKeys(w)}
                   \union {{k \in K : Selected(w, VisibleRow(w, k))} : K \in SUBSET Key} :
          Begin(w, [op |-> "delete", keys |-> K, scope |-> CtxScope[w], val |-> NoCall.val],
                "lock", K)
    BY <1>10 DEF BeginDelete
  <2> DEFINE c == [op |-> "delete", keys |-> K, scope |-> CtxScope[w], val |-> NoCall.val]
  <2>2. c.op = "delete" /\ c.keys = K
    OBVIOUS
  <2> HIDE DEF c
  <2>3. unused' = unused /\ Allotted("lock", c, K) = {}
    BY <1>10, <2>2 DEF BeginDelete, Allotted, Creates
  <2>4. ASSUME NEW x \in K PROVE x \in DOMAIN txn[w].row \/ row[x] # Null \/ hist[x] # Null
    <3>1. x \in KnownKeys(w) \/ VisibleRow(w, x) # Null
      BY <2>1 DEF Selected
    <3>2. QED
      BY <1>3, <3>1 DEF VisibleRow
  <2>5. ASSUME NEW x \in Key
        PROVE  /\ Named(c, txn[w], row[x], hist[x], x)
               /\ Midway("lock", c, K, Empty, txn[w], row[x], hist[x], x)
    BY <2>2, <2>4 DEF Named, Midway, SaveOps
  <2>6. QED
    BY <1>2, <2>1, <2>3, <2>5, BeginAdvances DEF c
<1>11. QED
  BY <1>4, <1>5, <1>6, <1>7, <1>8, <1>9, <1>10 DEF Start

\* A lock is taken of a row that is there.
LEMMA LockedTaken ==
  ASSUME NEW P, Standing(P), NEW w \in Worker, NEW k \in Key
  PROVE  LET u == Locked(w, k)[w] IN
         /\ \A x \in DOMAIN u.row : x \in DOMAIN txn[w].row \/ VisibleRow(w, x) # Null
         /\ "save" \in Ops => LiveTxn(u)
         /\ VisibleRow(w, k) = Null => u = txn[w]
         /\ VisibleRow(w, k) # Null => k \in DOMAIN u.row /\ u.row[k] = VisibleRow(w, k)
<1> DEFINE u == Locked(w, k)[w]
<1>1. /\ VisibleRow(w, k) # Null => k \in DOMAIN u.row /\ u.row[k] = VisibleRow(w, k)
      /\ \A y \in DOMAIN txn[w].row : u.row[y] = txn[w].row[y]
      /\ DOMAIN u.row \subseteq DOMAIN txn[w].row \union {k}
      /\ VisibleRow(w, k) = Null => u = txn[w]
  BY LockedGood DEF Standing, IInv, Locked
<1>2. "save" \in Ops => LiveTxn(txn[w])
  BY DEF Standing, PromiseInv, LiveRows
<1> HIDE DEF u
<1>3. "save" \in Ops => LiveTxn(u)
  BY <1>1, <1>2 DEF LiveTxn
<1>4. QED
  BY <1>1, <1>3 DEF u

\* save() of an instance finds its row: where save() is used none is deleted.
LEMMA SaveFinds ==
  ASSUME NEW P, Standing(P), NEW w \in Worker, call[w].op = "save", NEW k \in Key, k \in call[w].keys
  PROVE  VisibleRow(w, k) # Null
<1>1. "save" \in Ops /\ Entry(w, k) /\ LiveRows
  BY DEF Standing, PromiseInv, Ledgers, Owning
<1>2. k \in DOMAIN mark[w].row \/ row[k] # Null \/ hist[k] # Null
  BY <1>1 DEF Entry, Named
<1>3. DOMAIN mark[w].row \subseteq DOMAIN txn[w].row
  BY DEF Standing, ScopeInv, Orderly
<1>4. QED
  BY <1>1, <1>2, <1>3 DEF LiveRows, LiveTxn, VisibleRow

\* save_base() and the INSERTs write what they are going to record.
LEMMA SaveAdvances ==
  ASSUME NEW P, Standing(P), NoReuse, NEW w \in Worker,
         SaveLoads(w) \/ SaveUpdates(w) \/ InsertRow(w)
  PROVE  Advances(w)
<1>1. /\ IInv(P) /\ FreshInv /\ LiveRows /\ Owning(w) /\ OwnedHeads(hist, txn[w])
      /\ todo[w] \in SUBSET Key /\ call[w] \in CallType /\ DOMAIN seen = Worker
      /\ \A k \in Key : Entry(w, k)
  BY DEF Standing, PromiseInv, Ledgers, Owning, IInv, GoodControl
<1>2. Owning(w)'
  BY <1>1, SaveOwns
<1>3. DOMAIN mark[w].row \subseteq DOMAIN txn[w].row
  BY DEF Standing, ScopeInv, Orderly
<1>4. CASE Raise(w)
  BY <1>4, RaiseAdvances
<1>5. CASE SaveLoads(w) /\ ~Raise(w)
  <2> DEFINE next == IF call[w].op = "create" THEN "insert" ELSE "write"
  <2>1. PICK k \in todo[w] :
          /\ VisibleRow(w, k) # Null => ~MovesScope(w, VisibleRow(w, k))
          /\ txn' = Locked(w, k) /\ Goto(w, next, {k})
          /\ seen' = [seen EXCEPT ![w] = [x \in {k} |-> Snapshot(VisibleRow(w, k))]]
    BY <1>5 DEF SaveLoads
  <2>2. pc[w] = "lock" /\ call[w].op \in SaveOps /\ call[w].op \in Ops
    BY <1>1, <1>5 DEF SaveLoads, Owning, SaveOps
  <2>3. call[w].keys = {k} /\ k \in Key
    BY <1>1, <2>1, <2>2 DEF Owning
  <2> DEFINE u == txn'[w]
  <2>4. /\ \A x \in DOMAIN u.row : x \in DOMAIN txn[w].row \/ VisibleRow(w, x) # Null
        /\ "save" \in Ops => LiveTxn(u)
        /\ VisibleRow(w, k) = Null => u = txn[w]
        /\ VisibleRow(w, k) # Null => k \in DOMAIN u.row /\ u.row[k] = VisibleRow(w, k)
    BY <2>1, <2>3, LockedTaken
  <2>5. Seen(seen'[w], k) = Snapshot(VisibleRow(w, k))
    BY <1>1, <2>1 DEF Seen
  <2>6. call[w].op = "create" => VisibleRow(w, k) = Null /\ k \in AllottedTo(w)
    <3> SUFFICES ASSUME call[w].op = "create"
                 PROVE  VisibleRow(w, k) = Null /\ k \in AllottedTo(w)
      OBVIOUS
    <3>1. k \in AllottedTo(w)
      BY <2>1, <2>2 DEF AllottedTo, Allotted, Creates
    <3>2. QED
      BY <1>1, <3>1 DEF FreshInv, Fresh, VisibleRow
  <2>7. call[w].op \in {"save", "restore"} => VisibleRow(w, k) # Null
    <3>1. call[w].op = "restore" => Reconciled("lock", txn[w], seen[w], k)
      BY <1>1, <2>1, <2>2 DEF IInv, RestoreHolds, RestoreAt
    <3>2. QED
      BY <2>3, <3>1, SaveFinds DEF Reconciled, VisibleRow
  <2>8. Pending("lock", call[w], todo[w]) = {}
    BY <2>2 DEF Pending, SaveOps
  <2> HIDE DEF u
  <2>9. ASSUME NEW x \in Key
        PROVE  /\ Honest(w, row[x], hist[x], u, x) /\ Clean(row[x], hist[x], u, x)
               /\ Midway(next, call[w], {k}, seen'[w], u, row[x], hist[x], x)
    <3>1. Entry(w, x) /\ Honest(w, row[x], hist[x], txn[w], x) /\ Clean(row[x], hist[x], txn[w], x)
      BY <1>1, <2>2, <2>8 DEF Entry
    <3>2. Honest(w, row[x], hist[x], u, x) /\ Clean(row[x], hist[x], u, x)
      BY <1>1, <2>1, <2>3, <3>1, LockedSays DEF u
    <3>3. CASE call[w].op = "create"
      BY <2>3, <2>5, <2>6, <3>2, <3>3 DEF Midway, Creates, Snapshot
    <3>4. CASE call[w].op # "create" /\ x = k
      <4>1. CASE VisibleRow(w, k) # Null
        <5>1. Owns(u, k, Seen(seen'[w], k)) /\ u.row[k].scope = call[w].scope
          BY <2>1, <2>4, <2>5, <4>1 DEF Owns, Snapshot, MovesScope
        <5>2. QED
          BY <2>2, <3>2, <3>4, <5>1 DEF Midway, SaveOps
      <4>2. CASE VisibleRow(w, k) = Null
        <5>1. call[w].op = "save_fields"
          BY <2>2, <2>7, <3>4, <4>2 DEF SaveOps
        <5>2. k \in DOMAIN mark[w].row \/ row[k] # Null \/ hist[k] # Null
          BY <2>3, <3>1, <3>4, <5>1 DEF Entry, Named
        <5>3. IF k \in DOMAIN u.row THEN u.row[k] = Null ELSE Gone(row[k], hist[k])
          BY <1>3, <2>4, <4>2, <5>2 DEF VisibleRow, Gone
        <5>4. QED
          BY <2>2, <3>2, <3>4, <5>1, <5>3 DEF Midway, SaveOps
      <4>3. QED
        BY <4>1, <4>2
    <3>5. CASE call[w].op # "create" /\ x # k
      BY <2>2, <3>2, <3>5 DEF Midway, SaveOps
    <3>6. QED
      BY <3>2, <3>3, <3>4, <3>5
  <2>10. Allotted(next, call[w], {k}) \subseteq AllottedTo(w)
    BY <2>2, <2>6 DEF Allotted, Creates, SaveOps
  <2>11. QED
    BY <1>2, <2>1, <2>4, <2>9, <2>10, GotoAdvances DEF u
<1>6. CASE SaveUpdates(w) /\ ~Raise(w)
  <2>1. pc[w] = "write" /\ call[w].op \in SaveOps
    BY <1>6 DEF SaveUpdates
  <2>2. PICK k \in todo[w] :
          LET new == [scope |-> IF call[w].op = "save" THEN call[w].scope
                                                       ELSE VisibleRow(w, k).scope,
                      val |-> call[w].val]
          IN \/ /\ VisibleRow(w, k) # Null /\ seen' = seen
                /\ txn' = PutRows(w, [x \in {k} |-> new]) /\ Goto(w, "record", {k})
             \/ VisibleRow(w, k) = Null /\ call[w].op = "save"
    BY <1>6 DEF SaveUpdates
  <2>3. call[w].keys = {k} /\ k \in Key
    BY <1>1, <2>1, <2>2 DEF Owning
  <2>4. VisibleRow(w, k) # Null /\ seen' = seen /\ Goto(w, "record", {k})
    BY <2>2, <2>3, SaveFinds
  <2>5. Owns(txn[w], k, Seen(seen[w], k)) /\ txn[w].row[k].scope = call[w].scope
    BY <1>1, <2>1, <2>3, <2>4 DEF Entry, Midway, VisibleRow, Gone
  <2>6. VisibleRow(w, k) = txn[w].row[k] /\ k \in DOMAIN txn[w].row
    BY <2>5 DEF Owns, VisibleRow
  <2> DEFINE new == [scope |-> call[w].scope, val |-> call[w].val]
  <2> DEFINE f == [x \in {k} |-> new]
  <2>7. txn' = PutRows(w, f)
    BY <2>2, <2>4, <2>5, <2>6
  <2>8. new \in Row /\ new # Null /\ new.scope = call[w].scope
    BY <1>1, AbsenceAssumption DEF Row, CallType
  <2>9. Partial(f, MaybeRow) /\ DOMAIN f = {k} /\ f[k] = new
    BY <2>3, <2>8 DEF Partial, MaybeRow
  <2> HIDE DEF f, new
  <2> DEFINE u == txn'[w]
  <2>10. Pending("write", call[w], todo[w]) = {}
    BY DEF Pending
  <2>11. ASSUME NEW x \in Key
         PROVE  /\ Honest(w, row[x], hist[x], u, x)
                /\ x \notin Pending("record", call[w], {k}) => Clean(row[x], hist[x], u, x)
                /\ Midway("record", call[w], {k}, seen'[w], u, row[x], hist[x], x)
    <3>1. Honest(w, row[x], hist[x], txn[w], x) /\ Clean(row[x], hist[x], txn[w], x)
      BY <1>1, <2>1, <2>10 DEF Entry
    <3>2. /\ x \notin DOMAIN f => SameAt(txn[w], u, x)
          /\ x \in DOMAIN f => x \in DOMAIN u.row /\ u.row[x] = f[x]
          /\ Written(hist[x], u, x) <=> Written(hist[x], txn[w], x)
          /\ Saying(row[x], hist[x], u, x) = Saying(row[x], hist[x], txn[w], x)
          /\ /\ Honest(w, row[x], hist[x], txn[w], x)
             /\ x \in DOMAIN f /\ f[x] # Null /\ row[x] = Null => hist[x] = Null
             => Honest(w, row[x], hist[x], u, x)
      BY <1>1, <2>7, <2>9, PutRowsSays
    <3> HIDE DEF u
    <3>3. CASE x = k
      <4>1. row[x] = Null => hist[x] = Null
        BY <2>5, <3>1, <3>3 DEF Honest, Owns
      <4>2. Seen(seen[w], k) = Saying(row[k], hist[k], txn[w], k)
        BY <2>5, <3>1, <3>3 DEF Owns, Clean, Snapshot
      <4>3. ~Written(hist[k], txn[w], k) => txn[w].row[k] = row[k]
        BY <2>6, <3>1, <3>3 DEF Clean
      <4>4. Midway("record", call[w], {k}, seen'[w], u, row[x], hist[x], x)
        BY <2>4, <2>5, <2>8, <2>9, <3>2, <3>3, <4>2, <4>3 DEF Midway
      <4>5. QED
        BY <3>1, <3>2, <3>3, <4>1, <4>4 DEF Pending
    <3>4. CASE x # k
      <4>1. Midway("record", call[w], {k}, seen'[w], u, row[x], hist[x], x)
        BY <3>4 DEF Midway
      <4>2. QED
        BY <2>9, <3>1, <3>2, <3>4, <4>1, SameSays
    <3>5. QED
      BY <3>3, <3>4
  <2>12. Allotted("record", call[w], {k}) = {}
    BY DEF Allotted
  <2>13. /\ DOMAIN u.row \subseteq DOMAIN txn[w].row
         /\ "save" \in Ops => LiveTxn(u)
    <3>1. /\ DOMAIN u.row = DOMAIN f \union DOMAIN txn[w].row
          /\ \A x \in DOMAIN f : u.row[x] = f[x]
          /\ \A x \in DOMAIN txn[w].row \ DOMAIN f : u.row[x] = txn[w].row[x]
      BY <1>1, <2>7, <2>9, PutRowsGood DEF IInv
    <3> HIDE DEF u
    <3>2. QED
      BY <1>1, <2>6, <2>8, <2>9, <3>1 DEF LiveRows, LiveTxn
  <2>14. QED
    BY <1>2, <2>4, <2>11, <2>12, <2>13, GotoAdvances
<1>7. CASE InsertRow(w) /\ ~Raise(w)
  <2> DEFINE new == [scope |-> call[w].scope, val |-> call[w].val]
  <2>1. pc[w] = "insert"
    BY <1>7 DEF InsertRow
  <2>2. PICK k \in todo[w] :
          /\ txn' = PutRows(w, [x \in {k} |-> new]) /\ seen' = seen
          /\ IF todo[w] = {k} THEN Goto(w, "record", call[w].keys)
                              ELSE Goto(w, "insert", todo[w] \ {k})
    BY <1>7 DEF InsertRow
  <2>3. todo[w] \subseteq call[w].keys /\ k \in Key /\ k \in call[w].keys
    BY <1>1, <2>1, <2>2 DEF Standing, ScopeInv, Orderly, Visits
  <2>4. /\ call[w].op \in Creates
        /\ \A x \in call[w].keys :
             /\ Seen(seen[w], x) = Null
             /\ x \notin todo[w] => row[x] = Null /\ hist[x] = Null /\ x \notin DOMAIN txn[w].hist
    BY <1>1, <2>1, <2>3 DEF Entry, Midway, CallType
  <2>5. AllottedTo(w) = todo[w]
    BY <2>1, <2>4 DEF AllottedTo, Allotted
  <2>6. Fresh(k)
    BY <1>1, <2>5 DEF FreshInv
  <2>7. row[k] = Null /\ hist[k] = Null /\ k \notin DOMAIN txn[w].row /\ k \notin DOMAIN txn[w].hist
    <3>1. row[k] = Null /\ hist[k] = Null /\ k \notin DOMAIN txn[w].row
      BY <2>6 DEF Fresh
    <3>2. k \in DOMAIN txn[w].hist => txn[w].hist[k] # Null
      BY <1>1 DEF IInv, GoodTxns, GoodTxn
    <3>3. QED
      BY <1>1, <3>1, <3>2 DEF OwnedHeads
  <2> DEFINE f == [x \in {k} |-> new]
  <2>8. new \in Row /\ new # Null
    BY <1>1, AbsenceAssumption DEF Row, CallType
  <2>9. Partial(f, MaybeRow) /\ DOMAIN f = {k} /\ f[k] = new
    BY <2>3, <2>8 DEF Partial, MaybeRow
  <2> HIDE DEF new
  <2> DEFINE u == txn'[w]
  <2> DEFINE next == IF todo[w] = {k} THEN "record" ELSE "insert"
  <2> DEFINE work == IF todo[w] = {k} THEN call[w].keys ELSE todo[w] \ {k}
  <2>10. Goto(w, next, work)
    BY <2>2
  <2>11. txn' = PutRows(w, f)
    BY <2>2
  <2>20. \/ next = "record" /\ work = call[w].keys /\ todo[w] = {k}
         \/ next = "insert" /\ work = todo[w] \ {k}
    OBVIOUS
  <2> HIDE DEF f, u, next, work
  <2>12. ASSUME NEW x \in Key
         PROVE  /\ Honest(w, row[x], hist[x], u, x)
                /\ x \notin Pending(next, call[w], work) => Clean(row[x], hist[x], u, x)
                /\ Midway(next, call[w], work, seen'[w], u, row[x], hist[x], x)
    <3>1. Entry(w, x) /\ Honest(w, row[x], hist[x], txn[w], x)
      BY <1>1 DEF Entry
    <3>2. /\ x \notin DOMAIN f => SameAt(txn[w], u, x)
          /\ u.hist = txn[w].hist
          /\ Written(hist[x], u, x) <=> Written(hist[x], txn[w], x)
          /\ Saying(row[x], hist[x], u, x) = Saying(row[x], hist[x], txn[w], x)
          /\ /\ Honest(w, row[x], hist[x], txn[w], x)
             /\ x \in DOMAIN f /\ f[x] # Null /\ row[x] = Null => hist[x] = Null
             => Honest(w, row[x], hist[x], u, x)
      BY <1>1, <2>9, <2>11, PutRowsSays DEF u
    <3>3. Honest(w, row[x], hist[x], u, x)
      BY <2>7, <2>9, <3>1, <3>2
    <3>4. Pending("insert", call[w], todo[w]) \union {k} \subseteq Pending(next, call[w], work)
      BY <2>3, <2>20 DEF Pending
    <3>5. x \notin Pending(next, call[w], work) => Clean(row[x], hist[x], u, x)
      <4> SUFFICES ASSUME x \notin Pending(next, call[w], work)
                   PROVE  Clean(row[x], hist[x], u, x)
        OBVIOUS
      <4>1. x # k /\ x \notin Pending("insert", call[w], todo[w])
        BY <3>4
      <4>2. Clean(row[x], hist[x], txn[w], x)
        BY <2>1, <3>1, <4>1 DEF Entry
      <4>3. QED
        BY <2>9, <3>2, <4>1, <4>2, SameSays
    <3>6. x \in call[w].keys /\ (x = k \/ x \notin todo[w]) =>
            row[x] = Null /\ hist[x] = Null /\ x \notin DOMAIN u.hist
      BY <2>4, <2>7, <3>2
    <3>7. CASE next = "insert" /\ work = todo[w] \ {k}
      BY <2>2, <2>4, <3>3, <3>5, <3>6, <3>7 DEF Midway
    <3>8. CASE next = "record" /\ work = call[w].keys /\ todo[w] = {k}
      <4>1. x \in call[w].keys => ~Written(hist[x], u, x) /\ Saying(row[x], hist[x], u, x) = Null
        BY <3>6, <3>8 DEF Written, Saying, Snapshot
      <4>2. x \in call[w].keys => Seen(seen'[w], x) = Null /\ row[x] = Null
        BY <2>2, <2>4, <3>6, <3>8
      <4>3. Midway("record", call[w], call[w].keys, seen'[w], u, row[x], hist[x], x)
        BY <4>1, <4>2 DEF Midway
      <4>4. QED
        BY <3>3, <3>5, <3>8, <4>3
    <3>9. QED
      BY <2>20, <3>3, <3>5, <3>7, <3>8
  <2>13. /\ Allotted(next, call[w], work) \subseteq AllottedTo(w)
         /\ k \in AllottedTo(w) \ Allotted(next, call[w], work)
    BY <2>5, <2>20 DEF Allotted
  <2>14. /\ DOMAIN u.row \subseteq DOMAIN txn[w].row \union {k}
         /\ "save" \in Ops => LiveTxn(u)
    <3>1. /\ DOMAIN u.row = DOMAIN f \union DOMAIN txn[w].row
          /\ \A x \in DOMAIN f : u.row[x] = f[x]
          /\ \A x \in DOMAIN txn[w].row \ DOMAIN f : u.row[x] = txn[w].row[x]
      BY <1>1, <2>9, <2>11, PutRowsGood DEF IInv, u
    <3>2. QED
      BY <1>1, <2>8, <2>9, <3>1 DEF LiveRows, LiveTxn
  <2>15. QED
    BY <1>2, <2>10, <2>12, <2>13, <2>14, GotoAdvances DEF u
<1>8. QED
  BY <1>4, <1>5, <1>6, <1>7

\* update() and bulk_update() write to rows they took snapshots of under lock.
LEMMA UpdateAdvances ==
  ASSUME NEW P, Standing(P), NEW w \in Worker,
         UpdateLocks(w) \/ BulkUpdateLocks(w) \/ BulkUpdateReads(w) \/ UpdateRows(w)
  PROVE  Advances(w)
<1>1. /\ IInv(P) /\ LiveRows /\ Owning(w) /\ OwnedHeads(hist, txn[w])
      /\ todo[w] \in SUBSET Key /\ call[w] \in CallType /\ DOMAIN seen = Worker
      /\ Partial(seen[w], Image) /\ \A k \in Key : Entry(w, k)
  BY DEF Standing, PromiseInv, Ledgers, Owning, IInv, GoodControl
<1>2. DOMAIN mark[w].row \subseteq DOMAIN txn[w].row
  BY DEF Standing, ScopeInv, Orderly
<1>3. call[w].op \in {"update", "bulk_update"} /\ pc[w] \in {"lock", "write"}
  BY DEF UpdateLocks, BulkUpdateLocks, BulkUpdateReads, UpdateRows
<1>4. ASSUME NEW x \in Key
      PROVE  /\ Honest(w, row[x], hist[x], txn[w], x) /\ Clean(row[x], hist[x], txn[w], x)
             /\ Midway(pc[w], call[w], todo[w], seen[w], txn[w], row[x], hist[x], x)
  BY <1>1, <1>3 DEF Entry, Pending
<1>5. \A p, K : Allotted(p, call[w], K) = {}
  BY <1>3 DEF Allotted, Creates
<1>6. call[w].op # "bulk_update" => Owning(w)'
  BY <1>1, UpdateOwns
<1>7. call[w].op \notin SaveOps
  BY <1>3 DEF SaveOps
<1>8. CASE Raise(w)
  BY <1>8, RaiseAdvances
<1>9. ASSUME NEW k \in Key, txn' \in {txn, Locked(w, k)}, Goto(w, "lock", todo[w] \ {k}), Owning(w)',
             call[w].op = "update" => DOMAIN seen'[w] \subseteq DOMAIN seen[w] \union {k},
             \A x \in Key : Midway("lock", call[w], todo[w] \ {k}, seen'[w], txn'[w], row[x], hist[x], x)
      PROVE  Advances(w)
  <2> DEFINE u == txn'[w]
  <2>1. /\ \A x \in DOMAIN u.row : x \in DOMAIN txn[w].row \/ VisibleRow(w, x) # Null
        /\ "save" \in Ops => LiveTxn(u)
    BY <1>1, <1>9, LockedTaken DEF LiveRows
  <2>2. ASSUME NEW x \in Key PROVE Honest(w, row[x], hist[x], u, x) /\ Clean(row[x], hist[x], u, x)
    BY <1>1, <1>4, <1>9, LockedSays
  <2>3. QED
    BY <1>5, <1>9, <2>1, <2>2, GotoAdvances
<1>10. CASE UpdateLocks(w)
  <2>1. pc[w] = "lock" /\ call[w].op = "update"
    BY <1>10 DEF UpdateLocks
  <2>2. PICK k \in LockOrder(todo[w]) :
          /\ \/ /\ VisibleRow(w, k) # Null /\ txn' = Locked(w, k)
                /\ seen' = [seen EXCEPT ![w] =
                     Merge([x \in {k} |-> Snapshot(VisibleRow(w, k))], @)]
             \/ txn' = txn /\ seen' = seen
          /\ Goto(w, "lock", todo[w] \ {k})
    BY <1>10 DEF UpdateLocks, Selected
  <2>3. k \in Key
    BY <1>1 DEF LockOrder, FirstOf
  <2>4. CASE txn' = txn /\ seen' = seen
    <3>1. ASSUME NEW x \in Key
          PROVE  Midway("lock", call[w], todo[w] \ {k}, seen[w], txn[w], row[x], hist[x], x)
      BY <1>4, <2>1 DEF Midway
    <3>2. QED
      BY <1>6, <1>9, <2>1, <2>2, <2>3, <2>4, <3>1
  <2>5. CASE /\ VisibleRow(w, k) # Null /\ txn' = Locked(w, k)
             /\ seen' = [seen EXCEPT ![w] =
                  Merge([x \in {k} |-> Snapshot(VisibleRow(w, k))], @)]
    <3> DEFINE u == txn'[w]
    <3>1. /\ DOMAIN seen'[w] = DOMAIN seen[w] \union {k}
          /\ seen'[w][k] = Snapshot(VisibleRow(w, k))
          /\ \A x \in DOMAIN seen[w] \ {k} : seen'[w][x] = seen[w][x]
      BY <1>1, <2>5 DEF Merge
    <3>2. k \in DOMAIN u.row /\ u.row[k] = VisibleRow(w, k)
      BY <2>3, <2>5, LockedTaken
    <3>3. \A x \in Key : x # k \/ x \in DOMAIN txn[w].row => SameAt(txn[w], u, x)
      BY <1>1, <2>3, <2>5, LockedSays
    <3> HIDE DEF u
    <3>4. ASSUME NEW x \in Key
          PROVE  Midway("lock", call[w], todo[w] \ {k}, seen'[w], u, row[x], hist[x], x)
      <4> SUFFICES ASSUME x \in DOMAIN seen'[w] PROVE Owns(u, x, seen'[w][x])
        BY <2>1 DEF Midway
      <4>1. CASE x = k
        BY <2>5, <3>1, <3>2, <4>1 DEF Owns, Snapshot
      <4>2. CASE x # k
        <5>1. Owns(txn[w], x, seen[w][x])
          BY <1>4, <2>1, <3>1, <4>2 DEF Midway
        <5>2. QED
          BY <3>1, <3>3, <4>2, <5>1, SameSays
      <4>3. QED
        BY <4>1, <4>2
    <3>5. QED
      BY <1>6, <1>9, <2>1, <2>2, <2>3, <2>5, <3>1, <3>4 DEF u
  <2>6. QED
    BY <2>2, <2>4, <2>5
<1>11. CASE BulkUpdateLocks(w) /\ ~Raise(w)
  <2>1. pc[w] = "lock" /\ call[w].op = "bulk_update"
    BY <1>11 DEF BulkUpdateLocks
  <2>2. PICK k \in LockOrder(todo[w]) :
          txn' = Locked(w, k) /\ Goto(w, "lock", todo[w] \ {k}) /\ seen' = seen
    BY <1>11 DEF BulkUpdateLocks
  <2>3. k \in Key
    BY <1>1 DEF LockOrder, FirstOf
  <2> DEFINE u == txn'[w]
  <2>4. /\ VisibleRow(w, k) = Null => u = txn[w]
        /\ VisibleRow(w, k) # Null => k \in DOMAIN u.row
    BY <2>2, <2>3, LockedTaken
  <2>5. \A x \in Key : x # k \/ x \in DOMAIN txn[w].row => SameAt(txn[w], u, x)
    BY <1>1, <2>2, <2>3, LockedSays
  <2>6. OwnedHeads(hist, u)
    BY <1>1, <2>2, <2>3, RowsOwned
  <2> HIDE DEF u
  <2>7. ASSUME NEW x \in Key
        PROVE  Midway("lock", call[w], todo[w] \ {k}, seen'[w], u, row[x], hist[x], x)
    <3> SUFFICES ASSUME x \in call[w].keys, x \notin todo[w] \/ x = k
                 PROVE  x \in DOMAIN u.row \/ Gone(row[x], hist[x])
      BY <1>7, <2>1 DEF Midway
    <3>1. CASE x # k
      <4>1. x \in DOMAIN txn[w].row \/ Gone(row[x], hist[x])
        BY <1>4, <2>1, <3>1 DEF Midway
      <4>2. QED
        BY <2>5, <3>1, <4>1 DEF SameAt
    <3>2. CASE x = k
      <4>1. k \in DOMAIN mark[w].row \/ row[k] # Null \/ hist[k] # Null
        BY <1>1, <2>1, <3>2 DEF Entry, Named
      <4>2. QED
        BY <1>2, <2>4, <3>2, <4>1 DEF VisibleRow, Gone
    <3>3. QED
      BY <3>1, <3>2
  <2>8. Owning(w)'
    BY <1>1, <1>7, <2>1, <2>2, <2>6, GotoOwns DEF u
  <2>9. QED
    BY <1>9, <2>1, <2>2, <2>3, <2>7, <2>8 DEF u
<1>12. CASE BulkUpdateReads(w)
  <2> DEFINE S == {x \in call[w].keys : Selected(w, VisibleRow(w, x))}
  <2>1. /\ pc[w] = "lock" /\ call[w].op = "bulk_update" /\ todo[w] = {}
        /\ Goto(w, "write", {}) /\ txn' = txn
    BY <1>12 DEF BulkUpdateReads
  <2>2. seen'[w] = [k \in S |-> Snapshot(VisibleRow(w, k))]
    BY <1>1, <1>12 DEF BulkUpdateReads
  <2>3. ASSUME NEW x \in Key
        PROVE  Midway("write", call[w], {}, seen'[w], txn[w], row[x], hist[x], x)
    <3> SUFFICES ASSUME x \in S PROVE Owns(txn[w], x, Snapshot(VisibleRow(w, x)))
      BY <1>7, <2>1, <2>2 DEF Midway
    <3>1. VisibleRow(w, x) # Null /\ x \in call[w].keys
      BY DEF Selected
    <3>2. x \in DOMAIN txn[w].row \/ Gone(row[x], hist[x])
      BY <1>4, <2>1, <3>1 DEF Midway
    <3>3. QED
      BY <3>1, <3>2 DEF Owns, Snapshot, VisibleRow, Gone
  <2>4. Owning(w)'
    BY <1>1, <1>7, <2>1, GotoOwns
  <2>5. QED
    BY <1>1, <1>4, <1>5, <2>1, <2>3, <2>4, GotoAdvances DEF LiveRows
<1>13. CASE UpdateRows(w)
  <2> DEFINE hit == {k \in DOMAIN seen[w] : VisibleRow(w, k) # Null}
  <2> DEFINE f == [k \in hit |-> [VisibleRow(w, k) EXCEPT !.val = call[w].val]]
  <2>1. txn' = PutRows(w, f) /\ Goto(w, "record", DOMAIN seen[w]) /\ seen' = seen
    BY <1>13 DEF UpdateRows
  <2>2. \A k \in hit : k \in Key /\ VisibleRow(w, k) \in Row
    BY <1>1, VisibleTyped DEF Partial, IInv, MaybeRow
  <2>3. \A k \in hit : f[k] \in Row /\ f[k].scope = VisibleRow(w, k).scope
    BY <1>1, <2>2 DEF Row, CallType
  <2>4. Partial(f, MaybeRow)
    BY <2>2, <2>3 DEF Partial, MaybeRow
  <2>5. \A k \in DOMAIN seen[w] : k \in Key /\ Owns(txn[w], k, seen[w][k])
    <3>1. DOMAIN seen[w] \subseteq Key
      BY <1>1 DEF Partial
    <3>2. QED
      BY <1>4, <1>13, <3>1 DEF Midway, UpdateRows
  <2>6. DOMAIN f = DOMAIN seen[w] /\ \A k \in DOMAIN seen[w] : VisibleRow(w, k) = txn[w].row[k]
    BY <2>5 DEF Owns, VisibleRow
  <2>7. \A k \in DOMAIN seen[w] : f[k] \in Row /\ f[k] # Null /\ f[k].scope = txn[w].row[k].scope
    <3>1. DOMAIN f = hit
      OBVIOUS
    <3> HIDE DEF f, hit
    <3>2. QED
      BY <2>3, <2>5, <2>6, <3>1, AbsenceAssumption DEF Owns
  <2> HIDE DEF f, hit
  <2> DEFINE u == txn'[w]
  <2>8. /\ DOMAIN u.row = DOMAIN f \union DOMAIN txn[w].row
        /\ \A x \in DOMAIN f : u.row[x] = f[x]
        /\ \A x \in DOMAIN txn[w].row \ DOMAIN f : u.row[x] = txn[w].row[x]
    BY <1>1, <2>1, <2>4, PutRowsGood DEF IInv
  <2>9. DOMAIN u.row = DOMAIN txn[w].row /\ ("save" \in Ops => LiveTxn(u))
    BY <1>1, <2>5, <2>6, <2>7, <2>8 DEF LiveRows, LiveTxn, Owns
  <2>10. ASSUME NEW x \in Key
         PROVE  /\ Honest(w, row[x], hist[x], u, x)
                /\ x \notin Pending("record", call[w], DOMAIN seen[w]) => Clean(row[x], hist[x], u, x)
                /\ Midway("record", call[w], DOMAIN seen[w], seen[w], u, row[x], hist[x], x)
    <3>1. /\ x \notin DOMAIN f => SameAt(txn[w], u, x)
          /\ x \in DOMAIN f => x \in DOMAIN u.row /\ u.row[x] = f[x]
          /\ Written(hist[x], u, x) <=> Written(hist[x], txn[w], x)
          /\ Saying(row[x], hist[x], u, x) = Saying(row[x], hist[x], txn[w], x)
          /\ /\ Honest(w, row[x], hist[x], txn[w], x)
             /\ x \in DOMAIN f /\ f[x] # Null /\ row[x] = Null => hist[x] = Null
             => Honest(w, row[x], hist[x], u, x)
      BY <1>1, <2>1, <2>4, PutRowsSays
    <3> HIDE DEF u
    <3>2. Honest(w, row[x], hist[x], txn[w], x) /\ Clean(row[x], hist[x], txn[w], x)
      BY <1>4
    <3>3. CASE x \in DOMAIN seen[w]
      <4>1. /\ x \in DOMAIN txn[w].row /\ txn[w].row[x] # Null
            /\ Seen(seen[w], x) = Snapshot(txn[w].row[x])
        BY <2>5, <3>3 DEF Owns, Seen, Snapshot
      <4>2. row[x] = Null => hist[x] = Null
        BY <3>2, <4>1 DEF Honest
      <4>3. /\ Snapshot(txn[w].row[x]) = Saying(row[x], hist[x], txn[w], x)
            /\ ~Written(hist[x], txn[w], x) => txn[w].row[x] = row[x]
        BY <3>2, <4>1 DEF Clean
      <4>4. u.row[x].scope = txn[w].row[x].scope
        BY <2>6, <2>7, <3>1, <3>3
      <4>5. Midway("record", call[w], DOMAIN seen[w], seen[w], u, row[x], hist[x], x)
        BY <3>1, <4>1, <4>3, <4>4 DEF Midway
      <4>6. QED
        BY <3>1, <3>2, <3>3, <4>2, <4>5 DEF Pending
    <3>4. CASE x \notin DOMAIN seen[w]
      <4>1. Midway("record", call[w], DOMAIN seen[w], seen[w], u, row[x], hist[x], x)
        BY <3>4 DEF Midway
      <4>2. QED
        BY <2>6, <3>1, <3>2, <3>4, <4>1, SameSays
    <3>5. QED
      BY <3>3, <3>4
  <2>11. Owning(w)'
    <3>1. OwnedHeads(hist, u)
      BY <1>1, <2>1, <2>4, RowsOwned
    <3>2. DOMAIN seen[w] \subseteq DOMAIN u.row
      BY <2>5, <2>9 DEF Owns
    <3>3. QED
      BY <1>1, <1>7, <2>1, <3>1, <3>2, GotoOwns
  <2>12. QED
    BY <1>5, <2>1, <2>9, <2>10, <2>11, GotoAdvances
<1>14. QED
  BY <1>8, <1>10, <1>11, <1>12, <1>13

\* delete() records every row it is going to delete.
LEMMA DeleteAdvances ==
  ASSUME NEW P, Standing(P), NoReuse, NEW w \in Worker,
         DeleteLoads(w) \/ DeleteRecords(w) \/ DeleteRows(w)
  PROVE  Advances(w)
<1>1. /\ IInv(P) /\ LiveRows /\ Owning(w) /\ OwnedHeads(hist, txn[w])
      /\ todo[w] \in SUBSET Key /\ call[w] \in CallType /\ \A k \in Key : Entry(w, k)
  BY DEF Standing, PromiseInv, Ledgers, Owning, IInv, GoodControl
<1>2. Owning(w)' /\ DOMAIN mark[w].row \subseteq DOMAIN txn[w].row
  BY <1>1, DeleteOwns DEF Standing, ScopeInv, Orderly
<1>3. CASE Raise(w)
  BY <1>3, RaiseAdvances
<1>4. CASE DeleteLoads(w) /\ ~Raise(w)
  <2>1. pc[w] = "lock" /\ call[w].op = "delete"
    BY <1>4 DEF DeleteLoads
  <2>2. PICK k \in FirstOf(todo[w]) :
          /\ txn' = Locked(w, k) /\ seen' = seen
          /\ IF VisibleRow(w, k) = Null THEN Goto(w, "lock", todo[w] \ {k})
                                        ELSE Goto(w, "delete", todo[w])
    BY <1>4 DEF DeleteLoads
  <2>3. k \in Key /\ k \in todo[w]
    BY <1>1 DEF FirstOf
  <2> DEFINE u == txn'[w]
  <2> DEFINE next == IF VisibleRow(w, k) = Null THEN "lock" ELSE "delete"
  <2> DEFINE work == IF VisibleRow(w, k) = Null THEN todo[w] \ {k} ELSE todo[w]
  <2>4. /\ Goto(w, next, work) /\ next \in {"lock", "delete"}
        /\ VisibleRow(w, k) = Null => next = "lock" /\ work = todo[w] \ {k}
        /\ VisibleRow(w, k) # Null => next = "delete" /\ work = todo[w]
    BY <2>2
  <2> HIDE DEF next, work
  <2>5. /\ \A x \in DOMAIN u.row : x \in DOMAIN txn[w].row \/ VisibleRow(w, x) # Null
        /\ "save" \in Ops => LiveTxn(u)
        /\ VisibleRow(w, k) = Null => u = txn[w]
    BY <2>2, <2>3, LockedTaken
  <2>6. ASSUME NEW x \in Key
        PROVE  /\ Honest(w, row[x], hist[x], u, x)
               /\ x \notin Pending(next, call[w], work) => Clean(row[x], hist[x], u, x)
               /\ Midway(next, call[w], work, seen'[w], u, row[x], hist[x], x)
    <3>1. /\ Honest(w, row[x], hist[x], txn[w], x) => Honest(w, row[x], hist[x], u, x)
          /\ Clean(row[x], hist[x], txn[w], x) => Clean(row[x], hist[x], u, x)
          /\ x # k \/ x \in DOMAIN txn[w].row => SameAt(txn[w], u, x)
      BY <1>1, <2>2, <2>3, LockedSays
    <3> HIDE DEF u
    <3>2. /\ Honest(w, row[x], hist[x], txn[w], x)
          /\ x \notin call[w].keys \ todo[w] => Clean(row[x], hist[x], txn[w], x)
          /\ x \in todo[w] => x \in call[w].keys
          /\ x \in call[w].keys \ todo[w] => Passed(row[x], hist[x], txn[w], x)
          /\ Named(call[w], mark[w], row[x], hist[x], x)
      BY <1>1, <2>1 DEF Entry, Midway, Pending
    <3>3. x \notin Pending(next, call[w], work) => x \notin call[w].keys \ todo[w]
      BY <2>1, <2>4 DEF Pending
    <3>4. (x \in call[w].keys \ todo[w]) => Passed(row[x], hist[x], u, x)
      BY <2>3, <3>1, <3>2, SameSays
    <3>5. x = k /\ VisibleRow(w, k) = Null => Passed(row[x], hist[x], u, x)
      <4> SUFFICES ASSUME x = k, VisibleRow(w, k) = Null PROVE Passed(row[k], hist[k], u, k)
        OBVIOUS
      <4>1. u = txn[w] /\ Clean(row[k], hist[k], txn[w], k) /\ k \in call[w].keys
        BY <2>3, <2>5, <3>2 DEF u
      <4>2. CASE k \in DOMAIN txn[w].row
        <5>1. txn[w].row[k] = Null
          BY <4>2 DEF VisibleRow
        <5>2. /\ Saying(row[k], hist[k], txn[w], k) = Null
              /\ ~Written(hist[k], txn[w], k) => row[k] = Null
          BY <4>1, <4>2, <5>1 DEF Clean, Snapshot
        <5>3. QED
          BY <4>1, <4>2, <5>1, <5>2 DEF Passed
      <4>3. CASE k \notin DOMAIN txn[w].row
        <5>1. row[k] = Null /\ hist[k] # Null
          BY <1>2, <2>1, <3>2, <4>1, <4>3 DEF Named, VisibleRow
        <5>2. QED
          BY <4>1, <4>3, <5>1 DEF Passed, Gone
      <4>4. QED
        BY <4>2, <4>3
    <3>6. (x \in work => x \in call[w].keys) /\ (x \in call[w].keys \ work => Passed(row[x], hist[x], u, x))
      BY <2>4, <3>2, <3>4, <3>5
    <3>7. Midway(next, call[w], work, seen'[w], u, row[x], hist[x], x)
      BY <2>1, <2>4, <3>6 DEF Midway
    <3>8. QED
      BY <3>1, <3>2, <3>3, <3>7
  <2>7. Allotted(next, call[w], work) = {}
    BY <2>1 DEF Allotted, Creates
  <2>8. QED
    BY <1>2, <2>4, <2>5, <2>6, <2>7, GotoAdvances
<1>5. CASE DeleteRecords(w)
  <2>1. PICK k \in FirstOf(todo[w]) :
          AppendEvent(w, k, VisibleRow(w, k), "delete", Snapshot(VisibleRow(w, k)), Null, "lock")
    BY <1>5 DEF DeleteRecords
  <2>2. pc[w] = "delete" /\ k \in Key /\ k \in todo[w]
    BY <1>1, <1>5 DEF DeleteRecords, FirstOf
  <2>3. HoldsRow(txn[w], w, k)
    BY <1>1, <2>2 DEF IInv, Holds, Held
  <2> DEFINE r == VisibleRow(w, k)
  <2>4. k \in DOMAIN txn[w].row /\ r = txn[w].row[k] /\ r \in Row
    BY <1>1, <2>2, <2>3, VisibleTyped DEF HoldsRow, VisibleRow, IInv, MaybeRow
  <2>5. call[w].op = "delete"
    BY <1>1, <2>2 DEF Entry, Midway
  <2>6. Clean(row[k], hist[k], txn[w], k)
    BY <1>1, <2>2, <2>5 DEF Entry, Pending
  <2> HIDE DEF r
  <2>7. /\ Snapshot(r) = Saying(row[k], hist[k], txn[w], k)
        /\ ~Written(hist[k], txn[w], k) => r = row[k]
    BY <2>4, <2>6 DEF Clean
  <2>8. AppendEvent(w, k, r, "delete", Snapshot(r), Null, "lock")
    BY <2>1 DEF r
  <2>9. QED
    BY <2>2, <2>4, <2>5, <2>7, <2>8, AppendAdvances
<1>6. CASE DeleteRows(w)
  <2> DEFINE hit == {k \in call[w].keys : VisibleRow(w, k) # Null}
  <2> DEFINE f == [k \in hit |-> Null]
  <2>1. /\ pc[w] = "lock" /\ call[w].op = "delete" /\ todo[w] = {}
        /\ txn' = PutRows(w, f) /\ Goto(w, "record", {}) /\ seen' = seen
    BY <1>6 DEF DeleteRows
  <2>2. Partial(f, MaybeRow) /\ DOMAIN f = hit
    BY <1>1 DEF Partial, MaybeRow, CallType
  <2>3. \A x \in hit : f[x] = Null /\ VisibleRow(w, x) # Null /\ x \in call[w].keys
    OBVIOUS
  <2>4. \A x \in call[w].keys : x \notin hit => VisibleRow(w, x) = Null
    OBVIOUS
  <2> HIDE DEF f, hit
  <2> DEFINE u == txn'[w]
  <2>5. DOMAIN u.row = DOMAIN f \union DOMAIN txn[w].row
    BY <1>1, <2>1, <2>2, PutRowsGood DEF IInv
  <2>6. "save" \notin Ops
    BY <1>1, <2>1 DEF NoReuse, Owning
  <2>7. ASSUME NEW x \in Key
        PROVE  /\ Honest(w, row[x], hist[x], u, x) /\ Clean(row[x], hist[x], u, x)
               /\ Midway("record", call[w], {}, seen'[w], u, row[x], hist[x], x)
    <3>1. /\ x \notin DOMAIN f => SameAt(txn[w], u, x)
          /\ x \in DOMAIN f => x \in DOMAIN u.row /\ u.row[x] = f[x]
          /\ Written(hist[x], u, x) <=> Written(hist[x], txn[w], x)
          /\ Saying(row[x], hist[x], u, x) = Saying(row[x], hist[x], txn[w], x)
          /\ /\ Honest(w, row[x], hist[x], txn[w], x)
             /\ x \in DOMAIN f /\ f[x] # Null /\ row[x] = Null => hist[x] = Null
             => Honest(w, row[x], hist[x], u, x)
      BY <1>1, <2>1, <2>2, PutRowsSays
    <3> HIDE DEF u
    <3>2. /\ Honest(w, row[x], hist[x], txn[w], x)
          /\ x \notin call[w].keys => Clean(row[x], hist[x], txn[w], x)
          /\ x \in call[w].keys => Passed(row[x], hist[x], txn[w], x)
      BY <1>1, <2>1 DEF Entry, Midway, Pending
    <3>3. Honest(w, row[x], hist[x], u, x)
      BY <2>2, <2>3, <3>1, <3>2
    <3>4. CASE x \in hit
      <4>1. x \in DOMAIN txn[w].row
        BY <2>3, <3>2, <3>4 DEF Passed, Gone, VisibleRow
      <4>2. Saying(row[x], hist[x], txn[w], x) = Null /\ Written(hist[x], txn[w], x)
        BY <2>3, <3>2, <3>4, <4>1 DEF Passed, VisibleRow
      <4>3. Clean(row[x], hist[x], u, x)
        BY <2>2, <2>3, <3>1, <3>4, <4>2 DEF Clean, Snapshot
      <4>4. QED
        BY <3>3, <4>3 DEF Midway
    <3>5. CASE x \notin hit
      <4>1. SameAt(txn[w], u, x)
        BY <2>2, <3>1, <3>5
      <4>2. Clean(row[x], hist[x], txn[w], x)
        BY <2>4, <3>2, <3>5 DEF Clean, Passed, Snapshot, VisibleRow
      <4>3. Clean(row[x], hist[x], u, x)
        BY <4>1, <4>2, SameSays
      <4>4. QED
        BY <3>3, <4>3 DEF Midway
    <3>6. QED
      BY <3>4, <3>5
  <2>8. Allotted("record", call[w], {}) = {}
    BY DEF Allotted
  <2>9. QED
    BY <1>2, <2>1, <2>2, <2>3, <2>5, <2>6, <2>7, <2>8, GotoAdvances
<1>7. QED
  BY <1>3, <1>4, <1>5, <1>6

\* The event of a row continues from the snapshot the operation took of it.
LEMMA RecordAdvances ==
  ASSUME NEW P, Standing(P), NEW w \in Worker, Record(w)
  PROVE  Advances(w)
<1>1. /\ IInv(P) /\ Owning(w) /\ todo[w] \in SUBSET Key /\ pc[w] = "record"
      /\ \A k \in Key : Entry(w, k)
  BY DEF Standing, PromiseInv, Ledgers, Record, IInv, GoodControl
<1>2. PICK k \in RecordOrder(w) :
        \/ Raise(w)
        \/ /\ VisibleRow(w, k) # Null
           /\ \E action \in {"restore", "create", "update"} :
                AppendEvent(w, k, VisibleRow(w, k), action, Before(w, k), Snapshot(VisibleRow(w, k)),
                            "record")
  BY DEF Record, Selected
<1>3. k \in Key /\ k \in todo[w] /\ k \in DOMAIN txn[w].row
  BY <1>1 DEF RecordOrder, FirstOf, Owning
<1>4. CASE Raise(w)
  BY <1>4, RaiseAdvances
<1>5. CASE ~Raise(w)
  <2> DEFINE r == VisibleRow(w, k)
  <2>1. r = txn[w].row[k] /\ r \in Row
    BY <1>1, <1>2, <1>3, <1>5, VisibleTyped DEF VisibleRow, IInv, MaybeRow
  <2>2. /\ Before(w, k) = Saying(row[k], hist[k], txn[w], k)
        /\ ~Written(hist[k], txn[w], k) /\ row[k] # Null => r.scope = row[k].scope
    BY <1>1, <1>3, <2>1 DEF Entry, Midway, Before, Seen
  <2>3. PICK action \in {"restore", "create", "update"} :
          AppendEvent(w, k, r, action, Before(w, k), Snapshot(r), "record")
    BY <1>2, <1>5
  <2> HIDE DEF r
  <2>4. action # "baseline"
    BY <2>3
  <2>5. QED
    BY <1>1, <1>3, <2>1, <2>2, <2>3, <2>4, AppendAdvances
<1>6. QED
  BY <1>4, <1>5

\* A commit, or the end of a savepoint, leaves nothing pending.
LEMMA FinishAdvances ==
  ASSUME NEW P, Standing(P), NEW w \in Worker, Return(w) \/ CloseBlock(w)
  PROVE  Advances(w) /\ CommitsClean(w)
<1>1. /\ IInv(P) /\ ScopeInv /\ LiveRows /\ Owning(w) /\ \A k \in Key : Entry(w, k)
  BY DEF Standing, PromiseInv, Ledgers
<1>2. Owning(w)'
  BY <1>1, FinishOwns
<1>3. Pending(pc[w], call[w], todo[w]) = {} /\ unused' = unused
  BY DEF Return, CloseBlock, Ends, Pending
<1>4. \A k \in Key : Clean(row[k], hist[k], txn[w], k) /\ Honest(w, row[k], hist[k], txn[w], k)
  BY <1>1, <1>3 DEF Entry
<1>5. /\ pc'[w] \in {"idle", "open"} /\ mark'[w] = NoLocks
      /\ call'[w] = NoCall \/ (call' = call /\ mark[w] = NoLocks)
      /\ \/ row' = row /\ hist' = hist /\ txn'[w] \in {txn[w], NoLocks}
         \/ Commit(w) /\ txn'[w] = NoLocks
  <2>1. CASE Return(w)
    BY <1>1, <2>1 DEF Return, Ends, Commit, IInv, GoodControl, GoodTxns
  <2>2. CASE CloseBlock(w)
    <3>1. mark[w] = NoLocks /\ mark' = mark /\ call' = call
      BY <1>1, <2>2 DEF CloseBlock, ScopeInv, Orderly, Session
    <3>2. QED
      BY <1>1, <2>2, <3>1 DEF CloseBlock, Commit, Rollback, IInv, GoodControl, GoodTxns
  <2>3. QED
    BY <2>1, <2>2
<1>6. CommitsClean(w)
  BY <1>4, <1>5 DEF CommitsClean
<1>7. ASSUME NEW k \in Key PROVE Entry(w, k)'
  <2>1. Honest(w, row'[k], hist'[k], txn'[w], k) /\ Clean(row'[k], hist'[k], txn'[w], k)
    BY <1>4, <1>5, NothingSaid
  <2>2. Honest(w, row'[k], hist'[k], NoLocks, k) /\ Clean(row'[k], hist'[k], NoLocks, k)
    BY NothingSaid
  <2>3. row[k] # Null \/ hist[k] # Null => row'[k] # Null \/ hist'[k] # Null
    BY <1>1, <1>4, <1>6, TablesAfter DEF Owning
  <2>4. NoCall.op = "none" /\ k \notin DOMAIN NoLocks.row
    BY DEF NoCall, NoLocks, Empty
  <2>5. Named(call'[w], NoLocks, row'[k], hist'[k], k)
    BY <1>1, <1>5, <2>3, <2>4 DEF Entry, Named
  <2>6. Midway(pc'[w], call'[w], todo'[w], seen'[w], txn'[w], row'[k], hist'[k], k)
    BY <1>5 DEF Midway
  <2>7. QED
    BY <1>5, <2>1, <2>2, <2>5, <2>6 DEF Entry
<1>8. AllottedTo(w)' = {}
  BY <1>5 DEF AllottedTo, Allotted
<1>9. /\ DOMAIN txn'[w].row \subseteq DOMAIN txn[w].row
      /\ "save" \in Ops => LiveTxn(txn'[w]) /\ LiveTxn(mark'[w])
  BY <1>1, <1>5 DEF LiveRows, LiveTxn, NoLocks, Empty
<1>10. QED
  BY <1>2, <1>3, <1>6, <1>7, <1>8, <1>9 DEF Advances

-----------------------------------------------------------------------------
(* The steps of ScopedWrites are steps of AuditedStore. *)

\* A step of w is one of the store, in the scope of w where scopes are enforced,
\* or changes nothing the store has.
Accounted(w) ==
  \/ row' = row /\ hist' = hist
  \/ /\ Mode = "enforce" => Promise!Transaction(CtxScope[w])
     /\ \A k \in Key : (\E s \in Scope : Promise!Write(k, s)) \/ Promise!Keep(k)

\* A commit of clean rows, each in the scope of its history, is accounted for.
LEMMA CleanAccounted ==
  ASSUME NEW P, Standing(P), NEW w \in Worker, CommitsClean(w),
         \/ row' = row /\ hist' = hist
         \/ Commit(w) /\ \A k \in Key : Settled(row, txn[w], k)
  PROVE  Accounted(w)
<1>1. /\ IInv(P) /\ OwnedHeads(hist, txn[w])
      /\ \A k \in Key : Honest(w, row[k], hist[k], txn[w], k)
  BY DEF Standing, PromiseInv, Ledgers, Entry, Owning
<1>2. CASE row' = row /\ hist' = hist
  BY <1>2 DEF Accounted
<1>3. CASE ~(row' = row /\ hist' = hist)
  <2>1. /\ Commit(w)
        /\ \A k \in Key : Clean(row[k], hist[k], txn[w], k) /\ Settled(row, txn[w], k)
    BY <1>3 DEF CommitsClean
  <2>2. QED
    BY <1>1, <2>1, CommitKeepsPromise DEF Accounted
<1>4. QED
  BY <1>2, <1>3

\* What every step of a write does.
LEMMA WriteAccounted ==
  ASSUME NEW P, Standing(P), NoReuse, NEW w \in Worker, Start(w) \/ Step(w) \/ Fail(w)
  PROVE  PromiseInv' /\ Accounted(w)
<1>1. IInv(P) /\ ScopeInv
  BY DEF Standing
<1>2. Local(w)
  BY <1>1, LocalStep
<1>3. /\ \/ row' = row /\ hist' = hist
         \/ Commit(w) /\ \A k \in Key : Settled(row, txn[w], k)
  BY <1>1, CommitsSettled
<1>4. CASE Return(w) \/ CloseBlock(w)
  BY <1>2, <1>3, <1>4, FinishAdvances, AdvanceKeeps, CleanAccounted
<1>5. CASE ~(Return(w) \/ CloseBlock(w))
  <2>1. row' = row /\ hist' = hist
    <3>1. CASE Start(w) \/ Fail(w)
      BY <3>1 DEF Start, BeginSave, BeginCreate, BeginBulkCreate, BeginUpdate, BeginBulkUpdate,
                  BeginDelete, Begin, OpenBlock, Fail, Raise, Rollback
    <3>2. CASE SaveLoads(w) \/ SaveUpdates(w) \/ InsertRow(w)
      BY <3>2 DEF SaveLoads, SaveUpdates, InsertRow, Goto, Raise, Rollback
    <3>3. CASE UpdateLocks(w) \/ BulkUpdateLocks(w) \/ BulkUpdateReads(w) \/ UpdateRows(w)
      BY <3>3 DEF UpdateLocks, BulkUpdateLocks, BulkUpdateReads, UpdateRows, Goto, Raise, Rollback
    <3>4. CASE DeleteLoads(w) \/ DeleteRecords(w) \/ DeleteRows(w) \/ Record(w)
      BY <3>4 DEF DeleteLoads, DeleteRecords, DeleteRows, Record, AppendEvent, Goto, Raise, Rollback
    <3>5. QED
      BY <1>5, <3>1, <3>2, <3>3, <3>4 DEF Step
  <2>2. CommitsClean(w) /\ Accounted(w)
    BY <2>1 DEF CommitsClean, Accounted
  <2>3. Advances(w)
    <3>1. CASE Start(w)
      BY <3>1, StartAdvances
    <3>2. CASE Fail(w)
      BY <3>2, RaiseAdvances DEF Fail
    <3>3. CASE Step(w)
      BY <1>5, <3>3, SaveAdvances, UpdateAdvances, DeleteAdvances, RecordAdvances DEF Step
    <3>4. QED
      BY <3>1, <3>2, <3>3
  <2>4. QED
    BY <1>2, <2>2, <2>3, AdvanceKeeps
<1>6. QED
  BY <1>4, <1>5

\* The initial states satisfy the invariant.
LEMMA InitPromise == Init => PromiseInv
<1> SUFFICES ASSUME Init PROVE PromiseInv
  OBVIOUS
<1>1. /\ hist = [k \in Key |-> Null] /\ unused = Key \ LegacyKeys
      /\ \A k \in Key \ LegacyKeys : row[k] = Null
      /\ \A w \in Worker : /\ txn[w] = NoLocks /\ mark[w] = NoLocks /\ pc[w] = "idle"
                           /\ call[w] = NoCall
  BY DEF Init
<1>2. NoLocks.row = Empty /\ NoCall.op = "none" /\ DOMAIN Empty = {}
  BY DEF NoLocks, NoCall, Empty
<1>3. FreshInv
  <2>1. \A w \in Worker : AllottedTo(w) = {}
    BY <1>1 DEF AllottedTo, Allotted
  <2>2. \A k \in unused : Fresh(k)
    BY <1>1, <1>2 DEF Fresh
  <2>3. QED
    BY <2>1, <2>2 DEF FreshInv
<1>4. LiveRows /\ Opened
  BY <1>1, <1>2 DEF LiveRows, LiveTxn, Opened
<1>5. ASSUME NEW w \in Worker, NEW k \in Key PROVE Entry(w, k)
  <2>1. Named(NoCall, NoLocks, row[k], hist[k], k)
    BY <1>2 DEF Named
  <2>2. Midway("idle", NoCall, todo[w], seen[w], NoLocks, row[k], hist[k], k)
    BY DEF Midway
  <2>3. QED
    BY <1>1, <2>1, <2>2, NothingSaid DEF Entry
<1>6. QED
  BY <1>3, <1>4, <1>5, InitOwns DEF PromiseInv, Ledgers

\* Nothing happens.
LEMMA SamePromise == ASSUME PromiseInv, UNCHANGED vars PROVE PromiseInv'
<1>1. /\ row' = row /\ hist' = hist /\ txn' = txn /\ mark' = mark /\ pc' = pc /\ call' = call
      /\ todo' = todo /\ seen' = seen /\ unused' = unused
  BY DEF vars
<1>2. FreshInv' /\ LiveRows' /\ Opened'
  BY <1>1 DEF PromiseInv, FreshInv, Fresh, AllottedTo, LiveRows, Opened
<1>3. Ledgers'
  BY <1>1 DEF PromiseInv, Ledgers, Owning, Entry
<1>4. QED
  BY <1>2, <1>3 DEF PromiseInv

\* The histories begin empty, as the store's do.
LEMMA InitialStore == Init => Promise!Init
BY DEF Init, Promise!Init, Events

\* From every state of the invariant, a step of ScopedWrites is accounted for.
LEMMA NextAccounted ==
  ASSUME NoReuse, Standing(WritePoints), [Next]_vars
  PROVE  /\ Standing(WritePoints)'
         /\ \/ row' = row /\ hist' = hist
            \/ \E w \in Worker : Accounted(w)
<1>1. IInv(WritePoints) /\ ScopeInv /\ PromiseInv
  BY DEF Standing
<1>2. IInv(WritePoints)' /\ ScopeInv'
  BY <1>1, NextIInv, WriteScope, SameScopes DEF Next, Done
<1>3. CASE UNCHANGED vars
  BY <1>1, <1>2, <1>3, SamePromise DEF Standing, vars
<1>4. CASE \E w \in Worker : Start(w) \/ Step(w) \/ Fail(w)
  BY <1>1, <1>2, <1>4, WriteAccounted DEF Standing
<1>5. QED
  BY <1>3, <1>4 DEF Next, Done

\* The committed rows and events of a model in enforce mode are those of the
\* store PyScoped promises: whatever writers interleave, fail or roll back, each
\* commit changes rows only together with events that lead from the old row to
\* the new one without a gap, all in one scope.
THEOREM WritesKeepPromise ==
  ASSUME NoReuse, Mode = "enforce" PROVE Spec => KeepsPromise
<1> DEFINE log == [k \in Key |-> Events(hist[k])]
<1>1. Init => Standing(WritePoints) /\ Promise!Init
  BY InitIInv, InitScope, InitPromise, InitialStore DEF Standing
<1>2. Standing(WritePoints) /\ [Next]_vars =>
        Standing(WritePoints)' /\ [\E s \in Scope : Promise!Transaction(s)]_<<row, log>>
  <2> SUFFICES ASSUME Standing(WritePoints), [Next]_vars
               PROVE  /\ Standing(WritePoints)'
                      /\ [\E s \in Scope : Promise!Transaction(s)]_<<row, log>>
    OBVIOUS
  <2>1. CtxScope \in [Worker -> Scope]
    BY CtxAssumption
  <2>2. QED
    BY <2>1, NextAccounted DEF Accounted
<1>3. QED
  BY <1>1, <1>2, PTL DEF Spec, KeepsPromise, Promise!Spec

\* The same of a model in audit mode, each row in its own scope.
THEOREM WritesKeepAuditPromise ==
  ASSUME NoReuse PROVE Spec => KeepsAuditPromise
<1> DEFINE log == [k \in Key |-> Events(hist[k])]
<1>1. Init => Standing(WritePoints) /\ Promise!Init
  BY InitIInv, InitScope, InitPromise, InitialStore DEF Standing
<1>2. Standing(WritePoints) /\ [Next]_vars =>
        /\ Standing(WritePoints)'
        /\ [\A k \in Key : (\E s \in Scope : Promise!Write(k, s)) \/ Promise!Keep(k)]_<<row, log>>
  BY NextAccounted DEF Accounted
<1>3. QED
  BY <1>1, <1>2, PTL DEF Spec, KeepsAuditPromise, Promise!AuditSpec

-----------------------------------------------------------------------------
(* So are those of ScopedHistory, as long as nothing goes round PyScoped. *)

\* Where the operations of history.py look at rows and heads.
LookPoints ==
  {"v_find", "v_lock", "v_read", "b_load", "b_check", "b_commit", "r_load", "r_head", "r_verify"}

\* There nothing is pending, and nothing is to be known of a key.
LEMMA Looking ==
  ASSUME NEW p \in LookPoints, NEW c, NEW K
  PROVE  /\ Pending(p, c, K) = {} /\ Allotted(p, c, K) = {}
         /\ \A s, t, r, h, k : Midway(p, c, K, s, t, r, h, k)
BY DEF LookPoints, Pending, Allotted, Midway

\* Locking the head that is there says nothing new.
LEMMA HeadSays ==
  ASSUME NEW P, Standing(P), NEW w \in Worker, NEW k \in Key, VisibleHist(w, k) # Null
  PROVE  LET u == PutHist(w, k, VisibleHist(w, k))[w] IN
         /\ u.row = txn[w].row /\ OwnedHeads(hist, u)
         /\ \A x \in Key : /\ Honest(w, row[x], hist[x], u, x)
                           /\ Clean(row[x], hist[x], txn[w], x) => Clean(row[x], hist[x], u, x)
<1> DEFINE h == VisibleHist(w, k)
<1> DEFINE u == PutHist(w, k, h)[w]
<1>1. /\ IInv(P) /\ DOMAIN txn = Worker /\ OwnedHeads(hist, txn[w])
      /\ \A x \in Key : Honest(w, row[x], hist[x], txn[w], x)
  BY DEF Standing, PromiseInv, Ledgers, Entry, Owning, IInv, GoodTxns
<1>2. h \in Resource
  BY <1>1, VisibleTyped DEF IInv, MaybeHist
<1>3. k \notin DOMAIN txn[w].hist => h = hist[k]
  BY DEF VisibleHist
<1>4. k \in DOMAIN txn[w].hist => h = txn[w].hist[k]
  BY DEF VisibleHist
<1> HIDE DEF h
<1>5. /\ u.row = txn[w].row /\ DOMAIN u.hist = DOMAIN txn[w].hist \union {k} /\ u.hist[k] = h
      /\ \A x \in DOMAIN txn[w].hist \ {k} : u.hist[x] = txn[w].hist[x]
  BY <1>1 DEF PutHist, Merge
<1> HIDE DEF u
<1>6. OwnedHeads(hist, u)
  BY <1>1, <1>3, <1>4, <1>5 DEF OwnedHeads
<1>7. ASSUME NEW x \in Key
      PROVE  /\ Honest(w, row[x], hist[x], u, x)
             /\ Clean(row[x], hist[x], txn[w], x) => Clean(row[x], hist[x], u, x)
  <2>1. CASE x # k \/ k \in DOMAIN txn[w].hist
    <3>1. SameAt(txn[w], u, x)
      BY <1>4, <1>5, <2>1 DEF SameAt
    <3>2. QED
      BY <1>1, <3>1, SameSays
  <2>2. CASE x = k /\ k \notin DOMAIN txn[w].hist
    <3>1. u.hist[k] = hist[k] /\ hist[k] \in Resource
      BY <1>2, <1>3, <1>5, <2>2
    <3>2. Accounts(w, row[k], hist[k], u.hist[k])
      BY <3>1, AccountsItself
    <3>3. Honest(w, row[k], hist[k], u, k)
      BY <1>1, <1>2, <1>5, <3>1, <3>2, AbsenceAssumption
         DEF Honest, Standing, PromiseInv, Opened, Resource
    <3>4. hist[k] # Null /\ Events(hist[k]) = hist[k].events /\ Len(hist[k].events) \in Nat
      BY <3>1, AbsenceAssumption DEF Events, Resource
    <3>5. ~Written(hist[k], u, k) /\ ~Written(hist[k], txn[w], k)
      BY <2>2, <3>1, <3>4 DEF Written
    <3>6. QED
      BY <1>5, <2>2, <3>3, <3>5 DEF Clean, Saying
  <2>3. QED
    BY <2>1, <2>2
<1>8. QED
  BY <1>5, <1>6, <1>7 DEF u, h

\* Going on from one of these points, with at most a row or a head locked.
LEMMA LookAdvances ==
  ASSUME NEW P, Standing(P), NEW w \in Worker, pc[w] \in LookPoints,
         NEW next \in LookPoints \union {"record"}, NEW work \in SUBSET todo[w],
         next = "record" => work = {}, Goto(w, next, work), seen' = seen,
         \/ txn' = txn
         \/ \E k \in Key : txn' = Locked(w, k)
         \/ \E k \in Key : VisibleHist(w, k) # Null /\ txn' = PutHist(w, k, VisibleHist(w, k))
  PROVE  Advances(w) /\ Local(w) /\ row' = row /\ hist' = hist
<1>1. /\ IInv(P) /\ LiveRows /\ Owning(w) /\ OwnedHeads(hist, txn[w]) /\ GoodTxns
      /\ \A k \in Key : Entry(w, k)
  BY DEF Standing, PromiseInv, Ledgers, Owning, IInv
<1>2. \A k \in Key : /\ Honest(w, row[k], hist[k], txn[w], k)
                     /\ Clean(row[k], hist[k], txn[w], k)
  BY <1>1, Looking DEF Entry
<1>3. /\ Pending(next, call[w], work) = {} /\ Allotted(next, call[w], work) = {}
      /\ \A s, t, r, h, k : Midway(next, call[w], work, s, t, r, h, k)
  <2>1. CASE next \in LookPoints
    BY <2>1, Looking
  <2>2. CASE next = "record" /\ work = {}
    BY <2>2 DEF Pending, Allotted, Midway
  <2>3. QED
    BY <2>1, <2>2
<1> DEFINE u == txn'[w]
<1>4. /\ OwnedHeads(hist, u)
      /\ \A k \in Key : Honest(w, row[k], hist[k], u, k) /\ Clean(row[k], hist[k], u, k)
      /\ \A k \in DOMAIN u.row : k \in DOMAIN txn[w].row \/ VisibleRow(w, k) # Null
      /\ "save" \in Ops => LiveTxn(u)
  <2>1. CASE txn' = txn
    BY <1>1, <1>2, <2>1 DEF LiveRows
  <2>2. CASE \E k \in Key : txn' = Locked(w, k)
    <3>1. PICK k \in Key : txn' = Locked(w, k)
      BY <2>2
    <3>2. \A x \in Key : Honest(w, row[x], hist[x], u, x) /\ Clean(row[x], hist[x], u, x)
      BY <1>1, <1>2, <3>1, LockedSays
    <3>3. OwnedHeads(hist, u)
      BY <1>1, <3>1, RowsOwned
    <3>4. QED
      BY <3>1, <3>2, <3>3, LockedTaken
  <2>3. CASE \E k \in Key : VisibleHist(w, k) # Null /\ txn' = PutHist(w, k, VisibleHist(w, k))
    <3>1. PICK k \in Key : VisibleHist(w, k) # Null /\ txn' = PutHist(w, k, VisibleHist(w, k))
      BY <2>3
    <3>2. /\ u.row = txn[w].row /\ OwnedHeads(hist, u)
          /\ \A x \in Key : Honest(w, row[x], hist[x], u, x) /\ Clean(row[x], hist[x], u, x)
      BY <1>2, <3>1, HeadSays
    <3>3. QED
      BY <1>1, <3>2 DEF LiveRows, LiveTxn
  <2>4. QED
    BY <2>1, <2>2, <2>3
<1>5. \A v \in Worker \ {w} : txn'[v] = txn[v]
  BY <1>1, PutLocal
<1> HIDE DEF u
<1>6. Owning(w)'
  <2>1. call[w].op \in SaveOps => work \subseteq call[w].keys
    BY <1>1 DEF Owning
  <2>2. next \notin {"idle", "open", "insert", "lock", "delete"}
    BY DEF LookPoints
  <2>3. QED
    BY <1>1, <1>4, <2>1, <2>2, GotoOwns DEF u
<1>7. Local(w) /\ row' = row /\ hist' = hist
  BY <1>1, <1>5, GotoLocal DEF Goto
<1>8. Advances(w)
  BY <1>3, <1>4, <1>6, GotoAdvances DEF u
<1>9. QED
  BY <1>7, <1>8

\* The operations of history.py start on keys the application knows.
LEMMA HistoryStartAdvances ==
  ASSUME NEW P, Standing(P), NEW w \in Worker, HistoryStart(w)
  PROVE  Advances(w) /\ Local(w) /\ row' = row /\ hist' = hist
<1>1. IInv(P) /\ Owning(w) /\ KnownKeys(w) \subseteq Key
  BY DEF Standing, PromiseInv, Ledgers, KnownKeys
<1>2. \E c, work : \E next \in {"v_find", "b_load", "r_load"} :
        /\ Begin(w, c, next, work) /\ c.op \in {"verify", "backfill", "restore"}
        /\ c.op = "restore" => \E k \in Key : c.keys = {k} /\ work = {k}
  <2>1. CASE BeginVerify(w)
    BY <2>1 DEF BeginVerify
  <2>2. CASE BeginBackfill(w)
    BY <2>2 DEF BeginBackfill
  <2>3. CASE BeginRestore(w)
    <3>1. PICK k \in KnownKeys(w) :
            Begin(w, [op |-> "restore", keys |-> {k}, scope |-> CtxScope[w],
                      val |-> NoCall.val], "r_load", {k})
      BY <2>3 DEF BeginRestore
    <3>2. QED
      BY <1>1, <3>1
  <2>4. QED
    BY <2>1, <2>2, <2>3 DEF HistoryStart
<1>3. PICK c, work : \E next \in {"v_find", "b_load", "r_load"} :
        /\ Begin(w, c, next, work) /\ c.op \in {"verify", "backfill", "restore"}
        /\ c.op = "restore" => \E k \in Key : c.keys = {k} /\ work = {k}
  BY <1>2
<1>4. PICK next \in {"v_find", "b_load", "r_load"} :
        /\ Begin(w, c, next, work) /\ c.op \in {"verify", "backfill", "restore"}
        /\ c.op = "restore" => \E k \in Key : c.keys = {k} /\ work = {k}
  BY <1>3
<1>5. unused' = unused
  BY DEF HistoryStart, BeginVerify, BeginBackfill, BeginRestore
<1>6. Owning(w)' /\ Local(w) /\ row' = row /\ hist' = hist
  <2>1. c.op \in SaveOps => \E k \in Key : c.keys = {k} /\ work \subseteq {k}
    BY <1>4 DEF SaveOps
  <2>2. QED
    BY <1>1, <1>4, <2>1, BeginOwns, BeginLocal DEF Begin
<1>7. /\ Allotted(next, c, work) = {}
      /\ \A k \in Key : /\ Named(c, txn[w], row[k], hist[k], k)
                        /\ Midway(next, c, work, Empty, txn[w], row[k], hist[k], k)
  <2>1. next \in LookPoints
    BY DEF LookPoints
  <2>2. QED
    BY <1>4, <2>1, Looking DEF Named
<1>8. Advances(w)
  BY <1>4, <1>5, <1>6, <1>7, BeginAdvances
<1>9. QED
  BY <1>6, <1>8

\* verify_history() takes the head that is there.
LEMMA VerifyAdvances ==
  ASSUME HistoryInv, Standing(HistoryPoints), NEW w \in Worker,
         VerifyFinds(w) \/ VerifyLocks(w) \/ VerifyReads(w), ~Raise(w)
  PROVE  Advances(w) /\ Local(w) /\ row' = row /\ hist' = hist
<1>1. todo[w] \in SUBSET Key /\ pc[w] \in LookPoints
  BY DEF HistoryInv, IInv, GoodControl, LookPoints, VerifyFinds, VerifyLocks, VerifyReads
<1>2. CASE VerifyFinds(w)
  <2>1. PICK k \in todo[w] :
          /\ Goto(w, "record", {}) \/ Goto(w, "v_lock", {k})
          /\ txn' = txn /\ seen' = seen
    BY <1>2 DEF VerifyFinds
  <2>2. "v_lock" \in LookPoints /\ {k} \in SUBSET todo[w]
    BY DEF LookPoints
  <2>3. QED
    BY <1>1, <2>1, <2>2, LookAdvances
<1>3. CASE VerifyLocks(w)
  <2>1. PICK k \in todo[w] : txn' = PutHist(w, k, VisibleHist(w, k)) /\ Goto(w, "v_read", {k})
    BY <1>3 DEF VerifyLocks
  <2>2. seen' = seen /\ VisibleHist(w, k) # Null
    BY <1>3 DEF VerifyLocks, HistoryInv, HistoryAt
  <2>3. "v_read" \in LookPoints /\ {k} \in SUBSET todo[w] /\ k \in Key
    BY <1>1 DEF LookPoints
  <2>4. QED
    BY <1>1, <2>1, <2>2, <2>3, LookAdvances
<1>4. CASE VerifyReads(w)
  <2>1. Goto(w, "record", {}) /\ txn' = txn /\ seen' = seen
    BY <1>4 DEF VerifyReads
  <2>2. QED
    BY <1>1, <2>1, LookAdvances
<1>5. QED
  BY <1>2, <1>3, <1>4

\* backfill() gives a row without history a baseline of what the row is.
LEMMA BackfillAdvances ==
  ASSUME Standing(HistoryPoints), NEW w \in Worker, BackfillLoads(w) \/ BackfillChecks(w), ~Raise(w)
  PROVE  Advances(w) /\ Local(w) /\ row' = row /\ hist' = hist
<1>1. /\ IInv(HistoryPoints) /\ Owning(w) /\ todo[w] \in SUBSET Key /\ pc[w] \in LookPoints
      /\ \A k \in Key : Entry(w, k)
  BY DEF Standing, PromiseInv, Ledgers, IInv, GoodControl, LookPoints, BackfillLoads, BackfillChecks
<1>2. {"b_load", "b_check", "b_commit"} \subseteq LookPoints
  BY DEF LookPoints
<1>3. CASE BackfillLoads(w)
  <2>1. PICK k \in FirstOf(todo[w]) :
          \/ Goto(w, "b_load", todo[w] \ {k}) /\ txn' = txn /\ seen' = seen
          \/ Goto(w, "b_check", todo[w]) /\ txn' = Locked(w, k) /\ seen' = seen
    BY <1>3 DEF BackfillLoads
  <2>2. k \in Key /\ (todo[w] \ {k}) \in SUBSET todo[w] /\ todo[w] \in SUBSET todo[w]
    BY <1>1 DEF FirstOf
  <2>3. QED
    BY <1>1, <1>2, <2>1, <2>2, LookAdvances
<1>4. CASE BackfillChecks(w)
  <2> DEFINE r(x) == VisibleRow(w, x)
  <2>1. PICK k \in FirstOf(todo[w]) :
          \/ Goto(w, "b_commit", todo[w] \ {k}) /\ txn' = txn /\ seen' = seen
          \/ /\ ~HasHistory(VisibleHist(w, k))
             /\ AppendEvent(w, k, r(k), "baseline", Null, Snapshot(r(k)), "b_commit")
    BY <1>4 DEF BackfillChecks
  <2>2. pc[w] = "b_check" /\ k \in Key /\ k \in todo[w] /\ (todo[w] \ {k}) \in SUBSET todo[w]
    BY <1>1, <1>4 DEF BackfillChecks, FirstOf
  <2>3. CASE Goto(w, "b_commit", todo[w] \ {k}) /\ txn' = txn /\ seen' = seen
    BY <1>1, <1>2, <2>2, <2>3, LookAdvances
  <2>4. CASE /\ ~HasHistory(VisibleHist(w, k))
             /\ AppendEvent(w, k, r(k), "baseline", Null, Snapshot(r(k)), "b_commit")
    <3> DEFINE q == VisibleRow(w, k)
    <3>1. HoldsRow(txn[w], w, k)
      BY <1>1, <2>2 DEF IInv, Holds, Held
    <3>2. k \in DOMAIN txn[w].row /\ q = txn[w].row[k] /\ q \in Row
      BY <1>1, <2>2, <3>1, VisibleTyped DEF HoldsRow, VisibleRow, IInv, MaybeRow
    <3>3. Clean(row[k], hist[k], txn[w], k)
      BY <1>1, <2>2, Looking DEF Entry
    <3>4. HeadOf(w, k, q).events = <<>>
      <4>1. CASE VisibleHist(w, k) = Null
        BY <4>1 DEF HeadOf
      <4>2. CASE VisibleHist(w, k) # Null
        <5> DEFINE h == VisibleHist(w, k)
        <5>1. h \in Resource /\ Verifies(h)
          BY <1>1, <2>2, <4>2, VisibleTyped DEF IInv, MaybeHist, Sound
        <5>2. h.revision = Len(h.events) /\ h.events \in Seq(Event) /\ ~(h.revision > 0)
          BY <2>4, <4>2, <5>1 DEF Verifies, Resource, HasHistory
        <5> HIDE DEF h
        <5>3. h.events = <<>>
          BY <5>2
        <5>4. QED
          BY <4>2, <5>3 DEF HeadOf, h
      <4>3. QED
        BY <4>1, <4>2
    <3>5. AppendEvent(w, k, q, "baseline", Null, Snapshot(q), "b_commit")
      BY <2>4
    <3> HIDE DEF q
    <3>6. /\ Snapshot(q) = Saying(row[k], hist[k], txn[w], k)
          /\ ~Written(hist[k], txn[w], k) => q = row[k]
      BY <3>2, <3>3 DEF Clean
    <3>7. Advances(w)
      BY <2>2, <3>2, <3>4, <3>5, <3>6, AppendAdvances
    <3>8. Local(w) /\ row' = row /\ hist' = hist
      BY <1>1, <3>5, AppendLocal DEF AppendEvent, Goto, Raise, Rollback
    <3>9. QED
      BY <3>7, <3>8
  <2>5. QED
    BY <2>1, <2>3, <2>4
<1>5. QED
  BY <1>3, <1>4

\* backfill() commits the baseline of each row by itself.
LEMMA BackfillCommitAdvances ==
  ASSUME CoverInv, Standing(HistoryPoints), NEW w \in Worker, BackfillCommits(w)
  PROVE  /\ Advances(w) /\ Local(w) /\ CommitsClean(w)
         /\ Commit(w) /\ \A k \in Key : Settled(row, txn[w], k)
<1>1. /\ IInv(HistoryPoints) /\ ScopeInv /\ LiveRows /\ Owning(w) /\ \A k \in Key : Entry(w, k)
  BY DEF Standing, PromiseInv, Ledgers
<1>2. /\ Commit(w) /\ pc[w] = "b_commit" /\ pc' = [pc EXCEPT ![w] = "b_load"]
      /\ mark' = mark /\ call' = call /\ todo' = todo /\ seen' = seen /\ block' = block
      /\ unused' = unused
  BY DEF BackfillCommits
<1>3. mark[w] = NoLocks /\ \A k \in Key : Settled(row, txn[w], k)
  BY <1>2 DEF CoverInv, ScopeInv, Underway, Orderly, Session, Busy, BackfillPoints
<1>4. txn'[w] = NoLocks /\ pc'[w] = "b_load" /\ \A v \in Worker \ {w} : txn'[v] = txn[v]
  BY <1>1, <1>2 DEF Commit, IInv, GoodControl, GoodTxns
<1>5. Local(w)
  BY <1>1, <1>2, <1>4 DEF Local, IInv, GoodControl
<1>6. Owning(w)'
  BY <1>1, <1>2, <1>3, <1>4, NothingOwned DEF Owning
<1>7. "b_commit" \in LookPoints /\ "b_load" \in LookPoints
  BY DEF LookPoints
<1>8. \A k \in Key : Clean(row[k], hist[k], txn[w], k) /\ Honest(w, row[k], hist[k], txn[w], k)
  BY <1>1, <1>2, <1>7, Looking DEF Entry
<1>9. CommitsClean(w)
  BY <1>2, <1>8 DEF CommitsClean
<1>10. ASSUME NEW k \in Key PROVE Entry(w, k)'
  <2>1. row[k] # Null \/ hist[k] # Null => row'[k] # Null \/ hist'[k] # Null
    BY <1>1, <1>8, <1>9, TablesAfter DEF Owning
  <2>2. Named(call[w], NoLocks, row'[k], hist'[k], k)
    BY <1>1, <1>3, <2>1 DEF Entry, Named, NoLocks, Empty
  <2>3. Midway("b_load", call[w], todo[w], seen[w], NoLocks, row'[k], hist'[k], k)
    BY <1>7, Looking
  <2>4. QED
    BY <1>2, <1>3, <1>4, <2>2, <2>3, NothingSaid DEF Entry
<1>11. AllottedTo(w)' = {} /\ LiveTxn(NoLocks) /\ DOMAIN NoLocks.row = {}
  BY <1>4, <1>7, Looking DEF AllottedTo, LiveTxn, NoLocks, Empty
<1>12. Advances(w)
  BY <1>2, <1>3, <1>4, <1>6, <1>10, <1>11 DEF Advances
<1>13. QED
  BY <1>2, <1>3, <1>5, <1>9, <1>12

\* It returns owning nothing.
LEMMA BackfillReturnAdvances ==
  ASSUME CoverInv, Standing(HistoryPoints), NEW w \in Worker, BackfillReturns(w)
  PROVE  Advances(w) /\ Local(w) /\ row' = row /\ hist' = hist
<1>1. /\ IInv(HistoryPoints) /\ DOMAIN txn = Worker
  BY DEF Standing, IInv, GoodTxns
<1>2. Ends(w) /\ row' = row /\ hist' = hist /\ txn' = txn /\ txn[w] = NoLocks
  BY DEF BackfillReturns, CoverInv, Underway
<1>3. /\ pc'[w] \in {"idle", "open"} /\ mark'[w] = NoLocks /\ call'[w] = NoCall /\ unused' = unused
  BY <1>1, <1>2 DEF Ends, IInv, GoodControl, GoodTxns
<1>4. Owning(w)' /\ Local(w)
  BY <1>1, <1>2, EndsOwns, EndsLocal, NothingOwned
<1>5. NoCall.op = "none"
  BY DEF NoCall
<1>6. ASSUME NEW k \in Key PROVE Entry(w, k)'
  <2>1. Named(NoCall, NoLocks, row[k], hist[k], k)
    BY <1>5 DEF Named
  <2>2. Midway(pc'[w], NoCall, todo'[w], seen'[w], NoLocks, row[k], hist[k], k)
    BY <1>3 DEF Midway
  <2>3. QED
    BY <1>2, <1>3, <2>1, <2>2, NothingSaid DEF Entry
<1>7. AllottedTo(w)' = {} /\ LiveTxn(NoLocks) /\ DOMAIN NoLocks.row = {}
  BY <1>3 DEF AllottedTo, Allotted, LiveTxn, NoLocks, Empty
<1>8. Advances(w)
  BY <1>2, <1>3, <1>4, <1>6, <1>7 DEF Advances
<1>9. QED
  BY <1>2, <1>4, <1>8

\* restore() locks its row and its head, and goes on as a save().
LEMMA RestoreAdvances ==
  ASSUME HistoryInv, CoverInv, Standing(HistoryPoints), NEW w \in Worker,
         RestoreLoads(w) \/ RestoreReads(w) \/ RestoreVerifies(w), ~Raise(w)
  PROVE  Advances(w) /\ Local(w) /\ row' = row /\ hist' = hist
<1>1. /\ IInv(HistoryPoints) /\ LiveRows /\ Owning(w) /\ todo[w] \in SUBSET Key
      /\ pc[w] \in {"r_load", "r_head", "r_verify"} /\ DOMAIN pc = Worker /\ DOMAIN call = Worker
      /\ DOMAIN txn = Worker /\ call[w] \in CallType /\ \A k \in Key : Entry(w, k)
  BY DEF Standing, PromiseInv, Ledgers, IInv, GoodControl, GoodTxns, RestoreLoads, RestoreReads,
         RestoreVerifies
<1>2. pc[w] \in LookPoints /\ {"r_head", "r_verify"} \subseteq LookPoints
  BY <1>1 DEF LookPoints
<1>3. call[w].op = "restore"
  BY <1>1 DEF CoverInv, Underway
<1>4. PICK k \in Key : call[w].keys = {k} /\ todo[w] \subseteq {k}
  BY <1>1, <1>3 DEF Owning, SaveOps
<1>5. CASE RestoreLoads(w)
  <2>1. Goto(w, "r_head", {k}) /\ txn' = Locked(w, k) /\ seen' = seen /\ {k} \in SUBSET todo[w]
    BY <1>4, <1>5 DEF RestoreLoads
  <2>2. QED
    BY <1>2, <2>1, LookAdvances
<1>6. CASE RestoreReads(w)
  <2>1. Goto(w, "r_verify", {k}) /\ txn' = txn /\ seen' = seen /\ {k} \in SUBSET todo[w]
    BY <1>4, <1>6 DEF RestoreReads
  <2>2. QED
    BY <1>2, <2>1, LookAdvances
<1>7. CASE RestoreVerifies(w)
  <2>1. /\ pc[w] = "r_verify" /\ k \in todo[w] /\ txn' = PutHist(w, k, VisibleHist(w, k))
        /\ pc' = [pc EXCEPT ![w] = "lock"] /\ \E s, v : call' = [call EXCEPT ![w].scope = s, ![w].val = v]
        /\ row' = row /\ hist' = hist /\ mark' = mark /\ todo' = todo /\ seen' = seen
        /\ block' = block /\ unused' = unused
    BY <1>4, <1>7 DEF RestoreVerifies
  <2>2. VisibleHist(w, k) # Null
    BY <2>1 DEF HistoryInv, HistoryAt
  <2> DEFINE u == txn'[w]
  <2>3. /\ u.row = txn[w].row /\ OwnedHeads(hist, u)
        /\ \A x \in Key : /\ Honest(w, row[x], hist[x], u, x)
                          /\ Clean(row[x], hist[x], txn[w], x) => Clean(row[x], hist[x], u, x)
    BY <2>1, <2>2, HeadSays
  <2>4. \A x \in Key : Clean(row[x], hist[x], u, x)
    BY <1>1, <1>2, <2>3, Looking DEF Entry
  <2>5. /\ call'[w].op = "restore" /\ call'[w].keys = {k} /\ pc'[w] = "lock"
        /\ \A v \in Worker \ {w} : call'[v] = call[v] /\ pc'[v] = pc[v]
    BY <1>1, <1>3, <1>4, <2>1 DEF CallType
  <2>6. \A v \in Worker \ {w} : txn'[v] = txn[v]
    BY <1>1, <2>1, PutLocal DEF IInv
  <2>7. Local(w)
    BY <2>1, <2>5, <2>6 DEF Local
  <2>8. Owning(w)'
    <3>1. OwnedHeads(hist, mark[w]) /\ "restore" \in Ops
      BY <1>1, <1>3 DEF Owning
    <3>2. QED
      BY <1>4, <2>1, <2>3, <2>5, <3>1 DEF Owning
  <2> HIDE DEF u
  <2>9. ASSUME NEW x \in Key PROVE Entry(w, x)'
    <3>1. Named(call'[w], mark[w], row[x], hist[x], x)
      BY <2>5 DEF Named
    <3>2. Midway("lock", call'[w], todo[w], seen[w], u, row[x], hist[x], x)
      BY <2>5 DEF Midway
    <3>3. Honest(w, row[x], hist[x], mark[w], x) /\ Clean(row[x], hist[x], mark[w], x)
      BY <1>1 DEF Entry
    <3>4. QED
      BY <2>1, <2>3, <2>4, <2>5, <3>1, <3>2, <3>3 DEF Entry, u
  <2>10. AllottedTo(w)' = {}
    BY <2>5 DEF AllottedTo, Allotted, Creates
  <2>11. "save" \in Ops => LiveTxn(u) /\ LiveTxn(mark[w])
    BY <1>1, <2>3 DEF LiveRows, LiveTxn
  <2>12. Advances(w)
    BY <2>1, <2>3, <2>8, <2>9, <2>10, <2>11 DEF Advances, u
  <2>13. QED
    BY <2>1, <2>7, <2>12
<1>8. QED
  BY <1>5, <1>6, <1>7

\* What every step of history.py does.
LEMMA HistoryAccounted ==
  ASSUME HistoryInv, CoverInv, Standing(HistoryPoints), NEW w \in Worker,
         HistoryStart(w) \/ HistoryStep(w)
  PROVE  PromiseInv' /\ Accounted(w)
<1>1. CASE Raise(w)
  <2>1. Advances(w) /\ Local(w) /\ row' = row /\ hist' = hist
    BY <1>1, RaiseAdvances, RaiseLocal DEF Standing, Raise, Rollback
  <2>2. QED
    BY <2>1, AdvanceKeeps DEF CommitsClean, Accounted
<1>2. CASE BackfillCommits(w)
  BY <1>2, BackfillCommitAdvances, AdvanceKeeps, CleanAccounted
<1>3. CASE ~Raise(w) /\ ~BackfillCommits(w)
  <2>1. Advances(w) /\ Local(w) /\ row' = row /\ hist' = hist
    BY <1>3, HistoryStartAdvances, VerifyAdvances, BackfillAdvances, BackfillReturnAdvances,
       RestoreAdvances DEF HistoryStep
  <2>2. QED
    BY <2>1, AdvanceKeeps DEF CommitsClean, Accounted
<1>4. QED
  BY <1>1, <1>2, <1>3

\* The invariant with history.py's operations beside the writes.
HistoryStanding == HistoryInv /\ CoverInv /\ PromiseInv

\* From every state of it, a step of ScopedHistory is accounted for.
LEMMA HistoryNextAccounted ==
  ASSUME NoReuse, ~Drift, HistoryStanding, [HistoryNext]_historyVars
  PROVE  /\ HistoryStanding'
         /\ \/ row' = row /\ hist' = hist
            \/ \E w \in Worker : Accounted(w)
<1>1. HistoryInv /\ CoverInv /\ PromiseInv /\ Standing(HistoryPoints)
  BY DEF HistoryStanding, Standing, HistoryInv, CoverInv
<1>2. HistoryInv' /\ CoverInv'
  BY <1>1, HistoryNextInv, CoverAlways
<1>3. CASE UNCHANGED vars
  BY <1>1, <1>2, <1>3, SamePromise DEF HistoryStanding, vars
<1>4. CASE \E w \in Worker : Start(w) \/ Step(w) \/ Fail(w)
  BY <1>1, <1>2, <1>4, WriteAccounted DEF HistoryStanding
<1>5. CASE \E w \in Worker : HistoryStart(w) \/ HistoryStep(w)
  BY <1>1, <1>2, <1>5, HistoryAccounted DEF HistoryStanding
<1>6. QED
  BY <1>3, <1>4, <1>5 DEF HistoryNext, historyVars, Next, Done, DriftWrite

\* backfill(), verify_history() and restore() keep the store's promise beside
\* the writes, where nothing changes rows behind PyScoped's back: a baseline
\* says what the row is, and a restore() is one more accounted change.
THEOREM HistoryKeepsPromise ==
  ASSUME NoReuse, ~Drift, Mode = "enforce" PROVE HistorySpec => KeepsPromise
<1> DEFINE log == [k \in Key |-> Events(hist[k])]
<1>1. HistoryInit => HistoryStanding /\ Promise!Init
  BY HistoryInitInv, CoverAlways, InitPromise, InitialStore DEF HistoryStanding, HistoryInit
<1>2. HistoryStanding /\ [HistoryNext]_historyVars =>
        HistoryStanding' /\ [\E s \in Scope : Promise!Transaction(s)]_<<row, log>>
  <2> SUFFICES ASSUME HistoryStanding, [HistoryNext]_historyVars
               PROVE  /\ HistoryStanding'
                      /\ [\E s \in Scope : Promise!Transaction(s)]_<<row, log>>
    OBVIOUS
  <2>1. CtxScope \in [Worker -> Scope]
    BY CtxAssumption
  <2>2. QED
    BY <2>1, HistoryNextAccounted DEF Accounted
<1>3. QED
  BY <1>1, <1>2, PTL DEF HistorySpec, KeepsPromise, Promise!Spec

\* The same of a model in audit mode, each row in its own scope.
THEOREM HistoryKeepsAuditPromise ==
  ASSUME NoReuse, ~Drift PROVE HistorySpec => KeepsAuditPromise
<1> DEFINE log == [k \in Key |-> Events(hist[k])]
<1>1. HistoryInit => HistoryStanding /\ Promise!Init
  BY HistoryInitInv, CoverAlways, InitPromise, InitialStore DEF HistoryStanding, HistoryInit
<1>2. HistoryStanding /\ [HistoryNext]_historyVars =>
        /\ HistoryStanding'
        /\ [\A k \in Key : (\E s \in Scope : Promise!Write(k, s)) \/ Promise!Keep(k)]_<<row, log>>
  BY HistoryNextAccounted DEF Accounted
<1>3. QED
  BY <1>1, <1>2, PTL DEF HistorySpec, KeepsAuditPromise, Promise!AuditSpec

-----------------------------------------------------------------------------
(* What the promise means for a history. *)

\* A store whose changes are accounted for has histories that say what the rows
\* are, without gaps.
LEMMA AccountedTells ==
  ASSUME NEW P, IInv(P), IInv(P)', Opened', HeadMatchesRow, ContinuousHistory,
         \/ row' = row /\ hist' = hist
         \/ \E w \in Worker : Accounted(w)
  PROVE  HeadMatchesRow' /\ ContinuousHistory'
<1>1. CASE row' = row /\ hist' = hist
  BY <1>1 DEF HeadMatchesRow, ContinuousHistory
<1>2. CASE \E w \in Worker : Accounted(w) /\ ~(row' = row /\ hist' = hist)
  <2> SUFFICES ASSUME NEW k \in Key
               PROVE  /\ hist'[k] # Null =>
                           hist'[k].events[Len(hist'[k].events)].after = Snapshot(row'[k])
                      /\ \A i \in 2..Len(Events(hist'[k])) :
                           Events(hist'[k])[i].before = Events(hist'[k])[i - 1].after
    BY DEF HeadMatchesRow, ContinuousHistory
  <2> DEFINE old == Events(hist[k])
  <2> DEFINE new == Events(hist'[k])
  <2>1. hist[k] \in MaybeHist /\ hist'[k] \in MaybeHist
    BY DEF IInv, GoodTables
  <2>2. /\ old \in Seq(Event) /\ new \in Seq(Event)
        /\ hist[k] # Null => old = hist[k].events
        /\ hist[k] = Null => old = <<>>
        /\ hist'[k] # Null => new = hist'[k].events /\ new # <<>>
    BY <2>1 DEF Events, MaybeHist, Resource, Opened
  <2>3. old # <<>> => old[Len(old)].after = Snapshot(row[k])
    BY <2>2 DEF HeadMatchesRow
  <2>4. \A i \in 2..Len(old) : old[i].before = old[i - 1].after
    BY DEF ContinuousHistory
  <2>5. (\E s \in Scope : Promise!Write(k, s)) \/ Promise!Keep(k)
    BY <1>2 DEF Accounted
  <2>6. CASE Promise!Keep(k)
    <3>1. row'[k] = row[k] /\ new = old
      BY <2>6 DEF Promise!Keep
    <3>2. QED
      BY <2>2, <2>3, <2>4, <3>1
  <2>7. ASSUME NEW s \in Scope, Promise!Write(k, s)
        PROVE  /\ new[Len(new)].after = Snapshot(row'[k])
               /\ \A i \in 2..Len(new) : new[i].before = new[i - 1].after
    <3> DEFINE n == Len(old)
    <3> DEFINE added == SubSeq(new, n + 1, Len(new))
    <3>1. Len(new) > n /\ Promise!IsPrefix(old, new) /\ Promise!Accounted(k, s, added)
      BY <2>7 DEF Promise!Write
    <3>2. n \in Nat /\ Len(new) \in Nat
      BY <2>2
    <3>3. \A i \in 1..n : new[i] = old[i]
      BY <2>2, <3>1 DEF Promise!IsPrefix
    <3>4. \A i \in DOMAIN added :
            LET prior == IF i = 1 THEN Snapshot(row[k]) ELSE added[i - 1].after IN
            IF added[i].action = "baseline" THEN n + i = 1 ELSE added[i].before = prior
      <4> HIDE DEF added, new
      <4>1. QED
        BY <3>1 DEF Promise!Accounted, Promise!Image, Snapshot
    <3>5. Snapshot(row'[k]) = added[Len(added)].after
      <4> HIDE DEF added, new, old
      <4>1. QED
        BY <3>1 DEF Promise!Accounted, Promise!Image, Promise!Last, Snapshot
    <3> HIDE DEF new, old
    <3>6. /\ added \in Seq(Event) /\ Len(added) = Len(new) - n
          /\ \A i \in 1..(Len(new) - n) : added[i] = new[n + i]
      BY <2>2, <3>1, <3>2
    <3> HIDE DEF added, n
    <3>7. /\ DOMAIN added = 1..(Len(new) - n) /\ Len(added) \in 1..(Len(new) - n)
          /\ n + Len(added) = Len(new)
      BY <3>1, <3>2, <3>6 DEF n
    <3>8. new[Len(new)].after = Snapshot(row'[k])
      BY <3>5, <3>6, <3>7
    <3>9. ASSUME NEW i \in 2..Len(new) PROVE new[i].before = new[i - 1].after
      <4>1. CASE i <= n
        BY <2>4, <3>2, <3>3, <4>1 DEF n
      <4>2. CASE i = n + 1
        <5>1. n >= 1 /\ 1 \in 1..(Len(new) - n) /\ n + 1 # 1 /\ i - 1 = n
          BY <3>2, <4>2
        <5>2. added[1] = new[i] /\ new[i].before = Snapshot(row[k])
          BY <3>4, <3>6, <3>7, <4>2, <5>1
        <5>3. new[i - 1] = old[n] /\ old # <<>>
          BY <2>2, <3>2, <3>3, <5>1 DEF n
        <5>4. QED
          BY <2>3, <5>2, <5>3 DEF n
      <4>3. CASE i > n + 1
        <5> DEFINE j == i - n
        <5>1. /\ j \in 1..(Len(new) - n) /\ j - 1 \in 1..(Len(new) - n) /\ j # 1 /\ n + j # 1
              /\ n + j = i /\ n + (j - 1) = i - 1
          BY <3>2, <4>3
        <5> HIDE DEF j
        <5>2. added[j] = new[i] /\ added[j - 1] = new[i - 1]
          BY <3>6, <5>1
        <5>3. QED
          BY <3>4, <3>7, <5>1, <5>2
      <4>4. QED
        BY <3>2, <4>1, <4>2, <4>3
    <3>10. QED
      BY <3>8, <3>9
  <2>8. QED
    BY <2>2, <2>5, <2>6, <2>7
<1>3. QED
  BY <1>1, <1>2

\* Nothing has been said yet.
LEMMA InitTells == Init => HeadMatchesRow /\ ContinuousHistory
BY DEF Init, HeadMatchesRow, ContinuousHistory, Events

\* The invariant, and what the histories say.
Telling == HistoryStanding /\ HeadMatchesRow /\ ContinuousHistory

\* With them the invariant is still inductive.
LEMMA TellingAlways ==
  ASSUME NoReuse, ~Drift
  PROVE  /\ HistoryInit => Telling
         /\ Telling /\ [HistoryNext]_historyVars => Telling'
<1>1. HistoryInit => Telling
  BY HistoryInitInv, CoverAlways, InitPromise, InitTells DEF Telling, HistoryStanding, HistoryInit
<1>2. Telling /\ [HistoryNext]_historyVars => Telling'
  BY HistoryNextAccounted, AccountedTells DEF Telling, HistoryStanding, HistoryInv, PromiseInv
<1>3. QED
  BY <1>1, <1>2

\* Where no key is used again the newest event of a row says what the row is,
\* deletion included.  Where save() and delete() meet it does not: the run
\* delete_race refutes it.
THEOREM HeadsMatchRows ==
  ASSUME NoReuse, ~Drift PROVE HistorySpec => []HeadMatchesRow
BY TellingAlways, PTL DEF HistorySpec, Telling

\* There the history of a key has no gap either: each event starts from what the
\* one before it left, whichever writers, backfills and restores they are of.
THEOREM HistoriesContinuous ==
  ASSUME NoReuse, ~Drift PROVE HistorySpec => []ContinuousHistory
BY TellingAlways, PTL DEF HistorySpec, Telling

=============================================================================
