------------------------- MODULE ScopedWritesProofs -------------------------
(***************************************************************************)
(* Proofs about ScopedWrites, for any number of workers, keys, scopes and  *)
(* values, any set of operations, either mode, with and without blocks and *)
(* faults: the type invariant, that every committed history verifies, and, *)
(* from the locks, that a row is always in the scope of its history: no two*)
(* transactions own the same row or the same head, so what one of them has *)
(* checked about scopes is still true when it commits.                     *)
(***************************************************************************)
EXTENDS ScopedWrites, TLAPS

-----------------------------------------------------------------------------
(* The inductive invariant. *)

\* Who wrote an event, which event a baseline is, and where a restore() starts.
Signed(h) ==
  \A i \in 1..Len(h.events) :
    /\ Mode = "enforce" => CtxScope[h.events[i].actor] = h.events[i].scope
    /\ h.events[i].action = "baseline" => i = 1
    /\ h.events[i].action = "restore" => i > 1 /\ h.events[i].before = h.events[i - 1].after

\* A history a transaction or the database holds is one that verifies.
Sound(h) == h # Null => Verifies(h) /\ Signed(h)

\* What a transaction owns is well typed and sound, so committing it is.  A
\* history is never taken away.
GoodTxn(t) ==
  /\ TxnTypeOK(t)
  /\ \A k \in DOMAIN t.hist : t.hist[k] # Null /\ Sound(t.hist[k])

GoodTables ==
  /\ row \in [Key -> MaybeRow]
  /\ hist \in [Key -> MaybeHist]
  /\ \A k \in Key : Sound(hist[k])

GoodTxns ==
  /\ DOMAIN txn = Worker /\ DOMAIN mark = Worker
  /\ \A w \in Worker : GoodTxn(txn[w]) /\ GoodTxn(mark[w])

\* The control state.  Other modules add program points to P.
GoodControl(P) ==
  /\ pc \in [Worker -> P]
  /\ call \in [Worker -> CallType]
  /\ todo \in [Worker -> SUBSET Key]
  /\ DOMAIN seen = Worker
  /\ \A w \in Worker : Partial(seen[w], Image)
  /\ block \in [Worker -> BOOLEAN]
  /\ unused \in SUBSET Key
  /\ calls \in 0..MaxCalls

\* A row the worker's transaction has locked, and its check_scope() let pass.
HoldsRow(t, w, k) ==
  k \in DOMAIN t.row /\ t.row[k] # Null /\ CheckScope(w, t.row[k].scope)

\* before_delete() and backfill() append their event about a row they have
\* locked and checked; restore() locks the row before it looks at the history.
HoldPoints == {"delete", "b_check", "r_head", "r_verify"}

Held(p, K) ==
  IF p \in {"delete", "b_check"} THEN FirstOf(K)
  ELSE IF p \in {"r_head", "r_verify"} THEN K ELSE {}

Holds == \A w \in Worker : \A k \in Held(pc[w], todo[w]) : HoldsRow(txn[w], w, k)

\* A restore() that has come to its save() owns the row and the head, and the
\* head says what the row was when the save() read it.
Reconciled(p, t, s, k) ==
  /\ k \in DOMAIN t.row /\ t.row[k] # Null
  /\ k \in DOMAIN t.hist /\ t.hist[k].events # <<>>
  /\ t.hist[k].events[Len(t.hist[k].events)].after =
       IF p = "lock" THEN t.row[k].val ELSE IF k \in DOMAIN s THEN s[k] ELSE Null

RestoreAt(p, K, t, s) ==
  /\ p \notin {"insert", "delete"}
  /\ p \in {"lock", "write", "record"} => \A k \in K : Reconciled(p, t, s, k)

RestoreHolds ==
  \A w \in Worker : call[w].op = "restore" => RestoreAt(pc[w], todo[w], txn[w], seen[w])

IInv(P) == GoodTables /\ GoodTxns /\ GoodControl(P) /\ Holds /\ RestoreHolds

-----------------------------------------------------------------------------
(* What the transactions keep. *)

\* A transaction that owns nothing is good.
LEMMA EmptyGood == GoodTxn(NoLocks)
BY DEF GoodTxn, TxnTypeOK, NoLocks, Empty, Partial

\* Merging two partial functions gives one with both domains.
LEMMA MergePartial ==
  ASSUME NEW T, NEW f, NEW g, Partial(f, T), Partial(g, T)
  PROVE  Partial(Merge(f, g), T)
BY DEF Merge, Partial

\* Committing a partial function over a table gives a table.
LEMMA MergeTable ==
  ASSUME NEW T, NEW f, NEW g, Partial(f, T), g \in [Key -> T]
  PROVE  /\ Merge(f, g) \in [Key -> T]
         /\ \A k \in Key : Merge(f, g)[k] = IF k \in DOMAIN f THEN f[k] ELSE g[k]
BY DEF Merge, Partial

\* What a statement reads is well typed, and a history it reads is sound.
LEMMA VisibleTyped ==
  ASSUME GoodTables, GoodTxns, NEW w \in Worker, NEW k \in Key
  PROVE  /\ VisibleRow(w, k) \in MaybeRow
         /\ VisibleHist(w, k) \in MaybeHist
         /\ Sound(VisibleHist(w, k))
BY DEF GoodTables, GoodTxns, GoodTxn, TxnTypeOK, Partial, VisibleRow, VisibleHist

\* Writing rows leaves the worker a good transaction with those rows in it.
LEMMA PutRowsGood ==
  ASSUME GoodTxns, NEW w \in Worker, NEW f, Partial(f, MaybeRow)
  PROVE  /\ DOMAIN PutRows(w, f) = Worker
         /\ GoodTxn(PutRows(w, f)[w])
         /\ DOMAIN PutRows(w, f)[w].row = DOMAIN f \union DOMAIN txn[w].row
         /\ \A k \in DOMAIN f : PutRows(w, f)[w].row[k] = f[k]
         /\ \A k \in DOMAIN txn[w].row \ DOMAIN f : PutRows(w, f)[w].row[k] = txn[w].row[k]
         /\ PutRows(w, f)[w].hist = txn[w].hist
         /\ \A v \in Worker \ {w} : PutRows(w, f)[v] = txn[v]
<1>1. Partial(txn[w].row, MaybeRow)
  BY DEF GoodTxns, GoodTxn, TxnTypeOK
<1>2. PutRows(w, f)[w] = [row |-> Merge(f, txn[w].row), hist |-> txn[w].hist]
  BY DEF PutRows, GoodTxns
<1> DEFINE m == Merge(f, txn[w].row)
<1>3. Partial(m, MaybeRow)
  BY <1>1, MergePartial
<1>4. /\ DOMAIN m = DOMAIN f \union DOMAIN txn[w].row
      /\ \A k \in DOMAIN f : m[k] = f[k]
      /\ \A k \in DOMAIN txn[w].row \ DOMAIN f : m[k] = txn[w].row[k]
  BY DEF Merge
<1> HIDE DEF m
<1>5. GoodTxn([row |-> m, hist |-> txn[w].hist])
  BY <1>3 DEF GoodTxns, GoodTxn, TxnTypeOK
<1>6. DOMAIN PutRows(w, f) = Worker /\ \A v \in Worker \ {w} : PutRows(w, f)[v] = txn[v]
  BY DEF PutRows, GoodTxns
<1>7. QED
  BY <1>2, <1>4, <1>5, <1>6 DEF m

\* Writing a sound history leaves the worker a good transaction.
LEMMA PutHistGood ==
  ASSUME GoodTxns, NEW w \in Worker, NEW k \in Key, NEW h \in Resource, Verifies(h), Signed(h)
  PROVE  /\ DOMAIN PutHist(w, k, h) = Worker
         /\ GoodTxn(PutHist(w, k, h)[w])
         /\ DOMAIN PutHist(w, k, h)[w].hist = DOMAIN txn[w].hist \union {k}
         /\ PutHist(w, k, h)[w].hist[k] = h
         /\ \A x \in DOMAIN txn[w].hist \ {k} : PutHist(w, k, h)[w].hist[x] = txn[w].hist[x]
         /\ PutHist(w, k, h)[w].row = txn[w].row
         /\ \A v \in Worker \ {w} : PutHist(w, k, h)[v] = txn[v]
<1> DEFINE f == [x \in {k} |-> h]
<1>1. Partial(txn[w].hist, MaybeHist) /\ Partial(f, MaybeHist)
  BY DEF GoodTxns, GoodTxn, TxnTypeOK, Partial, MaybeHist
<1>2. PutHist(w, k, h)[w] = [row |-> txn[w].row, hist |-> Merge(f, txn[w].hist)]
  BY DEF PutHist, GoodTxns
<1>3. \A x \in DOMAIN Merge(f, txn[w].hist) :
        Merge(f, txn[w].hist)[x] # Null /\ Sound(Merge(f, txn[w].hist)[x])
  <2>1. \A x \in DOMAIN f : f[x] # Null /\ Sound(f[x])
    <3>1. h # Null
      BY AbsenceAssumption
    <3>2. QED
      BY <3>1 DEF Sound
  <2>2. \A x \in DOMAIN txn[w].hist : txn[w].hist[x] # Null /\ Sound(txn[w].hist[x])
    BY DEF GoodTxns, GoodTxn
  <2> HIDE DEF f
  <2>3. QED
    BY <2>1, <2>2 DEF Merge
<1> DEFINE m == Merge(f, txn[w].hist)
<1>4. Partial(m, MaybeHist)
  BY <1>1, MergePartial
<1>8. /\ DOMAIN m = DOMAIN txn[w].hist \union {k} /\ m[k] = h
      /\ \A x \in DOMAIN txn[w].hist \ {k} : m[x] = txn[w].hist[x]
  BY DEF Merge
<1> HIDE DEF f, m
<1>5. GoodTxn([row |-> txn[w].row, hist |-> m])
  BY <1>3, <1>4 DEF m, GoodTxns, GoodTxn, TxnTypeOK
<1>6. /\ DOMAIN PutHist(w, k, h) = Worker
      /\ \A v \in Worker \ {w} : PutHist(w, k, h)[v] = txn[v]
  BY DEF PutHist, GoodTxns
<1>7. QED
  BY <1>2, <1>5, <1>6, <1>8 DEF m

\* load_row(lock=True) leaves a good transaction, with the row in it if found.
LEMMA LockedGood ==
  ASSUME GoodTables, GoodTxns, NEW w \in Worker, NEW k \in Key
  PROVE  /\ DOMAIN Locked(w, k) = Worker
         /\ GoodTxn(Locked(w, k)[w])
         /\ VisibleRow(w, k) # Null => /\ k \in DOMAIN Locked(w, k)[w].row
                                       /\ Locked(w, k)[w].row[k] = VisibleRow(w, k)
         /\ Locked(w, k)[w].hist = txn[w].hist
         /\ DOMAIN txn[w].row \subseteq DOMAIN Locked(w, k)[w].row
         /\ \A x \in DOMAIN txn[w].row : Locked(w, k)[w].row[x] = txn[w].row[x]
         /\ DOMAIN Locked(w, k)[w].row \subseteq DOMAIN txn[w].row \union {k}
         /\ \A v \in Worker \ {w} : Locked(w, k)[v] = txn[v]
<1> DEFINE f == [x \in {k} |-> VisibleRow(w, k)]
<1>1. Partial(f, MaybeRow) /\ DOMAIN f = {k} /\ f[k] = VisibleRow(w, k)
  BY VisibleTyped DEF Partial
<1>2. CASE VisibleRow(w, k) = Null
  BY <1>2 DEF Locked, GoodTxns
<1>3. CASE VisibleRow(w, k) # Null
  <2>1. Locked(w, k) = PutRows(w, f)
    BY <1>3 DEF Locked
  <2> HIDE DEF f
  <2>2. k \in DOMAIN txn[w].row => f[k] = txn[w].row[k]
    BY <1>1 DEF VisibleRow
  <2>3. QED
    BY <1>1, <1>3, <2>1, <2>2, PutRowsGood
<1>4. QED
  BY <1>2, <1>3

-----------------------------------------------------------------------------
(* What append_event() keeps. *)

\* The new event continues the head it was made for.
LEMMA NewEventContinues ==
  ASSUME NEW h \in Resource, NEW w \in Worker, NEW r \in Row, NEW action \in Action,
         NEW before \in Image, NEW after \in Image
  PROVE  LET e == NewEvent(w, h, r, action, before, after) IN
         /\ e \in Event
         /\ e.revision = h.revision + 1
         /\ e.scope = r.scope
         /\ e.actor = w /\ e.action = action /\ e.before = before /\ e.after = after
         /\ e.previous = h.digest
         /\ e.digest = EventDigest(e)
<1> DEFINE c == [revision |-> h.revision + 1, scope |-> r.scope, actor |-> w,
                 action |-> action, before |-> before, after |-> after]
<1> DEFINE blank == [revision |-> h.revision + 1, scope |-> r.scope, actor |-> w,
                     action |-> action, before |-> before, after |-> after,
                     previous |-> h.digest, digest |-> <<>>]
<1> DEFINE e == [blank EXCEPT !.digest = Append(h.digest, c)]
<1>1. c \in Content /\ h.digest \in Seq(Content)
  BY DEF Content, Resource, Row, Digest
<1>2. Append(h.digest, c) \in Digest /\ h.digest \in Digest /\ <<>> \in Digest
  BY <1>1 DEF Digest
<1>3. blank \in Event
  BY <1>2 DEF Event, Resource, Row
<1>4. EventDigest(blank) = Append(h.digest, c)
  BY DEF EventDigest
<1>5. NewEvent(w, h, r, action, before, after) = e
  BY <1>4, Zenon DEF NewEvent
<1>6. /\ blank.revision = h.revision + 1 /\ blank.scope = r.scope /\ blank.actor = w
      /\ blank.action = action /\ blank.before = before /\ blank.after = after
      /\ blank.previous = h.digest
  OBVIOUS
<1> HIDE DEF blank
<1>7. /\ e \in Event /\ e.digest = Append(h.digest, c)
      /\ e.revision = h.revision + 1 /\ e.scope = r.scope /\ e.actor = w
      /\ e.action = action /\ e.before = before /\ e.after = after
      /\ e.previous = h.digest
  BY <1>2, <1>3, <1>6 DEF Event
<1> HIDE DEF e
<1>8. EventDigest(e) = Append(h.digest, c)
  BY <1>7 DEF EventDigest
<1>9. QED
  BY <1>5, <1>7, <1>8

\* A history that verifies still does with an event that continues it.
LEMMA AppendedVerifies ==
  ASSUME NEW h \in Resource, Verifies(h), NEW e \in Event,
         e.revision = h.revision + 1, e.scope = h.scope,
         e.previous = h.digest, e.digest = EventDigest(e)
  PROVE  Appended(h, e) \in Resource /\ Verifies(Appended(h, e))
<1> DEFINE g == Appended(h, e)
<1> DEFINE n == Len(h.events)
<1>1. h.events \in Seq(Event) /\ n \in Nat /\ h.revision = n
  BY DEF Resource, Verifies
<1>2. /\ g.scope = h.scope /\ g.revision = n + 1 /\ g.digest = e.digest
      /\ g.events = Append(h.events, e)
  BY <1>1 DEF Appended, Resource
<1>3. g \in Resource
  <2>1. Append(h.events, e) \in Seq(Event) /\ e.digest \in Digest /\ e.revision \in Nat
    BY <1>1 DEF Event
  <2>2. QED
    BY <2>1 DEF Appended, Resource
<1>4. /\ Len(g.events) = n + 1 /\ g.events[n + 1] = e
      /\ \A i \in 1..n : g.events[i] = h.events[i]
  BY <1>1, <1>2
<1>5. g.digest = (IF g.events = <<>> THEN <<>> ELSE g.events[Len(g.events)].digest)
  BY <1>1, <1>2, <1>4
<1>6. h.digest = IF n = 0 THEN <<>> ELSE h.events[n].digest
  BY <1>1 DEF Verifies
<1>7. ASSUME NEW i \in 1..(n + 1)
      PROVE  /\ g.events[i].revision = i
             /\ g.events[i].previous = (IF i = 1 THEN <<>> ELSE g.events[i - 1].digest)
             /\ g.events[i].scope = g.scope
             /\ g.events[i].digest = EventDigest(g.events[i])
  <2>1. CASE i = n + 1
    BY <1>1, <1>2, <1>4, <1>6, <2>1
  <2>2. CASE i \in 1..n
    <3>1. g.events[i] = h.events[i] /\ (i # 1 => g.events[i - 1] = h.events[i - 1])
      BY <1>1, <1>4, <2>2
    <3>2. QED
      BY <1>1, <1>2, <2>2, <3>1 DEF Verifies
  <2>3. QED
    BY <1>1, <2>1, <2>2
<1>8. QED
  BY <1>1, <1>2, <1>3, <1>4, <1>5, <1>7 DEF Verifies

\* An event signed by a worker in its scope, a baseline if it is the first, a
\* restore where the history stood, leaves the history signed.
LEMMA AppendedSigned ==
  ASSUME NEW h \in Resource, Verifies(h), Signed(h), NEW e \in Event,
         Mode = "enforce" => CtxScope[e.actor] = e.scope,
         e.action = "baseline" => h.revision = 0,
         e.action = "restore" =>
           h.events # <<>> /\ e.before = h.events[Len(h.events)].after
  PROVE  Signed(Appended(h, e))
<1> DEFINE g == Appended(h, e)
<1> DEFINE n == Len(h.events)
<1>1. h.events \in Seq(Event) /\ n \in Nat /\ h.revision = n
  BY DEF Resource, Verifies
<1>2. g.events = Append(h.events, e)
  BY <1>1 DEF Appended, Resource
<1>3. /\ Len(g.events) = n + 1 /\ g.events[n + 1] = e
      /\ \A i \in 1..n : g.events[i] = h.events[i]
  BY <1>1, <1>2
<1>4. h.events # <<>> => n > 0
  BY <1>1
<1> HIDE DEF g, n
<1>5. ASSUME NEW i \in 1..Len(g.events)
      PROVE  /\ Mode = "enforce" => CtxScope[g.events[i].actor] = g.events[i].scope
             /\ g.events[i].action = "baseline" => i = 1
             /\ g.events[i].action = "restore" => i > 1 /\ g.events[i].before = g.events[i - 1].after
  <2>1. CASE i = n + 1
    <3>1. g.events[i] = e
      BY <1>3, <2>1
    <3>2. e.action = "baseline" => i = 1
      BY <1>1, <2>1
    <3>3. e.action = "restore" => i > 1 /\ e.before = g.events[i - 1].after
      <4> SUFFICES ASSUME e.action = "restore" PROVE i > 1 /\ e.before = g.events[i - 1].after
        OBVIOUS
      <4>1. n > 0 /\ e.before = h.events[n].after
        BY <1>4 DEF n
      <4>2. i - 1 = n /\ n \in 1..n
        BY <1>1, <2>1, <4>1
      <4>3. QED
        BY <1>1, <1>3, <2>1, <4>1, <4>2
    <3>4. QED
      BY <3>1, <3>2, <3>3
  <2>2. CASE i \in 1..n
    <3>1. g.events[i] = h.events[i] /\ (i > 1 => g.events[i - 1] = h.events[i - 1])
      BY <1>1, <1>3, <2>2
    <3>2. QED
      BY <2>2, <3>1 DEF Signed, n
  <2>3. QED
    BY <1>1, <1>3, <2>1, <2>2
<1>6. QED
  BY <1>5 DEF Signed, g

\* get_or_create() finds a sound head, or makes one.
LEMMA HeadGood ==
  ASSUME GoodTables, GoodTxns, NEW w \in Worker, NEW k \in Key, NEW r \in Row
  PROVE  HeadOf(w, k, r) \in Resource /\ Verifies(HeadOf(w, k, r)) /\ Signed(HeadOf(w, k, r))
<1> DEFINE new == [scope |-> r.scope, revision |-> 0, digest |-> <<>>, events |-> <<>>]
<1>1. new \in Resource /\ Verifies(new) /\ Signed(new)
  BY DEF Resource, Row, Digest, Verifies, Signed
<1>2. QED
  BY <1>1, VisibleTyped DEF HeadOf, Sound, MaybeHist

-----------------------------------------------------------------------------
(* What the steps an operation is made of keep. *)

\* One worker's transaction and savepoint change, and stay good.
LEMMA TxnStep ==
  ASSUME GoodTables, GoodTxns, NEW w \in Worker, row' = row, hist' = hist,
         DOMAIN txn' = Worker, GoodTxn(txn'[w]),
         \A v \in Worker \ {w} : txn'[v] = txn[v],
         DOMAIN mark' = Worker, GoodTxn(mark'[w]),
         \A v \in Worker \ {w} : mark'[v] = mark[v]
  PROVE  GoodTables' /\ GoodTxns'
<1>1. GoodTables'
  BY DEF GoodTables
<1>2. ASSUME NEW v \in Worker PROVE GoodTxn(txn'[v]) /\ GoodTxn(mark'[v])
  BY DEF GoodTxns
<1>3. QED
  BY <1>1, <1>2 DEF GoodTxns

\* A worker's move does not disturb another that holds a row.
LEMMA HoldsStep ==
  ASSUME NEW P, GoodControl(P), Holds, NEW w \in Worker, NEW p, NEW K \in SUBSET Key,
         pc' = [pc EXCEPT ![w] = p], todo' = [todo EXCEPT ![w] = K],
         \A v \in Worker \ {w} : txn'[v] = txn[v],
         \A k \in Held(p, K) : HoldsRow(txn'[w], w, k)
  PROVE  Holds'
<1>1. SUFFICES ASSUME NEW v \in Worker, NEW k \in Held(pc'[v], todo'[v])
               PROVE  HoldsRow(txn'[v], v, k)
  BY DEF Holds, HoldsRow, CheckScope
<1>2. CASE v = w
  BY <1>1, <1>2 DEF GoodControl
<1>3. CASE v # w
  BY <1>1, <1>3 DEF GoodControl, Holds
<1>4. QED
  BY <1>2, <1>3

\* Nor one that restores.
LEMMA RestoreStep ==
  ASSUME NEW P, GoodControl(P), RestoreHolds, NEW w \in Worker, NEW p, NEW K \in SUBSET Key,
         pc' = [pc EXCEPT ![w] = p], todo' = [todo EXCEPT ![w] = K],
         \A v \in Worker \ {w} : txn'[v] = txn[v] /\ seen'[v] = seen[v] /\ call'[v] = call[v],
         call'[w].op = "restore" => RestoreAt(p, K, txn'[w], seen'[w])
  PROVE  RestoreHolds'
<1>1. SUFFICES ASSUME NEW v \in Worker, call'[v].op = "restore"
               PROVE  RestoreAt(pc'[v], todo'[v], txn'[v], seen'[v])
  BY DEF RestoreHolds, RestoreAt, Reconciled
<1>2. CASE v = w
  BY <1>1, <1>2 DEF GoodControl
<1>3. CASE v # w
  BY <1>1, <1>3 DEF GoodControl, RestoreHolds
<1>4. QED
  BY <1>2, <1>3

\* A step inside an operation, given what it did to the worker's transaction.
LEMMA GotoKeeps ==
  ASSUME NEW P, IInv(P), NEW w \in Worker, NEW next \in P, NEW work \in SUBSET Key,
         Goto(w, next, work),
         DOMAIN txn' = Worker, GoodTxn(txn'[w]),
         \A v \in Worker \ {w} : txn'[v] = txn[v],
         DOMAIN seen' = Worker, Partial(seen'[w], Image),
         \A v \in Worker \ {w} : seen'[v] = seen[v],
         \A k \in Held(next, work) : HoldsRow(txn'[w], w, k),
         call[w].op = "restore" => RestoreAt(next, work, txn'[w], seen'[w])
  PROVE  IInv(P)'
<1>1. GoodTables' /\ GoodTxns'
  BY TxnStep DEF IInv, Goto, GoodTxns
<1>2. GoodControl(P)'
  <2>1. \A v \in Worker : Partial(seen'[v], Image)
    BY DEF IInv, GoodControl
  <2>2. QED
    BY <2>1 DEF IInv, GoodControl, Goto
<1>3. Holds'
  BY HoldsStep DEF IInv, Goto
<1>4. RestoreHolds'
  BY RestoreStep DEF IInv, Goto
<1>5. QED
  BY <1>1, <1>2, <1>3, <1>4 DEF IInv

\* Elsewhere nothing need be held.
LEMMA HeldNowhere == ASSUME NEW p, p \notin HoldPoints, NEW K PROVE Held(p, K) = {}
BY DEF Held, HoldPoints

\* The same when only the place in the program changes.
LEMMA PlainGotoKeeps ==
  ASSUME NEW P, IInv(P), NEW w \in Worker, NEW next \in P \ HoldPoints,
         NEW work \in SUBSET Key, Goto(w, next, work), txn' = txn, seen' = seen,
         call[w].op = "restore" => RestoreAt(next, work, txn[w], seen[w])
  PROVE  IInv(P)'
BY GotoKeeps, HeldNowhere DEF IInv, GoodTxns, GoodControl

\* The filler for a worker in no operation is well typed.
LEMMA NoCallTyped == NoCall \in CallType
BY SomeAssumption DEF NoCall, CallType

\* Leaving an operation clears its control state.
LEMMA EndsControl ==
  ASSUME NEW P, GoodControl(P), {"idle", "open"} \subseteq P, NEW w \in Worker, Ends(w)
  PROVE  GoodControl(P)'
<1>1. \A v \in Worker : Partial(seen'[v], Image)
  BY DEF GoodControl, Ends, Partial, Empty
<1>2. QED
  BY <1>1, NoCallTyped DEF GoodControl, Ends

\* Nothing is held, and nothing restored, between operations.
LEMMA EndsHolds ==
  ASSUME NEW P, GoodControl(P), Holds, RestoreHolds, NEW w \in Worker, Ends(w),
         \A v \in Worker \ {w} : txn'[v] = txn[v]
  PROVE  Holds' /\ RestoreHolds'
<1> DEFINE p == IF block[w] THEN "open" ELSE "idle"
<1>1. /\ pc' = [pc EXCEPT ![w] = p] /\ todo' = [todo EXCEPT ![w] = {}]
      /\ call'[w].op = "none" /\ \A v \in Worker \ {w} : call'[v] = call[v] /\ seen'[v] = seen[v]
  BY DEF Ends, GoodControl, NoCall
<1>2. Held(p, {}) = {} /\ {} \in SUBSET Key
  BY HeldNowhere DEF HoldPoints
<1> HIDE DEF p
<1>3. Holds'
  BY <1>1, <1>2, HoldsStep
<1>4. RestoreHolds'
  BY <1>1, <1>2, RestoreStep
<1>5. QED
  BY <1>3, <1>4

\* An exception gives the worker back the transaction of the savepoint.
LEMMA RaiseKeeps ==
  ASSUME NEW P, IInv(P), {"idle", "open"} \subseteq P, NEW w \in Worker, Raise(w)
  PROVE  IInv(P)'
<1>1. GoodTables' /\ GoodTxns'
  <2>1. /\ DOMAIN txn' = Worker /\ txn'[w] = mark[w]
        /\ DOMAIN mark' = Worker /\ mark'[w] = NoLocks
        /\ \A v \in Worker \ {w} : txn'[v] = txn[v] /\ mark'[v] = mark[v]
        /\ row' = row /\ hist' = hist
    BY DEF IInv, Raise, Rollback, Ends, GoodTxns
  <2>2. GoodTxn(txn'[w]) /\ GoodTxn(mark'[w])
    BY <2>1, EmptyGood DEF IInv, GoodTxns
  <2>3. QED
    BY <2>1, <2>2, TxnStep DEF IInv
<1>2. GoodControl(P)'
  BY EndsControl DEF IInv, Raise
<1>3. Holds' /\ RestoreHolds'
  <2>1. \A v \in Worker \ {w} : txn'[v] = txn[v]
    BY DEF IInv, Raise, Rollback, GoodTxns
  <2>2. QED
    BY <2>1, EndsHolds DEF IInv, Raise
<1>4. QED
  BY <1>1, <1>2, <1>3 DEF IInv

\* append_event() keeps the invariant, whether it appends or refuses.
LEMMA AppendKeeps ==
  ASSUME NEW P, IInv(P), {"idle", "open"} \subseteq P, NEW w \in Worker, NEW k \in Key,
         NEW r \in Row, NEW action \in Action, NEW before \in Image, NEW after \in Image,
         NEW next \in P \ HoldPoints,
         AppendEvent(w, k, r, action, before, after, next),
         CheckScope(w, r.scope),
         action = "baseline" => HeadOf(w, k, r).revision = 0,
         action = "restore" =>
           /\ HeadOf(w, k, r).events # <<>>
           /\ before = HeadOf(w, k, r).events[Len(HeadOf(w, k, r).events)].after,
         call[w].op = "restore" => next = pc[w] \/ next \notin {"insert", "delete", "lock", "write", "record"}
  PROVE  IInv(P)'
<1> DEFINE h == HeadOf(w, k, r)
<1> DEFINE e == NewEvent(w, h, r, action, before, after)
<1> DEFINE g == Appended(h, e)
<1>1. h \in Resource /\ Verifies(h) /\ Signed(h)
  BY HeadGood DEF IInv
<1>2. CASE Reassigned(h, r)
  <2>1. Raise(w)
    BY <1>2 DEF AppendEvent
  <2>2. QED
    BY <2>1, RaiseKeeps
<1>3. CASE ~Reassigned(h, r)
  <2>1. txn' = PutHist(w, k, g) /\ Goto(w, next, todo[w] \ {k}) /\ seen' = seen
    BY <1>3 DEF AppendEvent
  <2>2. g \in Resource /\ Verifies(g) /\ Signed(g)
    <3>4. /\ action = "baseline" => h.revision = 0
          /\ action = "restore" => h.events # <<>> /\ before = h.events[Len(h.events)].after
      OBVIOUS
    <3> HIDE DEF h
    <3>1. /\ e \in Event /\ e.revision = h.revision + 1 /\ e.scope = r.scope
          /\ e.actor = w /\ e.action = action /\ e.before = before
          /\ e.previous = h.digest /\ e.digest = EventDigest(e)
      BY <1>1, NewEventContinues
    <3>2. h.scope = r.scope
      BY <1>3 DEF Reassigned
    <3>5. Mode = "enforce" => CtxScope[e.actor] = e.scope
      BY <3>1 DEF CheckScope
    <3> HIDE DEF e
    <3>3. QED
      BY <1>1, <3>1, <3>2, <3>4, <3>5, AppendedVerifies, AppendedSigned
  <2> HIDE DEF g
  <2>3. todo[w] \ {k} \in SUBSET Key
    BY DEF IInv, GoodControl
  <2>4. /\ DOMAIN txn' = Worker /\ GoodTxn(txn'[w])
        /\ \A v \in Worker \ {w} : txn'[v] = txn[v]
    BY <2>1, <2>2, PutHistGood DEF IInv
  <2>5. DOMAIN seen' = Worker /\ \A v \in Worker : Partial(seen'[v], Image) /\ seen'[v] = seen[v]
    BY <2>1 DEF IInv, GoodControl
  <2>6. \A x \in Held(next, todo[w] \ {k}) : HoldsRow(txn'[w], w, x)
    BY HeldNowhere
  <2>7. call[w].op = "restore" => RestoreAt(next, todo[w] \ {k}, txn'[w], seen'[w])
    <3> SUFFICES ASSUME call[w].op = "restore", next = pc[w]
                 PROVE  RestoreAt(next, todo[w] \ {k}, txn'[w], seen'[w])
      BY DEF RestoreAt
    <3>1. RestoreAt(next, todo[w], txn[w], seen[w])
      BY DEF IInv, RestoreHolds
    <3>2. /\ txn'[w].row = txn[w].row /\ seen'[w] = seen[w]
          /\ DOMAIN txn'[w].hist = DOMAIN txn[w].hist \union {k}
          /\ \A x \in DOMAIN txn[w].hist \ {k} : txn'[w].hist[x] = txn[w].hist[x]
      BY <2>1, <2>2, <2>5, PutHistGood DEF IInv
    <3>3. QED
      BY <3>1, <3>2 DEF RestoreAt, Reconciled
  <2>8. QED
    BY <2>1, <2>3, <2>4, <2>5, <2>6, <2>7, GotoKeeps
<1>4. QED
  BY <1>2, <1>3

\* Opening or closing a block moves one worker to where it holds nothing.
LEMMA HoldsElsewhere ==
  ASSUME NEW P, GoodControl(P), Holds, RestoreHolds, NEW w \in Worker, NEW p \in {"idle", "open"},
         pc' = [pc EXCEPT ![w] = p], todo' = todo, call' = call, seen' = seen,
         \A v \in Worker \ {w} : txn'[v] = txn[v]
  PROVE  Holds' /\ RestoreHolds'
<1>1. todo' = [todo EXCEPT ![w] = todo[w]] /\ todo[w] \in SUBSET Key
  BY DEF GoodControl
<1>2. Held(p, todo[w]) = {} /\ RestoreAt(p, todo[w], txn'[w], seen'[w])
  BY HeldNowhere DEF HoldPoints, RestoreAt
<1>3. Holds'
  BY <1>1, <1>2, HoldsStep
<1>4. RestoreHolds'
  BY <1>1, <1>2, RestoreStep
<1>5. QED
  BY <1>3, <1>4

\* Starting an operation, given arguments of the right types.
LEMMA BeginKeeps ==
  ASSUME NEW P, IInv(P), NEW w \in Worker, NEW c \in CallType,
         NEW next \in P \ HoldPoints, NEW work \in SUBSET Key,
         Begin(w, c, next, work), unused' \in SUBSET Key,
         c.op = "restore" => next \notin {"lock", "write", "insert", "record"}
  PROVE  IInv(P)'
<1>1. GoodTables' /\ GoodTxns'
  <2>1. /\ txn' = txn /\ row' = row /\ hist' = hist
        /\ DOMAIN mark' = Worker /\ mark'[w] = txn[w]
        /\ \A v \in Worker \ {w} : mark'[v] = mark[v]
    BY DEF IInv, Begin, GoodTxns
  <2>2. QED
    BY <2>1, TxnStep DEF IInv, GoodTxns
<1>2. GoodControl(P)'
  BY BoundAssumption DEF IInv, GoodControl, Begin
<1>3. Holds'
  BY HoldsStep, HeldNowhere DEF IInv, Begin
<1>4. RestoreHolds'
  <2>1. RestoreAt(next, work, txn'[w], seen'[w]) \/ c.op # "restore"
    BY DEF RestoreAt, HoldPoints
  <2>2. call'[w] = c /\ \A v \in Worker \ {w} : txn'[v] = txn[v] /\ seen'[v] = seen[v] /\ call'[v] = call[v]
    BY DEF IInv, GoodControl, Begin
  <2>3. QED
    BY <2>1, <2>2, RestoreStep DEF IInv, Begin
<1>5. QED
  BY <1>1, <1>2, <1>3, <1>4 DEF IInv

-----------------------------------------------------------------------------
(* One lemma for each group of actions. *)

\* The operations start in a state of the right types.
LEMMA StartKeeps ==
  ASSUME NEW P, WritePoints \subseteq P, IInv(P), NEW w \in Worker, Start(w)
  PROVE  IInv(P)'
<1>1. KnownKeys(w) \subseteq Key /\ FreshKeys \subseteq Key /\ unused \subseteq Key
  BY DEF IInv, GoodControl, KnownKeys, FreshKeys
<1>2. CtxScope[w] \in Scope /\ NoCall.val \in Value
  BY CtxAssumption, SomeAssumption DEF NoCall
<1>3. "lock" \in P \ HoldPoints /\ "insert" \in P \ HoldPoints
  BY DEF WritePoints, HoldPoints
<1>4. CASE BeginSave(w)
  <2>1. PICK op \in {"save", "save_fields"}, k \in KnownKeys(w), s \in Scope, v \in Value :
          Begin(w, [op |-> op, keys |-> {k}, scope |-> s, val |-> v], "lock", {k})
    BY <1>4 DEF BeginSave
  <2>2. [op |-> op, keys |-> {k}, scope |-> s, val |-> v] \in CallType
    BY <1>1 DEF CallType, AllOps, SaveOps
  <2>3. unused' \in SUBSET Key /\ {k} \in SUBSET Key
    BY <1>1, <1>4 DEF BeginSave
  <2>4. QED
    BY <1>3, <2>1, <2>2, <2>3, BeginKeeps
<1>5. CASE BeginCreate(w)
  <2>1. PICK k \in FreshKeys, s \in Scope, v \in Value :
          /\ Begin(w, [op |-> "create", keys |-> {k}, scope |-> s, val |-> v], "lock", {k})
          /\ unused' = unused \ {k}
    BY <1>5 DEF BeginCreate
  <2>2. [op |-> "create", keys |-> {k}, scope |-> s, val |-> v] \in CallType
    BY <1>1 DEF CallType, AllOps, SaveOps
  <2>3. unused' \in SUBSET Key /\ {k} \in SUBSET Key
    BY <1>1, <2>1
  <2>4. QED
    BY <1>3, <2>1, <2>2, <2>3, BeginKeeps
<1>6. CASE BeginBulkCreate(w)
  <2>1. PICK K \in SUBSET FreshKeys \ {{}}, s \in Scope, v \in Value :
          /\ Begin(w, [op |-> "bulk_create", keys |-> K, scope |-> s, val |-> v], "insert", K)
          /\ unused' = unused \ K
    BY <1>6 DEF BeginBulkCreate
  <2>2. [op |-> "bulk_create", keys |-> K, scope |-> s, val |-> v] \in CallType
    BY <1>1 DEF CallType, AllOps, SaveOps
  <2>3. unused' \in SUBSET Key /\ K \in SUBSET Key
    BY <1>1, <2>1
  <2>4. QED
    BY <1>3, <2>1, <2>2, <2>3, BeginKeeps
<1>7. CASE BeginUpdate(w)
  <2>1. PICK K \in SUBSET Key, v \in Value :
          Begin(w, [op |-> "update", keys |-> K, scope |-> CtxScope[w], val |-> v], "lock",
                {k \in K : Selected(w, VisibleRow(w, k))})
    BY <1>7 DEF BeginUpdate
  <2>2. [op |-> "update", keys |-> K, scope |-> CtxScope[w], val |-> v] \in CallType
    BY <1>2 DEF CallType, AllOps, SaveOps
  <2>3. unused' \in SUBSET Key /\ {k \in K : Selected(w, VisibleRow(w, k))} \in SUBSET Key
    BY <1>1, <1>7 DEF BeginUpdate
  <2>4. QED
    BY <1>3, <2>1, <2>2, <2>3, BeginKeeps
<1>8. CASE BeginBulkUpdate(w)
  <2>1. PICK K \in SUBSET KnownKeys(w) \ {{}}, v \in Value :
          Begin(w, [op |-> "bulk_update", keys |-> K, scope |-> CtxScope[w], val |-> v], "lock",
                {k \in K : VisibleRow(w, k) # Null})
    BY <1>8 DEF BeginBulkUpdate
  <2>2. [op |-> "bulk_update", keys |-> K, scope |-> CtxScope[w], val |-> v] \in CallType
    BY <1>1, <1>2 DEF CallType, AllOps, SaveOps
  <2>3. unused' \in SUBSET Key /\ {k \in K : VisibleRow(w, k) # Null} \in SUBSET Key
    BY <1>1, <1>8 DEF BeginBulkUpdate
  <2>4. QED
    BY <1>3, <2>1, <2>2, <2>3, BeginKeeps
<1>9. CASE BeginDelete(w)
  <2>1. PICK K \in {{k} : k \in KnownKeys(w)}
                 \union {{k \in K : Selected(w, VisibleRow(w, k))} : K \in SUBSET Key} :
          Begin(w, [op |-> "delete", keys |-> K, scope |-> CtxScope[w],
                    val |-> NoCall.val], "lock", K)
    BY <1>9 DEF BeginDelete
  <2>2. K \in SUBSET Key
    BY <1>1
  <2>3. [op |-> "delete", keys |-> K, scope |-> CtxScope[w], val |-> NoCall.val] \in CallType
    BY <1>2, <2>2 DEF CallType, AllOps, SaveOps
  <2>4. unused' \in SUBSET Key
    BY <1>1, <1>9 DEF BeginDelete
  <2>5. QED
    BY <1>3, <2>1, <2>2, <2>3, <2>4, BeginKeeps
<1>10. CASE OpenBlock(w)
  <2>1. GoodTables' /\ GoodTxns'
    BY <1>10 DEF OpenBlock, IInv, GoodTables, GoodTxns
  <2>2. GoodControl(P)'
    BY <1>10 DEF OpenBlock, IInv, GoodControl, WritePoints
  <2>3. Holds'
    BY <1>10, HoldsElsewhere DEF OpenBlock, IInv
  <2>4. RestoreHolds'
    BY <1>10, HoldsElsewhere DEF OpenBlock, IInv
  <2>5. QED
    BY <2>1, <2>2, <2>3, <2>4 DEF IInv
<1>11. QED
  BY <1>4, <1>5, <1>6, <1>7, <1>8, <1>9, <1>10 DEF Start

\* save(), create() and the INSERTs.
LEMMA SaveKeeps ==
  ASSUME NEW P, WritePoints \subseteq P, IInv(P), NEW w \in Worker,
         SaveLoads(w) \/ SaveUpdates(w) \/ InsertRow(w)
  PROVE  IInv(P)'
<1>1. {"idle", "open"} \subseteq P /\ \A p \in WritePoints : p \in P
  BY DEF WritePoints
<1>2. todo[w] \in SUBSET Key /\ call[w] \in CallType /\ DOMAIN seen = Worker
      /\ \A v \in Worker : Partial(seen[v], Image)
  BY DEF IInv, GoodControl
<1>3. CASE SaveLoads(w)
  <2>1. PICK k \in todo[w] :
          \/ /\ txn' = Locked(w, k)
             /\ seen' = [seen EXCEPT ![w] = [x \in {k} |-> Snapshot(VisibleRow(w, k))]]
             /\ Goto(w, IF call[w].op = "create" THEN "insert" ELSE "write", {k})
          \/ Raise(w)
    BY <1>3 DEF SaveLoads
  <2>2. CASE Raise(w)
    BY <1>1, <2>2, RaiseKeeps
  <2>3. CASE /\ txn' = Locked(w, k)
             /\ seen' = [seen EXCEPT ![w] = [x \in {k} |-> Snapshot(VisibleRow(w, k))]]
             /\ Goto(w, IF call[w].op = "create" THEN "insert" ELSE "write", {k})
    <3> DEFINE next == IF call[w].op = "create" THEN "insert" ELSE "write"
    <3>1. k \in Key /\ {k} \in SUBSET Key
      BY <1>2
    <3>2. /\ DOMAIN txn' = Worker /\ GoodTxn(txn'[w])
          /\ \A v \in Worker \ {w} : txn'[v] = txn[v]
      BY <2>3, <3>1, LockedGood DEF IInv
    <3>3. Snapshot(VisibleRow(w, k)) \in Image
      BY <3>1, VisibleTyped DEF IInv, Snapshot, Image, MaybeRow, Row
    <3>4. /\ DOMAIN seen' = Worker /\ Partial(seen'[w], Image)
          /\ \A v \in Worker \ {w} : seen'[v] = seen[v]
      BY <1>2, <2>3, <3>1, <3>3 DEF Partial
    <3>5. next \in P /\ Held(next, {k}) = {} /\ Goto(w, next, {k})
      BY <1>1, <2>3, HeldNowhere DEF WritePoints, HoldPoints
    <3>6. call[w].op = "restore" => RestoreAt(next, {k}, txn'[w], seen'[w])
      <4> SUFFICES ASSUME call[w].op = "restore" PROVE RestoreAt("write", {k}, txn'[w], seen'[w])
        OBVIOUS
      <4>1. Reconciled("lock", txn[w], seen[w], k)
        BY <1>3 DEF IInv, RestoreHolds, RestoreAt, SaveLoads
      <4>2. k \in DOMAIN txn[w].row /\ VisibleRow(w, k) = txn[w].row[k] /\ txn[w].row[k] # Null
        BY <4>1 DEF Reconciled, VisibleRow
      <4>3. /\ txn'[w].hist = txn[w].hist /\ k \in DOMAIN txn'[w].row
            /\ txn'[w].row[k] = txn[w].row[k]
        BY <2>3, <3>1, <4>2, LockedGood DEF IInv
      <4>4. k \in DOMAIN seen'[w] /\ seen'[w][k] = txn[w].row[k].val
        BY <1>2, <2>3, <4>2 DEF Snapshot
      <4>5. QED
        BY <4>1, <4>2, <4>3, <4>4 DEF RestoreAt, Reconciled
    <3> HIDE DEF next
    <3>7. QED
      BY <3>1, <3>2, <3>4, <3>5, <3>6, GotoKeeps
  <2>4. QED
    BY <2>1, <2>2, <2>3
<1>4. CASE SaveUpdates(w)
  <2> DEFINE new(k) == [scope |-> IF call[w].op = "save" THEN call[w].scope
                                  ELSE VisibleRow(w, k).scope,
                        val |-> call[w].val]
  <2>1. PICK k \in todo[w] :
          \/ /\ VisibleRow(w, k) # Null
             /\ txn' = PutRows(w, [x \in {k} |-> new(k)])
             /\ Goto(w, "record", {k})
             /\ seen' = seen
          \/ /\ Goto(w, "insert", {k}) /\ txn' = txn /\ seen' = seen
             /\ call[w].op = "save"
          \/ Raise(w)
    BY <1>4 DEF SaveUpdates
  <2>2. k \in Key /\ {k} \in SUBSET Key
    BY <1>2
  <2>3. CASE Raise(w)
    BY <1>1, <2>3, RaiseKeeps
  <2>4. CASE Goto(w, "insert", {k}) /\ txn' = txn /\ seen' = seen /\ call[w].op = "save"
    BY <1>1, <2>2, <2>4, PlainGotoKeeps DEF WritePoints, HoldPoints
  <2>5. CASE /\ VisibleRow(w, k) # Null
             /\ txn' = PutRows(w, [x \in {k} |-> new(k)])
             /\ Goto(w, "record", {k})
             /\ seen' = seen
    <3>1. VisibleRow(w, k) \in Row
      BY <2>2, <2>5, VisibleTyped DEF IInv, MaybeRow
    <3>2. new(k) \in Row
      BY <1>2, <3>1 DEF CallType, Row
    <3> HIDE DEF new
    <3>3. Partial([x \in {k} |-> new(k)], MaybeRow)
      BY <2>2, <3>2 DEF Partial, MaybeRow
    <3>4. /\ DOMAIN txn' = Worker /\ GoodTxn(txn'[w])
          /\ \A v \in Worker \ {w} : txn'[v] = txn[v]
      BY <2>5, <3>3, PutRowsGood DEF IInv
    <3>5. "record" \in P /\ Held("record", {k}) = {}
      BY <1>1, HeldNowhere DEF WritePoints, HoldPoints
    <3>6. call[w].op = "restore" => RestoreAt("record", {k}, txn'[w], seen'[w])
      <4> SUFFICES ASSUME call[w].op = "restore"
                   PROVE  RestoreAt("record", {k}, txn'[w], seen'[w])
        OBVIOUS
      <4>1. Reconciled("write", txn[w], seen[w], k)
        BY <1>4 DEF IInv, RestoreHolds, RestoreAt, SaveUpdates
      <4>2. new(k) # Null
        BY <3>2, AbsenceAssumption
      <4>3. /\ txn'[w].hist = txn[w].hist /\ k \in DOMAIN txn'[w].row /\ txn'[w].row[k] = new(k)
        BY <2>5, <3>3, PutRowsGood DEF IInv
      <4>4. QED
        BY <2>5, <4>1, <4>2, <4>3 DEF RestoreAt, Reconciled
    <3>7. QED
      BY <1>2, <2>2, <2>5, <3>4, <3>5, <3>6, GotoKeeps
  <2>6. QED
    BY <2>1, <2>3, <2>4, <2>5
<1>5. CASE InsertRow(w)
  <2> DEFINE new == [scope |-> call[w].scope, val |-> call[w].val]
  <2>1. PICK k \in todo[w] :
          \/ /\ txn' = PutRows(w, [x \in {k} |-> new])
             /\ \/ Goto(w, "record", call[w].keys)
                \/ Goto(w, "insert", todo[w] \ {k})
             /\ seen' = seen
          \/ Raise(w)
    BY <1>5 DEF InsertRow
  <2>2. CASE Raise(w)
    BY <1>1, <2>2, RaiseKeeps
  <2>3. CASE /\ txn' = PutRows(w, [x \in {k} |-> new])
             /\ \/ Goto(w, "record", call[w].keys)
                \/ Goto(w, "insert", todo[w] \ {k})
             /\ seen' = seen
    <3>1. new \in Row
      BY <1>2 DEF CallType, Row
    <3> HIDE DEF new
    <3>2. Partial([x \in {k} |-> new], MaybeRow)
      BY <1>2, <3>1 DEF Partial, MaybeRow
    <3>3. /\ DOMAIN txn' = Worker /\ GoodTxn(txn'[w])
          /\ \A v \in Worker \ {w} : txn'[v] = txn[v]
      BY <2>3, <3>2, PutRowsGood DEF IInv
    <3>4. call[w].keys \in SUBSET Key /\ todo[w] \ {k} \in SUBSET Key
      BY <1>2 DEF CallType
    <3>5. /\ "record" \in P /\ "insert" \in P
          /\ \A K : Held("record", K) = {} /\ Held("insert", K) = {}
      BY <1>1, HeldNowhere DEF WritePoints, HoldPoints
    <3>6. call[w].op # "restore"
      BY <1>5 DEF InsertRow, IInv, RestoreHolds, RestoreAt
    <3>7. QED
      BY <1>2, <2>3, <3>3, <3>4, <3>5, <3>6, GotoKeeps
  <2>4. QED
    BY <2>1, <2>2, <2>3
<1>6. QED
  BY <1>3, <1>4, <1>5

\* QuerySet.update() and bulk_update().
LEMMA UpdateKeeps ==
  ASSUME NEW P, WritePoints \subseteq P, IInv(P), NEW w \in Worker,
         UpdateLocks(w) \/ BulkUpdateLocks(w) \/ BulkUpdateReads(w) \/ UpdateRows(w)
  PROVE  IInv(P)'
<1>1. /\ {"idle", "open"} \subseteq P
      /\ \A p \in {"lock", "write", "record"} :
           p \in P \ HoldPoints /\ \A K : Held(p, K) = {}
      /\ call[w].op # "restore"
  BY HeldNowhere DEF WritePoints, HoldPoints, UpdateLocks, BulkUpdateLocks, BulkUpdateReads, UpdateRows
<1>2. todo[w] \in SUBSET Key /\ call[w] \in CallType /\ DOMAIN seen = Worker
      /\ \A v \in Worker : Partial(seen[v], Image)
  BY DEF IInv, GoodControl
<1>3. \A k \in Key : Snapshot(VisibleRow(w, k)) \in Image
  BY VisibleTyped DEF IInv, Snapshot, Image, MaybeRow, Row
<1>4. CASE UpdateLocks(w)
  <2>1. PICK k \in todo[w] :
          /\ Goto(w, "lock", todo[w] \ {k})
          /\ \/ /\ txn' = Locked(w, k)
                /\ seen' = [seen EXCEPT ![w] =
                              Merge([x \in {k} |-> Snapshot(VisibleRow(w, k))], @)]
             \/ txn' = txn /\ seen' = seen
    BY <1>4 DEF UpdateLocks, LockOrder, FirstOf
  <2>2. k \in Key /\ todo[w] \ {k} \in SUBSET Key
    BY <1>2
  <2>3. CASE txn' = txn /\ seen' = seen
    BY <1>1, <2>1, <2>2, <2>3, PlainGotoKeeps
  <2>4. CASE /\ txn' = Locked(w, k)
             /\ seen' = [seen EXCEPT ![w] =
                            Merge([x \in {k} |-> Snapshot(VisibleRow(w, k))], @)]
    <3> DEFINE one == [x \in {k} |-> Snapshot(VisibleRow(w, k))]
    <3>1. /\ DOMAIN txn' = Worker /\ GoodTxn(txn'[w])
          /\ \A v \in Worker \ {w} : txn'[v] = txn[v]
      BY <2>2, <2>4, LockedGood DEF IInv
    <3>2. Partial(one, Image)
      BY <1>3, <2>2 DEF Partial
    <3>3. /\ DOMAIN seen' = Worker /\ seen'[w] = Merge(one, seen[w])
          /\ \A v \in Worker \ {w} : seen'[v] = seen[v]
      BY <1>2, <2>4
    <3> HIDE DEF one
    <3>4. Partial(seen'[w], Image)
      BY <1>2, <3>2, <3>3, MergePartial
    <3>5. QED
      BY <1>1, <2>1, <2>2, <3>1, <3>3, <3>4, GotoKeeps
  <2>5. QED
    BY <2>1, <2>3, <2>4
<1>5. CASE BulkUpdateLocks(w)
  <2>1. PICK k \in todo[w] :
          \/ Raise(w)
          \/ txn' = Locked(w, k) /\ Goto(w, "lock", todo[w] \ {k}) /\ seen' = seen
    BY <1>5 DEF BulkUpdateLocks, LockOrder, FirstOf
  <2>2. k \in Key /\ todo[w] \ {k} \in SUBSET Key
    BY <1>2
  <2>3. CASE Raise(w)
    BY <1>1, <2>3, RaiseKeeps
  <2>4. CASE txn' = Locked(w, k) /\ Goto(w, "lock", todo[w] \ {k}) /\ seen' = seen
    <3>1. /\ DOMAIN txn' = Worker /\ GoodTxn(txn'[w])
          /\ \A v \in Worker \ {w} : txn'[v] = txn[v]
      BY <2>2, <2>4, LockedGood DEF IInv
    <3>2. QED
      BY <1>1, <1>2, <2>2, <2>4, <3>1, GotoKeeps
  <2>5. QED
    BY <2>1, <2>3, <2>4
<1>6. CASE BulkUpdateReads(w)
  <2> DEFINE hit == {x \in call[w].keys : Selected(w, VisibleRow(w, x))}
  <2> DEFINE f == [k \in hit |-> Snapshot(VisibleRow(w, k))]
  <2>1. txn' = txn /\ Goto(w, "write", {}) /\ seen' = [seen EXCEPT ![w] = f]
    BY <1>6 DEF BulkUpdateReads
  <2>2. hit \subseteq Key
    BY <1>2 DEF CallType
  <2>3. Partial(f, Image)
    <3> HIDE DEF hit
    <3>1. QED
      BY <1>3, <2>2 DEF Partial
  <2> HIDE DEF f
  <2>4. /\ DOMAIN seen' = Worker /\ Partial(seen'[w], Image)
        /\ \A v \in Worker \ {w} : seen'[v] = seen[v]
    BY <1>2, <2>1, <2>3
  <2>5. DOMAIN txn' = Worker /\ GoodTxn(txn'[w]) /\ {} \in SUBSET Key
    BY <2>1 DEF IInv, GoodTxns
  <2>6. QED
    BY <1>1, <2>1, <2>4, <2>5, GotoKeeps
<1>7. CASE UpdateRows(w)
  <2> DEFINE hit == {k \in DOMAIN seen[w] : VisibleRow(w, k) # Null}
  <2> DEFINE f == [k \in hit |-> [VisibleRow(w, k) EXCEPT !.val = call[w].val]]
  <2>1. txn' = PutRows(w, f) /\ Goto(w, "record", DOMAIN seen[w]) /\ seen' = seen
    BY <1>7 DEF UpdateRows
  <2>2. DOMAIN seen[w] \in SUBSET Key
    BY <1>2 DEF Partial
  <2>3. ASSUME NEW k \in hit
        PROVE  k \in Key /\ [VisibleRow(w, k) EXCEPT !.val = call[w].val] \in MaybeRow
    <3>1. k \in Key /\ VisibleRow(w, k) \in Row
      BY <2>2, VisibleTyped DEF IInv, MaybeRow
    <3>2. QED
      BY <1>2, <3>1 DEF CallType, Row, MaybeRow
  <2>4. Partial(f, MaybeRow)
    <3> HIDE DEF hit
    <3>1. QED
      BY <2>3 DEF Partial
  <2> HIDE DEF f
  <2>5. /\ DOMAIN txn' = Worker /\ GoodTxn(txn'[w])
        /\ \A v \in Worker \ {w} : txn'[v] = txn[v]
    BY <2>1, <2>4, PutRowsGood DEF IInv
  <2>6. QED
    BY <1>1, <1>2, <2>1, <2>2, <2>5, GotoKeeps
<1>8. QED
  BY <1>4, <1>5, <1>6, <1>7

\* The event of a write.
LEMMA RecordKeeps ==
  ASSUME NEW P, WritePoints \subseteq P, IInv(P), NEW w \in Worker, Record(w)
  PROVE  IInv(P)'
<1>1. {"idle", "open"} \subseteq P /\ "record" \in P \ HoldPoints
  BY DEF WritePoints, HoldPoints
<1>2. PICK k \in todo[w], action \in {"restore", "create", "update"} :
        \/ /\ action = "restore" => call[w].op = "restore"
           /\ Selected(w, VisibleRow(w, k))
           /\ AppendEvent(w, k, VisibleRow(w, k), action, Before(w, k),
                          Snapshot(VisibleRow(w, k)), "record")
        \/ Raise(w)
  BY DEF Record, RecordOrder, FirstOf
<1>3. CASE Raise(w)
  BY <1>1, <1>3, RaiseKeeps
<1>4. CASE /\ action = "restore" => call[w].op = "restore"
           /\ Selected(w, VisibleRow(w, k))
           /\ AppendEvent(w, k, VisibleRow(w, k), action, Before(w, k),
                          Snapshot(VisibleRow(w, k)), "record")
  <2>1. k \in Key
    BY DEF IInv, GoodControl
  <2>2. VisibleRow(w, k) \in Row
    BY <1>4, <2>1, VisibleTyped DEF IInv, MaybeRow, Selected
  <2>3. Snapshot(VisibleRow(w, k)) \in Image /\ Before(w, k) \in Image /\ action \in Action
    BY <2>2 DEF Snapshot, Image, Row, Before, IInv, GoodControl, Partial, Action
  <2>4. CheckScope(w, VisibleRow(w, k).scope) /\ pc[w] = "record"
    BY <1>4 DEF Selected, Record
  <2>5. action = "restore" =>
          LET h == HeadOf(w, k, VisibleRow(w, k)) IN
          h.events # <<>> /\ Before(w, k) = h.events[Len(h.events)].after
    <3> SUFFICES ASSUME action = "restore"
                 PROVE  LET h == HeadOf(w, k, VisibleRow(w, k)) IN
                        h.events # <<>> /\ Before(w, k) = h.events[Len(h.events)].after
      OBVIOUS
    <3>1. Reconciled("record", txn[w], seen[w], k)
      BY <1>4, <2>4 DEF IInv, RestoreHolds, RestoreAt
    <3>2. VisibleHist(w, k) = txn[w].hist[k] /\ txn[w].hist[k] # Null
      BY <3>1 DEF Reconciled, VisibleHist, IInv, GoodTxns, GoodTxn
    <3>3. HeadOf(w, k, VisibleRow(w, k)) = txn[w].hist[k]
      BY <3>2 DEF HeadOf
    <3>4. QED
      BY <3>1, <3>3 DEF Reconciled, Before
  <2>6. action # "baseline"
    OBVIOUS
  <2>7. QED
    BY <1>1, <1>4, <2>1, <2>2, <2>3, <2>4, <2>5, <2>6, AppendKeeps
<1>5. QED
  BY <1>2, <1>3, <1>4

\* Model.delete() and QuerySet.delete().
LEMMA DeleteKeeps ==
  ASSUME NEW P, WritePoints \subseteq P, IInv(P), NEW w \in Worker,
         DeleteLoads(w) \/ DeleteRecords(w) \/ DeleteRows(w)
  PROVE  IInv(P)'
<1>1. /\ {"idle", "open"} \subseteq P /\ "delete" \in P
      /\ \A p \in {"lock", "record"} : p \in P \ HoldPoints /\ \A K : Held(p, K) = {}
      /\ call[w].op # "restore"
  BY HeldNowhere DEF WritePoints, HoldPoints, DeleteLoads, DeleteRecords, DeleteRows,
                     IInv, RestoreHolds, RestoreAt
<1>2. todo[w] \in SUBSET Key /\ call[w] \in CallType /\ DOMAIN seen = Worker
      /\ \A v \in Worker : Partial(seen[v], Image)
  BY DEF IInv, GoodControl
<1>3. CASE DeleteLoads(w)
  <2>1. PICK k \in FirstOf(todo[w]) :
          \/ Raise(w)
          \/ /\ txn' = Locked(w, k) /\ seen' = seen
             /\ \/ Goto(w, "lock", todo[w] \ {k})
                \/ /\ VisibleRow(w, k) # Null /\ Goto(w, "delete", todo[w])
                   /\ CheckScope(w, VisibleRow(w, k).scope)
    BY <1>3 DEF DeleteLoads
  <2>2. k \in Key /\ todo[w] \ {k} \in SUBSET Key
    BY <1>2 DEF FirstOf
  <2>3. CASE Raise(w)
    BY <1>1, <2>3, RaiseKeeps
  <2>4. ASSUME txn' = Locked(w, k), seen' = seen
        PROVE  /\ DOMAIN txn' = Worker /\ GoodTxn(txn'[w])
               /\ \A v \in Worker \ {w} : txn'[v] = txn[v]
               /\ VisibleRow(w, k) # Null =>
                    k \in DOMAIN txn'[w].row /\ txn'[w].row[k] = VisibleRow(w, k)
    BY <2>2, <2>4, LockedGood DEF IInv
  <2>5. CASE txn' = Locked(w, k) /\ seen' = seen /\ Goto(w, "lock", todo[w] \ {k})
    BY <1>1, <1>2, <2>2, <2>4, <2>5, GotoKeeps
  <2>6. CASE /\ txn' = Locked(w, k) /\ seen' = seen
             /\ VisibleRow(w, k) # Null /\ Goto(w, "delete", todo[w])
             /\ CheckScope(w, VisibleRow(w, k).scope)
    <3>1. ASSUME NEW x \in FirstOf(todo[w]) PROVE x = k
      <4>1. x \in Nat /\ k \in Nat
        BY <1>2, KeyAssumption DEF FirstOf
      <4>2. x <= k /\ k <= x
        BY DEF FirstOf
      <4>3. QED
        BY <4>1, <4>2
    <3>2. \A x \in Held("delete", todo[w]) : HoldsRow(txn'[w], w, x)
      BY <2>4, <2>6, <3>1 DEF Held, HoldsRow
    <3>3. QED
      BY <1>1, <1>2, <2>4, <2>6, <3>2, GotoKeeps
  <2>7. QED
    BY <2>1, <2>3, <2>5, <2>6
<1>4. CASE DeleteRecords(w)
  <2>1. PICK k \in FirstOf(todo[w]) :
          /\ pc[w] = "delete"
          /\ AppendEvent(w, k, VisibleRow(w, k), "delete", Snapshot(VisibleRow(w, k)),
                         Null, "lock")
    BY <1>4 DEF DeleteRecords
  <2>2. k \in Key
    BY <1>2 DEF FirstOf
  <2>6. HoldsRow(txn[w], w, k)
    BY <2>1 DEF IInv, Holds, Held
  <2>7. CheckScope(w, VisibleRow(w, k).scope)
    BY <2>6 DEF HoldsRow, VisibleRow
  <2>3. VisibleRow(w, k) \in Row
    <3>1. VisibleRow(w, k) # Null
      BY <2>6 DEF HoldsRow, VisibleRow
    <3>2. QED
      BY <2>2, <3>1, VisibleTyped DEF IInv, MaybeRow
  <2>4. Snapshot(VisibleRow(w, k)) \in Image /\ Null \in Image /\ "delete" \in Action
    BY <2>3 DEF Snapshot, Image, Row, Action
  <2>5. QED
    BY <1>1, <2>1, <2>2, <2>3, <2>4, <2>7, AppendKeeps
<1>5. CASE DeleteRows(w)
  <2> DEFINE hit == {k \in call[w].keys : VisibleRow(w, k) # Null}
  <2> DEFINE f == [k \in hit |-> Null]
  <2>1. txn' = PutRows(w, f) /\ Goto(w, "record", {}) /\ seen' = seen
    BY <1>5 DEF DeleteRows
  <2>2. Partial(f, MaybeRow)
    BY <1>2 DEF Partial, MaybeRow, CallType
  <2> HIDE DEF f
  <2>3. /\ DOMAIN txn' = Worker /\ GoodTxn(txn'[w])
        /\ \A v \in Worker \ {w} : txn'[v] = txn[v]
    BY <2>1, <2>2, PutRowsGood DEF IInv
  <2>4. {} \in SUBSET Key
    OBVIOUS
  <2>5. QED
    BY <1>1, <1>2, <2>1, <2>3, <2>4, GotoKeeps
<1>6. QED
  BY <1>3, <1>4, <1>5

\* Committing puts sound histories in the place of sound histories.
LEMMA CommitGood ==
  ASSUME GoodTables, GoodTxns, NEW w \in Worker, Commit(w)
  PROVE  /\ GoodTables'
         /\ DOMAIN txn' = Worker /\ txn'[w] = NoLocks
         /\ \A v \in Worker \ {w} : txn'[v] = txn[v]
<1>1. Partial(txn[w].row, MaybeRow) /\ Partial(txn[w].hist, MaybeHist)
  BY DEF GoodTxns, GoodTxn, TxnTypeOK
<1>2. row' \in [Key -> MaybeRow] /\ hist' \in [Key -> MaybeHist]
  BY <1>1, MergeTable DEF Commit, GoodTables
<1>3. ASSUME NEW k \in Key PROVE Sound(hist'[k])
  <2>1. hist'[k] = IF k \in DOMAIN txn[w].hist THEN txn[w].hist[k] ELSE hist[k]
    BY <1>1 DEF Commit, GoodTables, Merge
  <2>2. QED
    BY <2>1 DEF GoodTables, GoodTxns, GoodTxn
<1>4. QED
  BY <1>2, <1>3 DEF GoodTables, GoodTxns, Commit

\* Returning, closing a block, failing.
LEMMA FinishKeeps ==
  ASSUME NEW P, WritePoints \subseteq P, IInv(P), NEW w \in Worker,
         Return(w) \/ CloseBlock(w) \/ Fail(w)
  PROVE  IInv(P)'
<1>1. {"idle", "open"} \subseteq P
  BY DEF WritePoints
<1>2. CASE Fail(w)
  BY <1>1, <1>2, RaiseKeeps DEF Fail
<1>3. CASE Return(w)
  <2>1. GoodTables' /\ DOMAIN txn' = Worker /\ GoodTxn(txn'[w])
        /\ \A v \in Worker \ {w} : txn'[v] = txn[v]
    BY <1>3, CommitGood, EmptyGood DEF IInv, Return, GoodTables, GoodTxns
  <2>2. DOMAIN mark' = Worker /\ GoodTxn(mark'[w]) /\ \A v \in Worker \ {w} : mark'[v] = mark[v]
    BY <1>3, EmptyGood DEF IInv, Return, Ends, GoodTxns
  <2>3. GoodTxns'
    BY <2>1, <2>2 DEF IInv, GoodTxns
  <2>4. GoodControl(P)'
    BY <1>1, <1>3, EndsControl DEF IInv, Return
  <2>5. Holds' /\ RestoreHolds'
    BY <1>3, <2>1, EndsHolds DEF IInv, Return
  <2>6. QED
    BY <2>1, <2>3, <2>4, <2>5 DEF IInv
<1>4. CASE CloseBlock(w)
  <2>1. GoodTables' /\ DOMAIN txn' = Worker /\ GoodTxn(txn'[w])
        /\ \A v \in Worker \ {w} : txn'[v] = txn[v]
    BY <1>4, CommitGood, EmptyGood DEF IInv, CloseBlock, Rollback, GoodTables, GoodTxns
  <2>2. GoodTxns'
    BY <1>4, <2>1 DEF IInv, CloseBlock, GoodTxns
  <2>3. GoodControl(P)'
    BY <1>1, <1>4 DEF IInv, CloseBlock, GoodControl
  <2>4. Holds' /\ RestoreHolds'
    BY <1>4, <2>1, HoldsElsewhere DEF IInv, CloseBlock
  <2>5. QED
    BY <2>1, <2>2, <2>3, <2>4 DEF IInv
<1>5. QED
  BY <1>2, <1>3, <1>4

-----------------------------------------------------------------------------
(* What a step leaves alone. *)

\* The step of a worker changes the state of no other, and the tables only by
\* committing.
Local(w) ==
  /\ \A v \in Worker \ {w} :
       /\ txn'[v] = txn[v] /\ mark'[v] = mark[v] /\ pc'[v] = pc[v] /\ call'[v] = call[v]
       /\ todo'[v] = todo[v] /\ seen'[v] = seen[v] /\ block'[v] = block[v]
  /\ (row' = row /\ hist' = hist) \/ Commit(w)

\* Going on is local.
LEMMA GotoLocal ==
  ASSUME NEW P, IInv(P), NEW w \in Worker, NEW next, NEW work, Goto(w, next, work),
         \A v \in Worker \ {w} : txn'[v] = txn[v] /\ seen'[v] = seen[v]
  PROVE  Local(w) /\ pc'[w] = next
BY DEF IInv, GoodControl, Goto, Local

\* Ending an operation is local.
LEMMA EndsLocal ==
  ASSUME NEW P, IInv(P), NEW w \in Worker, Ends(w),
         \A v \in Worker \ {w} : txn'[v] = txn[v],
         (row' = row /\ hist' = hist) \/ Commit(w)
  PROVE  Local(w) /\ pc'[w] \in {"idle", "open"}
BY DEF IInv, GoodControl, GoodTxns, Ends, Local

\* So is an exception.
LEMMA RaiseLocal ==
  ASSUME NEW P, IInv(P), NEW w \in Worker, Raise(w)
  PROVE  Local(w) /\ pc'[w] \in {"idle", "open"}
BY EndsLocal DEF IInv, GoodTxns, Raise, Rollback

\* So is starting an operation.
LEMMA BeginLocal ==
  ASSUME NEW P, IInv(P), NEW w \in Worker, NEW c, NEW next, NEW work, Begin(w, c, next, work)
  PROVE  Local(w) /\ pc'[w] = next
BY DEF IInv, GoodControl, GoodTxns, Begin, Local

\* What the statements do to the transactions of others: nothing.
LEMMA PutLocal ==
  ASSUME GoodTxns, NEW w \in Worker
  PROVE  /\ \A f : \A v \in Worker \ {w} : PutRows(w, f)[v] = txn[v]
         /\ \A k, h : \A v \in Worker \ {w} : PutHist(w, k, h)[v] = txn[v]
         /\ \A k : \A v \in Worker \ {w} : Locked(w, k)[v] = txn[v]
BY DEF GoodTxns, PutRows, PutHist, Locked

\* append_event() is local, and goes on or raises.
LEMMA AppendLocal ==
  ASSUME NEW P, IInv(P), NEW w \in Worker, NEW k, NEW r, NEW action, NEW before, NEW after, NEW next,
         AppendEvent(w, k, r, action, before, after, next)
  PROVE  Local(w) /\ pc'[w] \in {next, "idle", "open"}
<1>1. CASE Raise(w)
  BY <1>1, RaiseLocal
<1>2. CASE ~Raise(w)
  <2>1. /\ Goto(w, next, todo[w] \ {k}) /\ seen' = seen
        /\ \E h : txn' = PutHist(w, k, h)
    BY <1>2 DEF AppendEvent
  <2>2. \A v \in Worker \ {w} : txn'[v] = txn[v] /\ seen'[v] = seen[v]
    BY <2>1, PutLocal DEF IInv
  <2>3. QED
    BY <2>1, <2>2, GotoLocal
<1>3. QED
  BY <1>1, <1>2

\* Every step of an operation is local.
LEMMA LocalStep ==
  ASSUME NEW P, IInv(P), NEW w \in Worker, Start(w) \/ Step(w) \/ Fail(w)
  PROVE  Local(w) /\ pc'[w] \in WritePoints
<1>1. DOMAIN seen = Worker /\ DOMAIN txn = Worker /\ {"idle", "open"} \subseteq WritePoints
  BY DEF IInv, GoodControl, GoodTxns, WritePoints
<1>2. CASE Start(w)
  <2>1. CASE OpenBlock(w)
    BY <2>1 DEF OpenBlock, IInv, GoodControl, Local, WritePoints
  <2>2. CASE ~OpenBlock(w)
    <3>1. \E c, work : Begin(w, c, "lock", work) \/ Begin(w, c, "insert", work)
      BY <1>2, <2>2 DEF Start, BeginSave, BeginCreate, BeginBulkCreate, BeginUpdate, BeginBulkUpdate,
                        BeginDelete
    <3>2. QED
      BY <3>1, BeginLocal DEF WritePoints
  <2>3. QED
    BY <2>1, <2>2
<1>3. CASE Fail(w)
  BY <1>1, <1>3, RaiseLocal DEF Fail
<1>4. CASE SaveLoads(w) \/ SaveUpdates(w) \/ InsertRow(w)
  <2>1. \/ Raise(w)
        \/ \E next \in {"insert", "write", "record"} : \E work :
             /\ Goto(w, next, work)
             /\ \E k, f : txn' \in {txn, Locked(w, k), PutRows(w, f)}
             /\ \E x : seen' \in {seen, [seen EXCEPT ![w] = x]}
    <3>1. CASE SaveLoads(w)
      BY <3>1 DEF SaveLoads
    <3>2. CASE SaveUpdates(w)
      BY <3>2 DEF SaveUpdates
    <3>3. CASE InsertRow(w)
      BY <3>3 DEF InsertRow
    <3>4. QED
      BY <1>4, <3>1, <3>2, <3>3
  <2>2. CASE Raise(w)
    BY <1>1, <2>2, RaiseLocal
  <2>3. ASSUME NEW next \in {"insert", "write", "record"}, NEW work, Goto(w, next, work),
               \E k, f : txn' \in {txn, Locked(w, k), PutRows(w, f)},
               \E x : seen' \in {seen, [seen EXCEPT ![w] = x]}
        PROVE  Local(w) /\ pc'[w] \in WritePoints
    <3>1. \A v \in Worker \ {w} : txn'[v] = txn[v] /\ seen'[v] = seen[v]
      BY <1>1, <2>3, PutLocal DEF IInv
    <3>2. QED
      BY <2>3, <3>1, GotoLocal DEF WritePoints
  <2>4. QED
    BY <2>1, <2>2, <2>3
<1>5. CASE UpdateLocks(w) \/ BulkUpdateLocks(w) \/ BulkUpdateReads(w) \/ UpdateRows(w)
  <2>1. \/ Raise(w)
        \/ \E next \in {"lock", "write", "record"} : \E work :
             /\ Goto(w, next, work)
             /\ \E k, f : txn' \in {txn, Locked(w, k), PutRows(w, f)}
             /\ \E x : seen' \in {seen, [seen EXCEPT ![w] = x]}
    <3>1. CASE UpdateLocks(w)
      BY <3>1 DEF UpdateLocks
    <3>2. CASE BulkUpdateLocks(w)
      BY <3>2 DEF BulkUpdateLocks
    <3>3. CASE BulkUpdateReads(w)
      BY <3>3 DEF BulkUpdateReads
    <3>4. CASE UpdateRows(w)
      BY <3>4 DEF UpdateRows
    <3>5. QED
      BY <1>5, <3>1, <3>2, <3>3, <3>4
  <2>2. CASE Raise(w)
    BY <1>1, <2>2, RaiseLocal
  <2>3. ASSUME NEW next \in {"lock", "write", "record"}, NEW work, Goto(w, next, work),
               \E k, f : txn' \in {txn, Locked(w, k), PutRows(w, f)},
               \E x : seen' \in {seen, [seen EXCEPT ![w] = x]}
        PROVE  Local(w) /\ pc'[w] \in WritePoints
    <3>1. \A v \in Worker \ {w} : txn'[v] = txn[v] /\ seen'[v] = seen[v]
      BY <1>1, <2>3, PutLocal DEF IInv
    <3>2. QED
      BY <2>3, <3>1, GotoLocal DEF WritePoints
  <2>4. QED
    BY <2>1, <2>2, <2>3
<1>6. CASE DeleteLoads(w) \/ DeleteRows(w)
  <2>1. \/ Raise(w)
        \/ \E next \in {"lock", "delete", "record"} : \E work :
             /\ Goto(w, next, work)
             /\ \E k, f : txn' \in {txn, Locked(w, k), PutRows(w, f)}
             /\ seen' = seen
    <3>1. CASE DeleteLoads(w)
      BY <3>1 DEF DeleteLoads
    <3>2. CASE DeleteRows(w)
      BY <3>2 DEF DeleteRows
    <3>3. QED
      BY <1>6, <3>1, <3>2
  <2>2. CASE Raise(w)
    BY <1>1, <2>2, RaiseLocal
  <2>3. ASSUME NEW next \in {"lock", "delete", "record"}, NEW work, Goto(w, next, work),
               \E k, f : txn' \in {txn, Locked(w, k), PutRows(w, f)}, seen' = seen
        PROVE  Local(w) /\ pc'[w] \in WritePoints
    <3>1. \A v \in Worker \ {w} : txn'[v] = txn[v] /\ seen'[v] = seen[v]
      BY <1>1, <2>3, PutLocal DEF IInv
    <3>2. QED
      BY <2>3, <3>1, GotoLocal DEF WritePoints
  <2>4. QED
    BY <2>1, <2>2, <2>3
<1>7. CASE DeleteRecords(w) \/ Record(w)
  <2>1. \/ Raise(w)
        \/ \E k, r, action, before, after : \E next \in {"lock", "record"} :
             AppendEvent(w, k, r, action, before, after, next)
    <3>1. CASE DeleteRecords(w)
      BY <3>1 DEF DeleteRecords
    <3>2. CASE Record(w)
      BY <3>2 DEF Record
    <3>3. QED
      BY <1>7, <3>1, <3>2
  <2>2. CASE Raise(w)
    BY <1>1, <2>2, RaiseLocal
  <2>3. QED
    BY <1>1, <2>1, <2>2, AppendLocal DEF WritePoints
<1>8. CASE Return(w)
  <2>1. /\ Ends(w)
        /\ (row' = row /\ hist' = hist) \/ Commit(w)
        /\ \A v \in Worker \ {w} : txn'[v] = txn[v]
    BY <1>1, <1>8 DEF Return, Commit
  <2>2. QED
    BY <1>1, <2>1, EndsLocal
<1>9. CASE CloseBlock(w)
  <2>1. /\ (row' = row /\ hist' = hist) \/ Commit(w)
        /\ \A v \in Worker \ {w} : txn'[v] = txn[v]
    BY <1>1, <1>9 DEF CloseBlock, Commit, Rollback
  <2>2. /\ \A v \in Worker \ {w} : pc'[v] = pc[v] /\ block'[v] = block[v]
        /\ pc'[w] = "idle"
        /\ call' = call /\ todo' = todo /\ seen' = seen /\ mark' = mark
    BY <1>9 DEF CloseBlock, IInv, GoodControl
  <2>3. QED
    BY <1>1, <2>1, <2>2 DEF Local
<1>10. QED
  BY <1>2, <1>3, <1>4, <1>5, <1>6, <1>7, <1>8, <1>9 DEF Step

-----------------------------------------------------------------------------
(* The theorems. *)

\* The initial states satisfy the inductive invariant.
LEMMA InitIInv ==
  ASSUME NEW P, WritePoints \subseteq P, Init
  PROVE  IInv(P)
<1>1. GoodTables
  BY DEF Init, GoodTables, Sound, MaybeHist
<1>2. GoodTxns
  BY EmptyGood DEF Init, GoodTxns
<1>3. GoodControl(P)
  BY NoCallTyped, BoundAssumption
  DEF Init, GoodControl, WritePoints, Partial, Empty
<1>4. Holds /\ RestoreHolds
  BY DEF Init, Holds, Held, RestoreHolds, NoCall
<1>5. QED
  BY <1>1, <1>2, <1>3, <1>4 DEF IInv

\* So does a step that changes none of the variables it is about.
LEMMA SameKeeps ==
  ASSUME NEW P, IInv(P), UNCHANGED vars
  PROVE  IInv(P)'
<1>1. /\ row' = row /\ hist' = hist /\ txn' = txn /\ mark' = mark /\ pc' = pc /\ call' = call
      /\ todo' = todo /\ seen' = seen /\ block' = block /\ unused' = unused /\ calls' = calls
  BY DEF vars
<1>2. GoodTables' /\ GoodTxns' /\ GoodControl(P)'
  BY <1>1 DEF IInv, GoodTables, GoodTxns, GoodControl
<1>3. Holds' /\ RestoreHolds'
  BY <1>1 DEF IInv, Holds, RestoreHolds
<1>4. QED
  BY <1>2, <1>3 DEF IInv

\* Every step keeps the inductive invariant.
LEMMA NextIInv ==
  ASSUME NEW P, WritePoints \subseteq P, IInv(P), [Next]_vars
  PROVE  IInv(P)'
<1>1. CASE UNCHANGED vars
  BY <1>1, SameKeeps DEF vars
<1>2. ASSUME NEW w \in Worker, Start(w) \/ Step(w) \/ Fail(w)
      PROVE  IInv(P)'
  BY <1>2, StartKeeps, SaveKeeps, UpdateKeeps, RecordKeeps, DeleteKeeps, FinishKeeps DEF Step
<1>3. QED
  BY <1>1, <1>2 DEF Next, Done

\* The inductive invariant implies the type invariant.
LEMMA IInvTypeOK == ASSUME NEW P, IInv(P) PROVE TypeOKWith(P)
BY DEF IInv, GoodTables, GoodTxns, GoodTxn, GoodControl, TypeOKWith, DatabaseTypeOK

\* The state of every behaviour is well typed: the rows, heads and events the
\* writes of registry.py and query.py leave are ones the tables can hold.
THEOREM TypeCorrect == Spec => []TypeOK
<1>1. Init => IInv(WritePoints)
  BY InitIInv
<1>2. IInv(WritePoints) /\ [Next]_vars => IInv(WritePoints)'
  BY NextIInv
<1>3. IInv(WritePoints) => TypeOK
  BY IInvTypeOK DEF TypeOK
<1>4. QED
  BY <1>1, <1>2, <1>3, PTL DEF Spec

\* append_event() keeps every committed history one that verify_history()
\* accepts, with any number of concurrent writers, in either mode, whatever
\* operations fail, and however application blocks nest around them.
THEOREM HistoriesVerify == Spec => []HistoryVerifies
<1>1. Init => IInv(WritePoints)
  BY InitIInv
<1>2. IInv(WritePoints) /\ [Next]_vars => IInv(WritePoints)'
  BY NextIInv
<1>3. IInv(WritePoints) => HistoryVerifies
  BY DEF IInv, GoodTables, Sound, HistoryVerifies
<1>4. QED
  BY <1>1, <1>2, <1>3, PTL DEF Spec

\* In enforce mode the actor of every event was acting in the event's scope:
\* each write, and each deletion, is recorded about a row that check_scope()
\* let pass and that the transaction still holds.
THEOREM ActorsActInScope == Spec => []ActorsInScope
<1>1. Init => IInv(WritePoints)
  BY InitIInv
<1>2. IInv(WritePoints) /\ [Next]_vars => IInv(WritePoints)'
  BY NextIInv
<1>3. IInv(WritePoints) => ActorsInScope
  <2> SUFFICES ASSUME IInv(WritePoints), Mode = "enforce", NEW k \in Key,
                      NEW i \in DOMAIN Events(hist[k])
               PROVE  CtxScope[Events(hist[k])[i].actor] = Events(hist[k])[i].scope
    BY DEF ActorsInScope
  <2>1. hist[k] # Null
    BY DEF Events
  <2>2. hist[k] \in Resource /\ Signed(hist[k])
    BY <2>1 DEF IInv, GoodTables, Sound, MaybeHist
  <2>3. Events(hist[k]) = hist[k].events /\ i \in 1..Len(hist[k].events)
    BY <2>1, <2>2 DEF Events, Resource
  <2>4. QED
    BY <2>2, <2>3 DEF Signed
<1>4. QED
  BY <1>1, <1>2, <1>3, PTL DEF Spec

-----------------------------------------------------------------------------
(* The inductive invariant. *)

\* What transaction t would leave of key k if it committed over the table: a
\* row in the scope of the history it owns, or else in the scope the row had.
Settled(table, t, k) ==
  /\ k \in DOMAIN t.row /\ k \in DOMAIN t.hist /\ t.row[k] # Null =>
       t.row[k].scope = t.hist[k].scope
  /\ k \notin DOMAIN t.row /\ k \in DOMAIN t.hist /\ table[k] # Null =>
       table[k].scope = t.hist[k].scope
  /\ k \in DOMAIN t.row /\ k \notin DOMAIN t.hist /\ t.row[k] # Null =>
       table[k] # Null /\ table[k].scope = t.row[k].scope

\* The keys an operation has put rows in and not yet appended an event for.
Busy(p, c, K) == IF p = "insert" THEN c.keys ELSE IF p = "record" THEN K ELSE {}

\* The transactions t and u own nothing in common.
Apart(t, u) == DOMAIN t.row \cap DOMAIN u.row = {} /\ DOMAIN t.hist \cap DOMAIN u.hist = {}

\* Outside a block the savepoint of an operation is the start of its
\* transaction, and between transactions nothing is owned.
Session(p, b, t, m) ==
  /\ p = "idle" => t = NoLocks /\ ~b
  /\ p = "open" => b
  /\ p \in {"idle", "open"} \/ ~b => m = NoLocks

\* The loops of save(), create() and bulk_create() visit the operation's keys.
Visits(p, c, K) ==
  /\ p = "insert" => K \subseteq c.keys
  /\ p \in {"lock", "write", "delete"} /\ c.op \in {"save", "create"} => K \subseteq c.keys

\* Of one worker.
Orderly(w) ==
  /\ Session(pc[w], block[w], txn[w], mark[w])
  /\ Visits(pc[w], call[w], todo[w])
  /\ DOMAIN mark[w].row \subseteq DOMAIN txn[w].row
  /\ DOMAIN mark[w].hist \subseteq DOMAIN txn[w].hist
  /\ \A k \in Key : Settled(row, mark[w], k)
  /\ \A k \in Key \ Busy(pc[w], call[w], todo[w]) : Settled(row, txn[w], k)

ScopeInv ==
  /\ HistoryInScope
  /\ \A w \in Worker : Orderly(w)
  /\ \A w \in Worker : \A v \in Worker \ {w} : Apart(txn[w], txn[v])

-----------------------------------------------------------------------------
(* What the statements do to a transaction. *)

\* The transaction t goes on from that of w, with locks that were free.
Takes(w, t) ==
  /\ DOMAIN txn[w].row \subseteq DOMAIN t.row /\ DOMAIN txn[w].hist \subseteq DOMAIN t.hist
  /\ \A v \in Worker \ {w} : Apart(t, txn[v])

\* A transaction that owns nothing settles every key.
LEMMA NothingSettled == \A table, k : Settled(table, NoLocks, k)
BY DEF Settled, NoLocks, Empty

\* Locking a row that is not locked changes no scope.
LEMMA LockedTakes ==
  ASSUME NEW P, IInv(P), ScopeInv, NEW w \in Worker, NEW k \in Key, ~SelectWaits(w, k)
  PROVE  /\ Takes(w, Locked(w, k)[w])
         /\ \A x \in Key : Settled(row, txn[w], x) => Settled(row, Locked(w, k)[w], x)
<1> DEFINE t == Locked(w, k)[w]
<1>1. /\ VisibleRow(w, k) # Null => k \in DOMAIN t.row /\ t.row[k] = VisibleRow(w, k)
      /\ t.hist = txn[w].hist
      /\ DOMAIN txn[w].row \subseteq DOMAIN t.row
      /\ \A x \in DOMAIN txn[w].row : t.row[x] = txn[w].row[x]
      /\ DOMAIN t.row \subseteq DOMAIN txn[w].row \union {k}
  BY LockedGood DEF IInv
<1>2. CASE VisibleRow(w, k) = Null
  <2>1. t = txn[w]
    BY <1>2 DEF Locked
  <2>2. QED
    BY <2>1 DEF Takes, ScopeInv
<1>3. CASE VisibleRow(w, k) # Null
  <2>1. \A v \in Worker \ {w} : k \notin DOMAIN txn[v].row
    BY <1>3 DEF SelectWaits, RowFree
  <2> HIDE DEF t
  <2>2. Takes(w, t)
    BY <1>1, <2>1 DEF Takes, Apart, ScopeInv
  <2>3. ASSUME NEW x \in Key, Settled(row, txn[w], x) PROVE Settled(row, t, x)
    <3>1. CASE x \in DOMAIN txn[w].row
      BY <1>1, <2>3, <3>1 DEF Settled
    <3>2. CASE x \notin DOMAIN txn[w].row /\ x = k
      BY <1>1, <1>3, <2>3, <3>2 DEF Settled, VisibleRow
    <3>3. CASE x \notin DOMAIN txn[w].row /\ x # k
      BY <1>1, <2>3, <3>3 DEF Settled
    <3>4. QED
      BY <3>1, <3>2, <3>3
  <2>4. QED
    BY <2>2, <2>3 DEF t
<1>4. QED
  BY <1>2, <1>3

\* Nor does writing to rows that are not locked, if it leaves them their scope.
LEMMA PutRowsTakes ==
  ASSUME NEW P, IInv(P), ScopeInv, NEW w \in Worker, NEW f, Partial(f, MaybeRow),
         \A k \in DOMAIN f : RowFree(w, k)
  PROVE  /\ Takes(w, PutRows(w, f)[w])
         /\ \A x \in Key \ DOMAIN f : Settled(row, txn[w], x) => Settled(row, PutRows(w, f)[w], x)
         /\ \A x \in DOMAIN f :
              (f[x] # Null => VisibleRow(w, x) # Null /\ f[x].scope = VisibleRow(w, x).scope)
              /\ Settled(row, txn[w], x) => Settled(row, PutRows(w, f)[w], x)
<1> DEFINE t == PutRows(w, f)[w]
<1>1. /\ DOMAIN t.row = DOMAIN f \union DOMAIN txn[w].row
      /\ \A k \in DOMAIN f : t.row[k] = f[k]
      /\ \A k \in DOMAIN txn[w].row \ DOMAIN f : t.row[k] = txn[w].row[k]
      /\ t.hist = txn[w].hist
  BY PutRowsGood DEF IInv
<1> HIDE DEF t
<1>2. Takes(w, t)
  BY <1>1 DEF Takes, Apart, ScopeInv, RowFree
<1>3. \A x \in Key \ DOMAIN f : Settled(row, txn[w], x) => Settled(row, t, x)
  BY <1>1 DEF Settled
<1>4. ASSUME NEW x \in DOMAIN f, Settled(row, txn[w], x),
             f[x] # Null => VisibleRow(w, x) # Null /\ f[x].scope = VisibleRow(w, x).scope
      PROVE  Settled(row, t, x)
  BY <1>1, <1>4 DEF Settled, VisibleRow
<1>5. QED
  BY <1>2, <1>3, <1>4 DEF t

\* Taking a head that is free settles the key, if the row is in its scope.
LEMMA PutHistTakes ==
  ASSUME NEW P, IInv(P), ScopeInv, NEW w \in Worker, NEW k \in Key, HistFree(w, k), NEW h,
         VisibleRow(w, k) # Null => VisibleRow(w, k).scope = h.scope
  PROVE  /\ Takes(w, PutHist(w, k, h)[w])
         /\ Settled(row, PutHist(w, k, h)[w], k)
         /\ \A x \in Key \ {k} : Settled(row, txn[w], x) => Settled(row, PutHist(w, k, h)[w], x)
<1> DEFINE m == Merge([x \in {k} |-> h], txn[w].hist)
<1> DEFINE t == [row |-> txn[w].row, hist |-> m]
<1>1. PutHist(w, k, h)[w] = t
  BY DEF PutHist, IInv, GoodTxns
<1>2. /\ DOMAIN m = DOMAIN txn[w].hist \union {k} /\ m[k] = h
      /\ \A x \in DOMAIN txn[w].hist \ {k} : m[x] = txn[w].hist[x]
  BY DEF Merge
<1> HIDE DEF m
<1>3. /\ DOMAIN t.hist = DOMAIN txn[w].hist \union {k} /\ t.hist[k] = h
      /\ \A x \in DOMAIN txn[w].hist \ {k} : t.hist[x] = txn[w].hist[x]
      /\ t.row = txn[w].row
  BY <1>2
<1> HIDE DEF t
<1>4. Takes(w, t)
  BY <1>3 DEF Takes, Apart, ScopeInv, HistFree
<1>5. Settled(row, t, k)
  BY <1>3 DEF Settled, VisibleRow
<1>6. \A x \in Key \ {k} : Settled(row, txn[w], x) => Settled(row, t, x)
  BY <1>3 DEF Settled
<1>7. QED
  BY <1>1, <1>4, <1>5, <1>6

\* A head in the database, and the row a transaction sees with it, agree.
LEMMA HeadAgrees ==
  ASSUME ScopeInv, NEW w \in Worker, NEW k \in Key, Settled(row, txn[w], k),
         VisibleRow(w, k) # Null, VisibleHist(w, k) # Null
  PROVE  VisibleRow(w, k).scope = VisibleHist(w, k).scope
BY DEF ScopeInv, HistoryInScope, Settled, VisibleRow, VisibleHist

-----------------------------------------------------------------------------
(* What the steps an operation is made of keep. *)

\* A step that commits nothing, from what it did for its own worker.
LEMMA ScopeStep ==
  ASSUME NEW P, IInv(P), ScopeInv, NEW w \in Worker, Local(w), row' = row, hist' = hist,
         \A v \in Worker \ {w} : Apart(txn'[w], txn[v]), Orderly(w)'
  PROVE  ScopeInv'
<1>1. HistoryInScope'
  BY DEF ScopeInv, HistoryInScope
<1>2. ASSUME NEW v \in Worker PROVE Orderly(v)'
  <2>1. CASE v = w
    BY <2>1
  <2>2. CASE v # w
    BY <2>2 DEF ScopeInv, Orderly, Local
  <2>3. QED
    BY <2>1, <2>2
<1>3. ASSUME NEW u \in Worker, NEW v \in Worker \ {u} PROVE Apart(txn'[u], txn'[v])
  <2>1. CASE u = w
    BY <2>1 DEF Local
  <2>2. CASE v = w
    <3>1. Apart(txn'[w], txn[u]) /\ txn'[u] = txn[u]
      BY <2>2 DEF Local
    <3>2. QED
      BY <2>2, <3>1 DEF Apart
  <2>3. CASE u # w /\ v # w
    BY <2>3 DEF Local, ScopeInv
  <2>4. QED
    BY <2>1, <2>2, <2>3
<1>4. QED
  BY <1>1, <1>2, <1>3 DEF ScopeInv

\* The commit of w leaves a key settled for another that is.
LEMMA CommitSettled ==
  ASSUME NEW P, IInv(P), NEW w \in Worker, Commit(w), NEW k \in Key,
         NEW t, Apart(txn[w], t), Settled(row, txn[w], k), Settled(row, t, k)
  PROVE  Settled(row', t, k)
<1>1. row'[k] = IF k \in DOMAIN txn[w].row THEN txn[w].row[k] ELSE row[k]
  BY MergeTable DEF Commit, IInv, GoodTables, GoodTxns, GoodTxn, TxnTypeOK
<1>2. CASE k \notin DOMAIN txn[w].row
  BY <1>1, <1>2 DEF Settled
<1>3. CASE k \in DOMAIN txn[w].row
  <2>1. k \notin DOMAIN t.row
    BY <1>3 DEF Apart
  <2>2. k \in DOMAIN t.hist => k \notin DOMAIN txn[w].hist
    BY DEF Apart
  <2>3. QED
    BY <1>1, <1>3, <2>1, <2>2 DEF Settled
<1>4. QED
  BY <1>2, <1>3

\* A step that commits when every key is settled.
LEMMA CommitScope ==
  ASSUME NEW P, IInv(P), ScopeInv, NEW w \in Worker, Local(w), Commit(w),
         \A k \in Key : Settled(row, txn[w], k),
         Session(pc'[w], block'[w], NoLocks, mark'[w]), mark'[w] = NoLocks,
         pc'[w] \notin {"insert", "lock", "write", "delete"}
  PROVE  ScopeInv'
<1>1. txn'[w] = NoLocks /\ \A v \in Worker \ {w} : txn'[v] = txn[v]
  BY DEF Commit, IInv, GoodTxns
<1>2. HistoryInScope'
  <2> SUFFICES ASSUME NEW k \in Key, row'[k] # Null, hist'[k] # Null
               PROVE  row'[k].scope = hist'[k].scope
    BY DEF HistoryInScope
  <2>1. /\ row'[k] = IF k \in DOMAIN txn[w].row THEN txn[w].row[k] ELSE row[k]
        /\ hist'[k] = IF k \in DOMAIN txn[w].hist THEN txn[w].hist[k] ELSE hist[k]
    BY MergeTable DEF Commit, IInv, GoodTables, GoodTxns, GoodTxn, TxnTypeOK
  <2>2. Settled(row, txn[w], k)
    OBVIOUS
  <2>3. row[k] # Null /\ hist[k] # Null => row[k].scope = hist[k].scope
    BY DEF ScopeInv, HistoryInScope
  <2>4. QED
    BY <2>1, <2>2, <2>3 DEF Settled
<1>3. Orderly(w)'
  <2>1. DOMAIN NoLocks.row = {} /\ DOMAIN NoLocks.hist = {}
    BY DEF NoLocks, Empty
  <2>2. Visits(pc'[w], call'[w], todo'[w])
    BY DEF Visits
  <2>3. QED
    BY <1>1, <2>1, <2>2, NothingSettled DEF Orderly
<1>4. ASSUME NEW v \in Worker \ {w} PROVE Orderly(v)'
  <2>1. /\ txn'[v] = txn[v] /\ mark'[v] = mark[v] /\ pc'[v] = pc[v] /\ call'[v] = call[v]
        /\ todo'[v] = todo[v] /\ block'[v] = block[v]
    BY DEF Local
  <2>2. Orderly(v) /\ Apart(txn[w], txn[v])
    BY DEF ScopeInv
  <2>3. Apart(txn[w], mark[v])
    BY <2>2 DEF Orderly, Apart
  <2>4. \A k \in Key : Settled(row', mark[v], k)
    BY <2>2, <2>3, CommitSettled DEF Orderly
  <2>5. \A k \in Key \ Busy(pc[v], call[v], todo[v]) : Settled(row', txn[v], k)
    BY <2>2, CommitSettled DEF Orderly
  <2>6. QED
    BY <2>1, <2>2, <2>4, <2>5 DEF Orderly
<1>5. ASSUME NEW u \in Worker, NEW v \in Worker \ {u} PROVE Apart(txn'[u], txn'[v])
  <2>1. CASE u = w \/ v = w
    BY <1>1, <2>1 DEF Apart, NoLocks, Empty
  <2>2. CASE u # w /\ v # w
    BY <1>1, <2>2 DEF ScopeInv
  <2>3. QED
    BY <2>1, <2>2
<1>6. QED
  BY <1>2, <1>3, <1>4, <1>5 DEF ScopeInv

\* Going on, with the locks a statement took.
LEMMA GotoScope ==
  ASSUME NEW P, IInv(P), ScopeInv, NEW w \in Worker, NEW next, NEW work,
         Goto(w, next, work), Local(w), Takes(w, txn'[w]), next \notin {"idle", "open"},
         \A k \in Key \ Busy(next, call[w], work) : Settled(row, txn'[w], k),
         Visits(next, call[w], work), pc[w] \notin {"idle", "open"}
  PROVE  ScopeInv'
<1>1. /\ pc'[w] = next /\ todo'[w] = work
      /\ row' = row /\ hist' = hist /\ mark' = mark /\ call' = call /\ block' = block
  BY DEF Goto, IInv, GoodControl
<1>2. Orderly(w)
  BY DEF ScopeInv
<1>3. Session(next, block[w], txn'[w], mark[w])
  BY <1>2 DEF Orderly, Session
<1>4. Orderly(w)'
  BY <1>1, <1>2, <1>3 DEF Orderly, Takes
<1>5. QED
  BY <1>1, <1>4, ScopeStep DEF Takes

\* An exception gives back the locks taken since the savepoint.
LEMMA RaiseScope ==
  ASSUME NEW P, IInv(P), ScopeInv, NEW w \in Worker, Raise(w)
  PROVE  ScopeInv'
<1>1. /\ row' = row /\ hist' = hist /\ txn'[w] = mark[w] /\ mark'[w] = NoLocks
      /\ pc'[w] = (IF block[w] THEN "open" ELSE "idle") /\ block' = block
      /\ block[w] \in BOOLEAN
  BY DEF Raise, Rollback, Ends, IInv, GoodControl, GoodTxns
<1>2. Local(w)
  BY RaiseLocal
<1>3. Orderly(w) /\ \A v \in Worker \ {w} : Apart(txn[w], txn[v])
  BY DEF ScopeInv
<1>4. \A v \in Worker \ {w} : Apart(txn'[w], txn[v])
  BY <1>1, <1>3 DEF Orderly, Apart
<1>5. Session(pc'[w], block'[w], txn'[w], mark'[w]) /\ Visits(pc'[w], call'[w], todo'[w])
  BY <1>1, <1>3 DEF Orderly, Session, Visits
<1>6. DOMAIN NoLocks.row = {} /\ DOMAIN NoLocks.hist = {}
  BY DEF NoLocks, Empty
<1>7. Orderly(w)'
  BY <1>1, <1>3, <1>5, <1>6, NothingSettled DEF Orderly
<1>8. QED
  BY <1>1, <1>2, <1>4, <1>7, ScopeStep

\* An operation starts with every key settled.
LEMMA BeginScope ==
  ASSUME NEW P, IInv(P), ScopeInv, NEW w \in Worker, NEW c, NEW next, NEW work,
         Begin(w, c, next, work), next \notin {"idle", "open"}, work \subseteq c.keys
  PROVE  ScopeInv'
<1>1. /\ row' = row /\ hist' = hist /\ txn' = txn /\ mark'[w] = txn[w]
      /\ pc'[w] = next /\ call'[w] = c /\ todo'[w] = work /\ block' = block
      /\ pc[w] \in {"idle", "open"}
  BY DEF Begin, IInv, GoodControl, GoodTxns
<1>2. Local(w)
  BY BeginLocal
<1>3. Orderly(w) /\ \A v \in Worker \ {w} : Apart(txn[w], txn[v])
  BY DEF ScopeInv
<1>4. \A k \in Key : Settled(row, txn[w], k)
  BY <1>1, <1>3 DEF Orderly, Busy
<1>5. Session(next, block[w], txn[w], txn[w]) /\ Visits(next, c, work)
  BY <1>1, <1>3 DEF Orderly, Session, Visits
<1>6. Orderly(w)'
  BY <1>1, <1>4, <1>5 DEF Orderly
<1>7. QED
  BY <1>1, <1>2, <1>3, <1>6, ScopeStep

\* append_event() settles the key it is about.
LEMMA AppendScope ==
  ASSUME NEW P, IInv(P), ScopeInv, NEW w \in Worker, NEW k \in Key, VisibleRow(w, k) \in Row,
         NEW action, NEW before, NEW after, NEW next,
         AppendEvent(w, k, VisibleRow(w, k), action, before, after, next),
         next \notin {"idle", "open", "insert"}, pc[w] \in {"delete", "record", "b_check"},
         next = "lock" => pc[w] = "delete", next = "record" => pc[w] = "record",
         next \notin {"write", "delete"}, pc[w] = "record" => next = "record"
  PROVE  ScopeInv'
<1> DEFINE r == VisibleRow(w, k)
<1> DEFINE h == HeadOf(w, k, r)
<1> DEFINE g == Appended(h, NewEvent(w, h, r, action, before, after))
<1>1. CASE Reassigned(h, r)
  <2>1. Raise(w)
    BY <1>1 DEF AppendEvent
  <2>2. QED
    BY <2>1, RaiseScope
<1>2. CASE ~Reassigned(h, r)
  <2>1. /\ HistFree(w, k) /\ txn' = PutHist(w, k, g)
        /\ Goto(w, next, todo[w] \ {k}) /\ seen' = seen
    BY <1>2 DEF AppendEvent
  <2>2. h.scope = r.scope /\ h \in Resource
    BY <1>2, HeadGood DEF Reassigned, IInv
  <2> HIDE DEF h
  <2>3. g.scope = r.scope
    BY <2>2 DEF Appended, Resource
  <2> HIDE DEF g
  <2>4. Local(w)
    <3>1. \A v \in Worker \ {w} : txn'[v] = txn[v] /\ seen'[v] = seen[v]
      BY <2>1, PutLocal DEF IInv
    <3>2. QED
      BY <2>1, <3>1, GotoLocal
  <2>5. /\ Takes(w, txn'[w]) /\ Settled(row, txn'[w], k)
        /\ \A x \in Key \ {k} : Settled(row, txn[w], x) => Settled(row, txn'[w], x)
    BY <2>1, <2>3, PutHistTakes
  <2>6. Orderly(w)
    BY DEF ScopeInv
  <2>7. \A x \in Key \ Busy(next, call[w], todo[w] \ {k}) : Settled(row, txn'[w], x)
    BY <2>5, <2>6 DEF Orderly, Busy
  <2>8. Visits(next, call[w], todo[w] \ {k})
    BY <2>6 DEF Orderly, Visits
  <2>9. QED
    BY <2>1, <2>4, <2>5, <2>7, <2>8, GotoScope
<1>3. QED
  BY <1>1, <1>2

-----------------------------------------------------------------------------
(* One lemma for each group of actions. *)

\* The operations start, and blocks open.
LEMMA StartScope ==
  ASSUME NEW P, IInv(P), ScopeInv, NEW w \in Worker, Start(w)
  PROVE  ScopeInv'
<1>1. CASE OpenBlock(w)
  <2>1. /\ row' = row /\ hist' = hist /\ txn' = txn /\ mark' = mark
        /\ pc[w] = "idle" /\ pc'[w] = "open" /\ block'[w] = TRUE
    BY <1>1 DEF OpenBlock, IInv, GoodControl
  <2>2. Local(w)
    BY <1>1 DEF OpenBlock, IInv, GoodControl, Local
  <2>3. Orderly(w) /\ \A v \in Worker \ {w} : Apart(txn[w], txn[v])
    BY DEF ScopeInv
  <2>4. Session(pc'[w], block'[w], txn[w], mark[w]) /\ Visits(pc'[w], call'[w], todo'[w])
    BY <2>1, <2>3 DEF Orderly, Session, Visits
  <2>5. \A k \in Key : Settled(row, txn[w], k)
    BY <2>1, <2>3 DEF Orderly, Busy
  <2>6. Orderly(w)'
    BY <2>1, <2>3, <2>4, <2>5 DEF Orderly
  <2>7. QED
    BY <2>1, <2>2, <2>3, <2>6, ScopeStep
<1>2. CASE ~OpenBlock(w)
  <2>1. \E c, work : \E next \in {"lock", "insert"} :
          Begin(w, c, next, work) /\ work \subseteq c.keys
    <3>1. CASE BeginSave(w)
      <4>1. PICK op \in {"save", "save_fields"}, k \in KnownKeys(w), s \in Scope, v \in Value :
              Begin(w, [op |-> op, keys |-> {k}, scope |-> s, val |-> v], "lock", {k})
        BY <3>1 DEF BeginSave
      <4>2. QED
        BY <4>1
    <3>2. CASE BeginCreate(w)
      BY <3>2 DEF BeginCreate
    <3>3. CASE BeginBulkCreate(w)
      BY <3>3 DEF BeginBulkCreate
    <3>4. CASE BeginUpdate(w)
      BY <3>4 DEF BeginUpdate
    <3>5. CASE BeginBulkUpdate(w)
      BY <3>5 DEF BeginBulkUpdate
    <3>6. CASE BeginDelete(w)
      BY <3>6 DEF BeginDelete
    <3>7. QED
      BY <1>2, <3>1, <3>2, <3>3, <3>4, <3>5, <3>6 DEF Start
  <2>2. QED
    BY <2>1, BeginScope
<1>3. QED
  BY <1>1, <1>2

\* save_base() and the INSERTs: between the write of a row and its event the
\* key is busy.
LEMMA SaveScope ==
  ASSUME NEW P, IInv(P), ScopeInv, NEW w \in Worker, Local(w),
         SaveLoads(w) \/ SaveUpdates(w) \/ InsertRow(w)
  PROVE  ScopeInv'
<1>1. Orderly(w) /\ Takes(w, txn[w]) /\ todo[w] \in SUBSET Key /\ call[w] \in CallType
  BY DEF ScopeInv, Takes, IInv, GoodControl
<1>2. CASE Raise(w)
  BY <1>2, RaiseScope
<1>3. CASE SaveLoads(w) /\ ~Raise(w)
  <2> DEFINE next == IF call[w].op = "create" THEN "insert" ELSE "write"
  <2>1. PICK k \in todo[w] : ~SelectWaits(w, k) /\ txn' = Locked(w, k) /\ Goto(w, next, {k})
    BY <1>3 DEF SaveLoads
  <2>2. pc[w] = "lock"
    BY <1>3 DEF SaveLoads
  <2>3. /\ Takes(w, txn'[w])
        /\ \A x \in Key : Settled(row, txn[w], x) => Settled(row, txn'[w], x)
    BY <1>1, <2>1, LockedTakes
  <2>4. \A x \in Key : Settled(row, txn'[w], x)
    BY <1>1, <2>2, <2>3 DEF Orderly, Busy
  <2>5. Visits(next, call[w], {k})
    BY <1>1, <2>2 DEF Orderly, Visits
  <2>6. QED
    BY <2>1, <2>2, <2>3, <2>4, <2>5, GotoScope
<1>4. CASE SaveUpdates(w) /\ ~Raise(w)
  <2>1. pc[w] = "write"
    BY <1>4 DEF SaveUpdates
  <2>2. \A x \in Key : Settled(row, txn[w], x)
    BY <1>1, <2>1 DEF Orderly, Busy
  <2>3. PICK k \in todo[w] :
          LET found == VisibleRow(w, k)
              new == [scope |-> IF call[w].op = "save" THEN call[w].scope ELSE found.scope,
                      val |-> call[w].val]
          IN \/ /\ found # Null /\ ~SelectWaits(w, k)
                /\ txn' = PutRows(w, [x \in {k} |-> new]) /\ Goto(w, "record", {k})
             \/ call[w].op = "save" /\ Goto(w, "insert", {k}) /\ txn' = txn
    BY <1>4 DEF SaveUpdates
  <2>4. CASE call[w].op = "save" /\ Goto(w, "insert", {k}) /\ txn' = txn
    <3>1. Visits("insert", call[w], {k})
      BY <1>1, <2>1, <2>4 DEF Orderly, Visits
    <3>2. QED
      BY <1>1, <2>1, <2>2, <2>4, <3>1, GotoScope
  <2>5. ASSUME NEW new \in Row, VisibleRow(w, k) # Null, ~SelectWaits(w, k),
               txn' = PutRows(w, [x \in {k} |-> new]), Goto(w, "record", {k})
        PROVE  ScopeInv'
    <3> DEFINE f == [x \in {k} |-> new]
    <3>1. Partial(f, MaybeRow) /\ DOMAIN f = {k} /\ RowFree(w, k)
      BY <1>1, <2>5 DEF Partial, MaybeRow, SelectWaits
    <3> HIDE DEF f
    <3>2. /\ Takes(w, txn'[w])
          /\ \A x \in Key \ {k} : Settled(row, txn[w], x) => Settled(row, txn'[w], x)
      BY <2>5, <3>1, PutRowsTakes DEF f
    <3>3. \A x \in Key \ Busy("record", call[w], {k}) : Settled(row, txn'[w], x)
      BY <2>2, <3>2 DEF Busy
    <3>4. Visits("record", call[w], {k})
      BY DEF Visits
    <3>5. QED
      BY <2>1, <2>5, <3>2, <3>3, <3>4, GotoScope
  <2>6. ASSUME VisibleRow(w, k) # Null
        PROVE  [scope |-> IF call[w].op = "save" THEN call[w].scope ELSE VisibleRow(w, k).scope,
                val |-> call[w].val] \in Row
    <3>1. VisibleRow(w, k) \in Row
      BY <1>1, <2>6, VisibleTyped DEF IInv, MaybeRow
    <3>2. QED
      BY <1>1, <3>1 DEF Row, CallType
  <2>7. QED
    BY <2>3, <2>4, <2>5, <2>6
<1>5. CASE InsertRow(w) /\ ~Raise(w)
  <2> DEFINE new == [scope |-> call[w].scope, val |-> call[w].val]
  <2>1. pc[w] = "insert"
    BY <1>5 DEF InsertRow
  <2>2. PICK k \in todo[w] :
          /\ RowFree(w, k) /\ txn' = PutRows(w, [x \in {k} |-> new])
          /\ IF todo[w] = {k} THEN Goto(w, "record", call[w].keys)
                              ELSE Goto(w, "insert", todo[w] \ {k})
    BY <1>5 DEF InsertRow
  <2> DEFINE f == [x \in {k} |-> new]
  <2>3. Partial(f, MaybeRow) /\ DOMAIN f = {k} /\ k \in call[w].keys
    BY <1>1, <2>1 DEF Partial, MaybeRow, Row, CallType, Orderly, Visits
  <2> HIDE DEF f
  <2>4. /\ Takes(w, txn'[w])
        /\ \A x \in Key \ {k} : Settled(row, txn[w], x) => Settled(row, txn'[w], x)
    BY <2>2, <2>3, PutRowsTakes DEF f
  <2>5. \A x \in Key \ call[w].keys : Settled(row, txn'[w], x)
    BY <1>1, <2>1, <2>3, <2>4 DEF Orderly, Busy
  <2>6. CASE Goto(w, "record", call[w].keys)
    <3>1. Visits("record", call[w], call[w].keys)
      BY DEF Visits
    <3>2. \A x \in Key \ Busy("record", call[w], call[w].keys) : Settled(row, txn'[w], x)
      BY <2>5 DEF Busy
    <3>3. QED
      BY <2>1, <2>4, <2>6, <3>1, <3>2, GotoScope
  <2>7. CASE Goto(w, "insert", todo[w] \ {k})
    <3>1. Visits("insert", call[w], todo[w] \ {k})
      BY <1>1, <2>1 DEF Orderly, Visits
    <3>2. \A x \in Key \ Busy("insert", call[w], todo[w] \ {k}) : Settled(row, txn'[w], x)
      BY <2>5 DEF Busy
    <3>3. QED
      BY <2>1, <2>4, <2>7, <3>1, <3>2, GotoScope
  <2>8. QED
    BY <2>2, <2>6, <2>7
<1>6. QED
  BY <1>2, <1>3, <1>4, <1>5

\* A statement that locks rows, or reads them, on the way to the next.
LEMMA LocksScope ==
  ASSUME NEW P, IInv(P), ScopeInv, NEW w \in Worker, Local(w), NEW next, NEW work,
         Goto(w, next, work), Visits(next, call[w], work),
         next \notin {"idle", "open"}, pc[w] \notin {"idle", "open", "insert", "record"},
         \/ txn' = txn
         \/ \E k \in Key : ~SelectWaits(w, k) /\ txn' = Locked(w, k)
  PROVE  ScopeInv'
<1>1. \A x \in Key : Settled(row, txn[w], x)
  BY DEF ScopeInv, Orderly, Busy
<1>2. Takes(w, txn'[w]) /\ \A x \in Key : Settled(row, txn'[w], x)
  <2>1. CASE txn' = txn
    BY <1>1, <2>1 DEF Takes, ScopeInv
  <2>2. CASE \E k \in Key : ~SelectWaits(w, k) /\ txn' = Locked(w, k)
    BY <1>1, <2>2, LockedTakes
  <2>3. QED
    BY <2>1, <2>2
<1>3. QED
  BY <1>2, GotoScope

\* update() and bulk_update() leave rows the scope they find.
LEMMA UpdateScope ==
  ASSUME NEW P, IInv(P), ScopeInv, NEW w \in Worker, Local(w),
         UpdateLocks(w) \/ BulkUpdateLocks(w) \/ BulkUpdateReads(w) \/ UpdateRows(w)
  PROVE  ScopeInv'
<1>1. /\ Orderly(w) /\ todo[w] \in SUBSET Key /\ call[w] \in CallType
      /\ Partial(seen[w], Image)
  BY DEF ScopeInv, IInv, GoodControl
<1>2. CASE Raise(w)
  BY <1>2, RaiseScope
<1>3. CASE (UpdateLocks(w) \/ BulkUpdateLocks(w)) /\ ~Raise(w)
  <2>1. PICK k \in LockOrder(todo[w]) :
          /\ ~SelectWaits(w, k) /\ txn' \in {txn, Locked(w, k)}
          /\ Goto(w, "lock", todo[w] \ {k})
    BY <1>3 DEF UpdateLocks, BulkUpdateLocks
  <2>2. pc[w] = "lock" /\ call[w].op \in {"update", "bulk_update"} /\ k \in Key
    BY <1>1, <1>3 DEF UpdateLocks, BulkUpdateLocks, LockOrder, FirstOf
  <2>3. Visits("lock", call[w], todo[w] \ {k})
    BY <2>2 DEF Visits
  <2>4. QED
    BY <2>1, <2>2, <2>3, LocksScope
<1>4. CASE BulkUpdateReads(w)
  <2>1. pc[w] = "lock" /\ call[w].op = "bulk_update" /\ Goto(w, "write", {}) /\ txn' = txn
    BY <1>4 DEF BulkUpdateReads
  <2>2. Visits("write", call[w], {})
    BY DEF Visits
  <2>3. QED
    BY <2>1, <2>2, LocksScope
<1>5. CASE UpdateRows(w)
  <2> DEFINE hit == {k \in DOMAIN seen[w] : VisibleRow(w, k) # Null}
  <2> DEFINE f == [k \in hit |-> [VisibleRow(w, k) EXCEPT !.val = call[w].val]]
  <2>1. /\ pc[w] \in {"lock", "write"} /\ \A k \in hit : RowFree(w, k)
        /\ txn' = PutRows(w, f) /\ Goto(w, "record", DOMAIN seen[w])
    BY <1>5 DEF UpdateRows
  <2>2. \A k \in hit : k \in Key /\ VisibleRow(w, k) \in Row
    BY <1>1, VisibleTyped DEF Partial, IInv, MaybeRow
  <2>3. \A k \in hit : f[k] \in Row /\ f[k].scope = VisibleRow(w, k).scope
    BY <1>1, <2>2 DEF Row, CallType
  <2>4. DOMAIN f = hit /\ Partial(f, MaybeRow)
    BY <2>2, <2>3 DEF Partial, MaybeRow
  <2>5. \A k \in hit : VisibleRow(w, k) # Null
    OBVIOUS
  <2> HIDE DEF f, hit
  <2>6. \A x \in Key : Settled(row, txn[w], x)
    BY <1>1, <2>1 DEF Orderly, Busy
  <2>7. Takes(w, txn'[w]) /\ \A x \in Key : Settled(row, txn'[w], x)
    BY <2>1, <2>3, <2>4, <2>5, <2>6, PutRowsTakes
  <2>8. Visits("record", call[w], DOMAIN seen[w])
    BY DEF Visits
  <2>9. QED
    BY <2>1, <2>7, <2>8, GotoScope
<1>6. QED
  BY <1>2, <1>3, <1>4, <1>5

\* The deletes: rows go, and their histories stay.
LEMMA DeleteScope ==
  ASSUME NEW P, IInv(P), ScopeInv, NEW w \in Worker, Local(w),
         DeleteLoads(w) \/ DeleteRecords(w) \/ DeleteRows(w)
  PROVE  ScopeInv'
<1>1. Orderly(w) /\ todo[w] \in SUBSET Key /\ call[w] \in CallType
  BY DEF ScopeInv, IInv, GoodControl
<1>2. CASE DeleteLoads(w)
  <2>1. PICK k \in FirstOf(todo[w]) :
          \/ Raise(w)
          \/ /\ ~SelectWaits(w, k) /\ txn' = Locked(w, k)
             /\ Goto(w, "lock", todo[w] \ {k}) \/ Goto(w, "delete", todo[w])
    BY <1>2 DEF DeleteLoads
  <2>2. pc[w] = "lock" /\ call[w].op = "delete" /\ k \in Key
    BY <1>1, <1>2 DEF DeleteLoads, FirstOf
  <2>3. Visits("lock", call[w], todo[w] \ {k}) /\ Visits("delete", call[w], todo[w])
    BY <2>2 DEF Visits
  <2>4. QED
    BY <2>1, <2>2, <2>3, RaiseScope, LocksScope
<1>3. CASE DeleteRecords(w)
  <2>1. PICK k \in FirstOf(todo[w]) :
          AppendEvent(w, k, VisibleRow(w, k), "delete", Snapshot(VisibleRow(w, k)), Null, "lock")
    BY <1>3 DEF DeleteRecords
  <2>2. pc[w] = "delete" /\ k \in Key
    BY <1>1, <1>3 DEF DeleteRecords, FirstOf
  <2>3. HoldsRow(txn[w], w, k)
    BY <2>2 DEF IInv, Holds, Held
  <2>4. VisibleRow(w, k) \in Row
    BY <2>2, <2>3, VisibleTyped DEF IInv, MaybeRow, HoldsRow, VisibleRow
  <2>5. QED
    BY <2>1, <2>2, <2>4, AppendScope
<1>4. CASE DeleteRows(w)
  <2> DEFINE hit == {k \in call[w].keys : VisibleRow(w, k) # Null}
  <2> DEFINE f == [k \in hit |-> Null]
  <2>1. /\ pc[w] = "lock" /\ \A k \in hit : RowFree(w, k)
        /\ txn' = PutRows(w, f) /\ Goto(w, "record", {})
    BY <1>4 DEF DeleteRows
  <2>2. DOMAIN f = hit /\ Partial(f, MaybeRow) /\ \A k \in hit : f[k] = Null
    BY <1>1 DEF Partial, MaybeRow, CallType
  <2> HIDE DEF f, hit
  <2>3. \A x \in Key : Settled(row, txn[w], x)
    BY <1>1, <2>1 DEF Orderly, Busy
  <2>4. Takes(w, txn'[w]) /\ \A x \in Key : Settled(row, txn'[w], x)
    BY <2>1, <2>2, <2>3, PutRowsTakes
  <2>5. Visits("record", call[w], {})
    BY DEF Visits
  <2>6. QED
    BY <2>1, <2>4, <2>5, GotoScope
<1>5. QED
  BY <1>2, <1>3, <1>4

\* Each turn of _record_bulk() settles a key.
LEMMA RecordScope ==
  ASSUME NEW P, IInv(P), ScopeInv, NEW w \in Worker, Record(w)
  PROVE  ScopeInv'
<1>1. todo[w] \in SUBSET Key /\ pc[w] = "record"
  BY DEF Record, IInv, GoodControl
<1>2. PICK k \in RecordOrder(w) :
        \/ Raise(w)
        \/ /\ Selected(w, VisibleRow(w, k))
           /\ \E action, before, after :
                AppendEvent(w, k, VisibleRow(w, k), action, before, after, "record")
  BY DEF Record
<1>3. k \in Key
  BY <1>1 DEF RecordOrder, FirstOf
<1>4. CASE Raise(w)
  BY <1>4, RaiseScope
<1>5. CASE ~Raise(w)
  <2>1. PICK action, before, after :
          AppendEvent(w, k, VisibleRow(w, k), action, before, after, "record")
    BY <1>2, <1>5
  <2>2. VisibleRow(w, k) \in Row
    BY <1>2, <1>3, <1>5, VisibleTyped DEF Selected, IInv, MaybeRow
  <2>3. QED
    BY <1>1, <1>3, <2>1, <2>2, AppendScope
<1>6. QED
  BY <1>4, <1>5

\* Returning and closing a block commit when nothing is busy.
LEMMA FinishScope ==
  ASSUME NEW P, IInv(P), ScopeInv, NEW w \in Worker, Local(w), Return(w) \/ CloseBlock(w)
  PROVE  ScopeInv'
<1>1. /\ Orderly(w) /\ block[w] \in BOOLEAN /\ DOMAIN block = Worker /\ DOMAIN pc = Worker
      /\ DOMAIN mark = Worker /\ DOMAIN txn = Worker
      /\ \A v \in Worker \ {w} : Apart(txn[w], txn[v])
  BY DEF ScopeInv, IInv, GoodControl, GoodTxns
<1>2. \A x \in Key : Settled(row, txn[w], x)
  <2>1. Busy(pc[w], call[w], todo[w]) = {}
    BY DEF Return, CloseBlock, Busy
  <2>2. QED
    BY <1>1, <2>1 DEF Orderly
<1>3. DOMAIN NoLocks.row = {} /\ DOMAIN NoLocks.hist = {}
  BY DEF NoLocks, Empty
<1>4. CASE Return(w)
  <2>1. /\ pc'[w] = (IF block[w] THEN "open" ELSE "idle") /\ block' = block
        /\ mark'[w] = NoLocks
    BY <1>1, <1>4 DEF Return, Ends
  <2>2. CASE block[w]
    <3>1. row' = row /\ hist' = hist /\ txn' = txn
      BY <1>4, <2>2 DEF Return
    <3>2. Session(pc'[w], block'[w], txn'[w], mark'[w]) /\ Visits(pc'[w], call'[w], todo'[w])
      BY <2>1, <2>2 DEF Session, Visits
    <3>3. Orderly(w)'
      BY <1>2, <1>3, <2>1, <3>1, <3>2, NothingSettled DEF Orderly
    <3>4. QED
      BY <1>1, <3>1, <3>3, ScopeStep
  <2>3. CASE ~block[w]
    <3>1. Commit(w)
      BY <1>4, <2>3 DEF Return
    <3>2. Session(pc'[w], block'[w], NoLocks, mark'[w])
      BY <2>1, <2>3 DEF Session
    <3>3. QED
      BY <1>2, <2>1, <3>1, <3>2, CommitScope
  <2>4. QED
    BY <2>2, <2>3
<1>5. CASE CloseBlock(w)
  <2>1. /\ pc[w] = "open" /\ pc'[w] = "idle" /\ block'[w] = FALSE /\ mark' = mark
        /\ Commit(w) \/ Rollback(w, NoLocks)
    BY <1>1, <1>5 DEF CloseBlock
  <2>2. mark'[w] = NoLocks /\ Session(pc'[w], block'[w], NoLocks, mark'[w])
    BY <1>1, <2>1 DEF Orderly, Session
  <2>3. CASE Commit(w)
    BY <1>2, <2>1, <2>2, <2>3, CommitScope
  <2>4. CASE Rollback(w, NoLocks)
    <3>1. row' = row /\ hist' = hist /\ txn'[w] = NoLocks
      BY <1>1, <2>4 DEF Rollback
    <3>2. Visits(pc'[w], call'[w], todo'[w])
      BY <2>1 DEF Visits
    <3>3. Orderly(w)'
      BY <1>3, <2>1, <2>2, <3>1, <3>2, NothingSettled DEF Orderly
    <3>4. \A v \in Worker \ {w} : Apart(txn'[w], txn[v])
      BY <1>3, <3>1 DEF Apart
    <3>5. QED
      BY <3>1, <3>3, <3>4, ScopeStep
  <2>5. QED
    BY <2>1, <2>3, <2>4
<1>6. QED
  BY <1>4, <1>5

\* A write commits, if it does, with every key settled.
LEMMA CommitsSettled ==
  ASSUME NEW P, IInv(P), ScopeInv, NEW w \in Worker, Start(w) \/ Step(w) \/ Fail(w)
  PROVE  \/ row' = row /\ hist' = hist
         \/ Commit(w) /\ \A k \in Key : Settled(row, txn[w], k)
<1>1. CASE Return(w) \/ CloseBlock(w)
  <2>1. Busy(pc[w], call[w], todo[w]) = {}
    BY <1>1 DEF Return, CloseBlock, Busy
  <2>2. \A k \in Key : Settled(row, txn[w], k)
    BY <2>1 DEF ScopeInv, Orderly
  <2>3. QED
    BY <1>1, <2>2 DEF Return, CloseBlock, Rollback
<1>2. CASE Start(w) \/ Fail(w)
  BY <1>2 DEF Start, BeginSave, BeginCreate, BeginBulkCreate, BeginUpdate, BeginBulkUpdate,
              BeginDelete, Begin, OpenBlock, Fail, Raise, Rollback
<1>3. CASE SaveLoads(w) \/ SaveUpdates(w) \/ InsertRow(w)
  BY <1>3 DEF SaveLoads, SaveUpdates, InsertRow, Goto, Raise, Rollback
<1>4. CASE UpdateLocks(w) \/ BulkUpdateLocks(w) \/ BulkUpdateReads(w) \/ UpdateRows(w)
  BY <1>4 DEF UpdateLocks, BulkUpdateLocks, BulkUpdateReads, UpdateRows, Goto, Raise, Rollback
<1>5. CASE DeleteLoads(w) \/ DeleteRecords(w) \/ DeleteRows(w) \/ Record(w)
  BY <1>5 DEF DeleteLoads, DeleteRecords, DeleteRows, Record, AppendEvent, Goto, Raise, Rollback
<1>6. QED
  BY <1>1, <1>2, <1>3, <1>4, <1>5 DEF Step

-----------------------------------------------------------------------------
(* The theorem. *)

\* The initial states satisfy the invariant.
LEMMA InitScope == Init => ScopeInv
<1> SUFFICES ASSUME Init PROVE ScopeInv
  OBVIOUS
<1>1. HistoryInScope
  BY DEF Init, HistoryInScope
<1>2. \A w \in Worker : Orderly(w)
  BY NothingSettled DEF Init, Orderly, Session, Visits
<1>3. \A w \in Worker : \A v \in Worker \ {w} : Apart(txn[w], txn[v])
  BY DEF Init, Apart, NoLocks, Empty
<1>4. QED
  BY <1>1, <1>2, <1>3 DEF ScopeInv

\* A step of any of the writes keeps it.
LEMMA WriteScope ==
  ASSUME NEW P, IInv(P), ScopeInv, NEW w \in Worker, Start(w) \/ Step(w) \/ Fail(w)
  PROVE  ScopeInv'
<1>1. Local(w)
  BY LocalStep
<1>2. CASE Fail(w)
  BY <1>2, RaiseScope DEF Fail
<1>3. QED
  BY <1>1, <1>2, StartScope, SaveScope, UpdateScope, DeleteScope, RecordScope, FinishScope DEF Step

\* So does a step that changes nothing.
LEMMA SameScopes == ASSUME ScopeInv, UNCHANGED vars PROVE ScopeInv'
<1>1. /\ row' = row /\ hist' = hist /\ txn' = txn /\ mark' = mark /\ pc' = pc /\ call' = call
      /\ todo' = todo /\ block' = block
  BY DEF vars
<1>2. QED
  BY <1>1 DEF ScopeInv, HistoryInScope, Orderly

\* A committed row is in the scope of its history, through deletion and
\* re-creation of keys, concurrent saves that name other scopes, savepoints
\* rolled back and blocks abandoned: append_event()'s refusal to reassign a
\* history is enough, because every row that is put somewhere has its event
\* appended under the head's lock before the transaction can commit.
THEOREM RowsFollowHistory == Spec => []HistoryInScope
<1>1. Init => IInv(WritePoints) /\ ScopeInv
  BY InitIInv, InitScope
<1>2. IInv(WritePoints) /\ ScopeInv /\ [Next]_vars => IInv(WritePoints)' /\ ScopeInv'
  <2> SUFFICES ASSUME IInv(WritePoints), ScopeInv, [Next]_vars PROVE IInv(WritePoints)' /\ ScopeInv'
    OBVIOUS
  <2>1. IInv(WritePoints)'
    BY NextIInv
  <2>2. ScopeInv'
    BY WriteScope, SameScopes DEF Next, Done
  <2>3. QED
    BY <2>1, <2>2
<1>3. ScopeInv => HistoryInScope
  BY DEF ScopeInv
<1>4. QED
  BY <1>1, <1>2, <1>3, PTL DEF Spec

-----------------------------------------------------------------------------
(* Events are appended under the lock of their row. *)

\* A head that t owns without its row is the committed one: only looked at.
OwnedHeads(table, t) ==
  \A k \in DOMAIN t.hist : k \in DOMAIN t.row \/ t.hist[k] = table[k]

\* Where an operation is about to append events it owns the rows they are about.
\* bulk_update() is the exception: it takes its snapshots of rows it may not
\* have locked, and a row that is deleted and re-created between its statements
\* is recorded without being owned.
Owning(w) ==
  /\ call[w].op \in Ops \union {"none"}
  /\ pc[w] \in {"idle", "open"} => seen[w] = Empty
  /\ call[w].op \in SaveOps => \E k \in Key : call[w].keys = {k} /\ todo[w] \subseteq {k}
  /\ pc[w] = "insert" => call[w].keys \ todo[w] \subseteq DOMAIN txn[w].row
  /\ pc[w] = "record" => todo[w] \subseteq DOMAIN txn[w].row
  /\ pc[w] \in {"lock", "delete"} /\ call[w].op = "update" =>
       DOMAIN seen[w] \subseteq DOMAIN txn[w].row
  /\ OwnedHeads(hist, mark[w]) /\ OwnedHeads(hist, txn[w])

\* A step of w, from what it did for w itself.
LEMMA OwningStep ==
  ASSUME NEW P, IInv(P), ScopeInv, \A v \in Worker : Owning(v), NEW w \in Worker, Local(w),
         Owning(w)'
  PROVE  \A v \in Worker : Owning(v)'
<1> SUFFICES ASSUME NEW v \in Worker \ {w} PROVE Owning(v)'
  OBVIOUS
<1>1. /\ txn'[v] = txn[v] /\ mark'[v] = mark[v] /\ pc'[v] = pc[v] /\ call'[v] = call[v]
      /\ todo'[v] = todo[v] /\ seen'[v] = seen[v]
  BY DEF Local
<1>2. /\ Owning(v) /\ Apart(txn[w], txn[v]) /\ DOMAIN mark[v].hist \subseteq DOMAIN txn[v].hist
      /\ DOMAIN txn[v].hist \subseteq Key
  BY DEF ScopeInv, Orderly, IInv, GoodTxns, GoodTxn, TxnTypeOK, Partial
<1>3. ASSUME NEW k \in DOMAIN txn[v].hist PROVE hist'[k] = hist[k]
  <2>1. CASE hist' = hist
    BY <2>1
  <2>2. CASE Commit(w)
    <3>1. hist'[k] = IF k \in DOMAIN txn[w].hist THEN txn[w].hist[k] ELSE hist[k]
      BY <1>2, <2>2, MergeTable DEF Commit, IInv, GoodTables, GoodTxns, GoodTxn, TxnTypeOK
    <3>2. QED
      BY <1>2, <3>1 DEF Apart
  <2>3. QED
    BY <2>1, <2>2 DEF Local
<1>4. OwnedHeads(hist', txn[v]) /\ OwnedHeads(hist', mark[v])
  BY <1>2, <1>3 DEF Owning, OwnedHeads
<1>5. QED
  BY <1>1, <1>2, <1>4 DEF Owning

\* Nothing is owned by a transaction that owns nothing.
LEMMA NothingOwned == \A table : OwnedHeads(table, NoLocks)
BY DEF OwnedHeads, NoLocks, Empty

\* Going on inside an operation.
LEMMA GotoOwns ==
  ASSUME NEW P, IInv(P), NEW w \in Worker, Owning(w), NEW next, NEW work, Goto(w, next, work),
         next \notin {"idle", "open"}, OwnedHeads(hist, txn'[w]),
         call[w].op \in SaveOps => work \subseteq call[w].keys,
         next = "insert" => call[w].keys \ work \subseteq DOMAIN txn'[w].row,
         next = "record" => work \subseteq DOMAIN txn'[w].row,
         next \in {"lock", "delete"} /\ call[w].op = "update" =>
           DOMAIN seen'[w] \subseteq DOMAIN txn'[w].row
  PROVE  Owning(w)'
<1>1. pc'[w] = next /\ todo'[w] = work /\ call' = call /\ mark' = mark /\ hist' = hist
  BY DEF Goto, IInv, GoodControl
<1>2. QED
  BY <1>1 DEF Owning

\* Ending an operation, with what its transaction is left with.
LEMMA EndsOwns ==
  ASSUME NEW P, IInv(P), NEW w \in Worker, Ends(w), OwnedHeads(hist', txn'[w])
  PROVE  Owning(w)'
<1>1. /\ pc'[w] \in {"idle", "open"} /\ call'[w].op = "none" /\ seen'[w] = Empty
      /\ mark'[w] = NoLocks
  BY DEF Ends, IInv, GoodControl, GoodTxns, NoCall
<1>2. QED
  BY <1>1, NothingOwned DEF Owning, SaveOps

\* An exception gives back the transaction of the savepoint.
LEMMA RaiseOwns ==
  ASSUME NEW P, IInv(P), NEW w \in Worker, Owning(w), Raise(w)
  PROVE  Owning(w)'
<1>1. hist' = hist /\ txn'[w] = mark[w] /\ Ends(w)
  BY DEF Raise, Rollback, IInv, GoodTxns
<1>2. QED
  BY <1>1, EndsOwns DEF Owning

\* Starting an operation on its keys.
LEMMA BeginOwns ==
  ASSUME NEW P, IInv(P), NEW w \in Worker, Owning(w), NEW c, NEW next, NEW work,
         Begin(w, c, next, work), next \notin {"idle", "open", "record"},
         c.op \in SaveOps => \E k \in Key : c.keys = {k} /\ work \subseteq {k},
         next = "insert" => work = c.keys
  PROVE  Owning(w)'
<1>1. /\ pc'[w] = next /\ call'[w] = c /\ todo'[w] = work /\ seen' = seen /\ txn' = txn
      /\ mark'[w] = txn[w] /\ hist' = hist /\ c.op \in Ops /\ pc[w] \in {"idle", "open"}
  BY DEF Begin, IInv, GoodControl, GoodTxns
<1>2. seen[w] = Empty /\ DOMAIN Empty = {}
  BY <1>1 DEF Owning, Empty
<1>3. QED
  BY <1>1, <1>2 DEF Owning

\* append_event() about a row that is owned.
LEMMA AppendOwns ==
  ASSUME NEW P, IInv(P), NEW w \in Worker, Owning(w), NEW k \in Key, k \in DOMAIN txn[w].row,
         NEW r, NEW action, NEW before, NEW after, NEW next,
         AppendEvent(w, k, r, action, before, after, next),
         next \notin {"idle", "open", "insert"}, next = "record" => pc[w] = "record",
         next \in {"lock", "delete"} => pc[w] \in {"lock", "delete"}
  PROVE  Owning(w)'
<1>1. CASE Raise(w)
  BY <1>1, RaiseOwns
<1>2. CASE ~Raise(w)
  <2>1. PICK h : txn' = PutHist(w, k, h) /\ Goto(w, next, todo[w] \ {k}) /\ seen' = seen
    BY <1>2 DEF AppendEvent
  <2>2. /\ txn'[w].row = txn[w].row /\ DOMAIN txn'[w].hist = DOMAIN txn[w].hist \union {k}
        /\ \A x \in DOMAIN txn[w].hist \ {k} : txn'[w].hist[x] = txn[w].hist[x]
    BY <2>1 DEF PutHist, Merge, IInv, GoodTxns
  <2>3. OwnedHeads(hist, txn'[w])
    BY <2>2 DEF Owning, OwnedHeads
  <2>4. QED
    BY <2>1, <2>2, <2>3, GotoOwns DEF Owning
<1>3. QED
  BY <1>1, <1>2

\* Locking rows and writing to them leaves the heads as they were.
LEMMA RowsOwned ==
  ASSUME NEW P, IInv(P), NEW w \in Worker, Owning(w)
  PROVE  /\ OwnedHeads(hist, txn[w])
         /\ \A k \in Key : /\ OwnedHeads(hist, Locked(w, k)[w])
                           /\ DOMAIN txn[w].row \subseteq DOMAIN Locked(w, k)[w].row
                           /\ VisibleRow(w, k) # Null => k \in DOMAIN Locked(w, k)[w].row
         /\ \A f : Partial(f, MaybeRow) =>
              /\ OwnedHeads(hist, PutRows(w, f)[w])
              /\ DOMAIN PutRows(w, f)[w].row = DOMAIN f \union DOMAIN txn[w].row
<1>1. OwnedHeads(hist, txn[w])
  BY DEF Owning
<1>2. ASSUME NEW k \in Key
      PROVE  /\ OwnedHeads(hist, Locked(w, k)[w])
             /\ DOMAIN txn[w].row \subseteq DOMAIN Locked(w, k)[w].row
             /\ VisibleRow(w, k) # Null => k \in DOMAIN Locked(w, k)[w].row
  <2>1. /\ Locked(w, k)[w].hist = txn[w].hist
        /\ DOMAIN txn[w].row \subseteq DOMAIN Locked(w, k)[w].row
        /\ VisibleRow(w, k) # Null => k \in DOMAIN Locked(w, k)[w].row
    BY LockedGood DEF IInv
  <2>2. QED
    BY <1>1, <2>1 DEF OwnedHeads
<1>3. ASSUME NEW f, Partial(f, MaybeRow)
      PROVE  /\ OwnedHeads(hist, PutRows(w, f)[w])
             /\ DOMAIN PutRows(w, f)[w].row = DOMAIN f \union DOMAIN txn[w].row
  <2>1. /\ PutRows(w, f)[w].hist = txn[w].hist
        /\ DOMAIN PutRows(w, f)[w].row = DOMAIN f \union DOMAIN txn[w].row
    BY <1>3, PutRowsGood DEF IInv
  <2>2. QED
    BY <1>1, <2>1 DEF OwnedHeads
<1>4. QED
  BY <1>1, <1>2, <1>3

\* The operations start owning nothing they have to.
LEMMA StartOwns ==
  ASSUME NEW P, IInv(P), NEW w \in Worker, Owning(w), Start(w)
  PROVE  Owning(w)'
<1>1. KnownKeys(w) \subseteq Key /\ FreshKeys \subseteq Key
  BY DEF KnownKeys, FreshKeys, IInv, GoodControl
<1>2. CASE OpenBlock(w)
  <2>1. /\ pc[w] = "idle" /\ pc'[w] = "open" /\ hist' = hist /\ txn' = txn /\ mark' = mark
        /\ call' = call /\ todo' = todo /\ seen' = seen
    BY <1>2 DEF OpenBlock, IInv, GoodControl
  <2>2. QED
    BY <2>1 DEF Owning
<1>3. CASE BeginSave(w)
  <2>1. PICK op \in {"save", "save_fields"}, k \in KnownKeys(w), s \in Scope, v \in Value :
          Begin(w, [op |-> op, keys |-> {k}, scope |-> s, val |-> v], "lock", {k})
    BY <1>3 DEF BeginSave
  <2>2. QED
    BY <1>1, <2>1, BeginOwns
<1>4. CASE BeginCreate(w)
  <2>1. PICK k \in FreshKeys, s \in Scope, v \in Value :
          Begin(w, [op |-> "create", keys |-> {k}, scope |-> s, val |-> v], "lock", {k})
    BY <1>4 DEF BeginCreate
  <2>2. QED
    BY <1>1, <2>1, BeginOwns
<1>5. CASE BeginBulkCreate(w) \/ BeginUpdate(w) \/ BeginBulkUpdate(w) \/ BeginDelete(w)
  <2>1. \E c, work : \E next \in {"lock", "insert"} :
          /\ Begin(w, c, next, work) /\ c.op \notin SaveOps
          /\ next = "insert" => work = c.keys
    <3>1. CASE BeginBulkCreate(w)
      BY <3>1 DEF BeginBulkCreate, SaveOps
    <3>2. CASE BeginUpdate(w)
      BY <3>2 DEF BeginUpdate, SaveOps
    <3>3. CASE BeginBulkUpdate(w)
      BY <3>3 DEF BeginBulkUpdate, SaveOps
    <3>4. CASE BeginDelete(w)
      BY <3>4 DEF BeginDelete, SaveOps
    <3>5. QED
      BY <1>5, <3>1, <3>2, <3>3, <3>4
  <2>2. QED
    BY <2>1, BeginOwns
<1>6. QED
  BY <1>2, <1>3, <1>4, <1>5 DEF Start

\* save_base() and the INSERTs own what they write.
LEMMA SaveOwns ==
  ASSUME NEW P, IInv(P), NEW w \in Worker, Owning(w),
         SaveLoads(w) \/ SaveUpdates(w) \/ InsertRow(w)
  PROVE  Owning(w)'
<1>1. todo[w] \in SUBSET Key /\ call[w] \in CallType /\ "update" \notin SaveOps
  BY DEF IInv, GoodControl, SaveOps
<1>2. CASE Raise(w)
  BY <1>2, RaiseOwns
<1>3. CASE SaveLoads(w) /\ ~Raise(w)
  <2> DEFINE next == IF call[w].op = "create" THEN "insert" ELSE "write"
  <2>1. PICK k \in todo[w] : txn' = Locked(w, k) /\ Goto(w, next, {k})
    BY <1>3 DEF SaveLoads
  <2>2. call[w].op \in SaveOps
    BY <1>3 DEF SaveLoads
  <2>3. call[w].keys = {k}
    BY <2>2 DEF Owning
  <2>4. OwnedHeads(hist, txn'[w])
    BY <1>1, <2>1, RowsOwned
  <2>5. QED
    BY <2>1, <2>3, <2>4, GotoOwns
<1>4. CASE SaveUpdates(w) /\ ~Raise(w)
  <2>1. call[w].op \in SaveOps
    BY <1>4 DEF SaveUpdates
  <2>2. PICK k \in todo[w] :
          LET new == [scope |-> IF call[w].op = "save" THEN call[w].scope
                                                       ELSE VisibleRow(w, k).scope,
                      val |-> call[w].val]
          IN \/ /\ VisibleRow(w, k) # Null
                /\ txn' = PutRows(w, [x \in {k} |-> new]) /\ Goto(w, "record", {k})
             \/ Goto(w, "insert", {k}) /\ txn' = txn
    BY <1>4 DEF SaveUpdates
  <2>3. call[w].keys = {k}
    BY <2>1 DEF Owning
  <2>4. CASE Goto(w, "insert", {k}) /\ txn' = txn
    BY <2>3, <2>4, RowsOwned, GotoOwns
  <2>5. ASSUME NEW new \in Row, txn' = PutRows(w, [x \in {k} |-> new]), Goto(w, "record", {k})
        PROVE  Owning(w)'
    <3> DEFINE f == [x \in {k} |-> new]
    <3>1. Partial(f, MaybeRow) /\ DOMAIN f = {k}
      BY <1>1, <2>5 DEF Partial, MaybeRow
    <3> HIDE DEF f
    <3>2. OwnedHeads(hist, txn'[w]) /\ k \in DOMAIN txn'[w].row
      BY <2>5, <3>1, RowsOwned DEF f
    <3>3. QED
      BY <2>3, <2>5, <3>2, GotoOwns
  <2>6. ASSUME VisibleRow(w, k) # Null
        PROVE  [scope |-> IF call[w].op = "save" THEN call[w].scope ELSE VisibleRow(w, k).scope,
                val |-> call[w].val] \in Row
    <3>1. VisibleRow(w, k) \in Row
      BY <1>1, <2>6, VisibleTyped DEF IInv, MaybeRow
    <3>2. QED
      BY <1>1, <3>1 DEF Row, CallType
  <2>7. QED
    BY <2>2, <2>4, <2>5, <2>6
<1>5. CASE InsertRow(w) /\ ~Raise(w)
  <2> DEFINE new == [scope |-> call[w].scope, val |-> call[w].val]
  <2>1. pc[w] = "insert"
    BY <1>5 DEF InsertRow
  <2>2. PICK k \in todo[w] :
          /\ txn' = PutRows(w, [x \in {k} |-> new])
          /\ IF todo[w] = {k} THEN Goto(w, "record", call[w].keys)
                              ELSE Goto(w, "insert", todo[w] \ {k})
    BY <1>5 DEF InsertRow
  <2> DEFINE f == [x \in {k} |-> new]
  <2>3. Partial(f, MaybeRow) /\ DOMAIN f = {k}
    BY <1>1 DEF Partial, MaybeRow, Row, CallType
  <2> HIDE DEF f
  <2>4. OwnedHeads(hist, txn'[w]) /\ DOMAIN txn'[w].row = {k} \union DOMAIN txn[w].row
    BY <2>2, <2>3, RowsOwned DEF f
  <2>5. call[w].keys \ todo[w] \subseteq DOMAIN txn[w].row
    BY <2>1 DEF Owning
  <2>6. call[w].op \in SaveOps => todo[w] \subseteq call[w].keys
    BY DEF Owning
  <2>7. CASE todo[w] = {k} /\ Goto(w, "record", call[w].keys)
    BY <2>4, <2>5, <2>7, GotoOwns
  <2>8. CASE Goto(w, "insert", todo[w] \ {k})
    <3>1. call[w].keys \ (todo[w] \ {k}) \subseteq DOMAIN txn'[w].row
      BY <2>4, <2>5
    <3>2. call[w].op \in SaveOps => todo[w] \ {k} \subseteq call[w].keys
      BY <2>6
    <3>3. QED
      BY <2>4, <2>8, <3>1, <3>2, GotoOwns
  <2>9. QED
    BY <2>2, <2>7, <2>8
<1>6. QED
  BY <1>2, <1>3, <1>4, <1>5

\* update() takes its snapshots of rows it locks.
LEMMA UpdateOwns ==
  ASSUME NEW P, IInv(P), NEW w \in Worker, Owning(w), call[w].op # "bulk_update",
         UpdateLocks(w) \/ BulkUpdateLocks(w) \/ BulkUpdateReads(w) \/ UpdateRows(w)
  PROVE  Owning(w)'
<1>1. /\ todo[w] \in SUBSET Key /\ call[w] \in CallType /\ Partial(seen[w], Image)
      /\ DOMAIN seen = Worker
  BY DEF IInv, GoodControl
<1>3. call[w].op = "update" /\ call[w].op \notin SaveOps /\ pc[w] = "lock"
  BY DEF UpdateLocks, BulkUpdateLocks, BulkUpdateReads, UpdateRows, SaveOps
<1>4. DOMAIN seen[w] \subseteq DOMAIN txn[w].row
  BY <1>3 DEF Owning
<1>5. CASE UpdateLocks(w)
  <2>1. PICK k \in LockOrder(todo[w]) :
          /\ \/ /\ VisibleRow(w, k) # Null /\ txn' = Locked(w, k)
                /\ seen' = [seen EXCEPT ![w] =
                     Merge([x \in {k} |-> Snapshot(VisibleRow(w, k))], @)]
             \/ txn' = txn /\ seen' = seen
          /\ Goto(w, "lock", todo[w] \ {k})
    BY <1>5 DEF UpdateLocks, Selected
  <2>2. k \in Key
    BY <1>1 DEF LockOrder, FirstOf
  <2>3. CASE txn' = txn /\ seen' = seen
    BY <1>3, <1>4, <2>1, <2>3, RowsOwned, GotoOwns
  <2>4. CASE /\ VisibleRow(w, k) # Null /\ txn' = Locked(w, k)
             /\ seen' = [seen EXCEPT ![w] =
                  Merge([x \in {k} |-> Snapshot(VisibleRow(w, k))], @)]
    <3>1. DOMAIN seen'[w] = DOMAIN seen[w] \union {k}
      BY <1>1, <2>4 DEF Merge
    <3>2. /\ OwnedHeads(hist, txn'[w]) /\ k \in DOMAIN txn'[w].row
          /\ DOMAIN txn[w].row \subseteq DOMAIN txn'[w].row
      BY <2>2, <2>4, RowsOwned
    <3>3. DOMAIN seen'[w] \subseteq DOMAIN txn'[w].row
      BY <1>4, <3>1, <3>2
    <3>4. QED
      BY <1>3, <2>1, <3>2, <3>3, GotoOwns
  <2>5. QED
    BY <2>1, <2>3, <2>4
<1>6. CASE UpdateRows(w)
  <2> DEFINE hit == {k \in DOMAIN seen[w] : VisibleRow(w, k) # Null}
  <2> DEFINE f == [k \in hit |-> [VisibleRow(w, k) EXCEPT !.val = call[w].val]]
  <2>1. txn' = PutRows(w, f) /\ Goto(w, "record", DOMAIN seen[w])
    BY <1>6 DEF UpdateRows
  <2>2. \A k \in hit : k \in Key /\ VisibleRow(w, k) \in Row
    BY <1>1, VisibleTyped DEF Partial, IInv, MaybeRow
  <2>3. \A k \in hit : f[k] \in Row
    BY <1>1, <2>2 DEF Row, CallType
  <2>4. Partial(f, MaybeRow)
    BY <2>2, <2>3 DEF Partial, MaybeRow
  <2> HIDE DEF f, hit
  <2>5. OwnedHeads(hist, txn'[w]) /\ DOMAIN txn[w].row \subseteq DOMAIN txn'[w].row
    BY <2>1, <2>4, RowsOwned
  <2>6. DOMAIN seen[w] \subseteq DOMAIN txn'[w].row
    BY <1>4, <2>5
  <2>7. QED
    BY <1>3, <2>1, <2>5, <2>6, GotoOwns
<1>7. QED
  BY <1>5, <1>6 DEF BulkUpdateLocks, BulkUpdateReads

\* before_delete() has locked the row its event is about.
LEMMA DeleteOwns ==
  ASSUME NEW P, IInv(P), NEW w \in Worker, Owning(w),
         DeleteLoads(w) \/ DeleteRecords(w) \/ DeleteRows(w)
  PROVE  Owning(w)'
<1>1. todo[w] \in SUBSET Key /\ call[w] \in CallType /\ "delete" \notin SaveOps
  BY DEF IInv, GoodControl, SaveOps
<1>2. CASE DeleteLoads(w)
  <2>1. PICK k \in FirstOf(todo[w]) :
          \/ Raise(w)
          \/ /\ txn' = Locked(w, k)
             /\ Goto(w, "lock", todo[w] \ {k}) \/ Goto(w, "delete", todo[w])
    BY <1>2 DEF DeleteLoads
  <2>2. k \in Key /\ call[w].op = "delete"
    BY <1>1, <1>2 DEF FirstOf, DeleteLoads
  <2>3. ASSUME txn' = Locked(w, k) PROVE OwnedHeads(hist, txn'[w])
    BY <2>2, <2>3, RowsOwned
  <2>4. QED
    BY <1>1, <2>1, <2>2, <2>3, RaiseOwns, GotoOwns
<1>3. CASE DeleteRecords(w)
  <2>1. PICK k \in FirstOf(todo[w]) :
          AppendEvent(w, k, VisibleRow(w, k), "delete", Snapshot(VisibleRow(w, k)), Null, "lock")
    BY <1>3 DEF DeleteRecords
  <2>2. pc[w] = "delete" /\ k \in Key
    BY <1>1, <1>3 DEF DeleteRecords, FirstOf
  <2>3. HoldsRow(txn[w], w, k)
    BY <2>2 DEF IInv, Holds, Held
  <2>4. QED
    BY <2>1, <2>2, <2>3, AppendOwns DEF HoldsRow
<1>4. CASE DeleteRows(w)
  <2> DEFINE hit == {k \in call[w].keys : VisibleRow(w, k) # Null}
  <2> DEFINE f == [k \in hit |-> Null]
  <2>1. call[w].op = "delete" /\ txn' = PutRows(w, f) /\ Goto(w, "record", {})
    BY <1>4 DEF DeleteRows
  <2>2. Partial(f, MaybeRow)
    BY <1>1 DEF Partial, MaybeRow, CallType
  <2> HIDE DEF f, hit
  <2>3. OwnedHeads(hist, txn'[w])
    BY <2>1, <2>2, RowsOwned
  <2>4. QED
    BY <1>1, <2>1, <2>3, GotoOwns
<1>5. QED
  BY <1>2, <1>3, <1>4

\* Each turn of _record_bulk() is about a row that is owned.
LEMMA RecordOwns ==
  ASSUME NEW P, IInv(P), NEW w \in Worker, Owning(w), Record(w)
  PROVE  Owning(w)'
<1>1. todo[w] \in SUBSET Key /\ pc[w] = "record"
  BY DEF Record, IInv, GoodControl
<1>2. PICK k \in RecordOrder(w) :
        \/ Raise(w)
        \/ \E action, before, after :
             AppendEvent(w, k, VisibleRow(w, k), action, before, after, "record")
  BY DEF Record
<1>3. k \in Key /\ k \in DOMAIN txn[w].row
  BY <1>1 DEF RecordOrder, FirstOf, Owning
<1>4. QED
  BY <1>1, <1>2, <1>3, RaiseOwns, AppendOwns

\* A commit leaves nothing owned.
LEMMA FinishOwns ==
  ASSUME NEW P, IInv(P), ScopeInv, NEW w \in Worker, Owning(w), Return(w) \/ CloseBlock(w)
  PROVE  Owning(w)'
<1>1. CASE Return(w)
  <2>1. Ends(w) /\ ((txn' = txn /\ hist' = hist) \/ Commit(w))
    BY <1>1 DEF Return
  <2>2. CASE txn' = txn /\ hist' = hist
    BY <2>1, <2>2, EndsOwns DEF Owning
  <2>3. CASE Commit(w)
    <3>1. txn'[w] = NoLocks
      BY <2>3 DEF Commit, IInv, GoodTxns
    <3>2. QED
      BY <2>1, <3>1, NothingOwned, EndsOwns
  <2>4. QED
    BY <2>1, <2>2, <2>3
<1>2. CASE CloseBlock(w)
  <2>1. /\ pc[w] = "open" /\ pc'[w] = "idle" /\ txn'[w] = NoLocks /\ mark' = mark
        /\ call' = call /\ todo' = todo /\ seen' = seen
    BY <1>2 DEF CloseBlock, Commit, Rollback, IInv, GoodControl, GoodTxns
  <2>2. mark[w] = NoLocks
    BY <2>1 DEF ScopeInv, Orderly, Session
  <2>3. QED
    BY <2>1, <2>2, NothingOwned DEF Owning
<1>3. QED
  BY <1>1, <1>2

\* Without bulk_update() every write appends under the lock of its row.
LEMMA WriteOwns ==
  ASSUME NEW P, IInv(P), ScopeInv, \A v \in Worker : Owning(v), "bulk_update" \notin Ops,
         NEW w \in Worker, Start(w) \/ Step(w) \/ Fail(w)
  PROVE  \A v \in Worker : Owning(v)'
<1>1. Local(w) /\ Owning(w) /\ call[w].op # "bulk_update"
  BY LocalStep DEF Owning
<1>2. Fail(w) => Owning(w)'
  BY <1>1, RaiseOwns DEF Fail
<1>3. Owning(w)'
  BY <1>1, <1>2, StartOwns, SaveOwns, UpdateOwns, DeleteOwns, RecordOwns, FinishOwns DEF Step
<1>4. QED
  BY <1>1, <1>3, OwningStep

\* To begin with nothing is owned.
LEMMA InitOwns == Init => \A w \in Worker : Owning(w)
<1> SUFFICES ASSUME Init, NEW w \in Worker PROVE Owning(w)
  OBVIOUS
<1>1. /\ pc[w] = "idle" /\ call[w].op = "none" /\ seen[w] = Empty
      /\ txn[w] = NoLocks /\ mark[w] = NoLocks
  BY DEF Init, NoCall
<1>2. QED
  BY <1>1, NothingOwned DEF Owning, SaveOps

=============================================================================
