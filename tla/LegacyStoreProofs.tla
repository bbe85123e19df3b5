------------------------- MODULE LegacyStoreProofs --------------------------
(***************************************************************************)
(* Proofs about the stores of the 1.x framework: objects and their         *)
(* versions, scopes and who sees into them, settings, secrets, and the     *)
(* migrations that make their tables.                                      *)
(***************************************************************************)
EXTENDS AuditProofs, ObjectStore, Tenancy, ScopeSettings, SecretVault, Migrations

-----------------------------------------------------------------------------
(* ObjectStore.                                                            *)

AnyData == Data \union {NoData}

ObjEntry == [act : {"create", "update", "delete", "rollback"}, before : 0..MaxVersion,
             after : 0..MaxVersion, old : AnyData, new : AnyData]

ObjCall == [pc : {"idle", "traceCreate", "update", "traceUpdate", "tombstone", "traceDelete",
                  "point", "prune", "traceRollback", "rolled"},
            seen : 0..MaxVersion, data : AnyData, old : AnyData, todo : Seq(Nat), at : 0..MaxTrace]

Rolling == {"point", "prune", "traceRollback", "rolled"}

\* An entry names the versions of its operation.
EntryFits(e) ==
  /\ e \in ObjEntry
  /\ e.act = "create" => e.after = 1 /\ e.new \in Data
  /\ e.act = "update" => e.before >= 1 /\ e.after = e.before + 1 /\ e.new \in Data
  /\ e.act = "delete" => e.before >= 1 /\ e.after = 0

\* So does the call that is about to record it; a rollback has entries to undo.
CallFits(c, n) ==
  /\ c \in ObjCall
  /\ c.pc \in {"update", "traceUpdate"} => c.seen >= 1 /\ c.seen < MaxVersion /\ c.data \in Data
  /\ c.pc \in {"tombstone", "traceDelete"} => c.seen >= 1
  /\ c.pc = "traceCreate" => c.data \in Data
  /\ c.pc \in {"point", "prune", "traceRollback"} => Len(c.todo) >= 1
  /\ \A j \in 1..Len(c.todo) : c.todo[j] \in 1..n

\* The version rows of an object.
RowMaps == UNION {[S -> Data] : S \in SUBSET (1..MaxVersion)}

ObjRow == [life : {"none", "active", "archived"}, current : 0..MaxVersion, rows : RowMaps, tomb : BOOLEAN]

ObjectFits(o) == o \in ObjRow /\ (o.life # "none" => o.current >= 1)

TraceFits(tr) ==
  /\ tr \in Seq(ObjEntry)
  /\ \A i \in 1..Len(tr) : EntryFits(tr[i]) /\ (tr[i].act # "rollback" => i <= MaxTrace)

ObjTyped ==
  /\ ObjectFits(obj) /\ level \in Levels /\ TraceFits(trace)
  /\ call \in [Caller -> ObjCall] /\ \A p \in Caller : CallFits(call[p], Len(trace))
  /\ rollbacks \in Nat
  /\ calm \in [Caller -> BOOLEAN]

\* Nothing is done to an object that is not there yet.
Untouched ==
  obj.life = "none" => DOMAIN obj.rows = {} /\ Len(trace) = 0 /\ \A p \in Caller : call[p].pc = "idle"

\* The row that a call has written is there.
RowOf(c, o) ==
  /\ c.pc = "traceCreate" => 1 \in DOMAIN o.rows /\ o.rows[1] = c.data
  /\ c.pc = "traceUpdate" => c.seen + 1 \in DOMAIN o.rows /\ o.rows[c.seen + 1] = c.data

\* Entry e has its row.
EntryRow(e, o) == e.act # "rollback" /\ (e.after # 0 => e.after \in DOMAIN o.rows /\ o.rows[e.after] = e.new)

\* Before the first rollback no row is ever missing.
Unrolled ==
  rollbacks = 0 =>
    /\ \A p \in Caller : calm[p] = FALSE /\ call[p].pc \notin Rolling /\ RowOf(call[p], obj)
    /\ \A i \in 1..Len(trace) : EntryRow(trace[i], obj)

\* InOrder(m) of a trace.
Ordered(tr, m) ==
  /\ tr[1].act = "create"
  /\ \A i \in 2..m : tr[i].act \in {"update", "delete"} /\ tr[i].before = tr[i - 1].after

\* A rollback c to a time has undone the entries from m down to the one before
\* the head of its list: the pointer stands below that one, and the versions of
\* that time are there.
UndoneFrom(c, tr, o, m) ==
  /\ c.at >= 1 /\ c.at < m /\ m <= Len(tr) /\ c.at + Len(c.todo) <= m
  /\ \A i \in 1..Len(tr) : tr[i].act = "rollback" <=> i > m
  /\ \A j \in 1..Len(c.todo) : c.todo[j] = (c.at + Len(c.todo) + 1) - j
  /\ c.pc = "rolled" <=> Len(c.todo) = 0
  /\ Ordered(tr, m) =>
       /\ \A i \in 1..c.at : tr[i].after \in DOMAIN o.rows /\ o.rows[tr[i].after] = tr[i].new
       /\ c.pc \in {"point", "rolled"} /\ c.at + Len(c.todo) < m => o.current = c.at + Len(c.todo)
       /\ c.pc \in {"prune", "traceRollback"} => o.current + 1 = c.at + Len(c.todo)

Undoing(c, tr, o) == c.at > 0 => \E m \in Nat : UndoneFrom(c, tr, o, m)

\* While nobody disturbs a rollback the others have read at most.
Undisturbed ==
  \A p \in Caller : calm[p] = TRUE =>
    /\ call[p].pc \in Rolling
    /\ \A q \in Caller \ {p} : call[q].pc \in {"idle", "update", "tombstone", "point"}
    /\ Undoing(call[p], trace, obj)

ObjInv == ObjTyped /\ Untouched /\ Unrolled /\ Undisturbed

-----------------------------------------------------------------------------
\* What it is to be the rows of an object.
LEMMA RowMapIs ==
  ASSUME NEW r
  PROVE  r \in RowMaps <=> DOMAIN r \subseteq 1..MaxVersion /\ r \in [DOMAIN r -> Data]
BY DEF RowMaps

\* No object is an object of no version.
LEMMA NoObjectFits == NoObject \in ObjRow /\ ObjectFits(NoObject)
<1>1. NoObject.rows \in RowMaps
  <2>1. [v \in {} |-> NoData] \in RowMaps
    BY RowMapIs
  <2>2. QED
    BY <2>1 DEF NoObject
<1>2. 0 \in 0..MaxVersion
  BY ObjAssumption
<1>3. NoObject.life = "none" /\ NoObject.rows = [v \in {} |-> NoData]
  BY DEF NoObject
<1> DEFINE r == [v \in {} |-> NoData]
<1>4. r \in RowMaps /\ NoObject = [life |-> "none", current |-> 0, rows |-> r, tomb |-> FALSE]
  BY <1>1, <1>3 DEF NoObject
<1> HIDE DEF r
<1>5. NoObject \in ObjRow
  BY <1>2, <1>4 DEF ObjRow
<1>6. QED
  BY <1>3, <1>5 DEF ObjectFits

\* What a call is at first.
LEMMA QuietFits ==
  /\ Quiet \in ObjCall /\ \A n \in Nat : CallFits(Quiet, n)
  /\ Quiet.pc = "idle" /\ Quiet.seen = 0 /\ Quiet.data = NoData /\ Quiet.old = NoData
  /\ Quiet.todo = <<>> /\ Quiet.at = 0
<1>1. <<>> \in Seq(Nat) /\ Len(<<>>) = 0
  OBVIOUS
<1>2. Quiet \in ObjCall
  BY <1>1, ObjAssumption DEF Quiet, ObjCall, AnyData
<1>3. QED
  BY <1>1, <1>2 DEF CallFits, Quiet

\* Nothing is there at first.
LEMMA ObjStart == ObjInit => ObjInv
<1> SUFFICES ASSUME ObjInit PROVE ObjInv
  OBVIOUS
<1>num. MaxVersion \in Nat /\ MaxVersion >= 1 /\ MaxTrace \in Nat
  BY ObjAssumption
<1>1. obj.life = "none" /\ obj.current = 0 /\ obj.tomb = FALSE /\ DOMAIN obj.rows = {} /\ obj.rows = [v \in {} |-> NoData]
  BY DEF ObjInit, NoObject
<1>2. ObjectFits(obj)
  BY <1>1, NoObjectFits DEF ObjInit
<1>3. trace = <<>> /\ Len(trace) = 0 /\ TraceFits(trace)
  BY DEF ObjInit, TraceFits
<1>4. CallFits(Quiet, 0) /\ Quiet.pc = "idle"
  BY QuietFits
<1>5. call \in [Caller -> ObjCall] /\ \A p \in Caller : call[p] = Quiet
  BY <1>4 DEF ObjInit, CallFits
<1>6. calm \in [Caller -> BOOLEAN] /\ \A p \in Caller : calm[p] = FALSE
  BY DEF ObjInit
<1>7. ObjTyped
  BY <1>2, <1>3, <1>4, <1>5, <1>6 DEF ObjTyped, ObjInit
<1>8. Untouched
  BY <1>1, <1>3, <1>4, <1>5 DEF Untouched
<1>9. Unrolled
  BY <1>3, <1>4, <1>5, <1>6 DEF Unrolled, Rolling, RowOf
<1>10. Undisturbed
  BY <1>6 DEF Undisturbed
<1>11. QED
  BY <1>7, <1>8, <1>9, <1>10 DEF ObjInv

\* In a trace in order entry i wrote version i, and only the last is a delete.
LEMMA OrderedVersions ==
  ASSUME NEW tr \in Seq(ObjEntry), NEW m \in Nat, m <= Len(tr), m >= 1, Ordered(tr, m),
         \A i \in 1..Len(tr) : EntryFits(tr[i])
  PROVE  \A i \in 1..m : /\ tr[i].act = "delete" => i = m /\ tr[i].after = 0
                         /\ tr[i].act # "delete" => tr[i].after = i /\ tr[i].new \in Data
                         /\ i > 1 => tr[i].before = i - 1
<1> DEFINE Bad == {i \in 1..m : ~(tr[i].act = "delete" \/ tr[i].after = i)}
<1>0. Len(tr) \in Nat /\ \A i \in 1..m : i \in 1..Len(tr) /\ i \in Nat
  OBVIOUS
<1>1. ASSUME NEW i \in 1..m, i # m PROVE tr[i].act # "delete"
  <2>1. i + 1 \in 2..m /\ i + 1 \in 1..Len(tr) /\ (i + 1) - 1 = i
    BY <1>0, <1>1
  <2>2. tr[i + 1].act \in {"update", "delete"} /\ tr[i + 1].before = tr[i].after
    BY <2>1 DEF Ordered
  <2>3. tr[i + 1].before >= 1
    BY <2>1, <2>2 DEF EntryFits
  <2>4. tr[i].act = "delete" => tr[i].after = 0
    BY <1>0 DEF EntryFits
  <2>5. QED
    BY <2>2, <2>3, <2>4
<1>2. Bad = {}
  <2> SUFFICES ASSUME Bad # {} PROVE FALSE
    OBVIOUS
  <2>1. Bad \in SUBSET Nat
    OBVIOUS
  <2>2. PICK b \in Bad : \A n \in Bad : b <= n
    BY <2>1, LeastNatural
  <2>3. b \in 1..m /\ tr[b].act # "delete" /\ tr[b].after # b /\ b \in Nat
    OBVIOUS
  <2>4. b # 1
    BY <2>3, <1>0 DEF Ordered, EntryFits
  <2>5. b - 1 \in 1..m /\ b \in 2..m /\ b - 1 # m /\ b - 1 < b /\ (b - 1) + 1 = b
    BY <2>3, <2>4
  <2>6. b - 1 \notin Bad
    BY <2>2, <2>3, <2>5
  <2>7. tr[b - 1].after = b - 1
    BY <1>1, <2>5, <2>6
  <2>8. tr[b].act = "update" /\ tr[b].before = b - 1
    BY <2>3, <2>5, <2>7 DEF Ordered
  <2>9. tr[b].after = tr[b].before + 1
    BY <1>0, <2>3, <2>8 DEF EntryFits
  <2>10. QED
    BY <2>3, <2>5, <2>8, <2>9
<1>3. ASSUME NEW i \in 1..m, i > 1 PROVE tr[i].before = i - 1
  <2>1. i \in 2..m /\ i - 1 \in 1..m /\ i - 1 # m
    BY <1>3
  <2>2. tr[i - 1].after = i - 1
    BY <1>1, <1>2, <2>1
  <2>3. QED
    BY <2>1, <2>2 DEF Ordered
<1>4. ASSUME NEW i \in 1..m, tr[i].act # "delete" PROVE tr[i].after = i /\ tr[i].new \in Data
  <2>1. tr[i].after = i
    BY <1>2, <1>4
  <2>2. tr[i].act \in {"create", "update"}
    <3>1. CASE i = 1
      BY <3>1 DEF Ordered
    <3>2. CASE i # 1
      <4>1. i \in 2..m
        BY <3>2
      <4>2. QED
        BY <4>1, <1>4 DEF Ordered
    <3>3. QED
      BY <3>1, <3>2
  <2>3. QED
    BY <1>0, <2>1, <2>2 DEF EntryFits
<1>5. ASSUME NEW i \in 1..m, tr[i].act = "delete" PROVE i = m /\ tr[i].after = 0
  BY <1>0, <1>1, <1>5 DEF EntryFits
<1>6. QED
  BY <1>3, <1>4, <1>5

\* What the inductive invariant says of the properties.
LEMMA ObjHolds == ObjInv => ObjTypeOK /\ RestoresContent
<1> SUFFICES ASSUME ObjInv PROVE ObjTypeOK /\ RestoresContent
  OBVIOUS
<1>1. ObjTypeOK
  <2>1. obj.life \in {"none", "active", "archived"} /\ obj.current \in 0..MaxVersion /\ obj.rows \in RowMaps
    BY DEF ObjInv, ObjTyped, ObjectFits, ObjRow
  <2>2. DOMAIN obj.rows \subseteq 1..MaxVersion /\ obj.rows \in [DOMAIN obj.rows -> Data]
    BY <2>1, RowMapIs
  <2>3. QED
    BY <2>1, <2>2 DEF ObjInv, ObjTyped, TraceFits, ObjTypeOK, Versions
<1>2. ASSUME NEW p \in Caller, call[p].pc = "rolled", calm[p], call[p].at > 0,
             InOrder(Cardinality({i \in 1..Len(trace) : trace[i].act # "rollback"}))
      PROVE DataAt(obj.current) = Reconstructed(call[p].at)
  <2> DEFINE T == call[p].at
             N == {i \in 1..Len(trace) : trace[i].act # "rollback"}
  <2>0. trace \in Seq(ObjEntry) /\ Len(trace) \in Nat /\ call[p] \in ObjCall /\ T \in Nat /\ \A i \in 1..Len(trace) : EntryFits(trace[i])
    <3>1. call[p] \in ObjCall /\ trace \in Seq(ObjEntry) /\ \A i \in 1..Len(trace) : EntryFits(trace[i])
      BY DEF ObjInv, ObjTyped, TraceFits
    <3>2. T \in Nat
      BY <3>1, ObjAssumption DEF ObjCall
    <3>3. QED
      BY <3>1, <3>2
  <2>1. PICK m \in Nat : UndoneFrom(call[p], trace, obj, m)
    <3>1. calm[p] = TRUE
      BY <1>2 DEF ObjInv, ObjTyped
    <3>2. QED
      BY <1>2, <3>1 DEF ObjInv, Undisturbed, Undoing
  <2>2. /\ T >= 1 /\ T < m /\ m <= Len(trace) /\ Len(call[p].todo) = 0
        /\ \A i \in 1..Len(trace) : trace[i].act = "rollback" <=> i > m
    BY <1>2, <2>1 DEF UndoneFrom
  <2>3. N = 1..m /\ Cardinality(N) = m
    <3>1. N = 1..m
      BY <2>0, <2>2
    <3>2. Cardinality(1..m) = m
      BY FS_Interval
    <3>3. QED
      BY <3>1, <3>2
  <2>4. Ordered(trace, m)
    BY <1>2, <2>3 DEF InOrder, Ordered
  <2>5. obj.current = T /\ \A i \in 1..T : trace[i].after \in DOMAIN obj.rows /\ obj.rows[trace[i].after] = trace[i].new
    <3>1. T + Len(call[p].todo) = T
      BY <2>0, <2>2
    <3>2. QED
      BY <1>2, <2>1, <2>2, <2>4, <3>1 DEF UndoneFrom
  <2>6. T \in 1..m /\ T # m /\ T \in 1..T /\ T \in 1..Len(trace)
    BY <2>0, <2>2
  <2>7. trace[T].after = T /\ trace[T].new \in Data
    <3>1. m >= 1
      BY <2>0, <2>2
    <3>2. QED
      BY <2>0, <2>2, <2>4, <2>6, <3>1, OrderedVersions
  <2>8. DataAt(obj.current) = trace[T].new
    BY <2>5, <2>6, <2>7 DEF DataAt, Versions
  <2> DEFINE known == {i \in 1..T : trace[i].new # NoData}
             last == CHOOSE i \in known : \A j \in known : j <= i
  <2> HIDE DEF T, N
  <2>9. T \in known /\ \A j \in known : j <= T
    BY <2>0, <2>6, <2>7, ObjAssumption
  <2>10. last \in known /\ \A j \in known : j <= last
    BY <2>9
  <2>11. last = T
    <3>1. last \in Nat /\ last <= T /\ T <= last
      BY <2>0, <2>9, <2>10
    <3> HIDE DEF last
    <3>2. QED
      BY <2>0, <3>1
  <2>12. Reconstructed(T) = trace[T].new
    BY <2>9, <2>11 DEF Reconstructed
  <2>13. QED
    BY <2>8, <2>12 DEF T
<1>3. QED
  BY <1>1, <1>2 DEF RestoresContent

-----------------------------------------------------------------------------
\* One caller moves.
LEMMA OneCaller ==
  ASSUME ObjTyped, NEW p \in Caller, NEW c, NEW n \in Nat, Len(trace) <= n, CallFits(c, n),
         call' = [call EXCEPT ![p] = c]
  PROVE  /\ call' \in [Caller -> ObjCall] /\ call'[p] = c
         /\ \A q \in Caller \ {p} : call'[q] = call[q]
         /\ \A q \in Caller : CallFits(call'[q], n)
<1>1. c \in ObjCall
  BY DEF CallFits
<1>2. call' \in [Caller -> ObjCall] /\ call'[p] = c /\ \A q \in Caller \ {p} : call'[q] = call[q]
  BY <1>1 DEF ObjTyped
<1>3. ASSUME NEW q \in Caller \ {p} PROVE CallFits(call[q], n)
  <2>1. CallFits(call[q], Len(trace)) /\ call[q] \in ObjCall /\ Len(trace) \in Nat
    BY DEF ObjTyped, TraceFits
  <2>2. Len(call[q].todo) \in Nat
    BY <2>1 DEF ObjCall
  <2>3. \A j \in 1..Len(call[q].todo) : call[q].todo[j] \in 1..n
    BY <2>1, <2>2 DEF CallFits
  <2>4. QED
    BY <2>1, <2>3 DEF CallFits
<1>4. QED
  BY <1>2, <1>3

\* A call that only reads, or ends.
LEMMA MovesQuietly ==
  ASSUME ObjInv, NEW p \in Caller, NEW c, CallFits(c, Len(trace)), c.pc \in {"idle", "update", "tombstone"},
         call' = [call EXCEPT ![p] = c], UNCHANGED <<obj, level, trace, rollbacks>>, obj.life # "none",
         calm' \in [Caller -> BOOLEAN], calm'[p] = FALSE, \A q \in Caller \ {p} : calm'[q] = calm[q]
  PROVE  ObjInv' /\ KeepsVersions
<1>1. Len(trace) \in Nat /\ Len(trace) <= Len(trace)
  BY DEF ObjInv, ObjTyped, TraceFits
<1>2. /\ call' \in [Caller -> ObjCall] /\ call'[p] = c
      /\ \A q \in Caller \ {p} : call'[q] = call[q]
      /\ \A q \in Caller : CallFits(call'[q], Len(trace))
  BY <1>1, OneCaller DEF ObjInv
<1>3. ObjTyped'
  BY <1>2 DEF ObjInv, ObjTyped
<1>4. Untouched'
  BY DEF Untouched
<1>5. Unrolled'
  <2> SUFFICES ASSUME rollbacks = 0 PROVE (/\ \A q \in Caller : calm[q] = FALSE /\ call[q].pc \notin Rolling /\ RowOf(call[q], obj)
                                           /\ \A i \in 1..Len(trace) : EntryRow(trace[i], obj))'
    BY DEF Unrolled
  <2>1. RowOf(c, obj) /\ c.pc \notin Rolling
    BY DEF RowOf, Rolling
  <2>2. QED
    BY <1>2, <2>1 DEF ObjInv, Unrolled
<1>6. Undisturbed'
  <2> SUFFICES ASSUME NEW q \in Caller, calm'[q] = TRUE
               PROVE (/\ call[q].pc \in Rolling
                      /\ \A r \in Caller \ {q} : call[r].pc \in {"idle", "update", "tombstone", "point"}
                      /\ Undoing(call[q], trace, obj))'
    BY DEF Undisturbed
  <2>1. q # p /\ calm[q] = TRUE
    OBVIOUS
  <2>2. /\ call[q].pc \in Rolling
        /\ \A r \in Caller \ {q} : call[r].pc \in {"idle", "update", "tombstone", "point"}
        /\ Undoing(call[q], trace, obj)
    BY <2>1 DEF ObjInv, Undisturbed
  <2>3. QED
    BY <1>2, <2>1, <2>2
<1>7. KeepsVersions
  BY DEF KeepsVersions, Versions
<1>8. QED
  BY <1>3, <1>4, <1>5, <1>6, <1>7 DEF ObjInv

\* A step after which no rollback is undisturbed.
LEMMA NoneCalm ==
  ASSUME calm' \in [Caller -> BOOLEAN], \A q \in Caller : calm'[q] = FALSE
  PROVE  Undisturbed'
BY DEF Undisturbed

\* Whoever is not in a rollback has no undisturbed one.
LEMMA NotCalm == ASSUME ObjInv, NEW p \in Caller, call[p].pc \notin Rolling PROVE calm[p] = FALSE
BY DEF ObjInv, ObjTyped, Undisturbed

\* A step with which somebody else writes disturbs every rollback.
LEMMA AllDisturbed ==
  ASSUME ObjInv, NEW p \in Caller, call[p].pc \notin Rolling, Disturbs(p)
  PROVE  calm' \in [Caller -> BOOLEAN] /\ \A q \in Caller : calm'[q] = FALSE
<1>1. calm[p] = FALSE
  BY NotCalm
<1>2. QED
  BY <1>1 DEF Disturbs, ObjInv, ObjTyped

\* create().
LEMMA CreateKeeps == ASSUME ObjInv, NEW d \in Data, CreateObject(d) PROVE ObjInv' /\ KeepsVersions
<1> DEFINE c == [Quiet EXCEPT !.pc = "traceCreate", !.data = d]
           o == [NoObject EXCEPT !.life = "active", !.current = 1, !.rows = [v \in {1} |-> d]]
<1>1. /\ obj.life = "none" /\ obj' = o /\ call' = [call EXCEPT ![Owner] = c]
      /\ UNCHANGED <<level, trace, rollbacks, calm>>
  BY DEF CreateObject
<1>2. DOMAIN obj.rows = {} /\ Len(trace) = 0 /\ \A p \in Caller : call[p].pc = "idle"
  BY <1>1 DEF ObjInv, Untouched
<1>3. Len(trace) \in Nat /\ Len(trace) <= Len(trace) /\ Owner \in Caller
  BY <1>2 DEF Caller
<1>4. c \in ObjCall /\ c.pc = "traceCreate" /\ c.data = d /\ c.todo = <<>>
  <2>1. d \in AnyData
    BY DEF AnyData
  <2>2. QED
    BY <2>1, QuietFits DEF ObjCall
<1> HIDE DEF c
<1>5. CallFits(c, Len(trace))
  <2>1. <<>> \in Seq(Nat) /\ Len(<<>>) = 0
    OBVIOUS
  <2>2. QED
    BY <1>4, <2>1 DEF CallFits
<1> DEFINE r == [v \in {1} |-> d]
<1>6. DOMAIN r = {1} /\ r[1] = d /\ r \in RowMaps
  <2>1. DOMAIN r = {1} /\ r[1] = d /\ r \in [{1} -> Data]
    OBVIOUS
  <2>2. {1} \subseteq 1..MaxVersion
    BY ObjAssumption
  <2>3. QED
    BY <2>1, <2>2, RowMapIs
<1>7. o = [NoObject EXCEPT !.life = "active", !.current = 1, !.rows = r]
  OBVIOUS
<1> HIDE DEF o, r
<1>8. ObjectFits(o) /\ o.life = "active" /\ o.rows = r
  <2>1. 1 \in 0..MaxVersion
    BY ObjAssumption
  <2>2. o \in ObjRow /\ o.life = "active" /\ o.rows = r /\ o.current = 1
    BY <1>6, <1>7, <2>1, NoObjectFits DEF ObjRow
  <2>3. QED
    BY <2>2 DEF ObjectFits
<1>9. /\ call' \in [Caller -> ObjCall] /\ call'[Owner] = c
      /\ \A q \in Caller \ {Owner} : call'[q] = call[q]
      /\ \A q \in Caller : CallFits(call'[q], Len(trace))
  BY <1>1, <1>3, <1>5, OneCaller DEF ObjInv
<1>10. ObjTyped'
  BY <1>1, <1>8, <1>9 DEF ObjInv, ObjTyped
<1>11. Untouched'
  BY <1>1, <1>8 DEF Untouched
<1>12. \A q \in Caller : calm[q] = FALSE
  BY <1>2, NotCalm DEF Rolling
<1>13. Unrolled'
  <2>1. RowOf(c, o) /\ c.pc = "traceCreate"
    BY <1>4, <1>6, <1>8 DEF RowOf
  <2>2. \A q \in Caller \ {Owner} : RowOf(call[q], o) /\ call[q].pc = "idle"
    BY <1>2 DEF RowOf
  <2>3. QED
    BY <1>1, <1>2, <1>9, <1>12, <2>1, <2>2 DEF Unrolled, Rolling
<1>14. Undisturbed'
  BY <1>1, <1>12 DEF Undisturbed
<1>15. KeepsVersions
  BY <1>2 DEF KeepsVersions, Versions
<1>16. QED
  BY <1>10, <1>11, <1>13, <1>14, <1>15 DEF ObjInv

\* update() and tombstone() before they write.
LEMMA ReadsKeep ==
  ASSUME ObjInv, NEW p \in Caller, (\E d \in Data : UpdateReads(p, d)) \/ TombstoneReads(p)
  PROVE  ObjInv' /\ KeepsVersions
<1>0. Len(trace) \in Nat /\ call[p] \in ObjCall
  BY DEF ObjInv, ObjTyped, TraceFits
<1>1. calm[p] = FALSE /\ obj.life # "none" /\ call[p].pc = "idle"
  <2>1. call[p].pc = "idle" /\ obj.life # "none"
    BY DEF UpdateReads, TombstoneReads, CanSee
  <2>2. QED
    BY <2>1, NotCalm DEF Rolling
<1>2. obj.current \in 0..MaxVersion /\ obj.current >= 1 /\ DataAt(obj.current) \in AnyData
  <2>1. obj.current \in 0..MaxVersion /\ obj.current >= 1 /\ obj.rows \in RowMaps
    BY <1>1 DEF ObjInv, ObjTyped, ObjectFits, ObjRow
  <2>2. obj.rows \in [DOMAIN obj.rows -> Data]
    BY <2>1, RowMapIs
  <2>3. QED
    BY <2>1, <2>2 DEF DataAt, AnyData, Versions
<1>3. UNCHANGED <<obj, level, trace, rollbacks, calm>>
  BY DEF UpdateReads, TombstoneReads
<1>4. calm' \in [Caller -> BOOLEAN] /\ calm'[p] = FALSE /\ \A q \in Caller \ {p} : calm'[q] = calm[q]
  BY <1>1, <1>3 DEF ObjInv, ObjTyped
<1> DEFINE v == obj.current
           x == DataAt(obj.current)
<1>5. ASSUME NEW d \in Data, UpdateReads(p, d) PROVE ObjInv' /\ KeepsVersions
  <2> DEFINE c == [Quiet EXCEPT !.pc = "update", !.seen = v, !.data = d, !.old = x]
  <2>1. call' = [call EXCEPT ![p] = c] /\ v < MaxVersion
    BY <1>5 DEF UpdateReads
  <2>2. d \in AnyData
    BY DEF AnyData
  <2> HIDE DEF v, x
  <2>3. v \in 0..MaxVersion /\ v >= 1 /\ x \in AnyData
    BY <1>2 DEF v, x
  <2>4. c \in ObjCall /\ c.pc = "update" /\ c.seen = v /\ c.data = d /\ c.todo = <<>>
    BY <2>2, <2>3, QuietFits DEF ObjCall
  <2> HIDE DEF c
  <2>5. CallFits(c, Len(trace))
    BY <2>1, <2>3, <2>4 DEF CallFits
  <2>6. QED
    BY <1>1, <1>3, <1>4, <2>1, <2>4, <2>5, MovesQuietly
<1>6. CASE TombstoneReads(p)
  <2> DEFINE c == [Quiet EXCEPT !.pc = "tombstone", !.seen = v, !.old = x]
  <2>1. call' = [call EXCEPT ![p] = c]
    BY <1>6 DEF TombstoneReads
  <2> HIDE DEF v, x
  <2>3. v \in 0..MaxVersion /\ v >= 1 /\ x \in AnyData
    BY <1>2 DEF v, x
  <2>4. c \in ObjCall /\ c.pc = "tombstone" /\ c.seen = v /\ c.todo = <<>>
    BY <2>3, QuietFits DEF ObjCall
  <2> HIDE DEF c
  <2>5. CallFits(c, Len(trace))
    BY <2>1, <2>3, <2>4 DEF CallFits
  <2>6. QED
    BY <1>1, <1>3, <1>4, <2>1, <2>4, <2>5, MovesQuietly
<1>7. QED
  BY <1>5, <1>6

\* A call that ends without having changed anything.
LEMMA EndsKeep ==
  ASSUME ObjInv, NEW p \in Caller, call' = [call EXCEPT ![p] = Quiet], call[p].pc # "idle",
         UNCHANGED <<obj, level, trace, rollbacks>>,
         calm' = [calm EXCEPT ![p] = FALSE] \/ (calm' = calm /\ call[p].pc \notin Rolling)
  PROVE  ObjInv' /\ KeepsVersions
<1>1. obj.life # "none" /\ Len(trace) \in Nat
  BY DEF ObjInv, Untouched, ObjTyped, TraceFits
<1>2. calm \in [Caller -> BOOLEAN]
  BY DEF ObjInv, ObjTyped
<1>3. calm' \in [Caller -> BOOLEAN] /\ calm'[p] = FALSE /\ \A q \in Caller \ {p} : calm'[q] = calm[q]
  <2>1. CASE calm' = [calm EXCEPT ![p] = FALSE]
    BY <1>2, <2>1
  <2>2. CASE calm' = calm /\ call[p].pc \notin Rolling
    BY <1>2, <2>2, NotCalm
  <2>3. QED
    BY <2>1, <2>2
<1>4. CallFits(Quiet, Len(trace)) /\ Quiet.pc \in {"idle", "update", "tombstone"}
  BY <1>1, QuietFits
<1>5. QED
  BY <1>1, <1>3, <1>4, MovesQuietly

\* A call that has written the object and is to record it.
LEMMA WritesKeep ==
  ASSUME ObjInv, NEW p \in Caller, NEW o, NEW c, obj' = o, call' = [call EXCEPT ![p] = c],
         call[p].pc \notin Rolling, Disturbs(p), UNCHANGED <<level, trace, rollbacks>>,
         ObjectFits(o), CallFits(c, Len(trace)), c.pc \notin Rolling, o.life # "none",
         DOMAIN obj.rows \subseteq DOMAIN o.rows, \A v \in DOMAIN obj.rows : o.rows[v] = obj.rows[v],
         RowOf(c, o)
  PROVE  ObjInv' /\ KeepsVersions
<1>1. Len(trace) \in Nat /\ Len(trace) <= Len(trace)
  BY DEF ObjInv, ObjTyped, TraceFits
<1>2. /\ call' \in [Caller -> ObjCall] /\ call'[p] = c
      /\ \A q \in Caller \ {p} : call'[q] = call[q]
      /\ \A q \in Caller : CallFits(call'[q], Len(trace))
  BY <1>1, OneCaller DEF ObjInv
<1>3. calm' \in [Caller -> BOOLEAN] /\ \A q \in Caller : calm'[q] = FALSE
  BY AllDisturbed
<1>4. ObjTyped'
  BY <1>2, <1>3 DEF ObjInv, ObjTyped
<1>5. Untouched'
  BY DEF Untouched
<1>6. Unrolled'
  <2> SUFFICES ASSUME rollbacks = 0 PROVE (/\ \A q \in Caller : calm[q] = FALSE /\ call[q].pc \notin Rolling /\ RowOf(call[q], obj)
                                           /\ \A i \in 1..Len(trace) : EntryRow(trace[i], obj))'
    BY DEF Unrolled
  <2>1. /\ \A q \in Caller : call[q].pc \notin Rolling /\ RowOf(call[q], obj)
        /\ \A i \in 1..Len(trace) : EntryRow(trace[i], obj)
    BY DEF ObjInv, Unrolled
  <2>2. \A q \in Caller : RowOf(call[q], o)
    BY <2>1 DEF RowOf
  <2>3. \A i \in 1..Len(trace) : EntryRow(trace[i], o)
    BY <2>1 DEF EntryRow
  <2>4. QED
    BY <1>2, <1>3, <2>1, <2>2, <2>3
<1>7. Undisturbed'
  BY <1>3, NoneCalm
<1>8. KeepsVersions
  BY DEF KeepsVersions, Versions
<1>9. QED
  BY <1>4, <1>5, <1>6, <1>7, <1>8 DEF ObjInv

\* A step of a call to its next statement.
LEMMA PcMoves ==
  ASSUME NEW c \in ObjCall, NEW a \in {"traceUpdate", "traceDelete", "prune", "traceRollback"}
  PROVE  /\ [c EXCEPT !.pc = a] \in ObjCall /\ [c EXCEPT !.pc = a].pc = a
         /\ [c EXCEPT !.pc = a].seen = c.seen /\ [c EXCEPT !.pc = a].data = c.data
         /\ [c EXCEPT !.pc = a].todo = c.todo /\ [c EXCEPT !.pc = a].at = c.at
BY DEF ObjCall

\* update() writes.
LEMMA UpdateKeeps == ASSUME ObjInv, NEW p \in Caller, UpdateWrites(p) PROVE ObjInv' /\ KeepsVersions
<1> DEFINE v == call[p].seen + 1
<1>1. call[p] \in ObjCall /\ CallFits(call[p], Len(trace)) /\ call[p].pc = "update" /\ obj.life # "none"
  BY DEF ObjInv, ObjTyped, UpdateWrites, Untouched
<1>2. call[p].seen >= 1 /\ call[p].seen < MaxVersion /\ call[p].data \in Data /\ call[p].seen \in Nat
  BY <1>1, ObjAssumption DEF CallFits, ObjCall
<1>3. v \in 1..MaxVersion /\ v \in 0..MaxVersion /\ v >= 1
  BY <1>2, ObjAssumption
<1>4. UNCHANGED <<level, trace, rollbacks>>
  BY DEF UpdateWrites
<1>5. CASE ~VersionFree(v)
  <2>1. call' = [call EXCEPT ![p] = Quiet] /\ UNCHANGED <<obj, calm>>
    BY <1>5 DEF UpdateWrites
  <2>2. call[p].pc \notin Rolling /\ call[p].pc # "idle"
    BY <1>1 DEF Rolling
  <2>3. QED
    BY <1>4, <2>1, <2>2, EndsKeep
<1>6. CASE VersionFree(v)
  <2> DEFINE d == call[p].data
             R == [w \in DOMAIN obj.rows \union {v} |-> IF w = v THEN d ELSE obj.rows[w]]
             o == [obj EXCEPT !.current = v, !.rows = R]
             c == [call[p] EXCEPT !.pc = "traceUpdate"]
  <2>1. obj' = o /\ call' = [call EXCEPT ![p] = c] /\ Disturbs(p) /\ v \notin DOMAIN obj.rows
    BY <1>6 DEF UpdateWrites, Versions, VersionFree
  <2>2. obj \in ObjRow /\ obj.rows \in RowMaps
    BY DEF ObjInv, ObjTyped, ObjectFits, ObjRow
  <2>3. DOMAIN obj.rows \subseteq 1..MaxVersion /\ obj.rows \in [DOMAIN obj.rows -> Data]
    BY <2>2, RowMapIs
  <2> HIDE DEF v
  <2>4. DOMAIN R = DOMAIN obj.rows \union {v} /\ R[v] = d /\ \A w \in DOMAIN obj.rows : R[w] = obj.rows[w]
    BY <2>1
  <2>5. R \in RowMaps
    <3>1. R \in [DOMAIN R -> Data]
      BY <1>2, <2>3
    <3>2. DOMAIN R \subseteq 1..MaxVersion
      BY <1>3, <2>3
    <3>3. QED
      BY <3>1, <3>2, RowMapIs
  <2> HIDE DEF R
  <2>6. o \in ObjRow /\ o.life = obj.life /\ o.current = v /\ o.rows = R
    BY <1>3, <2>2, <2>5 DEF ObjRow
  <2>7. ObjectFits(o) /\ o.life # "none"
    BY <1>1, <1>3, <2>6 DEF ObjectFits
  <2>8. c \in ObjCall /\ c.pc = "traceUpdate" /\ c.seen = call[p].seen /\ c.data = d /\ c.todo = call[p].todo
    BY <1>1, PcMoves
  <2> HIDE DEF o, c
  <2>9. CallFits(c, Len(trace))
    BY <1>1, <1>2, <2>8 DEF CallFits
  <2>10. RowOf(c, o)
    BY <2>4, <2>6, <2>8 DEF RowOf, v
  <2>11. c.pc \notin Rolling /\ call[p].pc \notin Rolling
    BY <1>1, <2>8 DEF Rolling
  <2>12. DOMAIN obj.rows \subseteq DOMAIN o.rows /\ \A w \in DOMAIN obj.rows : o.rows[w] = obj.rows[w]
    BY <2>4, <2>6
  <2>13. QED
    BY <1>4, <2>1, <2>7, <2>9, <2>10, <2>11, <2>12, WritesKeep
<1>7. QED
  BY <1>5, <1>6

\* tombstone() writes.
LEMMA TombstoneKeeps == ASSUME ObjInv, NEW p \in Caller, TombstoneWrites(p) PROVE ObjInv' /\ KeepsVersions
<1>1. call[p] \in ObjCall /\ CallFits(call[p], Len(trace)) /\ call[p].pc = "tombstone" /\ obj.life # "none"
  BY DEF ObjInv, ObjTyped, TombstoneWrites, Untouched
<1>2. call[p].pc \notin Rolling /\ call[p].pc # "idle" /\ UNCHANGED <<level, trace, rollbacks>>
  BY <1>1 DEF Rolling, TombstoneWrites
<1>3. CASE obj.tomb
  BY <1>2, <1>3, EndsKeep DEF TombstoneWrites
<1>4. CASE ~obj.tomb
  <2> DEFINE o == [obj EXCEPT !.life = "archived", !.tomb = TRUE]
             c == [call[p] EXCEPT !.pc = "traceDelete"]
  <2>1. obj' = o /\ call' = [call EXCEPT ![p] = c] /\ Disturbs(p)
    BY <1>4 DEF TombstoneWrites
  <2>2. obj \in ObjRow /\ obj.current >= 1
    BY <1>1 DEF ObjInv, ObjTyped, ObjectFits
  <2>3. o \in ObjRow /\ o.life = "archived" /\ o.current = obj.current /\ o.rows = obj.rows
    BY <2>2 DEF ObjRow
  <2>4. c \in ObjCall /\ c.pc = "traceDelete" /\ c.seen = call[p].seen /\ c.todo = call[p].todo
    BY <1>1, PcMoves
  <2> HIDE DEF o, c
  <2>5. ObjectFits(o) /\ o.life # "none"
    BY <2>2, <2>3 DEF ObjectFits
  <2>6. CallFits(c, Len(trace))
    BY <1>1, <2>4 DEF CallFits
  <2>7. RowOf(c, o) /\ c.pc \notin Rolling
    BY <2>4 DEF RowOf, Rolling
  <2>8. DOMAIN obj.rows \subseteq DOMAIN o.rows /\ \A w \in DOMAIN obj.rows : o.rows[w] = obj.rows[w]
    BY <2>3
  <2>9. QED
    BY <1>2, <2>1, <2>5, <2>6, <2>7, <2>8, WritesKeep
<1>5. QED
  BY <1>3, <1>4

\* One more entry.
LEMMA TraceExtends ==
  ASSUME NEW tr, TraceFits(tr), NEW e, EntryFits(e), e.act # "rollback" => Len(tr) < MaxTrace
  PROVE  /\ TraceFits(Append(tr, e)) /\ Len(tr) \in Nat /\ Len(Append(tr, e)) = Len(tr) + 1
         /\ Append(tr, e)[Len(tr) + 1] = e /\ \A i \in 1..Len(tr) : Append(tr, e)[i] = tr[i]
<1> DEFINE u == Append(tr, e)
<1>1. tr \in Seq(ObjEntry) /\ e \in ObjEntry /\ Len(tr) \in Nat
  BY DEF TraceFits, EntryFits
<1>2. u \in Seq(ObjEntry) /\ Len(u) = Len(tr) + 1 /\ u[Len(tr) + 1] = e /\ \A i \in 1..Len(tr) : u[i] = tr[i]
  BY <1>1
<1> HIDE DEF u
<1>3. ASSUME NEW i \in 1..Len(u) PROVE EntryFits(u[i]) /\ (u[i].act # "rollback" => i <= MaxTrace)
  <2>1. CASE i = Len(tr) + 1
    BY <1>1, <1>2, <2>1, ObjAssumption
  <2>2. CASE i # Len(tr) + 1
    <3>1. i \in 1..Len(tr)
      BY <1>1, <1>2, <2>2
    <3>2. QED
      BY <1>2, <3>1 DEF TraceFits
  <2>3. QED
    BY <2>1, <2>2
<1>4. TraceFits(u)
  BY <1>2, <1>3 DEF TraceFits
<1>5. QED
  BY <1>1, <1>2, <1>4 DEF u

\* The entry of an operation has its row where the operation has written it.
LEMMA EntryRecords ==
  ASSUME NEW c, NEW n, CallFits(c, n), c.pc \in {"traceCreate", "traceUpdate", "traceDelete"}
  PROVE  EntryFits(EntryOf(c)) /\ \A o : RowOf(c, o) => EntryRow(EntryOf(c), o)
<1> DEFINE e == EntryOf(c)
<1>0. c \in ObjCall /\ c.seen \in 0..MaxVersion /\ c.seen \in Nat /\ c.data \in AnyData /\ c.old \in AnyData /\ NoData \in AnyData
  <2>1. c \in ObjCall
    BY DEF CallFits
  <2>2. c.seen \in 0..MaxVersion /\ c.data \in AnyData /\ c.old \in AnyData
    BY <2>1 DEF ObjCall
  <2>3. QED
    BY <2>1, <2>2, ObjAssumption DEF AnyData
<1>1. CASE c.pc = "traceCreate"
  <2>1. e = [act |-> "create", before |-> 0, after |-> 1, old |-> NoData, new |-> c.data]
    BY <1>1 DEF EntryOf, TraceOf
  <2> HIDE DEF e
  <2>2. e.act = "create" /\ e.after = 1 /\ e.new = c.data /\ c.data \in Data
    BY <1>1, <2>1 DEF CallFits
  <2>3. e \in ObjEntry
    BY <1>0, <2>1, ObjAssumption DEF ObjEntry
  <2>4. EntryFits(e) /\ \A o : RowOf(c, o) => EntryRow(e, o)
    BY <1>1, <2>2, <2>3 DEF EntryFits, RowOf, EntryRow
  <2>5. QED
    BY <2>4 DEF e
<1>2. CASE c.pc = "traceUpdate"
  <2> DEFINE v == c.seen + 1
  <2>1. e = [act |-> "update", before |-> c.seen, after |-> v, old |-> c.old, new |-> c.data]
    BY <1>2 DEF EntryOf, TraceOf
  <2>2. v \in 0..MaxVersion /\ v # 0 /\ c.seen >= 1 /\ c.data \in Data
    BY <1>0, <1>2, ObjAssumption DEF CallFits
  <2> HIDE DEF e, v
  <2>3. e.act = "update" /\ e.before = c.seen /\ e.after = v /\ e.new = c.data
    BY <2>1
  <2>4. e \in ObjEntry
    BY <1>0, <2>1, <2>2 DEF ObjEntry
  <2>5. EntryFits(e)
    BY <2>2, <2>3, <2>4 DEF EntryFits, v
  <2>6. \A o : RowOf(c, o) => EntryRow(e, o)
    BY <1>2, <2>3 DEF RowOf, EntryRow, v
  <2>7. QED
    BY <2>5, <2>6 DEF e
<1>3. CASE c.pc = "traceDelete"
  <2>1. e = [act |-> "delete", before |-> c.seen, after |-> 0, old |-> c.old, new |-> NoData]
    BY <1>3 DEF EntryOf, TraceOf
  <2> HIDE DEF e
  <2>2. e.act = "delete" /\ e.after = 0 /\ e.before = c.seen /\ c.seen >= 1
    BY <1>3, <2>1 DEF CallFits
  <2>3. e \in ObjEntry
    BY <1>0, <2>1, ObjAssumption DEF ObjEntry
  <2>4. EntryFits(e) /\ \A o : RowOf(c, o) => EntryRow(e, o)
    BY <2>2, <2>3 DEF EntryFits, EntryRow
  <2>5. QED
    BY <2>4 DEF e
<1>4. QED
  BY <1>1, <1>2, <1>3

\* An operation records its trace.
LEMMA RecordKeeps == ASSUME ObjInv, NEW p \in Caller, RecordTrace(p) PROVE ObjInv' /\ KeepsVersions
<1> DEFINE e == EntryOf(call[p])
           tr == Append(trace, e)
<1>1. /\ call[p].pc \in {"traceCreate", "traceUpdate", "traceDelete"} /\ Len(trace) < MaxTrace /\ trace' = tr
      /\ call' = [call EXCEPT ![p] = Quiet] /\ Disturbs(p) /\ UNCHANGED <<obj, level, rollbacks>>
  BY DEF RecordTrace
<1>2. CallFits(call[p], Len(trace)) /\ TraceFits(trace) /\ obj.life # "none"
  BY <1>1 DEF ObjInv, ObjTyped, Untouched
<1>3. EntryFits(e) /\ \A o : RowOf(call[p], o) => EntryRow(e, o)
  BY <1>1, <1>2, EntryRecords
<1> HIDE DEF e
<1>4. /\ TraceFits(tr) /\ Len(trace) \in Nat /\ Len(tr) = Len(trace) + 1
      /\ tr[Len(trace) + 1] = e /\ \A i \in 1..Len(trace) : tr[i] = trace[i]
  BY <1>1, <1>2, <1>3, TraceExtends
<1> HIDE DEF tr
<1>5. Len(tr) \in Nat /\ Len(trace) <= Len(tr) /\ CallFits(Quiet, Len(tr))
  BY <1>4, QuietFits
<1>6. /\ call' \in [Caller -> ObjCall] /\ call'[p] = Quiet
      /\ \A q \in Caller \ {p} : call'[q] = call[q]
      /\ \A q \in Caller : CallFits(call'[q], Len(tr))
  BY <1>1, <1>5, OneCaller DEF ObjInv
<1>7. calm' \in [Caller -> BOOLEAN] /\ \A q \in Caller : calm'[q] = FALSE
  BY <1>1, AllDisturbed DEF Rolling
<1>8. ObjTyped'
  BY <1>1, <1>4, <1>6, <1>7 DEF ObjInv, ObjTyped
<1>9. Untouched'
  BY <1>1, <1>2 DEF Untouched
<1>10. Unrolled'
  <2> SUFFICES ASSUME rollbacks = 0 PROVE (/\ \A q \in Caller : calm[q] = FALSE /\ call[q].pc \notin Rolling /\ RowOf(call[q], obj)
                                           /\ \A i \in 1..Len(trace) : EntryRow(trace[i], obj))'
    BY <1>1 DEF Unrolled
  <2>1. /\ \A q \in Caller : call[q].pc \notin Rolling /\ RowOf(call[q], obj)
        /\ \A i \in 1..Len(trace) : EntryRow(trace[i], obj)
    BY DEF ObjInv, Unrolled
  <2>2. RowOf(Quiet, obj) /\ Quiet.pc \notin Rolling
    BY QuietFits DEF RowOf, Rolling
  <2>3. ASSUME NEW i \in 1..Len(tr) PROVE EntryRow(tr[i], obj)
    <3>1. CASE i = Len(trace) + 1
      BY <1>3, <1>4, <2>1, <3>1
    <3>2. CASE i # Len(trace) + 1
      <4>1. i \in 1..Len(trace)
        BY <1>4, <3>2
      <4>2. QED
        BY <1>4, <2>1, <4>1
    <3>3. QED
      BY <3>1, <3>2
  <2>4. QED
    BY <1>1, <1>6, <1>7, <2>1, <2>2, <2>3
<1>11. Undisturbed'
  BY <1>7, NoneCalm
<1>12. KeepsVersions
  BY <1>1 DEF KeepsVersions, Versions
<1>13. QED
  BY <1>8, <1>9, <1>10, <1>11, <1>12 DEF ObjInv

\* A rollback begins.
LEMMA BeginKeeps ==
  ASSUME ObjInv, NEW p \in Caller, NEW T \in 0..MaxTrace, NEW todo \in Seq(Nat), Len(todo) >= 1,
         \A j \in 1..Len(todo) : todo[j] \in 1..Len(trace), RollbackBegins(p, todo, T),
         T > 0 => T < Len(trace) /\ T + Len(todo) = Len(trace)
                  /\ \A j \in 1..Len(todo) : todo[j] = (Len(trace) + 1) - j
  PROVE  ObjInv' /\ KeepsVersions
<1> DEFINE c == [Quiet EXCEPT !.pc = "point", !.todo = todo, !.at = T]
<1>1. /\ call[p].pc = "idle" /\ rollbacks' = rollbacks + 1 /\ call' = [call EXCEPT ![p] = c]
      /\ calm' = [calm EXCEPT ![p] = rollbacks = 0 /\ \A q \in Caller \ {p} : call[q].pc = "idle"]
      /\ UNCHANGED <<obj, level, trace>>
  BY DEF RollbackBegins
<1>2. c \in ObjCall /\ c.pc = "point" /\ c.todo = todo /\ c.at = T
  BY QuietFits DEF ObjCall
<1> HIDE DEF c
<1>3. Len(trace) \in Nat /\ Len(trace) <= Len(trace) /\ Len(todo) \in Nat /\ T \in Nat /\ Len(trace) >= 1
  <2>1. Len(trace) \in Nat /\ Len(todo) \in Nat /\ T \in Nat
    BY ObjAssumption DEF ObjInv, ObjTyped, TraceFits
  <2>2. todo[1] \in 1..Len(trace)
    BY <2>1
  <2>3. QED
    BY <2>1, <2>2
<1>4. CallFits(c, Len(trace))
  BY <1>2 DEF CallFits
<1>5. /\ call' \in [Caller -> ObjCall] /\ call'[p] = c
      /\ \A q \in Caller \ {p} : call'[q] = call[q]
      /\ \A q \in Caller : CallFits(call'[q], Len(trace))
  BY <1>1, <1>3, <1>4, OneCaller DEF ObjInv
<1>6. /\ calm' \in [Caller -> BOOLEAN] /\ \A q \in Caller \ {p} : calm'[q] = calm[q]
      /\ calm'[p] = TRUE => rollbacks = 0 /\ \A q \in Caller \ {p} : call[q].pc = "idle"
  BY <1>1 DEF ObjInv, ObjTyped
<1>7. ObjTyped'
  BY <1>1, <1>5, <1>6 DEF ObjInv, ObjTyped
<1>8. obj.life # "none"
  BY <1>3 DEF ObjInv, Untouched
<1>9. Untouched'
  BY <1>1, <1>8 DEF Untouched
<1>10. Unrolled'
  <2>1. rollbacks' # 0
    BY <1>1 DEF ObjInv, ObjTyped
  <2>2. QED
    BY <2>1 DEF Unrolled
<1>11. Undisturbed'
  <2> SUFFICES ASSUME NEW q \in Caller, calm'[q] = TRUE
               PROVE (/\ call[q].pc \in Rolling
                      /\ \A r \in Caller \ {q} : call[r].pc \in {"idle", "update", "tombstone", "point"}
                      /\ Undoing(call[q], trace, obj))'
    BY DEF Undisturbed
  <2>1. CASE q # p
    <3>1. /\ call[q].pc \in Rolling
          /\ \A r \in Caller \ {q} : call[r].pc \in {"idle", "update", "tombstone", "point"}
          /\ Undoing(call[q], trace, obj)
      BY <1>6, <2>1 DEF ObjInv, Undisturbed
    <3>2. \A r \in Caller \ {q} : call'[r].pc \in {"idle", "update", "tombstone", "point"}
      BY <1>2, <1>5, <3>1
    <3>3. QED
      BY <1>1, <1>5, <2>1, <3>1, <3>2
  <2>2. CASE q = p
    <3>1. rollbacks = 0 /\ \A r \in Caller \ {p} : call[r].pc = "idle"
      BY <1>6, <2>2
    <3>2. call'[p].pc \in Rolling /\ \A r \in Caller \ {p} : call'[r].pc \in {"idle", "update", "tombstone", "point"}
      BY <1>2, <1>5, <3>1 DEF Rolling
    <3>3. ASSUME T > 0 PROVE UndoneFrom(c, trace, obj, Len(trace))
      <4> DEFINE m == Len(trace)
      <4>1. T >= 1 /\ T < m /\ T + Len(todo) = m /\ \A j \in 1..Len(todo) : todo[j] = (m + 1) - j
        BY <1>3, <3>3
      <4>2. \A i \in 1..m : EntryRow(trace[i], obj) /\ EntryFits(trace[i])
        BY <3>1 DEF ObjInv, Unrolled, ObjTyped, TraceFits
      <4>3. \A i \in 1..m : trace[i].act = "rollback" <=> i > m
        BY <1>3, <4>2 DEF EntryRow
      <4>4. ASSUME Ordered(trace, m), NEW i \in 1..T
            PROVE trace[i].after \in DOMAIN obj.rows /\ obj.rows[trace[i].after] = trace[i].new
        <5>1. trace \in Seq(ObjEntry) /\ m <= Len(trace) /\ m >= 1 /\ m \in Nat
          BY <1>3 DEF ObjInv, ObjTyped, TraceFits
        <5>2. i \in 1..m /\ i # m /\ i # 0
          BY <1>3, <4>1
        <5>3. trace[i].after = i
          <6>1. \A j \in 1..Len(trace) : EntryFits(trace[j])
            BY <4>2
          <6>2. \A j \in 1..m : /\ trace[j].act = "delete" => j = m
                                /\ trace[j].act # "delete" => trace[j].after = j
            BY <4>4, <5>1, <6>1, OrderedVersions
          <6>3. QED
            BY <5>2, <6>2
        <5>4. QED
          BY <4>2, <5>2, <5>3 DEF EntryRow
      <4> HIDE DEF m
      <4>5. m <= Len(trace) /\ m \in Nat /\ T + Len(todo) <= m /\ ~(T + Len(todo) < m)
        BY <1>3, <4>1 DEF m
      <4>6. \A j \in 1..Len(todo) : todo[j] = (T + Len(todo) + 1) - j
        BY <4>1
      <4>7. c.pc = "rolled" <=> Len(todo) = 0
        BY <1>2, <1>3
      <4>8. UndoneFrom(c, trace, obj, m)
        BY <1>2, <4>1, <4>3, <4>4, <4>5, <4>6, <4>7 DEF UndoneFrom, m
      <4>9. QED
        BY <4>8 DEF m
    <3>4. Undoing(c, trace, obj)
      BY <1>2, <1>3, <3>3 DEF Undoing
    <3>5. QED
      BY <1>1, <1>5, <2>2, <3>2, <3>4
  <2>3. QED
    BY <2>1, <2>2
<1>12. KeepsVersions
  BY <1>1 DEF KeepsVersions, Versions
<1>13. QED
  BY <1>7, <1>9, <1>10, <1>11, <1>12 DEF ObjInv

\* Both kinds of rollback.
LEMMA RollbackKeeps ==
  ASSUME ObjInv, NEW p \in Caller, NEW i \in 1..MaxTrace, RollbackAction(p, i) \/ RollbackToTrace(p, i)
  PROVE  ObjInv' /\ KeepsVersions
<1>0. Len(trace) \in Nat /\ i \in Nat /\ i >= 1 /\ i \in 0..MaxTrace /\ 0 \in 0..MaxTrace
  BY ObjAssumption DEF ObjInv, ObjTyped, TraceFits
<1>1. CASE RollbackAction(p, i)
  <2> DEFINE todo == <<i>>
  <2>1. i \in 1..Len(trace) /\ RollbackBegins(p, todo, 0)
    BY <1>1 DEF RollbackAction
  <2>2. todo \in Seq(Nat) /\ Len(todo) = 1 /\ todo[1] = i
    BY <1>0
  <2> HIDE DEF todo
  <2>3. Len(todo) >= 1 /\ \A j \in 1..Len(todo) : todo[j] \in 1..Len(trace)
    BY <2>1, <2>2
  <2>4. ~(0 > 0)
    OBVIOUS
  <2>5. QED
    BY <1>0, <2>1, <2>2, <2>3, <2>4, BeginKeeps
<1>2. CASE RollbackToTrace(p, i)
  <2> DEFINE todo == NewestFirst(i)
             k == Len(trace) - i
  <2>1. i \in 1..(Len(trace) - 1) /\ RollbackBegins(p, todo, i)
    BY <1>2 DEF RollbackToTrace
  <2>2. k \in Nat /\ k >= 1 /\ i + k = Len(trace) /\ i < Len(trace)
    BY <1>0, <2>1
  <2>3. todo = [j \in 1..k |-> (Len(trace) + 1) - j]
    BY <1>0 DEF NewestFirst
  <2> HIDE DEF k, todo
  <2>4. \A j \in 1..k : (Len(trace) + 1) - j \in 1..Len(trace)
    BY <1>0, <2>2
  <2>5. todo \in Seq(Nat) /\ Len(todo) = k /\ \A j \in 1..k : todo[j] = (Len(trace) + 1) - j
    BY <1>0, <2>2, <2>3, <2>4
  <2>6. QED
    BY <1>0, <2>1, <2>2, <2>4, <2>5, BeginKeeps
<1>3. QED
  BY <1>1, <1>2

\* A statement of a rollback.
LEMMA RollsKeep ==
  ASSUME ObjInv, NEW p \in Caller, call[p].pc \in Rolling, NEW o, NEW c, obj' = o,
         call' = [call EXCEPT ![p] = c], CallFits(c, Len(trace)), c.pc \in Rolling, Disturbs(p),
         UNCHANGED <<level, trace, rollbacks>>, ObjectFits(o), o.life # "none",
         calm[p] = TRUE => Undoing(c, trace, o)
  PROVE  ObjInv'
<1>1. Len(trace) \in Nat /\ Len(trace) <= Len(trace)
  BY DEF ObjInv, ObjTyped, TraceFits
<1>2. /\ call' \in [Caller -> ObjCall] /\ call'[p] = c
      /\ \A q \in Caller \ {p} : call'[q] = call[q]
      /\ \A q \in Caller : CallFits(call'[q], Len(trace))
  BY <1>1, OneCaller DEF ObjInv
<1>3. calm' \in [Caller -> BOOLEAN] /\ calm'[p] = calm[p] /\ \A q \in Caller \ {p} : calm'[q] = FALSE
  BY DEF Disturbs, ObjInv, ObjTyped
<1>4. ObjTyped'
  BY <1>2, <1>3 DEF ObjInv, ObjTyped
<1>5. Untouched'
  BY DEF Untouched
<1>6. Unrolled'
  <2>1. rollbacks # 0
    BY DEF ObjInv, Unrolled
  <2>2. QED
    BY <2>1 DEF Unrolled
<1>7. Undisturbed'
  <2> SUFFICES ASSUME NEW q \in Caller, calm'[q] = TRUE
               PROVE (/\ call[q].pc \in Rolling
                      /\ \A r \in Caller \ {q} : call[r].pc \in {"idle", "update", "tombstone", "point"}
                      /\ Undoing(call[q], trace, obj))'
    BY DEF Undisturbed
  <2>1. q = p /\ calm[p] = TRUE
    BY <1>3
  <2>2. \A r \in Caller \ {p} : call[r].pc \in {"idle", "update", "tombstone", "point"}
    BY <2>1 DEF ObjInv, Undisturbed
  <2>3. QED
    BY <1>2, <2>1, <2>2
<1>8. QED
  BY <1>4, <1>5, <1>6, <1>7 DEF ObjInv

\* The head of the list of an undisturbed rollback to a time.
LEMMA HeadIs ==
  ASSUME NEW c \in ObjCall, NEW tr, NEW o, NEW m \in Nat, UndoneFrom(c, tr, o, m), Len(c.todo) >= 1
  PROVE  Head(c.todo) = c.at + Len(c.todo)
<1>1. c.todo \in Seq(Nat) /\ Len(c.todo) \in Nat /\ c.at \in Nat
  BY ObjAssumption DEF ObjCall
<1>2. 1 \in 1..Len(c.todo)
  BY <1>1
<1>3. c.todo[1] = (c.at + Len(c.todo) + 1) - 1
  BY <1>2 DEF UndoneFrom
<1>4. QED
  BY <1>1, <1>3

\* The pointer goes back.
LEMMA PointsKeep == ASSUME ObjInv, NEW p \in Caller, RollbackPoints(p) PROVE ObjInv' /\ KeepsVersions
<1> DEFINE h == Head(call[p].todo)
           e == trace[h]
           b == e.before
           o == IF b # 0 THEN [obj EXCEPT !.current = b]
                ELSE IF e.old = NoData THEN [obj EXCEPT !.life = "archived"] ELSE obj
           c == [call[p] EXCEPT !.pc = "prune"]
<1>1. /\ call[p].pc = "point" /\ obj' = o /\ call' = [call EXCEPT ![p] = c] /\ Disturbs(p)
      /\ UNCHANGED <<level, trace, rollbacks>>
  BY DEF RollbackPoints
<1>2. call[p] \in ObjCall /\ CallFits(call[p], Len(trace)) /\ obj.life # "none" /\ TraceFits(trace) /\ obj \in ObjRow /\ obj.current >= 1
  BY <1>1 DEF ObjInv, ObjTyped, Untouched, ObjectFits
<1>3. /\ Len(call[p].todo) \in Nat /\ Len(call[p].todo) >= 1 /\ call[p].todo \in Seq(Nat) /\ call[p].at \in Nat
      /\ Len(trace) \in Nat /\ h \in 1..Len(trace)
  <2>1. call[p].todo \in Seq(Nat) /\ Len(call[p].todo) >= 1 /\ call[p].at \in Nat
    BY <1>1, <1>2, ObjAssumption DEF CallFits, ObjCall
  <2>2. h = call[p].todo[1] /\ Len(call[p].todo) \in Nat /\ 1 \in 1..Len(call[p].todo)
    BY <2>1
  <2>3. Len(trace) \in Nat
    BY <1>2 DEF TraceFits
  <2>4. QED
    BY <1>2, <2>1, <2>2, <2>3 DEF CallFits
<1>4. e \in ObjEntry /\ b \in 0..MaxVersion /\ b \in Nat
  <2>1. e \in ObjEntry
    BY <1>2, <1>3 DEF TraceFits, EntryFits
  <2>2. QED
    BY <2>1, ObjAssumption DEF ObjEntry
<1>5. c \in ObjCall /\ c.pc = "prune" /\ c.todo = call[p].todo /\ c.at = call[p].at
  BY <1>2, PcMoves
<1> HIDE DEF c
<1>6. CallFits(c, Len(trace)) /\ c.pc \in Rolling /\ call[p].pc \in Rolling
  BY <1>1, <1>2, <1>3, <1>5 DEF CallFits, Rolling
<1>7. o \in ObjRow /\ o.rows = obj.rows /\ o.life # "none" /\ o.current >= 1 /\ (b # 0 => o.current = b)
  <2> HIDE DEF b
  <2>1. CASE b # 0
    <3>1. o = [obj EXCEPT !.current = b]
      BY <2>1
    <3> HIDE DEF o
    <3>2. o \in ObjRow /\ o.rows = obj.rows /\ o.life = obj.life /\ o.current = b
      BY <1>2, <1>4, <3>1 DEF ObjRow
    <3>3. QED
      BY <1>2, <1>4, <2>1, <3>2
  <2>2. CASE b = 0 /\ e.old = NoData
    <3>1. o = [obj EXCEPT !.life = "archived"]
      BY <2>2
    <3> HIDE DEF o
    <3>2. o \in ObjRow /\ o.rows = obj.rows /\ o.life = "archived" /\ o.current = obj.current
      BY <1>2, <3>1 DEF ObjRow
    <3>3. QED
      BY <1>2, <2>2, <3>2
  <2>3. CASE b = 0 /\ e.old # NoData
    BY <1>2, <2>3
  <2>4. QED
    BY <2>1, <2>2, <2>3
<1>8. ObjectFits(o)
  BY <1>7 DEF ObjectFits
<1> HIDE DEF o
<1>9. ASSUME calm[p] = TRUE PROVE Undoing(c, trace, o)
  <2> SUFFICES ASSUME c.at > 0 PROVE \E m \in Nat : UndoneFrom(c, trace, o, m)
    BY DEF Undoing
  <2>1. PICK m \in Nat : UndoneFrom(call[p], trace, obj, m)
    BY <1>5, <1>9 DEF ObjInv, Undisturbed, Undoing
  <2> DEFINE T == call[p].at
             r == Len(call[p].todo)
  <2>2. /\ T >= 1 /\ T < m /\ m <= Len(trace) /\ T + r <= m
        /\ \A i \in 1..Len(trace) : trace[i].act = "rollback" <=> i > m
        /\ \A j \in 1..r : call[p].todo[j] = (T + r + 1) - j
    BY <2>1 DEF UndoneFrom
  <2>3. ASSUME Ordered(trace, m)
        PROVE /\ \A i \in 1..T : trace[i].after \in DOMAIN o.rows /\ o.rows[trace[i].after] = trace[i].new
              /\ o.current + 1 = T + r
    <3>1. \A i \in 1..T : trace[i].after \in DOMAIN o.rows /\ o.rows[trace[i].after] = trace[i].new
      BY <1>7, <2>1, <2>3 DEF UndoneFrom
    <3>2. h = T + r
      BY <1>2, <1>3, <2>1, HeadIs
    <3>n. T \in Nat /\ r \in Nat /\ r >= 1 /\ T >= 1 /\ T + r <= m
      BY <1>3, <2>2
    <3>3. h \in 1..m /\ h > 1 /\ m >= 1 /\ h \in Nat
      <4> HIDE DEF h, T, r
      <4>1. QED
        BY <3>2, <3>n
    <3>4. trace[h].before = h - 1
      <4>1. trace \in Seq(ObjEntry) /\ \A i \in 1..Len(trace) : EntryFits(trace[i])
        BY <1>2 DEF TraceFits
      <4>2. QED
        BY <2>2, <2>3, <3>3, <4>1, OrderedVersions
    <3>5. o.current = h - 1
      BY <1>7, <3>3, <3>4
    <3>6. o.current + 1 = T + r
      <4> HIDE DEF h, T, r
      <4>1. QED
        BY <3>2, <3>3, <3>5
    <3>7. QED
      BY <3>1, <3>6
  <2>4. UndoneFrom(c, trace, o, m)
    <3>1. c.pc = "rolled" <=> Len(c.todo) = 0
      BY <1>3, <1>5
    <3>2. QED
      BY <1>5, <2>2, <2>3, <3>1 DEF UndoneFrom
  <2>5. QED
    BY <2>4
<1>10. ObjInv'
  BY <1>1, <1>6, <1>7, <1>8, <1>9, RollsKeep
<1>11. KeepsVersions
  BY <1>1, <1>7 DEF KeepsVersions, Versions
<1>12. QED
  BY <1>10, <1>11

\* The version that was written is deleted.
LEMMA PrunesKeep == ASSUME ObjInv, NEW p \in Caller, RollbackPrunes(p) PROVE ObjInv' /\ KeepsVersions
<1> DEFINE h == Head(call[p].todo)
           e == trace[h]
           R == [v \in DOMAIN obj.rows \ {e.after} |-> obj.rows[v]]
           o == IF e.before # 0 /\ e.after # 0 THEN [obj EXCEPT !.rows = R] ELSE obj
           c == [call[p] EXCEPT !.pc = "traceRollback"]
<1>1. /\ call[p].pc = "prune" /\ obj' = o /\ call' = [call EXCEPT ![p] = c] /\ Disturbs(p)
      /\ UNCHANGED <<level, trace, rollbacks>>
  BY DEF RollbackPrunes, Versions
<1>2. call[p] \in ObjCall /\ CallFits(call[p], Len(trace)) /\ obj.life # "none" /\ TraceFits(trace) /\ obj \in ObjRow /\ obj.current >= 1
  BY <1>1 DEF ObjInv, ObjTyped, Untouched, ObjectFits
<1>3. /\ Len(call[p].todo) \in Nat /\ Len(call[p].todo) >= 1 /\ call[p].todo \in Seq(Nat) /\ call[p].at \in Nat
      /\ Len(trace) \in Nat
  <2>1. call[p].todo \in Seq(Nat) /\ Len(call[p].todo) >= 1 /\ call[p].at \in Nat
    BY <1>1, <1>2, ObjAssumption DEF CallFits, ObjCall
  <2>2. QED
    BY <1>2, <2>1 DEF TraceFits
<1>4. c \in ObjCall /\ c.pc = "traceRollback" /\ c.todo = call[p].todo /\ c.at = call[p].at
  BY <1>2, PcMoves
<1> HIDE DEF c
<1>5. CallFits(c, Len(trace)) /\ c.pc \in Rolling /\ call[p].pc \in Rolling
  BY <1>1, <1>2, <1>3, <1>4 DEF CallFits, Rolling
<1>6. R \in RowMaps /\ DOMAIN R = DOMAIN obj.rows \ {e.after} /\ \A v \in DOMAIN R : R[v] = obj.rows[v]
  <2>1. obj.rows \in RowMaps
    BY <1>2 DEF ObjRow
  <2>2. DOMAIN obj.rows \subseteq 1..MaxVersion /\ obj.rows \in [DOMAIN obj.rows -> Data]
    BY <2>1, RowMapIs
  <2>3. DOMAIN R \subseteq 1..MaxVersion /\ R \in [DOMAIN R -> Data]
    BY <2>2
  <2>4. QED
    BY <2>3, RowMapIs
<1> HIDE DEF R
<1>7. /\ o \in ObjRow /\ o.life = obj.life /\ o.current = obj.current
      /\ \A v \in DOMAIN obj.rows : (v = e.after /\ v # 0) \/ (v \in DOMAIN o.rows /\ o.rows[v] = obj.rows[v])
  <2>1. CASE e.before # 0 /\ e.after # 0
    <3>1. o = [obj EXCEPT !.rows = R]
      BY <2>1
    <3> HIDE DEF o
    <3>2. o \in ObjRow /\ o.life = obj.life /\ o.current = obj.current /\ o.rows = R
      BY <1>2, <1>6, <3>1 DEF ObjRow
    <3>3. QED
      BY <1>6, <2>1, <3>2
  <2>2. CASE ~(e.before # 0 /\ e.after # 0)
    BY <1>2, <2>2
  <2>3. QED
    BY <2>1, <2>2
<1>8. ObjectFits(o) /\ o.life # "none"
  BY <1>2, <1>7 DEF ObjectFits
<1> HIDE DEF o
<1>9. ASSUME calm[p] = TRUE PROVE Undoing(c, trace, o)
  <2> SUFFICES ASSUME c.at > 0 PROVE \E m \in Nat : UndoneFrom(c, trace, o, m)
    BY DEF Undoing
  <2>1. PICK m \in Nat : UndoneFrom(call[p], trace, obj, m)
    BY <1>4, <1>9 DEF ObjInv, Undisturbed, Undoing
  <2> DEFINE T == call[p].at
             r == Len(call[p].todo)
  <2>2. /\ T >= 1 /\ T < m /\ m <= Len(trace) /\ T + r <= m
        /\ \A i \in 1..Len(trace) : trace[i].act = "rollback" <=> i > m
        /\ \A j \in 1..r : call[p].todo[j] = (T + r + 1) - j
    BY <2>1 DEF UndoneFrom
  <2>3. ASSUME Ordered(trace, m)
        PROVE /\ \A i \in 1..T : trace[i].after \in DOMAIN o.rows /\ o.rows[trace[i].after] = trace[i].new
              /\ o.current + 1 = T + r
    <3>1. /\ \A i \in 1..T : trace[i].after \in DOMAIN obj.rows /\ obj.rows[trace[i].after] = trace[i].new
          /\ obj.current + 1 = T + r
      BY <1>1, <2>1, <2>3 DEF UndoneFrom
    <3>2. h = T + r
      BY <1>2, <1>3, <2>1, HeadIs
    <3>3. h \in 1..m /\ h > T /\ m >= 1 /\ h \in Nat
      <4>1. T \in Nat /\ r \in Nat /\ r >= 1 /\ T >= 1 /\ T + r <= m
        BY <1>3, <2>2
      <4> HIDE DEF h, T, r
      <4>2. QED
        BY <3>2, <4>1
    <3>4. trace \in Seq(ObjEntry) /\ \A i \in 1..Len(trace) : EntryFits(trace[i])
      BY <1>2 DEF TraceFits
    <3>5. e.after \in {0, h}
      BY <2>2, <2>3, <3>3, <3>4, OrderedVersions
    <3>6. ASSUME NEW i \in 1..T PROVE trace[i].after \in DOMAIN o.rows /\ o.rows[trace[i].after] = trace[i].new
      <4>1. i \in 1..m /\ i # m /\ i # h
        BY <1>3, <2>2, <3>3
      <4>2. trace[i].after = i
        BY <2>2, <2>3, <3>3, <3>4, <4>1, OrderedVersions
      <4>3. ~(trace[i].after = e.after /\ trace[i].after # 0)
        BY <3>5, <4>1, <4>2
      <4>4. trace[i].after \in DOMAIN obj.rows /\ obj.rows[trace[i].after] = trace[i].new
        BY <3>1
      <4>5. QED
        BY <1>7, <4>3, <4>4
    <3>7. QED
      BY <1>7, <3>1, <3>6
  <2>4. UndoneFrom(c, trace, o, m)
    <3>1. c.pc = "rolled" <=> Len(c.todo) = 0
      BY <1>3, <1>4
    <3>2. QED
      BY <1>4, <2>2, <2>3, <3>1 DEF UndoneFrom
  <2>5. QED
    BY <2>4
<1>10. ObjInv'
  BY <1>1, <1>5, <1>8, <1>9, RollsKeep
<1>11. KeepsVersions
  BY <1>1 DEF KeepsVersions
<1>12. QED
  BY <1>10, <1>11

\* The rollback of an entry is recorded.
LEMMA RecordsKeep == ASSUME ObjInv, NEW p \in Caller, RollbackRecords(p) PROVE ObjInv' /\ KeepsVersions
<1> DEFINE d == call[p].todo
           h == Head(d)
           old == trace[h]
           e == [act |-> "rollback", before |-> 0, after |-> 0, old |-> old.new, new |-> old.old]
           tr == Append(trace, e)
           a == IF Len(d) > 1 THEN "point" ELSE "rolled"
           t == Tail(d)
           c == [call[p] EXCEPT !.todo = t, !.pc = a]
<1>1. /\ call[p].pc = "traceRollback" /\ trace' = tr /\ UNCHANGED <<obj, level, rollbacks, calm>>
  BY DEF RollbackRecords, TraceOf
<1>2. call[p] \in ObjCall /\ CallFits(call[p], Len(trace)) /\ obj.life # "none" /\ TraceFits(trace)
  BY <1>1 DEF ObjInv, ObjTyped, Untouched
<1>3. Len(d) \in Nat /\ Len(d) >= 1 /\ d \in Seq(Nat) /\ call[p].at \in Nat /\ Len(trace) \in Nat /\ h \in 1..Len(trace)
  <2>1. d \in Seq(Nat) /\ Len(d) >= 1 /\ call[p].at \in Nat
    BY <1>1, <1>2, ObjAssumption DEF CallFits, ObjCall
  <2>2. h = d[1] /\ Len(d) \in Nat /\ 1 \in 1..Len(d)
    BY <2>1
  <2>3. Len(trace) \in Nat
    BY <1>2 DEF TraceFits
  <2>4. QED
    BY <1>2, <2>1, <2>2, <2>3 DEF CallFits
<1>4. old \in ObjEntry /\ old.new \in AnyData /\ old.old \in AnyData
  <2>1. old \in ObjEntry
    BY <1>2, <1>3 DEF TraceFits, EntryFits
  <2>2. QED
    BY <2>1 DEF ObjEntry
<1>5. call' = [call EXCEPT ![p] = c]
  <2>1. call \in [Caller -> ObjCall]
    BY DEF ObjInv, ObjTyped
  <2>2. call' = [call EXCEPT ![p].todo = t, ![p].pc = a]
    BY DEF RollbackRecords
  <2> HIDE DEF t, a
  <2>3. QED
    BY <2>1, <2>2
<1> HIDE DEF old
<1>6. EntryFits(e) /\ e.act = "rollback"
  <2>1. e \in ObjEntry
    BY <1>4, ObjAssumption DEF ObjEntry
  <2>2. QED
    BY <2>1 DEF EntryFits
<1> HIDE DEF e
<1>7. /\ TraceFits(tr) /\ Len(tr) = Len(trace) + 1
      /\ tr[Len(trace) + 1] = e /\ \A i \in 1..Len(trace) : tr[i] = trace[i]
  BY <1>2, <1>6, TraceExtends
<1> HIDE DEF tr
<1>8. t \in Seq(Nat) /\ Len(t) + 1 = Len(d) /\ Len(t) \in Nat /\ \A j \in 1..Len(t) : t[j] = d[j + 1] /\ j + 1 \in 1..Len(d)
  <2> HIDE DEF d
  <2>1. QED
    BY <1>3
<1> HIDE DEF t, d, h
<1>9. a \in {"point", "rolled"} /\ (a = "rolled" <=> Len(t) = 0) /\ (a = "point" => Len(t) >= 1)
  BY <1>3, <1>8
<1> HIDE DEF a
<1>10. c \in ObjCall /\ c.pc = a /\ c.todo = t /\ c.at = call[p].at
  BY <1>2, <1>8, <1>9 DEF ObjCall
<1> HIDE DEF c
<1>11. Len(tr) \in Nat /\ Len(trace) <= Len(tr)
  BY <1>3, <1>7
<1>12. CallFits(c, Len(tr))
  <2>1. \A j \in 1..Len(t) : t[j] \in 1..Len(tr)
    <3>1. \A j \in 1..Len(d) : d[j] \in 1..Len(trace)
      BY <1>2 DEF CallFits, d
    <3>2. \A j \in 1..Len(t) : t[j] \in 1..Len(trace)
      BY <1>8, <3>1
    <3>3. QED
      BY <1>11, <1>3, <3>2
  <2>2. QED
    BY <1>9, <1>10, <2>1 DEF CallFits
<1>13. /\ call' \in [Caller -> ObjCall] /\ call'[p] = c
       /\ \A q \in Caller \ {p} : call'[q] = call[q]
       /\ \A q \in Caller : CallFits(call'[q], Len(tr))
  BY <1>5, <1>11, <1>12, OneCaller DEF ObjInv
<1>14. ObjTyped'
  BY <1>1, <1>7, <1>13 DEF ObjInv, ObjTyped
<1>15. Untouched'
  BY <1>1, <1>2 DEF Untouched
<1>16. Unrolled'
  <2>1. rollbacks # 0
    BY <1>1 DEF ObjInv, Unrolled, Rolling
  <2>2. QED
    BY <1>1, <2>1 DEF Unrolled
<1>17. Undisturbed'
  <2> SUFFICES ASSUME NEW q \in Caller, calm[q] = TRUE
               PROVE (/\ call[q].pc \in Rolling
                      /\ \A r \in Caller \ {q} : call[r].pc \in {"idle", "update", "tombstone", "point"}
                      /\ Undoing(call[q], trace, obj))'
    BY <1>1 DEF Undisturbed
  <2>1. q = p
    BY <1>1 DEF ObjInv, Undisturbed
  <2>2. /\ \A r \in Caller \ {p} : call[r].pc \in {"idle", "update", "tombstone", "point"}
        /\ Undoing(call[p], trace, obj)
    BY <2>1 DEF ObjInv, Undisturbed
  <2>3. c.pc \in Rolling
    BY <1>9, <1>10 DEF Rolling
  <2>4. Undoing(c, tr, obj)
    <3> SUFFICES ASSUME c.at > 0 PROVE \E m \in Nat : UndoneFrom(c, tr, obj, m)
      BY DEF Undoing
    <3>1. PICK m \in Nat : UndoneFrom(call[p], trace, obj, m)
      BY <1>10, <2>2 DEF Undoing
    <3> DEFINE T == call[p].at
               r == Len(d)
    <3>2. /\ T >= 1 /\ T < m /\ m <= Len(trace) /\ T + r <= m
          /\ \A i \in 1..Len(trace) : trace[i].act = "rollback" <=> i > m
          /\ \A j \in 1..r : d[j] = (T + r + 1) - j
      BY <3>1 DEF UndoneFrom, d
    <3> DEFINE k == Len(t)
    <3>n. T \in Nat /\ r \in Nat /\ k \in Nat /\ k + 1 = r /\ 1..r = 1..Len(d) /\ Len(t) = k
      BY <1>3, <1>8
    <3> HIDE DEF T, r, k
    <3>3. T + Len(t) + 1 = T + r /\ T + Len(t) <= m /\ m <= Len(tr) /\ m > 1
      <4>1. T + k + 1 = T + r /\ T + k <= m /\ m > 1
        BY <3>2, <3>n
      <4>2. m <= Len(tr)
        BY <1>3, <1>7, <3>2
      <4>3. QED
        BY <3>n, <4>1, <4>2
    <3>4. ASSUME NEW i \in 1..Len(tr) PROVE tr[i].act = "rollback" <=> i > m
      <4>1. CASE i = Len(trace) + 1
        BY <1>3, <1>6, <1>7, <3>2, <4>1
      <4>2. CASE i # Len(trace) + 1
        <5>1. i \in 1..Len(trace)
          <6>1. Len(tr) = Len(trace) + 1 /\ Len(trace) \in Nat
            BY <1>3, <1>7
          <6>2. QED
            BY <4>2, <6>1
        <5>2. QED
          BY <1>7, <3>2, <5>1
      <4>3. QED
        BY <4>1, <4>2
    <3>5. ASSUME NEW j \in 1..Len(t) PROVE t[j] = (T + Len(t) + 1) - j
      <4>1. t[j] = (T + r + 1) - (j + 1)
        BY <1>8, <3>2, <3>n
      <4>2. j \in Nat
        OBVIOUS
      <4>3. QED
        <5>1. (T + r + 1) - (j + 1) = (T + k + 1) - j
          BY <3>n, <4>2
        <5>2. QED
          BY <3>n, <4>1, <5>1, Zenon
    <3>6. ASSUME Ordered(tr, m)
          PROVE /\ \A i \in 1..T : tr[i].after \in DOMAIN obj.rows /\ obj.rows[tr[i].after] = tr[i].new
                /\ obj.current = T + Len(t)
      <4>0. \A i \in 1..m : tr[i] = trace[i] /\ i \in 1..Len(trace)
        BY <1>3, <1>7, <3>2
      <4>1. Ordered(trace, m)
        <5>1. 1 \in 1..m /\ \A i \in 2..m : i \in 1..m /\ i - 1 \in 1..m
          BY <3>3
        <5>2. QED
          BY <3>6, <4>0, <5>1 DEF Ordered
      <4>2. /\ \A i \in 1..T : trace[i].after \in DOMAIN obj.rows /\ obj.rows[trace[i].after] = trace[i].new
            /\ obj.current + 1 = T + r
        BY <1>1, <3>1, <4>1 DEF UndoneFrom, T, r, d
      <4>3. \A i \in 1..T : i \in 1..m
        BY <3>2, <3>n
      <4>4. obj.current \in Nat
        BY ObjAssumption DEF ObjInv, ObjTyped, ObjectFits, ObjRow
      <4>5. obj.current = T + Len(t)
        <5>1. obj.current + 1 = T + (k + 1)
          BY <3>n, <4>2
        <5> DEFINE v == obj.current
        <5>2. v \in Nat /\ v + 1 = T + (k + 1)
          BY <4>4, <5>1
        <5> HIDE DEF v
        <5>3. v = T + k
          BY <3>n, <5>2
        <5>4. QED
          BY <3>n, <5>3 DEF v
      <4>6. QED
        BY <4>0, <4>2, <4>3, <4>5
    <3>7. UndoneFrom(c, tr, obj, m)
      <4>1. c.pc = "rolled" <=> Len(c.todo) = 0
        BY <1>9, <1>10
      <4>2. QED
        BY <1>9, <1>10, <3>2, <3>3, <3>4, <3>5, <3>6, <4>1 DEF UndoneFrom, T
    <3>8. QED
      BY <3>7
  <2>5. QED
    BY <1>1, <1>13, <2>1, <2>2, <2>3, <2>4
<1>18. KeepsVersions
  BY <1>1 DEF KeepsVersions, Versions
<1>19. QED
  BY <1>14, <1>15, <1>16, <1>17, <1>18 DEF ObjInv

\* No step takes a version away that a rollback does not, and none leads a
\* rollback to another content.
LEMMA ObjStep == ObjInv /\ [ObjNext]_objVars => ObjInv' /\ KeepsVersions
<1> SUFFICES ASSUME ObjInv, [ObjNext]_objVars PROVE ObjInv' /\ KeepsVersions
  OBVIOUS
<1>1. ASSUME NEW l \in Levels, Share(l) PROVE ObjInv' /\ KeepsVersions
  BY <1>1 DEF Share, ObjInv, ObjTyped, Untouched, Unrolled, Undisturbed, KeepsVersions, Versions
<1>2. CASE UNCHANGED objVars
  BY <1>2 DEF objVars, ObjInv, ObjTyped, Untouched, Unrolled, Undisturbed, KeepsVersions, Versions
<1>3. ASSUME NEW p \in Caller, CallerDies(p) PROVE ObjInv' /\ KeepsVersions
  BY <1>3, EndsKeep DEF CallerDies
<1>4. ASSUME NEW p \in Caller, RollbackReturns(p) PROVE ObjInv' /\ KeepsVersions
  <2>1. call[p].pc # "idle"
    BY <1>4 DEF RollbackReturns
  <2>2. QED
    BY <1>4, <2>1, EndsKeep DEF RollbackReturns
<1>5. ASSUME NEW p \in Caller,
             \/ \E d \in Data : UpdateReads(p, d)
             \/ UpdateWrites(p)
             \/ TombstoneReads(p) \/ TombstoneWrites(p)
             \/ RecordTrace(p)
             \/ CallerDies(p)
             \/ \E i \in 1..MaxTrace : RollbackAction(p, i) \/ RollbackToTrace(p, i)
             \/ RollbackPoints(p) \/ RollbackPrunes(p) \/ RollbackRecords(p) \/ RollbackReturns(p)
      PROVE ObjInv' /\ KeepsVersions
  <2>1. CASE (\E d \in Data : UpdateReads(p, d)) \/ TombstoneReads(p)
    BY <2>1, ReadsKeep
  <2>2. CASE \E i \in 1..MaxTrace : RollbackAction(p, i) \/ RollbackToTrace(p, i)
    BY <2>2, RollbackKeeps
  <2>3. QED
    BY <1>3, <1>4, <1>5, <2>1, <2>2, UpdateKeeps, TombstoneKeeps, RecordKeeps, PointsKeep, PrunesKeep, RecordsKeep
<1>6. QED
  BY <1>1, <1>2, <1>5, CreateKeeps DEF ObjNext

\* RestoresContent and VersionsKept: a rollback to a time that nobody disturbs
\* brings back the content of that time, and no version changes or goes but by
\* a rollback.
THEOREM ObjectsRestored == ObjSpec => [](ObjTypeOK /\ RestoresContent) /\ VersionsKept
<1>1. ObjInv /\ [ObjNext]_objVars => ObjInv' /\ [KeepsVersions]_objVars
  BY ObjStep
<1>2. QED
  BY <1>1, ObjStart, ObjHolds, PTL DEF ObjSpec, VersionsKept

-----------------------------------------------------------------------------
(* Scopes, memberships and projections.                                    *)

Membership == [life : {"none", "ACTIVE", "ARCHIVED"}, expires : {"never", "later", "past"}]
ClerkCall ==
  [op : {"free", "add", "revoke", "lapse", "freeze", "archive", "project"},
   scope : Scope \union {NoScope}, role : Role \union {"all"},
   arg : {"none", "never", "later", "ACTIVE", "ARCHIVED"}]

\* What a call under way has made sure of.
CallOnScope(k) ==
  /\ k.op # "free" => k.scope \in Scope
  /\ k.op = "add" => k.role \in Role /\ k.arg \in {"never", "later"}

TenancyTyped ==
  /\ scopeLife \in [Scope -> {"none", "ACTIVE", "FROZEN", "ARCHIVED"}]
  /\ member \in [Scope -> [Role -> Membership]]
  /\ projected \in [Scope -> {"none", "ACTIVE", "ARCHIVED"}]
  /\ clerk \in [Clerk -> ClerkCall]
  /\ closedCalmly \subseteq Scope

\* Nothing is active in a closed scope, and no call is under way on it.
ClosedAndLeft(s) ==
  /\ scopeLife[s] = "ARCHIVED" /\ projected[s] # "ACTIVE"
  /\ \A r \in Role : member[s][r].life # "ACTIVE"
  /\ \A c \in Clerk : clerk[c].scope # s

TenancyInv ==
  /\ TenancyTyped
  /\ \A c \in Clerk : CallOnScope(clerk[c])
  /\ \A s \in closedCalmly : ClosedAndLeft(s)

\* The row of a thread in no call.
LEMMA FreeCall == Free \in ClerkCall /\ Free.op = "free" /\ Free.scope = NoScope /\ CallOnScope(Free)
<1>1. Free \in ClerkCall /\ Free.op = "free" /\ Free.scope = NoScope
  BY DEF Free, ClerkCall
<1>2. QED
  BY <1>1 DEF CallOnScope

\* The invariant holds at the start: no scope exists.
LEMMA TenancyStart == TenancyInit => TenancyInv
<1> SUFFICES ASSUME TenancyInit PROVE TenancyInv
  OBVIOUS
<1>1. NoMember \in Membership
  BY DEF NoMember, Membership
<1>2. clerk \in [Clerk -> ClerkCall] /\ \A c \in Clerk : clerk[c] = Free
  BY FreeCall DEF TenancyInit
<1>3. member \in [Scope -> [Role -> Membership]]
  BY <1>1 DEF TenancyInit
<1>4. TenancyTyped
  BY <1>2, <1>3 DEF TenancyInit, TenancyTyped
<1>5. QED
  BY <1>2, <1>4, FreeCall DEF TenancyInit, TenancyInv

\* The invariant says what the model's own properties say.
LEMMA TenancyHolds == TenancyInv => TenancyTypeOK /\ ClosedForGood
<1> SUFFICES ASSUME TenancyInv PROVE TenancyTypeOK /\ ClosedForGood
  OBVIOUS
<1>1. TenancyTypeOK
  <2>1. \A c \in Clerk : clerk[c].scope \in Scope \union {NoScope}
    BY DEF TenancyInv, TenancyTyped, ClerkCall
  <2>2. QED
    BY <2>1 DEF TenancyInv, TenancyTyped, TenancyTypeOK, Membership
<1>2. ClosedForGood
  BY DEF TenancyInv, ClosedAndLeft, ClosedForGood, MemberOf, ActiveMembership
<1>3. QED
  BY <1>1, <1>2

\* Listing objects and checking one agree in every state.
LEMMA ListingAgrees == ListMatchesSight
  BY DEF ListMatchesSight, ListsObject, VisibleScopes, CanSeeProjected, SeenThroughAncestor

\* Archiving a membership row keeps its type and leaves it inactive.
LEMMA ArchivedRow ==
  ASSUME NEW m \in Membership
  PROVE  Archived(m) \in Membership /\ Archived(m).life # "ACTIVE"
  BY DEF Membership, Archived

\* A thread enters a call on a scope that is not closed, or not archived.
LEMMA ClerkEnters ==
  ASSUME TenancyInv, NEW c \in Clerk, NEW s \in Scope, NEW op, NEW r, NEW x,
         Enters(c, op, s, r, x), [op |-> op, scope |-> s, role |-> r, arg |-> x] \in ClerkCall,
         op = "add" => r \in Role /\ x \in {"never", "later"},
         s \notin closedCalmly,
         UNCHANGED <<scopeLife, member, projected, closedCalmly>>
  PROVE  TenancyInv' /\ KeepsGrants
<1> DEFINE k == [op |-> op, scope |-> s, role |-> r, arg |-> x]
<1>1. k \in ClerkCall /\ k.op = op /\ k.scope = s /\ k.role = r /\ k.arg = x
  OBVIOUS
<1>2. CallOnScope(k)
  BY <1>1 DEF CallOnScope
<1>3. clerk' = [clerk EXCEPT ![c] = k]
  BY DEF Enters
<1> HIDE DEF k
<1>4. clerk' \in [Clerk -> ClerkCall] /\ clerk'[c] = k /\ \A d \in Clerk \ {c} : clerk'[d] = clerk[d]
  BY <1>1, <1>3 DEF TenancyInv, TenancyTyped
<1>5. TenancyTyped'
  BY <1>4 DEF TenancyInv, TenancyTyped
<1>6. \A d \in Clerk : CallOnScope(clerk[d])'
  BY <1>2, <1>4 DEF TenancyInv, CallOnScope
<1>7. \A t \in closedCalmly' : ClosedAndLeft(t)'
  BY <1>1, <1>4 DEF TenancyInv, ClosedAndLeft
<1>8. KeepsGrants
  BY DEF KeepsGrants, MemberOf
<1>9. QED
  BY <1>5, <1>6, <1>7, <1>8 DEF TenancyInv

\* A thread returns from a call that leaves closed scopes as they are.
LEMMA ClerkReturns ==
  ASSUME TenancyInv, NEW c \in Clerk, Returns(c),
         scopeLife' \in [Scope -> {"none", "ACTIVE", "FROZEN", "ARCHIVED"}],
         member' \in [Scope -> [Role -> Membership]],
         projected' \in [Scope -> {"none", "ACTIVE", "ARCHIVED"}],
         closedCalmly' = closedCalmly, clerk[c].op # "free",
         \A s \in Scope \ {clerk[c].scope} :
           scopeLife'[s] = scopeLife[s] /\ member'[s] = member[s] /\ projected'[s] = projected[s]
  PROVE  TenancyInv' /\ clerk'[c].op = "free"
<1>1. clerk' \in [Clerk -> ClerkCall] /\ clerk'[c] = Free /\ \A d \in Clerk \ {c} : clerk'[d] = clerk[d]
  BY FreeCall DEF Returns, TenancyInv, TenancyTyped
<1>2. TenancyTyped'
  BY <1>1 DEF TenancyInv, TenancyTyped
<1>3. \A d \in Clerk : CallOnScope(clerk[d])'
  BY <1>1, FreeCall DEF TenancyInv, CallOnScope
<1>4. ASSUME NEW t \in closedCalmly' PROVE ClosedAndLeft(t)'
  <2>1. t \in closedCalmly /\ t \in Scope /\ ClosedAndLeft(t)
    BY <1>4 DEF TenancyInv, TenancyTyped
  <2>2. t # clerk[c].scope /\ t # NoScope
    BY <2>1, TenancyAssumption DEF ClosedAndLeft
  <2>3. \A d \in Clerk : clerk'[d].scope # t
    BY <1>1, <2>1, <2>2, FreeCall DEF ClosedAndLeft
  <2>4. QED
    BY <2>1, <2>2, <2>3 DEF ClosedAndLeft
<1>5. QED
  BY <1>1, <1>2, <1>3, <1>4, FreeCall DEF TenancyInv

\* Whoever holds a membership in force keeps it, if its row is left alone.
LEMMA GrantStays ==
  ASSUME NEW s \in Scope,
         \A r \in Role : ActiveMembership(member[s][r]) => member'[s][r] = member[s][r]
  PROVE  MemberOf(s) => MemberOf(s)'
  BY DEF MemberOf, ActiveMembership

\* No call brings a closed scope back, and none ends a membership it may not.
LEMMA TenancyStep == TenancyInv /\ [TenancyNext]_tenancyVars => TenancyInv' /\ KeepsGrants
<1> SUFFICES ASSUME TenancyInv, [TenancyNext]_tenancyVars PROVE TenancyInv' /\ KeepsGrants
  OBVIOUS
<1>typ. TenancyTyped /\ \A c \in Clerk : clerk[c] \in ClerkCall
  BY DEF TenancyInv, TenancyTyped
<1>open. \A s \in Scope : scopeLife[s] # "ARCHIVED" => s \notin closedCalmly
  BY DEF TenancyInv, ClosedAndLeft
<1>add. ASSUME NEW c \in Clerk, NEW s \in Scope, NEW r \in Role, NEW x \in Expiry, AddChecks(c, s, r, x)
        PROVE TenancyInv' /\ KeepsGrants
  <2>1. x \in {"never", "later"}
    BY TenancyAssumption
  <2>2. [op |-> "add", scope |-> s, role |-> r, arg |-> x] \in ClerkCall
    BY <2>1 DEF ClerkCall
  <2>3. QED
    BY <1>add, <1>open, <2>1, <2>2, ClerkEnters DEF AddChecks, Mutable
<1>rev. ASSUME NEW c \in Clerk, NEW s \in Scope, NEW r \in Role \union {"all"}, RevokeChecks(c, s, r)
        PROVE TenancyInv' /\ KeepsGrants
  <2>1. [op |-> "revoke", scope |-> s, role |-> r, arg |-> "none"] \in ClerkCall
    BY DEF ClerkCall
  <2>2. QED
    BY <1>rev, <1>open, <2>1, ClerkEnters DEF RevokeChecks, Mutable
<1>lap. ASSUME NEW c \in Clerk, NEW s \in Scope, FindExpired(c, s) PROVE TenancyInv' /\ KeepsGrants
  <2>1. [op |-> "lapse", scope |-> s, role |-> "all", arg |-> "none"] \in ClerkCall
    BY DEF ClerkCall
  <2>2. s \notin closedCalmly
    BY <1>lap DEF FindExpired, TenancyInv, ClosedAndLeft
  <2>3. QED
    BY <1>lap, <2>1, <2>2, ClerkEnters DEF FindExpired
<1>frz. ASSUME NEW c \in Clerk, NEW s \in Scope, FreezeChecks(c, s) PROVE TenancyInv' /\ KeepsGrants
  <2>1. [op |-> "freeze", scope |-> s, role |-> "all", arg |-> "none"] \in ClerkCall
    BY DEF ClerkCall
  <2>2. QED
    BY <1>frz, <1>open, <2>1, ClerkEnters DEF FreezeChecks
<1>arc. ASSUME NEW c \in Clerk, NEW s \in Scope, ArchiveChecks(c, s) PROVE TenancyInv' /\ KeepsGrants
  <2>1. [op |-> "archive", scope |-> s, role |-> "all", arg |-> "none"] \in ClerkCall
    BY DEF ClerkCall
  <2>2. QED
    BY <1>arc, <1>open, <2>1, ClerkEnters DEF ArchiveChecks
<1>prj. ASSUME NEW c \in Clerk, NEW s \in Scope, ProjectChecks(c, s) PROVE TenancyInv' /\ KeepsGrants
  <2>1. projected[s] \in {"none", "ARCHIVED"}
    BY <1>prj, <1>typ DEF ProjectChecks, TenancyTyped
  <2>2. [op |-> "project", scope |-> s, role |-> "all", arg |-> projected[s]] \in ClerkCall
    BY <2>1 DEF ClerkCall
  <2>3. QED
    BY <1>prj, <1>open, <2>2, ClerkEnters DEF ProjectChecks, Mutable
<1>1. ASSUME NEW c \in Clerk, AddMembership(c) PROVE TenancyInv' /\ KeepsGrants
  <2> DEFINE s == clerk[c].scope
             r == clerk[c].role
  <2>1. s \in Scope /\ r \in Role /\ clerk[c].arg \in {"never", "later"} /\ clerk[c].op # "free"
    BY <1>1 DEF AddMembership, TenancyInv, CallOnScope
  <2>2. CASE member[s][r].life = "ACTIVE"
    <3>1. UNCHANGED <<scopeLife, member, projected, closedCalmly>> /\ Returns(c)
      BY <1>1, <2>2 DEF AddMembership
    <3>2. TenancyInv'
      BY <1>typ, <2>1, <3>1, ClerkReturns DEF TenancyTyped
    <3>3. QED
      BY <3>1, <3>2 DEF KeepsGrants, MemberOf
  <2>3. CASE member[s][r].life # "ACTIVE"
    <3> DEFINE m == [life |-> "ACTIVE", expires |-> clerk[c].arg]
    <3>1. m \in Membership
      BY <2>1 DEF Membership
    <3>2. member' = [member EXCEPT ![s][r] = m] /\ UNCHANGED <<scopeLife, projected, closedCalmly>> /\ Returns(c)
      BY <1>1, <2>3 DEF AddMembership
    <3> HIDE DEF m, s, r
    <3>3. member' \in [Scope -> [Role -> Membership]] /\ \A t \in Scope \ {s} : member'[t] = member[t]
      BY <1>typ, <2>1, <3>1, <3>2 DEF TenancyTyped
    <3>4. \A q \in Role \ {r} : member'[s][q] = member[s][q]
      BY <1>typ, <2>1, <3>2 DEF TenancyTyped
    <3>5. TenancyInv'
      BY <1>typ, <2>1, <3>2, <3>3, ClerkReturns DEF TenancyTyped, s
    <3>6. \A t \in Scope, q \in Role : ActiveMembership(member[t][q]) => member'[t][q] = member[t][q]
      BY <2>3, <3>3, <3>4 DEF ActiveMembership
    <3>7. QED
      BY <3>5, <3>6, GrantStays DEF KeepsGrants
  <2>4. QED
    BY <2>2, <2>3
<1>2. ASSUME NEW c \in Clerk, RevokeMember(c) PROVE TenancyInv' /\ KeepsGrants
  <2> DEFINE s == clerk[c].scope
             rows == [r \in Role |-> IF clerk[c].role \in {r, "all"} THEN Archived(member[s][r]) ELSE member[s][r]]
  <2>1. s \in Scope /\ clerk[c].op = "revoke"
    BY <1>2 DEF RevokeMember, TenancyInv, CallOnScope
  <2>2. member' = [member EXCEPT ![s] = rows] /\ UNCHANGED <<scopeLife, projected, closedCalmly>> /\ Returns(c)
    BY <1>2, <1>typ, <2>1 DEF RevokeMember, TenancyTyped
  <2>3. rows \in [Role -> Membership]
    BY <1>typ, <2>1, ArchivedRow DEF TenancyTyped
  <2> HIDE DEF rows
  <2>4. member' \in [Scope -> [Role -> Membership]] /\ \A t \in Scope \ {s} : member'[t] = member[t]
    BY <1>typ, <2>1, <2>2, <2>3 DEF TenancyTyped
  <2>5. TenancyInv' /\ clerk'[c].op = "free"
    BY <1>typ, <2>1, <2>2, <2>4, ClerkReturns DEF TenancyTyped
  <2>6. QED
    BY <2>1, <2>5 DEF KeepsGrants
<1>3. ASSUME NEW c \in Clerk, ArchiveExpired(c) PROVE TenancyInv' /\ KeepsGrants
  <2> DEFINE s == clerk[c].scope
             rows == [r \in Role |-> IF Lapsed(member[s][r]) THEN Archived(member[s][r]) ELSE member[s][r]]
  <2>1. s \in Scope /\ clerk[c].op # "free"
    BY <1>3 DEF ArchiveExpired, TenancyInv, CallOnScope
  <2>2. member' = [member EXCEPT ![s] = rows] /\ UNCHANGED <<scopeLife, projected, closedCalmly>> /\ Returns(c)
    BY <1>3, <1>typ, <2>1 DEF ArchiveExpired, TenancyTyped
  <2>3. rows \in [Role -> Membership]
    BY <1>typ, <2>1, ArchivedRow DEF TenancyTyped
  <2>4. \A r \in Role : ActiveMembership(member[s][r]) => rows[r] = member[s][r]
    BY DEF ActiveMembership, Lapsed
  <2> HIDE DEF rows, s
  <2>5. member' \in [Scope -> [Role -> Membership]] /\ \A t \in Scope \ {s} : member'[t] = member[t]
    BY <1>typ, <2>1, <2>2, <2>3 DEF TenancyTyped
  <2>6. TenancyInv'
    BY <1>typ, <2>1, <2>2, <2>5, ClerkReturns DEF TenancyTyped, s
  <2>7. member'[s] = rows
    BY <1>typ, <2>1, <2>2 DEF TenancyTyped
  <2>8. \A t \in Scope, q \in Role : ActiveMembership(member[t][q]) => member'[t][q] = member[t][q]
    BY <2>4, <2>5, <2>7
  <2>9. QED
    BY <2>6, <2>8, GrantStays DEF KeepsGrants
<1>4. ASSUME NEW c \in Clerk, FreezeScope(c) PROVE TenancyInv' /\ KeepsGrants
  <2>1. clerk[c].scope \in Scope /\ clerk[c].op # "free"
    BY <1>4 DEF FreezeScope, TenancyInv, CallOnScope
  <2>2. TenancyInv'
    BY <1>4, <1>typ, <2>1, ClerkReturns DEF FreezeScope, TenancyTyped
  <2>3. QED
    BY <1>4, <2>2 DEF FreezeScope, KeepsGrants, MemberOf
<1>5. ASSUME NEW c \in Clerk, ProjectObject(c) PROVE TenancyInv' /\ KeepsGrants
  <2>1. clerk[c].scope \in Scope /\ clerk[c].op # "free"
    BY <1>5 DEF ProjectObject, TenancyInv, CallOnScope
  <2>2. TenancyInv'
    BY <1>5, <1>typ, <2>1, ClerkReturns DEF ProjectObject, TenancyTyped
  <2>3. QED
    BY <1>5, <2>2 DEF ProjectObject, KeepsGrants, MemberOf
<1>6. ASSUME NEW c \in Clerk, ArchiveScope(c) PROVE TenancyInv' /\ KeepsGrants
  <2> DEFINE s == clerk[c].scope
             rows == [r \in Role |-> Archived(member[s][r])]
  <2>1. s \in Scope /\ clerk[c].op = "archive"
    BY <1>6 DEF ArchiveScope, TenancyInv, CallOnScope
  <2>2. /\ member' = [member EXCEPT ![s] = rows] /\ Returns(c)
        /\ projected' = [projected EXCEPT ![s] = IF projected[s] = "none" THEN projected[s] ELSE "ARCHIVED"]
        /\ scopeLife' = [scopeLife EXCEPT ![s] = "ARCHIVED"]
        /\ closedCalmly' = IF \E d \in Clerk \ {c} : clerk[d].scope = s THEN closedCalmly
                           ELSE closedCalmly \union {s}
    BY <1>6, <1>typ, <2>1 DEF ArchiveScope, TenancyTyped
  <2>3. rows \in [Role -> Membership] /\ \A r \in Role : rows[r].life # "ACTIVE"
    BY <1>typ, <2>1, ArchivedRow DEF TenancyTyped
  <2> HIDE DEF rows, s
  <2>4. /\ member' \in [Scope -> [Role -> Membership]] /\ member'[s] = rows
        /\ \A t \in Scope \ {s} : member'[t] = member[t]
    BY <1>typ, <2>1, <2>2, <2>3 DEF TenancyTyped
  <2>5. /\ projected' \in [Scope -> {"none", "ACTIVE", "ARCHIVED"}] /\ projected'[s] # "ACTIVE"
        /\ \A t \in Scope \ {s} : projected'[t] = projected[t]
    BY <1>typ, <2>1, <2>2 DEF TenancyTyped
  <2>6. /\ scopeLife' \in [Scope -> {"none", "ACTIVE", "FROZEN", "ARCHIVED"}] /\ scopeLife'[s] = "ARCHIVED"
        /\ \A t \in Scope \ {s} : scopeLife'[t] = scopeLife[t]
    BY <1>typ, <2>1, <2>2 DEF TenancyTyped
  <2>7. /\ clerk' \in [Clerk -> ClerkCall] /\ clerk'[c] = Free
        /\ \A d \in Clerk \ {c} : clerk'[d] = clerk[d]
    BY <1>typ, <2>2, FreeCall DEF Returns, TenancyTyped
  <2>8. TenancyTyped'
    <3>1. closedCalmly' \subseteq Scope
      BY <1>typ, <2>1, <2>2 DEF TenancyTyped
    <3>2. QED
      BY <2>4, <2>5, <2>6, <2>7, <3>1 DEF TenancyTyped
  <2>9. \A d \in Clerk : CallOnScope(clerk[d])'
    BY <2>7, FreeCall DEF TenancyInv, CallOnScope
  <2>10. ASSUME NEW t \in closedCalmly' PROVE ClosedAndLeft(t)'
    <3>1. CASE t \in closedCalmly
      <4>1. ClosedAndLeft(t) /\ t \in Scope
        BY <1>typ, <3>1 DEF TenancyInv, TenancyTyped
      <4>2. t # s /\ t # NoScope
        BY <4>1, TenancyAssumption DEF ClosedAndLeft, s
      <4>3. \A d \in Clerk : clerk'[d].scope # t
        BY <2>7, <4>1, <4>2, FreeCall DEF ClosedAndLeft
      <4>4. QED
        BY <2>4, <2>5, <2>6, <4>1, <4>2, <4>3 DEF ClosedAndLeft
    <3>2. CASE t \notin closedCalmly
      <4>1. t = s /\ \A d \in Clerk \ {c} : clerk[d].scope # s
        BY <2>2, <2>10, <3>2
      <4>2. s # NoScope
        BY <2>1, TenancyAssumption
      <4>3. \A d \in Clerk : clerk'[d].scope # t
        BY <2>7, <4>1, <4>2, FreeCall
      <4>4. QED
        BY <2>3, <2>4, <2>5, <2>6, <4>1, <4>3 DEF ClosedAndLeft
    <3>3. QED
      BY <3>1, <3>2
  <2>11. KeepsGrants
    BY <2>1, <2>7, FreeCall DEF KeepsGrants
  <2>12. QED
    BY <2>8, <2>9, <2>10, <2>11 DEF TenancyInv
<1>7. ASSUME NEW s \in Scope, CreateScope(s) PROVE TenancyInv' /\ KeepsGrants
  <2>1. /\ scopeLife' \in [Scope -> {"none", "ACTIVE", "FROZEN", "ARCHIVED"}]
        /\ \A t \in Scope \ {s} : scopeLife'[t] = scopeLife[t]
        /\ s \notin closedCalmly /\ UNCHANGED <<member, projected, clerk, closedCalmly>>
    BY <1>7, <1>typ, <1>open DEF CreateScope, TenancyTyped
  <2>2. TenancyTyped'
    BY <1>typ, <2>1 DEF TenancyTyped
  <2>3. \A t \in closedCalmly' : ClosedAndLeft(t)'
    BY <1>typ, <2>1 DEF TenancyInv, TenancyTyped, ClosedAndLeft
  <2>4. \A c \in Clerk : CallOnScope(clerk[c])'
    BY <2>1 DEF TenancyInv, CallOnScope
  <2>5. QED
    BY <2>1, <2>2, <2>3, <2>4 DEF TenancyInv, KeepsGrants, MemberOf
<1>8. ASSUME NEW s \in Scope, RevokeProjection(s) PROVE TenancyInv' /\ KeepsGrants
  <2>1. /\ projected' \in [Scope -> {"none", "ACTIVE", "ARCHIVED"}] /\ projected'[s] # "ACTIVE"
        /\ \A t \in Scope \ {s} : projected'[t] = projected[t]
        /\ UNCHANGED <<scopeLife, member, clerk, closedCalmly>>
    BY <1>8, <1>typ DEF RevokeProjection, TenancyTyped
  <2>2. TenancyTyped'
    BY <1>typ, <2>1 DEF TenancyTyped
  <2>3. \A t \in closedCalmly' : ClosedAndLeft(t)'
    BY <1>typ, <2>1 DEF TenancyInv, TenancyTyped, ClosedAndLeft
  <2>4. \A c \in Clerk : CallOnScope(clerk[c])'
    BY <2>1 DEF TenancyInv, CallOnScope
  <2>5. QED
    BY <2>1, <2>2, <2>3, <2>4 DEF TenancyInv, KeepsGrants, MemberOf
<1>9. ASSUME NEW s \in Scope, NEW r \in Role, MembershipExpires(s, r) PROVE TenancyInv' /\ KeepsGrants
  <2> DEFINE m == [member[s][r] EXCEPT !.expires = "past"]
  <2>1. m \in Membership /\ m.life = member[s][r].life /\ m.expires = "past" /\ member[s][r].expires = "later"
    <3>1. member[s][r] \in Membership
      BY <1>typ DEF TenancyTyped
    <3>2. m \in Membership /\ m.life = member[s][r].life /\ m.expires = "past"
      BY <3>1 DEF Membership
    <3>3. QED
      BY <1>9, <3>2 DEF MembershipExpires
  <2>2. member' = [member EXCEPT ![s][r] = m] /\ UNCHANGED <<scopeLife, projected, clerk, closedCalmly>>
    BY <1>9 DEF MembershipExpires
  <2> HIDE DEF m
  <2>3. /\ member' \in [Scope -> [Role -> Membership]] /\ \A t \in Scope \ {s} : member'[t] = member[t]
        /\ member'[s][r] = m /\ \A q \in Role \ {r} : member'[s][q] = member[s][q]
    BY <1>typ, <2>1, <2>2 DEF TenancyTyped
  <2>4. TenancyTyped'
    BY <1>typ, <2>2, <2>3 DEF TenancyTyped
  <2>5. \A t \in Scope, q \in Role : member'[t][q].life = member[t][q].life
    BY <2>1, <2>3
  <2>6. \A t \in closedCalmly' : ClosedAndLeft(t)'
    BY <1>typ, <2>2, <2>5 DEF TenancyInv, TenancyTyped, ClosedAndLeft
  <2>7. \A c \in Clerk : CallOnScope(clerk[c])'
    BY <2>2 DEF TenancyInv, CallOnScope
  <2>8. KeepsGrants
    <3>1. \A t \in Scope \ {s} : MemberOf(t) => MemberOf(t)'
      BY <2>3, GrantStays
    <3>2. QED
      BY <2>1, <2>3, <3>1 DEF KeepsGrants
  <2>9. QED
    BY <2>4, <2>6, <2>7, <2>8 DEF TenancyInv
<1>10. CASE UNCHANGED tenancyVars
  BY <1>10 DEF tenancyVars, TenancyInv, TenancyTyped, CallOnScope, ClosedAndLeft, KeepsGrants, MemberOf
<1>11. CASE TenancyNext
  <2>1. ASSUME NEW c \in Clerk, ClerkNext(c) PROVE TenancyInv' /\ KeepsGrants
    BY <2>1, <1>add, <1>rev, <1>lap, <1>frz, <1>arc, <1>prj, <1>1, <1>2, <1>3, <1>4, <1>5, <1>6
       DEF ClerkNext
  <2>2. QED
    BY <1>11, <2>1, <1>7, <1>8, <1>9 DEF TenancyNext
<1>12. QED
  BY <1>10, <1>11

\* ClosedForGood, ListMatchesSight and GrantsKept: a scope archived in calm
\* lets nobody in again, listing and checking agree, and memberships in force
\* end only as they may, for any scopes, roles, threads and hierarchy.
THEOREM ScopesStayClosed ==
  TenancySpec => [](TenancyTypeOK /\ ClosedForGood /\ ListMatchesSight) /\ GrantsKept
<1>1. TenancyInv /\ [TenancyNext]_tenancyVars => [KeepsGrants]_tenancyVars
  BY TenancyStep
<1>2. QED
  BY TenancyStart, TenancyStep, TenancyHolds, ListingAgrees, <1>1, PTL DEF TenancySpec, GrantsKept

-----------------------------------------------------------------------------
(* Settings and how they are inherited.                                    *)

SettingRow == [life : {"none", "ACTIVE", "ARCHIVED"}, value : Value \union {NoValue}]
SettingCall ==
  [op : {"rest", "update", "insert", "raised", "delete"}, at : Level \union {0}, value : Value \union {NoValue}]
Resolution ==
  [pc : {"rest", "read", "done"}, todo : Seq(Level), chain : Seq(Level \X (Value \union {NoValue}))]

SettingsTyped ==
  /\ setting \in [Level -> SettingRow]
  /\ sealed \subseteq Level
  /\ writing \in [SettingWriter -> SettingCall]
  /\ resolving \in Resolution
  /\ restless \in BOOLEAN

\* The first scope that resolve() looks at.
Top == IF Depth > ResolveDepth + 1 THEN Depth - ResolveDepth ELSE 1

\* The chain ends with the nearest setting of the scopes from Top to m.
ChainEnds(chain, m, rows) ==
  IF chain = <<>> THEN \A s \in Top..m : rows[s].life # "ACTIVE"
  ELSE \E s \in Top..m :
         /\ rows[s].life = "ACTIVE" /\ chain[Len(chain)] = <<s, rows[s].value>>
         /\ \A t \in (s + 1)..m : rows[t].life # "ACTIVE"

\* Where resolve() is, and what it knows if nothing was written since.
ResolveKnows ==
  /\ resolving.pc = "read" =>
       LET todo == resolving.todo
           from == Depth - Len(todo) + 1
       IN  /\ Len(todo) \in 1..(Depth - Top + 1)
           /\ \A i \in 1..Len(todo) : todo[i] = from + i - 1
           /\ restless = FALSE => ChainEnds(resolving.chain, Depth - Len(todo), setting)
  /\ resolving.pc = "done" /\ restless = FALSE => ChainEnds(resolving.chain, Depth, setting)

SettingsInv ==
  /\ SettingsTyped
  /\ \A w \in SettingWriter : writing[w].op \in {"update", "insert", "delete"} => writing[w].at \in Level
  /\ ResolveKnows

\* Numbers of the chain.
LEMMA TopTyped ==
  Top \in Level /\ Top \in Nat /\ 1 <= Top /\ Top <= Depth /\ Depth \in Nat /\ ResolveDepth \in Nat
  BY SettingsAssumption DEF Top, Level

\* The scopes within reach of resolve() are those from Top on.
LEMMA TopReaches == \A s \in Level : s >= Top <=> Depth - s <= ResolveDepth
  BY SettingsAssumption DEF Top, Level

\* The rows of a thread that writes nothing, and of nothing to resolve.
LEMMA SettingsRows ==
  /\ NoSetting \in SettingRow /\ Resting \in SettingCall /\ Resting.op = "rest"
  /\ Unresolved \in Resolution /\ Unresolved.pc = "rest"
  BY DEF NoSetting, SettingRow, Resting, SettingCall, Unresolved, Resolution

\* The invariant holds at the start.
LEMMA SettingsStart == SettingsInit => SettingsInv
<1> SUFFICES ASSUME SettingsInit PROVE SettingsInv
  OBVIOUS
<1>1. SettingsTyped
  BY SettingsRows DEF SettingsInit, SettingsTyped
<1>2. \A w \in SettingWriter : writing[w].op = "rest"
  BY SettingsRows DEF SettingsInit
<1>3. ResolveKnows
  BY SettingsRows DEF SettingsInit, ResolveKnows
<1>4. QED
  BY <1>1, <1>2, <1>3 DEF SettingsInv

\* The invariant gives the types and the nearest value.
LEMMA SettingsHold == SettingsInv => SettingsTypeOK /\ NearestWins
<1> SUFFICES ASSUME SettingsInv PROVE SettingsTypeOK /\ NearestWins
  OBVIOUS
<1>1. SettingsTypeOK
  <2>1. \A w \in SettingWriter : writing[w].op \in {"rest", "update", "insert", "raised", "delete"}
    BY DEF SettingsInv, SettingsTyped, SettingCall
  <2>2. resolving.pc \in {"rest", "read", "done"}
    BY DEF SettingsInv, SettingsTyped, Resolution
  <2>3. QED
    BY <2>1, <2>2 DEF SettingsInv, SettingsTyped, SettingsTypeOK, SettingRow
<1>2. NearestWins
  <2> SUFFICES ASSUME resolving.pc = "done", ~restless
               PROVE LET near == {s \in Level : HasSetting(s) /\ Depth - s <= ResolveDepth} IN
                     Winner(resolving.chain) =
                       IF near = {} THEN NoValue ELSE setting[CHOOSE s \in near : \A t \in near : t <= s].value
    BY DEF NearestWins
  <2> DEFINE near == {s \in Level : HasSetting(s) /\ Depth - s <= ResolveDepth}
             chain == resolving.chain
  <2>1. ChainEnds(chain, Depth, setting)
    BY DEF SettingsInv, SettingsTyped, ResolveKnows
  <2>2. near = {s \in Top..Depth : HasSetting(s)}
    BY TopTyped, TopReaches DEF Level
  <2>3. CASE chain = <<>>
    BY <2>1, <2>2, <2>3 DEF ChainEnds, Winner, HasSetting
  <2>4. CASE chain # <<>>
    <3>1. PICK s \in Top..Depth :
            /\ HasSetting(s) /\ chain[Len(chain)] = <<s, setting[s].value>>
            /\ \A t \in (s + 1)..Depth : ~HasSetting(t)
      BY <2>1, <2>4 DEF ChainEnds, HasSetting
    <3>2. Winner(chain) = setting[s].value
      BY <2>4, <3>1 DEF Winner, Last
    <3>3. s \in near
      BY <2>2, <3>1
    <3>4. ASSUME NEW t \in near PROVE t <= s
      <4>1. t \in Top..Depth /\ HasSetting(t) /\ t \in Nat /\ s \in Nat
        BY <2>2, TopTyped DEF Level
      <4>2. t \notin (s + 1)..Depth
        BY <3>1, <4>1
      <4>3. QED
        BY <4>1, <4>2, TopTyped
    <3>5. ASSUME NEW u \in near, \A t \in near : t <= u PROVE u = s
      <4>1. u <= s /\ s <= u /\ u \in Nat /\ s \in Nat
        BY <3>3, <3>4, <3>5, TopTyped DEF Level
      <4>2. QED
        BY <4>1
    <3> HIDE DEF near
    <3>6. (CHOOSE u \in near : \A t \in near : t <= u) = s
      BY <3>3, <3>4, <3>5
    <3>7. QED
      BY <3>2, <3>3, <3>6 DEF near
  <2>5. QED
    BY <2>3, <2>4
<1>3. QED
  BY <1>1, <1>2

\* A thread's call goes on.  Where it writes a setting, resolve() is restless.
LEMMA SettingWriterMoves ==
  ASSUME SettingsInv, NEW w \in SettingWriter, NEW k \in SettingCall,
         writing' = [writing EXCEPT ![w] = k], UNCHANGED <<sealed, resolving>>,
         k.op \in {"update", "insert", "delete"} => k.at \in Level,
         setting' \in [Level -> SettingRow],
         restless' = TRUE \/ UNCHANGED <<setting, restless>>
  PROVE  SettingsInv'
<1>1. /\ writing' \in [SettingWriter -> SettingCall] /\ writing'[w] = k
      /\ \A v \in SettingWriter \ {w} : writing'[v] = writing[v]
  BY DEF SettingsInv, SettingsTyped
<1>2. SettingsTyped'
  BY <1>1 DEF SettingsInv, SettingsTyped
<1>3. \A v \in SettingWriter : writing'[v].op \in {"update", "insert", "delete"} => writing'[v].at \in Level
  BY <1>1 DEF SettingsInv
<1>4. ResolveKnows'
  <2>1. CASE restless' = TRUE
    BY <2>1 DEF SettingsInv, ResolveKnows
  <2>2. CASE UNCHANGED <<setting, restless>>
    BY <2>2 DEF SettingsInv, ResolveKnows, ChainEnds, HasSetting
  <2>3. QED
    BY <2>1, <2>2
<1>5. QED
  BY <1>2, <1>3, <1>4 DEF SettingsInv

\* What resolve() reads next, and what it then knows.
LEMMA ChainGrows ==
  ASSUME SettingsInv, NEW s \in Nat,
         ChainEnds(resolving.chain, s - 1, setting), s \in Top..Depth
  PROVE  ChainEnds(IF HasSetting(s) THEN Append(resolving.chain, <<s, setting[s].value>>)
                   ELSE resolving.chain, s, setting)
<1> DEFINE chain == resolving.chain
           x == <<s, setting[s].value>>
<1>1. chain \in Seq(Level \X (Value \union {NoValue})) /\ s \in Level /\ s \in Nat
  BY TopTyped DEF SettingsInv, SettingsTyped, Resolution, Level
<1>2. CASE HasSetting(s)
  <2>1. setting[s].value \in Value \union {NoValue}
    BY <1>1 DEF SettingsInv, SettingsTyped, SettingRow
  <2>2. x \in Level \X (Value \union {NoValue})
    BY <1>1, <2>1
  <2> DEFINE longer == Append(chain, x)
  <2>3. longer # <<>> /\ longer[Len(longer)] = x
    BY <1>1, <2>2
  <2>4. \A t \in (s + 1)..s : ~HasSetting(t)
    BY <1>1
  <2> HIDE DEF longer
  <2>5. ChainEnds(longer, s, setting)
    BY <1>1, <1>2, <2>3, <2>4 DEF ChainEnds, HasSetting
  <2>6. QED
    BY <1>2, <2>5 DEF longer
<1>3. CASE ~HasSetting(s)
  <2>1. \A t \in Nat : t <= s => t <= s - 1 \/ t = s
    BY <1>1
  <2>2. CASE chain = <<>>
    <3>1. \A t \in Top..(s - 1) : ~HasSetting(t)
      BY <2>2 DEF ChainEnds, HasSetting
    <3>2. \A t \in Top..s : ~HasSetting(t)
      BY <1>1, <1>3, <3>1, TopTyped
    <3>3. QED
      BY <1>3, <2>2, <3>2 DEF ChainEnds, HasSetting
  <2>3. CASE chain # <<>>
    <3>1. PICK n \in Top..(s - 1) :
            /\ HasSetting(n) /\ chain[Len(chain)] = <<n, setting[n].value>>
            /\ \A t \in (n + 1)..(s - 1) : ~HasSetting(t)
      BY <2>3 DEF ChainEnds, HasSetting
    <3>2. n \in Top..s /\ n \in Nat
      BY <1>1, TopTyped DEF Level
    <3>3. \A t \in (n + 1)..s : ~HasSetting(t)
      BY <1>1, <1>3, <3>1, <3>2
    <3>4. QED
      BY <1>3, <2>3, <3>1, <3>2, <3>3 DEF ChainEnds, HasSetting
  <2>4. QED
    BY <2>2, <2>3
<1>4. QED
  BY <1>2, <1>3

\* Every step keeps the resolver's chain right.
LEMMA SettingsStep == SettingsInv /\ [SettingsNext]_settingsVars => SettingsInv'
<1> SUFFICES ASSUME SettingsInv, [SettingsNext]_settingsVars PROVE SettingsInv'
  OBVIOUS
<1>typ. SettingsTyped
  BY DEF SettingsInv
<1>call. \A w \in SettingWriter : writing[w] \in SettingCall /\ writing[w].value \in Value \union {NoValue}
  BY <1>typ DEF SettingsTyped, SettingCall
<1>row. \A s \in Level : setting[s] \in SettingRow
  BY <1>typ DEF SettingsTyped
<1>1. ASSUME NEW w \in SettingWriter, NEW s \in Level, DeleteReads(w, s) PROVE SettingsInv'
  <2> DEFINE k == [op |-> "delete", at |-> s, value |-> NoValue]
  <2>1. k \in SettingCall /\ k.at \in Level
    BY DEF SettingCall
  <2>2. writing' = [writing EXCEPT ![w] = k] /\ UNCHANGED <<setting, sealed, resolving, restless>>
    BY <1>1 DEF DeleteReads
  <2> HIDE DEF k
  <2>3. QED
    BY <1>typ, <2>1, <2>2, SettingWriterMoves DEF SettingsTyped
<1>2. ASSUME NEW w \in SettingWriter, NEW s \in Level, NEW v \in Value, SetReads(w, s, v) PROVE SettingsInv'
  <2> DEFINE op == IF HasSetting(s) THEN "update" ELSE "insert"
             k == [op |-> op, at |-> s, value |-> v]
  <2>1. op \in {"update", "insert"}
    OBVIOUS
  <2>2. writing' = [writing EXCEPT ![w] = k] /\ UNCHANGED <<setting, sealed, resolving, restless>>
    BY <1>2 DEF SetReads
  <2> HIDE DEF op
  <2>3. k \in SettingCall /\ k.at \in Level
    BY <2>1 DEF SettingCall
  <2> HIDE DEF k
  <2>4. QED
    BY <1>typ, <2>2, <2>3, SettingWriterMoves DEF SettingsTyped
<1>3. ASSUME NEW w \in SettingWriter, SetUpdates(w) PROVE SettingsInv'
  <2> DEFINE s == writing[w].at
             row == [setting[s] EXCEPT !.value = writing[w].value]
  <2>1. s \in Level
    BY <1>3 DEF SetUpdates, SettingsInv
  <2>2. row \in SettingRow
    BY <1>call, <1>row, <2>1 DEF SettingRow
  <2>3. /\ setting' = [setting EXCEPT ![s] = row] /\ writing' = [writing EXCEPT ![w] = Resting]
        /\ restless' = TRUE /\ UNCHANGED <<sealed, resolving>>
    BY <1>3 DEF SetUpdates
  <2> HIDE DEF row, s
  <2>4. setting' \in [Level -> SettingRow]
    BY <1>typ, <2>1, <2>2, <2>3 DEF SettingsTyped
  <2>5. QED
    BY <2>3, <2>4, SettingsRows, SettingWriterMoves
<1>4. ASSUME NEW w \in SettingWriter, SetInserts(w) PROVE SettingsInv'
  <2> DEFINE s == writing[w].at
             row == [life |-> "ACTIVE", value |-> writing[w].value]
  <2>1. s \in Level
    BY <1>4 DEF SetInserts, SettingsInv
  <2>2. row \in SettingRow
    BY <1>call DEF SettingRow
  <2>3. /\ setting' = [setting EXCEPT ![s] = row] /\ writing' = [writing EXCEPT ![w] = Resting]
        /\ restless' = TRUE /\ UNCHANGED <<sealed, resolving>>
    BY <1>4 DEF SetInserts
  <2> HIDE DEF row, s
  <2>4. setting' \in [Level -> SettingRow]
    BY <1>typ, <2>1, <2>2, <2>3 DEF SettingsTyped
  <2>5. QED
    BY <2>3, <2>4, SettingsRows, SettingWriterMoves
<1>5. ASSUME NEW w \in SettingWriter, SetFails(w) \/ SetRaised(w) PROVE SettingsInv'
  <2> DEFINE k == [Resting EXCEPT !.op = "raised"]
  <2>1. k \in SettingCall /\ k.op = "raised"
    BY SettingsRows DEF SettingCall, Resting
  <2>2. /\ writing' = [writing EXCEPT ![w] = k] \/ writing' = [writing EXCEPT ![w] = Resting]
        /\ UNCHANGED <<setting, sealed, resolving, restless>>
    BY <1>5 DEF SetFails, SetRaised
  <2> HIDE DEF k
  <2>3. QED
    BY <1>typ, <2>1, <2>2, SettingsRows, SettingWriterMoves DEF SettingsTyped
<1>6. ASSUME NEW w \in SettingWriter, DeleteWrites(w) PROVE SettingsInv'
  <2> DEFINE s == writing[w].at
             row == [setting[s] EXCEPT !.life = "ARCHIVED"]
  <2>1. s \in Level
    BY <1>6 DEF DeleteWrites, SettingsInv
  <2>2. row \in SettingRow
    BY <1>row, <2>1 DEF SettingRow
  <2>3. /\ setting' = [setting EXCEPT ![s] = row] /\ writing' = [writing EXCEPT ![w] = Resting]
        /\ restless' = TRUE /\ UNCHANGED <<sealed, resolving>>
    BY <1>6 DEF DeleteWrites
  <2> HIDE DEF row, s
  <2>4. setting' \in [Level -> SettingRow]
    BY <1>typ, <2>1, <2>2, <2>3 DEF SettingsTyped
  <2>5. QED
    BY <2>3, <2>4, SettingsRows, SettingWriterMoves
<1>7. ASSUME NEW s \in Level, Seal(s) PROVE SettingsInv'
  BY <1>7 DEF Seal, SettingsInv, SettingsTyped, ResolveKnows, ChainEnds, HasSetting
<1>8. CASE ResolveBegins
  <2> DEFINE n == Depth - Top + 1
             c == [pc |-> "read", todo |-> ScopeChain, chain |-> <<>>]
  <2>1. n \in Nat /\ n >= 1 /\ Depth - n = Top - 1 /\ Depth - n + 1 = Top
    BY TopTyped DEF Level
  <2>2. ScopeChain = [i \in 1..n |-> Top + i - 1]
    BY DEF ScopeChain, Top
  <2>3. \A i \in 1..n : Top + i - 1 \in Level
    BY <2>1, TopTyped DEF Level
  <2>4. ScopeChain \in Seq(Level) /\ Len(ScopeChain) = n /\ \A i \in 1..n : ScopeChain[i] = Top + i - 1
    BY <2>1, <2>2, <2>3
  <2>5. <<>> \in Seq(Level \X (Value \union {NoValue}))
    OBVIOUS
  <2>6. c \in Resolution /\ c.pc = "read" /\ c.todo = ScopeChain /\ c.chain = <<>>
    BY <2>4, <2>5 DEF Resolution
  <2>7. resolving' = c /\ restless' = FALSE /\ UNCHANGED <<setting, sealed, writing>>
    BY <1>8 DEF ResolveBegins
  <2> HIDE DEF c, n
  <2>8. SettingsTyped'
    BY <1>typ, <2>6, <2>7 DEF SettingsTyped
  <2>9. ChainEnds(<<>>, Depth - n, setting)
    BY <2>1, TopTyped DEF ChainEnds, Level
  <2>10. n = Depth - Top + 1
    BY DEF n
  <2>11. ResolveKnows'
    BY <2>1, <2>4, <2>6, <2>7, <2>9, <2>10 DEF ResolveKnows
  <2>12. QED
    BY <2>7, <2>8, <2>11 DEF SettingsInv
<1>9. CASE ResolveReads
  <2> DEFINE todo == resolving.todo
             chain == resolving.chain
             s == Head(todo)
             longer == IF HasSetting(s) THEN Append(chain, <<s, setting[s].value>>) ELSE chain
             pc == IF Len(todo) = 1 THEN "done" ELSE "read"
             c == [pc |-> pc, todo |-> Tail(todo), chain |-> longer]
  <2>1. resolving.pc = "read" /\ resolving' = c /\ UNCHANGED <<setting, sealed, writing, restless>>
    BY <1>9 DEF ResolveReads
  <2>2. todo \in Seq(Level) /\ chain \in Seq(Level \X (Value \union {NoValue}))
    BY <1>typ DEF SettingsTyped, Resolution
  <2>3. /\ Len(todo) \in 1..(Depth - Top + 1)
        /\ \A i \in 1..Len(todo) : todo[i] = Depth - Len(todo) + 1 + i - 1
        /\ restless = FALSE => ChainEnds(chain, Depth - Len(todo), setting)
    BY <2>1 DEF SettingsInv, ResolveKnows
  <2>4. todo # <<>> /\ s = Depth - Len(todo) + 1 /\ s \in Top..Depth /\ s \in Level /\ Len(todo) \in Nat
    <3>1. Len(todo) \in Nat /\ Len(todo) >= 1 /\ todo # <<>> /\ s = todo[1]
      BY <2>2, <2>3, TopTyped
    <3>2. todo[1] = Depth - Len(todo) + 1 + 1 - 1
      BY <2>3, <3>1
    <3> HIDE DEF s, todo
    <3>3. s = Depth - Len(todo) + 1
      BY <3>1, <3>2, TopTyped
    <3>4. s \in Top..Depth /\ s \in Level
      BY <2>3, <3>1, <3>3, TopTyped DEF Level
    <3>5. QED
      BY <3>1, <3>3, <3>4
  <2>5. Tail(todo) \in Seq(Level) /\ Len(Tail(todo)) = Len(todo) - 1 /\ \A i \in 1..Len(Tail(todo)) : Tail(todo)[i] = todo[i + 1]
    BY <2>2, <2>4
  <2>6. setting[s].value \in Value \union {NoValue}
    BY <1>row, <2>4 DEF SettingRow
  <2>7. longer \in Seq(Level \X (Value \union {NoValue}))
    BY <2>2, <2>4, <2>6
  <2>8. restless = FALSE => ChainEnds(longer, s, setting)
    <3> HIDE DEF s
    <3>1. s - 1 = Depth - Len(todo) /\ s \in Nat
      <4> HIDE DEF todo
      <4>1. QED
        BY <2>4, TopTyped
    <3>2. QED
      BY <2>1, <2>3, <2>4, <3>1, ChainGrows
  <2>9. pc \in {"read", "done"} /\ (pc = "done" <=> Len(todo) = 1)
    OBVIOUS
  <2> DEFINE rest == Tail(todo)
  <2> HIDE DEF longer, pc, s, todo, chain, rest
  <2>10. c = [pc |-> pc, todo |-> rest, chain |-> longer]
    BY DEF rest
  <2>11. c \in Resolution /\ c.pc = pc /\ c.todo = rest /\ c.chain = longer
    BY <2>5, <2>7, <2>9, <2>10 DEF Resolution, rest
  <2> HIDE DEF c
  <2>12. SettingsTyped'
    BY <1>typ, <2>1, <2>11 DEF SettingsTyped
  <2>13. restless' = FALSE => ChainEnds(longer, s, setting')
    BY <2>1, <2>8
  <2>14. ResolveKnows'
    <3>1. Len(rest) = Len(todo) - 1 /\ s = Depth - Len(rest)
      BY <2>4, <2>5, TopTyped DEF rest
    <3>2. CASE pc = "done"
      <4>1. s = Depth
        BY <2>4, <2>9, <3>1, <3>2, TopTyped
      <4>2. QED
        BY <2>1, <2>11, <2>13, <3>2, <4>1 DEF ResolveKnows
    <3>3. CASE pc = "read"
      <4>1. Len(rest) \in 1..(Depth - Top + 1)
        BY <2>3, <2>9, <3>1, <3>3, TopTyped DEF Level
      <4>2. \A i \in 1..Len(rest) : rest[i] = Depth - Len(rest) + 1 + i - 1
        <5>1. ASSUME NEW i \in 1..Len(rest) PROVE rest[i] = Depth - Len(rest) + 1 + i - 1
          <6>1. i + 1 \in 1..Len(todo) /\ i \in Nat
            BY <2>4, <3>1
          <6>2. rest[i] = Depth - Len(todo) + 1 + (i + 1) - 1
            BY <2>3, <2>5, <6>1 DEF rest
          <6>3. QED
            BY <2>4, <3>1, <6>1, <6>2, TopTyped
        <5>2. QED
          BY <5>1
      <4>3. QED
        BY <2>1, <2>11, <2>13, <3>1, <3>3, <4>1, <4>2 DEF ResolveKnows
    <3>4. QED
      BY <2>9, <3>2, <3>3
  <2>15. QED
    BY <2>1, <2>12, <2>14 DEF SettingsInv
<1>10. CASE ResolveReturns
  <2>1. resolving' = Unresolved /\ UNCHANGED <<setting, sealed, writing, restless>>
    BY <1>10 DEF ResolveReturns
  <2>2. QED
    BY <1>typ, <2>1, SettingsRows DEF SettingsInv, SettingsTyped, ResolveKnows
<1>11. CASE UNCHANGED settingsVars
  BY <1>11 DEF settingsVars, SettingsInv, SettingsTyped, ResolveKnows, ChainEnds, HasSetting
<1>12. QED
  BY <1>1, <1>2, <1>3, <1>4, <1>5, <1>6, <1>7, <1>8, <1>9, <1>10, <1>11 DEF SettingsNext

\* NearestWins: for any depth of nesting, depth of resolution and number of
\* writers, a resolve() that no write overlaps gives the nearest value.
THEOREM NearestSettingWins == SettingsSpec => [](SettingsTypeOK /\ NearestWins)
  BY SettingsStart, SettingsStep, SettingsHold, PTL DEF SettingsSpec

-----------------------------------------------------------------------------
(* The secret vault.                                                       *)

SecretRow == [life : {"none", "ACTIVE", "ARCHIVED"}, current : 0..MaxSecretVersion,
              rows : SUBSET (1..MaxSecretVersion), expired : BOOLEAN, made : BOOLEAN]
AnyScope == VaultScope \union {Nowhere}
RefRow == [life : {"none", "ACTIVE", "REVOKED"}, expired : BOOLEAN, scope : AnyScope]
HandCall ==
  [pc : {"rest", "first", "insert", "point", "revokeAll", "grant", "secret", "policy", "version",
         "plaintext", "missing", "denied"},
   ver : 0..MaxSecretVersion, ref : Ref \union {"none"}, from : AnyScope, open : BOOLEAN,
   logged : BOOLEAN]

VaultTyped ==
  /\ secret \in SecretRow
  /\ ref \in [Ref -> RefRow]
  /\ refPolicies \subseteq AllowedScopes
  /\ aged \in BOOLEAN
  /\ hand \in [Hand -> HandCall]

\* The versions: all from the second to the current one, and perhaps the next.
VersionsInRow ==
  /\ secret.life = "none" => secret.current = 0 /\ secret.rows = {} /\ secret.made = FALSE
  /\ secret.life # "none" => secret.current >= 1
  /\ \A v \in secret.rows : v <= secret.current + 1
  /\ \A v \in 2..secret.current : v \in secret.rows
  /\ secret.made = TRUE => 1 \in secret.rows

RefsOfSecret == \A r \in Ref : ref[r].life # "none" => secret.life # "none"

\* What the thread that is at this point of a call can rely on.
HandKnows(c) ==
  /\ c.pc \in {"first", "insert", "point", "grant", "secret", "policy"} => secret.life # "none"
  /\ c.pc = "insert" => 2 <= c.ver /\ c.ver <= secret.current + 1
  /\ c.pc = "point" => c.ver = secret.current + 1 /\ c.ver \in secret.rows
  /\ c.pc = "secret" => c.open = TRUE \/ ~SecretUsable \/ ~GrantAllowed(c.from)
  /\ c.pc = "policy" => c.open = TRUE \/ ~GrantAllowed(c.from)
  /\ c.pc \in {"version", "plaintext"} => c.open = TRUE

\* One rotation at a time is past its insert.
OnePointer == \A h, k \in Hand : hand[h].pc = "point" /\ hand[k].pc = "point" => h = k

VaultInv ==
  /\ VaultTyped
  /\ VersionsInRow
  /\ RefsOfSecret
  /\ \A h \in Hand : HandKnows(hand[h])
  /\ OnePointer

\* The invariant holds at the start.
LEMMA VaultStart == VaultInit => VaultInv
<1> SUFFICES ASSUME VaultInit PROVE VaultInv
  OBVIOUS
<1>0. MaxSecretVersion \in Nat
  BY VaultAssumption
<1>1. secret \in SecretRow /\ secret.life = "none" /\ secret.current = 0 /\ secret.rows = {}
      /\ secret.made = FALSE
  BY <1>0 DEF VaultInit, NoSecret, SecretRow
<1>2. ref \in [Ref -> RefRow] /\ \A r \in Ref : ref[r].life = "none"
  BY DEF VaultInit, NoRef, RefRow, AnyScope
<1>3. hand \in [Hand -> HandCall] /\ \A h \in Hand : hand[h].pc = "rest"
  BY <1>0 DEF VaultInit, HandAtRest, HandCall, AnyScope
<1>4. VaultTyped
  BY <1>1, <1>2, <1>3 DEF VaultTyped, VaultInit
<1>5. VersionsInRow /\ RefsOfSecret
  BY <1>1, <1>2 DEF VersionsInRow, RefsOfSecret
<1>6. QED
  BY <1>3, <1>4, <1>5 DEF VaultInv, HandKnows, OnePointer

\* A policy more never allows what was refused before.
LEMMA PoliciesRestrict ==
  ASSUME refPolicies \subseteq refPolicies', NEW s, ~GrantAllowed(s)
  PROVE  ~GrantAllowed(s)'
BY DEF GrantAllowed, ScopeAllowed

\* A thread goes on and the tables stay.
LEMMA HandMoves ==
  ASSUME VaultInv, NEW h \in Hand, NEW c \in HandCall,
         hand' = [hand EXCEPT ![h] = c], UNCHANGED <<secret, ref, refPolicies, aged>>,
         HandKnows(c), c.pc # "point"
  PROVE  VaultInv'
<1>1. /\ hand' \in [Hand -> HandCall] /\ hand'[h] = c
      /\ \A k \in Hand \ {h} : hand'[k] = hand[k]
  BY DEF VaultInv, VaultTyped
<1>2. VaultTyped'
  BY <1>1 DEF VaultInv, VaultTyped
<1>3. VersionsInRow' /\ RefsOfSecret'
  BY DEF VaultInv, VersionsInRow, RefsOfSecret
<1>4. OnePointer'
  BY <1>1 DEF VaultInv, OnePointer
<1>5. \A k \in Hand : HandKnows(hand[k])'
  <2>1. ASSUME NEW d, HandKnows(d) PROVE HandKnows(d)'
    BY <2>1 DEF HandKnows, SecretUsable, GrantAllowed, ScopeAllowed
  <2>2. HandKnows(hand[h])'
    BY <1>1, <2>1 DEF HandKnows, SecretUsable, GrantAllowed, ScopeAllowed
  <2>3. ASSUME NEW k \in Hand \ {h} PROVE HandKnows(hand[k])'
    <3>1. HandKnows(hand[k]) /\ hand'[k] = hand[k]
      BY <1>1 DEF VaultInv
    <3>2. QED
      BY <3>1 DEF HandKnows, SecretUsable, GrantAllowed, ScopeAllowed
  <2>4. QED
    BY <2>2, <2>3
<1>6. QED
  BY <1>2, <1>3, <1>4, <1>5 DEF VaultInv

\* A thread at rest relies on nothing.
LEMMA RestKnows == HandAtRest \in HandCall /\ HandAtRest.pc = "rest" /\ HandKnows(HandAtRest)
<1>1. HandAtRest \in HandCall /\ HandAtRest.pc = "rest"
  BY VaultAssumption DEF HandAtRest, HandCall, AnyScope
<1>2. QED
  BY <1>1 DEF HandKnows

\* A thread whose call ends or dies.
LEMMA HandRests ==
  ASSUME VaultInv, NEW h \in Hand, Rests(h), UNCHANGED <<secret, ref, refPolicies, aged>>
  PROVE  VaultInv'
BY RestKnows, HandMoves DEF Rests

\* What a thread relies on stays true: versions are only added, a policy only
\* restricts, and what was archived or has expired stays so.
LEMMA KnowledgeStays ==
  ASSUME VaultInv, NEW d \in HandCall, HandKnows(d),
         secret'.current = secret.current, secret.rows \subseteq secret'.rows,
         secret.life # "none" => secret'.life # "none",
         secret.life # "none" /\ ~SecretUsable => ~SecretUsable',
         refPolicies \subseteq refPolicies'
  PROVE  HandKnows(d)'
<1>1. ~GrantAllowed(d.from) => ~GrantAllowed(d.from)'
  BY DEF GrantAllowed, ScopeAllowed
<1>2. d.pc = "point" => d.ver = secret'.current + 1 /\ d.ver \in secret'.rows
  BY DEF HandKnows
<1>3. d.pc = "secret" => d.open = TRUE \/ ~SecretUsable' \/ ~GrantAllowed(d.from)'
  BY <1>1 DEF HandKnows
<1>4. d.pc = "policy" => d.open = TRUE \/ ~GrantAllowed(d.from)'
  BY <1>1 DEF HandKnows
<1>5. d.pc \in {"first", "insert", "point", "grant", "secret", "policy"} => secret'.life # "none"
  BY DEF HandKnows
<1>6. d.pc = "insert" => 2 <= d.ver /\ d.ver <= secret'.current + 1
  BY DEF HandKnows
<1>7. d.pc \in {"version", "plaintext"} => d.open = TRUE
  BY DEF HandKnows
<1>8. QED
  BY <1>2, <1>3, <1>4, <1>5, <1>6, <1>7 DEF HandKnows

\* What every thread does in a step of another one.
LEMMA OthersStay ==
  ASSUME VaultInv, NEW h \in Hand, NEW c \in HandCall, hand' = [hand EXCEPT ![h] = c]
  PROVE  /\ hand' \in [Hand -> HandCall] /\ hand'[h] = c
         /\ \A k \in Hand \ {h} : hand'[k] = hand[k] /\ hand[k] \in HandCall /\ HandKnows(hand[k])
BY DEF VaultInv, VaultTyped

\* create_secret() writes the row.
LEMMA SecretCreated ==
  ASSUME VaultInv, NEW h \in Hand, CreateSecret(h)
  PROVE  VaultInv' /\ RotatesForward
<1> DEFINE c == [hand[h] EXCEPT !.pc = "first"]
<1>0. MaxSecretVersion \in Nat /\ 1 <= MaxSecretVersion
  BY VaultAssumption
<1>1. secret.life = "none" /\ secret.current = 0 /\ secret.rows = {}
  BY DEF CreateSecret, VaultInv, VersionsInRow
<1>2. /\ secret' \in SecretRow /\ secret'.life = "ACTIVE" /\ secret'.current = 1
      /\ secret'.rows = {} /\ secret'.made = FALSE
  <2>1. secret' = [NoSecret EXCEPT !.life = "ACTIVE", !.current = 1]
    BY DEF CreateSecret
  <2>2. 1 \in 0..MaxSecretVersion
    BY <1>0
  <2>3. QED
    BY <2>1, <2>2 DEF NoSecret, SecretRow
<1>3. hand[h] \in HandCall
  BY DEF VaultInv, VaultTyped
<1>4. c \in HandCall /\ c.pc = "first"
  BY <1>3 DEF HandCall
<1>5. hand' = [hand EXCEPT ![h] = c]
  BY DEF CreateSecret, Steps
<1> HIDE DEF c
<1>6. /\ hand' \in [Hand -> HandCall] /\ hand'[h] = c
      /\ \A k \in Hand \ {h} : hand'[k] = hand[k] /\ hand[k] \in HandCall /\ HandKnows(hand[k])
  BY <1>4, <1>5, OthersStay
<1>7. VaultTyped'
  BY <1>2, <1>6 DEF VaultInv, VaultTyped, CreateSecret
<1>8. VersionsInRow' /\ RefsOfSecret'
  BY <1>2 DEF VersionsInRow, RefsOfSecret
<1>9. \A k \in Hand : HandKnows(hand[k])'
  <2>1. HandKnows(hand[h])'
    BY <1>2, <1>4, <1>6 DEF HandKnows
  <2>2. ASSUME NEW k \in Hand \ {h} PROVE HandKnows(hand[k])'
    <3>1. hand[k].pc \notin {"first", "insert", "point", "grant", "secret", "policy"}
      BY <1>1, <1>6 DEF HandKnows
    <3>2. QED
      BY <1>6, <3>1 DEF HandKnows
  <2>3. QED
    BY <2>1, <2>2
<1>10. OnePointer'
  BY <1>4, <1>6 DEF VaultInv, OnePointer
<1>11. RotatesForward
  BY <1>1, <1>2 DEF RotatesForward
<1>12. QED
  BY <1>7, <1>8, <1>9, <1>10, <1>11 DEF VaultInv

\* A step that keeps the current version, adds none but the first and rests.
LEMMA SecretKept ==
  ASSUME VaultInv, NEW h \in Hand, NEW c \in HandCall, c.pc \in {"rest", "revokeAll"},
         hand' = [hand EXCEPT ![h] = c] \/ hand' = hand,
         secret' \in SecretRow, secret'.current = secret.current,
         secret.life = "none" => secret' = secret,
         secret.life # "none" => secret'.life # "none",
         secret'.rows \in {secret.rows, secret.rows \union {1}},
         secret'.made = TRUE => secret.made = TRUE \/ 1 \in secret'.rows,
         secret.life # "none" /\ ~SecretUsable => ~SecretUsable',
         ref' \in [Ref -> RefRow], RefsOfSecret',
         refPolicies \subseteq refPolicies', refPolicies' \subseteq AllowedScopes,
         aged' \in BOOLEAN
  PROVE  VaultInv' /\ RotatesForward
<1>1. /\ hand' \in [Hand -> HandCall] /\ (hand' = hand \/ hand'[h] = c)
      /\ \A k \in Hand \ {h} : hand'[k] = hand[k]
  BY OthersStay DEF VaultInv, VaultTyped
<1>2. VaultTyped'
  BY <1>1 DEF VaultTyped
<1>3. secret \in SecretRow /\ secret.current \in Nat /\ secret.rows \subseteq Nat
      /\ MaxSecretVersion \in Nat
  BY VaultAssumption DEF VaultInv, VaultTyped, SecretRow
<1>4. VersionsInRow'
  <2>1. CASE secret.life = "none"
    BY <2>1 DEF VaultInv, VersionsInRow
  <2>2. CASE secret.life # "none"
    <3>1. secret.current >= 1 /\ \A v \in secret'.rows : v <= secret.current + 1
      BY <1>3, <2>2 DEF VaultInv, VersionsInRow
    <3>2. \A v \in 2..secret.current : v \in secret'.rows
      BY DEF VaultInv, VersionsInRow
    <3>3. secret'.made = TRUE => 1 \in secret'.rows
      BY DEF VaultInv, VersionsInRow
    <3>4. QED
      BY <2>2, <3>1, <3>2, <3>3 DEF VersionsInRow
  <2>3. QED
    BY <2>1, <2>2
<1>5. \A k \in Hand : HandKnows(hand[k])'
  <2>0. ASSUME NEW d \in HandCall, HandKnows(d) PROVE HandKnows(d)'
    <3>1. secret.rows \subseteq secret'.rows
      OBVIOUS
    <3>2. QED
      BY <2>0, <3>1, KnowledgeStays
  <2>1. ASSUME NEW k \in Hand, hand'[k] = hand[k] PROVE HandKnows(hand[k])'
    <3>1. hand[k] \in HandCall /\ HandKnows(hand[k])
      BY DEF VaultInv, VaultTyped
    <3>2. QED
      BY <2>0, <2>1, <3>1
  <2>2. ASSUME hand'[h] = c PROVE HandKnows(hand[h])'
    BY <2>2 DEF HandKnows
  <2>3. QED
    BY <1>1, <2>1, <2>2
<1>6. OnePointer'
  BY <1>1 DEF VaultInv, OnePointer
<1>7. RotatesForward
  BY <1>3 DEF RotatesForward
<1>8. QED
  BY <1>2, <1>4, <1>5, <1>6, <1>7 DEF VaultInv

\* rotate() inserts the next version, or finds it there.
LEMMA VersionInserted ==
  ASSUME VaultInv, NEW h \in Hand, RotateInserts(h)
  PROVE  VaultInv' /\ RotatesForward
<1> DEFINE v == hand[h].ver
<1> DEFINE c == [hand[h] EXCEPT !.pc = "point"]
<1>0. /\ secret \in SecretRow /\ secret.current \in Nat /\ secret.rows \subseteq 1..MaxSecretVersion
      /\ MaxSecretVersion \in Nat
      /\ hand[h] \in HandCall /\ v \in 0..MaxSecretVersion /\ HandKnows(hand[h])
  BY VaultAssumption DEF VaultInv, VaultTyped, SecretRow, HandCall
<1>1. hand[h].pc = "insert" /\ 2 <= v /\ v <= secret.current + 1 /\ secret.life # "none"
  BY <1>0 DEF RotateInserts, HandKnows
<1>2. CASE ~NewVersion(v)
  <2>1. Rests(h) /\ UNCHANGED <<secret, ref, refPolicies, aged>>
    BY <1>2 DEF RotateInserts
  <2>2. QED
    BY <1>0, <2>1, HandRests DEF RotatesForward
<1>3. CASE NewVersion(v)
  <2>1. /\ secret' = [secret EXCEPT !.rows = @ \union {v}] /\ hand' = [hand EXCEPT ![h] = c]
        /\ UNCHANGED <<ref, refPolicies, aged>>
    BY <1>3 DEF RotateInserts, Steps
  <2>2. c \in HandCall /\ c.pc = "point" /\ c.ver = v
    BY <1>0 DEF HandCall
  <2> HIDE DEF c
  <2>3. /\ secret'.life = secret.life /\ secret'.current = secret.current
        /\ secret'.rows = secret.rows \union {v} /\ secret'.made = secret.made
        /\ secret'.expired = secret.expired
    BY <1>0, <2>1 DEF SecretRow
  <2>3a. secret' \in SecretRow
    <3>1. secret.rows \union {v} \in SUBSET (1..MaxSecretVersion)
      BY <1>0, <1>1
    <3>2. QED
      BY <1>0, <2>1, <3>1 DEF SecretRow
  <2>4. v = secret.current + 1
    BY <1>0, <1>1, <1>3 DEF NewVersion, VaultInv, VersionsInRow
  <2>5. /\ hand' \in [Hand -> HandCall] /\ hand'[h] = c
        /\ \A k \in Hand \ {h} : hand'[k] = hand[k] /\ hand[k] \in HandCall /\ HandKnows(hand[k])
    BY <2>1, <2>2, OthersStay
  <2>6. VaultTyped'
    BY <2>1, <2>3a, <2>5 DEF VaultInv, VaultTyped
  <2>7. VersionsInRow'
    <3>1. \A u \in secret'.rows : u <= secret.current + 1
      BY <1>0, <2>3, <2>4 DEF VaultInv, VersionsInRow
    <3>2. QED
      BY <1>1, <2>3, <3>1 DEF VaultInv, VersionsInRow
  <2>8. RefsOfSecret'
    BY <2>1, <2>3 DEF VaultInv, RefsOfSecret
  <2>9. OnePointer'
    <3>1. \A k \in Hand \ {h} : hand[k].pc # "point"
      BY <1>3, <2>4, <2>5 DEF NewVersion, HandKnows
    <3>2. QED
      BY <2>5, <3>1 DEF OnePointer
  <2>10. \A k \in Hand : HandKnows(hand[k])'
    <3>1. ASSUME NEW d \in HandCall, HandKnows(d) PROVE HandKnows(d)'
      <4>1. SecretUsable' = SecretUsable
        BY <2>3 DEF SecretUsable
      <4>2. refPolicies \subseteq refPolicies' /\ secret.rows \subseteq secret'.rows
        BY <2>1, <2>3
      <4>3. QED
        BY <2>3, <3>1, <4>1, <4>2, KnowledgeStays
    <3>2. HandKnows(hand[h])'
      BY <1>1, <2>2, <2>3, <2>4, <2>5 DEF HandKnows
    <3>3. QED
      BY <2>5, <3>1, <3>2
  <2>11. RotatesForward
    BY <1>0, <2>3 DEF RotatesForward
  <2>12. QED
    BY <2>6, <2>7, <2>8, <2>9, <2>10, <2>11 DEF VaultInv
<1>4. QED
  BY <1>2, <1>3

\* rotate() makes it the current one.
LEMMA VersionPointed ==
  ASSUME VaultInv, NEW h \in Hand, RotatePoints(h)
  PROVE  VaultInv' /\ RotatesForward
<1> DEFINE v == hand[h].ver
<1>0. /\ secret \in SecretRow /\ secret.current \in Nat /\ secret.rows \subseteq 1..MaxSecretVersion
      /\ MaxSecretVersion \in Nat
      /\ hand[h] \in HandCall /\ v \in 0..MaxSecretVersion /\ HandKnows(hand[h])
  BY VaultAssumption DEF VaultInv, VaultTyped, SecretRow, HandCall
<1>1. /\ hand[h].pc = "point" /\ v = secret.current + 1 /\ v \in secret.rows
      /\ secret.life # "none"
  BY <1>0 DEF RotatePoints, HandKnows
<1>2. /\ secret' = [secret EXCEPT !.current = v] /\ hand' = [hand EXCEPT ![h] = HandAtRest]
      /\ UNCHANGED <<ref, refPolicies>> /\ aged' = FALSE
  BY DEF RotatePoints, Rests
<1>3. /\ secret'.life = secret.life /\ secret'.current = v
      /\ secret'.rows = secret.rows /\ secret'.made = secret.made
      /\ secret'.expired = secret.expired /\ secret' \in SecretRow
  BY <1>0, <1>2 DEF SecretRow
<1>4. /\ hand' \in [Hand -> HandCall] /\ hand'[h] = HandAtRest
      /\ \A k \in Hand \ {h} : hand'[k] = hand[k] /\ hand[k] \in HandCall /\ HandKnows(hand[k])
  BY <1>2, RestKnows, OthersStay
<1>5. \A k \in Hand \ {h} : hand[k].pc # "point"
  BY <1>1 DEF VaultInv, OnePointer
<1> HIDE DEF v
<1>6. VaultTyped'
  BY <1>2, <1>3, <1>4 DEF VaultInv, VaultTyped
<1>7. VersionsInRow'
  <2>1. \A u \in secret'.rows : u <= v + 1
    BY <1>0, <1>1, <1>3 DEF VaultInv, VersionsInRow
  <2>2. \A u \in 2..v : u \in secret.rows
    BY <1>0, <1>1 DEF VaultInv, VersionsInRow
  <2>3. QED
    BY <1>0, <1>1, <1>3, <2>1, <2>2 DEF VaultInv, VersionsInRow
<1>8. RefsOfSecret' /\ OnePointer'
  BY <1>2, <1>3, <1>4, <1>5, RestKnows DEF VaultInv, RefsOfSecret, OnePointer
<1>9. \A k \in Hand : HandKnows(hand[k])'
  <2>1. ASSUME NEW k \in Hand \ {h} PROVE HandKnows(hand[k])'
    <3>1. hand'[k] = hand[k] /\ hand[k] \in HandCall /\ HandKnows(hand[k]) /\ hand[k].pc # "point"
      BY <1>4, <1>5
    <3>2. SecretUsable' = SecretUsable /\ \A s : GrantAllowed(s)' = GrantAllowed(s)
      BY <1>2, <1>3 DEF SecretUsable, GrantAllowed, ScopeAllowed
    <3>3. hand[k].pc = "insert" => hand[k].ver <= v + 1
      <4>1. hand[k].ver \in Nat
        BY <1>0, <3>1 DEF HandCall
      <4>2. QED
        BY <1>0, <1>1, <3>1, <4>1 DEF HandKnows
    <3>4. QED
      BY <1>1, <1>3, <3>1, <3>2, <3>3 DEF HandKnows
  <2>2. HandKnows(hand[h])'
    BY <1>4, RestKnows DEF HandKnows
  <2>3. QED
    BY <2>1, <2>2
<1>10. RotatesForward
  BY <1>0, <1>1, <1>3 DEF RotatesForward
<1>11. QED
  BY <1>6, <1>7, <1>8, <1>9, <1>10 DEF VaultInv

\* A call that begins with a reference and a scope.
LEMMA FreshHand ==
  ASSUME NEW p \in {"grant", "secret", "denied"}, NEW r \in Ref, NEW s \in AnyScope,
         NEW a \in BOOLEAN, NEW b \in BOOLEAN
  PROVE  /\ [HandAtRest EXCEPT !.pc = p, !.ref = r, !.from = s] \in HandCall
         /\ [HandAtRest EXCEPT !.pc = p, !.ref = r, !.from = s, !.logged = a, !.open = b] \in HandCall
<1>1. 0 \in 0..MaxSecretVersion /\ r \in Ref \union {"none"}
  BY VaultAssumption
<1> DEFINE N == 0..MaxSecretVersion
<1> DEFINE R == Ref \union {"none"}
<1>2. 0 \in N /\ r \in R
  BY <1>1
<1> DEFINE C == [pc : {"rest", "first", "insert", "point", "revokeAll", "grant", "secret", "policy", "version",
         "plaintext", "missing", "denied"},
   ver : N, ref : R, from : AnyScope, open : BOOLEAN, logged : BOOLEAN]
<1>3. HandCall = C
  BY DEF HandCall
<1> HIDE DEF N, R
<1>4. [HandAtRest EXCEPT !.pc = p, !.ref = r, !.from = s] \in C
  BY <1>2 DEF HandAtRest
<1>5. [HandAtRest EXCEPT !.pc = p, !.ref = r, !.from = s, !.logged = a, !.open = b] \in C
  BY <1>2 DEF HandAtRest
<1>6. QED
  BY <1>3, <1>4, <1>5

\* The calls that read: a rotation or a grant that begins, a resolve().
LEMMA HandReads ==
  ASSUME VaultInv, NEW h \in Hand
  PROVE  /\ RotateReads(h) => VaultInv'
         /\ \A r \in Ref, s \in AnyScope : GrantChecks(h, r, s) => VaultInv'
         /\ \A r \in Ref, s \in AnyScope, who \in {"holder", "other"} :
              ResolveRef(h, r, who, s) => VaultInv'
         /\ ResolveSecret(h) \/ ResolvePolicy(h) \/ ResolveVersion(h) => VaultInv'
<1>0. /\ secret \in SecretRow /\ secret.current \in 0..MaxSecretVersion /\ MaxSecretVersion \in Nat
      /\ hand[h] \in HandCall /\ HandKnows(hand[h])
  BY VaultAssumption DEF VaultInv, VaultTyped, SecretRow
<1>1. ASSUME RotateReads(h) PROVE VaultInv'
  <2> DEFINE c == [HandAtRest EXCEPT !.pc = "insert", !.ver = secret.current + 1]
  <2>1. hand' = [hand EXCEPT ![h] = c] /\ UNCHANGED <<secret, ref, refPolicies, aged>>
    BY <1>1 DEF RotateReads
  <2>2. secret.current + 1 \in 0..MaxSecretVersion /\ secret.life # "none" /\ secret.current >= 1
    BY <1>0, <1>1 DEF RotateReads, SecretUsable, VaultInv, VersionsInRow
  <2>3. c \in HandCall /\ c.pc = "insert" /\ c.ver = secret.current + 1
    BY <2>2 DEF HandAtRest, HandCall, AnyScope
  <2> HIDE DEF c
  <2>4. HandKnows(c)
    BY <1>0, <2>2, <2>3 DEF HandKnows
  <2>5. QED
    BY <2>1, <2>3, <2>4, HandMoves
<1>2. ASSUME NEW r \in Ref, NEW s \in AnyScope, GrantChecks(h, r, s) PROVE VaultInv'
  <2> DEFINE c == [HandAtRest EXCEPT !.pc = "grant", !.ref = r, !.from = s]
  <2>1. hand' = [hand EXCEPT ![h] = c] /\ UNCHANGED <<secret, ref, refPolicies, aged>>
        /\ secret.life # "none"
    BY <1>2 DEF GrantChecks, SecretUsable
  <2>2. c \in HandCall /\ c.pc = "grant"
    BY FreshHand DEF HandAtRest
  <2> HIDE DEF c
  <2>3. HandKnows(c)
    BY <2>1, <2>2 DEF HandKnows
  <2>4. QED
    BY <2>1, <2>2, <2>3, HandMoves
<1>3. ASSUME NEW r \in Ref, NEW s \in AnyScope, NEW who \in {"holder", "other"},
             ResolveRef(h, r, who, s)
      PROVE VaultInv'
  <2> DEFINE ok == RefAllows(r, who, s) /\ SecretUsable /\ GrantAllowed(s)
  <2> DEFINE c == [HandAtRest EXCEPT !.pc = IF RefAllows(r, who, s) THEN "secret" ELSE "denied",
                      !.ref = r, !.from = s, !.logged = ~RefAllows(r, who, s), !.open = ok]
  <2>1. hand' = [hand EXCEPT ![h] = c] /\ UNCHANGED <<secret, ref, refPolicies, aged>>
    BY <1>3 DEF ResolveRef
  <2>2. secret.life # "none"
    BY <1>3 DEF ResolveRef, VaultInv, RefsOfSecret
  <2>3. /\ c.pc = IF RefAllows(r, who, s) THEN "secret" ELSE "denied"
        /\ c.from = s /\ c.open = ok
    BY DEF HandAtRest
  <2>4. ok \in BOOLEAN /\ (~RefAllows(r, who, s)) \in BOOLEAN
    OBVIOUS
  <2>5. c \in HandCall
    <3> HIDE DEF ok
    <3>1. ASSUME NEW a \in BOOLEAN, NEW b \in BOOLEAN, NEW p \in {"secret", "denied"}
          PROVE [HandAtRest EXCEPT !.pc = p, !.ref = r, !.from = s, !.logged = a, !.open = b] \in HandCall
      BY FreshHand
    <3>2. QED
      BY <2>4, <3>1
  <2> HIDE DEF c
  <2>6. RefAllows(r, who, s) => c.open = TRUE \/ ~SecretUsable \/ ~GrantAllowed(c.from)
    BY <2>3
  <2> HIDE DEF ok
  <2>7. HandKnows(c) /\ c.pc # "point"
    BY <2>2, <2>3, <2>6 DEF HandKnows
  <2>8. QED
    BY <2>1, <2>5, <2>7, HandMoves
<1>4. ASSUME ResolveSecret(h) PROVE VaultInv'
  <2> DEFINE c == [hand[h] EXCEPT !.pc = IF SecretUsable THEN "policy" ELSE "denied",
                                  !.ver = secret.current]
  <2>1. hand' = [hand EXCEPT ![h] = c] /\ UNCHANGED <<secret, ref, refPolicies, aged>>
        /\ hand[h].pc = "secret"
    BY <1>4 DEF ResolveSecret
  <2>2. c \in HandCall /\ c.pc = (IF SecretUsable THEN "policy" ELSE "denied")
        /\ c.open = hand[h].open /\ c.from = hand[h].from
    BY <1>0 DEF HandCall
  <2> HIDE DEF c
  <2>3. HandKnows(c) /\ c.pc # "point"
    BY <1>0, <2>1, <2>2 DEF HandKnows
  <2>4. QED
    BY <2>1, <2>2, <2>3, HandMoves
<1>5. ASSUME ResolvePolicy(h) PROVE VaultInv'
  <2> DEFINE c == [hand[h] EXCEPT !.pc = IF GrantAllowed(hand[h].from) THEN "version" ELSE "denied"]
  <2>1. hand' = [hand EXCEPT ![h] = c] /\ UNCHANGED <<secret, ref, refPolicies, aged>>
        /\ hand[h].pc = "policy"
    BY <1>5 DEF ResolvePolicy, Steps
  <2>2. c \in HandCall /\ c.pc = (IF GrantAllowed(hand[h].from) THEN "version" ELSE "denied")
        /\ c.open = hand[h].open /\ c.from = hand[h].from
    BY <1>0 DEF HandCall
  <2> HIDE DEF c
  <2>3. HandKnows(c) /\ c.pc # "point"
    BY <1>0, <2>1, <2>2 DEF HandKnows
  <2>4. QED
    BY <2>1, <2>2, <2>3, HandMoves
<1>6. ASSUME ResolveVersion(h) PROVE VaultInv'
  <2> DEFINE found == hand[h].ver \in secret.rows
  <2> DEFINE c == [hand[h] EXCEPT !.pc = IF found THEN "plaintext" ELSE "missing", !.logged = found]
  <2>1. hand' = [hand EXCEPT ![h] = c] /\ UNCHANGED <<secret, ref, refPolicies, aged>>
        /\ hand[h].pc = "version"
    BY <1>6 DEF ResolveVersion
  <2>2. c \in HandCall /\ c.pc \in {"plaintext", "missing"} /\ c.open = hand[h].open
    <3>1. found \in BOOLEAN
      OBVIOUS
    <3> HIDE DEF found
    <3>2. QED
      BY <1>0, <3>1 DEF HandCall
  <2> HIDE DEF c
  <2>3. HandKnows(c) /\ c.pc # "point"
    BY <1>0, <2>1, <2>2 DEF HandKnows
  <2>4. QED
    BY <2>1, <2>2, <2>3, HandMoves
<1>7. QED
  BY <1>1, <1>2, <1>3, <1>4, <1>5, <1>6

\* The steps that change the secret's row, references or policies.
LEMMA TablesChange ==
  ASSUME VaultInv, NEW h \in Hand
  PROVE  /\ CreateFirstVersion(h) => VaultInv' /\ RotatesForward
         /\ ArchiveSecret(h) => VaultInv' /\ RotatesForward
         /\ RevokeAllRefs(h) => VaultInv' /\ RotatesForward
         /\ GrantRef(h) => VaultInv' /\ RotatesForward
<1>0. /\ secret \in SecretRow /\ secret.current \in 0..MaxSecretVersion /\ MaxSecretVersion \in Nat \ {0}
      /\ secret.rows \subseteq 1..MaxSecretVersion
      /\ hand[h] \in HandCall /\ HandKnows(hand[h])
      /\ ref \in [Ref -> RefRow] /\ refPolicies \subseteq AllowedScopes /\ aged \in BOOLEAN
  BY VaultAssumption DEF VaultInv, VaultTyped, SecretRow
<1>1. HandAtRest \in HandCall /\ HandAtRest.pc = "rest"
  BY RestKnows
<1>2. ASSUME CreateFirstVersion(h) PROVE VaultInv' /\ RotatesForward
  <2>1. /\ secret' = [secret EXCEPT !.rows = @ \union {1}, !.made = TRUE]
        /\ hand' = [hand EXCEPT ![h] = HandAtRest] /\ UNCHANGED <<ref, refPolicies, aged>>
        /\ secret.life # "none"
    BY <1>0, <1>2 DEF CreateFirstVersion, Rests, HandKnows
  <2>2. secret.rows \union {1} \in SUBSET (1..MaxSecretVersion)
    BY <1>0
  <2>3. /\ secret' \in SecretRow /\ secret'.current = secret.current /\ secret'.life = secret.life
        /\ secret'.rows = secret.rows \union {1} /\ secret'.expired = secret.expired
    BY <1>0, <2>1, <2>2 DEF SecretRow
  <2>4. RefsOfSecret' /\ SecretUsable' = SecretUsable
    BY <2>1, <2>3 DEF VaultInv, RefsOfSecret, SecretUsable
  <2>5. ref' \in [Ref -> RefRow] /\ refPolicies \subseteq refPolicies' /\ refPolicies' \subseteq AllowedScopes
        /\ aged' \in BOOLEAN
    BY <1>0, <2>1
  <2>6. QED
    BY <1>1, <2>1, <2>3, <2>4, <2>5, SecretKept
<1>3. ASSUME ArchiveSecret(h) PROVE VaultInv' /\ RotatesForward
  <2> DEFINE c == [hand[h] EXCEPT !.pc = "revokeAll"]
  <2>1. /\ secret' = [secret EXCEPT !.life = "ARCHIVED"]
        /\ hand' = [hand EXCEPT ![h] = c] /\ UNCHANGED <<ref, refPolicies, aged>>
        /\ secret.life # "none"
    BY <1>3 DEF ArchiveSecret, Steps
  <2>2. c \in HandCall /\ c.pc = "revokeAll"
    BY <1>0 DEF HandCall
  <2> HIDE DEF c
  <2>3. /\ secret' \in SecretRow /\ secret'.current = secret.current /\ secret'.life = "ARCHIVED"
        /\ secret'.rows = secret.rows /\ secret'.expired = secret.expired /\ secret'.made = secret.made
    BY <1>0, <2>1 DEF SecretRow
  <2>4. RefsOfSecret' /\ ~SecretUsable'
    BY <2>1, <2>3 DEF VaultInv, RefsOfSecret, SecretUsable
  <2>5. ref' \in [Ref -> RefRow] /\ refPolicies \subseteq refPolicies' /\ refPolicies' \subseteq AllowedScopes
        /\ aged' \in BOOLEAN
    BY <1>0, <2>1
  <2>6. QED
    BY <2>1, <2>2, <2>3, <2>4, <2>5, SecretKept
<1>4. ASSUME RevokeAllRefs(h) PROVE VaultInv' /\ RotatesForward
  <2>1. /\ ref' = [r \in Ref |-> IF ref[r].life = "none" THEN ref[r] ELSE [ref[r] EXCEPT !.life = "REVOKED"]]
        /\ hand' = [hand EXCEPT ![h] = HandAtRest] /\ UNCHANGED <<secret, refPolicies, aged>>
    BY <1>4 DEF RevokeAllRefs, Rests
  <2>2. ref' \in [Ref -> RefRow] /\ \A r \in Ref : ref'[r].life # "none" => ref[r].life # "none"
    BY <1>0, <2>1 DEF RefRow
  <2>3. RefsOfSecret' /\ SecretUsable' = SecretUsable
    BY <2>1, <2>2 DEF VaultInv, RefsOfSecret, SecretUsable
  <2>4. QED
    BY <1>0, <1>1, <2>1, <2>2, <2>3, SecretKept
<1>5. ASSUME GrantRef(h) PROVE VaultInv' /\ RotatesForward
  <2> DEFINE row == [life |-> "ACTIVE", expired |-> FALSE, scope |-> hand[h].from]
  <2>1. /\ ref' = [ref EXCEPT ![hand[h].ref] = row] /\ secret.life # "none"
        /\ hand' = [hand EXCEPT ![h] = HandAtRest] /\ UNCHANGED <<secret, refPolicies, aged>>
    BY <1>0, <1>5 DEF GrantRef, Rests, HandKnows
  <2>2. row \in RefRow
    BY <1>0 DEF RefRow, HandCall
  <2> HIDE DEF row
  <2>3. ref' \in [Ref -> RefRow]
    BY <1>0, <2>1, <2>2
  <2>4. RefsOfSecret' /\ SecretUsable' = SecretUsable
    BY <2>1 DEF RefsOfSecret, SecretUsable
  <2>5. QED
    BY <1>0, <1>1, <2>1, <2>3, <2>4, SecretKept
<1>6. QED
  BY <1>2, <1>3, <1>4, <1>5

\* A reference that is revoked or expires.
LEMMA RefFades ==
  ASSUME ref \in [Ref -> RefRow], NEW r \in Ref, RevokeRef(r) \/ RefExpires(r)
  PROVE  ref' \in [Ref -> RefRow] /\ \A q \in Ref : ref'[q].life # "none" => ref[q].life # "none"
<1>1. ref[r].life = "ACTIVE" /\ ref[r] \in RefRow
  BY DEF RevokeRef, RefExpires
<1>2. PICK row \in RefRow : ref' = [ref EXCEPT ![r] = row]
  <2>1. CASE RevokeRef(r)
    <3>1. [ref[r] EXCEPT !.life = "REVOKED"] \in RefRow
      BY <1>1 DEF RefRow
    <3>2. QED
      BY <2>1, <3>1 DEF RevokeRef
  <2>2. CASE RefExpires(r)
    <3>1. [ref[r] EXCEPT !.expired = TRUE] \in RefRow
      BY <1>1 DEF RefRow
    <3>2. QED
      BY <2>2, <3>1 DEF RefExpires
  <2>3. QED
    BY <2>1, <2>2
<1>3. QED
  BY <1>1, <1>2

\* What time and the policies do.
LEMMA VaultAround ==
  ASSUME VaultInv, NEW h \in Hand
  PROVE  /\ \A r \in Ref : RevokeRef(r) \/ RefExpires(r) => VaultInv' /\ RotatesForward
         /\ \A p \in AllowedScopes : CreatePolicy(p) => VaultInv' /\ RotatesForward
         /\ SecretExpires \/ SecretAges => VaultInv' /\ RotatesForward
<1>0. /\ secret \in SecretRow /\ MaxSecretVersion \in Nat \ {0}
      /\ ref \in [Ref -> RefRow] /\ refPolicies \subseteq AllowedScopes /\ aged \in BOOLEAN
  BY VaultAssumption DEF VaultInv, VaultTyped
<1>1. HandAtRest \in HandCall /\ HandAtRest.pc = "rest"
  BY RestKnows
<1>2. ASSUME NEW r \in Ref, RevokeRef(r) \/ RefExpires(r) PROVE VaultInv' /\ RotatesForward
  <2>1. UNCHANGED <<secret, refPolicies, aged, hand>> /\ ref[r].life = "ACTIVE"
    BY <1>2 DEF RevokeRef, RefExpires
  <2>2. ref' \in [Ref -> RefRow] /\ \A q \in Ref : ref'[q].life # "none" => ref[q].life # "none"
    BY <1>0, <1>2, RefFades
  <2>3. RefsOfSecret' /\ SecretUsable' = SecretUsable
    BY <2>1, <2>2 DEF VaultInv, RefsOfSecret, SecretUsable
  <2>4. QED
    BY <1>0, <1>1, <2>1, <2>2, <2>3, SecretKept
<1>3. ASSUME NEW p \in AllowedScopes, CreatePolicy(p) PROVE VaultInv' /\ RotatesForward
  <2>1. UNCHANGED <<secret, ref, aged, hand>> /\ refPolicies' = refPolicies \union {p}
    BY <1>3 DEF CreatePolicy
  <2>2. RefsOfSecret' /\ SecretUsable' = SecretUsable
    BY <2>1 DEF VaultInv, RefsOfSecret, SecretUsable
  <2>3. QED
    BY <1>0, <1>1, <2>1, <2>2, SecretKept
<1>4. ASSUME SecretExpires PROVE VaultInv' /\ RotatesForward
  <2>1. /\ UNCHANGED <<ref, refPolicies, aged, hand>> /\ secret' = [secret EXCEPT !.expired = TRUE]
        /\ secret.life # "none"
    BY <1>4 DEF SecretExpires
  <2>2. /\ secret' \in SecretRow /\ secret'.current = secret.current /\ secret'.life = secret.life
        /\ secret'.rows = secret.rows /\ secret'.expired = TRUE /\ secret'.made = secret.made
    BY <1>0, <2>1 DEF SecretRow
  <2>3. RefsOfSecret' /\ ~SecretUsable'
    BY <2>1, <2>2 DEF VaultInv, RefsOfSecret, SecretUsable
  <2>4. QED
    BY <1>0, <1>1, <2>1, <2>2, <2>3, SecretKept
<1>5. ASSUME SecretAges PROVE VaultInv' /\ RotatesForward
  <2>1. UNCHANGED <<secret, ref, refPolicies, hand>> /\ aged' = TRUE
    BY <1>5 DEF SecretAges
  <2>2. RefsOfSecret' /\ SecretUsable' = SecretUsable
    BY <2>1 DEF VaultInv, RefsOfSecret, SecretUsable
  <2>3. QED
    BY <1>0, <1>1, <2>1, <2>2, SecretKept
<1>6. QED
  BY <1>2, <1>3, <1>4, <1>5

\* Without a thread only what is around the vault moves.
LEMMA VaultWithoutHands ==
  ASSUME VaultInv, Hand = {}, VaultNext
  PROVE  VaultInv' /\ RotatesForward
<1>0. /\ secret \in SecretRow /\ secret.current \in 0..MaxSecretVersion /\ MaxSecretVersion \in Nat \ {0}
      /\ ref \in [Ref -> RefRow] /\ refPolicies \subseteq AllowedScopes /\ aged \in BOOLEAN
      /\ hand \in [Hand -> HandCall]
  BY VaultAssumption DEF VaultInv, VaultTyped, SecretRow
<1>a. hand' = hand
  BY DEF VaultNext, RevokeRef, RefExpires, CreatePolicy, SecretExpires, SecretAges
<1>1. CASE \E r \in Ref : RevokeRef(r) \/ RefExpires(r)
  <2>1. UNCHANGED <<secret, refPolicies, aged>>
    BY <1>1 DEF RevokeRef, RefExpires
  <2>2. ref' \in [Ref -> RefRow] /\ \A q \in Ref : ref'[q].life # "none" => ref[q].life # "none"
    BY <1>0, <1>1, RefFades
  <2>3. QED
    BY <1>0, <1>a, <2>1, <2>2 DEF VaultInv, VaultTyped, VersionsInRow, RefsOfSecret, OnePointer, RotatesForward
<1>2. CASE \E p \in AllowedScopes : CreatePolicy(p)
  BY <1>0, <1>a, <1>2 DEF CreatePolicy, VaultInv, VaultTyped, VersionsInRow, RefsOfSecret, OnePointer, RotatesForward
<1>3. CASE SecretExpires
  <2>1. /\ secret' \in SecretRow /\ secret'.current = secret.current /\ secret'.life = secret.life
        /\ secret'.rows = secret.rows /\ secret'.made = secret.made
    BY <1>0, <1>3 DEF SecretExpires, SecretRow
  <2>2. QED
    BY <1>0, <1>a, <1>3, <2>1 DEF SecretExpires, VaultInv, VaultTyped, VersionsInRow, RefsOfSecret, OnePointer, RotatesForward
<1>4. CASE SecretAges
  BY <1>0, <1>a, <1>4 DEF SecretAges, VaultInv, VaultTyped, VersionsInRow, RefsOfSecret, OnePointer, RotatesForward
<1>5. QED
  BY <1>1, <1>2, <1>3, <1>4 DEF VaultNext

\* Every step keeps the invariant and takes the secret forward.
LEMMA VaultStep == VaultInv /\ [VaultNext]_vaultVars => VaultInv' /\ RotatesForward
<1> SUFFICES ASSUME VaultInv, [VaultNext]_vaultVars PROVE VaultInv' /\ RotatesForward
  OBVIOUS
<1>0. secret.current \in Nat /\ secret.current >= secret.current
  BY VaultAssumption DEF VaultInv, VaultTyped, SecretRow
<1>1. CASE UNCHANGED vaultVars
  BY <1>0, <1>1 DEF vaultVars, VaultInv, VaultTyped, VersionsInRow, RefsOfSecret, OnePointer, RotatesForward,
     HandKnows, SecretUsable, GrantAllowed, ScopeAllowed
<1>2. ASSUME NEW h \in Hand, HandNext(h) PROVE VaultInv' /\ RotatesForward
  <2>1. CASE ResolveEnds(h) \/ HandDies(h)
    BY <1>0, <2>1, HandRests DEF ResolveEnds, HandDies, RotatesForward
  <2>2. CASE RotateReads(h) \/ AutoRotate(h) \/ ResolveSecret(h) \/ ResolvePolicy(h) \/ ResolveVersion(h)
    <3>1. VaultInv'
      BY <2>2, HandReads DEF AutoRotate
    <3>2. secret' = secret
      BY <2>2 DEF AutoRotate, RotateReads, ResolveSecret, ResolvePolicy, ResolveVersion
    <3>3. QED
      BY <1>0, <3>1, <3>2 DEF RotatesForward
  <2>3. CASE \E r \in Ref, s \in VaultScope \union {Nowhere} :
               GrantChecks(h, r, s) \/ \E who \in {"holder", "other"} : ResolveRef(h, r, who, s)
    <3>1. VaultInv'
      BY <2>3, HandReads DEF AnyScope
    <3>2. secret' = secret
      BY <2>3 DEF GrantChecks, ResolveRef
    <3>3. QED
      BY <1>0, <3>1, <3>2 DEF RotatesForward
  <2>4. CASE CreateSecret(h)
    BY <2>4, SecretCreated
  <2>5. CASE RotateInserts(h)
    BY <2>5, VersionInserted
  <2>6. CASE RotatePoints(h)
    BY <2>6, VersionPointed
  <2>7. CASE CreateFirstVersion(h) \/ ArchiveSecret(h) \/ RevokeAllRefs(h) \/ GrantRef(h)
    BY <2>7, TablesChange
  <2>8. QED
    BY <1>2, <2>1, <2>2, <2>3, <2>4, <2>5, <2>6, <2>7 DEF HandNext
<1>3. CASE VaultNext /\ Hand = {}
  BY <1>3, VaultWithoutHands
<1>4. ASSUME VaultNext, Hand # {} PROVE VaultInv' /\ RotatesForward
  <2>1. PICK h \in Hand : TRUE
    BY <1>4
  <2>2. QED
    BY <1>2, <1>4, <2>1, VaultAround DEF VaultNext
<1>5. QED
  BY <1>1, <1>3, <1>4

\* What the invariant says of the vault.
LEMMA VaultHolds == VaultInv => VaultTypeOK /\ CurrentReadable /\ ResolvesOpenOnly
<1> SUFFICES ASSUME VaultInv PROVE VaultTypeOK /\ CurrentReadable /\ ResolvesOpenOnly
  OBVIOUS
<1>1. /\ secret \in SecretRow /\ secret.current \in Nat
      /\ \A r \in Ref : ref[r] \in RefRow
      /\ \A h \in Hand : hand[h] \in HandCall
  BY VaultAssumption DEF VaultInv, VaultTyped, SecretRow
<1>2. VaultTypeOK
  BY <1>1 DEF VaultTypeOK, SecretRow, RefRow, HandCall, AnyScope, VaultInv, VaultTyped
<1>3. CurrentReadable
  <2> SUFFICES ASSUME secret.made PROVE secret.current \in secret.rows
    BY DEF CurrentReadable
  <2>1. secret.made = TRUE
    BY <1>1 DEF SecretRow
  <2>2. secret.life # "none" /\ 1 \in secret.rows /\ secret.current >= 1
    BY <2>1 DEF VaultInv, VersionsInRow
  <2>3. CASE secret.current = 1
    BY <2>2, <2>3
  <2>4. CASE secret.current # 1
    <3>1. secret.current \in 2..secret.current
      BY <1>1, <2>2, <2>4
    <3>2. QED
      BY <3>1 DEF VaultInv, VersionsInRow
  <2>5. QED
    BY <2>3, <2>4
<1>4. ResolvesOpenOnly
  BY DEF VaultInv, HandKnows, ResolvesOpenOnly
<1>5. QED
  BY <1>2, <1>3, <1>4

\* The secret vault: a secret always has its current version, resolve() gives
\* it out only where it was open, and rotations only go forward.
THEOREM VaultKeepsItsWord ==
  VaultSpec => [](CurrentReadable /\ ResolvesOpenOnly) /\ RotationForward
<1>1. VaultInv => CurrentReadable /\ ResolvesOpenOnly
  BY VaultHolds
<1>2. QED
  BY <1>1, VaultStart, VaultStep, PTL DEF VaultSpec, RotationForward

-----------------------------------------------------------------------------
(* The tables.                                                             *)

\* The tables that no migration of the runner creates or drops.
Permanent == EventsWebhooks \union Notifications \union Scheduling \union {"scoped_migrations"}

\* The migration that a table is of.
Home(t) ==
  IF t \in AddContracts THEN 2
  ELSE IF t \in AddBlobs THEN 3
  ELSE IF t \in AddScopeSettings THEN 4
  ELSE IF t \in AddSearchIndex THEN 5
  ELSE IF t \in AddTemplates THEN 6
  ELSE IF t \in AddTieringArchival THEN 7
  ELSE IF t \in AddSyncState THEN 11
  ELSE IF t \in FederationReplay THEN 16
  ELSE IF t \in Permanent THEN 8
  ELSE 1

\* The versions there are.
LEMMA VersionIs == ASSUME NEW v \in Discovered PROVE v \in {1, 2, 3, 4, 5, 6, 7, 11, 12, 13, 14, 15, 16}
BY DEF Discovered, AllVersions

\* What each of them creates.
LEMMA CreatesWhat ==
  /\ Creates(1) = InitialSchema /\ Creates(2) = AddContracts /\ Creates(3) = AddBlobs
  /\ Creates(4) = AddScopeSettings /\ Creates(5) = AddSearchIndex /\ Creates(6) = AddTemplates
  /\ Creates(7) = AddTieringArchival /\ Creates(11) = AddSyncState /\ Creates(12) = {}
  /\ Creates(13) = {} /\ Creates(14) = {} /\ Creates(15) = {} /\ Creates(16) = FederationReplay
BY DEF Creates

\* No table of the first migration is of another.
LEMMA FirstHome == \A t \in InitialSchema : Home(t) = 1
<1> USE DEF Home, AddContracts, AddBlobs, AddScopeSettings, AddSearchIndex, AddTemplates,
        AddTieringArchival, AddSyncState, FederationReplay, Permanent, EventsWebhooks, Notifications, Scheduling
<1>1. \A t \in InitCore : Home(t) = 1
  BY DEF InitCore
<1>2. \A t \in InitTenancy : Home(t) = 1
  BY DEF InitTenancy
<1>3. \A t \in InitAudit : Home(t) = 1
  BY DEF InitAudit
<1>4. \A t \in InitFlow : Home(t) = 1
  BY DEF InitFlow
<1>5. \A t \in InitSecrets : Home(t) = 1
  BY DEF InitSecrets
<1>6. \A t \in InitPlugins : Home(t) = 1
  BY DEF InitPlugins
<1>7. \A t \in InitConnectors : Home(t) = 1
  BY DEF InitConnectors
<1> HIDE DEF Home
<1>8. QED
  BY <1>1, <1>2, <1>3, <1>4, <1>5, <1>6, <1>7 DEF InitialSchema

\* Every table is of one migration.
LEMMA HomeIs ==
  /\ \A v \in Discovered : \A t \in Creates(v) : Home(t) = v
  /\ \A t \in Permanent : Home(t) = 8
<1>1. ASSUME NEW v \in Discovered, NEW t \in Creates(v) PROVE Home(t) = v
  <2>1. CASE v = 1
    BY <1>1, <2>1, CreatesWhat, FirstHome
  <2>2. CASE v \in {2, 3, 4, 5}
    BY <1>1, <2>2, CreatesWhat DEF Home, AddContracts, AddBlobs, AddScopeSettings, AddSearchIndex
  <2>3. CASE v \in {6, 7}
    BY <1>1, <2>3, CreatesWhat DEF Home, AddContracts, AddBlobs, AddScopeSettings, AddSearchIndex, AddTemplates, AddTieringArchival
  <2>4. CASE v \in {11, 16}
    BY <1>1, <2>4, CreatesWhat DEF Home, AddContracts, AddBlobs, AddScopeSettings, AddSearchIndex, AddTemplates,
       AddTieringArchival, AddSyncState, FederationReplay
  <2>5. CASE v \in {12, 13, 14, 15}
    BY <1>1, <2>5, CreatesWhat
  <2>6. QED
    BY VersionIs, <2>1, <2>2, <2>3, <2>4, <2>5
<1>2. ASSUME NEW t \in Permanent PROVE Home(t) = 8
  BY DEF Home, AddContracts, AddBlobs, AddScopeSettings, AddSearchIndex, AddTemplates,
     AddTieringArchival, AddSyncState, FederationReplay, Permanent, EventsWebhooks, Notifications, Scheduling
<1>3. QED
  BY <1>1, <1>2

\* No two migrations create the same table, and none a permanent one.
LEMMA CreatesApart ==
  ASSUME NEW u \in Discovered, NEW t \in Creates(u)
  PROVE  (\A v \in Discovered : v # u => t \notin Creates(v)) /\ t \notin Permanent
<1>1. u # 8
  BY VersionIs
<1>2. QED
  BY <1>1, HomeIs

\* The metadata have what the migrations create, and the permanent tables.
LEMMA CreatesKnown == \A v \in Discovered : Creates(v) \subseteq Metadata
<1>1. InitialSchema \subseteq Metadata
  <2>1. InitCore \subseteq SaCore /\ InitTenancy \subseteq SaTenancy
    BY DEF InitCore, SaCore, InitTenancy, SaTenancy
  <2>2. InitAudit \subseteq SaAudit /\ InitFlow \subseteq SaFlow
    BY DEF InitAudit, SaAudit, InitFlow, SaFlow
  <2>3. InitSecrets \subseteq SaSecrets /\ InitPlugins \subseteq SaPlugins
    BY DEF InitSecrets, SaSecrets, InitPlugins, SaPlugins
  <2>4. InitConnectors \subseteq SaConnectors
    BY DEF InitConnectors, SaConnectors
  <2>5. QED
    BY <2>1, <2>2, <2>3, <2>4 DEF InitialSchema, Metadata
<1>2. AddContracts \subseteq SaContracts /\ AddBlobs \subseteq SaContracts /\ AddScopeSettings \subseteq SaContracts
  BY DEF AddContracts, AddBlobs, AddScopeSettings, SaContracts
<1>3. AddSearchIndex \subseteq SaSearch /\ AddTemplates \subseteq SaSearch
  BY DEF AddSearchIndex, AddTemplates, SaSearch
<1>4. AddTieringArchival \subseteq SaTiers /\ AddSyncState \subseteq SaJobs /\ FederationReplay \subseteq SaConnectors
  BY DEF AddTieringArchival, SaTiers, AddSyncState, SaJobs, FederationReplay, SaConnectors
<1>5. /\ SaContracts \subseteq Metadata /\ SaSearch \subseteq Metadata /\ SaTiers \subseteq Metadata
      /\ SaJobs \subseteq Metadata /\ SaConnectors \subseteq Metadata
  BY DEF Metadata
<1>6. ASSUME NEW v \in Discovered PROVE Creates(v) \subseteq Metadata
  <2>1. CASE v \in {1, 2, 3, 4, 5, 6}
    BY <2>1, <1>1, <1>2, <1>3, <1>5, CreatesWhat
  <2>2. CASE v \in {7, 11, 12, 13, 14, 15, 16}
    BY <2>2, <1>4, <1>5, CreatesWhat
  <2>3. QED
    BY VersionIs, <2>1, <2>2
<1>7. QED
  BY <1>6

\* The metadata have nothing else.
LEMMA MetadataIs ==
  ASSUME NEW S, Permanent \subseteq S, \A v \in Discovered : Creates(v) \subseteq S
  PROVE  Metadata \subseteq S
<1>1. /\ 1 \in Discovered /\ 2 \in Discovered /\ 3 \in Discovered /\ 4 \in Discovered /\ 5 \in Discovered
      /\ 6 \in Discovered /\ 7 \in Discovered /\ 11 \in Discovered /\ 16 \in Discovered
  BY DEF Discovered, AllVersions
<1>2. /\ InitialSchema \subseteq S /\ AddContracts \subseteq S /\ AddBlobs \subseteq S /\ AddScopeSettings \subseteq S
      /\ AddSearchIndex \subseteq S /\ AddTemplates \subseteq S /\ AddTieringArchival \subseteq S
      /\ AddSyncState \subseteq S /\ FederationReplay \subseteq S
  BY <1>1, CreatesWhat
<1>3. "scoped_migrations" \in S /\ EventsWebhooks \subseteq S /\ Notifications \subseteq S /\ Scheduling \subseteq S
  BY DEF Permanent
<1>4. /\ InitCore \subseteq S /\ InitTenancy \subseteq S /\ InitAudit \subseteq S /\ InitFlow \subseteq S
      /\ InitSecrets \subseteq S /\ InitPlugins \subseteq S /\ InitConnectors \subseteq S
  BY <1>2 DEF InitialSchema
<1>5. SaCore \subseteq InitCore \union {"scoped_migrations"}
  BY DEF SaCore, InitCore
<1>6. SaTenancy \subseteq InitTenancy /\ SaAudit \subseteq InitAudit
  BY DEF SaTenancy, InitTenancy, SaAudit, InitAudit
<1>7. SaFlow \subseteq InitFlow /\ SaSecrets \subseteq InitSecrets /\ SaPlugins \subseteq InitPlugins
  BY DEF SaFlow, InitFlow, SaSecrets, InitSecrets, SaPlugins, InitPlugins
<1>8. SaConnectors \subseteq InitConnectors \union FederationReplay
  BY DEF SaConnectors, InitConnectors, FederationReplay
<1>9. SaContracts \subseteq AddContracts \union AddBlobs \union AddScopeSettings
  BY DEF SaContracts, AddContracts, AddBlobs, AddScopeSettings
<1>10. SaSearch \subseteq AddSearchIndex \union AddTemplates
  BY DEF SaSearch, AddSearchIndex, AddTemplates
<1>11. SaTiers \subseteq AddTieringArchival \union EventsWebhooks
  BY DEF SaTiers, AddTieringArchival, EventsWebhooks
<1>12. SaJobs \subseteq Notifications \union Scheduling \union AddSyncState
  BY DEF SaJobs, Notifications, Scheduling, AddSyncState
<1>13. SaCore \subseteq S /\ SaTenancy \subseteq S /\ SaAudit \subseteq S /\ SaFlow \subseteq S
  BY <1>3, <1>4, <1>5, <1>6, <1>7
<1>14. SaSecrets \subseteq S /\ SaPlugins \subseteq S /\ SaConnectors \subseteq S /\ SaContracts \subseteq S
  BY <1>2, <1>4, <1>7, <1>8, <1>9
<1>15. SaSearch \subseteq S /\ SaTiers \subseteq S /\ SaJobs \subseteq S
  BY <1>2, <1>3, <1>10, <1>11, <1>12
<1>16. QED
  BY <1>13, <1>14, <1>15 DEF Metadata

\* What initialize() of SQLite creates.
LEMMA LiteKnown == Lite \union {"scoped_migrations"} \subseteq Metadata /\ Permanent \subseteq Lite \union {"scoped_migrations"}
<1>1. LiteCore \subseteq SaCore /\ LiteTenancy \subseteq SaTenancy
  BY DEF LiteCore, SaCore, LiteTenancy, SaTenancy
<1>2. LiteAudit \subseteq SaAudit /\ LiteFlow \subseteq SaFlow
  BY DEF LiteAudit, SaAudit, LiteFlow, SaFlow
<1>3. LiteSecrets \subseteq SaSecrets /\ LitePlugins \subseteq SaPlugins
  BY DEF LiteSecrets, SaSecrets, LitePlugins, SaPlugins
<1>4. LiteConnectors \subseteq SaConnectors /\ LiteContracts \subseteq SaContracts
  BY DEF LiteConnectors, SaConnectors, LiteContracts, SaContracts
<1>5. LiteSearch \subseteq SaSearch /\ LiteTiers \subseteq SaTiers /\ LiteJobs \subseteq SaJobs
  BY DEF LiteSearch, SaSearch, LiteTiers, SaTiers, LiteJobs, SaJobs
<1>6. "scoped_migrations" \in SaCore
  BY DEF SaCore
<1>7. EventsWebhooks \subseteq LiteTiers /\ Notifications \subseteq LiteJobs /\ Scheduling \subseteq LiteJobs
  BY DEF EventsWebhooks, LiteTiers, Notifications, LiteJobs, Scheduling
<1>8. Lite \union {"scoped_migrations"} \subseteq Metadata
  BY <1>1, <1>2, <1>3, <1>4, <1>5, <1>6 DEF Lite, Metadata
<1>9. Permanent \subseteq Lite \union {"scoped_migrations"}
  BY <1>7 DEF Permanent, Lite
<1>10. QED
  BY <1>8, <1>9

\* The metadata have the permanent tables.
LEMMA PermanentKnown == Permanent \subseteq Metadata
BY LiteKnown

\* PostgresBackend's script puts an index on a table that it does not create.
LEMMA PgFails == ~(Pg \ PgUnindexed \subseteq Pg \ Headed)
<1>1. "registry_entries" \in PgCore /\ "registry_entries" \in Headed /\ "registry_entries" \notin PgUnindexed
  BY DEF PgCore, Headed, PgUnindexed
<1>2. QED
  BY <1>1 DEF Pg

\* What the later migrations need, the first one creates.
LEMMA NeedsFirst ==
  ASSUME NEW v \in Discovered, NEW S, CreatedBy(v) = Creates(v), v \in {12, 14, 15} => InitialSchema \subseteq S
  PROVE  Needs(v) \subseteq S
<1>1. /\ {"scope_projections", "scope_memberships", "audit_trail"} \subseteq InitialSchema
      /\ {"environments", "environment_objects", "environment_snapshots"} \subseteq InitialSchema
  <2>1. {"scope_projections", "scope_memberships"} \subseteq InitTenancy
    BY DEF InitTenancy
  <2>2. {"audit_trail", "environments", "environment_objects", "environment_snapshots"} \subseteq InitAudit
    BY DEF InitAudit
  <2>3. QED
    BY <2>1, <2>2 DEF InitialSchema
<1>2. CASE v = 12
  BY <1>1, <1>2 DEF Needs
<1>3. CASE v = 14
  BY <1>1, <1>3 DEF Needs
<1>4. CASE v = 15
  BY <1>1, <1>4 DEF Needs
<1>5. CASE v \notin {12, 14, 15}
  <2>1. Needs(v) = Creates(v) \ CreatedBy(v)
    BY <1>5 DEF Needs
  <2>2. QED
    BY <2>1
<1>6. QED
  BY <1>2, <1>3, <1>4, <1>5

\* audit_trail is a table of the first migration.
LEMMA TrailFirst == ASSUME NEW v \in Discovered, "audit_trail" \in Creates(v) PROVE v = 1
<1>1. "audit_trail" \in InitialSchema
  BY DEF InitialSchema, InitAudit
<1>2. QED
  BY <1>1, FirstHome, HomeIs

-----------------------------------------------------------------------------
(* Migrations.                                                             *)

Runner == [pc : {"new", "unusable", "idle", "up", "down", "recordUp", "recordDown"},
           todo : SUBSET Discovered, at : 1..(Len(Secured) + 1)]

MigTyped ==
  /\ backend \in Backends /\ tables \subseteq Metadata
  /\ forced \subseteq {Secured[i] : i \in 1..Len(Secured)}
  /\ policies \subseteq {Secured[i] : i \in 1..Len(Secured)}
  /\ applied \subseteq Discovered /\ runner \in Runner /\ commands \in 0..MaxCommands
  /\ uniqueSeq \in BOOLEAN /\ disorder \in BOOLEAN /\ torn \in BOOLEAN /\ failed \in BOOLEAN

Upward(r) == r.pc \in {"up", "recordUp"}
Downward(r) == r.pc \in {"down", "recordDown"}

\* The tables that no command drops are there from the start.
Started ==
  /\ Upward(runner) \/ Downward(runner) => runner.todo # {}
  /\ runner.pc = "new" => failed = FALSE
  /\ runner.pc \in {"new", "unusable"} => applied = {}
  /\ runner.pc = "unusable" => backend = "postgres"
  /\ runner.pc \notin {"new", "unusable"} => Permanent \subseteq tables

\* What is applied has its tables, but for the one that is being rolled back.
Built(r, A, S) ==
  /\ \A v \in A : Creates(v) \subseteq S \/ (Downward(r) /\ v = Max(r.todo))
  /\ r.pc = "recordUp" => Creates(Min(r.todo)) \subseteq S

\* In order, the index of the audit sequences is there as long as 14 is, and
\* nothing is done without the first migration.
SeqIndexed(r, A, u) ==
  /\ 14 \in A => u = TRUE \/ (r.pc = "recordDown" /\ Max(r.todo) = 14)
  /\ r.pc = "recordUp" /\ Min(r.todo) = 14 => u = TRUE
  /\ Downward(r) /\ 1 \in r.todo => 14 \notin A
  /\ Upward(r) => 1 \in A \union r.todo

MigInv ==
  /\ MigTyped /\ Started
  /\ torn = FALSE => Built(runner, applied, tables)
  /\ torn = FALSE /\ disorder = FALSE => SeqIndexed(runner, applied, uniqueSeq)
  /\ ~Postgres /\ disorder = FALSE /\ torn = FALSE => failed = FALSE

\* The tables of migration 13 ...
SecuredNames ==
  {"scoped_objects", "scopes", "secrets", "secret_versions", "environments",
   "environment_templates", "stages", "pipelines", "deployment_targets", "contracts", "blobs",
   "search_index", "templates", "retention_policies", "glacial_archives",
   "event_subscriptions", "webhook_endpoints", "notification_rules", "recurring_schedules",
   "scheduled_actions", "jobs", "scope_memberships", "scope_projections", "notifications"}

\* ... are a list.
LEMMA SecuredList == Len(Secured) \in Nat
<1>1. OwnerTables \in Seq(SecuredNames)
  BY DEF OwnerTables, SecuredNames
<1>2. MemberTables \in Seq(SecuredNames)
  BY DEF MemberTables, SecuredNames
<1>3. QED
  BY <1>1, <1>2 DEF Secured

\* The first and the last of what is to be done.
LEMMA Extremes ==
  ASSUME NEW S \in SUBSET Discovered, S # {}
  PROVE  Min(S) \in S /\ Max(S) \in S /\ \A v \in S : Min(S) <= v /\ v <= Max(S)
<1>1. S \in SUBSET Nat /\ S \in SUBSET (0..16)
  BY DEF Discovered, AllVersions
<1>2. PICK m \in S : \A n \in S : m <= n
  BY <1>1, LeastNatural
<1>3. Min(S) \in S /\ \A n \in S : Min(S) <= n
  BY <1>2 DEF Min
<1>4. Max(S) \in S /\ \A n \in S : n <= Max(S)
  <2>1. 16 \in Nat
    OBVIOUS
  <2>2. QED
    BY <1>1, <2>1, GreatestNatural
<1>5. QED
  BY <1>3, <1>4

\* The runner that has nothing to do.
LEMMA IdleRunner == Idle \in Runner /\ Idle.pc = "idle" /\ Idle.todo = {} /\ Idle.at = 1
BY SecuredList DEF Idle, Runner

\* An empty database.
LEMMA MigStart == MigInit => MigInv
<1> SUFFICES ASSUME MigInit PROVE MigInv
  OBVIOUS
<1>1. runner \in Runner /\ runner.pc = "new"
  BY IdleRunner DEF MigInit, Runner
<1>2. MigTyped
  <2>1. 0 \in 0..MaxCommands
    BY MigAssumption
  <2>2. uniqueSeq \in BOOLEAN /\ disorder \in BOOLEAN /\ torn \in BOOLEAN /\ failed \in BOOLEAN
    BY Zenon DEF MigInit
  <2>3. QED
    BY <1>1, <2>1, <2>2 DEF MigInit, MigTyped
<1>3. Started
  BY <1>1 DEF MigInit, Started, Upward, Downward
<1>4. Built(runner, applied, tables)
  BY <1>1 DEF MigInit, Built
<1>5. SeqIndexed(runner, applied, uniqueSeq)
  BY <1>1 DEF MigInit, SeqIndexed, Upward, Downward
<1>6. QED
  BY <1>2, <1>3, <1>4, <1>5 DEF MigInv, MigInit

\* What the inductive invariant says of the properties.
LEMMA MigHolds == MigInv => MigTypeOK /\ FullyMigrated /\ Repeatable
<1> SUFFICES ASSUME MigInv PROVE MigTypeOK /\ FullyMigrated /\ Repeatable
  OBVIOUS
<1>1. MigTypeOK
  BY DEF MigInv, MigTyped, MigTypeOK, Runner
<1>2. FullyMigrated
  <2> SUFFICES ASSUME runner.pc = "idle", applied = Discovered, ~torn PROVE tables = Metadata /\ (disorder \/ uniqueSeq)
    BY DEF FullyMigrated
  <2>1. torn = FALSE /\ disorder \in BOOLEAN /\ uniqueSeq \in BOOLEAN /\ tables \subseteq Metadata
    BY DEF MigInv, MigTyped
  <2>2. \A v \in Discovered : Creates(v) \subseteq tables
    BY <2>1 DEF MigInv, Built, Downward
  <2>3. Permanent \subseteq tables
    BY DEF MigInv, Started
  <2>4. tables = Metadata
    BY <2>1, <2>2, <2>3, MetadataIs
  <2>5. disorder \/ uniqueSeq
    <3>1. 14 \in Discovered
      BY DEF Discovered, AllVersions
    <3>2. disorder = FALSE => uniqueSeq = TRUE
      BY <2>1, <3>1 DEF MigInv, SeqIndexed
    <3>3. QED
      BY <2>1, <3>2
  <2>6. QED
    BY <2>4, <2>5
<1>3. Repeatable
  BY DEF MigInv, MigTyped, Repeatable
<1>4. QED
  BY <1>1, <1>2, <1>3

\* initialize().
LEMMA InitializeKeeps == ASSUME MigInv, Initialize PROVE MigInv'
<1>1. runner.pc = "new" /\ UNCHANGED <<backend, forced, policies, applied, commands, disorder, torn>>
  BY DEF Initialize
<1>2. applied = {} /\ failed = FALSE /\ MigTyped
  BY <1>1 DEF MigInv, Started
<1>3. CASE InitializeSqlite
  <2>1. runner' = Idle /\ failed' = failed
    BY <1>3 DEF InitializeSqlite
  <2>2. tables' \subseteq Metadata /\ Permanent \subseteq tables'
    BY <1>3, LiteKnown, PermanentKnown DEF InitializeSqlite
  <2>3. uniqueSeq' \in BOOLEAN
    BY <1>3 DEF InitializeSqlite
  <2>4. MigTyped' /\ Started'
    BY <1>1, <1>2, <2>1, <2>2, <2>3, IdleRunner DEF MigTyped, Started, Upward, Downward
  <2>5. Built(runner, applied, tables)' /\ SeqIndexed(runner, applied, uniqueSeq)'
    BY <1>1, <1>2, <2>1, IdleRunner DEF Built, SeqIndexed, Upward, Downward
  <2>6. QED
    BY <1>2, <2>1, <2>4, <2>5 DEF MigInv
<1>4. CASE InitializeSaPostgres
  <2>1. runner' = Idle /\ failed' = failed /\ tables' = Metadata /\ uniqueSeq' = uniqueSeq
    BY <1>4 DEF InitializeSaPostgres
  <2>2. MigTyped' /\ Started'
    BY <1>1, <1>2, <2>1, PermanentKnown, IdleRunner DEF MigTyped, Started, Upward, Downward
  <2>3. Built(runner, applied, tables)' /\ SeqIndexed(runner, applied, uniqueSeq)'
    BY <1>1, <1>2, <2>1, IdleRunner DEF Built, SeqIndexed, Upward, Downward
  <2>4. QED
    BY <1>2, <2>1, <2>2, <2>3 DEF MigInv
<1>5. CASE InitializePostgres
  <2>1. /\ backend = "postgres" /\ tables' = tables /\ uniqueSeq' = uniqueSeq /\ failed' = TRUE
        /\ runner' = [runner EXCEPT !.pc = "unusable"]
    BY <1>5, PgFails DEF InitializePostgres
  <2>2. runner' \in Runner /\ runner'.pc = "unusable"
    BY <1>2, <2>1 DEF MigTyped, Runner
  <2>3. MigTyped' /\ Started'
    BY <1>1, <1>2, <2>1, <2>2 DEF MigTyped, Started, Upward, Downward
  <2>4. Built(runner, applied, tables)' /\ SeqIndexed(runner, applied, uniqueSeq)'
    BY <1>1, <1>2, <2>2 DEF Built, SeqIndexed, Upward, Downward
  <2>5. Postgres'
    BY <1>1, <2>1 DEF Postgres
  <2>6. QED
    BY <2>3, <2>4, <2>5 DEF MigInv
<1>6. QED
  BY <1>3, <1>4, <1>5 DEF Initialize

\* A command is given.
LEMMA CommandKeeps ==
  ASSUME MigInv, NEW a \in {"up", "down"}, NEW S \in SUBSET Discovered, Command(a, S),
         disorder' \in BOOLEAN, disorder' = FALSE => disorder = FALSE,
         disorder' = FALSE /\ a = "down" /\ 1 \in S => 14 \notin applied,
         disorder' = FALSE /\ a = "up" => 1 \in applied \union S
  PROVE  MigInv'
<1>1. /\ runner.pc = "idle" /\ commands < MaxCommands /\ S # {} /\ commands' = commands + 1
      /\ runner' = [pc |-> a, todo |-> S, at |-> 1]
      /\ UNCHANGED <<backend, tables, forced, policies, uniqueSeq, applied, torn, failed>>
  BY DEF Command
<1>2. commands' \in 0..MaxCommands
  BY <1>1, MigAssumption DEF MigInv, MigTyped
<1>3. runner' \in Runner /\ runner'.pc = a /\ runner'.todo = S
  BY <1>1, SecuredList DEF Runner
<1>4. MigTyped' /\ Started'
  BY <1>1, <1>2, <1>3 DEF MigInv, MigTyped, Started
<1>5. torn = FALSE => Built(runner, applied, tables)'
  BY <1>1, <1>3 DEF MigInv, Built, Downward
<1>6. torn = FALSE /\ disorder' = FALSE => SeqIndexed(runner, applied, uniqueSeq)'
  BY <1>1, <1>3 DEF MigInv, SeqIndexed, Downward, Upward
<1>7. QED
  BY <1>1, <1>4, <1>5, <1>6 DEF MigInv, Postgres

\* The commands there are.
LEMMA CommandsKeep ==
  ASSUME MigInv, ApplyAll \/ \E v \in Discovered : ApplyUpTo(v) \/ ApplyOne(v) \/ RollbackTo(v) \/ RollbackOne(v)
  PROVE  MigInv'
<1>0. disorder \in BOOLEAN /\ applied \subseteq Discovered
  BY DEF MigInv, MigTyped
<1>1. 1 \in Discovered /\ 14 \in Discovered /\ \A v \in Discovered : v \in Nat /\ v >= 1
  BY DEF Discovered, AllVersions
<1>2. CASE ApplyAll
  <2>1. Command("up", Discovered \ applied) /\ disorder' = disorder /\ 1 \in applied \union (Discovered \ applied)
    BY <1>1, <1>2 DEF ApplyAll
  <2>2. QED
    BY <1>0, <2>1, CommandKeeps
<1>3. ASSUME NEW v \in Discovered, ApplyUpTo(v) PROVE MigInv'
  <2> DEFINE S == {u \in Discovered \ applied : u <= v}
  <2>1. Command("up", S) /\ disorder' = disorder /\ S \in SUBSET Discovered /\ 1 \in applied \union S
    BY <1>1, <1>3 DEF ApplyUpTo
  <2> HIDE DEF S
  <2>2. QED
    BY <1>0, <2>1, CommandKeeps
<1>4. ASSUME NEW v \in Discovered, ApplyOne(v) PROVE MigInv'
  <2>1. /\ v \in Discovered \ applied /\ Command("up", {v})
        /\ disorder' = (disorder \/ \E u \in Discovered \ applied : u < v)
    BY <1>4 DEF ApplyOne
  <2>2. disorder' \in BOOLEAN /\ (disorder' = FALSE => disorder = FALSE /\ ~\E u \in Discovered \ applied : u < v)
    BY <1>0, <2>1
  <2>3. disorder' = FALSE => 1 \in applied \union {v}
    <3>1. CASE v = 1
      BY <3>1
    <3>2. CASE v # 1
      <4>1. 1 < v
        BY <1>1, <3>2
      <4>2. QED
        BY <1>1, <2>2, <4>1
    <3>3. QED
      BY <3>1, <3>2
  <2>4. {v} \in SUBSET Discovered
    OBVIOUS
  <2>5. QED
    BY <2>1, <2>2, <2>3, <2>4, CommandKeeps
<1>5. ASSUME NEW v \in Discovered, RollbackTo(v) PROVE MigInv'
  <2> DEFINE S == {u \in Discovered \intersect applied : u > v}
  <2>1. Command("down", S) /\ disorder' = disorder /\ S \in SUBSET Discovered
    BY <1>5 DEF RollbackTo
  <2>2. 1 \notin S
    BY <1>1
  <2> HIDE DEF S
  <2>3. QED
    BY <1>0, <2>1, <2>2, CommandKeeps
<1>6. ASSUME NEW v \in Discovered, RollbackOne(v) PROVE MigInv'
  <2>1. v \in applied /\ Command("down", {v}) /\ disorder' = (disorder \/ \E u \in applied : u > v)
    BY <1>6 DEF RollbackOne
  <2>2. disorder' \in BOOLEAN /\ (disorder' = FALSE => disorder = FALSE /\ ~\E u \in applied : u > v)
    BY <1>0, <2>1
  <2>3. disorder' = FALSE /\ 1 \in {v} => 14 \notin applied
    <3>1. 14 > 1
      OBVIOUS
    <3>2. QED
      BY <2>2, <3>1
  <2>4. {v} \in SUBSET Discovered
    OBVIOUS
  <2>5. QED
    BY <2>1, <2>2, <2>3, <2>4, CommandKeeps
<1>7. QED
  BY <1>2, <1>3, <1>4, <1>5, <1>6

\* The runner moves on, or stops, and nothing else changes.
LEMMA StopsKeep ==
  ASSUME MigInv, runner' = Idle, Upward(runner) \/ (Downward(runner) /\ torn' = TRUE), torn' \in BOOLEAN,
         torn' = FALSE => torn = FALSE, failed' \in BOOLEAN, forced' \subseteq {Secured[i] : i \in 1..Len(Secured)},
         ~Postgres /\ disorder = FALSE /\ torn' = FALSE => failed' = FALSE,
         UNCHANGED <<backend, tables, policies, uniqueSeq, applied, commands, disorder>>
  PROVE  MigInv'
<1>1. runner.pc \notin {"new", "unusable"}
  BY DEF Upward, Downward
<1>2. MigTyped' /\ Started'
  BY <1>1, IdleRunner DEF MigInv, MigTyped, Started, Upward, Downward
<1>3. torn' = FALSE => Built(runner, applied, tables)'
  BY IdleRunner DEF MigInv, Built, Upward, Downward
<1>4. torn' = FALSE /\ disorder = FALSE => SeqIndexed(runner, applied, uniqueSeq)'
  BY IdleRunner DEF MigInv, SeqIndexed, Upward, Downward
<1>5. QED
  BY <1>2, <1>3, <1>4 DEF MigInv, Postgres

\* What an up() creates; all that its migration does, where it finds what it
\* needs.
LEMMA CreatedWhat ==
  ASSUME NEW v
  PROVE  /\ CreatedBy(v) \subseteq Creates(v)
         /\ ~Postgres => CreatedBy(v) = Creates(v)
         /\ \A S : CreatedBy(v) \subseteq S /\ Needs(v) \subseteq S /\ v \in Discovered => Creates(v) \subseteq S
<1>1. CreatedBy(v) \subseteq Creates(v) /\ (~Postgres => CreatedBy(v) = Creates(v))
  BY DEF CreatedBy
<1>2. ASSUME NEW S, CreatedBy(v) \subseteq S, Needs(v) \subseteq S, v \in Discovered PROVE Creates(v) \subseteq S
  <2>1. CASE v \in {12, 14, 15}
    BY <2>1, CreatesWhat
  <2>2. CASE v \notin {12, 14, 15}
    <3>1. Needs(v) = Creates(v) \ CreatedBy(v)
      BY <2>2 DEF Needs
    <3>2. QED
      BY <1>2, <3>1
  <2>3. QED
    BY <2>1, <2>2
<1>3. QED
  BY <1>1, <1>2

\* The migration at work.
LEMMA CurrentIs ==
  ASSUME MigInv, Upward(runner) \/ Downward(runner)
  PROVE  /\ runner \in Runner /\ runner.todo # {}
         /\ Min(runner.todo) \in runner.todo /\ Min(runner.todo) \in Discovered
         /\ Max(runner.todo) \in runner.todo /\ Max(runner.todo) \in Discovered
         /\ \A v \in runner.todo : Min(runner.todo) <= v
         /\ runner.pc = "up" => Current = Min(runner.todo)
         /\ runner.pc = "down" => Current = Max(runner.todo)
<1>1. runner \in Runner /\ runner.todo # {} /\ runner.todo \in SUBSET Discovered
  BY DEF MigInv, MigTyped, Started, Runner
<1>2. QED
  BY <1>1, Extremes DEF Current

\* An up(), statement by statement.
LEMMA UpKeeps == ASSUME MigInv, UpCreates \/ UpRaises \/ UpSecures \/ UpReturns PROVE MigInv'
<1> DEFINE v == Min(runner.todo)
<1>0. runner.pc = "up" /\ Upward(runner) /\ ~Downward(runner)
  BY DEF UpCreates, UpRaises, UpSecures, UpReturns, Upward, Downward
<1>1. /\ runner \in Runner /\ runner.todo # {} /\ v \in runner.todo /\ v \in Discovered
      /\ \A u \in runner.todo : v <= u
      /\ Current = v
  BY <1>0, CurrentIs
<1>2. MigTyped /\ Started
  BY DEF MigInv
<1> HIDE DEF v
<1>3. CASE UpCreates
  <2> DEFINE t == CHOOSE u \in CreatedBy(v) \ tables : TRUE
  <2>1. /\ ~(CreatedBy(v) \subseteq tables) /\ tables' = tables \union {t}
        /\ UNCHANGED <<backend, forced, policies, uniqueSeq, applied, runner, commands, disorder, torn, failed>>
    BY <1>1, <1>3 DEF UpCreates
  <2>2. t \in Metadata
    BY <1>1, <2>1, CreatedWhat, CreatesKnown
  <2> HIDE DEF t
  <2>3. MigTyped' /\ Started'
    BY <1>2, <2>1, <2>2 DEF MigTyped, Started
  <2>4. Built(runner, applied, tables) => Built(runner, applied, tables)'
    BY <2>1 DEF Built
  <2>5. QED
    BY <2>1, <2>3, <2>4 DEF MigInv, Postgres
<1>4. CASE UpRaises
  <2>1. /\ CreatedBy(v) \subseteq tables /\ (~(Needs(v) \subseteq tables) \/ Postgres)
        /\ failed' = TRUE /\ runner' = Idle
        /\ UNCHANGED <<backend, tables, forced, policies, uniqueSeq, applied, commands, disorder, torn>>
    BY <1>1, <1>4 DEF UpRaises, Raises
  <2>2. ASSUME ~Postgres, disorder = FALSE, torn = FALSE PROVE FALSE
    <3>1. Built(runner, applied, tables) /\ SeqIndexed(runner, applied, uniqueSeq)
      BY <2>2 DEF MigInv
    <3>2. v \in {12, 14, 15} => InitialSchema \subseteq tables
      <4> SUFFICES ASSUME v \in {12, 14, 15} PROVE InitialSchema \subseteq tables
        OBVIOUS
      <4>1. 1 \notin runner.todo
        BY <1>1
      <4>2. 1 \in applied
        BY <1>0, <3>1, <4>1 DEF SeqIndexed
      <4>3. Creates(1) \subseteq tables
        BY <1>0, <3>1, <4>2 DEF Built
      <4>4. QED
        BY <4>3, CreatesWhat
    <3>3. CreatedBy(v) = Creates(v)
      BY <2>2, CreatedWhat
    <3>4. Needs(v) \subseteq tables
      BY <1>1, <3>2, <3>3, NeedsFirst
    <3>5. QED
      BY <2>1, <2>2, <3>4
  <2>3. torn' \in BOOLEAN /\ forced' \subseteq {Secured[i] : i \in 1..Len(Secured)}
    BY <1>2, <2>1 DEF MigTyped
  <2>4. failed' \in BOOLEAN
    BY <2>1
  <2>5. QED
    BY <1>0, <2>1, <2>2, <2>3, <2>4, StopsKeep
<1>5. CASE UpSecures
  <2> DEFINE t == Secured[runner.at]
             r == [runner EXCEPT !.at = runner.at + 1]
  <2>1. /\ Postgres /\ runner.at <= Len(Secured)
        /\ UNCHANGED <<backend, tables, uniqueSeq, applied, commands, disorder, torn>>
    BY <1>5 DEF UpSecures
  <2>2. runner.at \in Nat /\ runner.at >= 1
    BY <1>1, SecuredList DEF Runner
  <2>3. runner.at \in 1..Len(Secured) /\ runner.at + 1 \in 1..(Len(Secured) + 1)
    BY <2>1, <2>2, SecuredList
  <2>4. t \in {Secured[i] : i \in 1..Len(Secured)}
    BY <2>3
  <2>5. CASE t \notin tables \/ t \in Ownerless \union policies
    <3>1. failed' = TRUE /\ runner' = Idle /\ policies' = policies /\ (forced' = forced \/ forced' = forced \union {t})
      BY <1>5, <2>5 DEF UpSecures, Raises
    <3> HIDE DEF t
    <3>2. torn' \in BOOLEAN /\ forced' \subseteq {Secured[i] : i \in 1..Len(Secured)}
      BY <1>2, <2>1, <2>4, <3>1 DEF MigTyped
    <3>3. failed' \in BOOLEAN
      BY <3>1
    <3>4. QED
      BY <1>0, <2>1, <3>1, <3>2, <3>3, StopsKeep
  <2>6. CASE t \in tables /\ t \notin Ownerless \union policies
    <3>1. /\ forced' = forced \union {t} /\ policies' = policies \union {t} /\ runner' = r /\ failed' = failed
      BY <1>5, <2>6 DEF UpSecures
    <3>2. r \in Runner /\ r.pc = runner.pc /\ r.todo = runner.todo
      BY <1>1, <2>3 DEF Runner
    <3> HIDE DEF r, t
    <3>3. MigTyped' /\ Started'
      BY <1>2, <2>1, <2>4, <3>1, <3>2 DEF MigTyped, Started, Upward, Downward
    <3>4. Built(runner, applied, tables) => Built(runner, applied, tables)'
      BY <2>1, <3>1, <3>2 DEF Built, Downward
    <3>5. SeqIndexed(runner, applied, uniqueSeq) => SeqIndexed(runner, applied, uniqueSeq)'
      BY <2>1, <3>1, <3>2 DEF SeqIndexed, Upward, Downward
    <3>6. QED
      BY <2>1, <3>1, <3>3, <3>4, <3>5 DEF MigInv, Postgres
  <2>7. QED
    BY <2>5, <2>6
<1>6. CASE UpReturns
  <2> DEFINE r == [runner EXCEPT !.pc = "recordUp", !.at = 1]
  <2>1. /\ CreatedBy(v) \subseteq tables /\ Needs(v) \subseteq tables
        /\ uniqueSeq' = (uniqueSeq \/ v = 14) /\ runner' = r
        /\ UNCHANGED <<backend, tables, forced, policies, applied, commands, disorder, torn, failed>>
    BY <1>1, <1>6 DEF UpReturns
  <2>0. 1 \in 1..(Len(Secured) + 1)
    BY SecuredList
  <2>2. r \in Runner /\ r.pc = "recordUp" /\ r.todo = runner.todo
    BY <1>1, <2>0 DEF Runner
  <2> HIDE DEF r
  <2>3. uniqueSeq \in BOOLEAN /\ uniqueSeq' \in BOOLEAN /\ ((uniqueSeq = TRUE \/ v = 14) => uniqueSeq' = TRUE)
    BY <1>2, <2>1 DEF MigTyped
  <2>4. MigTyped' /\ Started'
    BY <1>1, <1>2, <1>0, <2>1, <2>2, <2>3 DEF MigTyped, Started, Upward, Downward
  <2>5. Creates(v) \subseteq tables
    BY <1>1, <2>1, CreatedWhat
  <2>6. Built(runner, applied, tables) => Built(runner, applied, tables)'
    BY <1>0, <2>1, <2>2, <2>5 DEF Built, Downward, v
  <2>7. SeqIndexed(runner, applied, uniqueSeq) => SeqIndexed(runner, applied, uniqueSeq)'
    BY <1>0, <2>1, <2>2, <2>3 DEF SeqIndexed, Upward, Downward, v
  <2>8. QED
    BY <2>1, <2>4, <2>6, <2>7 DEF MigInv, Postgres
<1>7. QED
  BY <1>3, <1>4, <1>5, <1>6

\* A down(), statement by statement.
LEMMA DownKeeps == ASSUME MigInv, DownDrops \/ DownReturns PROVE MigInv'
<1> DEFINE v == Max(runner.todo)
<1>0. runner.pc = "down" /\ ~Upward(runner) /\ Downward(runner)
  BY DEF DownDrops, DownReturns, Upward, Downward
<1>1. /\ runner \in Runner /\ runner.todo # {} /\ v \in runner.todo /\ v \in Discovered
      /\ Current = v
  BY <1>0, CurrentIs
<1>2. MigTyped /\ Started
  BY DEF MigInv
<1> HIDE DEF v
<1>3. CASE DownDrops
  <2> DEFINE t == CHOOSE u \in Creates(v) \intersect tables : TRUE
  <2>1. /\ Creates(v) \intersect tables # {} /\ tables' = tables \ {t}
        /\ forced' = forced \ {t} /\ policies' = policies \ {t}
        /\ uniqueSeq' = (uniqueSeq /\ t # "audit_trail")
        /\ UNCHANGED <<backend, applied, runner, commands, disorder, torn, failed>>
    BY <1>1, <1>3 DEF DownDrops, Drops
  <2>2. t \in Creates(v)
    BY <2>1
  <2> HIDE DEF t
  <2>3. (\A u \in Discovered : u # v => t \notin Creates(u)) /\ t \notin Permanent
    BY <1>1, <2>2, CreatesApart
  <2>4. uniqueSeq \in BOOLEAN /\ uniqueSeq' \in BOOLEAN /\ (uniqueSeq = TRUE /\ v # 1 => uniqueSeq' = TRUE)
    BY <1>1, <1>2, <2>1, <2>2, TrailFirst DEF MigTyped
  <2>5. MigTyped' /\ Started'
    BY <1>2, <2>1, <2>3, <2>4 DEF MigTyped, Started
  <2>6. Built(runner, applied, tables) => Built(runner, applied, tables)'
    <3>1. ASSUME NEW u \in applied, Creates(u) \subseteq tables, u # v PROVE Creates(u) \subseteq tables'
      BY <1>2, <2>1, <2>3, <3>1 DEF MigTyped
    <3>2. QED
      BY <1>0, <2>1, <3>1 DEF Built, v
  <2>7. SeqIndexed(runner, applied, uniqueSeq) => SeqIndexed(runner, applied, uniqueSeq)'
    BY <1>0, <1>1, <2>1, <2>4 DEF SeqIndexed, Upward, Downward
  <2>8. QED
    BY <2>1, <2>5, <2>6, <2>7 DEF MigInv, Postgres
<1>4. CASE DownReturns
  <2> DEFINE r == [runner EXCEPT !.pc = "recordDown"]
  <2>1. /\ (forced' = {} /\ policies' = {}) \/ (forced' = forced /\ policies' = policies)
        /\ uniqueSeq' = (uniqueSeq /\ v # 14) /\ runner' = r
        /\ UNCHANGED <<backend, tables, applied, commands, disorder, torn, failed>>
    BY <1>1, <1>4 DEF DownReturns
  <2>2. r \in Runner /\ r.pc = "recordDown" /\ r.todo = runner.todo
    BY <1>1 DEF Runner
  <2> HIDE DEF r
  <2>3. uniqueSeq \in BOOLEAN /\ uniqueSeq' \in BOOLEAN /\ (uniqueSeq = TRUE /\ v # 14 => uniqueSeq' = TRUE)
    BY <1>2, <2>1 DEF MigTyped
  <2>4. MigTyped' /\ Started'
    BY <1>0, <1>1, <1>2, <2>1, <2>2, <2>3 DEF MigTyped, Started, Upward, Downward
  <2>5. Built(runner, applied, tables) => Built(runner, applied, tables)'
    BY <1>0, <2>1, <2>2 DEF Built, Downward
  <2>6. SeqIndexed(runner, applied, uniqueSeq) => SeqIndexed(runner, applied, uniqueSeq)'
    BY <1>0, <2>1, <2>2, <2>3 DEF SeqIndexed, Upward, Downward, v
  <2>7. QED
    BY <2>1, <2>4, <2>5, <2>6 DEF MigInv, Postgres
<1>5. QED
  BY <1>3, <1>4

\* A migration is recorded, and the next one begins.
LEMMA RecordKeepsUp == ASSUME MigInv, RecordApplied PROVE MigInv'
<1> DEFINE v == Min(runner.todo)
           S == runner.todo \ {v}
           r == [runner EXCEPT !.pc = "up", !.todo = S]
<1>1. /\ runner.pc = "recordUp" /\ applied' = applied \union {v} /\ runner' = IF runner.todo = {v} THEN Idle ELSE r
      /\ UNCHANGED <<backend, tables, forced, policies, uniqueSeq, commands, disorder, torn, failed>>
  BY DEF RecordApplied, Done
<1>2. runner \in Runner /\ v \in runner.todo /\ v \in Discovered /\ Upward(runner) /\ ~Downward(runner)
  BY <1>1, CurrentIs DEF Upward, Downward
<1>3. MigTyped /\ Started
  BY DEF MigInv
<1>4. /\ runner' \in Runner /\ runner'.pc \in {"idle", "up"} /\ ~Downward(runner') /\ S \subseteq runner'.todo
      /\ Upward(runner') => runner'.todo = S /\ S # {}
  <2>1. S \in SUBSET Discovered
    BY <1>2 DEF Runner
  <2> HIDE DEF v
  <2>2. CASE runner.todo = {v}
    BY <1>1, <2>2, IdleRunner DEF Upward, Downward
  <2>3. CASE runner.todo # {v}
    <3>1. S # {}
      BY <1>2, <2>3
    <3>2. runner' = r
      BY <1>1, <2>3
    <3> HIDE DEF S
    <3>3. r \in Runner /\ r.pc = "up" /\ r.todo = S
      BY <1>2, <2>1 DEF Runner
    <3>4. QED
      BY <3>1, <3>2, <3>3 DEF Upward, Downward
  <2>4. QED
    BY <2>2, <2>3
<1>5. MigTyped' /\ Started'
  BY <1>1, <1>2, <1>3, <1>4 DEF MigTyped, Started, Upward, Downward
<1>6. Built(runner, applied, tables) => Built(runner, applied, tables)'
  BY <1>1, <1>2, <1>4 DEF Built
<1>7. SeqIndexed(runner, applied, uniqueSeq) => SeqIndexed(runner, applied, uniqueSeq)'
  <2>1. runner'.pc # "recordUp" /\ runner'.pc # "recordDown" /\ runner.pc # "recordDown"
    BY <1>1, <1>4
  <2> HIDE DEF r
  <2>2. QED
    BY <1>1, <1>2, <1>4, <2>1 DEF SeqIndexed
<1>8. QED
  BY <1>1, <1>5, <1>6, <1>7 DEF MigInv, Postgres

\* So is a rollback.
LEMMA RecordKeepsDown == ASSUME MigInv, RecordRolledBack PROVE MigInv'
<1> DEFINE v == Max(runner.todo)
           S == runner.todo \ {v}
           r == [runner EXCEPT !.pc = "down", !.todo = S]
<1>1. /\ runner.pc = "recordDown" /\ applied' = applied \ {v} /\ runner' = IF runner.todo = {v} THEN Idle ELSE r
      /\ UNCHANGED <<backend, tables, forced, policies, uniqueSeq, commands, disorder, torn, failed>>
  BY DEF RecordRolledBack, Done
<1>2. runner \in Runner /\ v \in runner.todo /\ v \in Discovered /\ ~Upward(runner) /\ Downward(runner)
  BY <1>1, CurrentIs DEF Upward, Downward
<1>3. MigTyped /\ Started
  BY DEF MigInv
<1>4. /\ runner' \in Runner /\ runner'.pc \in {"idle", "down"} /\ ~Upward(runner')
      /\ Downward(runner') => runner'.todo = S /\ S # {}
  <2>1. S \in SUBSET Discovered
    BY <1>2 DEF Runner
  <2> HIDE DEF v
  <2>2. CASE runner.todo = {v}
    BY <1>1, <2>2, IdleRunner DEF Upward, Downward
  <2>3. CASE runner.todo # {v}
    <3>1. S # {}
      BY <1>2, <2>3
    <3>2. runner' = r
      BY <1>1, <2>3
    <3> HIDE DEF S
    <3>3. r \in Runner /\ r.pc = "down" /\ r.todo = S
      BY <1>2, <2>1 DEF Runner
    <3>4. QED
      BY <3>1, <3>2, <3>3 DEF Upward, Downward
  <2>4. QED
    BY <2>2, <2>3
<1>5. MigTyped' /\ Started'
  BY <1>1, <1>2, <1>3, <1>4 DEF MigTyped, Started, Upward, Downward
<1>6. Built(runner, applied, tables) => Built(runner, applied, tables)'
  BY <1>1, <1>2, <1>4 DEF Built
<1>7. SeqIndexed(runner, applied, uniqueSeq) => SeqIndexed(runner, applied, uniqueSeq)'
  BY <1>1, <1>2, <1>4 DEF SeqIndexed
<1>8. QED
  BY <1>1, <1>5, <1>6, <1>7 DEF MigInv, Postgres

\* No step of the runner leaves a migration recorded without its tables.
LEMMA MigStep == MigInv /\ [MigNext]_migVars => MigInv'
<1> SUFFICES ASSUME MigInv, [MigNext]_migVars PROVE MigInv'
  OBVIOUS
<1>1. CASE UNCHANGED migVars
  BY <1>1 DEF migVars, MigInv, MigTyped, Started, Postgres
<1>2. CASE RunnerDies
  <2>1. /\ (Upward(runner) \/ Downward(runner)) /\ runner' = Idle
        /\ torn' = (torn \/ runner.pc \in {"down", "recordDown"})
        /\ UNCHANGED <<backend, tables, forced, policies, uniqueSeq, applied, commands, disorder, failed>>
    BY <1>2 DEF RunnerDies, Upward, Downward
  <2>2. torn \in BOOLEAN /\ failed \in BOOLEAN /\ forced \subseteq {Secured[i] : i \in 1..Len(Secured)}
    BY DEF MigInv, MigTyped
  <2>3. torn' \in BOOLEAN /\ (torn' = FALSE => torn = FALSE) /\ (Downward(runner) => torn' = TRUE)
    BY <2>1, <2>2 DEF Downward
  <2>4. ~Postgres /\ disorder = FALSE /\ torn' = FALSE => failed' = FALSE
    BY <2>1, <2>3 DEF MigInv
  <2>5. (Upward(runner) \/ Downward(runner)) /\ runner' = Idle
    BY <1>2 DEF RunnerDies, Upward, Downward
  <2>6. QED
    BY <2>1, <2>2, <2>3, <2>4, <2>5, StopsKeep
<1>3. QED
  BY <1>1, <1>2, InitializeKeeps, CommandsKeep, UpKeeps, DownKeeps, RecordKeepsUp, RecordKeepsDown DEF MigNext

\* FullyMigrated and Repeatable: wherever commands were cut short, a database
\* with every migration applied has every table, and an apply can be given
\* again.
THEOREM MigrationsComplete == MigSpec => [](MigTypeOK /\ FullyMigrated /\ Repeatable)
BY MigStart, MigStep, MigHolds, PTL DEF MigSpec

=============================================================================
