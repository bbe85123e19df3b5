------------------------- MODULE ScopedDatabase -------------------------
(***************************************************************************)
(* The tables a registered Django model and its history live in, and the   *)
(* transactions PyScoped runs against them: PostgreSQL at READ COMMITTED,   *)
(* reached through django.db.transaction.atomic.                           *)
(*                                                                         *)
(* Nothing here is PyScoped's own control: the two tables are those of     *)
(* src/pyscoped/models.py and of the application, and the transactions are  *)
(* modelled from what src/pyscoped relies on.                              *)
(*   - A transaction holds a set of row locks.  Taking a lock and writing  *)
(*     the row are the same thing here: the transaction owns the key, and  *)
(*     what it owns is what it sees and what it will commit.               *)
(*   - A statement reads the owned version of a row if there is one, and   *)
(*     otherwise the version committed when the statement runs.            *)
(*   - atomic() around an operation is a savepoint when the application    *)
(*     already opened a transaction; rolling back to it also gives up the   *)
(*     locks taken since.                                                  *)
(***************************************************************************)
EXTENDS Naturals, Sequences, FiniteSets

CONSTANTS
  Worker,     \* requests, each with a database connection and a context
  Key,        \* primary keys; they are numbers, the code orders by them
  Scope,      \* tenants
  Value,      \* values of the audited fields of a row
  Null        \* SQL NULL, JSON null, Python None

ASSUME KeyAssumption == Key \subseteq Nat
ASSUME NullAssumption == Null \notin Value \union Worker
ASSUME SomeAssumption == Scope # {} /\ Value # {}

VARIABLES
  row,        \* committed application rows: [Key -> Row or Null]
  hist,       \* committed history: [Key -> Resource or Null]
  txn,        \* per worker, the rows and histories its transaction owns
  mark        \* per worker, txn as it was at the savepoint of its operation

dbVars == <<row, hist, txn, mark>>

-----------------------------------------------------------------------------
(* The tables. *)

\* An application row: its scope column and its audited fields.
Row == [scope : Scope, val : Value]

\* What a snapshot of a row can be.
Image == Value \union {Null}

Action == {"create", "update", "delete", "baseline", "restore"}

\* What event_digest() hashes of an event besides the previous digest.  The
\* occurrence time, the reason and the request id add nothing to any property.
Content == [revision : Nat, scope : Scope, actor : Worker, action : Action,
            before : Image, after : Image]

\* SHA-256 is taken to be free of collisions, so a digest IS what it hashes:
\* the contents of the event and, through previous_digest, of all before it.
Digest == Seq(Content)

Event == [revision : Nat, scope : Scope, actor : Worker, action : Action,
          before : Image, after : Image, previous : Digest, digest : Digest]

\* The head of one row's history together with the events that refer to it.
Resource == [scope : Scope, revision : Nat, digest : Digest, events : Seq(Event)]

\* SQL NULL is neither a row nor a history.
ASSUME AbsenceAssumption == Null \notin Row /\ Null \notin Resource

\* A row and its history, or their absence.
MaybeRow == Row \union {Null}
MaybeHist == Resource \union {Null}

Events(h) == IF h = Null THEN <<>> ELSE h.events

-----------------------------------------------------------------------------
(* Transactions. *)

Empty == [k \in {} |-> Null]
NoLocks == [row |-> Empty, hist |-> Empty]

\* f where it is defined and g elsewhere.
Merge(f, g) ==
  [k \in DOMAIN f \union DOMAIN g |-> IF k \in DOMAIN f THEN f[k] ELSE g[k]]

VisibleRow(w, k) == IF k \in DOMAIN txn[w].row THEN txn[w].row[k] ELSE row[k]
VisibleHist(w, k) == IF k \in DOMAIN txn[w].hist THEN txn[w].hist[k] ELSE hist[k]

\* No other transaction holds the lock: a statement that needs it goes ahead.
RowFree(w, k) == \A v \in Worker \ {w} : k \notin DOMAIN txn[v].row
HistFree(w, k) == \A v \in Worker \ {w} : k \notin DOMAIN txn[v].hist

\* SELECT ... FOR UPDATE: a row that is not there is not locked, and the
\* statement does not wait for it.
SelectWaits(w, k) == VisibleRow(w, k) # Null /\ ~RowFree(w, k)

\* The worker's transaction owns the rows in DOMAIN f, and leaves f in them.
PutRows(w, f) == [txn EXCEPT ![w] = [row |-> Merge(f, @.row), hist |-> @.hist]]
PutHist(w, k, h) ==
  [txn EXCEPT ![w] = [row |-> @.row, hist |-> Merge([x \in {k} |-> h], @.hist)]]

\* Mutant: load_row() ignores lock=True.
Unlocked(w, k) == txn

\* load_row(lock=True): what SELECT ... FOR UPDATE takes, if the row is there.
Locked(w, k) ==
  IF VisibleRow(w, k) = Null THEN txn ELSE PutRows(w, [x \in {k} |-> VisibleRow(w, k)])

Commit(w) ==
  /\ row' = Merge(txn[w].row, row)
  /\ hist' = Merge(txn[w].hist, hist)
  /\ txn' = [txn EXCEPT ![w] = NoLocks]

Rollback(w, to) ==
  /\ txn' = [txn EXCEPT ![w] = to]
  /\ UNCHANGED <<row, hist>>

-----------------------------------------------------------------------------

\* A function from some of the keys to T.
Partial(f, T) == DOMAIN f \subseteq Key /\ f \in [DOMAIN f -> T]

TxnTypeOK(t) ==
  /\ t = [row |-> t.row, hist |-> t.hist]
  /\ Partial(t.row, MaybeRow)
  /\ Partial(t.hist, MaybeHist)

DatabaseTypeOK ==
  /\ row \in [Key -> MaybeRow]
  /\ hist \in [Key -> MaybeHist]
  /\ DOMAIN txn = Worker /\ DOMAIN mark = Worker
  /\ \A w \in Worker : TxnTypeOK(txn[w]) /\ TxnTypeOK(mark[w])

=============================================================================
