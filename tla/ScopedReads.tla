---------------------------- MODULE ScopedReads ----------------------------
(***************************************************************************)
(* Scoped querysets (src/pyscoped/query.py) in the blocks of ScopeManager. *)
(* A queryset of an enforced model carries the context it was built in; it *)
(* is evaluated, iterated, counted or combined later, when the task may be *)
(* in another block, and its result cache is handed out again.  Contexts   *)
(* are compared with "is": the context of a manager is one object.         *)
(***************************************************************************)
EXTENDS ScopeManager, FiniteSets

CONSTANTS
  ScopeOf,      \* scope of each manager's context
  Row,          \* rows of the table
  RowScope,     \* scope of each row
  QuerySet,     \* querysets that are built
  MaxReads      \* bound on reads

ASSUME ReadsAssumption ==
  /\ DOMAIN ScopeOf = Manager /\ DOMAIN RowScope = Row /\ MaxReads \in Nat

VARIABLES
  querysets,    \* per queryset: its _scope_context, its scope predicates, its cache
  cursor,       \* per queryset: rows an iterator() over it has still to yield
  seenRows,     \* rows handed to the application after a check, each with the context it ran in
  cacheRows,    \* rows handed to it out of a cache without a check, with the context, or none
  reads

readVars == <<querysets, cursor, seenRows, cacheRows, reads>>

NotBuilt == [context |-> NoManager, scopes |-> {}, cached |-> FALSE]

ReadsInit ==
  /\ ManagerInit
  /\ querysets = [q \in QuerySet |-> NotBuilt]
  /\ cursor = [q \in QuerySet |-> {}]
  /\ seenRows = {}
  /\ cacheRows = {}
  /\ reads = 0

Rows(q) == {row \in Row : querysets[q].scopes = {RowScope[row]}}

Counted == reads < MaxReads /\ reads' = reads + 1

\* ScopedManager.get_queryset(): current_context() raises outside all blocks.
BuildQuerySet(t, q) ==
  /\ entering[t] = NoManager /\ bound[t] # NoManager
  /\ querysets[q] = NotBuilt
  /\ Counted
  /\ querysets' = [querysets EXCEPT ![q] = [context |-> bound[t], scopes |-> {ScopeOf[bound[t]]}, cached |-> FALSE]]
  /\ UNCHANGED <<managerVars, cursor, seenRows, cacheRows>>

\* Mutant: a queryset without a cache is checked, one with a cache is not.
CheckUncached(t, q) ==
  bound[t] # NoManager /\ (querysets[q].cached \/ bound[t] = querysets[q].context)

\* _check_context()
CheckContext(t, q) == bound[t] # NoManager /\ bound[t] = querysets[q].context

\* _fetch_all(), which iteration, len() and bool() call, with a cache too; the
\* query is run when there is none.  count(), exists() and aggregate() are the
\* same for what they reveal.
Evaluate(t, q) ==
  /\ entering[t] = NoManager
  /\ querysets[q] # NotBuilt /\ CheckContext(t, q)
  /\ Counted
  /\ querysets' = [querysets EXCEPT ![q].cached = TRUE]
  /\ seenRows' = seenRows \union (Rows(q) \X {bound[t]})
  /\ UNCHANGED <<managerVars, cursor, cacheRows>>

\* qs[i], qs[a:b], first() of an ordered queryset, repr() and contains(), on a
\* queryset that has its result cache: Django answers out of the cache, past
\* _fetch_all(), in whatever context this is called, or in none.
ReadCached(t, q) ==
  /\ entering[t] = NoManager
  /\ querysets[q].cached
  /\ Counted
  /\ \E row \in Rows(q) : cacheRows' = cacheRows \union {<<row, bound[t]>>}
  /\ UNCHANGED <<managerVars, querysets, cursor, seenRows>>

\* iterator() checks before it starts ...
OpenIterator(t, q) ==
  /\ entering[t] = NoManager
  /\ querysets[q] # NotBuilt /\ CheckContext(t, q)
  /\ Counted
  /\ cursor' = [cursor EXCEPT ![q] = Rows(q)]
  /\ UNCHANGED <<managerVars, querysets, seenRows, cacheRows>>

\* ... and before every item, wherever its generator is resumed: a check that
\* fails ends the generator.
NextItem(t, q) ==
  /\ entering[t] = NoManager
  /\ cursor[q] # {}
  /\ IF CheckContext(t, q)
     THEN \E row \in cursor[q] :
            /\ cursor' = [cursor EXCEPT ![q] = @ \ {row}]
            /\ seenRows' = seenRows \union {<<row, bound[t]>>}
     ELSE /\ cursor' = [cursor EXCEPT ![q] = {}]
          /\ UNCHANGED seenRows
  /\ UNCHANGED <<managerVars, querysets, cacheRows, reads>>

\* q1 & q2, |, ^, union() ...: both are checked; the result is a queryset of
\* the same context with both predicates.
Combine(t, q, other) ==
  /\ entering[t] = NoManager
  /\ q # other /\ querysets[q] # NotBuilt /\ querysets[other] # NotBuilt
  /\ CheckContext(t, q) /\ CheckContext(t, other)
  /\ Counted
  /\ querysets' = [querysets EXCEPT ![q].scopes = @ \union querysets[other].scopes, ![q].cached = FALSE]
  /\ UNCHANGED <<managerVars, cursor, seenRows, cacheRows>>

-----------------------------------------------------------------------------
ReadsNext ==
  \/ ManagerNext /\ UNCHANGED readVars
  \/ \E t \in Task, q \in QuerySet :
       \/ BuildQuerySet(t, q) \/ Evaluate(t, q) \/ ReadCached(t, q) \/ OpenIterator(t, q) \/ NextItem(t, q)
       \/ \E other \in QuerySet : Combine(t, q, other)

ReadsSpec == ReadsInit /\ [][ReadsNext]_<<managerVars, readVars>>

-----------------------------------------------------------------------------
(* Properties. *)

ReadsTypeOK ==
  /\ ManagerTypeOK
  /\ \A q \in QuerySet : querysets[q].context \in Manager \union {NoManager} /\ cursor[q] \subseteq Row
  /\ seenRows \subseteq Row \X Manager
  /\ cacheRows \subseteq Row \X (Manager \union {NoManager})

\* docs/guarantees.md: whatever is built in one block and read in another, a
\* query never brings a row to code that runs in a context of another scope; and
\* what is handed out of a cache without a check was handed to code in a context
\* of the row's own scope before.
RowsInScope ==
  /\ \A seen \in seenRows : RowScope[seen[1]] = ScopeOf[seen[2]]
  /\ \A kept \in cacheRows :
       \E seen \in seenRows : seen[1] = kept[1] /\ RowScope[kept[1]] = ScopeOf[seen[2]]

\* "Querysets/subqueries cannot be evaluated under another context, even if their
\* earlier results are cached" (docs/guarantees.md): ReadCached breaks it as soon
\* as a queryset that was evaluated in one block is indexed in another.  No run
\* checks it.
CachedRowsInScope ==
  \A seen \in seenRows \union cacheRows :
    seen[2] \in Manager /\ RowScope[seen[1]] = ScopeOf[seen[2]]

=============================================================================
