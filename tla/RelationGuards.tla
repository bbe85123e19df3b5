--------------------------- MODULE RelationGuards ---------------------------
(***************************************************************************)
(* Foreign keys between two enforced models (check_relations() of          *)
(* src/pyscoped/audit.py, as save(), update() and the bulk operations of   *)
(* registry.py and query.py call it).  A worker writes child rows that     *)
(* name parent rows; each parent it finds it locks and compares with its   *)
(* scope, one child after the other, before and after the rows are         *)
(* written.  Other workers create and delete parents meanwhile.  The       *)
(* database checks that the parents exist when the transaction commits     *)
(* (Django declares foreign keys deferred), and ends a deadlock by failing *)
(* one of the transactions in it.                                          *)
(***************************************************************************)
EXTENDS Naturals, Sequences, SequencesExt

CONSTANTS
  Clerk,          \* requests or jobs that write
  Parent,         \* keys of the parent model
  Tenant,         \* scopes
  NoTenant,       \* no such row
  NoClerk,        \* not locked
  MaxWrites       \* bound on transactions

ASSUME RelationAssumption ==
  NoTenant \notin Tenant /\ NoClerk \notin Clerk /\ MaxWrites \in Nat

VARIABLES
  parents,        \* committed parent rows: their scope
  origin,         \* scope of each parent's history, which a key never changes
  parentLock,       \* who holds each parent's row lock
  children,       \* committed child rows: scope, parent, and whether the parent
                  \* was there from the write of the child to its commit
  writing,        \* per worker: its transaction; refs, the parents its children
                  \* name; left, those still to check; present, those that have
                  \* been there since its children were written
  writes

relationVars == <<parents, origin, parentLock, children, writing, writes>>

NotWriting == [pc |-> "none", scope |-> NoTenant, refs |-> <<>>, left |-> <<>>, present |-> {}]

RelationInit ==
  /\ parents \in [Parent -> Tenant \union {NoTenant}]
  /\ origin = parents
  /\ parentLock = [p \in Parent |-> NoClerk]
  /\ children = {}
  /\ writing = [c \in Clerk |-> NotWriting]
  /\ writes = 0

Existing == {p \in Parent : parents[p] # NoTenant}

\* select_for_update() and the deferred constraint wait for who else holds a
\* lock; a row that is not there is not waited for.
Unlocked(c, p) == parentLock[p] \in {NoClerk, c}

\* What a worker has to lock for its next step: the parent of the child it
\* checks, and at COMMIT those of all.
Needs(c) ==
  LET t == writing[c] IN
  Existing \intersect
    (IF t.left # <<>> THEN {Head(t.left)} ELSE IF t.pc = "after" THEN Range(t.refs) ELSE {})

Blockers(c) == {parentLock[p] : p \in {q \in Needs(c) : ~Unlocked(c, q)}}

\* Mutant: the locks of a transaction that failed are kept.
EndKeeping(c) ==
  /\ writing' = [writing EXCEPT ![c] = NotWriting]
  /\ UNCHANGED parentLock

\* The transaction ends and its locks with it.
End(c) ==
  /\ writing' = [writing EXCEPT ![c] = NotWriting]
  /\ parentLock' = [p \in Parent |-> IF parentLock[p] = c THEN NoClerk ELSE parentLock[p]]

Start(c, transaction) ==
  /\ writing[c] = NotWriting
  /\ writes < MaxWrites
  /\ writes' = writes + 1
  /\ writing' = [writing EXCEPT ![c] = transaction]

\* save() and bulk_create() check what they are given first ...
BeginInsert(c, scope, refs) ==
  /\ Start(c, [pc |-> "before", scope |-> scope, refs |-> refs, left |-> refs, present |-> {}])
  /\ UNCHANGED <<parents, origin, parentLock, children>>

\* ... update() and bulk_update() of a foreign key check only what they wrote.
BeginRepoint(c, scope, refs) ==
  /\ Start(c, [pc |-> "write", scope |-> scope, refs |-> refs, left |-> <<>>, present |-> {}])
  /\ UNCHANGED <<parents, origin, parentLock, children>>

\* check_relations() of the next child: a parent that is found is locked until
\* the transaction ends; one of another scope fails the operation; one that is
\* not found is passed over.
CheckRelation(c) ==
  LET p == Head(writing[c].left) IN
  /\ writing[c].pc \in {"before", "after"}
  /\ writing[c].left # <<>>
  /\ Blockers(c) = {}
  /\ \/ /\ parents[p] \notin {NoTenant, writing[c].scope}
        /\ End(c)
     \/ /\ parents[p] \in {NoTenant, writing[c].scope}
        /\ writing' = [writing EXCEPT ![c].left = Tail(@)]
        /\ parentLock' = [parentLock EXCEPT ![p] = IF p \in Existing THEN c ELSE @]
  /\ UNCHANGED <<parents, origin, children, writes>>

\* Mutant: what was written is not checked again.
WriteUnchecked(c) ==
  /\ writing[c].pc \in {"before", "write"} /\ writing[c].left = <<>>
  /\ writing' = [writing EXCEPT ![c].pc = "after", ![c].present = Existing \intersect Range(writing[c].refs)]
  /\ UNCHANGED <<parents, origin, parentLock, children, writes>>

\* The INSERT or UPDATE of all children; _record_bulk() and save_base() check
\* the rows they find afterwards.
WriteChildren(c) ==
  /\ writing[c].pc \in {"before", "write"} /\ writing[c].left = <<>>
  /\ writing' = [writing EXCEPT ![c].pc = "after", ![c].left = writing[c].refs, ![c].present = Existing \intersect Range(writing[c].refs)]
  /\ UNCHANGED <<parents, origin, parentLock, children, writes>>

\* COMMIT, with the deferred foreign keys; a child without a parent fails it.
CommitChildren(c) ==
  LET t == writing[c] IN
  /\ t.pc = "after" /\ t.left = <<>>
  /\ Blockers(c) = {}
  /\ children' = children \union
       (IF Range(t.refs) \subseteq Existing
        THEN {[scope |-> t.scope, parent |-> p, checked |-> p \in t.present] : p \in Range(t.refs)}
        ELSE {})
  /\ End(c)
  /\ UNCHANGED <<parents, origin, writes>>

\* A parent is created under a key the application chose.  append_event()
\* refuses a key whose history is of another scope.
CreateParent(c, p, scope) ==
  /\ p \notin Existing /\ origin[p] \in {NoTenant, scope}
  /\ Unlocked(c, p)
  /\ Start(c, NotWriting)
  /\ parents' = [parents EXCEPT ![p] = scope]
  /\ origin' = [origin EXCEPT ![p] = scope]
  /\ UNCHANGED <<parentLock, children>>

\* A parent is deleted: its receiver locks it, and the constraint (or PROTECT)
\* fails the deletion while children name it.
BeginDeleteParent(c, p) ==
  /\ p \in Existing
  /\ Start(c, [pc |-> "delete", scope |-> parents[p], refs |-> <<>>, left |-> <<p>>, present |-> {}])
  /\ UNCHANGED <<parents, origin, parentLock, children>>

LockParent(c) ==
  LET p == Head(writing[c].left) IN
  /\ writing[c].pc = "delete"
  /\ Blockers(c) = {}
  /\ writing' = [writing EXCEPT ![c].pc = "deleting"]
  /\ parentLock' = [parentLock EXCEPT ![p] = IF p \in Existing THEN c ELSE @]
  /\ UNCHANGED <<parents, origin, children, writes>>

CommitDelete(c) ==
  LET p == Head(writing[c].left) IN
  /\ writing[c].pc = "deleting"
  /\ LET gone == IF parentLock[p] = c /\ \A child \in children : child.parent # p THEN {p} ELSE {} IN
     /\ parents' = [q \in Parent |-> IF q \in gone THEN NoTenant ELSE parents[q]]
     /\ writing' = [v \in Clerk |-> IF v = c THEN NotWriting
                                     ELSE [writing[v] EXCEPT !.present = @ \ gone]]
  /\ parentLock' = [parentLock EXCEPT ![p] = IF @ = c THEN NoClerk ELSE @]
  /\ UNCHANGED <<origin, children, writes>>

\* The database fails one of the transactions that wait for each other.
DeadlockFails(c) ==
  /\ \E group \in SUBSET Clerk :
       /\ c \in group
       /\ \A v \in group : /\ Blockers(v) \intersect group # {}
                           /\ \E u \in group : v \in Blockers(u)
  /\ End(c)
  /\ UNCHANGED <<parents, origin, children, writes>>

-----------------------------------------------------------------------------
\* Children of one operation name up to two parents, in any order.
Refs == {<<p>> : p \in Parent} \union {<<p, q>> : p \in Parent, q \in Parent}

RelationStep(c) ==
  \/ CheckRelation(c) \/ WriteChildren(c) \/ CommitChildren(c)
  \/ LockParent(c) \/ CommitDelete(c) \/ DeadlockFails(c)

RelationNext ==
  \E c \in Clerk :
    \/ RelationStep(c)
    \/ \E scope \in Tenant, refs \in Refs : BeginInsert(c, scope, refs) \/ BeginRepoint(c, scope, refs)
    \/ \E p \in Parent : BeginDeleteParent(c, p) \/ \E scope \in Tenant : CreateParent(c, p, scope)

\* A request that was started goes on; the database grants a lock that is free
\* and finds deadlocks.
RelationFairness == \A c \in Clerk : WF_relationVars(RelationStep(c))

RelationSpec == RelationInit /\ [][RelationNext]_relationVars /\ RelationFairness

-----------------------------------------------------------------------------
(* Properties. *)

RelationTypeOK ==
  /\ parents \in [Parent -> Tenant \union {NoTenant}]
  /\ parentLock \in [Parent -> Clerk \union {NoClerk}]
  /\ \A c \in Clerk : writing[c].scope \in Tenant \union {NoTenant}
  /\ \A child \in children : child.parent \in Parent

\* "PyScoped checks same-scope FKs to other enforced models on supported
\* writes": a child never commits with a parent of another scope that was there
\* from the write of the child on, and the parents of committed children remain,
\* whatever is created and deleted between the checks, the write and the commit.
RelationsInScope ==
  \A child \in children :
    /\ child.parent \in Existing
    /\ child.checked => parents[child.parent] = child.scope

\* Children are locked in one order and their parents in the order of the
\* children, so that writers can wait for each other: every operation still
\* ends, by a deadlock the database resolves if need be, and leaves no lock
\* behind that another would wait for.
WritesEnd == \A c \in Clerk : writing[c] # NotWriting ~> writing[c] = NotWriting

=============================================================================
