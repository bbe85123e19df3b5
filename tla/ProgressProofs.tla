--------------------------- MODULE ProgressProofs ---------------------------
(***************************************************************************)
(* Proofs about the parts in which something is waited for, for any number *)
(* of workers, threads, rows and deaths, part by part and then together:   *)
(* relation guards, the sync agent, scheduled actions and their jobs, and  *)
(* event deliveries.                                                       *)
(***************************************************************************)
EXTENDS MCProgress, AuditProofs, SequenceTheorems

-----------------------------------------------------------------------------
(* Relation guards.                                                        *)


Transaction ==
  [pc : {"none", "before", "write", "after", "delete", "deleting"},
   scope : Tenant \union {NoTenant}, refs : Seq(Parent), left : Seq(Parent), present : SUBSET Parent]

RelationTyped ==
  /\ parents \in [Parent -> Tenant \union {NoTenant}]
  /\ origin \in [Parent -> Tenant \union {NoTenant}]
  /\ parentLock \in [Parent -> Clerk \union {NoClerk}]
  /\ writing \in [Clerk -> Transaction]
  /\ \A child \in children : child.parent \in Parent

\* Of the parents that have been there since a worker wrote its children, those
\* it has checked again are of its scope, and none was deleted.
CheckedAgree ==
  \A c \in Clerk : writing[c].pc = "after" =>
    \A p \in writing[c].present :
      /\ p \in Existing
      /\ p \in Range(writing[c].left) \/ parents[p] = writing[c].scope

\* A lock is of a transaction that is under way, and one that deletes a parent
\* has locked no other.
LocksOfTheLiving ==
  \A p \in Parent : parentLock[p] # NoClerk =>
    \/ writing[parentLock[p]].pc \in {"before", "after"}
    \/ writing[parentLock[p]].pc = "deleting" /\ writing[parentLock[p]].left = <<p>>

Deleters ==
  \A c \in Clerk : writing[c].pc \in {"delete", "deleting"} =>
    \E p \in Parent : writing[c].left = <<p>>

RelationInv == RelationTyped /\ Deleters /\ CheckedAgree /\ LocksOfTheLiving /\ RelationsInScope

-----------------------------------------------------------------------------
\* The next child, and those after it.
LEMMA HeadTailRange ==
  ASSUME NEW s \in Seq(Parent), s # <<>>
  PROVE  /\ Head(s) \in Parent /\ Tail(s) \in Seq(Parent)
         /\ Head(s) \in Range(s)
         /\ Range(s) = {Head(s)} \union Range(Tail(s))
<1>1. /\ Head(s) \in Parent /\ Tail(s) \in Seq(Parent) /\ Len(Tail(s)) = Len(s) - 1
      /\ \A i \in 1..Len(Tail(s)) : Tail(s)[i] = s[i + 1]
  BY HeadTailProperties
<1>2. Len(s) \in Nat \ {0} /\ DOMAIN s = 1..Len(s) /\ DOMAIN Tail(s) = 1..(Len(s) - 1) /\ Head(s) = s[1]
  BY <1>1, EmptySeq, LenProperties
<1>3. Range(s) \subseteq {Head(s)} \union Range(Tail(s))
  <2> SUFFICES ASSUME NEW i \in 1..Len(s) PROVE s[i] = s[1] \/ s[i] \in Range(Tail(s))
    BY <1>2 DEF Range
  <2>1. CASE i = 1
    BY <2>1
  <2>2. CASE i # 1
    <3>1. i - 1 \in 1..(Len(s) - 1) /\ i - 1 + 1 = i
      BY <1>2, <2>2
    <3>2. Tail(s)[i - 1] = s[i]
      BY <1>1, <1>2, <3>1
    <3>3. QED
      BY <1>2, <3>1, <3>2 DEF Range
  <2>3. QED
    BY <2>1, <2>2
<1>4. Range(Tail(s)) \subseteq Range(s)
  <2> SUFFICES ASSUME NEW i \in 1..(Len(s) - 1) PROVE Tail(s)[i] \in Range(s)
    BY <1>2 DEF Range
  <2>1. Tail(s)[i] = s[i + 1] /\ i + 1 \in 1..Len(s)
    BY <1>1, <1>2
  <2>2. QED
    BY <1>2, <2>1 DEF Range
<1>5. Head(s) \in Range(s)
  BY <1>2 DEF Range
<1>6. QED
  BY <1>1, <1>3, <1>4, <1>5

\* The parents that the children of an operation name.
LEMMA RefsTyped == \A refs \in Refs : refs \in Seq(Parent)
<1> SUFFICES ASSUME NEW refs \in Refs PROVE refs \in Seq(Parent)
  OBVIOUS
<1>1. ASSUME NEW p \in Parent PROVE <<p>> \in Seq(Parent)
  OBVIOUS
<1>2. ASSUME NEW p \in Parent, NEW q \in Parent PROVE <<p, q>> \in Seq(Parent)
  OBVIOUS
<1>3. \/ \E p \in Parent : refs = <<p>>
      \/ \E p \in Parent, q \in Parent : refs = <<p, q>>
  BY DEF Refs
<1>4. QED
  BY <1>1, <1>2, <1>3, Zenon

\* They are parents.
LEMMA RangeTyped ==
  ASSUME NEW s \in Seq(Parent)
  PROVE  Range(s) \subseteq Parent
BY DEF Range

-----------------------------------------------------------------------------
\* A worker outside its transaction begins one; no children are written yet.
LEMMA StartKeeps ==
  ASSUME RelationInv, NEW c \in Clerk, NEW t \in Transaction,
         t.pc \in {"none", "before", "write", "delete"},
         t.pc = "delete" => \E p \in Parent : t.left = <<p>>,
         writing[c] = NotWriting, writing' = [writing EXCEPT ![c] = t],
         UNCHANGED <<parents, origin, parentLock, children>>
  PROVE  RelationInv'
<1>1. /\ writing \in [Clerk -> Transaction] /\ writing'[c] = t
      /\ \A d \in Clerk \ {c} : writing'[d] = writing[d]
  BY DEF RelationInv, RelationTyped
<1>2. RelationTyped'
  BY <1>1 DEF RelationInv, RelationTyped
<1>3. Deleters'
  BY <1>1 DEF RelationInv, Deleters
<1>4. CheckedAgree'
  BY <1>1 DEF RelationInv, CheckedAgree, Existing
<1>5. LocksOfTheLiving'
  <2>1. writing[c].pc = "none"
    BY DEF NotWriting
  <2>2. \A p \in Parent : parentLock[p] # NoClerk => parentLock[p] \in Clerk \ {c}
    BY <2>1 DEF RelationInv, RelationTyped, LocksOfTheLiving
  <2>3. QED
    BY <1>1, <2>2 DEF RelationInv, LocksOfTheLiving
<1>6. RelationsInScope'
  BY DEF RelationInv, RelationsInScope, Existing
<1>7. QED
  BY <1>2, <1>3, <1>4, <1>5, <1>6 DEF RelationInv

\* A transaction ends, by COMMIT or by failing, and gives its locks back.
LEMMA EndKeeps ==
  ASSUME RelationInv, NEW c \in Clerk, End(c), UNCHANGED <<parents, origin>>,
         \A child \in children' : child.parent \in Parent, RelationsInScope'
  PROVE  RelationInv'
<1>1. /\ writing \in [Clerk -> Transaction] /\ writing'[c] = NotWriting
      /\ \A d \in Clerk \ {c} : writing'[d] = writing[d]
      /\ parentLock' = [p \in Parent |-> IF parentLock[p] = c THEN NoClerk ELSE parentLock[p]]
  BY DEF RelationInv, RelationTyped, End
<1>2. NotWriting \in Transaction
  BY DEF NotWriting, Transaction
<1>3. RelationTyped'
  BY <1>1, <1>2 DEF RelationInv, RelationTyped, End
<1>4. NotWriting.pc = "none"
  BY DEF NotWriting
<1>5. Deleters'
  BY <1>1, <1>4 DEF RelationInv, Deleters
<1>6. CheckedAgree'
  BY <1>1, <1>4 DEF RelationInv, CheckedAgree, Existing
<1>7. LocksOfTheLiving'
  <2> SUFFICES ASSUME NEW p \in Parent, parentLock'[p] # NoClerk
               PROVE  \/ writing'[parentLock'[p]].pc \in {"before", "after"}
                      \/ writing'[parentLock'[p]].pc = "deleting" /\ writing'[parentLock'[p]].left = <<p>>
    BY DEF LocksOfTheLiving
  <2>1. parentLock'[p] = parentLock[p] /\ parentLock[p] \in Clerk \ {c}
    BY <1>1 DEF RelationInv, RelationTyped
  <2>2. writing'[parentLock'[p]] = writing[parentLock[p]]
    BY <1>1, <2>1
  <2>3. QED
    BY <2>1, <2>2 DEF RelationInv, LocksOfTheLiving
<1>8. QED
  BY <1>3, <1>5, <1>6, <1>7 DEF RelationInv

\* check_relations() of one child.
LEMMA CheckRelationKeeps ==
  ASSUME RelationInv, NEW c \in Clerk, CheckRelation(c)
  PROVE  RelationInv'
<1> DEFINE p == Head(writing[c].left)
<1>1. /\ writing[c] \in Transaction /\ writing[c].left # <<>> /\ writing[c].pc \in {"before", "after"}
      /\ parents' = parents /\ origin' = origin /\ children' = children
  BY DEF RelationInv, RelationTyped, CheckRelation
<1>2. writing[c].left \in Seq(Parent)
  BY <1>1 DEF Transaction
<1>3. /\ p \in Parent /\ Tail(writing[c].left) \in Seq(Parent)
      /\ Range(writing[c].left) = {p} \union Range(Tail(writing[c].left))
  BY <1>1, <1>2, HeadTailRange
<1>4. RelationsInScope' /\ \A child \in children' : child.parent \in Parent
  BY <1>1 DEF RelationInv, RelationTyped, RelationsInScope, Existing
<1>5. CASE End(c)
  BY <1>1, <1>4, <1>5, EndKeeps
<1>6. CASE /\ parents[p] \in {NoTenant, writing[c].scope}
           /\ writing' = [writing EXCEPT ![c].left = Tail(@)]
           /\ parentLock' = [parentLock EXCEPT ![p] = IF p \in Existing THEN c ELSE @]
  <2>1. /\ writing'[c] = [writing[c] EXCEPT !.left = Tail(writing[c].left)]
        /\ \A d \in Clerk \ {c} : writing'[d] = writing[d]
    BY <1>6 DEF RelationInv, RelationTyped
  <2>2. /\ writing'[c] \in Transaction /\ writing'[c].left = Tail(writing[c].left)
        /\ writing'[c].pc = writing[c].pc /\ writing'[c].scope = writing[c].scope
        /\ writing'[c].present = writing[c].present
    BY <1>1, <1>3, <2>1 DEF Transaction
  <2>3. RelationTyped'
    <3>1. writing' \in [Clerk -> Transaction]
      BY <1>6, <2>1, <2>2 DEF RelationInv, RelationTyped
    <3>2. parentLock' \in [Parent -> Clerk \union {NoClerk}]
      BY <1>3, <1>6 DEF RelationInv, RelationTyped
    <3>3. QED
      BY <1>1, <1>4, <3>1, <3>2 DEF RelationInv, RelationTyped
  <2>4. Deleters'
    BY <1>1, <2>1, <2>2 DEF RelationInv, Deleters
  <2>5. CheckedAgree'
    <3> SUFFICES ASSUME NEW d \in Clerk, writing'[d].pc = "after", NEW q \in writing'[d].present
                 PROVE  /\ q \in Existing
                        /\ q \in Range(writing'[d].left) \/ parents[q] = writing'[d].scope
      BY <1>1 DEF CheckedAgree, Existing
    <3>1. CASE d # c
      BY <2>1, <3>1 DEF RelationInv, CheckedAgree
    <3>2. CASE d = c
      <4>1. /\ q \in Existing
            /\ q \in Range(writing[c].left) \/ parents[q] = writing[c].scope
        BY <2>2, <3>2 DEF RelationInv, CheckedAgree
      <4>2. q = p => parents[q] = writing[c].scope
        BY <1>6, <4>1 DEF Existing
      <4>3. QED
        BY <1>3, <2>2, <3>2, <4>1, <4>2
    <3>3. QED
      BY <3>1, <3>2
  <2>6. LocksOfTheLiving'
    <3> SUFFICES ASSUME NEW q \in Parent, parentLock'[q] # NoClerk
                 PROVE  \/ writing'[parentLock'[q]].pc \in {"before", "after"}
                        \/ writing'[parentLock'[q]].pc = "deleting" /\ writing'[parentLock'[q]].left = <<q>>
      BY DEF LocksOfTheLiving
    <3>1. CASE parentLock'[q] = c
      BY <1>1, <2>2, <3>1
    <3>2. CASE parentLock'[q] # c
      <4>1. parentLock'[q] = parentLock[q] /\ parentLock[q] \in Clerk \ {c}
        BY <1>6, <3>2 DEF RelationInv, RelationTyped
      <4>2. QED
        BY <2>1, <4>1 DEF RelationInv, LocksOfTheLiving
    <3>3. QED
      BY <3>1, <3>2
  <2>7. QED
    BY <1>4, <2>3, <2>4, <2>5, <2>6 DEF RelationInv
<1>7. QED
  BY <1>5, <1>6 DEF CheckRelation

\* The rows are written; their parents are all to be checked again.
LEMMA WriteChildrenKeeps ==
  ASSUME RelationInv, NEW c \in Clerk, WriteChildren(c)
  PROVE  RelationInv'
<1> DEFINE here == Existing \intersect Range(writing[c].refs)
<1>1. /\ writing[c] \in Transaction /\ writing[c].pc \in {"before", "write"}
      /\ parents' = parents /\ origin' = origin /\ children' = children /\ parentLock' = parentLock
      /\ writing' = [writing EXCEPT ![c].pc = "after", ![c].left = writing[c].refs, ![c].present = here]
  BY DEF RelationInv, RelationTyped, WriteChildren
<1>2. here \subseteq Parent
  BY DEF Existing
<1> HIDE DEF here
<1>3. /\ writing'[c].left = writing[c].refs /\ writing'[c].present = here /\ writing'[c].pc = "after"
      /\ writing'[c] \in Transaction
      /\ \A d \in Clerk \ {c} : writing'[d] = writing[d]
  BY <1>1, <1>2 DEF RelationInv, RelationTyped, Transaction
<1>4. RelationTyped'
  BY <1>1, <1>3 DEF RelationInv, RelationTyped
<1>5. Deleters'
  BY <1>3 DEF RelationInv, Deleters
<1>6. CheckedAgree'
  <2> SUFFICES ASSUME NEW d \in Clerk, writing'[d].pc = "after", NEW q \in writing'[d].present
               PROVE  /\ q \in Existing
                      /\ q \in Range(writing'[d].left) \/ parents[q] = writing'[d].scope
    BY <1>1 DEF CheckedAgree, Existing
  <2>1. CASE d # c
    BY <1>3, <2>1 DEF RelationInv, CheckedAgree
  <2>2. CASE d = c
    BY <1>3, <2>2 DEF here
  <2>3. QED
    BY <2>1, <2>2
<1>7. LocksOfTheLiving'
  <2> SUFFICES ASSUME NEW q \in Parent, parentLock[q] # NoClerk
               PROVE  \/ writing'[parentLock[q]].pc \in {"before", "after"}
                      \/ writing'[parentLock[q]].pc = "deleting" /\ writing'[parentLock[q]].left = <<q>>
    BY <1>1 DEF LocksOfTheLiving
  <2>1. parentLock[q] \in Clerk
    BY DEF RelationInv, RelationTyped
  <2>2. QED
    BY <1>3, <2>1 DEF RelationInv, LocksOfTheLiving
<1>8. RelationsInScope'
  BY <1>1 DEF RelationInv, RelationsInScope, Existing
<1>9. QED
  BY <1>4, <1>5, <1>6, <1>7, <1>8 DEF RelationInv

\* COMMIT: what has been there since the write is checked by now.
LEMMA CommitChildrenKeeps ==
  ASSUME RelationInv, NEW c \in Clerk, CommitChildren(c)
  PROVE  RelationInv'
<1> DEFINE t == writing[c]
<1> DEFINE new == IF Range(t.refs) \subseteq Existing
                  THEN {[scope |-> t.scope, parent |-> p, checked |-> p \in t.present] : p \in Range(t.refs)}
                  ELSE {}
<1>1. /\ t.pc = "after" /\ t.left = <<>> /\ children' = children \union new
      /\ End(c) /\ parents' = parents /\ origin' = origin
  BY DEF CommitChildren
<1>2. Range(t.left) = {}
  BY <1>1 DEF Range
<1>3. \A p \in t.present : parents[p] = t.scope
  BY <1>1, <1>2 DEF RelationInv, CheckedAgree
<1>4. \A child \in new : /\ child.parent \in Existing
                         /\ child.checked => parents[child.parent] = child.scope
  <2> SUFFICES ASSUME Range(t.refs) \subseteq Existing, NEW p \in Range(t.refs)
               PROVE  LET child == [scope |-> t.scope, parent |-> p, checked |-> p \in t.present]
                      IN  /\ child.parent \in Existing
                          /\ child.checked => parents[child.parent] = child.scope
    OBVIOUS
  <2>1. QED
    BY <1>3
<1> HIDE DEF new
<1>5. \A child \in children' : /\ child.parent \in Parent /\ child.parent \in Existing
                               /\ child.checked => parents[child.parent] = child.scope
  BY <1>1, <1>4 DEF RelationInv, RelationTyped, RelationsInScope, Existing
<1>6. RelationsInScope'
  BY <1>1, <1>5 DEF RelationsInScope, Existing
<1>7. QED
  BY <1>1, <1>5, <1>6, EndKeeps

\* A parent is created: nobody's child has that key, nor has seen that row.
LEMMA CreateParentKeeps ==
  ASSUME RelationInv, NEW c \in Clerk, NEW p \in Parent, NEW scope \in Tenant, CreateParent(c, p, scope)
  PROVE  RelationInv'
<1>1. /\ p \notin Existing /\ writing[c] = NotWriting
      /\ writing' = [writing EXCEPT ![c] = NotWriting]
      /\ parents' = [parents EXCEPT ![p] = scope] /\ origin' = [origin EXCEPT ![p] = scope]
      /\ parentLock' = parentLock /\ children' = children
  BY DEF CreateParent, Start
<1>2. writing' = writing
  BY <1>1 DEF RelationInv, RelationTyped
<1>3. RelationTyped'
  BY <1>1, <1>2 DEF RelationInv, RelationTyped
<1>4. \A q \in Existing : q # p /\ parents'[q] = parents[q] /\ q \in Existing'
  BY <1>1 DEF RelationInv, RelationTyped, Existing
<1>5. CheckedAgree'
  BY <1>2, <1>4 DEF RelationInv, CheckedAgree
<1>6. RelationsInScope'
  BY <1>1, <1>4 DEF RelationInv, RelationsInScope
<1>7. Deleters' /\ LocksOfTheLiving'
  <2>1. Deleters'
    BY <1>2 DEF RelationInv, Deleters
  <2>2. LocksOfTheLiving'
    BY <1>1, <1>2 DEF RelationInv, LocksOfTheLiving
  <2>3. QED
    BY <2>1, <2>2
<1>8. QED
  BY <1>3, <1>5, <1>6, <1>7 DEF RelationInv

\* A deletion locks its parent.
LEMMA LockParentKeeps ==
  ASSUME RelationInv, NEW c \in Clerk, LockParent(c)
  PROVE  RelationInv'
<1>1. PICK p \in Parent : writing[c].left = <<p>>
  BY DEF RelationInv, Deleters, LockParent
<1>2. /\ writing[c] \in Transaction /\ writing[c].pc = "delete"
      /\ parents' = parents /\ origin' = origin /\ children' = children
      /\ writing' = [writing EXCEPT ![c].pc = "deleting"]
      /\ parentLock' = [parentLock EXCEPT ![p] = IF p \in Existing THEN c ELSE @]
  BY <1>1 DEF RelationInv, RelationTyped, LockParent
<1>3. /\ writing'[c] \in Transaction /\ writing'[c].pc = "deleting" /\ writing'[c].left = <<p>>
      /\ \A d \in Clerk \ {c} : writing'[d] = writing[d]
  BY <1>1, <1>2 DEF RelationInv, RelationTyped, Transaction
<1>4. RelationTyped'
  BY <1>2, <1>3 DEF RelationInv, RelationTyped
<1>5. Deleters'
  BY <1>3 DEF RelationInv, Deleters
<1>6. CheckedAgree' /\ RelationsInScope'
  BY <1>2, <1>3 DEF RelationInv, CheckedAgree, RelationsInScope, Existing
<1>7. LocksOfTheLiving'
  <2> SUFFICES ASSUME NEW q \in Parent, parentLock'[q] # NoClerk
               PROVE  \/ writing'[parentLock'[q]].pc \in {"before", "after"}
                      \/ writing'[parentLock'[q]].pc = "deleting" /\ writing'[parentLock'[q]].left = <<q>>
    BY DEF LocksOfTheLiving
  <2>1. CASE q = p /\ parentLock'[q] = c
    BY <1>3, <2>1
  <2>2. CASE parentLock'[q] = parentLock[q]
    <3>1. parentLock[q] \in Clerk
      BY <2>2 DEF RelationInv, RelationTyped
    <3>2. parentLock[q] # c
      BY <1>2, <2>2 DEF RelationInv, LocksOfTheLiving
    <3>3. QED
      BY <1>3, <2>2, <3>1, <3>2 DEF RelationInv, LocksOfTheLiving
  <2>3. QED
    BY <1>2, <2>1, <2>2 DEF RelationInv, RelationTyped
<1>8. QED
  BY <1>4, <1>5, <1>6, <1>7 DEF RelationInv

\* A deletion commits: no committed child names the row, and those who write
\* children of it no longer count on it.
LEMMA CommitDeleteKeeps ==
  ASSUME RelationInv, NEW c \in Clerk, CommitDelete(c)
  PROVE  RelationInv'
<1>1. PICK p \in Parent : writing[c].left = <<p>>
  BY DEF RelationInv, Deleters, CommitDelete
<1> DEFINE gone == IF parentLock[p] = c /\ \A child \in children : child.parent # p THEN {p} ELSE {}
<1>2. /\ writing[c].pc = "deleting" /\ origin' = origin /\ children' = children
      /\ parents' = [q \in Parent |-> IF q \in gone THEN NoTenant ELSE parents[q]]
      /\ writing' = [v \in Clerk |-> IF v = c THEN NotWriting
                                     ELSE [writing[v] EXCEPT !.present = @ \ gone]]
      /\ parentLock' = [parentLock EXCEPT ![p] = IF @ = c THEN NoClerk ELSE @]
  BY <1>1 DEF CommitDelete
<1>3. \A child \in children : child.parent \notin gone
  OBVIOUS
<1> HIDE DEF gone
<1>4. NotWriting \in Transaction /\ NotWriting.pc = "none"
  BY DEF NotWriting, Transaction
<1>5. \A v \in Clerk \ {c} :
        /\ writing'[v] \in Transaction /\ writing'[v].pc = writing[v].pc
        /\ writing'[v].scope = writing[v].scope /\ writing'[v].left = writing[v].left
        /\ writing'[v].present = writing[v].present \ gone
  <2> SUFFICES ASSUME NEW v \in Clerk \ {c}
               PROVE  /\ writing'[v] \in Transaction /\ writing'[v].pc = writing[v].pc
                      /\ writing'[v].scope = writing[v].scope /\ writing'[v].left = writing[v].left
                      /\ writing'[v].present = writing[v].present \ gone
    OBVIOUS
  <2>1. writing[v] \in Transaction /\ writing'[v] = [writing[v] EXCEPT !.present = writing[v].present \ gone]
    BY <1>2 DEF RelationInv, RelationTyped
  <2>2. QED
    BY <2>1 DEF Transaction
<1>6. writing'[c] = NotWriting
  BY <1>2
<1>7. RelationTyped'
  <2>1. writing' \in [Clerk -> Transaction]
    BY <1>2, <1>4, <1>5, <1>6
  <2>2. parents' \in [Parent -> Tenant \union {NoTenant}] /\ parentLock' \in [Parent -> Clerk \union {NoClerk}]
    BY <1>2 DEF RelationInv, RelationTyped
  <2>3. QED
    BY <1>2, <2>1, <2>2 DEF RelationInv, RelationTyped
<1>8. Deleters'
  BY <1>4, <1>5, <1>6 DEF RelationInv, Deleters
<1>9. \A q \in Existing : q \notin gone => parents'[q] = parents[q] /\ q \in Existing'
  BY <1>2 DEF Existing
<1>10. CheckedAgree'
  BY <1>4, <1>5, <1>6, <1>9 DEF RelationInv, CheckedAgree
<1>11. RelationsInScope'
  BY <1>2, <1>3, <1>9 DEF RelationInv, RelationsInScope
<1>12. LocksOfTheLiving'
  <2> SUFFICES ASSUME NEW q \in Parent, parentLock'[q] # NoClerk
               PROVE  \/ writing'[parentLock'[q]].pc \in {"before", "after"}
                      \/ writing'[parentLock'[q]].pc = "deleting" /\ writing'[parentLock'[q]].left = <<q>>
    BY DEF LocksOfTheLiving
  <2>1. parentLock'[q] = parentLock[q] /\ parentLock[q] \in Clerk /\ ~(q = p /\ parentLock[q] = c)
    BY <1>2 DEF RelationInv, RelationTyped
  <2>2. parentLock[q] # c
    <3> SUFFICES ASSUME parentLock[q] = c PROVE FALSE
      OBVIOUS
    <3>1. writing[c].left = <<q>>
      BY <1>2, <2>1 DEF RelationInv, LocksOfTheLiving
    <3>2. QED
      BY <1>1, <2>1, <3>1
  <2>3. QED
    BY <1>5, <2>1, <2>2 DEF RelationInv, LocksOfTheLiving
<1>13. QED
  BY <1>7, <1>8, <1>10, <1>11, <1>12 DEF RelationInv

\* The beginnings of the operations.
LEMMA BeginsKeep ==
  ASSUME RelationInv, NEW c \in Clerk,
         \/ \E scope \in Tenant, refs \in Refs : BeginInsert(c, scope, refs) \/ BeginRepoint(c, scope, refs)
         \/ \E p \in Parent : BeginDeleteParent(c, p)
  PROVE  RelationInv'
<1>1. ASSUME NEW scope \in Tenant, NEW refs \in Refs, BeginInsert(c, scope, refs)
      PROVE  RelationInv'
  <2> DEFINE t == [pc |-> "before", scope |-> scope, refs |-> refs, left |-> refs, present |-> {}]
  <2>1. t \in Transaction /\ t.pc = "before"
    BY RefsTyped DEF Transaction
  <2>2. QED
    BY <1>1, <2>1, StartKeeps DEF BeginInsert, Start
<1>2. ASSUME NEW scope \in Tenant, NEW refs \in Refs, BeginRepoint(c, scope, refs)
      PROVE  RelationInv'
  <2> DEFINE t == [pc |-> "write", scope |-> scope, refs |-> refs, left |-> <<>>, present |-> {}]
  <2>1. t \in Transaction /\ t.pc = "write"
    BY RefsTyped DEF Transaction
  <2>2. QED
    BY <1>2, <2>1, StartKeeps DEF BeginRepoint, Start
<1>3. ASSUME NEW p \in Parent, BeginDeleteParent(c, p)
      PROVE  RelationInv'
  <2> DEFINE t == [pc |-> "delete", scope |-> parents[p], refs |-> <<>>, left |-> <<p>>, present |-> {}]
  <2>1. parents[p] \in Tenant \union {NoTenant}
    BY DEF RelationInv, RelationTyped
  <2>2. t \in Transaction /\ t.pc = "delete" /\ t.left = <<p>>
    BY <2>1 DEF Transaction
  <2>3. QED
    BY <1>3, <2>2, StartKeeps DEF BeginDeleteParent, Start
<1>4. QED
  BY <1>1, <1>2, <1>3

\* Every step of every worker.
LEMMA RelationInvStep == RelationInv /\ [RelationNext]_relationVars => RelationInv'
<1> SUFFICES ASSUME RelationInv, [RelationNext]_relationVars
             PROVE  RelationInv'
  OBVIOUS
<1>1. ASSUME NEW c \in Clerk, RelationStep(c)
      PROVE  RelationInv'
  <2>1. CASE DeadlockFails(c)
    <3>1. End(c) /\ parents' = parents /\ origin' = origin /\ children' = children
      BY <2>1 DEF DeadlockFails
    <3>2. RelationsInScope' /\ \A child \in children' : child.parent \in Parent
      BY <3>1 DEF RelationInv, RelationTyped, RelationsInScope, Existing
    <3>3. QED
      BY <3>1, <3>2, EndKeeps
  <2>2. QED
    BY <1>1, <2>1, CheckRelationKeeps, WriteChildrenKeeps, CommitChildrenKeeps, LockParentKeeps,
       CommitDeleteKeeps DEF RelationStep
<1>2. CASE UNCHANGED relationVars
  <2>1. /\ parents' = parents /\ origin' = origin /\ parentLock' = parentLock
        /\ children' = children /\ writing' = writing
    BY <1>2 DEF relationVars
  <2>2. QED
    BY <2>1 DEF RelationInv, RelationTyped, Deleters, CheckedAgree, LocksOfTheLiving,
                RelationsInScope, Existing
<1>3. QED
  BY <1>1, <1>2, BeginsKeep, CreateParentKeeps DEF RelationNext

\* No transaction, no child and no lock at the start.
LEMMA InitRelationInv == RelationInit => RelationInv
<1> SUFFICES ASSUME RelationInit PROVE RelationInv
  OBVIOUS
<1>1. NotWriting \in Transaction /\ NotWriting.pc = "none"
  BY DEF NotWriting, Transaction
<1>2. \A c \in Clerk : writing[c] = NotWriting
  BY DEF RelationInit
<1>3. RelationTyped
  BY <1>1 DEF RelationInit, RelationTyped
<1>4. Deleters /\ CheckedAgree
  BY <1>1, <1>2 DEF Deleters, CheckedAgree
<1>5. LocksOfTheLiving /\ RelationsInScope
  BY DEF RelationInit, LocksOfTheLiving, RelationsInScope
<1>6. QED
  BY <1>3, <1>4, <1>5 DEF RelationInv

\* "PyScoped checks same-scope FKs to other enforced models on supported
\* writes" (docs/guarantees.md): of committed children the parents remain, and a
\* parent that was there from the write on is of the child's scope, however
\* many workers create, delete, lock and deadlock meanwhile.
THEOREM ChildrenAgree == RelationSpec => []RelationsInScope
<1>1. RelationInv => RelationsInScope
  BY DEF RelationInv
<1>2. QED
  BY <1>1, InitRelationInv, RelationInvStep, PTL DEF RelationSpec

\* select_for_update() holds until the transaction ends and no longer: a parent
\* is locked only by a worker whose transaction is under way, so that nobody
\* ever waits for one that is over.
THEOREM NoLockOutlives ==
  RelationSpec => [](\A p \in Parent : parentLock[p] # NoClerk =>
                        parentLock[p] \in Clerk /\ writing[parentLock[p]] # NotWriting)
<1>1. RelationInv => \A p \in Parent : parentLock[p] # NoClerk =>
                       parentLock[p] \in Clerk /\ writing[parentLock[p]] # NotWriting
  BY DEF RelationInv, RelationTyped, LocksOfTheLiving, NotWriting
<1>2. QED
  BY <1>1, InitRelationInv, RelationInvStep, PTL DEF RelationSpec

-----------------------------------------------------------------------------
(* The sync agent.                                                         *)

Hands == [pc : {"ended", "loop", "push", "acked", "failed"},
          seqs : SUBSET (1..MaxIds), batch : SUBSET (1..MaxIds)]

\* What a thread with a batch in its hands knows: the batch reaches from what
\* has arrived to the newest sequence of it, without a gap.
HandsOn(t, got) ==
  t.pc \in {"push", "acked", "failed"} =>
    /\ t.seqs # {} /\ t.seqs \subseteq 0..Newest(trail)
    /\ \A s \in Sequences, u \in t.seqs : s <= u => trail[s].id \in got \union t.batch
    /\ t.pc = "acked" => t.batch \subseteq got

SyncInv ==
  /\ AuditInv
  /\ syncState \in [last : Nat, status : SyncStatus]
  /\ syncState.last <= Newest(trail)
  /\ thread \in [SyncThread -> Hands]
  /\ current \subseteq SyncThread
  /\ stopEvent \in BOOLEAN /\ resumed \in BOOLEAN
  /\ received \subseteq 1..MaxIds
  /\ WatermarkHonest
  /\ \A t \in SyncThread : HandsOn(thread[t], received)

\* What a step of the trail leaves: the entries keep their ids, those that are
\* new follow the newest, and the newest sequence does not go down.
Advances ==
  /\ Newest(trail) <= Newest(trail')
  /\ \A s \in DOMAIN trail' : s > Newest(trail) \/ (s \in DOMAIN trail /\ trail'[s].id = trail[s].id)

\* Retention: the rows that stay, the newest among them.
LEMMA RetentionAdvances ==
  ASSUME AuditInv, LongHorizon, NEW K \in SUBSET DOMAIN trail, MayKeep(K), trail' = Kept(K)
  PROVE  Advances
<1>1. ids \in Nat /\ DOMAIN trail \subseteq 1..ids
  BY AuditAssumption DEF AuditInv, AuditTyped, TrailOK
<1>2. DOMAIN trail' = K /\ \A s \in K : trail'[s] = trail[s]
  BY DEF Kept
<1>3. DOMAIN trail # {} => Newest(trail) \in K
  BY <1>1, NewestIs DEF MayKeep, Recent, LastSequence, Newest, Sequences
<1>4. Newest(trail') = Newest(trail)
  <2>1. CASE DOMAIN trail = {}
    BY <1>2, <2>1 DEF Newest
  <2>2. CASE DOMAIN trail # {}
    <3>1. K \in SUBSET Nat /\ \A s \in K : s <= Newest(trail)
      BY <1>1, <2>2, NewestIs
    <3>2. Max(K) = Newest(trail)
      BY <1>3, <2>2, <3>1, MaxIs
    <3>3. QED
      BY <1>2, <1>3, <2>2, <3>2 DEF Newest
  <2>3. QED
    BY <2>1, <2>2
<1>5. Newest(trail) \in Nat
  BY <1>1, NewestIs
<1>6. QED
  BY <1>2, <1>4, <1>5 DEF Advances

\* Every step of the trail.
LEMMA TrailAdvances ==
  ASSUME AuditInv, LongHorizon, [AuditNext]_auditVars
  PROVE  Advances
<1>1. ids \in Nat /\ DOMAIN trail \subseteq 1..ids /\ Newest(trail) \in Nat /\ TrailOK(trail, ids)
  BY NewestIs, AuditAssumption DEF AuditInv, AuditTyped, TrailOK
<1>2. CASE trail' = trail
  BY <1>1, <1>2 DEF Advances
<1>3. ASSUME NEW p \in Process, PersistEntries(p) PROVE Advances
  <2> DEFINE w == writer[p]
  <2>1. w \in Writer /\ WriterKnows(w, trail, ids) /\ w.pc = "insert" /\ DOMAIN Batch(w) \intersect DOMAIN trail = {}
    BY <1>3 DEF AuditInv, AuditTyped, PersistEntries, Collides, Sequences
  <2>2. DOMAIN Batch(w) = (w.seq + 1)..(w.seq + w.size)
    BY DEF Batch
  <2>3. /\ w.seq \in Nat /\ w.size \in Nat /\ w.size >= 1 /\ w.seq <= Newest(trail)
        /\ w.seq < Newest(trail) => w.seq + 1 \in DOMAIN trail
        /\ w.seq + w.size <= ids
    <3> HIDE DEF w
    <3>1. w.seq \in Nat /\ w.size \in BatchSizes
      BY <2>1 DEF WriterKnows, Writer
    <3>2. w.size \in Nat \ {0}
      BY <3>1, AuditAssumption
    <3>3. QED
      BY <2>1, <3>1, <3>2 DEF WriterKnows
  <2>4. DOMAIN trail' = DOMAIN trail \union DOMAIN Batch(w)
        /\ \A s \in DOMAIN trail : trail'[s] = trail[s]
    BY <1>3, <2>1 DEF PersistEntries, Sequences
  <2> HIDE DEF w
  <2>5. w.seq + 1 \in DOMAIN Batch(w)
    BY <2>2, <2>3
  <2>6. w.seq = Newest(trail)
    BY <1>1, <2>1, <2>3, <2>5
  <2>7. DOMAIN trail' \subseteq 1..ids
    BY <1>1, <2>2, <2>3, <2>4
  <2>8. Newest(trail') \in Nat /\ w.seq + 1 <= Newest(trail')
    <3> DEFINE T == trail'
    <3>1. DOMAIN T \subseteq 1..ids /\ w.seq + 1 \in DOMAIN T
      BY <2>4, <2>5, <2>7
    <3> HIDE DEF T
    <3>2. Newest(T) \in 0..ids /\ \A s \in DOMAIN T : s <= Newest(T)
      BY <1>1, <3>1, NewestIs
    <3>3. Newest(T) \in Nat /\ w.seq + 1 <= Newest(T)
      BY <1>1, <3>1, <3>2
    <3>4. QED
      BY <3>3 DEF T
  <2>9. \A s \in DOMAIN Batch(w) : s > Newest(trail)
    BY <1>1, <2>2, <2>3, <2>6
  <2>10. QED
    BY <1>1, <2>4, <2>6, <2>8, <2>9, <2>3 DEF Advances
<1>4. CASE DeleteByAge
  <2>1. PICK cutoff \in 1..(ids + 1) :
          /\ MayKeep({s \in DOMAIN trail : trail[s].at >= cutoff})
          /\ trail' = Kept({s \in DOMAIN trail : trail[s].at >= cutoff})
    BY <1>4 DEF DeleteByAge, Sequences
  <2>2. {s \in DOMAIN trail : trail[s].at >= cutoff} \in SUBSET DOMAIN trail
    OBVIOUS
  <2>3. QED
    BY <2>1, <2>2, RetentionAdvances
<1>5. CASE DeleteToCutoff
  <2> DEFINE K == {s \in DOMAIN trail : s > retention.cutoff}
  <2>1. MayKeep(K) /\ trail' = Kept(K) /\ K \in SUBSET DOMAIN trail
    BY <1>5 DEF DeleteToCutoff, Sequences
  <2> HIDE DEF K
  <2>2. QED
    BY <2>1, RetentionAdvances
<1>6. CASE Compact
  <2>1. trail' = Compacted(trail)
    BY <1>6 DEF Compact, Compacted, Sequences
  <2>2. QED
    BY <1>1, <2>1, TrailCompacted DEF Advances
<1>7. \/ trail' = trail \/ DeleteByAge \/ DeleteToCutoff \/ Compact
      \/ \E p \in Process : PersistEntries(p)
  BY DEF AuditNext, WriterNext, StartWriter, StopWriter, BuildEntries, SequenceCollision,
         RetentionNext, FindCutoff, EndRetention, VerifyNext, VerifyBegins, VerifyChunk, auditVars
<1>8. QED
  BY <1>2, <1>3, <1>4, <1>5, <1>6, <1>7

\* A step of the trail takes nothing from what the agent knows.
LEMMA TrailStepKeeps ==
  ASSUME SyncInv, LongHorizon, [AuditNext]_auditVars, UNCHANGED syncVars
  PROVE  SyncInv'
<1>1. AuditInv' /\ Advances
  BY AuditStep, TrailAdvances DEF SyncInv
<1>2. UNCHANGED <<syncState, thread, current, stopEvent, resumed, received, faults>>
  BY DEF syncVars
<1>3. ids \in Nat /\ ids' \in Nat /\ DOMAIN trail \subseteq 1..ids /\ DOMAIN trail' \subseteq 1..ids'
  BY <1>1, AuditAssumption DEF SyncInv, AuditInv, AuditTyped, TrailOK
<1>4. Newest(trail) \in Nat /\ Newest(trail') \in Nat /\ Newest(trail) <= Newest(trail')
  BY <1>1, <1>3, NewestIs DEF Advances
<1>5. \A s \in DOMAIN trail' : s \in Nat
  BY <1>3
<1>6. syncState.last \in Nat /\ syncState.last <= Newest(trail)
  BY DEF SyncInv
<1>7. WatermarkHonest'
  BY <1>1, <1>2, <1>4, <1>5, <1>6 DEF SyncInv, WatermarkHonest, Sequences, Advances
<1>8. ASSUME NEW t \in SyncThread PROVE HandsOn(thread[t], received)'
  <2> DEFINE h == thread[t]
  <2> SUFFICES ASSUME h.pc \in {"push", "acked", "failed"}
               PROVE  /\ h.seqs # {} /\ h.seqs \subseteq 0..Newest(trail')
                      /\ \A s \in DOMAIN trail', u \in h.seqs : s <= u => trail'[s].id \in received \union h.batch
                      /\ h.pc = "acked" => h.batch \subseteq received
    BY <1>2 DEF HandsOn, Sequences
  <2>1. /\ h.seqs # {} /\ h.seqs \subseteq 0..Newest(trail)
        /\ \A s \in DOMAIN trail, u \in h.seqs : s <= u => trail[s].id \in received \union h.batch
        /\ h.pc = "acked" => h.batch \subseteq received
    BY DEF SyncInv, HandsOn, Sequences
  <2> HIDE DEF h
  <2>2. \A u \in h.seqs : u \in Nat /\ u <= Newest(trail) /\ u \in 0..Newest(trail')
    BY <1>4, <2>1
  <2>3. \A s \in DOMAIN trail', u \in h.seqs : s <= u => trail'[s].id \in received \union h.batch
    BY <1>1, <1>4, <1>5, <2>1, <2>2 DEF Advances
  <2>4. QED
    BY <2>1, <2>2, <2>3
<1>9. syncState'.last <= Newest(trail')
  BY <1>2, <1>4, <1>6
<1>10. \A t \in SyncThread : HandsOn(thread[t], received)'
  BY <1>8
<1>11. QED
  BY <1>1, <1>2, <1>7, <1>9, <1>10 DEF SyncInv

\* A batch has no gap: of the entries past the watermark it takes the first.
LEMMA NoGap ==
  ASSUME AuditInv, NEW a \in Nat, NEW u \in NewEntries(a), NEW s \in Sequences, a < s, s <= u
  PROVE  s \in NewEntries(a)
<1> DEFINE B(v) == {x \in Sequences : a < x /\ x < v}
<1>1. ids \in Nat /\ Sequences \subseteq 1..ids
  BY AuditAssumption DEF AuditInv, AuditTyped, TrailOK, Sequences
<1>2. IsFiniteSet(1..ids)
  BY <1>1, FS_Interval
<1>3. IsFiniteSet(B(u)) /\ B(s) \subseteq B(u)
  <2>1. B(u) \subseteq 1..ids
    BY <1>1
  <2>2. s \in Nat /\ u \in Nat /\ \A x \in Sequences : x \in Nat
    BY <1>1 DEF NewEntries
  <2>3. \A x \in B(s) : x \in B(u)
    BY <2>2
  <2>4. QED
    BY <1>2, <2>1, <2>3, FS_Subset
<1>4. Cardinality(B(s)) \in Nat /\ Cardinality(B(u)) \in Nat /\ Cardinality(B(s)) <= Cardinality(B(u))
  BY <1>3, FS_Subset, FS_CardinalityType
<1>5. Cardinality(B(u)) < PushLimit /\ PushLimit \in Nat
  BY SyncAssumption DEF NewEntries
<1>6. Cardinality(B(s)) < PushLimit
  BY <1>4, <1>5
<1>7. QED
  BY <1>6 DEF NewEntries

\* A step of the agent that leaves the trail alone.
LEMMA AgentMoves ==
  ASSUME SyncInv, AuditInv', trail' = trail,
         syncState' \in [last : Nat, status : SyncStatus], syncState'.last <= Newest(trail),
         thread' \in [SyncThread -> Hands], current' \subseteq SyncThread,
         stopEvent' \in BOOLEAN, resumed' \in BOOLEAN,
         received \subseteq received', received' \subseteq 1..MaxIds,
         \A s \in Sequences : s <= syncState'.last => trail[s].id \in received',
         \A t \in SyncThread : thread'[t] = thread[t] \/ HandsOn(thread'[t], received')
  PROVE  SyncInv'
<1>1. ASSUME NEW t \in SyncThread PROVE HandsOn(thread'[t], received')
  <2>1. CASE thread'[t] = thread[t]
    <3>1. HandsOn(thread[t], received)
      BY DEF SyncInv
    <3>2. HandsOn(thread[t], received')
      BY <3>1 DEF HandsOn
    <3>3. QED
      BY <2>1, <3>2
  <2>2. QED
    BY <2>1
<1>2. \A t \in SyncThread : HandsOn(thread[t], received)'
  BY <1>1 DEF HandsOn, Sequences
<1>3. WatermarkHonest'
  BY DEF WatermarkHonest, Sequences
<1>4. QED
  BY <1>2, <1>3 DEF SyncInv

\* A thread that reaches another point of its cycle.
LEMMA ThreadMoves ==
  ASSUME SyncInv, NEW t \in SyncThread, NEW x \in Hands, thread' = [thread EXCEPT ![t] = x]
  PROVE  /\ thread' \in [SyncThread -> Hands] /\ thread'[t] = x
         /\ \A u \in SyncThread : thread'[u] = thread[u] \/ thread'[u] = x
BY DEF SyncInv

\* UPDATE _sync_state SET status.
LEMMA StatusTyped ==
  ASSUME SyncInv, NEW status \in SyncStatus
  PROVE  WithStatus(status) \in [last : Nat, status : SyncStatus] /\ WithStatus(status).last = syncState.last
BY DEF SyncInv, WithStatus

\* Every step of the agent.
LEMMA AgentStepKeeps ==
  ASSUME SyncInv, LongHorizon, AgentNext, UNCHANGED auditVars
  PROVE  SyncInv'
<1>aud. AuditInv' /\ trail' = trail
  BY AuditStep DEF SyncInv, auditVars
<1>typ. /\ syncState \in [last : Nat, status : SyncStatus] /\ syncState.last <= Newest(trail)
        /\ thread \in [SyncThread -> Hands] /\ current \subseteq SyncThread
        /\ stopEvent \in BOOLEAN /\ resumed \in BOOLEAN /\ received \subseteq 1..MaxIds
        /\ \A s \in Sequences : s <= syncState.last => trail[s].id \in received
  BY DEF SyncInv, WatermarkHonest
<1>tr. /\ ids \in Nat /\ ids <= MaxIds /\ MaxIds \in Nat /\ Sequences \subseteq 1..ids
       /\ Newest(trail) \in Nat /\ \A s \in Sequences : s <= Newest(trail) /\ trail[s].id \in 1..MaxIds
  <2>1. ids \in Nat /\ ids <= MaxIds /\ MaxIds \in Nat
    BY AuditAssumption DEF SyncInv, AuditInv, AuditTyped
  <2>2. TrailOK(trail, ids) /\ DOMAIN trail = Sequences
    BY DEF SyncInv, AuditInv, Sequences
  <2>3. Sequences \subseteq 1..ids /\ \A s \in Sequences : trail[s] \in Entry
    BY <2>2 DEF TrailOK
  <2>4. Newest(trail) \in 0..ids /\ \A s \in Sequences : s <= Newest(trail)
    BY <2>1, <2>2, <2>3, NewestIs
  <2>5. \A s \in Sequences : trail[s].id \in 1..MaxIds
    BY <2>3 DEF Entry
  <2>6. QED
    BY <2>1, <2>3, <2>4, <2>5
<1>end. Ended \in Hands /\ [Ended EXCEPT !.pc = "loop"] \in Hands
        /\ HandsOn(Ended, received) /\ HandsOn([Ended EXCEPT !.pc = "loop"], received)
  BY DEF Ended, Hands, HandsOn
<1>st. {"syncing", "paused", "stopped", "error"} \subseteq SyncStatus
  BY DEF SyncStatus
<1>1. ASSUME NEW t \in SyncThread, AgentStart(t) PROVE SyncInv'
  <2>1. /\ syncState' = [syncState EXCEPT !.status = "syncing"]
        /\ stopEvent' = FALSE /\ resumed' = TRUE /\ current' = {t}
        /\ thread' = [thread EXCEPT ![t] = [Ended EXCEPT !.pc = "loop"]]
        /\ received' = received
    BY <1>1 DEF AgentStart
  <2>2. syncState' \in [last : Nat, status : SyncStatus] /\ syncState'.last = syncState.last
    BY <1>typ, <1>st, <2>1
  <2>3. thread' \in [SyncThread -> Hands] /\ \A u \in SyncThread : thread'[u] = thread[u] \/ HandsOn(thread'[u], received')
    BY <1>end, <2>1, ThreadMoves
  <2>4. QED
    BY <1>aud, <1>typ, <2>1, <2>2, <2>3, AgentMoves
<1>2. CASE AgentPause
  <2>1. syncState' = WithStatus("paused") /\ resumed' = FALSE /\ UNCHANGED <<thread, current, stopEvent, received>>
    BY <1>2 DEF AgentPause
  <2>2. syncState' \in [last : Nat, status : SyncStatus] /\ syncState'.last = syncState.last
    BY <1>st, <2>1, StatusTyped
  <2>3. QED
    BY <1>aud, <1>typ, <2>1, <2>2, AgentMoves
<1>3. CASE AgentResume
  <2>1. syncState' = WithStatus("syncing") /\ resumed' = TRUE /\ UNCHANGED <<thread, current, stopEvent, received>>
    BY <1>3 DEF AgentResume
  <2>2. syncState' \in [last : Nat, status : SyncStatus] /\ syncState'.last = syncState.last
    BY <1>st, <2>1, StatusTyped
  <2>3. QED
    BY <1>aud, <1>typ, <2>1, <2>2, AgentMoves
<1>4. CASE StopSignals
  <2>1. stopEvent' = TRUE /\ resumed' = TRUE /\ UNCHANGED <<syncState, thread, current, received>>
    BY <1>4 DEF StopSignals
  <2>2. QED
    BY <1>aud, <1>typ, <2>1, AgentMoves
<1>5. CASE StopJoins
  <2>1. syncState' = WithStatus("stopped") /\ current' = {} /\ UNCHANGED <<thread, stopEvent, resumed, received>>
    BY <1>5 DEF StopJoins
  <2>2. syncState' \in [last : Nat, status : SyncStatus] /\ syncState'.last = syncState.last
    BY <1>st, <2>1, StatusTyped
  <2>3. QED
    BY <1>aud, <1>typ, <2>1, <2>2, AgentMoves
<1>6. CASE AgentCrash
  <2>1. /\ thread' = [t \in SyncThread |-> Ended] /\ current' = {} /\ stopEvent' = FALSE /\ resumed' = TRUE
        /\ UNCHANGED <<syncState, received>>
    BY <1>6 DEF AgentCrash
  <2>2. thread' \in [SyncThread -> Hands] /\ \A t \in SyncThread : HandsOn(thread'[t], received')
    BY <1>end, <2>1
  <2>3. QED
    BY <1>aud, <1>typ, <2>1, <2>2, AgentMoves
<1>7. ASSUME NEW t \in SyncThread, LoopEnds(t) PROVE SyncInv'
  <2>1. thread' = [thread EXCEPT ![t] = Ended] /\ UNCHANGED <<syncState, current, stopEvent, resumed, received>>
    BY <1>7 DEF LoopEnds
  <2>2. thread' \in [SyncThread -> Hands] /\ \A u \in SyncThread : thread'[u] = thread[u] \/ HandsOn(thread'[u], received')
    BY <1>end, <2>1, ThreadMoves
  <2>3. QED
    BY <1>aud, <1>typ, <2>1, <2>2, AgentMoves
<1>8. ASSUME NEW t \in SyncThread, CycleReads(t) PROVE SyncInv'
  <2> DEFINE seqs == NewEntries(syncState.last)
             x == [pc |-> "push", seqs |-> seqs, batch |-> {trail[s].id : s \in seqs}]
  <2>1. seqs # {} /\ thread' = [thread EXCEPT ![t] = x] /\ UNCHANGED <<syncState, current, stopEvent, resumed, received>>
    BY <1>8 DEF CycleReads
  <2>2. seqs \subseteq Sequences
    BY DEF NewEntries
  <2>3. seqs \subseteq 1..MaxIds /\ seqs \subseteq 0..Newest(trail)
    <3> HIDE DEF seqs
    <3>1. \A s \in seqs : s \in Nat /\ s >= 1 /\ s <= ids /\ s <= Newest(trail)
      BY <1>tr, <2>2
    <3>2. QED
      BY <1>tr, <3>1
  <2>4. {trail[s].id : s \in seqs} \subseteq 1..MaxIds
    BY <1>tr, <2>2
  <2>5. ASSUME NEW s \in Sequences, NEW u \in seqs, s <= u PROVE trail[s].id \in received \union {trail[r].id : r \in seqs}
    <3>1. CASE s <= syncState.last
      BY <1>typ, <3>1
    <3>2. CASE ~(s <= syncState.last)
      <4>1. syncState.last \in Nat /\ s \in Nat
        BY <1>typ, <1>tr
      <4>2. syncState.last < s
        BY <3>2, <4>1
      <4>3. s \in seqs
        BY <2>5, <4>1, <4>2, NoGap DEF SyncInv
      <4>4. QED
        BY <4>3
    <3>3. QED
      BY <3>1, <3>2
  <2>6. x \in Hands /\ HandsOn(x, received)
    BY <2>1, <2>3, <2>4, <2>5 DEF Hands, HandsOn
  <2> HIDE DEF x, seqs
  <2>7. thread' \in [SyncThread -> Hands] /\ \A u \in SyncThread : thread'[u] = thread[u] \/ HandsOn(thread'[u], received')
    BY <2>1, <2>6, ThreadMoves
  <2>8. QED
    BY <1>aud, <1>typ, <2>1, <2>7, AgentMoves
<1>9. ASSUME NEW t \in SyncThread, PushAccepted(t) PROVE SyncInv'
  <2> DEFINE x == [thread[t] EXCEPT !.pc = "acked"]
  <2>1. /\ thread[t].pc = "push" /\ thread' = [thread EXCEPT ![t] = x]
        /\ received' = received \union thread[t].batch
        /\ UNCHANGED <<syncState, current, stopEvent, resumed>>
    BY <1>9 DEF PushAccepted
  <2>2. thread[t] \in Hands /\ HandsOn(thread[t], received)
    BY DEF SyncInv
  <2>3. x \in Hands /\ x.pc = "acked" /\ x.seqs = thread[t].seqs /\ x.batch = thread[t].batch
    BY <2>2 DEF Hands
  <2>4. received' \subseteq 1..MaxIds
    BY <1>typ, <2>1, <2>2 DEF Hands
  <2> HIDE DEF x
  <2>5. HandsOn(x, received')
    BY <2>1, <2>2, <2>3 DEF HandsOn
  <2>6. thread' \in [SyncThread -> Hands] /\ \A u \in SyncThread : thread'[u] = thread[u] \/ HandsOn(thread'[u], received')
    BY <2>1, <2>3, <2>5, ThreadMoves
  <2>7. QED
    BY <1>aud, <1>typ, <2>1, <2>4, <2>6, AgentMoves
<1>10. ASSUME NEW t \in SyncThread, NEW taken \in BOOLEAN, NEW answered \in BOOLEAN, PushFails(t, taken, answered)
       PROVE  SyncInv'
  <2> DEFINE x == [thread[t] EXCEPT !.pc = IF answered THEN "loop" ELSE "failed"]
  <2>1. /\ thread[t].pc = "push" /\ thread' = [thread EXCEPT ![t] = x]
        /\ received' = received \/ received' = received \union thread[t].batch
        /\ UNCHANGED <<syncState, current, stopEvent, resumed>>
    BY <1>10 DEF PushFails
  <2>2. thread[t] \in Hands /\ HandsOn(thread[t], received)
    BY DEF SyncInv
  <2>3. x \in Hands /\ x.pc \in {"loop", "failed"} /\ x.seqs = thread[t].seqs /\ x.batch = thread[t].batch
    BY <2>2 DEF Hands
  <2>4. received' \subseteq 1..MaxIds /\ received \subseteq received'
    BY <1>typ, <2>1, <2>2 DEF Hands
  <2> HIDE DEF x
  <2>5. HandsOn(x, received')
    BY <2>1, <2>2, <2>3, <2>4 DEF HandsOn
  <2>6. thread' \in [SyncThread -> Hands] /\ \A u \in SyncThread : thread'[u] = thread[u] \/ HandsOn(thread'[u], received')
    BY <2>1, <2>3, <2>5, ThreadMoves
  <2>7. QED
    BY <1>aud, <1>typ, <2>1, <2>4, <2>6, AgentMoves
<1>11. ASSUME NEW t \in SyncThread, UpdateWatermark(t) PROVE SyncInv'
  <2> DEFINE m == Max(thread[t].seqs)
  <2>1. /\ thread[t].pc = "acked" /\ thread' = [thread EXCEPT ![t] = [Ended EXCEPT !.pc = "loop"]]
        /\ syncState' = [last |-> m, status |-> "syncing"]
        /\ UNCHANGED <<current, stopEvent, resumed, received>>
    BY <1>11 DEF UpdateWatermark
  <2>2. HandsOn(thread[t], received)
    BY DEF SyncInv
  <2>3. /\ thread[t].seqs \in SUBSET (0..Newest(trail)) /\ thread[t].seqs # {}
        /\ \A s \in Sequences, u \in thread[t].seqs : s <= u => trail[s].id \in received
    BY <2>1, <2>2 DEF HandsOn
  <2>4. m \in thread[t].seqs
    BY <1>tr, <2>3, GreatestNatural
  <2> HIDE DEF m
  <2>5. m \in Nat /\ m <= Newest(trail) /\ \A s \in Sequences : s <= m => trail[s].id \in received
    BY <1>tr, <2>3, <2>4
  <2>6. syncState' \in [last : Nat, status : SyncStatus] /\ syncState'.last = m
    BY <1>st, <2>1, <2>5
  <2>7. thread' \in [SyncThread -> Hands] /\ \A u \in SyncThread : thread'[u] = thread[u] \/ HandsOn(thread'[u], received')
    BY <1>end, <2>1, ThreadMoves
  <2>8. QED
    BY <1>aud, <1>typ, <2>1, <2>5, <2>6, <2>7, AgentMoves
<1>12. ASSUME NEW t \in SyncThread, HandleError(t) PROVE SyncInv'
  <2>1. /\ syncState' = WithStatus("error") /\ thread' = [thread EXCEPT ![t] = [Ended EXCEPT !.pc = "loop"]]
        /\ UNCHANGED <<current, stopEvent, resumed, received>>
    BY <1>12 DEF HandleError
  <2>2. syncState' \in [last : Nat, status : SyncStatus] /\ syncState'.last = syncState.last
    BY <1>st, <2>1, StatusTyped
  <2>3. thread' \in [SyncThread -> Hands] /\ \A u \in SyncThread : thread'[u] = thread[u] \/ HandsOn(thread'[u], received')
    BY <1>end, <2>1, ThreadMoves
  <2>4. QED
    BY <1>aud, <1>typ, <2>1, <2>2, <2>3, AgentMoves
<1>13. QED
  BY <1>1, <1>2, <1>3, <1>4, <1>5, <1>6, <1>7, <1>8, <1>9, <1>10, <1>11, <1>12 DEF AgentNext, ThreadNext

\* Every step, of the trail or of the agent.
LEMMA SyncStep == LongHorizon /\ SyncInv /\ [SyncNext]_<<auditVars, syncVars>> => SyncInv'
<1> SUFFICES ASSUME LongHorizon, SyncInv, [SyncNext]_<<auditVars, syncVars>> PROVE SyncInv'
  OBVIOUS
<1>1. CASE AgentNext /\ UNCHANGED auditVars
  BY <1>1, AgentStepKeeps
<1>2. CASE [AuditNext]_auditVars /\ UNCHANGED syncVars
  BY <1>2, TrailStepKeeps
<1>3. QED
  BY <1>1, <1>2 DEF SyncNext, AuditNext

\* No entry, no thread and no watermark at the start.
LEMMA SyncStart == SyncInit => SyncInv
<1> SUFFICES ASSUME SyncInit PROVE SyncInv
  OBVIOUS
<1>1. AuditInv /\ DOMAIN trail = {} /\ Newest(trail) = 0
  BY AuditStart DEF SyncInit, AuditInit, Newest
<1>2. Ended \in Hands /\ HandsOn(Ended, received)
  BY DEF Ended, Hands, HandsOn
<1>3. syncState \in [last : Nat, status : SyncStatus] /\ syncState.last = 0
  BY DEF SyncInit, SyncStatus
<1>4. thread \in [SyncThread -> Hands] /\ \A t \in SyncThread : HandsOn(thread[t], received)
  BY <1>2 DEF SyncInit
<1>5. WatermarkHonest
  BY <1>1 DEF WatermarkHonest, Sequences
<1>6. /\ current \subseteq SyncThread /\ stopEvent \in BOOLEAN /\ resumed \in BOOLEAN
      /\ received \subseteq 1..MaxIds
  BY DEF SyncInit
<1>7. syncState.last <= Newest(trail)
  BY <1>1, <1>3
<1>8. QED
  BY <1>1, <1>3, <1>4, <1>5, <1>6, <1>7 DEF SyncInv

\* What the invariant says of the types and of the watermark.
LEMMA SyncHolds == SyncInv => SyncTypeOK /\ WatermarkHonest
<1> SUFFICES ASSUME SyncInv PROVE SyncTypeOK
  BY DEF SyncInv
<1>1. ids \in Nat /\ ids <= MaxIds /\ MaxIds \in Nat /\ Newest(trail) \in 0..ids
  BY NewestIs, AuditAssumption DEF SyncInv, AuditInv, AuditTyped, TrailOK
<1>2. syncState.last \in 0..MaxIds /\ syncState.status \in SyncStatus
  BY <1>1 DEF SyncInv
<1>3. syncState \in [last : 0..MaxIds, status : SyncStatus]
  BY <1>2 DEF SyncInv
<1>4. QED
  BY <1>3 DEF SyncInv, SyncTypeOK, Hands

\* Division with remainder.
LEMMA Quotient ==
  ASSUME NEW n \in Nat \ {0}, NEW a \in Nat
  PROVE  /\ a \div n \in Nat /\ a % n \in 0..(n - 1) /\ a = n * (a \div n) + (a % n)
OBVIOUS

\* Of two multiples of n the greater is greater by n at least.
LEMMA Multiples ==
  ASSUME NEW n \in Nat \ {0}, NEW j \in Nat, NEW k \in Nat, n * j < n * k
  PROVE  n * j + n <= n * k
<1>1. j < k
  <2>1. CASE j >= k
    <3>1. PICK d \in Nat : j = k + d
      BY <2>1
    <3>2. n * j = n * k + n * d /\ n * d >= 0
      BY <3>1
    <3>3. QED
      BY <3>2
  <2>2. QED
    BY <2>1
<1>2. PICK d \in Nat : k = j + 1 + d
  <2>1. k - j - 1 \in Nat /\ k = j + 1 + (k - j - 1)
    BY <1>1
  <2>2. QED
    BY <2>1
<1>3. n * k = n * j + n + n * d /\ n * d >= 0
  BY <1>2
<1>4. QED
  BY <1>3

\* So no multiple of n lies between two that follow each other ...
LEMMA NoneBetween ==
  ASSUME NEW n \in Nat \ {0}, NEW a \in Nat, NEW b \in Nat, a % n = 0, b % n = 0, a < b
  PROVE  a + n <= b
<1>1. a \div n \in Nat /\ b \div n \in Nat /\ a = n * (a \div n) /\ b = n * (b \div n)
  BY Quotient
<1>2. n * (a \div n) + n <= n * (b \div n)
  BY <1>1, Multiples
<1>3. QED
  BY <1>1, <1>2

\* ... the next multiple after a is a + n ...
LEMMA NextMultiple ==
  ASSUME NEW n \in Nat \ {0}, NEW a \in Nat, a % n = 0
  PROVE  (a + n) % n = 0
<1> DEFINE j == a \div n
           q == (a + n) \div n
           r == (a + n) % n
<1>1. j \in Nat /\ a = n * j
  BY Quotient
<1>2. a + n \in Nat
  OBVIOUS
<1>3. q \in Nat /\ r \in 0..(n - 1) /\ a + n = n * q + r
  BY <1>2, Quotient
<1> HIDE DEF j, q, r
<1>4. n * (j + 1) = n * q + r /\ j + 1 \in Nat
  BY <1>1, <1>3
<1>5. CASE r # 0
  <2>1. n * q < n * (j + 1)
    <3>1. n * q \in Nat /\ n * (j + 1) \in Nat
      BY <1>3, <1>4
    <3>2. QED
      BY <1>3, <1>4, <1>5, <3>1
  <2>2. n * q + n <= n * (j + 1)
    BY <1>3, <1>4, <2>1, Multiples
  <2>3. n * q \in Nat
    BY <1>3
  <2>4. QED
    BY <1>3, <1>4, <2>2, <2>3
<1>6. CASE r = 0
  BY <1>6 DEF r
<1>7. QED
  BY <1>5, <1>6

\* ... and the first is 0.
LEMMA NoMultiple ==
  ASSUME NEW n \in Nat \ {0}
  PROVE  0 % n = 0
OBVIOUS

-----------------------------------------------------------------------------
(* Scheduled actions and their jobs.                                       *)

Job == [at : Nat, state : {"queued", "running", "completed", "failed", "cancelled"},
        runs : Nat, calm : BOOLEAN]
ActionRow == [life : {"ACTIVE", "ARCHIVED"}, next : Nat, interval : Nat, withdrawn : BOOLEAN]
DispatchCall == [pc : {"vacant", "enqueue", "advance"}, at : Nat]
WorkCall == [pc : {"vacant", "start", "execute"}, todo : SUBSET Nat]

\* An occurrence t has its job among J.
Has(J, t) == \E i \in 1..Len(J) : J[i].at = t

\* t is an occurrence of an action that repeats every n seconds (0: it does
\* not), and those before it have their jobs.
Reached(J, n, t) ==
  /\ t >= 1
  /\ n = 0 => t = 1
  /\ n > 0 => /\ (t - 1) % n = 0
              /\ \A u \in Nat : u >= 1 /\ u < t /\ (u - 1) % n = 0 => Has(J, u)

ActionOK(J, a) ==
  /\ Reached(J, a.interval, a.next)
  /\ a.life = "ARCHIVED" /\ a.withdrawn = FALSE => a.interval = 0 /\ Has(J, a.next)

DispatchOK(J, n, d) ==
  /\ d.pc # "vacant" => Reached(J, n, d.at)
  /\ d.pc = "advance" => Has(J, d.at)

JobOK(j) ==
  /\ j.state = "queued" => j.runs = 0
  /\ j.calm = TRUE => j.state = "cancelled" /\ j.runs = 0

\* What a runner w has read is there, and was not cancelled before it was read.
WorkOK(J, w) ==
  /\ w.pc # "vacant" => w.todo # {}
  /\ \A i \in w.todo : i \in 1..Len(J) /\ J[i].calm = FALSE

\* The only runner has executed no job twice, and none of those before it but
\* the one in its hand.
SoleOK(J, w) ==
  /\ \A i \in 1..Len(J) : J[i].runs <= 1
  /\ \A i \in w.todo : J[i].runs = 0 \/ (w.pc = "execute" /\ i = Min(w.todo))

Enqueueing == {e \in Dispatcher : dispatcher[e].pc = "enqueue"}

SchedTyped ==
  /\ clock \in 0..MaxTime
  /\ action \in ActionRow
  /\ jobs \in Seq(Job)
  /\ dispatcher \in [Dispatcher -> DispatchCall]
  /\ runner \in [Runner -> WorkCall]

SchedInv ==
  /\ SchedTyped
  /\ Len(jobs) + Cardinality(Enqueueing) <= MaxJobs
  /\ ActionOK(jobs, action)
  /\ \A d \in Dispatcher : DispatchOK(jobs, action.interval, dispatcher[d])
  /\ \A i \in 1..Len(jobs) : JobOK(jobs[i])
  /\ \A r \in Runner : WorkOK(jobs, runner[r])
  /\ \A r \in Runner : Runner = {r} => SoleOK(jobs, runner[r])

\* The oldest of the jobs that were read.
LEMMA OldestIs ==
  ASSUME NEW S \in SUBSET Nat, S # {}
  PROVE  Min(S) \in S
<1>1. PICK m \in S : \A n \in S : m <= n
  BY LeastNatural
<1>2. QED
  BY <1>1 DEF Min

\* Jobs are added and updated, and no row is removed.
Follows(J, K) == Len(J) <= Len(K) /\ \A i \in 1..Len(J) : K[i].at = J[i].at

\* What has its job, and what was reached, keeps it and stays reached.
LEMMA JobsStay ==
  ASSUME NEW J \in Seq(Job), NEW K \in Seq(Job), Follows(J, K)
  PROVE  /\ \A t : Has(J, t) => Has(K, t)
         /\ \A n, t : Reached(J, n, t) => Reached(K, n, t)
         /\ \A a : ActionOK(J, a) => ActionOK(K, a)
         /\ \A n, d : DispatchOK(J, n, d) => DispatchOK(K, n, d)
<1>1. Len(J) \in Nat /\ Len(K) \in Nat
  OBVIOUS
<1>2. ASSUME NEW t, Has(J, t) PROVE Has(K, t)
  <2>1. PICK i \in 1..Len(J) : J[i].at = t
    BY <1>2 DEF Has
  <2>2. i \in 1..Len(K) /\ K[i].at = t
    BY <1>1, <2>1 DEF Follows
  <2>3. QED
    BY <2>2 DEF Has
<1>3. \A n, t : Reached(J, n, t) => Reached(K, n, t)
  BY <1>2 DEF Reached
<1>4. \A a : ActionOK(J, a) => ActionOK(K, a)
  BY <1>2, <1>3 DEF ActionOK
<1>5. \A n, d : DispatchOK(J, n, d) => DispatchOK(K, n, d)
  BY <1>2, <1>3 DEF DispatchOK
<1>6. QED
  BY <1>2, <1>3, <1>4, <1>5

\* An UPDATE of one job.
LEMMA JobChanges ==
  ASSUME NEW J \in Seq(Job), NEW i \in 1..Len(J), NEW x \in Job, NEW K, K = [J EXCEPT ![i] = x]
  PROVE  /\ K \in Seq(Job) /\ Len(K) = Len(J) /\ K[i] = x
         /\ \A j \in 1..Len(J) : j # i => K[j] = J[j]
BY ExceptSeq

-----------------------------------------------------------------------------
\* A dispatcher goes on: what it reached, it reached, and there is room for what
\* it enqueues.
LEMMA DispatcherMoves ==
  ASSUME SchedInv, NEW d \in Dispatcher, NEW x \in DispatchCall, dispatcher' = [dispatcher EXCEPT ![d] = x],
         NEW J \in Seq(Job), jobs' = J, Follows(jobs, J), NEW a \in ActionRow, action' = a,
         a.interval = action.interval, ActionOK(J, a), DispatchOK(J, a.interval, x),
         clock' = clock, runner' = runner,
         Len(J) + Cardinality(Enqueueing') <= MaxJobs,
         \A i \in 1..Len(J) : JobOK(J[i]),
         \A i \in 1..Len(jobs) : J[i] = jobs[i],
         \A i \in 1..Len(J) : i \in 1..Len(jobs) \/ J[i].runs = 0
  PROVE  SchedInv'
<1>1. jobs \in Seq(Job) /\ Len(jobs) \in Nat /\ Len(J) \in Nat /\ Len(jobs) <= Len(J)
  BY DEF SchedInv, SchedTyped, Follows
<1>2. dispatcher' \in [Dispatcher -> DispatchCall] /\ dispatcher'[d] = x
      /\ \A e \in Dispatcher : e # d => dispatcher'[e] = dispatcher[e]
  BY DEF SchedInv, SchedTyped
<1>3. SchedTyped'
  BY <1>2 DEF SchedInv, SchedTyped
<1>4. ASSUME NEW e \in Dispatcher PROVE DispatchOK(J, a.interval, dispatcher'[e])
  <2>1. DispatchOK(jobs, action.interval, dispatcher[e])
    BY DEF SchedInv
  <2>2. DispatchOK(J, action.interval, dispatcher[e])
    BY <1>1, <2>1, JobsStay
  <2>3. QED
    BY <1>2, <2>2
<1>5. ASSUME NEW r \in Runner PROVE WorkOK(J, runner[r]) /\ (Runner = {r} => SoleOK(J, runner[r]))
  <2>1. WorkOK(jobs, runner[r]) /\ (Runner = {r} => SoleOK(jobs, runner[r]))
    BY DEF SchedInv
  <2>2. \A i \in runner[r].todo : i \in 1..Len(jobs) /\ i \in 1..Len(J) /\ J[i] = jobs[i]
    BY <1>1, <2>1 DEF WorkOK
  <2>3. WorkOK(J, runner[r])
    BY <2>1, <2>2 DEF WorkOK
  <2>4. ASSUME SoleOK(jobs, runner[r]) PROVE SoleOK(J, runner[r])
    <3>1. \A i \in 1..Len(J) : J[i].runs <= 1
      BY <2>4 DEF SoleOK
    <3>2. QED
      BY <2>2, <2>4, <3>1 DEF SoleOK
  <2>5. QED
    BY <2>1, <2>3, <2>4
<1>room. (Len(jobs) + Cardinality(Enqueueing) <= MaxJobs)'
  OBVIOUS
<1>6. ActionOK(jobs, action)'
  BY DEF ActionOK, Reached, Has
<1>7. \A e \in Dispatcher : DispatchOK(jobs, action.interval, dispatcher[e])'
  BY <1>4 DEF DispatchOK, Reached, Has
<1>8. \A i \in 1..Len(jobs') : JobOK(jobs[i])'
  BY DEF JobOK
<1>9. \A r \in Runner : WorkOK(jobs, runner[r])'
  BY <1>5 DEF WorkOK
<1>10. \A r \in Runner : Runner = {r} => SoleOK(jobs, runner[r])'
  BY <1>5 DEF SoleOK
<1>11. QED
  BY <1>3, <1>room, <1>6, <1>7, <1>8, <1>9, <1>10 DEF SchedInv

\* A runner goes on.
LEMMA RunnerMoves ==
  ASSUME SchedInv, NEW r \in Runner, NEW x \in WorkCall, runner' = [runner EXCEPT ![r] = x],
         NEW J \in Seq(Job), jobs' = J, Follows(jobs, J), Len(J) = Len(jobs),
         UNCHANGED <<clock, action, dispatcher>>,
         \A i \in 1..Len(J) : JobOK(J[i]) /\ (jobs[i].calm = FALSE => J[i].calm = FALSE),
         WorkOK(J, x), Runner = {r} => SoleOK(J, x)
  PROVE  SchedInv'
<1>1. jobs \in Seq(Job) /\ Len(jobs) \in Nat
  BY DEF SchedInv, SchedTyped
<1>2. runner' \in [Runner -> WorkCall] /\ runner'[r] = x /\ \A s \in Runner : s # r => runner'[s] = runner[s]
  BY DEF SchedInv, SchedTyped
<1>3. SchedTyped'
  BY <1>2 DEF SchedInv, SchedTyped
<1>4. ASSUME NEW s \in Runner PROVE WorkOK(J, runner'[s])
  <2>1. WorkOK(jobs, runner[s])
    BY DEF SchedInv
  <2>2. WorkOK(J, runner[s])
    BY <2>1 DEF WorkOK
  <2>3. QED
    BY <1>2, <2>2
<1>5. ASSUME NEW s \in Runner, Runner = {s} PROVE SoleOK(J, runner'[s])
  BY <1>2, <1>5
<1>6. ActionOK(J, action) /\ \A d \in Dispatcher : DispatchOK(J, action.interval, dispatcher[d])
  BY <1>1, JobsStay DEF SchedInv
<1>7. /\ (Len(jobs) + Cardinality(Enqueueing) <= MaxJobs)'
      /\ ActionOK(jobs, action)'
      /\ \A e \in Dispatcher : DispatchOK(jobs, action.interval, dispatcher[e])'
      /\ \A i \in 1..Len(jobs') : JobOK(jobs[i])'
      /\ \A s \in Runner : WorkOK(jobs, runner[s])'
      /\ \A s \in Runner : Runner = {s} => SoleOK(jobs, runner[s])'
  <2>1. Enqueueing' = Enqueueing
    BY DEF Enqueueing
  <2>2. (Len(jobs) + Cardinality(Enqueueing) <= MaxJobs)'
    BY <2>1 DEF SchedInv
  <2>3. QED
    BY <1>4, <1>5, <1>6, <2>2 DEF ActionOK, Reached, Has, DispatchOK, JobOK, WorkOK, SoleOK
<1>8. QED
  BY <1>3, <1>7 DEF SchedInv

\* How many dispatchers are about to enqueue.
LEMMA EnqueueingCounts ==
  ASSUME SchedInv, NEW d \in Dispatcher, NEW x \in DispatchCall, dispatcher' = [dispatcher EXCEPT ![d] = x]
  PROVE  /\ Cardinality(Enqueueing) \in Nat /\ Cardinality(Enqueueing') \in Nat
         /\ Cardinality(Enqueueing') <= Cardinality(Enqueueing) + 1
         /\ x.pc # "enqueue" => Cardinality(Enqueueing') <= Cardinality(Enqueueing)
         /\ x.pc # "enqueue" /\ dispatcher[d].pc = "enqueue" => Cardinality(Enqueueing') = Cardinality(Enqueueing) - 1
<1> DEFINE E == Enqueueing
           F == Enqueueing'
<1>1. dispatcher'[d] = x /\ \A e \in Dispatcher : e # d => dispatcher'[e] = dispatcher[e]
  BY DEF SchedInv, SchedTyped
<1>2. /\ x.pc = "enqueue" => F = E \union {d}
      /\ x.pc # "enqueue" => F = E \ {d}
      /\ dispatcher[d].pc = "enqueue" <=> d \in E
  BY <1>1 DEF Enqueueing
<1>3. IsFiniteSet(E)
  BY SchedulingAssumption, FS_Subset DEF Enqueueing
<1> HIDE DEF E, F
<1>4. /\ Cardinality(E) \in Nat
      /\ Cardinality(E \union {d}) = IF d \in E THEN Cardinality(E) ELSE Cardinality(E) + 1
      /\ Cardinality(E \ {d}) = IF d \in E THEN Cardinality(E) - 1 ELSE Cardinality(E)
  BY <1>3, FS_AddElement, FS_RemoveElement, FS_CardinalityType
<1>5. Cardinality(F) \in Nat
  <2>1. IsFiniteSet(F)
    BY <1>2, <1>3, FS_AddElement, FS_RemoveElement
  <2>2. QED
    BY <2>1, FS_CardinalityType
<1>6. /\ Cardinality(F) <= Cardinality(E) + 1
      /\ x.pc # "enqueue" => Cardinality(F) <= Cardinality(E)
      /\ x.pc # "enqueue" /\ d \in E => Cardinality(F) = Cardinality(E) - 1
  <2>1. CASE x.pc = "enqueue"
    <3>1. F = E \union {d}
      BY <1>2, <2>1
    <3>2. QED
      BY <1>4, <2>1, <3>1
  <2>2. CASE x.pc # "enqueue"
    <3>1. F = E \ {d}
      BY <1>2, <2>2
    <3>2. QED
      BY <1>4, <2>2, <3>1
  <2>3. QED
    BY <2>1, <2>2
<1>7. QED
  BY <1>2, <1>4, <1>5, <1>6 DEF E, F

\* What the invariant says of types and of the action.
LEMMA SchedFacts ==
  ASSUME SchedInv
  PROVE  /\ SchedTyped /\ Len(jobs) \in Nat /\ MaxJobs \in Nat /\ ActionOK(jobs, action)
         /\ Len(jobs) + Cardinality(Enqueueing) <= MaxJobs
         /\ Follows(jobs, jobs)
         /\ \A i \in 1..Len(jobs) : JobOK(jobs[i]) /\ jobs[i] \in Job
         /\ \A d \in Dispatcher : DispatchOK(jobs, action.interval, dispatcher[d]) /\ dispatcher[d] \in DispatchCall
         /\ \A r \in Runner : WorkOK(jobs, runner[r]) /\ runner[r] \in WorkCall
BY SchedulingAssumption DEF SchedInv, SchedTyped, Follows

\* A call that is over.
LEMMA VacantIs ==
  /\ Vacant \in DispatchCall /\ \A J, n : DispatchOK(J, n, Vacant)
  /\ Vacant.pc = "vacant"
BY DEF Vacant, DispatchCall, DispatchOK

\* A runner that has nothing in hand.
LEMMA UnoccupiedIs ==
  ASSUME NEW J
  PROVE  Unoccupied \in WorkCall /\ WorkOK(J, Unoccupied) /\ Unoccupied.todo = {}
BY DEF Unoccupied, WorkCall, WorkOK

\* get_due_actions(): what next_run_at says is reached.
LEMMA DispatchReadsKeeps ==
  ASSUME SchedInv, NEW d \in Dispatcher, DispatchReads(d)
  PROVE  SchedInv'
<1> DEFINE x == [pc |-> "enqueue", at |-> action.next]
<1>1. /\ Len(jobs) + Cardinality(Enqueueing) < MaxJobs
      /\ dispatcher' = [dispatcher EXCEPT ![d] = x]
      /\ UNCHANGED <<clock, action, jobs, runner>>
  BY DEF DispatchReads, Enqueueing
<1>2. /\ SchedTyped /\ Len(jobs) \in Nat /\ MaxJobs \in Nat /\ ActionOK(jobs, action)
      /\ Follows(jobs, jobs) /\ \A i \in 1..Len(jobs) : JobOK(jobs[i])
  BY SchedFacts
<1>3. action \in ActionRow /\ jobs \in Seq(Job)
  BY <1>2 DEF SchedTyped
<1>4. x \in DispatchCall /\ DispatchOK(jobs, action.interval, x)
  BY <1>2, <1>3 DEF DispatchCall, ActionRow, DispatchOK, ActionOK
<1> HIDE DEF x
<1>5. Len(jobs) + Cardinality(Enqueueing') <= MaxJobs
  <2>1. Cardinality(Enqueueing) \in Nat /\ Cardinality(Enqueueing') \in Nat /\ Cardinality(Enqueueing') <= Cardinality(Enqueueing) + 1
    BY <1>1, <1>4, EnqueueingCounts
  <2>2. QED
    BY <1>1, <1>2, <2>1
<1>6. QED
  BY <1>1, <1>2, <1>3, <1>4, <1>5, DispatcherMoves

\* enqueue(): the occurrence has its job.
LEMMA DispatchEnqueuesKeeps ==
  ASSUME SchedInv, NEW d \in Dispatcher, DispatchEnqueues(d)
  PROVE  SchedInv'
<1> DEFINE x == [dispatcher[d] EXCEPT !.pc = "advance"]
           j == NewJob(dispatcher[d].at)
           J == Append(jobs, j)
           n == Len(jobs)
<1>1. /\ dispatcher[d].pc = "enqueue" /\ jobs' = J /\ dispatcher' = [dispatcher EXCEPT ![d] = x]
      /\ UNCHANGED <<clock, action, runner>>
  BY DEF DispatchEnqueues
<1>2. /\ SchedTyped /\ n \in Nat /\ MaxJobs \in Nat /\ ActionOK(jobs, action)
      /\ n + Cardinality(Enqueueing) <= MaxJobs
      /\ \A i \in 1..n : JobOK(jobs[i])
      /\ dispatcher[d] \in DispatchCall /\ DispatchOK(jobs, action.interval, dispatcher[d])
  BY SchedFacts
<1>3. action \in ActionRow /\ jobs \in Seq(Job)
  BY <1>2 DEF SchedTyped
<1>4. x \in DispatchCall /\ x.pc = "advance" /\ x.at = dispatcher[d].at
  BY <1>2 DEF DispatchCall
<1>5. j \in Job /\ j.at = x.at /\ JobOK(j) /\ j.runs = 0
  BY <1>2, <1>4 DEF NewJob, Job, JobOK, DispatchCall
<1> HIDE DEF j, x
<1>6. J \in Seq(Job) /\ Len(J) = n + 1 /\ J[n + 1] = j /\ \A i \in 1..n : J[i] = jobs[i]
  BY <1>3, <1>5, AppendProperties
<1> HIDE DEF J
<1>7. \A i \in 1..Len(J) : i \in 1..n \/ i = n + 1
  BY <1>2, <1>6
<1>8. Follows(jobs, J) /\ Has(J, x.at)
  <2>1. n <= n + 1 /\ n + 1 \in 1..Len(J)
    BY <1>2, <1>6
  <2>2. QED
    BY <1>5, <1>6, <2>1 DEF Follows, Has
<1>9. ActionOK(J, action) /\ DispatchOK(J, action.interval, dispatcher[d])
  BY <1>2, <1>3, <1>6, <1>8, JobsStay
<1>10. DispatchOK(J, action.interval, x)
  BY <1>1, <1>4, <1>8, <1>9 DEF DispatchOK
<1>11. Len(J) + Cardinality(Enqueueing') <= MaxJobs
  <2>1. /\ Cardinality(Enqueueing) \in Nat /\ Cardinality(Enqueueing') = Cardinality(Enqueueing) - 1
    BY <1>1, <1>4, EnqueueingCounts
  <2>2. QED
    BY <1>2, <1>6, <2>1
<1>12. /\ \A i \in 1..Len(J) : JobOK(J[i])
       /\ \A i \in 1..Len(J) : i \in 1..n \/ J[i].runs = 0
  BY <1>2, <1>5, <1>6, <1>7
<1>13. QED
  BY <1>1, <1>3, <1>4, <1>6, <1>8, <1>9, <1>10, <1>11, <1>12, DispatcherMoves DEF n

\* advance_action(): to the occurrence after the one that has its job, or away.
LEMMA DispatchAdvancesKeeps ==
  ASSUME SchedInv, NEW d \in Dispatcher, DispatchAdvances(d)
  PROVE  SchedInv'
<1> DEFINE t == dispatcher[d].at
           n == action.interval
           u == t + n
           a == IF n > 0 THEN [action EXCEPT !.next = u] ELSE [action EXCEPT !.life = "ARCHIVED"]
<1>1. /\ dispatcher[d].pc = "advance" /\ action' = a
      /\ dispatcher' = [dispatcher EXCEPT ![d] = Vacant]
      /\ UNCHANGED <<clock, jobs, runner>>
  BY DEF DispatchAdvances
<1>2. /\ SchedTyped /\ Len(jobs) \in Nat /\ MaxJobs \in Nat /\ ActionOK(jobs, action)
      /\ Len(jobs) + Cardinality(Enqueueing) <= MaxJobs
      /\ Follows(jobs, jobs) /\ \A i \in 1..Len(jobs) : JobOK(jobs[i])
      /\ dispatcher[d] \in DispatchCall /\ DispatchOK(jobs, n, dispatcher[d])
  BY SchedFacts
<1>3. action \in ActionRow /\ jobs \in Seq(Job) /\ n \in Nat /\ t \in Nat
  BY <1>2 DEF SchedTyped, ActionRow, DispatchCall
<1>4. Reached(jobs, n, t) /\ Has(jobs, t)
  BY <1>1, <1>2 DEF DispatchOK
<1> HIDE DEF t
<1>5. ASSUME n > 0 PROVE a \in ActionRow /\ a.interval = action.interval /\ ActionOK(jobs, a)
  <2>1. t >= 1 /\ (t - 1) % n = 0 /\ \A v \in Nat : v >= 1 /\ v < t /\ (v - 1) % n = 0 => Has(jobs, v)
    BY <1>4, <1>5 DEF Reached
  <2>2. n \in Nat \ {0} /\ t - 1 \in Nat /\ u \in Nat /\ u - 1 = (t - 1) + n
    BY <1>3, <1>5, <2>1
  <2>3. (u - 1) % n = 0
    BY <2>1, <2>2, NextMultiple
  <2>4. ASSUME NEW v \in Nat, v >= 1, v < u, (v - 1) % n = 0 PROVE Has(jobs, v)
    <3>1. CASE v < t
      BY <2>1, <2>4, <3>1
    <3>2. CASE v = t
      BY <1>4, <3>2
    <3>3. CASE v > t
      <4>1. v - 1 \in Nat /\ t - 1 < v - 1
        BY <1>3, <2>4, <3>3
      <4>2. (t - 1) + n <= v - 1
        BY <2>1, <2>2, <2>4, <4>1, NoneBetween
      <4>3. QED
        BY <1>3, <2>4, <4>2
    <3>4. QED
      BY <1>3, <3>1, <3>2, <3>3
  <2>5. Reached(jobs, n, u)
    BY <1>3, <1>5, <2>1, <2>3, <2>4 DEF Reached
  <2>6. a = [action EXCEPT !.next = u]
    BY <1>5
  <2> HIDE DEF u, n, a
  <2>7. a \in ActionRow /\ a.interval = action.interval /\ a.next = u /\ a.life = action.life /\ a.withdrawn = action.withdrawn
    BY <1>3, <2>2, <2>6 DEF ActionRow
  <2>8. ActionOK(jobs, a)
    BY <1>2, <1>3, <1>5, <2>5, <2>7 DEF ActionOK, n
  <2>9. QED
    BY <2>7, <2>8
<1>6. ASSUME ~(n > 0) PROVE a \in ActionRow /\ a.interval = action.interval /\ ActionOK(jobs, a)
  <2>1. n = 0 /\ t = 1 /\ action.next = 1
    BY <1>2, <1>3, <1>4, <1>6 DEF Reached, ActionOK
  <2>2. a = [action EXCEPT !.life = "ARCHIVED"]
    BY <1>6
  <2> HIDE DEF a
  <2>3. a \in ActionRow /\ a.interval = action.interval /\ a.next = action.next
    BY <1>3, <2>2 DEF ActionRow
  <2>4. ActionOK(jobs, a)
    BY <1>2, <1>4, <2>1, <2>3 DEF ActionOK
  <2>5. QED
    BY <2>3, <2>4
<1>7. a \in ActionRow /\ a.interval = action.interval /\ ActionOK(jobs, a)
  BY <1>5, <1>6
<1> HIDE DEF a
<1>8. Len(jobs) + Cardinality(Enqueueing') <= MaxJobs
  <2>1. Cardinality(Enqueueing) \in Nat /\ Cardinality(Enqueueing') \in Nat /\ Cardinality(Enqueueing') <= Cardinality(Enqueueing)
    BY <1>1, VacantIs, EnqueueingCounts
  <2>2. QED
    BY <1>2, <2>1
<1>9. QED
  BY <1>1, <1>2, <1>3, <1>7, <1>8, VacantIs, DispatcherMoves

\* A dispatcher dies.
LEMMA DispatcherDiesKeeps ==
  ASSUME SchedInv, NEW d \in Dispatcher, DispatcherDies(d)
  PROVE  SchedInv'
<1>1. dispatcher' = [dispatcher EXCEPT ![d] = Vacant] /\ UNCHANGED <<clock, action, jobs, runner>>
  BY DEF DispatcherDies
<1>2. /\ SchedTyped /\ Len(jobs) \in Nat /\ MaxJobs \in Nat /\ ActionOK(jobs, action)
      /\ Len(jobs) + Cardinality(Enqueueing) <= MaxJobs
      /\ Follows(jobs, jobs) /\ \A i \in 1..Len(jobs) : JobOK(jobs[i])
  BY SchedFacts
<1>3. action \in ActionRow /\ jobs \in Seq(Job)
  BY <1>2 DEF SchedTyped
<1>4. Len(jobs) + Cardinality(Enqueueing') <= MaxJobs
  <2>1. Cardinality(Enqueueing) \in Nat /\ Cardinality(Enqueueing') \in Nat /\ Cardinality(Enqueueing') <= Cardinality(Enqueueing)
    BY <1>1, VacantIs, EnqueueingCounts
  <2>2. QED
    BY <1>2, <2>1
<1>5. QED
  BY <1>1, <1>2, <1>3, <1>4, VacantIs, DispatcherMoves

\* A SELECT of queued jobs: none of them was executed or cancelled.
LEMMA ReadJobsKeeps ==
  ASSUME SchedInv, NEW r \in Runner, NEW rows \in SUBSET Queued, rows # {}, ReadJobs(r, rows)
  PROVE  SchedInv'
<1> DEFINE x == [pc |-> "start", todo |-> rows]
<1>1. runner' = [runner EXCEPT ![r] = x] /\ UNCHANGED <<clock, action, jobs, dispatcher>>
  BY DEF ReadJobs
<1>2. /\ SchedTyped /\ Follows(jobs, jobs) /\ Len(jobs) \in Nat
      /\ \A i \in 1..Len(jobs) : JobOK(jobs[i]) /\ jobs[i] \in Job
  BY SchedFacts
<1>3. jobs \in Seq(Job)
  BY <1>2 DEF SchedTyped
<1>4. \A i \in rows : i \in 1..Len(jobs) /\ i \in Nat /\ jobs[i].state = "queued"
  BY <1>2 DEF Queued
<1>5. \A i \in rows : jobs[i].runs = 0 /\ jobs[i].calm = FALSE
  BY <1>2, <1>4 DEF JobOK, Job
<1>6. x \in WorkCall /\ x.pc = "start" /\ x.todo = rows
  BY <1>4 DEF WorkCall
<1> HIDE DEF x
<1>7. WorkOK(jobs, x)
  BY <1>4, <1>5, <1>6 DEF WorkOK
<1>8. ASSUME Runner = {r} PROVE SoleOK(jobs, x)
  <2>1. SoleOK(jobs, runner[r])
    BY <1>8 DEF SchedInv
  <2>2. QED
    BY <1>5, <1>6, <2>1 DEF SoleOK
<1>9. \A i \in 1..Len(jobs) : JobOK(jobs[i]) /\ (jobs[i].calm = FALSE => jobs[i].calm = FALSE)
  BY <1>2
<1>10. QED
  BY <1>1, <1>2, <1>3, <1>6, <1>7, <1>8, <1>9, RunnerMoves

\* The job a runner has in its hand.
LEMMA InItsHand ==
  ASSUME SchedInv, NEW r \in Runner, runner[r].pc # "vacant"
  PROVE  /\ Min(runner[r].todo) \in runner[r].todo /\ Min(runner[r].todo) \in 1..Len(jobs)
         /\ jobs[Min(runner[r].todo)] \in Job /\ jobs[Min(runner[r].todo)].calm = FALSE
         /\ runner[r] \in WorkCall /\ WorkOK(jobs, runner[r])
<1>1. WorkOK(jobs, runner[r]) /\ runner[r] \in WorkCall /\ \A i \in 1..Len(jobs) : jobs[i] \in Job
  BY SchedFacts
<1>2. runner[r].todo # {} /\ runner[r].todo \in SUBSET Nat
  BY <1>1 DEF WorkOK, WorkCall
<1>3. Min(runner[r].todo) \in runner[r].todo
  BY <1>2, OldestIs
<1>4. Min(runner[r].todo) \in 1..Len(jobs) /\ jobs[Min(runner[r].todo)].calm = FALSE
  BY <1>1, <1>3 DEF WorkOK
<1>5. QED
  BY <1>1, <1>3, <1>4

\* _run_job() begins: the job in hand was never executed by the only runner.
LEMMA StartJobKeeps ==
  ASSUME SchedInv, NEW r \in Runner, StartJob(r)
  PROVE  SchedInv'
<1> DEFINE i == Min(runner[r].todo)
           n == jobs[i].runs + 1
           j == [jobs[i] EXCEPT !.state = "running", !.runs = n]
           x == [runner[r] EXCEPT !.pc = "execute"]
           J == jobs'
<1>1. /\ runner[r].pc = "start" /\ jobs' = [jobs EXCEPT ![i] = j]
      /\ runner' = [runner EXCEPT ![r] = x] /\ UNCHANGED <<clock, action, dispatcher>>
  BY DEF StartJob
<1>2. /\ i \in runner[r].todo /\ i \in 1..Len(jobs) /\ jobs[i] \in Job /\ jobs[i].calm = FALSE
      /\ runner[r] \in WorkCall /\ WorkOK(jobs, runner[r])
  BY <1>1, InItsHand
<1>3. SchedTyped /\ \A k \in 1..Len(jobs) : JobOK(jobs[k])
  BY SchedFacts
<1>4. jobs \in Seq(Job)
  BY <1>3 DEF SchedTyped
<1>5. x \in WorkCall /\ x.pc = "execute" /\ x.todo = runner[r].todo
  BY <1>2 DEF WorkCall
<1> HIDE DEF i
<1>6. jobs[i].runs \in Nat /\ n \in Nat
  BY <1>2 DEF Job
<1>7. n = jobs[i].runs + 1
  OBVIOUS
<1> HIDE DEF n
<1>8. j \in Job /\ j.state = "running" /\ j.runs = n /\ j.at = jobs[i].at /\ j.calm = jobs[i].calm
  BY <1>2, <1>6 DEF Job
<1> HIDE DEF j, x
<1>10. J = jobs'
  OBVIOUS
<1>upd. J = [jobs EXCEPT ![i] = j]
  BY <1>1
<1> HIDE DEF J
<1>9. /\ J \in Seq(Job) /\ Len(J) = Len(jobs) /\ J[i] = j /\ Follows(jobs, J)
      /\ \A k \in 1..Len(jobs) : k # i => J[k] = jobs[k]
  <2>1. /\ J \in Seq(Job) /\ Len(J) = Len(jobs) /\ J[i] = j
        /\ \A k \in 1..Len(jobs) : k # i => J[k] = jobs[k]
    BY <1>upd, <1>2, <1>4, <1>8, JobChanges
  <2>2. Len(jobs) \in Nat /\ \A k \in 1..Len(jobs) : J[k].at = jobs[k].at
    BY <1>2, <1>4, <1>8, <2>1
  <2>3. QED
    BY <2>1, <2>2 DEF Follows
<1>11. \A k \in 1..Len(J) : JobOK(J[k]) /\ (jobs[k].calm = FALSE => J[k].calm = FALSE)
  BY <1>2, <1>3, <1>8, <1>9 DEF JobOK
<1>12. WorkOK(J, x)
  BY <1>1, <1>2, <1>5, <1>9, <1>11 DEF WorkOK
<1>13. ASSUME Runner = {r} PROVE SoleOK(J, x)
  <2>1. SoleOK(jobs, runner[r])
    BY <1>13 DEF SchedInv
  <2>2. \A k \in runner[r].todo : jobs[k].runs = 0 /\ k \in 1..Len(jobs)
    BY <1>1, <1>2, <2>1 DEF SoleOK, WorkOK
  <2>3. n = 1
    BY <1>2, <1>7, <2>2
  <2>4. \A k \in 1..Len(J) : J[k].runs <= 1
    BY <1>8, <1>9, <2>1, <2>3 DEF SoleOK
  <2>5. \A k \in x.todo : J[k].runs = 0 \/ k = Min(x.todo)
    BY <1>5, <1>9, <2>2 DEF i
  <2>6. QED
    BY <1>5, <2>4, <2>5 DEF SoleOK
<1>14. QED
  BY <1>1, <1>5, <1>9, <1>10, <1>11, <1>12, <1>13, RunnerMoves

\* _run_job() ends: the next of the jobs that were read is in hand.
LEMMA FinishJobKeeps ==
  ASSUME SchedInv, NEW r \in Runner, NEW outcome \in {"completed", "failed"}, FinishJob(r, outcome)
  PROVE  SchedInv'
<1> DEFINE i == Min(runner[r].todo)
           j == [jobs[i] EXCEPT !.state = outcome]
           left == runner[r].todo \ {i}
           x == IF runner[r].todo = {i} THEN Unoccupied ELSE [pc |-> "start", todo |-> left]
           J == jobs'
<1>1. /\ runner[r].pc = "execute" /\ jobs' = [jobs EXCEPT ![i] = j]
      /\ runner' = [runner EXCEPT ![r] = x] /\ UNCHANGED <<clock, action, dispatcher>>
  BY DEF FinishJob
<1>2. /\ i \in runner[r].todo /\ i \in 1..Len(jobs) /\ jobs[i] \in Job /\ jobs[i].calm = FALSE
      /\ runner[r] \in WorkCall /\ WorkOK(jobs, runner[r])
  BY <1>1, InItsHand
<1>3. SchedTyped /\ \A k \in 1..Len(jobs) : JobOK(jobs[k])
  BY SchedFacts
<1>4. jobs \in Seq(Job)
  BY <1>3 DEF SchedTyped
<1>5. x \in WorkCall /\ (x.pc # "vacant" => x.todo # {}) /\ x.todo \subseteq left
  <2>1. CASE runner[r].todo = {i}
    BY <2>1, UnoccupiedIs DEF WorkOK
  <2>2. CASE runner[r].todo # {i}
    <3>1. x = [pc |-> "start", todo |-> left] /\ left # {}
      BY <1>2, <2>2
    <3>2. left \in SUBSET Nat
      BY <1>2 DEF WorkCall
    <3> HIDE DEF x, left
    <3>3. QED
      BY <3>1, <3>2 DEF WorkCall
  <2>3. QED
    BY <2>1, <2>2
<1>6. \A k \in x.todo : k \in runner[r].todo /\ k # i
  BY <1>5
<1> HIDE DEF i, left, x
<1>7. j \in Job /\ j.state = outcome /\ j.runs = jobs[i].runs /\ j.at = jobs[i].at /\ j.calm = jobs[i].calm
  BY <1>2 DEF Job
<1> HIDE DEF j
<1>9. J = jobs'
  OBVIOUS
<1>upd. J = [jobs EXCEPT ![i] = j]
  BY <1>1
<1> HIDE DEF J
<1>8. /\ J \in Seq(Job) /\ Len(J) = Len(jobs) /\ J[i] = j /\ Follows(jobs, J)
      /\ \A k \in 1..Len(jobs) : k # i => J[k] = jobs[k]
  <2>1. /\ J \in Seq(Job) /\ Len(J) = Len(jobs) /\ J[i] = j
        /\ \A k \in 1..Len(jobs) : k # i => J[k] = jobs[k]
    BY <1>upd, <1>2, <1>4, <1>7, JobChanges
  <2>2. Len(jobs) \in Nat /\ \A k \in 1..Len(jobs) : J[k].at = jobs[k].at
    BY <1>2, <1>4, <1>7, <2>1
  <2>3. QED
    BY <2>1, <2>2 DEF Follows
<1>10. \A k \in 1..Len(J) : JobOK(J[k]) /\ (jobs[k].calm = FALSE => J[k].calm = FALSE)
  BY <1>2, <1>3, <1>7, <1>8 DEF JobOK
<1>11. WorkOK(J, x)
  BY <1>2, <1>5, <1>6, <1>8, <1>10 DEF WorkOK
<1>12. ASSUME Runner = {r} PROVE SoleOK(J, x)
  <2>1. SoleOK(jobs, runner[r])
    BY <1>12 DEF SchedInv
  <2>2. \A k \in x.todo : jobs[k].runs = 0 /\ k \in 1..Len(jobs)
    BY <1>2, <1>6, <2>1 DEF SoleOK, WorkOK, i
  <2>3. \A k \in 1..Len(J) : J[k].runs <= 1
    BY <1>7, <1>8, <2>1 DEF SoleOK
  <2>4. \A k \in x.todo : J[k].runs = 0
    BY <1>6, <1>8, <2>2
  <2>5. QED
    BY <2>3, <2>4 DEF SoleOK
<1>13. QED
  BY <1>1, <1>5, <1>8, <1>9, <1>10, <1>11, <1>12, RunnerMoves

\* A runner dies.
LEMMA RunnerDiesKeeps ==
  ASSUME SchedInv, NEW r \in Runner, RunnerDies(r)
  PROVE  SchedInv'
<1>1. runner' = [runner EXCEPT ![r] = Unoccupied] /\ UNCHANGED <<clock, action, jobs, dispatcher>>
  BY DEF RunnerDies
<1>2. SchedTyped /\ Follows(jobs, jobs) /\ \A i \in 1..Len(jobs) : JobOK(jobs[i])
  BY SchedFacts
<1>3. jobs \in Seq(Job)
  BY <1>2 DEF SchedTyped
<1>4. Runner = {r} => SoleOK(jobs, Unoccupied)
  BY UnoccupiedIs DEF SchedInv, SoleOK
<1>5. \A i \in 1..Len(jobs) : JobOK(jobs[i]) /\ (jobs[i].calm = FALSE => jobs[i].calm = FALSE)
  BY <1>2
<1>6. Unoccupied \in WorkCall /\ WorkOK(jobs, Unoccupied)
  BY UnoccupiedIs
<1>7. QED
  BY <1>1, <1>2, <1>3, <1>4, <1>5, <1>6, RunnerMoves

\* cancel_job(): a queued job that nobody has read is cancelled for good.
LEMMA CancelJobKeeps ==
  ASSUME SchedInv, NEW i \in 1..Len(jobs), CancelJob(i)
  PROVE  SchedInv'
<1> DEFINE calm == \A r \in Runner : i \notin runner[r].todo
           j == [jobs[i] EXCEPT !.state = "cancelled", !.calm = calm]
           J == jobs'
<1>1. jobs[i].state = "queued" /\ jobs' = [jobs EXCEPT ![i] = j] /\ UNCHANGED <<clock, action, dispatcher, runner>>
  BY DEF CancelJob, Cancellable
<1>2. /\ SchedTyped /\ ActionOK(jobs, action) /\ Len(jobs) + Cardinality(Enqueueing) <= MaxJobs
      /\ \A k \in 1..Len(jobs) : JobOK(jobs[k]) /\ jobs[k] \in Job
      /\ \A d \in Dispatcher : DispatchOK(jobs, action.interval, dispatcher[d])
      /\ \A r \in Runner : WorkOK(jobs, runner[r])
  BY SchedFacts
<1>3. jobs \in Seq(Job) /\ jobs[i] \in Job /\ jobs[i].runs = 0
  BY <1>1, <1>2 DEF SchedTyped, JobOK
<1>4. calm \in BOOLEAN
  OBVIOUS
<1>5. ASSUME NEW r \in Runner, i \in runner[r].todo PROVE calm = FALSE
  BY <1>5
<1> HIDE DEF calm
<1>6. j \in Job /\ j.state = "cancelled" /\ j.calm = calm /\ j.runs = 0 /\ j.at = jobs[i].at
  BY <1>3, <1>4 DEF Job
<1> HIDE DEF j
<1>8. J = jobs'
  OBVIOUS
<1>upd. J = [jobs EXCEPT ![i] = j]
  BY <1>1
<1> HIDE DEF J
<1>7. /\ J \in Seq(Job) /\ Len(J) = Len(jobs) /\ J[i] = j /\ Follows(jobs, J)
      /\ \A k \in 1..Len(jobs) : k # i => J[k] = jobs[k]
  <2>1. /\ J \in Seq(Job) /\ Len(J) = Len(jobs) /\ J[i] = j
        /\ \A k \in 1..Len(jobs) : k # i => J[k] = jobs[k]
    BY <1>upd, <1>3, <1>6, JobChanges
  <2>2. Len(jobs) \in Nat /\ \A k \in 1..Len(jobs) : J[k].at = jobs[k].at
    BY <1>3, <1>6, <2>1
  <2>3. QED
    BY <2>1, <2>2 DEF Follows
<1>9. \A k \in 1..Len(J) : JobOK(J[k]) /\ J[k].runs = jobs[k].runs
  BY <1>2, <1>3, <1>6, <1>7 DEF JobOK
<1>10. ASSUME NEW r \in Runner PROVE WorkOK(J, runner[r])
  <2>1. WorkOK(jobs, runner[r])
    BY <1>2
  <2>2. \A k \in runner[r].todo : k \in 1..Len(J) /\ J[k].calm = FALSE
    BY <1>5, <1>6, <1>7, <2>1 DEF WorkOK
  <2>3. QED
    BY <2>1, <2>2 DEF WorkOK
<1>11. ASSUME NEW r \in Runner, Runner = {r} PROVE SoleOK(J, runner[r])
  <2>1. SoleOK(jobs, runner[r])
    BY <1>11 DEF SchedInv
  <2>2. \A k \in runner[r].todo : k \in 1..Len(J)
    BY <1>10 DEF WorkOK
  <2>3. QED
    BY <1>7, <1>9, <2>1, <2>2 DEF SoleOK
<1>12. ActionOK(J, action) /\ \A d \in Dispatcher : DispatchOK(J, action.interval, dispatcher[d])
  BY <1>2, <1>3, <1>7, JobsStay
<1>13. SchedTyped'
  BY <1>1, <1>2, <1>7, <1>8 DEF SchedTyped
<1>14. (Len(jobs) + Cardinality(Enqueueing) <= MaxJobs)'
  BY <1>1, <1>2, <1>7, <1>8 DEF Enqueueing
<1>15. ActionOK(jobs, action)'
  BY <1>1, <1>8, <1>12 DEF ActionOK, Reached, Has
<1>16. \A d \in Dispatcher : DispatchOK(jobs, action.interval, dispatcher[d])'
  BY <1>1, <1>8, <1>12 DEF DispatchOK, Reached, Has
<1>17. \A k \in 1..Len(jobs') : JobOK(jobs[k])'
  BY <1>8, <1>9 DEF JobOK
<1>18. \A r \in Runner : WorkOK(jobs, runner[r])'
  BY <1>1, <1>8, <1>10 DEF WorkOK
<1>19. \A r \in Runner : Runner = {r} => SoleOK(jobs, runner[r])'
  BY <1>1, <1>8, <1>11 DEF SoleOK
<1>20. QED
  BY <1>13, <1>14, <1>15, <1>16, <1>17, <1>18, <1>19 DEF SchedInv

\* Steps that touch neither jobs nor threads.
LEMMA OthersKeep ==
  ASSUME SchedInv, UNCHANGED <<jobs, dispatcher, runner>>, clock' \in 0..MaxTime,
         action' \in ActionRow, action'.interval = action.interval, ActionOK(jobs, action')
  PROVE  SchedInv'
<1>1. SchedTyped'
  BY DEF SchedInv, SchedTyped
<1>2. (Len(jobs) + Cardinality(Enqueueing) <= MaxJobs)'
  BY DEF SchedInv, Enqueueing
<1>3. ActionOK(jobs, action)'
  BY DEF ActionOK, Reached, Has
<1>4. \A d \in Dispatcher : DispatchOK(jobs, action.interval, dispatcher[d])'
  BY DEF SchedInv, DispatchOK, Reached, Has
<1>5. \A k \in 1..Len(jobs') : JobOK(jobs[k])'
  BY DEF SchedInv, JobOK
<1>6. /\ \A r \in Runner : WorkOK(jobs, runner[r])'
      /\ \A r \in Runner : Runner = {r} => SoleOK(jobs, runner[r])'
  BY DEF SchedInv, WorkOK, SoleOK
<1>7. QED
  BY <1>1, <1>2, <1>3, <1>4, <1>5, <1>6 DEF SchedInv

\* Every step of users, dispatchers and runners.
LEMMA SchedStep == SchedInv /\ [SchedNext]_schedVars => SchedInv'
<1> SUFFICES ASSUME SchedInv, [SchedNext]_schedVars PROVE SchedInv'
  OBVIOUS
<1>1. clock \in 0..MaxTime /\ MaxTime \in Nat /\ action \in ActionRow /\ ActionOK(jobs, action)
  BY SchedulingAssumption DEF SchedInv, SchedTyped
<1>2. CASE Tick
  BY <1>1, <1>2, OthersKeep DEF Tick
<1>3. CASE WithdrawAction
  <2>1. /\ action' = [action EXCEPT !.life = "ARCHIVED", !.withdrawn = TRUE]
        /\ UNCHANGED <<clock, jobs, dispatcher, runner>>
    BY <1>3 DEF WithdrawAction
  <2>2. /\ action' \in ActionRow /\ action'.interval = action.interval /\ action'.next = action.next
        /\ action'.withdrawn = TRUE
    BY <1>1, <2>1 DEF ActionRow
  <2>3. ActionOK(jobs, action')
    BY <1>1, <2>2 DEF ActionOK
  <2>4. QED
    BY <1>1, <2>1, <2>2, <2>3, OthersKeep
<1>4. ASSUME NEW r \in Runner, RunNext(r) \/ RunAll(r) PROVE SchedInv'
  <2>1. Queued # {} /\ Queued \in SUBSET Nat
    BY <1>4 DEF RunNext, RunAll, ReadJobs, Queued
  <2>2. Min(Queued) \in Queued
    BY <2>1, OldestIs
  <2>3. {Min(Queued)} \in SUBSET Queued /\ {Min(Queued)} # {}
    BY <2>2
  <2>4. QED
    BY <1>4, <2>1, <2>3, ReadJobsKeeps DEF RunNext, RunAll
<1>5. CASE UNCHANGED schedVars
  BY <1>1, <1>5, OthersKeep DEF schedVars
<1>6. QED
  BY <1>2, <1>3, <1>4, <1>5, DispatchReadsKeeps, DispatchEnqueuesKeeps, DispatchAdvancesKeeps, DispatcherDiesKeeps,
     StartJobKeeps, FinishJobKeeps, RunnerDiesKeeps, CancelJobKeeps DEF SchedNext, Dispatch, Work

\* The first occurrence has none before it.
LEMMA SchedStart == SchedInit => SchedInv
<1> SUFFICES ASSUME SchedInit PROVE SchedInv
  OBVIOUS
<1>1. MaxTime \in Nat /\ MaxJobs \in Nat /\ Intervals \subseteq Nat
  BY SchedulingAssumption
<1>2. PICK n \in Intervals : action = [life |-> "ACTIVE", next |-> 1, interval |-> n, withdrawn |-> FALSE]
  BY DEF SchedInit
<1>3. action \in ActionRow /\ action.next = 1 /\ action.interval = n /\ n \in Nat /\ action.life = "ACTIVE"
  BY <1>1, <1>2 DEF ActionRow
<1>4. Reached(jobs, n, 1)
  <2>1. n > 0 => 0 % n = 0
    BY <1>3, NoMultiple
  <2>2. QED
    BY <2>1 DEF Reached
<1>5. ActionOK(jobs, action)
  BY <1>3, <1>4 DEF ActionOK
<1>6. jobs \in Seq(Job) /\ Len(jobs) = 0 /\ 1..Len(jobs) = {}
  <2>1. jobs = <<>>
    BY DEF SchedInit
  <2>2. Len(jobs) = 0
    BY <2>1
  <2>3. QED
    BY <2>1, <2>2
<1>7. \A d \in Dispatcher : dispatcher[d] = Vacant
  BY DEF SchedInit
<1>8. dispatcher \in [Dispatcher -> DispatchCall] /\ runner \in [Runner -> WorkCall]
  BY VacantIs, UnoccupiedIs DEF SchedInit
<1>9. SchedTyped
  BY <1>1, <1>3, <1>6, <1>8 DEF SchedTyped, SchedInit
<1>10. Len(jobs) + Cardinality(Enqueueing) <= MaxJobs
  <2>1. Enqueueing = {}
    BY <1>7, VacantIs DEF Enqueueing
  <2>2. Cardinality(Enqueueing) = 0
    BY <2>1, FS_EmptySet
  <2>3. QED
    BY <1>1, <1>6, <2>2
<1>11. \A d \in Dispatcher : DispatchOK(jobs, action.interval, dispatcher[d])
  BY <1>7, VacantIs
<1>12. \A r \in Runner : WorkOK(jobs, runner[r]) /\ SoleOK(jobs, runner[r])
  <2>1. \A r \in Runner : runner[r] = Unoccupied
    BY DEF SchedInit
  <2>2. QED
    BY <1>6, <2>1, UnoccupiedIs DEF SoleOK
<1>13. \A i \in 1..Len(jobs) : JobOK(jobs[i])
  BY <1>6
<1>14. QED
  BY <1>5, <1>9, <1>10, <1>11, <1>12, <1>13 DEF SchedInv

\* What it says of occurrences and of jobs.
LEMMA SchedHolds == SchedInv => SchedTypeOK /\ NoOccurrenceLost /\ RunsOnce
<1> SUFFICES ASSUME SchedInv PROVE SchedTypeOK /\ NoOccurrenceLost /\ RunsOnce
  OBVIOUS
<1>1. /\ SchedTyped /\ Len(jobs) \in Nat /\ MaxJobs \in Nat /\ ActionOK(jobs, action)
      /\ Len(jobs) + Cardinality(Enqueueing) <= MaxJobs
      /\ \A i \in 1..Len(jobs) : JobOK(jobs[i]) /\ jobs[i] \in Job
      /\ \A r \in Runner : WorkOK(jobs, runner[r]) /\ runner[r] \in WorkCall
  BY SchedFacts
<1>2. action \in ActionRow /\ clock \in 0..MaxTime /\ MaxTime \in Nat
  BY <1>1, SchedulingAssumption DEF SchedTyped
<1>3. SchedTypeOK
  <2>1. Cardinality(Enqueueing) \in Nat
    BY SchedulingAssumption, FS_Subset, FS_CardinalityType DEF Enqueueing
  <2>2. Len(jobs) <= MaxJobs
    BY <1>1, <2>1
  <2>3. QED
    BY <1>1, <1>2, <2>2 DEF SchedTypeOK, ActionRow, Job, WorkOK
<1>4. NoOccurrenceLost
  <2>1. ASSUME action.interval > 0, NEW t \in 1..MaxTime, t < action.next, (t - 1) % action.interval = 0
        PROVE  HasJob(t)
    <3>1. t \in Nat /\ t >= 1
      BY <1>2
    <3>2. Has(jobs, t)
      BY <1>1, <2>1, <3>1 DEF ActionOK, Reached
    <3>3. QED
      BY <3>2 DEF Has, HasJob
  <2>2. ASSUME action.life = "ARCHIVED", ~action.withdrawn PROVE HasJob(action.next)
    <3>1. action.withdrawn = FALSE
      BY <1>2, <2>2 DEF ActionRow
    <3>2. Has(jobs, action.next)
      BY <1>1, <2>2, <3>1 DEF ActionOK
    <3>3. QED
      BY <3>2 DEF Has, HasJob
  <2>3. QED
    BY <2>1, <2>2 DEF NoOccurrenceLost
<1>5. ASSUME Cardinality(Runner) = 1, NEW i \in 1..Len(jobs)
      PROVE  jobs[i].runs <= 1 /\ (jobs[i].calm => jobs[i].runs = 0)
  <2>1. PICK r : Runner = {r}
    BY <1>5, FS_Singleton, SchedulingAssumption
  <2>2. SoleOK(jobs, runner[r])
    BY <2>1 DEF SchedInv
  <2>3. jobs[i].runs <= 1
    BY <2>2 DEF SoleOK
  <2>4. ASSUME jobs[i].calm PROVE jobs[i].runs = 0
    <3>1. jobs[i].calm = TRUE
      BY <1>1, <2>4 DEF Job
    <3>2. QED
      BY <1>1, <3>1 DEF JobOK
  <2>5. QED
    BY <2>3, <2>4
<1>6. QED
  BY <1>3, <1>4, <1>5 DEF RunsOnce

-----------------------------------------------------------------------------
(* Event deliveries.                                                       *)

Delivery ==
  [sub : Subscription, status : {"pending", "retrying", "delivered", "failed"},
   attempt : Nat, posts : Nat, received : BOOLEAN]
RowRead == [row : Nat, attempt : Nat]
Duty ==
  [pc : {"off", "post", "record", "mark", "repost", "rerecord"}, todo : SUBSET RowRead,
   answer : {"none", "ok", "refused", "lost", "late"}]

\* Of the rows that were read, the one in hand.
Foremost(rows) == CHOOSE r \in rows : \A s \in rows : r.row <= s.row

\* A courier k has a row in hand, and where its post was answered, that
\* delivery of D was received.
CourierOK(k, D) ==
  /\ k.pc # "off" => k.todo # {}
  /\ \A r \in k.todo : r.row \in 1..Len(D)
  /\ k.pc \in {"record", "rerecord"} /\ k.answer = "ok" => D[Foremost(k.todo).row].received

\* What is recorded as delivered was received, and what is pending was never
\* attempted.
RowOK(d) == (d.status = "delivered" => d.received) /\ (d.status = "pending" => d.attempt = 0)

\* The only courier k has read what the rows of D still say, and every post but
\* those n deaths explain, and the one to be recorded next, is recorded.
Alone(k, D, n) ==
  /\ \A r \in k.todo : r.attempt = D[r.row].attempt /\ r.attempt < MaxRetries
  /\ \A r, s \in k.todo : r.row = s.row => r = s
  /\ \A i \in 1..Len(D) :
       /\ D[i].attempt <= MaxRetries
       /\ \/ D[i].posts <= D[i].attempt + n
          \/ /\ k.pc \in {"record", "rerecord"} /\ Foremost(k.todo).row = i
             /\ D[i].posts <= D[i].attempt + n + 1

EventInv ==
  /\ subscribed \subseteq Subscription
  /\ events \in 0..MaxEvents
  /\ emitting \in [pc : {"idle", "match", "queue"}, todo : SUBSET Subscription]
  /\ casualties \in Nat
  /\ deliveries \in Seq(Delivery)
  /\ courier \in [Courier -> Duty]
  /\ \A c \in Courier : CourierOK(courier[c], deliveries)
  /\ \A i \in 1..Len(deliveries) : RowOK(deliveries[i])
  /\ \A c \in Courier : Courier = {c} => Alone(courier[c], deliveries, casualties)

\* A courier that has rows has one in hand.
LEMMA ForemostIs ==
  ASSUME NEW rows \in SUBSET RowRead, rows # {}
  PROVE  Foremost(rows) \in rows
<1> DEFINE S == {r.row : r \in rows}
<1>1. S \in SUBSET Nat /\ S # {}
  BY DEF RowRead
<1>2. PICK m \in S : \A n \in S : m <= n
  BY <1>1, LeastNatural
<1>3. PICK r \in rows : r.row = m
  OBVIOUS
<1>4. \A s \in rows : r.row <= s.row
  BY <1>2, <1>3
<1>5. QED
  BY <1>4 DEF Foremost

\* An UPDATE of one row.
LEMMA RowChanges ==
  ASSUME NEW D \in Seq(Delivery), NEW i \in 1..Len(D), NEW x \in Delivery, NEW D2, D2 = [D EXCEPT ![i] = x]
  PROVE  /\ D2 \in Seq(Delivery) /\ Len(D2) = Len(D) /\ D2[i] = x
         /\ \A j \in 1..Len(D) : j # i => D2[j] = D[j]
BY ExceptSeq

\* A courier goes on with what its rows leave valid while the others look on.
LEMMA CourierMoves ==
  ASSUME EventInv, NEW c \in Courier, NEW k \in Duty, NEW D \in Seq(Delivery),
         courier' = [courier EXCEPT ![c] = k], deliveries' = D, Len(D) = Len(deliveries),
         UNCHANGED <<subscribed, events, emitting>>, casualties' \in Nat,
         \A i \in 1..Len(D) : RowOK(D[i]) /\ (deliveries[i].received => D[i].received),
         CourierOK(k, D), Courier = {c} => Alone(k, D, casualties')
  PROVE  EventInv'
<1>1. courier' \in [Courier -> Duty] /\ courier'[c] = k /\ \A d \in Courier \ {c} : courier'[d] = courier[d]
  BY DEF EventInv
<1>2. ASSUME NEW d \in Courier PROVE CourierOK(courier'[d], D)
  <2>1. CASE d = c
    BY <1>1, <2>1
  <2>2. CASE d # c
    <3> DEFINE l == courier[d]
    <3>1. CourierOK(l, deliveries) /\ l \in Duty /\ courier'[d] = l
      BY <1>1, <2>2 DEF EventInv
    <3>2. l.pc \in {"record", "rerecord"} => Foremost(l.todo).row \in 1..Len(deliveries)
      <4> SUFFICES ASSUME l.pc \in {"record", "rerecord"} PROVE Foremost(l.todo).row \in 1..Len(deliveries)
        OBVIOUS
      <4>1. l.todo # {} /\ l.todo \in SUBSET RowRead
        BY <3>1 DEF CourierOK, Duty
      <4>2. Foremost(l.todo) \in l.todo
        BY <4>1, ForemostIs
      <4>3. QED
        BY <3>1, <4>2 DEF CourierOK
    <3> HIDE DEF l
    <3>3. CourierOK(l, D)
      BY <3>1, <3>2 DEF CourierOK
    <3>4. QED
      BY <3>1, <3>3
  <2>3. QED
    BY <2>1, <2>2
<1>3. \A d \in Courier : Courier = {d} => Alone(courier'[d], D, casualties')
  BY <1>1
<1>4. /\ \A d \in Courier : CourierOK(courier[d], deliveries)'
      /\ \A d \in Courier : Courier = {d} => Alone(courier[d], deliveries, casualties)'
      /\ \A i \in 1..Len(deliveries') : RowOK(deliveries[i])'
  BY <1>2, <1>3 DEF CourierOK, Alone, RowOK
<1>5. QED
  BY <1>1, <1>4 DEF EventInv

\* The end of a courier's round, or of the courier.
LEMMA OffDutyIs == OffDuty \in Duty /\ OffDuty.pc = "off" /\ OffDuty.todo = {}
BY DEF OffDuty, Duty

\* A SELECT: the rows that are pending, or that retry_failed() may take.
LEMMA ReadRowsKeeps ==
  ASSUME EventInv, NEW c \in Courier, NEW rows \in SUBSET (1..Len(deliveries)), NEW pc \in {"post", "mark"},
         \A i \in rows : deliveries[i].attempt < MaxRetries, ReadRows(c, rows, pc)
  PROVE  EventInv'
<1> DEFINE todo == {[row |-> i, attempt |-> deliveries[i].attempt] : i \in rows}
           k == [pc |-> pc, todo |-> todo, answer |-> "none"]
<1>1. /\ courier[c].pc = "off" /\ rows # {} /\ courier' = [courier EXCEPT ![c] = k]
      /\ UNCHANGED <<subscribed, events, emitting, deliveries, casualties>>
  BY DEF ReadRows
<1>2. /\ deliveries \in Seq(Delivery) /\ \A i \in rows : deliveries[i] \in Delivery /\ i \in 1..Len(deliveries) /\ i \in Nat
      /\ casualties \in Nat
  BY DEF EventInv
<1>3. ASSUME NEW r \in todo
      PROVE  /\ r \in RowRead /\ r.row \in 1..Len(deliveries)
             /\ r.attempt = deliveries[r.row].attempt /\ r.attempt < MaxRetries
  <2>1. PICK i \in rows : r = [row |-> i, attempt |-> deliveries[i].attempt]
    OBVIOUS
  <2>2. deliveries[i].attempt \in Nat
    BY <1>2 DEF Delivery
  <2>3. QED
    BY <1>2, <2>1, <2>2 DEF RowRead
<1>4. \A r, s \in todo : r.row = s.row => r = s
  OBVIOUS
<1>5. todo # {}
  BY <1>1
<1> HIDE DEF todo
<1>6. k \in Duty /\ k.pc \in {"post", "mark"} /\ k.todo = todo
  BY <1>3 DEF Duty
<1> HIDE DEF k
<1>7. CourierOK(k, deliveries)
  BY <1>3, <1>5, <1>6 DEF CourierOK
<1>8. ASSUME Courier = {c} PROVE Alone(k, deliveries, casualties)
  <2>1. Alone(courier[c], deliveries, casualties)
    BY <1>8 DEF EventInv
  <2>2. QED
    BY <1>1, <1>3, <1>4, <1>6, <2>1 DEF Alone
<1>9. \A i \in 1..Len(deliveries) : RowOK(deliveries[i])
  BY DEF EventInv
<1>10. QED
  BY <1>1, <1>2, <1>6, <1>7, <1>8, <1>9, CourierMoves

\* What is known of a courier that is at work, and of the row in its hand.
LEMMA AtWork ==
  ASSUME EventInv, NEW c \in Courier, courier[c].pc # "off"
  PROVE  /\ courier[c] \in Duty /\ deliveries \in Seq(Delivery) /\ casualties \in Nat
         /\ InHand(c) = Foremost(courier[c].todo)
         /\ InHand(c) \in courier[c].todo /\ InHand(c) \in RowRead
         /\ InHand(c).row \in 1..Len(deliveries) /\ deliveries[InHand(c).row] \in Delivery
         /\ RowOK(deliveries[InHand(c).row])
<1>1. courier[c] \in Duty /\ deliveries \in Seq(Delivery) /\ casualties \in Nat /\ CourierOK(courier[c], deliveries)
  BY DEF EventInv
<1>2. courier[c].todo \in SUBSET RowRead /\ courier[c].todo # {}
  BY <1>1 DEF Duty, CourierOK
<1>3. InHand(c) = Foremost(courier[c].todo)
  BY DEF InHand, Foremost
<1>4. InHand(c) \in courier[c].todo
  BY <1>2, <1>3, ForemostIs
<1>5. InHand(c).row \in 1..Len(deliveries)
  BY <1>1, <1>4 DEF CourierOK
<1>6. deliveries[InHand(c).row] \in Delivery /\ RowOK(deliveries[InHand(c).row])
  BY <1>1, <1>5 DEF EventInv
<1>7. QED
  BY <1>1, <1>2, <1>3, <1>4, <1>5, <1>6

\* retry_failed() marks a row.
LEMMA MarkRetryingKeeps ==
  ASSUME EventInv, NEW c \in Courier, MarkRetrying(c)
  PROVE  EventInv'
<1> DEFINE i == InHand(c).row
           x == [deliveries[i] EXCEPT !.status = "retrying"]
           k == [courier[c] EXCEPT !.pc = "repost"]
           D == deliveries'
<1>1. /\ courier[c].pc = "mark" /\ courier' = [courier EXCEPT ![c] = k]
      /\ deliveries' = [deliveries EXCEPT ![i] = x]
      /\ UNCHANGED <<subscribed, events, emitting, casualties>>
  BY DEF MarkRetrying
<1>2. /\ courier[c] \in Duty /\ deliveries \in Seq(Delivery) /\ casualties \in Nat
      /\ i \in 1..Len(deliveries) /\ deliveries[i] \in Delivery
  BY <1>1, AtWork
<1>3. CourierOK(courier[c], deliveries) /\ \A j \in 1..Len(deliveries) : RowOK(deliveries[j])
  BY DEF EventInv
<1> HIDE DEF i
<1>4. /\ x \in Delivery /\ x.status = "retrying" /\ x.attempt = deliveries[i].attempt
      /\ x.posts = deliveries[i].posts /\ x.received = deliveries[i].received
  BY <1>2 DEF Delivery
<1>5. k \in Duty /\ k.pc = "repost" /\ k.todo = courier[c].todo
  BY <1>2 DEF Duty
<1> HIDE DEF x, k
<1>6. /\ D \in Seq(Delivery) /\ Len(D) = Len(deliveries) /\ D[i] = x
      /\ \A j \in 1..Len(deliveries) : j # i => D[j] = deliveries[j]
  BY <1>1, <1>2, <1>4, RowChanges
<1> HIDE DEF D
<1>7. \A j \in 1..Len(D) : /\ D[j].attempt = deliveries[j].attempt /\ D[j].posts = deliveries[j].posts
                           /\ D[j].received = deliveries[j].received
                           /\ D[j].status = deliveries[j].status \/ D[j].status = "retrying"
  BY <1>4, <1>6
<1>8. \A j \in 1..Len(D) : RowOK(D[j]) /\ (deliveries[j].received => D[j].received)
  BY <1>3, <1>6, <1>7 DEF RowOK
<1>9. CourierOK(k, D)
  BY <1>1, <1>3, <1>5, <1>6 DEF CourierOK
<1>10. ASSUME Courier = {c} PROVE Alone(k, D, casualties)
  <2>1. Alone(courier[c], deliveries, casualties)
    BY <1>10 DEF EventInv
  <2>2. \A r \in courier[c].todo : r.row \in 1..Len(D)
    BY <1>3, <1>6 DEF CourierOK
  <2>3. QED
    BY <1>1, <1>5, <1>6, <1>7, <2>1, <2>2 DEF Alone
<1>11. D = deliveries'
  BY DEF D
<1>12. QED
  BY <1>1, <1>2, <1>5, <1>6, <1>8, <1>9, <1>10, <1>11, CourierMoves

\* A row that was posted.
LEMMA RowPosted ==
  ASSUME NEW d \in Delivery, NEW got \in BOOLEAN
  PROVE  LET x == [d EXCEPT !.posts = d.posts + 1, !.received = got]
         IN  x \in Delivery /\ x.status = d.status /\ x.attempt = d.attempt
<1> DEFINE n == d.posts + 1
           x == [d EXCEPT !.posts = n, !.received = got]
<1>1. d.posts \in Nat /\ n \in Nat
  BY DEF Delivery
<1> HIDE DEF n
<1>2. x \in Delivery /\ x.status = d.status /\ x.attempt = d.attempt
  BY <1>1 DEF Delivery
<1>3. QED
  BY <1>2 DEF n

\* A post: the row in hand was asked for once more, and may have been received.
LEMMA PostKeeps ==
  ASSUME EventInv, NEW c \in Courier, NEW a \in {"ok", "refused", "lost", "late"}, Post(c, a)
  PROVE  EventInv'
<1> DEFINE i == InHand(c).row
           got == deliveries[i].received \/ a \in {"ok", "late"}
           x == [deliveries[i] EXCEPT !.posts = @ + 1, !.received = got]
           k == [courier[c] EXCEPT !.answer = a, !.pc = IF @ = "post" THEN "record" ELSE "rerecord"]
           D == deliveries'
<1>1. /\ courier[c].pc \in {"post", "repost"} /\ courier' = [courier EXCEPT ![c] = k]
      /\ deliveries' = [deliveries EXCEPT ![i] = x]
      /\ UNCHANGED <<subscribed, events, emitting, casualties>>
  BY DEF Post
<1>2. /\ courier[c] \in Duty /\ deliveries \in Seq(Delivery) /\ casualties \in Nat
      /\ i \in 1..Len(deliveries) /\ deliveries[i] \in Delivery /\ i = Foremost(courier[c].todo).row
  BY <1>1, AtWork
<1>3. CourierOK(courier[c], deliveries) /\ \A j \in 1..Len(deliveries) : RowOK(deliveries[j])
  BY DEF EventInv
<1> HIDE DEF i
<1>got. got \in BOOLEAN /\ (deliveries[i].received => got) /\ (a = "ok" => got)
  OBVIOUS
<1> HIDE DEF got
<1>4. /\ x \in Delivery /\ x.status = deliveries[i].status /\ x.attempt = deliveries[i].attempt
      /\ x.posts = deliveries[i].posts + 1
      /\ deliveries[i].received => x.received
      /\ a = "ok" => x.received
  <2>1. x \in Delivery /\ x.status = deliveries[i].status /\ x.attempt = deliveries[i].attempt
    BY <1>2, <1>got, RowPosted
  <2>2. x.posts = deliveries[i].posts + 1 /\ x.received = got
    BY <1>2 DEF Delivery
  <2>3. QED
    BY <1>got, <2>1, <2>2, Zenon
<1>5. k \in Duty /\ k.pc \in {"record", "rerecord"} /\ k.todo = courier[c].todo /\ k.answer = a
  BY <1>2 DEF Duty
<1> HIDE DEF x, k
<1>6. /\ D \in Seq(Delivery) /\ Len(D) = Len(deliveries) /\ D[i] = x
      /\ \A j \in 1..Len(deliveries) : j # i => D[j] = deliveries[j]
  BY <1>1, <1>2, <1>4, RowChanges
<1> HIDE DEF D
<1>7. \A j \in 1..Len(D) : /\ D[j].attempt = deliveries[j].attempt /\ D[j].status = deliveries[j].status
                           /\ deliveries[j].received => D[j].received
  BY <1>4, <1>6
<1>8. \A j \in 1..Len(D) : RowOK(D[j]) /\ (deliveries[j].received => D[j].received)
  BY <1>3, <1>6, <1>7 DEF RowOK
<1>9. CourierOK(k, D)
  BY <1>1, <1>2, <1>3, <1>4, <1>5, <1>6 DEF CourierOK
<1>10. ASSUME Courier = {c} PROVE Alone(k, D, casualties)
  <2>1. Alone(courier[c], deliveries, casualties)
    BY <1>10 DEF EventInv
  <2>2. \A r \in courier[c].todo : r.row \in 1..Len(D)
    BY <1>3, <1>6 DEF CourierOK
  <2>3. ASSUME NEW j \in 1..Len(D)
        PROVE  /\ D[j].attempt <= MaxRetries
               /\ \/ D[j].posts <= D[j].attempt + casualties
                  \/ i = j /\ D[j].posts <= D[j].attempt + casualties + 1
    <3>1. deliveries[j] \in Delivery /\ D[j].attempt = deliveries[j].attempt
      BY <1>2, <1>6, <1>7
    <3>2. deliveries[j].attempt \in Nat /\ deliveries[j].posts \in Nat
      BY <3>1 DEF Delivery
    <3>3. deliveries[j].attempt <= MaxRetries /\ deliveries[j].posts <= deliveries[j].attempt + casualties
      BY <1>1, <1>6, <2>1 DEF Alone
    <3>4. CASE j = i
      <4>1. D[j].posts = deliveries[j].posts + 1
        BY <1>4, <1>6, <3>4
      <4>2. QED
        BY <1>2, <3>1, <3>2, <3>3, <3>4, <4>1
    <3>5. CASE j # i
      BY <1>6, <3>1, <3>3, <3>5
    <3>6. QED
      BY <3>4, <3>5
  <2>4. QED
    BY <1>2, <1>5, <1>7, <2>1, <2>2, <2>3 DEF Alone
<1>11. D = deliveries'
  BY DEF D
<1>12. QED
  BY <1>1, <1>2, <1>5, <1>6, <1>8, <1>9, <1>10, <1>11, CourierMoves

\* An attempt is recorded: as delivered only if it was received.
LEMMA RecordAttemptKeeps ==
  ASSUME EventInv, NEW c \in Courier, RecordAttempt(c)
  PROVE  EventInv'
<1> DEFINE h == InHand(c)
           i == h.row
           n == h.attempt + 1
           st == DeliveryStatus(courier[c].answer)
           x == [deliveries[i] EXCEPT !.status = st, !.attempt = n]
           left == courier[c].todo \ {h}
           pc == IF courier[c].pc = "rerecord" THEN "mark" ELSE "post"
           k == IF courier[c].todo = {h} THEN OffDuty ELSE [pc |-> pc, todo |-> left, answer |-> "none"]
           D == deliveries'
<1>1. /\ courier[c].pc \in {"record", "rerecord"} /\ courier' = [courier EXCEPT ![c] = k]
      /\ deliveries' = [deliveries EXCEPT ![i] = x]
      /\ UNCHANGED <<subscribed, events, emitting, casualties>>
  BY DEF RecordAttempt
<1>2. /\ courier[c] \in Duty /\ deliveries \in Seq(Delivery) /\ casualties \in Nat
      /\ h = Foremost(courier[c].todo) /\ h \in courier[c].todo /\ h \in RowRead
      /\ i \in 1..Len(deliveries) /\ deliveries[i] \in Delivery
  BY <1>1, AtWork
<1>3. CourierOK(courier[c], deliveries) /\ \A j \in 1..Len(deliveries) : RowOK(deliveries[j])
  BY DEF EventInv
<1>4. st \in {"delivered", "failed"} /\ (st = "delivered" => deliveries[i].received)
  BY <1>1, <1>2, <1>3 DEF DeliveryStatus, CourierOK
<1>5. n \in Nat
  BY <1>2 DEF RowRead
<1>6. pc \in {"mark", "post"} /\ left \subseteq courier[c].todo /\ h \notin left
  OBVIOUS
<1>7. /\ k \in Duty /\ k.pc \notin {"record", "rerecord"} /\ (k.pc # "off" => k.todo # {})
      /\ k.todo \subseteq left
  <2>1. CASE courier[c].todo = {h}
    BY <2>1, OffDutyIs
  <2>2. CASE courier[c].todo # {h}
    <3>1. k = [pc |-> pc, todo |-> left, answer |-> "none"]
      BY <2>2
    <3>2. left # {} /\ left \subseteq RowRead
      BY <1>2, <2>2 DEF Duty
    <3> HIDE DEF pc, left, k
    <3>3. QED
      BY <1>6, <3>1, <3>2 DEF Duty
  <2>3. QED
    BY <2>1, <2>2
<1> HIDE DEF i, n, st, pc, k
<1>8. /\ x \in Delivery /\ x.status = st /\ x.attempt = n
      /\ x.posts = deliveries[i].posts /\ x.received = deliveries[i].received
  BY <1>2, <1>4, <1>5 DEF Delivery
<1> HIDE DEF x
<1>9. /\ D \in Seq(Delivery) /\ Len(D) = Len(deliveries) /\ D[i] = x
      /\ \A j \in 1..Len(deliveries) : j # i => D[j] = deliveries[j]
  BY <1>1, <1>2, <1>8, RowChanges
<1> HIDE DEF D
<1>10. \A j \in 1..Len(D) : RowOK(D[j]) /\ (deliveries[j].received => D[j].received)
  BY <1>3, <1>4, <1>8, <1>9 DEF RowOK
<1>11. \A r \in k.todo : r \in courier[c].todo /\ r # h /\ r.row \in 1..Len(D)
  BY <1>3, <1>6, <1>7, <1>9 DEF CourierOK
<1>12. CourierOK(k, D)
  BY <1>7, <1>11 DEF CourierOK
<1>13. ASSUME Courier = {c} PROVE Alone(k, D, casualties)
  <2>1. Alone(courier[c], deliveries, casualties)
    BY <1>13 DEF EventInv
  <2>2. ASSUME NEW r \in k.todo PROVE r.attempt = D[r.row].attempt /\ r.attempt < MaxRetries
    <3>1. r.row # i
      BY <1>2, <1>11, <2>1 DEF Alone, i
    <3>2. D[r.row] = deliveries[r.row]
      BY <1>9, <1>11, <3>1
    <3>3. QED
      BY <1>11, <2>1, <3>2 DEF Alone
  <2>3. \A r, s \in k.todo : r.row = s.row => r = s
    BY <1>11, <2>1 DEF Alone
  <2>4. ASSUME NEW j \in 1..Len(D)
        PROVE  D[j].attempt <= MaxRetries /\ D[j].posts <= D[j].attempt + casualties
    <3>0. deliveries[j] \in Delivery
      BY <1>2, <1>9
    <3>1. deliveries[j].attempt \in Nat /\ deliveries[j].posts \in Nat /\ MaxRetries \in Nat
      BY <3>0, DeliveryAssumption DEF Delivery
    <3>2. CASE j = i
      <4>1. h.attempt = deliveries[i].attempt /\ h.attempt < MaxRetries
        BY <1>2, <2>1 DEF Alone, i
      <4>2. D[j].attempt = deliveries[j].attempt + 1 /\ D[j].posts = deliveries[j].posts
        BY <1>8, <1>9, <3>2, <4>1 DEF n
      <4>3. deliveries[j].posts <= deliveries[j].attempt + casualties + 1
        BY <1>2, <1>9, <2>1, <3>1 DEF Alone
      <4>4. QED
        BY <1>2, <3>1, <3>2, <4>1, <4>2, <4>3
    <3>3. CASE j # i
      <4>1. D[j] = deliveries[j]
        BY <1>9, <3>3
      <4>2. Foremost(courier[c].todo).row # j
        BY <1>2, <3>3 DEF i
      <4>3. QED
        BY <1>9, <2>1, <4>1, <4>2 DEF Alone
    <3>4. QED
      BY <3>2, <3>3
  <2>5. QED
    BY <2>2, <2>3, <2>4 DEF Alone
<1>14. D = deliveries'
  BY DEF D
<1>15. QED
  BY <1>1, <1>2, <1>7, <1>9, <1>10, <1>12, <1>13, <1>14, CourierMoves

\* A courier dies: one post more may stay unrecorded.
LEMMA CourierDiesKeeps ==
  ASSUME EventInv, NEW c \in Courier, CourierDies(c)
  PROVE  EventInv'
<1>1. /\ casualties' = casualties + 1 /\ courier' = [courier EXCEPT ![c] = OffDuty]
      /\ UNCHANGED <<subscribed, events, emitting, deliveries>>
  BY DEF CourierDies
<1>2. casualties \in Nat /\ deliveries \in Seq(Delivery) /\ \A j \in 1..Len(deliveries) : RowOK(deliveries[j])
  BY DEF EventInv
<1>3. OffDuty \in Duty /\ CourierOK(OffDuty, deliveries)
  BY OffDutyIs DEF CourierOK
<1>4. ASSUME Courier = {c} PROVE Alone(OffDuty, deliveries, casualties')
  <2>1. Alone(courier[c], deliveries, casualties)
    BY <1>4 DEF EventInv
  <2>2. ASSUME NEW j \in 1..Len(deliveries)
        PROVE  deliveries[j].attempt <= MaxRetries /\ deliveries[j].posts <= deliveries[j].attempt + casualties'
    <3>1. deliveries[j] \in Delivery
      BY <1>2
    <3>2. deliveries[j].attempt \in Nat /\ deliveries[j].posts \in Nat
      BY <3>1 DEF Delivery
    <3>3. /\ deliveries[j].attempt <= MaxRetries
          /\ \/ deliveries[j].posts <= deliveries[j].attempt + casualties
             \/ deliveries[j].posts <= deliveries[j].attempt + casualties + 1
      BY <2>1 DEF Alone
    <3>4. QED
      BY <1>1, <1>2, <3>2, <3>3
  <2>3. QED
    BY <2>2, OffDutyIs DEF Alone
<1>5. casualties' \in Nat
  BY <1>1, <1>2
<1>6. deliveries' = deliveries /\ UNCHANGED <<subscribed, events, emitting>>
  BY <1>1
<1>7. courier' = [courier EXCEPT ![c] = OffDuty]
  BY <1>1
<1>8. \A j \in 1..Len(deliveries) : RowOK(deliveries[j]) /\ (deliveries[j].received => deliveries[j].received)
  BY <1>2
<1>9. Courier = {c} => Alone(OffDuty, deliveries, casualties')
  BY <1>4
<1> QED
  BY <1>2, <1>3, <1>5, <1>6, <1>7, <1>8, <1>9, CourierMoves

\* A delivery is queued.
LEMMA QueueDeliveryKeeps ==
  ASSUME EventInv, NEW s \in Subscription, QueueDelivery(s)
  PROVE  EventInv'
<1> DEFINE x == NewDelivery(s)
           D == deliveries'
           m == Len(deliveries)
<1>1. /\ deliveries' = Append(deliveries, x) /\ UNCHANGED <<subscribed, events, courier, casualties>>
      /\ emitting' = [pc |-> IF emitting.todo = {s} THEN "idle" ELSE "queue", todo |-> emitting.todo \ {s}]
  BY DEF QueueDelivery
<1>2. x \in Delivery /\ RowOK(x) /\ x.attempt = 0 /\ x.posts = 0
  BY DEF NewDelivery, Delivery, RowOK
<1>3. deliveries \in Seq(Delivery) /\ m \in Nat
  BY DEF EventInv
<1> HIDE DEF x
<1>4. /\ D \in Seq(Delivery) /\ Len(D) = m + 1 /\ D[m + 1] = x
      /\ \A j \in 1..m : D[j] = deliveries[j]
  BY <1>1, <1>2, <1>3, AppendProperties
<1> HIDE DEF D, m
<1>5. \A j \in 1..Len(D) : j \in 1..m \/ j = m + 1
  BY <1>3, <1>4
<1>6. \A j \in 1..m : j \in 1..Len(D)
  BY <1>3, <1>4
<1>7. \A j \in 1..Len(D) : RowOK(D[j])
  BY <1>2, <1>4, <1>5 DEF EventInv, m
<1>8. ASSUME NEW c \in Courier
      PROVE  /\ courier[c] \in Duty /\ CourierOK(courier[c], deliveries)
             /\ \A r \in courier[c].todo : r.row \in 1..m
             /\ courier[c].pc \in {"record", "rerecord"} => Foremost(courier[c].todo).row \in 1..m
  <2>1. courier[c] \in Duty /\ CourierOK(courier[c], deliveries)
    BY DEF EventInv
  <2>2. \A r \in courier[c].todo : r.row \in 1..m
    BY <2>1 DEF CourierOK, m
  <2>3. courier[c].pc \in {"record", "rerecord"} => courier[c].todo # {} /\ courier[c].todo \in SUBSET RowRead
    BY <2>1 DEF CourierOK, Duty
  <2>4. QED
    BY <2>1, <2>2, <2>3, ForemostIs
<1>9. \A c \in Courier : CourierOK(courier[c], D)
  BY <1>4, <1>6, <1>8 DEF CourierOK
<1>10. ASSUME NEW c \in Courier, Courier = {c} PROVE Alone(courier[c], D, casualties)
  <2>1. Alone(courier[c], deliveries, casualties)
    BY <1>10 DEF EventInv
  <2>2. casualties \in Nat /\ MaxRetries \in Nat
    BY DeliveryAssumption DEF EventInv
  <2>3. x.attempt <= MaxRetries /\ x.posts <= x.attempt + casualties
    BY <1>2, <2>2
  <2>4. ASSUME NEW j \in 1..Len(D)
        PROVE  /\ D[j].attempt <= MaxRetries
               /\ \/ D[j].posts <= D[j].attempt + casualties
                  \/ /\ courier[c].pc \in {"record", "rerecord"} /\ Foremost(courier[c].todo).row = j
                     /\ D[j].posts <= D[j].attempt + casualties + 1
    BY <1>4, <1>5, <2>1, <2>3 DEF Alone, m
  <2>5. QED
    BY <1>4, <1>8, <2>1, <2>4 DEF Alone
<1>11. emitting' \in [pc : {"idle", "match", "queue"}, todo : SUBSET Subscription]
  BY <1>1 DEF EventInv
<1>12. /\ \A c \in Courier : CourierOK(courier[c], deliveries)'
       /\ \A c \in Courier : Courier = {c} => Alone(courier[c], deliveries, casualties)'
       /\ \A j \in 1..Len(deliveries') : RowOK(deliveries[j])'
       /\ deliveries' \in Seq(Delivery)
  BY <1>1, <1>4, <1>7, <1>9, <1>10 DEF CourierOK, Alone, RowOK, D
<1>13. QED
  BY <1>1, <1>11, <1>12 DEF EventInv

\* Every step of the bus and of the couriers.
LEMMA EventStep == EventInv /\ [EventNext]_eventVars => EventInv'
<1> SUFFICES ASSUME EventInv, [EventNext]_eventVars PROVE EventInv'
  OBVIOUS
<1>1. ASSUME UNCHANGED <<deliveries, courier, casualties>>, subscribed' \subseteq Subscription,
             events' \in 0..MaxEvents,
             emitting' \in [pc : {"idle", "match", "queue"}, todo : SUBSET Subscription]
      PROVE  EventInv'
  BY <1>1 DEF EventInv, CourierOK, Alone, RowOK
<1>2. /\ subscribed \subseteq Subscription /\ events \in 0..MaxEvents /\ MaxEvents \in Nat
      /\ emitting \in [pc : {"idle", "match", "queue"}, todo : SUBSET Subscription]
  BY DeliveryAssumption DEF EventInv
<1>3. ASSUME NEW s \in Subscription, Subscribe(s) \/ Unsubscribe(s) PROVE EventInv'
  BY <1>1, <1>2, <1>3 DEF Subscribe, Unsubscribe
<1>4. CASE PersistEvent
  BY <1>1, <1>2, <1>4 DEF PersistEvent
<1>5. CASE MatchSubscriptions
  BY <1>1, <1>2, <1>5 DEF MatchSubscriptions
<1>6. ASSUME NEW c \in Courier, DeliverPending(c) PROVE EventInv'
  <2> DEFINE rows == {i \in 1..Len(deliveries) : deliveries[i].status = "pending"}
  <2>1. ReadRows(c, rows, "post") /\ rows \in SUBSET (1..Len(deliveries))
    BY <1>6 DEF DeliverPending
  <2>2. \A i \in rows : deliveries[i].attempt < MaxRetries
    BY DeliveryAssumption DEF EventInv, RowOK
  <2> HIDE DEF rows
  <2>3. QED
    BY <2>1, <2>2, ReadRowsKeeps
<1>7. ASSUME NEW c \in Courier, RetryFailed(c) PROVE EventInv'
  <2> DEFINE rows == {i \in 1..Len(deliveries) : Retriable(deliveries[i])}
  <2>1. ReadRows(c, rows, "mark") /\ rows \in SUBSET (1..Len(deliveries))
    BY <1>7 DEF RetryFailed
  <2>2. \A i \in rows : deliveries[i].attempt < MaxRetries
    BY DEF Retriable
  <2> HIDE DEF rows
  <2>3. QED
    BY <2>1, <2>2, ReadRowsKeeps
<1>8. CASE UNCHANGED eventVars
  BY <1>1, <1>2, <1>8 DEF eventVars
<1>9. QED
  BY <1>3, <1>4, <1>5, <1>6, <1>7, <1>8, QueueDeliveryKeeps, MarkRetryingKeeps, PostKeeps,
     RecordAttemptKeeps, CourierDiesKeeps DEF EventNext, Emit, Deliver

\* Nothing is queued and nobody at work at the start.
LEMMA EventStart == EventInit => EventInv
<1> SUFFICES ASSUME EventInit PROVE EventInv
  OBVIOUS
<1>1. deliveries = <<>> /\ deliveries \in Seq(Delivery) /\ Len(deliveries) = 0
  BY DEF EventInit
<1>2. 1..Len(deliveries) = {}
  BY <1>1
<1>3. courier \in [Courier -> Duty] /\ \A c \in Courier : courier[c] = OffDuty
  BY OffDutyIs DEF EventInit
<1>4. \A c \in Courier : CourierOK(courier[c], deliveries) /\ Alone(courier[c], deliveries, casualties)
  BY <1>2, <1>3, OffDutyIs DEF CourierOK, Alone
<1>5. emitting \in [pc : {"idle", "match", "queue"}, todo : SUBSET Subscription]
  BY DEF EventInit
<1>6. subscribed \subseteq Subscription /\ events \in 0..MaxEvents /\ casualties \in Nat
  BY DeliveryAssumption DEF EventInit
<1>7. QED
  BY <1>1, <1>2, <1>3, <1>4, <1>5, <1>6 DEF EventInv

\* What it says of what was delivered, and of how often.
LEMMA EventHolds == EventInv => EventTypeOK /\ DeliveredIsReceived /\ PostsBounded
<1> SUFFICES ASSUME EventInv PROVE EventTypeOK /\ DeliveredIsReceived /\ PostsBounded
  OBVIOUS
<1>1. \A i \in 1..Len(deliveries) : deliveries[i] \in Delivery
  BY DEF EventInv
<1>2. EventTypeOK
  BY <1>1 DEF EventInv, EventTypeOK, CourierOK, Delivery
<1>3. DeliveredIsReceived
  BY DEF EventInv, DeliveredIsReceived, RowOK
<1>4. ASSUME Cardinality(Courier) = 1, NEW i \in 1..Len(deliveries)
      PROVE  deliveries[i].posts <= MaxRetries + casualties
  <2>1. PICK c : Courier = {c}
    BY <1>4, FS_Singleton, DeliveryAssumption
  <2>2. Alone(courier[c], deliveries, casualties) /\ CourierOK(courier[c], deliveries) /\ courier[c] \in Duty
    BY <2>1 DEF EventInv
  <2>3. deliveries[i].attempt \in Nat /\ deliveries[i].posts \in Nat /\ casualties \in Nat /\ MaxRetries \in Nat
    BY <1>1, DeliveryAssumption DEF Delivery, EventInv
  <2>4. CASE deliveries[i].posts <= deliveries[i].attempt + casualties
    BY <2>2, <2>3, <2>4 DEF Alone
  <2>5. CASE ~(deliveries[i].posts <= deliveries[i].attempt + casualties)
    <3> DEFINE h == Foremost(courier[c].todo)
    <3>1. courier[c].pc \in {"record", "rerecord"} /\ h.row = i /\ deliveries[i].posts <= deliveries[i].attempt + casualties + 1
      BY <2>2, <2>5 DEF Alone
    <3>2. h \in courier[c].todo
      BY <2>2, <3>1, ForemostIs DEF CourierOK, Duty
    <3>3. h.attempt = deliveries[i].attempt /\ h.attempt < MaxRetries
      BY <2>2, <3>1, <3>2 DEF Alone
    <3>4. QED
      BY <2>3, <3>1, <3>3
  <2>6. QED
    BY <2>4, <2>5
<1>5. QED
  BY <1>2, <1>3, <1>4 DEF PostsBounded

-----------------------------------------------------------------------------
(* Together.                                                               *)

\* In every step the part in focus takes a step of its own, and the others
\* none.
LEMMA ProgressMoves ==
  ASSUME [ProgressNext]_progressVars
  PROVE  /\ [RelationNext]_relationVars /\ [SyncNext]_<<auditVars, syncVars>>
         /\ [SchedNext]_schedVars /\ [EventNext]_eventVars
         /\ UNCHANGED focus
<1>1. CASE UNCHANGED progressVars
  BY <1>1 DEF progressVars
<1>2. CASE ProgressNext
  <2>1. SyncNext => [SyncNext]_<<auditVars, syncVars>>
    OBVIOUS
  <2>2. UNCHANGED <<auditVars, syncVars>> => [SyncNext]_<<auditVars, syncVars>>
    OBVIOUS
  <2>3. QED
    BY <1>2, <2>1, <2>2 DEF ProgressNext
<1>3. QED
  BY <1>1, <1>2

\* The parts of MCProgress keep to their own specifications, with the fairness
\* each of them assumes.
THEOREM ProgressRefined == ProgressSpec => RelationSpec /\ SyncSpec /\ SchedSpec /\ EventSpec
<1>1. ProgressInit => RelationInit /\ SyncInit /\ SchedInit /\ EventInit
  BY DEF ProgressInit
<1>2. [ProgressNext]_progressVars =>
        /\ [RelationNext]_relationVars /\ [SyncNext]_<<auditVars, syncVars>>
        /\ [SchedNext]_schedVars /\ [EventNext]_eventVars
  BY ProgressMoves
<1>3. QED
  BY <1>1, <1>2, PTL DEF ProgressSpec, RelationSpec, SyncSpec, SchedSpec, EventSpec

\* WatermarkHonest, for any number of threads, processes, faults and batches.
THEOREM NothingIsSkipped == LongHorizon => (SyncSpec => [](SyncTypeOK /\ WatermarkHonest))
<1> SUFFICES ASSUME LongHorizon PROVE SyncSpec => [](SyncTypeOK /\ WatermarkHonest)
  OBVIOUS
<1>1. SyncInv /\ [SyncNext]_<<auditVars, syncVars>> => SyncInv'
  BY SyncStep
<1>2. QED
  BY <1>1, SyncStart, SyncHolds, PTL DEF SyncSpec

\* No occurrence of an action is lost, and one runner runs no job twice.
THEOREM OccurrencesGetJobs == SchedSpec => [](SchedTypeOK /\ NoOccurrenceLost /\ RunsOnce)
BY SchedStart, SchedStep, SchedHolds, PTL DEF SchedSpec

\* What is recorded as delivered was received, and one courier keeps to
\* max_retries.
THEOREM DeliveriesHonest == EventSpec => [](EventTypeOK /\ DeliveredIsReceived /\ PostsBounded)
BY EventStart, EventStep, EventHolds, PTL DEF EventSpec

\* RelationsInScope in all that MCProgress allows.
THEOREM RelationsStayInScope == ProgressSpec => []RelationsInScope
BY ProgressRefined, ChildrenAgree, PTL

\* NothingMissed, the run's invariant, for all constants.
THEOREM NothingIsMissed == LongHorizon => (ProgressSpec => []NothingMissed)
<1> SUFFICES ASSUME LongHorizon PROVE ProgressSpec => []NothingMissed
  OBVIOUS
<1>1. SyncSpec => [](SyncTypeOK /\ WatermarkHonest)
  BY NothingIsSkipped
<1>2. /\ SyncTypeOK /\ WatermarkHonest
      /\ SchedTypeOK /\ NoOccurrenceLost /\ RunsOnce
      /\ EventTypeOK /\ DeliveredIsReceived /\ PostsBounded
      => NothingMissed
  BY DEF NothingMissed
<1>3. QED
  BY <1>1, <1>2, ProgressRefined, OccurrencesGetJobs, DeliveriesHonest, PTL

\* The types of the part in focus.
THEOREM ProgressTypeCorrect == LongHorizon => (ProgressSpec => []ProgressTypeOK)
<1> SUFFICES ASSUME LongHorizon PROVE ProgressSpec => []ProgressTypeOK
  OBVIOUS
<1>1. SyncSpec => [](SyncTypeOK /\ WatermarkHonest)
  BY NothingIsSkipped
<1>2. RelationSpec => []RelationTypeOK
  <2>1. RelationInv => RelationTypeOK
    BY DEF RelationInv, RelationTyped, RelationTypeOK, Transaction
  <2>2. QED
    BY <2>1, InitRelationInv, RelationInvStep, PTL DEF RelationSpec
<1>3. /\ RelationTypeOK
      /\ SyncTypeOK /\ WatermarkHonest
      /\ SchedTypeOK /\ NoOccurrenceLost /\ RunsOnce
      /\ EventTypeOK /\ DeliveredIsReceived /\ PostsBounded
      => ProgressTypeOK
  BY DEF ProgressTypeOK
<1>4. QED
  BY <1>1, <1>2, <1>3, ProgressRefined, OccurrencesGetJobs, DeliveriesHonest, PTL

=============================================================================
