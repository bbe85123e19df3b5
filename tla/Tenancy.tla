------------------------------ MODULE Tenancy ------------------------------
(***************************************************************************)
(* Scopes of the 1.x framework (tenancy/): their lifecycle, the            *)
(* memberships of a guest, the projections of an object that is not his,   *)
(* and what he can see of it, tombstoned or not: the engine does not look. *)
(* Every operation checks the scope first and writes later; others come    *)
(* in between.                                                             *)
(***************************************************************************)
EXTENDS Naturals, FiniteSets

CONSTANTS
  Scope,        \* scope ids
  ParentOf,     \* parent_scope_id, set when a scope is created; NoScope: a root
  NoScope,
  Role,         \* ScopeRole
  Expiry,       \* expires_at of a grant: "never" and "later"
  Clerk,        \* threads that serve requests
  MaxDepth      \* of the walk up the hierarchy

ASSUME TenancyAssumption ==
  /\ ParentOf \in [Scope -> Scope \union {NoScope}] /\ MaxDepth \in Nat
  /\ NoScope \notin Scope
  /\ Expiry \subseteq {"never", "later"}

VARIABLES
  scopeLife,    \* lifecycle of every scope
  member,       \* the guest's memberships: a row per scope and role
  projected,    \* the object's projections: a row per scope
  clerk,        \* the call every thread is in
  closedCalmly  \* scopes archived while no call on them was under way

tenancyVars == <<scopeLife, member, projected, clerk, closedCalmly>>

\* ScopeMembership, ScopeProjection; "none" is no row.
NoMember == [life |-> "none", expires |-> "never"]
Free == [op |-> "free", scope |-> NoScope, role |-> "all", arg |-> "none"]

TenancyInit ==
  /\ scopeLife = [s \in Scope |-> "none"]
  /\ member = [s \in Scope |-> [r \in Role |-> NoMember]]
  /\ projected = [s \in Scope |-> "none"]
  /\ clerk = [c \in Clerk |-> Free]
  /\ closedCalmly = {}

\* active_membership_condition()
ActiveMembership(m) == m.life = "ACTIVE" /\ m.expires # "past"

\* is_member(), scope_member_ids()
MemberOf(s) == \E r \in Role : ActiveMembership(member[s][r])

\* Mutant: only a frozen scope refuses changes.
NotFrozen(s) == scopeLife[s] \notin {"none", "FROZEN"}

\* _require_mutable(); project() has the same condition.
Mutable(s) == scopeLife[s] = "ACTIVE"

Busy(s) == \E c \in Clerk : clerk[c].scope = s

Enters(c, op, s, r, x) ==
  /\ clerk[c].op = "free"
  /\ clerk' = [clerk EXCEPT ![c] = [op |-> op, scope |-> s, role |-> r, arg |-> x]]

Returns(c) == clerk' = [clerk EXCEPT ![c] = Free]

-----------------------------------------------------------------------------
(* ScopeLifecycle. *)

\* create_scope(): the row; the owner's own membership is not the guest's.
CreateScope(s) ==
  /\ scopeLife[s] = "none"
  /\ ParentOf[s] # NoScope => scopeLife[ParentOf[s]] # "none"
  /\ scopeLife' = [scopeLife EXCEPT ![s] = "ACTIVE"]
  /\ UNCHANGED <<member, projected, clerk, closedCalmly>>

\* add_member() and each turn of add_members() ...
AddChecks(c, s, r, x) ==
  /\ Mutable(s)
  /\ Enters(c, "add", s, r, x)
  /\ UNCHANGED <<scopeLife, member, projected, closedCalmly>>

\* ... and _add_membership(): an active row, expired or not, is left as it is.
AddMembership(c) ==
  LET k == clerk[c] IN
  /\ k.op = "add"
  /\ member' = IF member[k.scope][k.role].life = "ACTIVE" THEN member
               ELSE [member EXCEPT ![k.scope][k.role] = [life |-> "ACTIVE", expires |-> k.arg]]
  /\ Returns(c)
  /\ UNCHANGED <<scopeLife, projected, closedCalmly>>

Archived(m) == IF m.life = "ACTIVE" THEN [m EXCEPT !.life = "ARCHIVED"] ELSE m

\* revoke_member() of one role, or of "all".
RevokeChecks(c, s, r) ==
  /\ Mutable(s)
  /\ Enters(c, "revoke", s, r, "none")
  /\ UNCHANGED <<scopeLife, member, projected, closedCalmly>>

RevokeMember(c) ==
  LET k == clerk[c] IN
  /\ k.op = "revoke"
  /\ member' = [member EXCEPT ![k.scope] =
                  [r \in Role |-> IF k.role \in {r, "all"} THEN Archived(@[r]) ELSE @[r]]]
  /\ Returns(c)
  /\ UNCHANGED <<scopeLife, projected, closedCalmly>>

\* is_member() finds nothing but an expired row ...
FindExpired(c, s) ==
  /\ ~MemberOf(s)
  /\ \E r \in Role : member[s][r].life = "ACTIVE" /\ member[s][r].expires = "past"
  /\ Enters(c, "lapse", s, "all", "none")
  /\ UNCHANGED <<scopeLife, member, projected, closedCalmly>>

\* Mutant: what was expired a statement ago still is.
AnyRow(m) == m.life = "ACTIVE"

\* The condition of the UPDATE that follows.
Lapsed(m) == m.life = "ACTIVE" /\ m.expires = "past"

\* ... and archives what is expired by now.
ArchiveExpired(c) ==
  /\ clerk[c].op = "lapse"
  /\ member' = [member EXCEPT ![clerk[c].scope] =
                  [r \in Role |-> IF Lapsed(@[r]) THEN Archived(@[r]) ELSE @[r]]]
  /\ Returns(c)
  /\ UNCHANGED <<scopeLife, projected, closedCalmly>>

\* freeze_scope() of an active scope.
FreezeChecks(c, s) ==
  /\ scopeLife[s] = "ACTIVE"
  /\ Enters(c, "freeze", s, "all", "none")
  /\ UNCHANGED <<scopeLife, member, projected, closedCalmly>>

FreezeScope(c) ==
  /\ clerk[c].op = "freeze"
  /\ scopeLife' = [scopeLife EXCEPT ![clerk[c].scope] = "FROZEN"]
  /\ Returns(c)
  /\ UNCHANGED <<member, projected, closedCalmly>>

\* archive_scope() of one that is not archived: three tables, one transaction.
ArchiveChecks(c, s) ==
  /\ scopeLife[s] \in {"ACTIVE", "FROZEN"}
  /\ Enters(c, "archive", s, "all", "none")
  /\ UNCHANGED <<scopeLife, member, projected, closedCalmly>>

ArchiveScope(c) ==
  LET s == clerk[c].scope IN
  /\ clerk[c].op = "archive"
  /\ member' = [member EXCEPT ![s] = [r \in Role |-> Archived(@[r])]]
  /\ projected' = [projected EXCEPT ![s] = IF @ = "none" THEN @ ELSE "ARCHIVED"]
  /\ scopeLife' = [scopeLife EXCEPT ![s] = "ARCHIVED"]
  /\ Returns(c)
  /\ closedCalmly' = IF \E d \in Clerk \ {c} : clerk[d].scope = s THEN closedCalmly
                     ELSE closedCalmly \union {s}

-----------------------------------------------------------------------------
(* ProjectionManager: the owner projects, anyone revokes. *)

ProjectChecks(c, s) ==
  /\ Mutable(s)
  /\ projected[s] # "ACTIVE"
  /\ Enters(c, "project", s, "all", projected[s])
  /\ UNCHANGED <<scopeLife, member, projected, closedCalmly>>

\* An archived row is made active again; a new one is inserted, unless it is
\* there by now (UNIQUE(scope_id, object_id)).
ProjectObject(c) ==
  LET k == clerk[c] IN
  /\ k.op = "project"
  /\ projected' = IF k.arg = "none" /\ projected[k.scope] # "none" THEN projected
                  ELSE [projected EXCEPT ![k.scope] = "ACTIVE"]
  /\ Returns(c)
  /\ UNCHANGED <<scopeLife, member, closedCalmly>>

\* revoke_projection() does not look at the scope.
RevokeProjection(s) ==
  /\ projected[s] = "ACTIVE"
  /\ projected' = [projected EXCEPT ![s] = "ARCHIVED"]
  /\ UNCHANGED <<scopeLife, member, clerk, closedCalmly>>

-----------------------------------------------------------------------------
(* VisibilityEngine. *)

\* ancestor_scope_ids(): MaxDepth steps up, a scope that is archived included.
Ancestors(s) ==
  LET up[n \in 0..MaxDepth] ==
        IF n = 0 THEN {s}
        ELSE LET below == up[n - 1] IN below \union ({ParentOf[t] : t \in below} \ {NoScope})
  IN  up[MaxDepth] \ {s}

\* _visible_via_hierarchy(): projected to an ancestor of one of his scopes.
SeenThroughAncestor ==
  \E s \in Scope : MemberOf(s) /\ \E a \in Ancestors(s) : projected[a] = "ACTIVE"

\* can_see(): projected to a scope he is a member of, or to an ancestor.
CanSeeProjected ==
  \/ \E s \in Scope : MemberOf(s) /\ projected[s] = "ACTIVE"
  \/ SeenThroughAncestor

\* Mutant: the list leaves ancestors out.
DirectScopes == {s \in Scope : MemberOf(s)}

\* visible_object_ids(): the same in one walk that starts from his scopes.
VisibleScopes == UNION {{s} \union Ancestors(s) : s \in {t \in Scope : MemberOf(t)}}
ListsObject == \E s \in VisibleScopes : projected[s] = "ACTIVE"

-----------------------------------------------------------------------------
\* Time passes.
MembershipExpires(s, r) ==
  /\ member[s][r].expires = "later"
  /\ member' = [member EXCEPT ![s][r].expires = "past"]
  /\ UNCHANGED <<scopeLife, projected, clerk, closedCalmly>>

ClerkNext(c) ==
  \/ \E s \in Scope :
       \/ \E r \in Role, x \in Expiry : AddChecks(c, s, r, x)
       \/ \E r \in Role \union {"all"} : RevokeChecks(c, s, r)
       \/ FindExpired(c, s) \/ FreezeChecks(c, s) \/ ArchiveChecks(c, s) \/ ProjectChecks(c, s)
  \/ AddMembership(c) \/ RevokeMember(c) \/ ArchiveExpired(c)
  \/ FreezeScope(c) \/ ArchiveScope(c) \/ ProjectObject(c)

TenancyNext ==
  \/ \E c \in Clerk : ClerkNext(c)
  \/ \E s \in Scope : CreateScope(s) \/ RevokeProjection(s)
  \/ \E s \in Scope, r \in Role : MembershipExpires(s, r)

TenancySpec == TenancyInit /\ [][TenancyNext]_tenancyVars

-----------------------------------------------------------------------------
(* Properties. *)

TenancyTypeOK ==
  /\ scopeLife \in [Scope -> {"none", "ACTIVE", "FROZEN", "ARCHIVED"}]
  /\ member \in [Scope -> [Role -> [life : {"none", "ACTIVE", "ARCHIVED"},
                                    expires : {"never", "later", "past"}]]]
  /\ projected \in [Scope -> {"none", "ACTIVE", "ARCHIVED"}]
  /\ \A c \in Clerk : clerk[c].scope \in Scope \union {NoScope}
  /\ closedCalmly \subseteq Scope

\* archive_scope() "archives all memberships and projections": a scope it
\* closed while no other call on it was under way lets nobody in and shows
\* nothing again, whatever is called afterwards and by whom.
ClosedForGood ==
  \A s \in closedCalmly : ~MemberOf(s) /\ projected[s] # "ACTIVE" /\ scopeLife[s] = "ARCHIVED"

\* A membership in force ends by revoke_member(), by archive_scope() or by
\* expiring: is_member(), which archives what it found expired, never ends
\* one that was granted anew in the meantime.
KeepsGrants ==
  \A s \in Scope : MemberOf(s) /\ ~MemberOf(s)' =>
    \/ \E r \in Role : member[s][r].expires = "later" /\ member'[s][r].expires = "past"
    \/ \E c \in Clerk : clerk[c].op \in {"revoke", "archive"} /\ clerk'[c].op = "free"
GrantsKept == [][KeepsGrants]_tenancyVars

\* visible_object_ids() lists the object exactly when can_see() lets the guest
\* see it ("matching the behavior of can_see").
ListMatchesSight == ListsObject <=> CanSeeProjected

=============================================================================
