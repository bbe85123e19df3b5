---------------------------- MODULE SecretVault ----------------------------
(***************************************************************************)
(* A secret of the 1.x framework (secrets/): its encrypted versions, the   *)
(* references granted to a holder, the policies that restrict it and the   *)
(* resolution of a reference.  No operation is a transaction: each of its  *)
(* statements is a step, and a process may die between two of them.        *)
(* Environment restrictions work as scope restrictions do and are left     *)
(* out.                                                                    *)
(***************************************************************************)
EXTENDS Naturals, FiniteSets

CONSTANTS
  Ref,             \* secret_refs
  VaultScope,      \* scopes a secret is used from
  Nowhere,         \* no scope_id
  AllowedScopes,   \* the allowed_scopes lists policies may have
  Hand,            \* threads of the server
  MaxSecretVersion \* bound on rotations

ASSUME VaultAssumption ==
  /\ MaxSecretVersion \in Nat \ {0}
  /\ AllowedScopes \subseteq SUBSET VaultScope
  /\ Nowhere \notin VaultScope

VARIABLES
  secret,     \* the row, its secret_versions, and whether create_secret() got through
  ref,        \* the secret_refs rows
  refPolicies,\* allowed_scopes of the policies that apply
  aged,       \* older than max_age_seconds
  hand        \* the call every thread is in

vaultVars == <<secret, ref, refPolicies, aged, hand>>

\* Secret and SecretVersion; SecretRef.
NoSecret == [life |-> "none", current |-> 0, rows |-> {}, expired |-> FALSE, made |-> FALSE]
NoRef == [life |-> "none", expired |-> FALSE, scope |-> Nowhere]

\* `open`: when resolve() began the reference, the secret and the policies
\* would have let it through; `logged`: the access log has the attempt.
HandAtRest == [pc |-> "rest", ver |-> 0, ref |-> "none", from |-> Nowhere, open |-> FALSE,
           logged |-> FALSE]

VaultInit ==
  /\ secret = NoSecret
  /\ ref = [r \in Ref |-> NoRef]
  /\ refPolicies = {}
  /\ aged = FALSE
  /\ hand = [h \in Hand |-> HandAtRest]

\* _require_active_secret()
SecretUsable == secret.life = "ACTIVE" /\ ~secret.expired

\* check_scope_allowed() over get_policies_for_secret(): every list that is
\* not empty must have the scope.
ScopeAllowed(s) == \A p \in refPolicies : p # {} => s \in p

Steps(h, pc) == hand' = [hand EXCEPT ![h].pc = pc]
Rests(h) == hand' = [hand EXCEPT ![h] = HandAtRest]

-----------------------------------------------------------------------------
(* SecretVault: secrets. *)

\* create_secret(): the row, which says version 1 ...
CreateSecret(h) ==
  /\ hand[h].pc = "rest"
  /\ secret.life = "none"
  /\ secret' = [NoSecret EXCEPT !.life = "ACTIVE", !.current = 1]
  /\ Steps(h, "first")
  /\ UNCHANGED <<ref, refPolicies, aged>>

\* ... and then that version.
CreateFirstVersion(h) ==
  /\ hand[h].pc = "first"
  /\ secret' = [secret EXCEPT !.rows = @ \union {1}, !.made = TRUE]
  /\ Rests(h)
  /\ UNCHANGED <<ref, refPolicies, aged>>

\* rotate(): the current version is read ...
RotateReads(h) ==
  /\ hand[h].pc = "rest"
  /\ SecretUsable
  /\ secret.current < MaxSecretVersion
  /\ hand' = [hand EXCEPT ![h] = [HandAtRest EXCEPT !.pc = "insert", !.ver = secret.current + 1]]
  /\ UNCHANGED <<secret, ref, refPolicies, aged>>

\* make_rotation_executor(): needs_rotation(), then rotate().
AutoRotate(h) == aged /\ RotateReads(h)

\* Mutant: no such constraint.
EveryVersion(v) == TRUE

\* UNIQUE(secret_id, version)
NewVersion(v) == v \notin secret.rows

\* Mutant: the new version is in use before it is there.
PointFirst(h) ==
  /\ hand[h].pc = "insert"
  /\ IF NewVersion(hand[h].ver)
     THEN secret' = [secret EXCEPT !.current = hand[h].ver] /\ Steps(h, "point")
     ELSE Rests(h) /\ UNCHANGED secret
  /\ UNCHANGED <<ref, refPolicies, aged>>

\* ... the next one inserted, or the call raises ...
RotateInserts(h) ==
  /\ hand[h].pc = "insert"
  /\ IF NewVersion(hand[h].ver)
     THEN secret' = [secret EXCEPT !.rows = @ \union {hand[h].ver}] /\ Steps(h, "point")
     ELSE Rests(h) /\ UNCHANGED secret
  /\ UNCHANGED <<ref, refPolicies, aged>>

\* ... and made the current one.
RotatePoints(h) ==
  /\ hand[h].pc = "point"
  /\ secret' = [secret EXCEPT !.current = hand[h].ver]
  /\ aged' = FALSE
  /\ Rests(h)
  /\ UNCHANGED <<ref, refPolicies>>

\* archive_secret(): first the secret, then its references.
ArchiveSecret(h) ==
  /\ hand[h].pc = "rest"
  /\ secret.life # "none"
  /\ secret' = [secret EXCEPT !.life = "ARCHIVED"]
  /\ Steps(h, "revokeAll")
  /\ UNCHANGED <<ref, refPolicies, aged>>

RevokeAllRefs(h) ==
  /\ hand[h].pc = "revokeAll"
  /\ ref' = [r \in Ref |-> IF ref[r].life = "none" THEN ref[r] ELSE [ref[r] EXCEPT !.life = "REVOKED"]]
  /\ Rests(h)
  /\ UNCHANGED <<secret, refPolicies, aged>>

-----------------------------------------------------------------------------
(* SecretVault: references. *)

\* _enforce_policy_restrictions_on_grant(): a restricted secret needs a scope.
GrantAllowed(s) == (\E p \in refPolicies : p # {}) => s # Nowhere /\ ScopeAllowed(s)

GrantChecks(h, r, s) ==
  /\ hand[h].pc = "rest"
  /\ ref[r].life = "none"
  /\ SecretUsable /\ GrantAllowed(s)
  /\ hand' = [hand EXCEPT ![h] = [HandAtRest EXCEPT !.pc = "grant", !.ref = r, !.from = s]]
  /\ UNCHANGED <<secret, ref, refPolicies, aged>>

\* Every grant has an id of its own.
GrantRef(h) ==
  LET r == hand[h].ref IN
  /\ hand[h].pc = "grant"
  /\ ref[r].life = "none"
  /\ ref' = [ref EXCEPT ![r] = [life |-> "ACTIVE", expired |-> FALSE, scope |-> hand[h].from]]
  /\ Rests(h)
  /\ UNCHANGED <<secret, refPolicies, aged>>

RevokeRef(r) ==
  /\ ref[r].life = "ACTIVE"
  /\ ref' = [ref EXCEPT ![r].life = "REVOKED"]
  /\ UNCHANGED <<secret, refPolicies, aged, hand>>

-----------------------------------------------------------------------------
(* SecretVault.resolve(). *)

\* The reference: active, not expired, the holder's, for this scope.
RefAllows(r, who, s) ==
  /\ ref[r].life = "ACTIVE" /\ ~ref[r].expired
  /\ who = "holder"
  /\ ref[r].scope \in {Nowhere, s}

\* A reference that does not allow it is logged and denied.
ResolveRef(h, r, who, s) ==
  /\ hand[h].pc = "rest"
  /\ ref[r].life # "none"
  /\ hand' = [hand EXCEPT ![h] =
       [HandAtRest EXCEPT !.pc = IF RefAllows(r, who, s) THEN "secret" ELSE "denied",
                      !.ref = r, !.from = s, !.logged = ~RefAllows(r, who, s),
                      !.open = RefAllows(r, who, s) /\ SecretUsable /\ GrantAllowed(s)]]
  /\ UNCHANGED <<secret, ref, refPolicies, aged>>

\* Mutant: the reference is enough.
TrustsRef(h) ==
  /\ hand[h].pc = "secret"
  /\ hand' = [hand EXCEPT ![h].pc = "policy", ![h].ver = secret.current]
  /\ UNCHANGED <<secret, ref, refPolicies, aged>>

\* The secret, and its current version; if it may not be used, the error
\* leaves no entry in the log.
ResolveSecret(h) ==
  /\ hand[h].pc = "secret"
  /\ hand' = [hand EXCEPT ![h].pc = IF SecretUsable THEN "policy" ELSE "denied",
                          ![h].ver = secret.current]
  /\ UNCHANGED <<secret, ref, refPolicies, aged>>

\* _enforce_policy_restrictions_on_resolve(); nothing is logged here either.
ResolvePolicy(h) ==
  /\ hand[h].pc = "policy"
  /\ Steps(h, IF GrantAllowed(hand[h].from) THEN "version" ELSE "denied")
  /\ UNCHANGED <<secret, ref, refPolicies, aged>>

\* The version is read and decrypted, and the access logged.
ResolveVersion(h) ==
  /\ hand[h].pc = "version"
  /\ LET found == hand[h].ver \in secret.rows IN
     hand' = [hand EXCEPT ![h].pc = IF found THEN "plaintext" ELSE "missing",
                          ![h].logged = found]
  /\ UNCHANGED <<secret, ref, refPolicies, aged>>

ResolveEnds(h) ==
  /\ hand[h].pc \in {"plaintext", "missing", "denied"}
  /\ Rests(h)
  /\ UNCHANGED <<secret, ref, refPolicies, aged>>

-----------------------------------------------------------------------------
\* SecretPolicyManager.create_policy(); policies are never removed.
CreatePolicy(p) ==
  /\ p \notin refPolicies
  /\ secret.life # "none"
  /\ refPolicies' = refPolicies \union {p}
  /\ UNCHANGED <<secret, ref, aged, hand>>

\* Time passes: the secret or a reference expires, the secret is due again.
SecretExpires ==
  /\ secret.life = "ACTIVE" /\ ~secret.expired
  /\ secret' = [secret EXCEPT !.expired = TRUE]
  /\ UNCHANGED <<ref, refPolicies, aged, hand>>

RefExpires(r) ==
  /\ ref[r].life = "ACTIVE" /\ ~ref[r].expired
  /\ ref' = [ref EXCEPT ![r].expired = TRUE]
  /\ UNCHANGED <<secret, refPolicies, aged, hand>>

SecretAges ==
  /\ secret.made /\ ~aged
  /\ aged' = TRUE
  /\ UNCHANGED <<secret, ref, refPolicies, hand>>

\* A process dies between two statements.
HandDies(h) ==
  /\ hand[h].pc \notin {"rest", "plaintext", "missing", "denied"}
  /\ Rests(h)
  /\ UNCHANGED <<secret, ref, refPolicies, aged>>

HandNext(h) ==
  \/ CreateSecret(h) \/ CreateFirstVersion(h)
  \/ RotateReads(h) \/ AutoRotate(h) \/ RotateInserts(h) \/ RotatePoints(h)
  \/ ArchiveSecret(h) \/ RevokeAllRefs(h)
  \/ \E r \in Ref, s \in VaultScope \union {Nowhere} :
       GrantChecks(h, r, s) \/ \E who \in {"holder", "other"} : ResolveRef(h, r, who, s)
  \/ GrantRef(h)
  \/ ResolveSecret(h) \/ ResolvePolicy(h) \/ ResolveVersion(h) \/ ResolveEnds(h)
  \/ HandDies(h)

VaultNext ==
  \/ \E h \in Hand : HandNext(h)
  \/ \E r \in Ref : RevokeRef(r) \/ RefExpires(r)
  \/ \E p \in AllowedScopes : CreatePolicy(p)
  \/ SecretExpires \/ SecretAges

VaultSpec == VaultInit /\ [][VaultNext]_vaultVars

-----------------------------------------------------------------------------
(* Properties. *)

VaultTypeOK ==
  /\ secret.life \in {"none", "ACTIVE", "ARCHIVED"}
  /\ secret.current \in 0..MaxSecretVersion /\ secret.rows \subseteq 1..MaxSecretVersion
  /\ \A r \in Ref : ref[r].scope \in VaultScope \union {Nowhere}
  /\ refPolicies \subseteq AllowedScopes
  /\ aged \in BOOLEAN
  /\ \A h \in Hand : hand[h].ver \in 0..MaxSecretVersion

\* A secret once created always has the version it calls the current one,
\* however rotations, deaths between their statements and archival interleave:
\* resolve() of it never ends in "Version not found".
CurrentReadable == secret.made => secret.current \in secret.rows

\* Two rotations at a time never take the secret back to an older value.
RotatesForward == secret'.current >= secret.current
RotationForward == [][RotatesForward]_vaultVars

\* revoke_ref() is immediate and archive_secret() revokes all: a resolve()
\* that begins after the reference was revoked, the secret archived or its use
\* restricted returns no plaintext, not even through a reference that was
\* granted while archive_secret() was at work.
ResolvesOpenOnly == \A h \in Hand : hand[h].pc = "plaintext" => hand[h].open

\* resolve(): "Every attempt is logged."
EveryAttemptLogged ==
  \A h \in Hand : hand[h].pc \in {"plaintext", "denied"} => hand[h].logged

=============================================================================
