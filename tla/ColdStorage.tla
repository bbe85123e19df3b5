---------------------------- MODULE ColdStorage ----------------------------
(***************************************************************************)
(* Storage tiers and glacial archives of the 1.x framework                 *)
(* (storage/tiering.py, storage/archival.py), and the rows of              *)
(* object_versions that updates add and rollbacks delete                   *)
(* (objects/manager.py, temporal/rollback.py).  Retention policies are     *)
(* evaluated in one call and their candidates applied in a later one,      *)
(* version by version; an archive collects its objects one query at a      *)
(* time, is sealed, and may be deleted while it is not.  Others come in    *)
(* between any two statements.                                             *)
(*                                                                         *)
(* One version has a tier, and lifecycle_state conditions stand for both   *)
(* kinds of condition: they may or may not match when evaluated.           *)
(***************************************************************************)
EXTENDS Naturals, Sequences, SequencesExt

CONSTANTS
  Keeper,           \* threads
  Item,             \* archived objects
  MaxItemVersion,   \* bound on version numbers of an object
  MaxPolicyCount    \* bound on policies

ASSUME ColdAssumption == MaxItemVersion \in Nat \ {0} /\ MaxPolicyCount \in Nat

\* _TIER_RANKS: HOT, WARM, COLD, GLACIAL; 4 is no assignment.
Tier == 0..3
NoTier == 4

VARIABLES
  tier,          \* tier_assignments of one version
  tierPolicies,  \* active policies, the latest first: source and target
  versionsOf,    \* per object: the version numbers it has rows for
  archive,       \* the archive: "none", "open", "sealed" or "deleted"
  contents,      \* per object: the versions in it
  keeper,        \* per thread: the call it is in
  sealedCalmly   \* sealed while nobody was about to delete it

coldVars == <<tier, tierPolicies, versionsOf, archive, contents, keeper, sealedCalmly>>

\* No version of any object.
NoRows == [i \in Item |-> {}]

\* A call: the targets still to be applied, each with the place of its policy in
\* the list, the tier they were evaluated for, and whether nobody else has
\* assigned a tier since; the objects still to be collected, what was found,
\* what has been there all along since the call began, and what at any time.
Waiting == [pc |-> "waiting", targets |-> {}, from |-> NoTier, calm |-> TRUE, cooled |-> TRUE,
            items |-> {}, found |-> NoRows, kept |-> NoRows, ever |-> NoRows]

ColdInit ==
  /\ tier = NoTier
  /\ tierPolicies = <<>>
  /\ versionsOf = [i \in Item |-> {1}]
  /\ archive = "none"
  /\ contents = NoRows
  /\ keeper = [k \in Keeper |-> Waiting]
  /\ sealedCalmly = FALSE

-----------------------------------------------------------------------------
(* TierManager. *)

\* Everybody else's evaluation is out of date once k has assigned a tier.
Disturbed(k) ==
  [o \in Keeper |-> IF o # k /\ keeper[o].pc = "apply"
                    THEN [keeper[o] EXCEPT !.calm = FALSE] ELSE keeper[o]]

\* assign_tier() by hand.  Two first assignments at once: one of them fails.
AssignTier(k, to) ==
  /\ keeper[k].pc = "waiting"
  /\ tier' = to
  /\ keeper' = Disturbed(k)
  /\ UNCHANGED <<tierPolicies, versionsOf, archive, contents, sealedCalmly>>

\* Mutant: a policy may also warm things up.
AnyTarget(source, target) == target # source

\* "Target tier must be colder than source tier".
ColderTarget(source, target) == target > source

CreateTierPolicy(source, target) ==
  /\ Len(tierPolicies) < MaxPolicyCount
  /\ ColderTarget(source, target)
  /\ tierPolicies' = <<[source |-> source, target |-> target]>> \o tierPolicies
  /\ UNCHANGED <<tier, versionsOf, archive, contents, keeper, sealedCalmly>>

ArchiveTierPolicy(n) ==
  /\ tierPolicies' = RemoveAt(tierPolicies, n)
  /\ UNCHANGED <<tier, versionsOf, archive, contents, keeper, sealedCalmly>>

\* The targets of the policies in S, with their places in list_policies().
Candidates(S) == {<<n, tierPolicies[n].target>> : n \in S}

\* evaluate_policies(): any of the policies for the version's tier may match.
\* It is one step: who assigns a tier between its queries disturbs it as who
\* does after them.
EvaluatePolicies(k) ==
  /\ keeper[k].pc = "waiting"
  /\ \E S \in SUBSET {n \in 1..Len(tierPolicies) : tierPolicies[n].source = tier} :
       /\ S # {}
       /\ keeper' = [keeper EXCEPT ![k] =
                       [Waiting EXCEPT !.pc = "apply", !.targets = Candidates(S), !.from = tier]]
  /\ UNCHANGED <<tier, tierPolicies, versionsOf, archive, contents, sealedCalmly>>

\* apply_transitions(): the next candidate in the order of the list, whatever
\* tier the version is in by now.
ApplyTransition(k) ==
  /\ keeper[k].pc = "apply"
  /\ \E c \in keeper[k].targets :
       LET rest == keeper[k].targets \ {c} IN
       /\ \A d \in keeper[k].targets : c[1] <= d[1]
       /\ tier' = c[2]
       /\ keeper' = [Disturbed(k) EXCEPT ![k] =
                       IF rest # {} THEN [keeper[k] EXCEPT !.targets = rest]
                       ELSE [Waiting EXCEPT !.cooled = c[2] > keeper[k].from \/ ~keeper[k].calm]]
  /\ UNCHANGED <<tierPolicies, versionsOf, archive, contents, sealedCalmly>>

-----------------------------------------------------------------------------
(* ArchiveManager. *)

\* Rows of object i come or go while archives are collected.
Seeing(c, i, gone, come) == [c EXCEPT !.kept[i] = @ \ gone, !.ever[i] = @ \union come]

Noticed(i, gone, come) ==
  [k \in Keeper |-> IF keeper[k].pc = "collect" THEN Seeing(keeper[k], i, gone, come) ELSE keeper[k]]

\* An update of an object, by ScopedManager: version current + 1, and the
\* pointer may stand at any, a number may be free again.
AddVersion(i, v) ==
  /\ v \notin versionsOf[i]
  /\ versionsOf' = [versionsOf EXCEPT ![i] = @ \union {v}]
  /\ keeper' = Noticed(i, {}, {v})
  /\ UNCHANGED <<tier, tierPolicies, archive, contents, sealedCalmly>>

\* RollbackExecutor deletes the row of the update it takes back; there is none
\* for the first version.
DeleteVersion(i, v) ==
  /\ v \in versionsOf[i] /\ v # 1
  /\ versionsOf' = [versionsOf EXCEPT ![i] = @ \ {v}]
  /\ keeper' = Noticed(i, {v}, {})
  /\ UNCHANGED <<tier, tierPolicies, archive, contents, sealedCalmly>>

BeginArchive(k) ==
  /\ keeper[k].pc = "waiting"
  /\ archive = "none" /\ \A o \in Keeper : keeper[o].pc # "collect"
  /\ keeper' = [keeper EXCEPT ![k] = [Waiting EXCEPT !.pc = "collect", !.items = Item,
                                                     !.kept = versionsOf, !.ever = versionsOf]]
  /\ UNCHANGED <<tier, tierPolicies, versionsOf, archive, contents, sealedCalmly>>

CollectVersions(k, i) ==
  /\ keeper[k].pc = "collect"
  /\ i \in keeper[k].items
  /\ keeper' = [keeper EXCEPT ![k].found[i] = versionsOf[i], ![k].items = @ \ {i}]
  /\ UNCHANGED <<tier, tierPolicies, versionsOf, archive, contents, sealedCalmly>>

\* Mutant: what was found first is stored, and the last object forgotten.
StoreEarly(k) ==
  /\ keeper[k].pc = "collect"
  /\ \E i \in Item : keeper[k].items = {i}
  /\ archive' = "open"
  /\ contents' = keeper[k].found
  /\ keeper' = [keeper EXCEPT ![k].pc = "stored"]
  /\ UNCHANGED <<tier, tierPolicies, versionsOf, sealedCalmly>>

StoreArchive(k) ==
  /\ keeper[k].pc = "collect"
  /\ keeper[k].items = {}
  /\ archive' = "open"
  /\ contents' = keeper[k].found
  /\ keeper' = [keeper EXCEPT ![k].pc = "stored"]
  /\ UNCHANGED <<tier, tierPolicies, versionsOf, sealedCalmly>>

ArchiveReturns(k) ==
  /\ keeper[k].pc = "stored"
  /\ keeper' = [keeper EXCEPT ![k] = Waiting]
  /\ UNCHANGED <<tier, tierPolicies, versionsOf, archive, contents, sealedCalmly>>

\* Mutant: sealed or not.
AnyArchive == archive \in {"open", "sealed"}

Unsealed == archive = "open"

\* seal_archive() and delete_archive() look first and act in a later statement
\* that does not look again.
SealChecks(k) ==
  /\ keeper[k].pc = "waiting" /\ archive = "open"
  /\ keeper' = [keeper EXCEPT ![k] = [Waiting EXCEPT !.pc = "seal"]]
  /\ UNCHANGED <<tier, tierPolicies, versionsOf, archive, contents, sealedCalmly>>

DeleteChecks(k) ==
  /\ keeper[k].pc = "waiting" /\ Unsealed
  /\ keeper' = [keeper EXCEPT ![k] = [Waiting EXCEPT !.pc = "delete"]]
  /\ UNCHANGED <<tier, tierPolicies, versionsOf, archive, contents, sealedCalmly>>

SealArchive(k) ==
  /\ keeper[k].pc = "seal"
  /\ archive' = IF archive = "deleted" THEN archive ELSE "sealed"
  /\ sealedCalmly' = (archive # "deleted" /\ \A o \in Keeper : keeper[o].pc # "delete")
  /\ keeper' = [keeper EXCEPT ![k] = Waiting]
  /\ UNCHANGED <<tier, tierPolicies, versionsOf, contents>>

DeleteArchive(k) ==
  /\ keeper[k].pc = "delete"
  /\ archive' = "deleted"
  /\ keeper' = [keeper EXCEPT ![k] = Waiting]
  /\ UNCHANGED <<tier, tierPolicies, versionsOf, contents, sealedCalmly>>

-----------------------------------------------------------------------------
TiersNext ==
  \/ \E s \in Tier, d \in Tier : CreateTierPolicy(s, d)
  \/ \E n \in 1..Len(tierPolicies) : ArchiveTierPolicy(n)
  \/ \E k \in Keeper :
       \/ \E to \in Tier : AssignTier(k, to)
       \/ EvaluatePolicies(k) \/ ApplyTransition(k)

ArchivesNext ==
  \/ \E i \in Item, v \in 1..MaxItemVersion : AddVersion(i, v) \/ DeleteVersion(i, v)
  \/ \E k \in Keeper :
       \/ BeginArchive(k) \/ StoreArchive(k) \/ ArchiveReturns(k)
       \/ \E i \in Item : CollectVersions(k, i)
       \/ SealChecks(k) \/ SealArchive(k) \/ DeleteChecks(k) \/ DeleteArchive(k)

ColdNext == TiersNext \/ ArchivesNext

ColdSpec == ColdInit /\ [][ColdNext]_coldVars

-----------------------------------------------------------------------------
(* Properties. *)

ColdTypeOK ==
  /\ tier \in Tier \union {NoTier}
  /\ \A n \in 1..Len(tierPolicies) : tierPolicies[n] \in [source : Tier, target : Tier]
  /\ versionsOf \in [Item -> SUBSET (1..MaxItemVersion)]
  /\ archive \in {"none", "open", "sealed", "deleted"}
  /\ contents \in [Item -> SUBSET (1..MaxItemVersion)]
  /\ \A k \in Keeper : keeper[k].pc \in {"waiting", "apply", "collect", "stored", "seal", "delete"}
  /\ sealedCalmly \in BOOLEAN

\* Policies only cool: however many of them matched, and in whatever order they
\* are applied, undisturbed they leave a version colder than they found it.
PoliciesCool == \A k \in Keeper : keeper[k].cooled

\* create_archive() "collects all versions of the specified objects", whatever
\* is added or rolled back meanwhile: each version that was there from its
\* beginning to its end is in the archive, and none that never was.
ArchiveCovers ==
  \A k \in Keeper : keeper[k].pc = "stored" =>
    \A i \in Item : keeper[k].kept[i] \subseteq contents[i] /\ contents[i] \subseteq keeper[k].ever[i]

\* "Once sealed, the archive cannot be modified or deleted", if nobody was about
\* to delete it.
SealedStays == sealedCalmly => archive = "sealed"

=============================================================================
