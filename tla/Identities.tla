----------------------------- MODULE Identities -----------------------------
(***************************************************************************)
(* Principals and the registry of the 1.x framework (identity/principal.py *)
(* and registry/).  create_principal() registers the principal in the      *)
(* process' registry, saves the entry to the database and inserts the      *)
(* principal, in three steps of which any may fail; the registry is lost   *)
(* when the process restarts and is not loaded again.  The registry holds  *)
(* a lock through each of its operations, so each is one step.             *)
(***************************************************************************)
EXTENDS Naturals, Sequences, FiniteSets

CONSTANTS
  Person,        \* principal ids, each with its URN principal:identity:kind:id
  Maker,         \* threads that create principals
  MaxEntries,    \* bound on registry entries ever made
  MaxBoots       \* bound on restarts of the process

ASSUME IdentityAssumption == MaxEntries \in Nat /\ MaxBoots \in Nat

VARIABLES
  entries,       \* every entry ever registered: its URN, lifecycle, whether archive()d,
                 \* and the boot of the process whose registry holds it
  byUrn,         \* the registry's _by_urn: entry number, 0 for none
  frozen,        \* the registry is frozen
  entryRows,     \* table registry_entries: entry number by URN (urn is UNIQUE), 0 for none
  people,        \* table principals: registry_entry_id by principal, 0 for no row
  maker,         \* per thread: the create_principal() under way
  meddled,       \* an entry that archive() had freed was archived or transitioned again
  boots

identityVars == <<entries, byUrn, frozen, entryRows, people, maker, meddled, boots>>

NoCall == [pc |-> "none", entry |-> 0]

IdentityInit ==
  /\ entries = <<>>
  /\ byUrn = [p \in Person |-> 0]
  /\ frozen = FALSE
  /\ entryRows = [p \in Person |-> 0]
  /\ people = [p \in Person |-> 0]
  /\ maker = [m \in Maker |-> NoCall]
  /\ meddled = FALSE
  /\ boots = 0

\* Entries of the registry of the running process.
Held == {e \in 1..Len(entries) : entries[e].boot = boots}

-----------------------------------------------------------------------------
(* PrincipalStore. *)

\* Mutant: the URN is not looked up.
AnyUrn(p) == TRUE

UrnFree(p) == byUrn[p] = 0

\* register() raises when the registry is frozen or the URN is taken.
RegisterPrincipal(m, p) ==
  LET e == Len(entries) + 1 IN
  /\ maker[m].pc = "none"
  /\ e <= MaxEntries
  /\ ~frozen /\ UrnFree(p)
  /\ entries' = Append(entries, [urn |-> p, lifecycle |-> "active", freed |-> FALSE, boot |-> boots])
  /\ byUrn' = [byUrn EXCEPT ![p] = e]
  /\ maker' = [maker EXCEPT ![m] = [pc |-> "save", entry |-> e]]
  /\ UNCHANGED <<frozen, entryRows, people, meddled, boots>>

\* Mutant: the principal is inserted although the entry was not saved.
SavesAnyway(m, fails) ==
  LET e == maker[m].entry
      p == entries[e].urn IN
  /\ maker[m].pc = "save"
  /\ entryRows' = IF fails \/ entryRows[p] # 0 THEN entryRows ELSE [entryRows EXCEPT ![p] = e]
  /\ maker' = [maker EXCEPT ![m].pc = "insert"]
  /\ UNCHANGED <<entries, byUrn, frozen, people, meddled, boots>>

\* save_entry() inserts a row with a fresh id: if the URN has a row already,
\* or the database fails, create_principal() raises.
SaveEntry(m, fails) ==
  LET e == maker[m].entry
      p == entries[e].urn IN
  /\ maker[m].pc = "save"
  /\ IF fails \/ entryRows[p] # 0
     THEN /\ maker' = [maker EXCEPT ![m] = NoCall]
          /\ UNCHANGED entryRows
     ELSE /\ maker' = [maker EXCEPT ![m].pc = "insert"]
          /\ entryRows' = [entryRows EXCEPT ![p] = e]
  /\ UNCHANGED <<entries, byUrn, frozen, people, meddled, boots>>

InsertPrincipal(m, fails) ==
  LET e == maker[m].entry
      p == entries[e].urn IN
  /\ maker[m].pc = "insert"
  /\ people' = IF fails \/ people[p] # 0 THEN people ELSE [people EXCEPT ![p] = e]
  /\ maker' = [maker EXCEPT ![m] = NoCall]
  /\ UNCHANGED <<entries, byUrn, frozen, entryRows, meddled, boots>>

-----------------------------------------------------------------------------
(* Registry. *)

\* archive() frees the slot of the entry's URN, whoever holds it.
ArchiveEntry(e) ==
  /\ e \in Held
  /\ entries' = [entries EXCEPT ![e].lifecycle = "archived", ![e].freed = TRUE]
  /\ byUrn' = [byUrn EXCEPT ![entries[e].urn] = 0]
  /\ meddled' = (meddled \/ entries[e].freed)
  /\ UNCHANGED <<frozen, entryRows, people, maker, boots>>

\* transition() changes the lifecycle and no index.
TransitionEntry(e, lifecycle) ==
  /\ e \in Held
  /\ entries[e].lifecycle # lifecycle
  /\ entries' = [entries EXCEPT ![e].lifecycle = lifecycle]
  /\ meddled' = (meddled \/ entries[e].freed)
  /\ UNCHANGED <<byUrn, frozen, entryRows, people, maker, boots>>

SetFrozen(now) ==
  /\ frozen # now
  /\ frozen' = now
  /\ UNCHANGED <<entries, byUrn, entryRows, people, maker, meddled, boots>>

\* The process restarts: its registry is a new one, its calls are gone.
Reboot ==
  /\ boots < MaxBoots
  /\ boots' = boots + 1
  /\ byUrn' = [p \in Person |-> 0]
  /\ frozen' = FALSE
  /\ maker' = [m \in Maker |-> NoCall]
  /\ UNCHANGED <<entries, entryRows, people, meddled>>

-----------------------------------------------------------------------------
IdentityNext ==
  \/ \E m \in Maker, p \in Person : RegisterPrincipal(m, p)
  \/ \E m \in Maker, fails \in BOOLEAN : SaveEntry(m, fails) \/ InsertPrincipal(m, fails)
  \/ \E e \in 1..Len(entries) :
       ArchiveEntry(e) \/ \E lifecycle \in {"active", "archived"} : TransitionEntry(e, lifecycle)
  \/ \E now \in BOOLEAN : SetFrozen(now)
  \/ Reboot

IdentitySpec == IdentityInit /\ [][IdentityNext]_identityVars

-----------------------------------------------------------------------------
(* Properties. *)

IdentityTypeOK ==
  /\ \A e \in 1..Len(entries) : entries[e].urn \in Person /\ entries[e].lifecycle \in {"active", "archived"}
  /\ byUrn \in [Person -> 0..Len(entries)]
  /\ entryRows \in [Person -> 0..Len(entries)]
  /\ people \in [Person -> 0..Len(entries)]

\* "Persist registry entry to storage so FK constraints are satisfied": the
\* entry a principal points at is saved, whichever step of which attempt, in
\* whichever process, failed before.
PeopleRegistered == \A p \in Person : people[p] # 0 => entryRows[p] = people[p]

\* No two active entries of the process have one URN.
UrnsUnique ==
  \A e, f \in Held :
    entries[e].urn = entries[f].urn /\ entries[e].lifecycle = "active" /\ entries[f].lifecycle = "active" => e = f

\* "Raises AlreadyRegisteredError if a URN collision occurs": as long as an
\* entry that archive() has freed is left alone, a URN has one active entry at
\* most, and it is the one the registry finds.
OneActivePerUrn ==
  ~meddled =>
    /\ UrnsUnique
    /\ \A e \in Held : entries[e].lifecycle = "active" => byUrn[entries[e].urn] = e

=============================================================================
