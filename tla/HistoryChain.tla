---------------------------- MODULE HistoryChain ----------------------------
(***************************************************************************)
(* What verify_history() (src/pyscoped/history.py) notices when the tables *)
(* are changed by SQL.  Each history is a chain of events with a retained  *)
(* head.  Whoever edits the tables can compute digests, copy events from   *)
(* one history to another, insert, change and delete; PyScoped goes on     *)
(* appending meanwhile.                                                    *)
(*                                                                         *)
(* SHA-256 is modelled as injective: a digest is what it was computed      *)
(* from.                                                                   *)
(***************************************************************************)
EXTENDS Naturals, FiniteSets

CONSTANTS
  Resource,       \* (model label, primary key) pairs
  Payload,        \* actor, action, before, after, ... of an event
  ChainScope,     \* scopes
  MaxAppends,     \* bound on events appended
  MaxEdits        \* bound on edits by SQL

ASSUME ChainAssumption == MaxAppends \in Nat /\ MaxEdits \in Nat

VARIABLES
  rows,           \* AuditEvent rows of each resource, by revision (unique)
  heads,          \* Resource rows
  trueRows,       \* what PyScoped wrote
  trueHeads,
  edits

chainVars == <<rows, heads, trueRows, trueHeads, edits>>

NoDigest == <<>>

\* Mutant: a digest that does not say what came before it.
DigestAlone(resource, event) == <<resource, event.revision, event.scope, event.payload>>

\* event_digest()
EventDigest(resource, event) ==
  <<resource, event.revision, event.scope, event.payload, event.previous>>

Sealed(resource, event) ==
  [revision |-> event.revision, scope |-> event.scope, payload |-> event.payload,
   previous |-> event.previous, digest |-> EventDigest(resource, event)]

ChainInit ==
  /\ rows = [r \in Resource |-> <<>>]
  /\ \E scope \in ChainScope :
       heads = [r \in Resource |-> [scope |-> scope, revision |-> 0, digest |-> NoDigest]]
  /\ trueRows = rows
  /\ trueHeads = heads
  /\ edits = 0

Extended(events, event) ==
  [i \in DOMAIN events \union {event.revision} |-> IF i = event.revision THEN event ELSE events[i]]

\* append_event(), on a head nobody has touched.
AppendToChain(r, payload) ==
  LET event == Sealed(r, [revision |-> heads[r].revision + 1, scope |-> heads[r].scope,
                          payload |-> payload, previous |-> heads[r].digest])
  IN
  /\ heads[r] = trueHeads[r]
  /\ heads[r].revision < MaxAppends
  /\ event.revision \notin DOMAIN rows[r]
  /\ rows' = [rows EXCEPT ![r] = Extended(@, event)]
  /\ trueRows' = [trueRows EXCEPT ![r] = Extended(@, event)]
  /\ heads' = [heads EXCEPT ![r].revision = event.revision, ![r].digest = event.digest]
  /\ trueHeads' = [trueHeads EXCEPT ![r] = heads'[r]]
  /\ UNCHANGED edits

\* verify_history(), of the events in the order of their revisions.
LinkHolds(r, i) ==
  LET event == rows[r][i] IN
  /\ event.previous = IF i = 1 THEN NoDigest ELSE rows[r][i - 1].digest
  /\ event.scope = heads[r].scope
  /\ event.digest = EventDigest(r, event)

\* Mutant: the events agree among themselves.
HeadIgnored(r) == TRUE

HeadHolds(r) ==
  LET n == Cardinality(DOMAIN rows[r]) IN
  /\ heads[r].revision = n
  /\ heads[r].digest = IF n = 0 THEN NoDigest ELSE rows[r][n].digest

VerifyHistory(r) ==
  /\ DOMAIN rows[r] = 1..Cardinality(DOMAIN rows[r])
  /\ \A i \in DOMAIN rows[r] : LinkHolds(r, i)
  /\ HeadHolds(r)

\* Digests anyone can read in the tables.
KnownDigests == {NoDigest} \union UNION {{rows[r][i].digest : i \in DOMAIN rows[r]} : r \in Resource}

Edit == edits < MaxEdits /\ edits' = edits + 1

\* INSERT of an event, or UPDATE, with the digest that was there or one that
\* fits.
EditEvent(r, i) ==
  /\ Edit
  /\ \E scope \in ChainScope, payload \in Payload, previous \in KnownDigests :
       LET forged == Sealed(r, [revision |-> i, scope |-> scope, payload |-> payload, previous |-> previous]) IN
       \E digest \in {forged.digest} \union {rows[r][k].digest : k \in {i} \intersect DOMAIN rows[r]} :
         rows' = [rows EXCEPT ![r] = Extended(@, [forged EXCEPT !.digest = digest])]
  /\ UNCHANGED <<heads, trueRows, trueHeads>>

\* UPDATE of its resource column: the event joins another history.
MoveEvent(r, i, other) ==
  /\ Edit
  /\ i \in DOMAIN rows[r] \ DOMAIN rows[other]
  /\ rows' = [rows EXCEPT ![r] = [k \in DOMAIN @ \ {i} |-> @[k]],
                          ![other] = Extended(@, rows[r][i])]
  /\ UNCHANGED <<heads, trueRows, trueHeads>>

DropEvent(r, i) ==
  /\ Edit
  /\ i \in DOMAIN rows[r]
  /\ rows' = [rows EXCEPT ![r] = [k \in DOMAIN @ \ {i} |-> @[k]]]
  /\ UNCHANGED <<heads, trueRows, trueHeads>>

EditHead(r) ==
  /\ Edit
  /\ \E scope \in ChainScope, revision \in 0..MaxAppends, digest \in KnownDigests :
       heads' = [heads EXCEPT ![r] = [scope |-> scope, revision |-> revision, digest |-> digest]]
  /\ UNCHANGED <<rows, trueRows, trueHeads>>

-----------------------------------------------------------------------------
ChainNext ==
  \E r \in Resource :
    \/ \E payload \in Payload : AppendToChain(r, payload)
    \/ EditHead(r)
    \/ \E i \in 1..MaxAppends : EditEvent(r, i) \/ DropEvent(r, i) \/ \E other \in Resource : MoveEvent(r, i, other)

ChainSpec == ChainInit /\ [][ChainNext]_chainVars

-----------------------------------------------------------------------------
(* Properties. *)

ChainTypeOK ==
  \A r \in Resource :
    /\ DOMAIN rows[r] \subseteq 1..MaxAppends
    /\ heads[r].scope \in ChainScope /\ heads[r].revision \in 0..MaxAppends

\* docs/guarantees.md: "Verification checks revisions, hashes, scope, and the
\* retained head; it detects a removed tail when the head remains."  Of a
\* history that has events, no change of the events alone, however consistent
\* in itself and however long ago, nor of the head alone, is reported valid;
\* and an untouched history is.
TamperingShows ==
  \A r \in Resource : DOMAIN trueRows[r] # {} =>
    /\ heads[r] = trueHeads[r] => (VerifyHistory(r) <=> rows[r] = trueRows[r])
    /\ rows[r] = trueRows[r] => (VerifyHistory(r) <=> heads[r] = trueHeads[r])

=============================================================================
