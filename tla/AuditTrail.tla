--------------------------- MODULE AuditTrail ---------------------------
(***************************************************************************)
(* The audit trail of the 1.x framework (src/legacy/v1/scoped/audit): the  *)
(* writers of several server processes extend one hash chain in a shared   *)
(* table, retention thins it out, and verification walks it in chunks.     *)
(*                                                                         *)
(* compute_hash() covers an entry's random id, so the id stands for the    *)
(* hash and an entry's `prev` for its previous_hash ("" is 0).  Ids are    *)
(* handed out in the order of the clock: an entry's `at`, its timestamp.   *)
(***************************************************************************)
EXTENDS Naturals, FiniteSets, FiniteSetsExt

CONSTANTS
  Process,      \* the server processes, each with one AuditWriter
  SeqRetries,   \* _MAX_SEQUENCE_RETRIES; 0 where the backend wraps its errors
  MaxIds,       \* bound on the entries ever built
  BatchSizes,   \* entries per call: {1} for record(), more for record_batch()
  LongHorizon,  \* retention keeps the newest entry, and all that is newer than the
                \* tail a call in progress has read
  ChunkSize,    \* chunk_size of verify_chain()
  MaxStarts     \* bound on process starts

ASSUME AuditAssumption ==
  /\ SeqRetries \in Nat /\ MaxIds \in Nat /\ MaxStarts \in Nat
  /\ BatchSizes \subseteq Nat \ {0}
  /\ LongHorizon \in BOOLEAN
  /\ ChunkSize \in Nat \ {0}

VARIABLES
  trail,        \* the audit_trail table: a function on the sequences in use
  writer,       \* per process: _sequence, _last_hash and the call it is in
  ids,          \* ids handed out so far
  starts,       \* process starts so far
  retention,    \* the AuditRetention.apply() under way
  verifier,     \* the verify_chain() under way, or its verdict
  purged        \* retention has removed entries since verification began

auditVars == <<trail, writer, ids, starts, retention, verifier, purged>>

\* TraceEntry: `state` is whether its before/after states are still there.
Entry == [id : 1..MaxIds, at : 1..MaxIds, prev : 0..MaxIds, state : BOOLEAN]

\* A writer's memory.  `base` is the id of the first entry of the batch in hand.
Writer == [pc : {"down", "idle", "insert", "retry"}, seq : Nat, last : 0..MaxIds,
           attempt : 0..SeqRetries, size : BatchSizes \union {0}, base : 0..MaxIds]

Down == [pc |-> "down", seq |-> 0, last |-> 0, attempt |-> 0, size |-> 0, base |-> 0]

Sequences == DOMAIN trail
LastSequence == IF Sequences = {} THEN 0 ELSE Max(Sequences)

\* _seed_chain(): the latest sequence and its hash.
SeedChain ==
  IF Sequences = {} THEN [seq |-> 0, last |-> 0]
  ELSE [seq |-> LastSequence, last |-> trail[LastSequence].id]

AuditInit ==
  /\ trail = [s \in {} |-> 0]
  /\ writer = [p \in Process |-> Down]
  /\ ids = 0
  /\ starts = 0
  /\ retention = [pc |-> "idle", cutoff |-> 0]
  /\ verifier = [pc |-> "idle", from |-> 1, prev |-> 0, verdict |-> TRUE]
  /\ purged = FALSE

-----------------------------------------------------------------------------
(* Writers. *)

\* AuditWriter.__init__() in a process that starts.
StartWriter(p) ==
  /\ writer[p].pc = "down"
  /\ starts < MaxStarts
  /\ starts' = starts + 1
  /\ writer' = [writer EXCEPT ![p] = [Down EXCEPT !.pc = "idle", !.seq = SeedChain.seq,
                                                  !.last = SeedChain.last]]
  /\ UNCHANGED <<trail, ids, retention, verifier, purged>>

\* The process dies, between any two statements.
StopWriter(p) ==
  /\ writer[p].pc # "down"
  /\ writer' = [writer EXCEPT ![p] = Down]
  /\ UNCHANGED <<trail, ids, starts, retention, verifier, purged>>

\* Mutant: what is in memory is taken to be current.
NeverReseeded(w) == w

\* _reseed_if_stale(): another process has moved on.
Reseeded(w) ==
  IF SeedChain.seq > w.seq THEN [w EXCEPT !.seq = SeedChain.seq, !.last = SeedChain.last]
  ELSE w

\* record() or record_batch() reads the tail and builds its n entries, in its
\* first attempt or again after a collision.
BuildEntries(p, n) ==
  /\ \/ writer[p].pc = "idle"
     \/ writer[p].pc = "retry" /\ n = writer[p].size
  /\ ids + n <= MaxIds
  /\ ids' = ids + n
  /\ writer' = [writer EXCEPT ![p] =
       [Reseeded(@) EXCEPT !.pc = "insert", !.size = n, !.base = ids + 1]]
  /\ UNCHANGED <<trail, starts, retention, verifier, purged>>

\* The rows of the batch in hand: consecutive, and linked to one another.
Batch(w) ==
  [s \in (w.seq + 1)..(w.seq + w.size) |->
     LET id == w.base + (s - w.seq - 1)
     IN  [id |-> id, at |-> w.base,
          prev |-> IF s = w.seq + 1 THEN w.last ELSE id - 1, state |-> TRUE]]

\* Mutant: the index is missing and the later row is kept.
NoIndex(w) == FALSE

\* uq_audit_sequence: the index that makes sequences unique.
Collides(w) == DOMAIN Batch(w) \intersect Sequences # {}

\* The transaction of record()/record_batch(): all rows or none, then memory.
PersistEntries(p) ==
  LET w == writer[p] IN
  /\ w.pc = "insert"
  /\ ~Collides(w)
  /\ trail' = [s \in Sequences \union DOMAIN Batch(w) |->
                 IF s \in DOMAIN Batch(w) THEN Batch(w)[s] ELSE trail[s]]
  /\ writer' = [writer EXCEPT ![p] =
       [Down EXCEPT !.pc = "idle", !.seq = w.seq + w.size, !.last = w.base + w.size - 1]]
  /\ UNCHANGED <<ids, starts, retention, verifier, purged>>

\* A collision: try again, or raise after the last attempt.  Memory is as
\* before the attempt.
SequenceCollision(p) ==
  LET w == writer[p] IN
  /\ w.pc = "insert"
  /\ Collides(w)
  /\ writer' = [writer EXCEPT ![p] =
       IF w.attempt < SeqRetries
       THEN [w EXCEPT !.pc = "retry", !.attempt = @ + 1]
       ELSE [Down EXCEPT !.pc = "idle", !.seq = w.seq, !.last = w.last]]
  /\ UNCHANGED <<trail, ids, starts, retention, verifier, purged>>

-----------------------------------------------------------------------------
(* AuditRetention. *)

Kept(K) == [s \in K |-> trail[s]]

\* Horizons are configured in days and thousands of entries, a call takes
\* milliseconds: where LongHorizon holds, retention is never that close behind.
Recent(s) ==
  \/ s = LastSequence
  \/ \E p \in Process : writer[p].pc = "insert" /\ s > writer[p].seq

MayKeep(K) == LongHorizon => {s \in Sequences : Recent(s)} \subseteq K

\* apply(), delete by age: whatever is older than a cutoff.
DeleteByAge ==
  /\ retention.pc = "idle"
  /\ \E cutoff \in 1..(ids + 1) :
       LET K == {s \in Sequences : trail[s].at >= cutoff} IN
       /\ K # Sequences
       /\ MayKeep(K)
       /\ trail' = Kept(K)
  /\ retention' = [retention EXCEPT !.pc = "count"]
  /\ purged' = TRUE
  /\ UNCHANGED <<writer, ids, starts, verifier>>

\* apply(), delete by number: the newest n are to stay, so the one after them
\* gives the cutoff ...
FindCutoff(n) ==
  /\ retention.pc \in {"idle", "count"}
  /\ Cardinality(Sequences) > n
  /\ retention' = [pc |-> "delete",
                   cutoff |-> CHOOSE s \in Sequences :
                                Cardinality({t \in Sequences : t > s}) = n]
  /\ UNCHANGED <<trail, writer, ids, starts, verifier, purged>>

\* ... of a second statement.
DeleteToCutoff ==
  /\ retention.pc = "delete"
  /\ LET K == {s \in Sequences : s > retention.cutoff} IN
     /\ MayKeep(K)
     /\ trail' = Kept(K)
  /\ retention' = [pc |-> "compact", cutoff |-> 0]
  /\ purged' = TRUE
  /\ UNCHANGED <<writer, ids, starts, verifier>>

\* compact(): the states go, the hashes stay.
Compact ==
  /\ retention.pc \in {"idle", "count", "compact"}
  /\ \E s \in Sequences : trail[s].state
  /\ trail' = [s \in Sequences |-> [trail[s] EXCEPT !.state = FALSE]]
  /\ retention' = [pc |-> "idle", cutoff |-> 0]
  /\ UNCHANGED <<writer, ids, starts, verifier, purged>>

\* apply() without one of its later steps.
EndRetention ==
  /\ retention.pc \in {"count", "compact"}
  /\ retention' = [pc |-> "idle", cutoff |-> 0]
  /\ UNCHANGED <<trail, writer, ids, starts, verifier, purged>>

-----------------------------------------------------------------------------
(* AuditQuery.verify_chain(). *)

\* A SELECT of the rows from a sequence on, LIMIT chunk_size.
Chunk(from) ==
  {s \in Sequences : s >= from /\ Cardinality({t \in Sequences : from <= t /\ t < s}) < ChunkSize}

\* Mutant: the first row there is must be the first there was.
GenesisOnly(K, first, prev) ==
  \A s \in K :
    LET below == {t \in K : t < s} IN
    trail[s].prev = IF below # {} THEN trail[Max(below)].id ELSE prev

\* Is every row of the chunk linked to the one before it?  The first row of
\* all is linked to nothing.
ChunkLinked(K, first, prev) ==
  \A s \in K :
    LET below == {t \in K : t < s} IN
    IF below # {} THEN trail[s].prev = trail[Max(below)].id
    ELSE first \/ trail[s].prev = prev

VerifyBegins ==
  /\ verifier.pc # "walking"
  /\ verifier' = [pc |-> "walking", from |-> 1, prev |-> 0, verdict |-> TRUE]
  /\ purged' = FALSE
  /\ UNCHANGED <<trail, writer, ids, starts, retention>>

VerifyChunk ==
  LET K == Chunk(verifier.from)
      ok == ChunkLinked(K, verifier.prev = 0, verifier.prev)
  IN
  /\ verifier.pc = "walking"
  /\ verifier' =
       IF ok /\ Cardinality(K) = ChunkSize
       THEN [verifier EXCEPT !.from = Max(K) + 1, !.prev = trail[Max(K)].id]
       ELSE [pc |-> "done", from |-> 1, prev |-> 0, verdict |-> ok]
  /\ UNCHANGED <<trail, writer, ids, starts, retention, purged>>

-----------------------------------------------------------------------------
WriterNext(p) ==
  \/ StartWriter(p)
  \/ StopWriter(p)
  \/ \E n \in BatchSizes : BuildEntries(p, n)
  \/ PersistEntries(p)
  \/ SequenceCollision(p)

RetentionNext ==
  \/ DeleteByAge
  \/ \E n \in 1..MaxIds : FindCutoff(n)
  \/ DeleteToCutoff
  \/ Compact
  \/ EndRetention

VerifyNext == VerifyBegins \/ VerifyChunk

AuditNext == (\E p \in Process : WriterNext(p)) \/ RetentionNext \/ VerifyNext

AuditSpec == AuditInit /\ [][AuditNext]_auditVars

-----------------------------------------------------------------------------
(* Properties. *)

AuditTypeOK ==
  /\ Sequences \subseteq 1..MaxIds
  /\ \A s \in Sequences : trail[s] \in Entry
  /\ writer \in [Process -> Writer]
  /\ ids \in 0..MaxIds /\ starts \in 0..MaxStarts
  /\ retention \in [pc : {"idle", "count", "delete", "compact"}, cutoff : 0..MaxIds]
  /\ verifier \in [pc : {"idle", "walking", "done"}, from : 1..(MaxIds + 1),
                   prev : 0..MaxIds, verdict : BOOLEAN]
  /\ purged \in BOOLEAN

\* "Hash chain integrity is preserved for the remaining entries"
\* (AuditRetention): whatever writers of several processes, collisions,
\* restarts and retention do, what is left of the trail is one stretch of
\* consecutive sequences in which every entry is linked to the one before it.
ChainIntact ==
  \A s \in Sequences :
    s # LastSequence => s + 1 \in Sequences /\ trail[s + 1].prev = trail[s].id

\* verify_chain() of a trail that retention leaves alone never reports a
\* break, in however many chunks it reads it while entries are added.
NoFalseAlarm == verifier.verdict \/ purged

\* An entry once persisted is never changed, but for its compacted states: not
\* by a later writer, not by retention.
KeepsEntries ==
  \A s \in Sequences \intersect DOMAIN trail' :
    [trail'[s] EXCEPT !.state = TRUE] = [trail[s] EXCEPT !.state = TRUE]
AppendOnly == [][KeepsEntries]_auditVars

=============================================================================
