---------------------------- MODULE AuditProofs -----------------------------
(***************************************************************************)
(* Proofs about AuditTrail: for any number of processes, entries, retries  *)
(* and chunks, what retention and colliding writers leave is one linked    *)
(* chain, and verification, in however many chunks, raises no false alarm. *)
(***************************************************************************)
EXTENDS AuditTrail, FiniteSetTheorems, WellFoundedInduction, TLAPS

-----------------------------------------------------------------------------
(* Numbers.                                                                *)

\* A set of natural numbers that is not empty has a least element.
LEMMA LeastNatural == ASSUME NEW S \in SUBSET Nat, S # {} PROVE \E m \in S : \A n \in S : m <= n
<1> DEFINE R == {ss \in Nat \X Nat : ss[1] < ss[2]}
<1>1. IsWellFoundedOn(R, Nat)
  BY NatLessThanWellFounded DEF OpToRel
<1> HIDE DEF R
<1>2. PICK m \in S : \A n \in S : <<n, m>> \notin R
  BY <1>1, WFMin
<1>3. \A n \in S : ~(n < m)
  BY <1>2 DEF R
<1>4. QED
  BY <1>3

\* One that is bounded has a greatest.
LEMMA GreatestNatural ==
  ASSUME NEW n \in Nat, NEW S \in SUBSET (0..n), S # {}
  PROVE  Max(S) \in S /\ \A s \in S : s <= Max(S)
<1> DEFINE D == {n - s : s \in S}
<1>1. D \in SUBSET Nat /\ D # {}
  <2>1. ASSUME NEW s \in S PROVE n - s \in Nat
    <3>1. s \in 0..n
      OBVIOUS
    <3>2. QED
      BY <3>1
  <2>2. QED
    BY <2>1
<1>2. PICK d \in D : \A e \in D : d <= e
  BY <1>1, LeastNatural
<1>3. PICK b \in S : d = n - b
  OBVIOUS
<1>4. \A s \in S : b >= s
  <2>1. ASSUME NEW s \in S PROVE b >= s
    <3>1. n - s \in D
      OBVIOUS
    <3>2. n - b <= n - s
      BY <1>2, <1>3, <3>1
    <3>3. b \in Nat /\ s \in Nat
      OBVIOUS
    <3>4. QED
      BY <3>2, <3>3
  <2>2. QED
    BY <2>1
<1>5. Max(S) \in S /\ \A s \in S : Max(S) >= s
  BY <1>4 DEF Max
<1>6. \A s \in S : s \in Nat /\ Max(S) \in Nat
  BY <1>5
<1>7. QED
  BY <1>5, <1>6

\* The greatest element is the only one that is at least every other.
LEMMA MaxIs ==
  ASSUME NEW S \in SUBSET Nat, NEW b \in S, \A s \in S : s <= b
  PROVE  Max(S) = b
<1>1. \A s \in S : b >= s /\ s \in Nat /\ b \in Nat
  OBVIOUS
<1>2. Max(S) \in S /\ \A s \in S : Max(S) >= s
  BY <1>1 DEF Max
<1>3. Max(S) \in Nat /\ Max(S) >= b /\ Max(S) <= b
  BY <1>1, <1>2
<1>4. QED
  BY <1>1, <1>3

-----------------------------------------------------------------------------
(* The audit trail.                                                        *)

\* LastSequence of a trail T.
Newest(T) == IF DOMAIN T = {} THEN 0 ELSE Max(DOMAIN T)

\* A trail whose ids go up to n: its sequences are consecutive, its entries
\* linked, and no entry is older than the one before it.
TrailOK(T, n) ==
  /\ DOMAIN T \subseteq 1..n
  /\ \A s \in DOMAIN T : T[s] \in Entry /\ T[s].id <= n /\ T[s].at <= n
  /\ \A s, t \in DOMAIN T, u \in Nat : s <= u /\ u <= t => u \in DOMAIN T
  /\ \A s \in DOMAIN T : s + 1 \in DOMAIN T => T[s + 1].prev = T[s].id
  /\ \A s, t \in DOMAIN T : s <= t => T[s].at <= T[t].at

\* What a writer's memory has to do with the trail.  While it inserts, nothing
\* is missing between what it read and the newest entry.
WriterKnows(w, T, n) ==
  /\ w.seq <= Newest(T)
  /\ w.pc # "down" /\ w.seq = Newest(T) =>
       w.last = IF DOMAIN T = {} THEN 0 ELSE T[Newest(T)].id
  /\ w.pc = "insert" =>
       /\ w.size \in BatchSizes /\ w.base >= 1
       /\ w.seq + w.size <= n /\ w.base + w.size <= n + 1
       /\ w.seq < Newest(T) => w.seq + 1 \in DOMAIN T
       /\ w.seq = Newest(T) /\ DOMAIN T # {} => T[Newest(T)].at < w.base

\* While verification walks and nothing is purged, it knows the id of the row
\* before the next one.
VerifierKnows(v, T) ==
  v.prev = 0 \/ (v.from - 1 \in DOMAIN T /\ v.prev = T[v.from - 1].id)

AuditTyped ==
  /\ writer \in [Process -> Writer]
  /\ ids \in 0..MaxIds /\ starts \in 0..MaxStarts
  /\ retention \in [pc : {"idle", "count", "delete", "compact"}, cutoff : 0..MaxIds]
  /\ verifier \in [pc : {"idle", "walking", "done"}, from : 1..(MaxIds + 1),
                   prev : 0..MaxIds, verdict : BOOLEAN]
  /\ purged \in BOOLEAN

AuditInv ==
  /\ AuditTyped
  /\ TrailOK(trail, ids)
  /\ \A p \in Process : WriterKnows(writer[p], trail, ids)
  /\ verifier.verdict = TRUE \/ purged = TRUE
  /\ verifier.pc = "walking" =>
       verifier.verdict = TRUE /\ (purged = FALSE => VerifierKnows(verifier, trail))

\* The newest sequence of a trail, and which others it has.
LEMMA NewestIs ==
  ASSUME NEW T, NEW n \in Nat, DOMAIN T \subseteq 1..n
  PROVE  /\ Newest(T) \in 0..n
         /\ DOMAIN T = {} => Newest(T) = 0
         /\ DOMAIN T # {} => Newest(T) \in DOMAIN T /\ Newest(T) >= 1 /\ \A s \in DOMAIN T : s <= Newest(T)
<1>1. CASE DOMAIN T = {}
  BY <1>1 DEF Newest
<1>2. CASE DOMAIN T # {}
  <2>1. DOMAIN T \in SUBSET (0..n)
    OBVIOUS
  <2>2. Max(DOMAIN T) \in DOMAIN T /\ \A s \in DOMAIN T : s <= Max(DOMAIN T)
    BY <1>2, <2>1, GreatestNatural
  <2>3. QED
    BY <1>2, <2>2 DEF Newest
<1>3. QED
  BY <1>1, <1>2

\* More ids leave the trail what it is.
LEMMA TrailWithMoreIds ==
  ASSUME NEW T, NEW n \in Nat, NEW m \in Nat, n <= m, TrailOK(T, n)
  PROVE  TrailOK(T, m)
<1>1. DOMAIN T \subseteq 1..m
  BY DEF TrailOK
<1>2. \A s \in DOMAIN T : T[s].id \in Nat /\ T[s].at \in Nat
  BY DEF TrailOK, Entry
<1>3. \A s \in DOMAIN T : T[s].id <= m /\ T[s].at <= m
  BY <1>2 DEF TrailOK
<1>4. QED
  BY <1>1, <1>3 DEF TrailOK

\* Retention keeps the trail's newer part, and its newest entry.
LEMMA TrailKept ==
  ASSUME NEW T, NEW n \in Nat, TrailOK(T, n), NEW K \in SUBSET DOMAIN T, NEW T2,
         T2 = [s \in K |-> T[s]],
         \A s \in K, t \in DOMAIN T : s <= t => t \in K,
         DOMAIN T # {} => Newest(T) \in K
  PROVE  TrailOK(T2, n) /\ Newest(T2) = Newest(T) /\ (DOMAIN T2 = {} <=> DOMAIN T = {})
<1>1. DOMAIN T2 = K /\ \A s \in K : T2[s] = T[s]
  OBVIOUS
<1>2. TrailOK(T2, n)
  BY <1>1 DEF TrailOK
<1>3. DOMAIN T2 = {} <=> DOMAIN T = {}
  BY <1>1
<1>4. Newest(T2) = Newest(T)
  <2>1. CASE DOMAIN T = {}
    BY <1>3, <2>1 DEF Newest
  <2>2. CASE DOMAIN T # {}
    <3>1. \A s \in DOMAIN T : s <= Newest(T)
      BY <2>2, NewestIs DEF TrailOK
    <3>2. K \in SUBSET Nat
      BY DEF TrailOK
    <3>3. Max(K) = Newest(T)
      BY <2>2, <3>1, <3>2, MaxIs
    <3>4. QED
      BY <1>1, <1>3, <2>2, <3>3 DEF Newest
  <2>3. QED
    BY <2>1, <2>2
<1>5. QED
  BY <1>2, <1>3, <1>4

\* compact().
Compacted(T) == [s \in DOMAIN T |-> [T[s] EXCEPT !.state = FALSE]]

\* Compaction changes nothing but states.
LEMMA TrailCompacted ==
  ASSUME NEW T, NEW n \in Nat, TrailOK(T, n)
  PROVE  /\ TrailOK(Compacted(T), n) /\ Newest(Compacted(T)) = Newest(T) /\ DOMAIN Compacted(T) = DOMAIN T
         /\ \A s \in DOMAIN T : Compacted(T)[s].id = T[s].id /\ Compacted(T)[s].at = T[s].at
<1> DEFINE T2 == Compacted(T)
<1>1. DOMAIN T2 = DOMAIN T /\ \A s \in DOMAIN T : T2[s] = [T[s] EXCEPT !.state = FALSE]
  BY DEF Compacted
<1> HIDE DEF T2
<1>2. ASSUME NEW s \in DOMAIN T
      PROVE T2[s] \in Entry /\ T2[s].id = T[s].id /\ T2[s].at = T[s].at /\ T2[s].prev = T[s].prev
  <2>1. T[s] \in Entry
    BY DEF TrailOK
  <2>2. QED
    BY <1>1, <2>1 DEF Entry
<1>3. TrailOK(T2, n)
  BY <1>1, <1>2 DEF TrailOK
<1>4. Newest(T2) = Newest(T)
  BY <1>1 DEF Newest
<1>5. QED
  BY <1>1, <1>2, <1>3, <1>4 DEF T2

\* The rows of a batch.
LEMMA BatchRows ==
  ASSUME NEW w \in Writer, NEW n \in 0..MaxIds, w.size \in Nat \ {0}, w.base >= 1, w.base + w.size <= n + 1
  PROVE  /\ DOMAIN Batch(w) = (w.seq + 1)..(w.seq + w.size)
         /\ \A s \in (w.seq + 1)..(w.seq + w.size) :
              /\ Batch(w)[s] \in Entry
              /\ Batch(w)[s].id = w.base + (s - w.seq - 1) /\ Batch(w)[s].at = w.base
              /\ s = w.seq + 1 => Batch(w)[s].prev = w.last
              /\ s # w.seq + 1 => Batch(w)[s].prev = w.base + (s - w.seq - 1) - 1
<1> DEFINE a == w.seq
           k == w.size
           b == w.base
<1>1. a \in Nat /\ k \in Nat /\ k >= 1 /\ b \in Nat /\ w.last \in 0..MaxIds /\ MaxIds \in Nat /\ n \in Nat /\ n <= MaxIds
  BY AuditAssumption DEF Writer
<1>2. DOMAIN Batch(w) = (a + 1)..(a + k)
  BY DEF Batch
<1>3. ASSUME NEW s \in (a + 1)..(a + k)
      PROVE /\ Batch(w)[s] \in Entry
            /\ Batch(w)[s].id = b + (s - a - 1) /\ Batch(w)[s].at = b
            /\ s = a + 1 => Batch(w)[s].prev = w.last
            /\ s # a + 1 => Batch(w)[s].prev = b + (s - a - 1) - 1
  <2> DEFINE i == b + (s - a - 1)
             q == IF s = a + 1 THEN w.last ELSE i - 1
  <2>1. Batch(w)[s] = [id |-> i, at |-> b, prev |-> q, state |-> TRUE]
    BY DEF Batch
  <2>2. i \in 1..MaxIds /\ b \in 1..MaxIds /\ q \in 0..MaxIds
    <3> HIDE DEF a, k, b
    <3>1. s \in Nat /\ s >= a + 1 /\ s <= a + k /\ b >= 1 /\ b + k <= n + 1
      BY <1>1 DEF b, k
    <3>2. i \in 1..MaxIds /\ b \in 1..MaxIds
      BY <1>1, <3>1
    <3>3. CASE s = a + 1
      BY <1>1, <3>2, <3>3
    <3>4. CASE s # a + 1
      BY <1>1, <3>1, <3>2, <3>4
    <3>5. QED
      BY <3>2, <3>3, <3>4
  <2>3. (s = a + 1 => q = w.last) /\ (s # a + 1 => q = i - 1)
    OBVIOUS
  <2> DEFINE row == Batch(w)[s]
  <2> HIDE DEF i, q, b, row
  <2>4. row = [id |-> i, at |-> b, prev |-> q, state |-> TRUE]
    BY <2>1 DEF row
  <2>5. row \in Entry /\ row.id = i /\ row.at = b /\ row.prev = q
    BY <2>2, <2>4 DEF Entry
  <2>6. (s = a + 1 => row.prev = w.last) /\ (s # a + 1 => row.prev = i - 1)
    BY <2>3, <2>5
  <2>7. Batch(w)[s] \in Entry /\ Batch(w)[s].at = b
    BY <2>5 DEF row
  <2>8. Batch(w)[s].id = b + (s - a - 1)
    BY <2>5 DEF row, i
  <2>9. s = a + 1 => Batch(w)[s].prev = w.last
    BY <2>6 DEF row
  <2>10. s # a + 1 => Batch(w)[s].prev = b + (s - a - 1) - 1
    <3>1. i - 1 = b + (s - a - 1) - 1
      BY <1>1 DEF i
    <3>2. s # a + 1 => Batch(w)[s].prev = i - 1
      BY <2>6 DEF row
    <3>3. QED
      BY <3>1, <3>2
  <2>11. QED
    BY <2>7, <2>8, <2>9, <2>10
<1>4. QED
  BY <1>2, <1>3

\* T2 is the trail T of at most n entries with a batch of k after the newest.
Extends(T, n, a, k, b, last, T2) ==
  /\ k >= 1 /\ b >= 1 /\ a = Newest(T) /\ a + k <= n /\ b + k <= n + 1
  /\ DOMAIN T # {} => last = T[a].id /\ T[a].at < b
  /\ DOMAIN T2 = DOMAIN T \union (a + 1)..(a + k)
  /\ \A s \in DOMAIN T : T2[s] = T[s]
  /\ \A s \in (a + 1)..(a + k) :
       /\ T2[s] \in Entry
       /\ T2[s].id = b + (s - a - 1) /\ T2[s].at = b
       /\ s = a + 1 => T2[s].prev = last
       /\ s # a + 1 => T2[s].prev = b + (s - a - 1) - 1

\* A batch that follows the newest entry continues the chain.
LEMMA TrailGrows ==
  ASSUME NEW T, NEW n \in Nat, NEW a \in Nat, NEW k \in Nat, NEW b \in Nat, NEW last, NEW T2,
         TrailOK(T, n), Extends(T, n, a, k, b, last, T2)
  PROVE  TrailOK(T2, n) /\ Newest(T2) = a + k /\ T2[a + k].id = b + k - 1
<1> USE DEF Extends
<1> DEFINE I == (a + 1)..(a + k)
<1>1. \A s \in I : s \in Nat /\ s >= a + 1 /\ s <= a + k /\ s >= 1 /\ s <= n
  OBVIOUS
<1>2. \A s \in DOMAIN T : s \in Nat /\ 1 <= s /\ s <= a /\ s <= n
  BY NewestIs DEF TrailOK
<1>3. DOMAIN T # {} => a \in DOMAIN T
  BY NewestIs DEF TrailOK
<1>4. \A s \in I : T2[s] \in Entry /\ T2[s].at = b /\ T2[s].id = b + (s - a - 1)
  OBVIOUS
<1>5. DOMAIN T2 = DOMAIN T \union I
  OBVIOUS
<1>6. \A u \in Nat : u >= a + 1 /\ u <= a + k => u \in I
  OBVIOUS
<1>7. a + 1 \in I /\ T2[a + 1].prev = last
  OBVIOUS
<1>8. \A s \in I : s # a + 1 => T2[s].prev = b + (s - a - 1) - 1
  OBVIOUS
<1> HIDE DEF I
<1>11. DOMAIN T2 \subseteq 1..n
  BY <1>1, <1>2, <1>5
<1>12. ASSUME NEW s \in DOMAIN T2 PROVE T2[s] \in Entry /\ T2[s].id <= n /\ T2[s].at <= n
  <2>1. CASE s \in DOMAIN T
    BY <2>1 DEF TrailOK
  <2>2. CASE s \in I
    BY <1>1, <1>4, <2>2
  <2>3. QED
    BY <1>5, <2>1, <2>2
<1>13. ASSUME NEW s \in DOMAIN T2, NEW t \in DOMAIN T2, NEW u \in Nat, s <= u, u <= t PROVE u \in DOMAIN T2
  <2>1. CASE u >= a + 1
    <3>1. t \in Nat /\ t <= a + k
      BY <1>1, <1>2, <1>5
    <3>2. u <= a + k
      BY <1>13, <3>1
    <3>3. QED
      BY <1>5, <1>6, <2>1, <3>2
  <2>2. CASE ~(u >= a + 1)
    <3>1. s \in Nat /\ u <= a
      BY <1>1, <1>2, <1>5, <2>2
    <3>2. s \notin I
      BY <1>1, <1>13, <2>2, <3>1
    <3>3. s \in DOMAIN T /\ a \in DOMAIN T
      BY <1>3, <1>5, <3>2
    <3>4. u \in DOMAIN T
      BY <1>13, <3>1, <3>3 DEF TrailOK
    <3>5. QED
      BY <1>5, <3>4
  <2>3. QED
    BY <2>1, <2>2
<1>14. ASSUME NEW s \in DOMAIN T2, s + 1 \in DOMAIN T2 PROVE T2[s + 1].prev = T2[s].id
  <2>0. s \in Nat
    BY <1>1, <1>2, <1>5
  <2>1. CASE s \in I
    <3> DEFINE t == s + 1
    <3>1. t \in Nat /\ t > a + 1
      BY <1>1, <2>0, <2>1
    <3> HIDE DEF t
    <3>2. t \notin DOMAIN T
      BY <1>2, <3>1
    <3>3. t \in DOMAIN T2
      BY <1>14 DEF t
    <3>4. t \in I /\ t # a + 1
      <4>1. t \in I
        BY <1>5, <3>2, <3>3, Zenon
      <4>2. t # a + 1
        BY <3>1
      <4>3. QED
        BY <4>1, <4>2
    <3>5. T2[t].prev = b + (t - a - 1) - 1 /\ T2[s].id = b + (s - a - 1)
      BY <1>4, <1>8, <2>1, <3>4
    <3>6. b + (t - a - 1) - 1 = b + (s - a - 1)
      BY <2>0 DEF t
    <3>7. T2[t].prev = T2[s].id
      BY <3>5, <3>6, Zenon
    <3>8. QED
      BY <3>7 DEF t
  <2>2. CASE s \in DOMAIN T /\ s + 1 \in DOMAIN T
    BY <2>2 DEF TrailOK
  <2>3. CASE s \in DOMAIN T /\ s + 1 \notin DOMAIN T
    <3>1. s + 1 \in I /\ s <= a
      BY <1>2, <1>5, <1>14, <2>3
    <3>2. s = a
      BY <1>1, <2>0, <3>1
    <3>3. QED
      BY <1>7, <2>3, <3>2
  <2>4. QED
    BY <1>5, <2>1, <2>2, <2>3
<1>15. ASSUME NEW s \in DOMAIN T2, NEW t \in DOMAIN T2, s <= t PROVE T2[s].at <= T2[t].at
  <2>1. CASE s \in DOMAIN T /\ t \in DOMAIN T
    BY <1>15, <2>1 DEF TrailOK
  <2>2. CASE s \in I /\ t \in I
    BY <1>4, <2>2
  <2>3. CASE s \in I /\ t \in DOMAIN T
    BY <1>1, <1>2, <1>15, <2>3
  <2>4. CASE s \in DOMAIN T /\ t \in I
    <3>1. a \in DOMAIN T /\ T[a].at < b
      BY <1>3, <2>4
    <3>2. T[s].at <= T[a].at /\ T[s] \in Entry /\ T[a] \in Entry
      BY <1>2, <2>4, <3>1 DEF TrailOK
    <3>3. T[s].at \in Nat /\ T[a].at \in Nat
      BY <3>2 DEF Entry
    <3>4. T[s].at <= b
      BY <3>1, <3>2, <3>3
    <3>5. QED
      BY <1>4, <2>4, <3>4
  <2>5. QED
    BY <1>5, <2>1, <2>2, <2>3, <2>4
<1>16. TrailOK(T2, n)
  BY <1>11, <1>12, <1>13, <1>14, <1>15 DEF TrailOK
<1>17. Newest(T2) = a + k
  <2>1. a + k \in DOMAIN T2 /\ \A s \in DOMAIN T2 : s <= a + k
    BY <1>1, <1>2, <1>5, <1>6
  <2>2. DOMAIN T2 \in SUBSET Nat
    BY <1>11
  <2>3. Max(DOMAIN T2) = a + k
    BY <2>1, <2>2, MaxIs
  <2>4. QED
    BY <2>1, <2>3 DEF Newest
<1>18. T2[a + k].id = b + k - 1
  <2>1. a + k \in I
    BY <1>6
  <2>2. T2[a + k].id = b + (a + k - a - 1)
    BY <1>4, <2>1
  <2>3. QED
    BY <2>2
<1>19. QED
  BY <1>16, <1>17, <1>18

\* The invariant holds at the start: an empty trail and no writer.
LEMMA AuditStart == AuditInit => AuditInv
<1> SUFFICES ASSUME AuditInit PROVE AuditInv
  OBVIOUS
<1>1. MaxIds \in Nat /\ MaxStarts \in Nat /\ SeqRetries \in Nat
  BY AuditAssumption
<1>2. DOMAIN trail = {} /\ Newest(trail) = 0
  BY DEF AuditInit, Newest
<1>3. Down \in Writer /\ Down.seq = 0 /\ Down.pc = "down"
  BY <1>1 DEF Down, Writer
<1>4. AuditTyped
  <2>1. writer \in [Process -> Writer]
    BY <1>3 DEF AuditInit
  <2>2. verifier \in [pc : {"idle", "walking", "done"}, from : 1..(MaxIds + 1), prev : 0..MaxIds, verdict : BOOLEAN]
    BY <1>1 DEF AuditInit
  <2>3. retention \in [pc : {"idle", "count", "delete", "compact"}, cutoff : 0..MaxIds]
    BY <1>1 DEF AuditInit
  <2>4. ids \in 0..MaxIds /\ starts \in 0..MaxStarts
    BY <1>1 DEF AuditInit
  <2>5. purged \in BOOLEAN
    BY DEF AuditInit
  <2>6. QED
    BY <2>1, <2>2, <2>3, <2>4, <2>5 DEF AuditTyped
<1>5. TrailOK(trail, ids)
  BY <1>2 DEF TrailOK
<1>6. \A p \in Process : WriterKnows(writer[p], trail, ids)
  BY <1>2, <1>3 DEF AuditInit, WriterKnows
<1>7. verifier.verdict = TRUE /\ verifier.pc = "idle"
  BY DEF AuditInit
<1>8. QED
  BY <1>4, <1>5, <1>6, <1>7 DEF AuditInv

\* LastSequence is the newest of the trail.
LEMMA LastIsNewest == LastSequence = Newest(trail)
  BY DEF LastSequence, Newest, Sequences

\* The invariant gives types, chain and verdicts.
LEMMA AuditHolds == AuditInv => AuditTypeOK /\ ChainIntact /\ NoFalseAlarm
<1> SUFFICES ASSUME AuditInv PROVE AuditTypeOK /\ ChainIntact /\ NoFalseAlarm
  OBVIOUS
<1>1. AuditTyped /\ TrailOK(trail, ids) /\ MaxIds \in Nat /\ ids \in Nat /\ ids <= MaxIds
  BY AuditAssumption DEF AuditInv, AuditTyped
<1>2. AuditTypeOK
  <2>1. DOMAIN trail \subseteq 1..MaxIds
    BY <1>1 DEF TrailOK
  <2>2. QED
    BY <1>1, <2>1 DEF AuditTyped, AuditTypeOK, TrailOK, Sequences
<1>3. ChainIntact
  <2> SUFFICES ASSUME NEW s \in DOMAIN trail, s # Newest(trail)
               PROVE s + 1 \in DOMAIN trail /\ trail[s + 1].prev = trail[s].id
    BY LastIsNewest DEF ChainIntact, Sequences
  <2>1. DOMAIN trail \subseteq 1..ids
    BY <1>1 DEF TrailOK
  <2>2. Newest(trail) \in DOMAIN trail /\ s <= Newest(trail)
    BY <1>1, <2>1, NewestIs
  <2>3. s \in Nat /\ Newest(trail) \in Nat
    BY <2>1, <2>2
  <2>4. s + 1 \in Nat /\ s <= s + 1 /\ s + 1 <= Newest(trail)
    BY <2>2, <2>3
  <2>5. s + 1 \in DOMAIN trail
    BY <1>1, <2>2, <2>4 DEF TrailOK
  <2>6. QED
    BY <1>1, <2>5 DEF TrailOK
<1>4. NoFalseAlarm
  BY DEF AuditInv, NoFalseAlarm
<1>5. QED
  BY <1>2, <1>3, <1>4

\* With more than n entries there is one that has n newer ones.
LEMMA CutoffExists ==
  ASSUME NEW T, NEW m \in Nat, TrailOK(T, m), NEW n \in Nat, Cardinality(DOMAIN T) > n, n >= 1
  PROVE  \E s \in DOMAIN T : Cardinality({t \in DOMAIN T : t > s}) = n
<1> DEFINE S == DOMAIN T
<1>1. S \subseteq 1..m /\ S \subseteq Nat
  BY DEF TrailOK
<1>2. S # {}
  <2>1. Cardinality({}) = 0
    BY FS_EmptySet
  <2>2. QED
    BY <2>1
<1>3. PICK b \in S : \A s \in S : s <= b
  BY <1>1, <1>2, NewestIs
<1>4. PICK a \in S : \A s \in S : a <= s
  BY <1>1, <1>2, LeastNatural
<1>5. a \in Nat /\ b \in Nat /\ a <= b
  BY <1>1, <1>3
<1>6. S = a..b
  <2>1. ASSUME NEW u \in a..b PROVE u \in S
    <3>1. u \in Nat /\ a <= u /\ u <= b
      BY <1>5
    <3>2. QED
      BY <1>3, <1>4, <3>1 DEF TrailOK
  <2>2. ASSUME NEW u \in S PROVE u \in a..b
    BY <1>1, <1>3, <1>4, <1>5
  <2>3. QED
    BY <2>1, <2>2
<1> HIDE DEF S
<1>7. Cardinality(S) = b - a + 1
  <2>1. Cardinality(a..b) = IF a > b THEN 0 ELSE b - a + 1
    BY <1>5, FS_Interval
  <2>2. QED
    BY <1>5, <1>6, <2>1
<1>8. b - n \in S /\ b - n \in Nat
  BY <1>5, <1>6, <1>7 DEF S
<1>9. {t \in S : t > b - n} = (b - n + 1)..b
  BY <1>5, <1>6, <1>8
<1>10. Cardinality((b - n + 1)..b) = n
  <2>1. b - n + 1 \in Nat /\ b - n + 1 <= b
    BY <1>5, <1>8
  <2>2. Cardinality((b - n + 1)..b) = IF b - n + 1 > b THEN 0 ELSE b - (b - n + 1) + 1
    BY <1>5, <2>1, FS_Interval
  <2>3. QED
    BY <1>5, <2>1, <2>2
<1>11. QED
  BY <1>8, <1>9, <1>10 DEF S

\* A trail that is in order passes verification, chunk after chunk.
LEMMA ChunkPasses ==
  ASSUME NEW T, NEW n \in Nat, T = trail, TrailOK(T, n), NEW from \in Nat, from >= 1, NEW prev \in Nat,
         prev = 0 \/ (from - 1 \in DOMAIN T /\ prev = T[from - 1].id)
  PROVE  ChunkLinked(Chunk(from), prev = 0, prev)
<1> DEFINE K == Chunk(from)
<1>1. DOMAIN T \subseteq 1..n /\ IsFiniteSet(DOMAIN T)
  <2>1. IsFiniteSet(1..n)
    BY FS_Interval
  <2>2. DOMAIN T \subseteq 1..n
    BY DEF TrailOK
  <2>3. QED
    BY <2>1, <2>2, FS_Subset
<1>2. \A s \in K : s \in DOMAIN T /\ s >= from /\ Cardinality({t \in DOMAIN T : from <= t /\ t < s}) < ChunkSize
  BY DEF Chunk, Sequences
<1>nat. \A s \in DOMAIN T : s \in Nat /\ s >= 1
  BY <1>1
<1>3. ASSUME NEW s \in K, s - 1 \in DOMAIN T, s - 1 >= from PROVE s - 1 \in K
  <2> DEFINE A == {t \in DOMAIN T : from <= t /\ t < s - 1}
             B == {t \in DOMAIN T : from <= t /\ t < s}
  <2>0. s \in Nat
    BY <1>2, <1>nat
  <2>1. A \subseteq B /\ B \subseteq DOMAIN T
    BY <1>nat, <2>0
  <2>2. IsFiniteSet(B)
    BY <1>1, <2>1, FS_Subset
  <2>3. IsFiniteSet(A) /\ Cardinality(A) <= Cardinality(B)
    BY <2>1, <2>2, FS_Subset
  <2>4. Cardinality(A) \in Nat /\ Cardinality(B) \in Nat /\ ChunkSize \in Nat
    BY <2>2, <2>3, FS_CardinalityType, AuditAssumption
  <2>5. Cardinality(B) < ChunkSize
    BY <1>2
  <2>6. Cardinality(A) < ChunkSize
    BY <2>3, <2>4, <2>5
  <2>7. QED
    BY <1>3, <2>6 DEF Chunk, Sequences
<1>4. \A s \in K : s \in Nat /\ s >= 1
  BY <1>2, <1>nat, Zenon
<1> HIDE DEF K
<1>5. ASSUME NEW s \in K
      PROVE LET below == {t \in K : t < s} IN
            IF below # {} THEN trail[s].prev = trail[Max(below)].id
            ELSE prev = 0 \/ trail[s].prev = prev
  <2> DEFINE below == {t \in K : t < s}
  <2>1. CASE below # {}
    <3>1. PICK t \in K : t < s
      BY <2>1
    <3>2. t \in DOMAIN T /\ s \in DOMAIN T /\ t \in Nat /\ s \in Nat /\ t >= from
      BY <1>2, <1>4
    <3>3. s - 1 \in Nat /\ t <= s - 1 /\ s - 1 <= s /\ s - 1 >= from
      BY <3>1, <3>2
    <3>4. s - 1 \in DOMAIN T
      BY <3>2, <3>3 DEF TrailOK
    <3>5. s - 1 \in K
      BY <1>3, <3>3, <3>4
    <3>6. s - 1 \in below /\ \A u \in below : u <= s - 1
      BY <1>4, <3>2, <3>5
    <3>7. below \in SUBSET Nat
      BY <1>4
    <3>8. Max(below) = s - 1
      BY <3>6, <3>7, MaxIs
    <3>9. s = (s - 1) + 1
      BY <3>2
    <3>10. T[s].prev = T[s - 1].id
      BY <3>2, <3>4, <3>9 DEF TrailOK
    <3>11. QED
      BY <2>1, <3>8, <3>10
  <2>2. CASE below = {}
    <3>1. CASE prev = 0
      BY <2>2, <3>1
    <3>2. CASE prev # 0
      <4>1. from - 1 \in DOMAIN T /\ prev = T[from - 1].id
        BY <3>2
      <4>2. s \in DOMAIN T /\ s >= from /\ s \in Nat /\ from - 1 \in Nat /\ s - 1 \in Nat
        <5>1. s \in DOMAIN T /\ s >= from /\ s \in Nat /\ s >= 1
          BY <1>2, <1>4
        <5>2. QED
          BY <5>1
      <4>3. s - 1 \in DOMAIN T
        <5>1. from - 1 <= s - 1 /\ s - 1 <= s
          BY <4>2
        <5>2. QED
          BY <4>1, <4>2, <5>1 DEF TrailOK
      <4>4. s = from
        <5>1. s - 1 >= from => s - 1 \in below
          BY <1>3, <4>2, <4>3
        <5>2. QED
          BY <2>2, <4>2, <5>1
      <4>5. s = (s - 1) + 1
        BY <4>2
      <4>6. T[s].prev = T[s - 1].id
        BY <4>2, <4>3, <4>5 DEF TrailOK
      <4>7. QED
        BY <2>2, <4>1, <4>4, <4>6
    <3>3. QED
      BY <3>1, <3>2
  <2>3. QED
    BY <2>1, <2>2
<1>6. QED
  BY <1>5 DEF ChunkLinked, K

\* What a process remembers between two calls.
IdleWith(a, l) == [Down EXCEPT !.pc = "idle", !.seq = a, !.last = l]

\* It is a writer's memory.
LEMMA IdleWriter ==
  ASSUME NEW a \in Nat, NEW l \in 0..MaxIds
  PROVE  IdleWith(a, l) \in Writer /\ IdleWith(a, l).pc = "idle" /\ IdleWith(a, l).seq = a /\ IdleWith(a, l).last = l
<1> DEFINE w == IdleWith(a, l)
<1>1. w = [pc |-> "idle", seq |-> a, last |-> l, attempt |-> 0, size |-> 0, base |-> 0]
  <2>1. w = [Down EXCEPT !.pc = "idle", !.seq = a, !.last = l]
    BY DEF IdleWith
  <2> HIDE DEF w
  <2>2. DOMAIN w = {"pc", "seq", "last", "attempt", "size", "base"}
    BY <2>1 DEF Down
  <2>3. w.pc = "idle" /\ w.seq = a /\ w.last = l /\ w.attempt = 0 /\ w.size = 0 /\ w.base = 0
    BY <2>1 DEF Down
  <2>4. QED
    BY <2>1, <2>2, <2>3 DEF Down
<1> HIDE DEF w
<1>2. 0 \in 0..SeqRetries /\ 0 \in BatchSizes \union {0} /\ 0 \in 0..MaxIds
  BY AuditAssumption
<1>3. w \in Writer /\ w.pc = "idle" /\ w.seq = a /\ w.last = l
  BY <1>1, <1>2 DEF Writer
<1>4. QED
  BY <1>3 DEF w

\* The numbers a writer remembers.
LEMMA WriterNumbers == ASSUME NEW w \in Writer PROVE w.seq \in Nat /\ w.base \in Nat /\ w.size \in Nat
<1>1. w.seq \in Nat /\ w.base \in 0..MaxIds /\ w.size \in BatchSizes \union {0}
  BY DEF Writer
<1>2. BatchSizes \subseteq Nat
  BY AuditAssumption
<1>3. w.size \in Nat
  <2>1. CASE w.size \in BatchSizes
    BY <1>2, <2>1
  <2>2. CASE w.size = 0
    BY <2>2
  <2>3. QED
    BY <1>1, <2>1, <2>2
<1>4. QED
  BY <1>1, <1>3

\* A step that leaves the trail alone and moves one writer.
LEMMA WriterMoves ==
  ASSUME AuditInv, NEW p \in Process, NEW w \in Writer, writer' = [writer EXCEPT ![p] = w],
         UNCHANGED <<trail, retention, verifier, purged>>,
         ids' \in 0..MaxIds, ids <= ids', starts' \in 0..MaxStarts, WriterKnows(w, trail, ids')
  PROVE  AuditInv' /\ KeepsEntries
<1>1. writer' \in [Process -> Writer] /\ writer'[p] = w /\ \A q \in Process \ {p} : writer'[q] = writer[q]
  BY DEF AuditInv, AuditTyped
<1>2. ids \in Nat /\ ids' \in Nat
  BY AuditAssumption DEF AuditInv, AuditTyped
<1>3. AuditTyped'
  BY <1>1 DEF AuditInv, AuditTyped
<1>4. TrailOK(trail, ids)'
  BY <1>2, TrailWithMoreIds DEF AuditInv
<1>5. ASSUME NEW q \in Process \ {p} PROVE WriterKnows(writer[q], trail, ids')
  <2>1. WriterKnows(writer[q], trail, ids) /\ writer[q] \in Writer
    BY DEF AuditInv, AuditTyped
  <2>2. writer[q].seq \in Nat /\ writer[q].base \in Nat /\ writer[q].size \in Nat
    BY <2>1, WriterNumbers
  <2>3. QED
    BY <1>2, <2>1, <2>2 DEF WriterKnows
<1>6. \A q \in Process : WriterKnows(writer[q], trail, ids)'
  BY <1>1, <1>5
<1>7. KeepsEntries
  BY DEF KeepsEntries, Sequences
<1>8. QED
  BY <1>3, <1>4, <1>6, <1>7 DEF AuditInv

\* A step that keeps the newest part of the trail, or compacts it.
LEMMA TrailThinned ==
  ASSUME AuditInv, NEW T2, trail' = T2, UNCHANGED <<writer, ids, starts, verifier>>,
         TrailOK(T2, ids), Newest(T2) = Newest(trail), DOMAIN T2 = {} <=> DOMAIN trail = {},
         DOMAIN T2 \subseteq DOMAIN trail,
         \A s \in DOMAIN T2 : T2[s].id = trail[s].id /\ T2[s].at = trail[s].at,
         \A p \in Process, s \in DOMAIN trail :
           writer[p].pc = "insert" /\ s > writer[p].seq => s \in DOMAIN T2,
         retention' \in [pc : {"idle", "count", "delete", "compact"}, cutoff : 0..MaxIds],
         purged' = TRUE \/ (purged' = purged /\ DOMAIN T2 = DOMAIN trail)
  PROVE  AuditInv'
<1>1. AuditTyped'
  <2>1. purged' \in BOOLEAN
    BY DEF AuditInv, AuditTyped
  <2>2. QED
    BY <2>1 DEF AuditInv, AuditTyped
<1>2. ids \in Nat
  BY AuditAssumption DEF AuditInv, AuditTyped
<1>3. DOMAIN T2 # {} => Newest(T2) \in DOMAIN T2
  BY <1>2, NewestIs DEF TrailOK
<1>4. ASSUME NEW p \in Process PROVE WriterKnows(writer[p], T2, ids)
  <2>1. WriterKnows(writer[p], trail, ids) /\ writer[p] \in Writer
    BY DEF AuditInv, AuditTyped
  <2>2. writer[p].seq \in Nat
    BY <2>1 DEF Writer
  <2>3. DOMAIN T2 # {} => T2[Newest(T2)].id = trail[Newest(trail)].id /\ T2[Newest(T2)].at = trail[Newest(trail)].at
    BY <1>3
  <2>4. writer[p].pc = "insert" /\ writer[p].seq < Newest(T2) => writer[p].seq + 1 \in DOMAIN T2
    <3>1. writer[p].seq + 1 > writer[p].seq
      BY <2>2
    <3>2. QED
      BY <2>1, <3>1 DEF WriterKnows
  <2>5. QED
    BY <2>1, <2>3, <2>4 DEF WriterKnows
<1>5. verifier.pc = "walking" /\ purged' = FALSE => VerifierKnows(verifier, T2)
  <2>1. CASE purged' = TRUE
    BY <2>1
  <2>2. CASE purged' = purged /\ DOMAIN T2 = DOMAIN trail
    BY <2>2 DEF AuditInv, VerifierKnows
  <2>3. QED
    BY <2>1, <2>2
<1>6. verifier.verdict = TRUE \/ purged' = TRUE
  BY DEF AuditInv
<1>7. verifier.pc = "walking" => verifier.verdict = TRUE
  BY DEF AuditInv
<1>8. QED
  BY <1>1, <1>4, <1>5, <1>6, <1>7 DEF AuditInv

\* A retention that keeps the set K of sequences.
LEMMA RetentionKeeps ==
  ASSUME AuditInv, LongHorizon, NEW K \in SUBSET DOMAIN trail, MayKeep(K),
         \A s \in K, t \in DOMAIN trail : s <= t => t \in K,
         trail' = Kept(K), purged' = TRUE, UNCHANGED <<writer, ids, starts, verifier>>,
         retention' \in [pc : {"idle", "count", "delete", "compact"}, cutoff : 0..MaxIds]
  PROVE  AuditInv' /\ KeepsEntries
<1> DEFINE T2 == [s \in K |-> trail[s]]
<1>1. TrailOK(trail, ids) /\ ids \in Nat
  BY AuditAssumption DEF AuditInv, AuditTyped
<1>2. trail' = T2 /\ DOMAIN T2 = K /\ \A s \in K : T2[s] = trail[s]
  BY DEF Kept
<1>3. {s \in DOMAIN trail : Recent(s)} \subseteq K
  BY DEF MayKeep, Sequences
<1>4. DOMAIN trail # {} => Newest(trail) \in K
  <2>1. DOMAIN trail # {} => Newest(trail) \in DOMAIN trail
    BY <1>1, NewestIs DEF TrailOK
  <2>2. Recent(Newest(trail))
    BY LastIsNewest DEF Recent
  <2>3. QED
    BY <1>3, <2>1, <2>2
<1>5. ASSUME NEW p \in Process, NEW s \in DOMAIN trail, writer[p].pc = "insert", s > writer[p].seq PROVE s \in K
  <2>1. Recent(s)
    BY <1>5 DEF Recent
  <2>2. QED
    BY <1>3, <2>1
<1>6. TrailOK(T2, ids) /\ Newest(T2) = Newest(trail) /\ (DOMAIN T2 = {} <=> DOMAIN trail = {})
  BY <1>1, <1>4, TrailKept
<1> HIDE DEF T2
<1>7. AuditInv'
  BY <1>2, <1>5, <1>6, TrailThinned
<1>8. KeepsEntries
  BY <1>2 DEF KeepsEntries, Sequences
<1>9. QED
  BY <1>7, <1>8

\* Where retention stays behind the calls in progress, no step breaks the
\* chain, raises a false alarm or changes an entry.
LEMMA AuditStep == LongHorizon /\ AuditInv /\ [AuditNext]_auditVars => AuditInv' /\ KeepsEntries
<1> SUFFICES ASSUME LongHorizon, AuditInv, [AuditNext]_auditVars PROVE AuditInv' /\ KeepsEntries
  OBVIOUS
<1>typ. AuditTyped /\ TrailOK(trail, ids)
  BY DEF AuditInv
<1>num. MaxIds \in Nat /\ MaxStarts \in Nat /\ SeqRetries \in Nat /\ ids \in Nat /\ ids <= MaxIds /\ starts \in Nat
  BY AuditAssumption DEF AuditInv, AuditTyped
<1>new. /\ Newest(trail) \in 0..ids /\ (DOMAIN trail = {} => Newest(trail) = 0)
        /\ DOMAIN trail # {} => Newest(trail) \in DOMAIN trail /\ Newest(trail) >= 1
        /\ \A s \in DOMAIN trail : s <= Newest(trail)
  BY <1>typ, <1>num, NewestIs DEF TrailOK
<1>down. Down \in Writer /\ Down.seq = 0 /\ Down.pc = "down"
  BY <1>num DEF Down, Writer
<1>wr. \A p \in Process : writer[p] \in Writer /\ WriterKnows(writer[p], trail, ids)
  BY DEF AuditInv, AuditTyped
<1>seed. /\ SeedChain.seq = Newest(trail) /\ SeedChain.seq \in Nat /\ SeedChain.last \in 0..MaxIds
         /\ SeedChain.last = IF DOMAIN trail = {} THEN 0 ELSE trail[Newest(trail)].id
  <2>1. CASE DOMAIN trail = {}
    BY <1>num, <1>new, <2>1 DEF SeedChain, Sequences
  <2>2. CASE DOMAIN trail # {}
    <3>1. trail[Newest(trail)] \in Entry
      BY <1>typ, <1>new, <2>2 DEF TrailOK
    <3>2. trail[Newest(trail)].id \in 0..MaxIds
      BY <3>1, <1>num DEF Entry
    <3>3. SeedChain.seq = Newest(trail) /\ SeedChain.last = trail[Newest(trail)].id
      BY <2>2, LastIsNewest DEF SeedChain, Sequences
    <3>4. QED
      BY <1>new, <2>2, <3>2, <3>3
  <2>3. QED
    BY <2>1, <2>2
<1>1. ASSUME NEW p \in Process, StartWriter(p) PROVE AuditInv' /\ KeepsEntries
  <2> DEFINE a == SeedChain.seq
             l == SeedChain.last
             w == IdleWith(a, l)
  <2>1. a \in Nat /\ l \in 0..MaxIds /\ a = Newest(trail) /\ l = IF DOMAIN trail = {} THEN 0 ELSE trail[Newest(trail)].id
    BY <1>seed
  <2>2. writer' = [writer EXCEPT ![p] = w] /\ UNCHANGED <<trail, ids, retention, verifier, purged>> /\ starts' \in 0..MaxStarts
    BY <1>1, <1>num DEF StartWriter, IdleWith
  <2> HIDE DEF a, l
  <2>3. w \in Writer /\ w.pc = "idle" /\ w.seq = a /\ w.last = l
    BY <2>1, IdleWriter
  <2> HIDE DEF w
  <2>4. WriterKnows(w, trail, ids)
    BY <1>new, <2>1, <2>3 DEF WriterKnows
  <2>5. ids' \in 0..MaxIds /\ ids <= ids' /\ WriterKnows(w, trail, ids')
    BY <1>num, <2>2, <2>4
  <2>6. QED
    BY <2>2, <2>3, <2>5, WriterMoves
<1>2. ASSUME NEW p \in Process, StopWriter(p) PROVE AuditInv' /\ KeepsEntries
  <2>1. writer' = [writer EXCEPT ![p] = Down] /\ UNCHANGED <<trail, ids, starts, retention, verifier, purged>>
    BY <1>2 DEF StopWriter
  <2>2. WriterKnows(Down, trail, ids)
    BY <1>new, <1>down DEF WriterKnows
  <2>3. ids' \in 0..MaxIds /\ ids <= ids' /\ starts' \in 0..MaxStarts /\ WriterKnows(Down, trail, ids')
    BY <1>typ, <1>num, <2>1, <2>2 DEF AuditTyped
  <2>4. QED
    BY <1>down, <2>1, <2>3, WriterMoves
<1>3. ASSUME NEW p \in Process, NEW n \in BatchSizes, BuildEntries(p, n) PROVE AuditInv' /\ KeepsEntries
  <2> DEFINE o == writer[p]
             r == Reseeded(o)
             w == [r EXCEPT !.pc = "insert", !.size = n, !.base = ids + 1]
  <2>1. o \in Writer /\ WriterKnows(o, trail, ids) /\ o.pc \in {"idle", "retry"} /\ o.seq \in Nat
    BY <1>3, <1>wr DEF BuildEntries, Writer
  <2>2. n \in Nat /\ n >= 1
    BY AuditAssumption
  <2>3. r \in Writer /\ r.seq = Newest(trail) /\ r.last = IF DOMAIN trail = {} THEN 0 ELSE trail[Newest(trail)].id
    <3>1. CASE SeedChain.seq > o.seq
      <4> DEFINE a == SeedChain.seq
                 l == SeedChain.last
      <4>1. r = [o EXCEPT !.seq = a, !.last = l]
        BY <3>1 DEF Reseeded
      <4>2. a \in Nat /\ l \in 0..MaxIds
        BY <1>seed
      <4> HIDE DEF a, l, r, o
      <4>3. r \in Writer /\ r.seq = a /\ r.last = l
        BY <2>1, <4>1, <4>2 DEF Writer
      <4>4. QED
        BY <1>seed, <4>3 DEF a, l
    <3>2. CASE ~(SeedChain.seq > o.seq)
      <4>1. r = o
        BY <3>2 DEF Reseeded
      <4>2. o.seq = Newest(trail)
        BY <1>seed, <2>1, <3>2 DEF WriterKnows
      <4>3. QED
        BY <2>1, <4>1, <4>2 DEF WriterKnows
    <3>3. QED
      BY <3>1, <3>2
  <2>4. /\ writer' = [writer EXCEPT ![p] = w] /\ ids' = ids + n /\ ids + n <= MaxIds
        /\ UNCHANGED <<trail, starts, retention, verifier, purged>>
    BY <1>3 DEF BuildEntries
  <2> HIDE DEF r, o
  <2>5. ids + 1 \in 0..MaxIds
    BY <1>num, <2>2, <2>4
  <2>6. w \in Writer /\ w.pc = "insert" /\ w.size = n /\ w.base = ids + 1 /\ w.seq = r.seq /\ w.last = r.last
    BY <2>3, <2>5 DEF Writer
  <2> HIDE DEF w
  <2>7. DOMAIN trail # {} => trail[Newest(trail)].at <= ids /\ trail[Newest(trail)].at \in Nat
    <3>1. DOMAIN trail # {} => trail[Newest(trail)] \in Entry /\ trail[Newest(trail)].at <= ids
      BY <1>typ, <1>new DEF TrailOK
    <3>2. QED
      BY <3>1 DEF Entry
  <2>8. Newest(trail) \in Nat /\ Newest(trail) <= ids
    BY <1>new, <1>num
  <2>9. WriterKnows(w, trail, ids + n)
    <3>1. w.seq + w.size <= ids + n /\ w.base + w.size <= ids + n + 1 /\ w.base >= 1 /\ w.seq <= Newest(trail)
      BY <1>num, <2>2, <2>3, <2>6, <2>8
    <3>2. ~(w.seq < Newest(trail)) /\ w.size \in BatchSizes
      BY <2>3, <2>6, <2>8
    <3>3. DOMAIN trail # {} => trail[Newest(trail)].at < w.base
      BY <1>num, <2>6, <2>7
    <3>4. w.last = IF DOMAIN trail = {} THEN 0 ELSE trail[Newest(trail)].id
      BY <2>3, <2>6
    <3>5. QED
      BY <3>1, <3>2, <3>3, <3>4 DEF WriterKnows
  <2>10. ids' \in 0..MaxIds /\ ids <= ids'
    BY <1>num, <2>2, <2>4
  <2>11. QED
    BY <1>typ, <2>4, <2>6, <2>9, <2>10, WriterMoves DEF AuditTyped
<1>4. ASSUME NEW p \in Process, PersistEntries(p) PROVE AuditInv' /\ KeepsEntries
  <2> DEFINE w == writer[p]
             T2 == [s \in DOMAIN trail \union DOMAIN Batch(w) |->
                      IF s \in DOMAIN Batch(w) THEN Batch(w)[s] ELSE trail[s]]
             a == w.seq
             k == w.size
             b == w.base
             o == IdleWith(a + k, b + k - 1)
  <2>1. /\ w.pc = "insert" /\ DOMAIN Batch(w) \intersect DOMAIN trail = {} /\ trail' = T2
        /\ writer' = [writer EXCEPT ![p] = o] /\ UNCHANGED <<ids, starts, retention, verifier, purged>>
    BY <1>4 DEF PersistEntries, Collides, Sequences, IdleWith
  <2>2. w \in Writer /\ WriterKnows(w, trail, ids)
    BY <1>wr
  <2>3. /\ a \in Nat /\ k \in Nat /\ k >= 1 /\ k \in Nat \ {0} /\ b \in Nat /\ b >= 1
        /\ a + k <= ids /\ b + k <= ids + 1 /\ a <= Newest(trail)
    <3>1. k \in BatchSizes /\ a \in Nat /\ b \in Nat /\ b >= 1 /\ a + k <= ids /\ b + k <= ids + 1 /\ a <= Newest(trail)
      BY <1>num, <2>1, <2>2 DEF Writer, WriterKnows
    <3>2. k \in Nat \ {0}
      BY <3>1, AuditAssumption
    <3>3. QED
      BY <3>1, <3>2
  <2>4. /\ DOMAIN Batch(w) = (a + 1)..(a + k)
        /\ \A s \in (a + 1)..(a + k) :
             /\ Batch(w)[s] \in Entry
             /\ Batch(w)[s].id = b + (s - a - 1) /\ Batch(w)[s].at = b
             /\ s = a + 1 => Batch(w)[s].prev = w.last
             /\ s # a + 1 => Batch(w)[s].prev = b + (s - a - 1) - 1
    <3>1. ids \in 0..MaxIds
      BY <1>typ DEF AuditTyped
    <3>2. QED
      BY <2>2, <2>3, <3>1, BatchRows
  <2>5. a = Newest(trail)
    <3>1. a + 1 \in DOMAIN Batch(w)
      BY <2>3, <2>4
    <3>2. ~(a < Newest(trail))
      BY <2>1, <2>2, <3>1 DEF WriterKnows
    <3>3. Newest(trail) \in Nat
      BY <1>new, <1>num
    <3>4. QED
      BY <2>3, <3>2, <3>3
  <2>6. DOMAIN trail # {} => w.last = trail[a].id /\ trail[a].at < b
    BY <2>1, <2>2, <2>5 DEF WriterKnows
  <2>7. DOMAIN T2 = DOMAIN trail \union (a + 1)..(a + k)
    BY <2>4
  <2>8. \A s \in DOMAIN trail : T2[s] = trail[s]
    BY <2>1
  <2>9. \A s \in (a + 1)..(a + k) : T2[s] = Batch(w)[s]
    BY <2>4
  <2> DEFINE last == w.last
  <2> HIDE DEF T2, a, b, k, last
  <2>10. \A s \in (a + 1)..(a + k) :
             /\ T2[s] \in Entry
             /\ T2[s].id = b + (s - a - 1) /\ T2[s].at = b
             /\ s = a + 1 => T2[s].prev = last
             /\ s # a + 1 => T2[s].prev = b + (s - a - 1) - 1
    BY <2>4, <2>9 DEF last
  <2>11. DOMAIN trail # {} => last = trail[a].id /\ trail[a].at < b
    BY <2>6 DEF last
  <2>12. TrailOK(T2, ids) /\ Newest(T2) = a + k /\ T2[a + k].id = b + k - 1
    <3>1. Extends(trail, ids, a, k, b, last, T2)
      BY <2>3, <2>5, <2>7, <2>8, <2>10, <2>11 DEF Extends
    <3>2. QED
      BY <1>typ, <1>num, <2>3, <3>1, TrailGrows
  <2>13. b + k - 1 \in 0..MaxIds /\ a + k \in Nat
    BY <1>num, <2>3
  <2>14. o \in Writer /\ o.pc = "idle" /\ o.seq = a + k /\ o.last = b + k - 1
    BY <2>13, IdleWriter
  <2> HIDE DEF o
  <2>15. DOMAIN T2 # {} /\ a + 1 \in DOMAIN T2
    BY <2>3, <2>7
  <2>16. WriterKnows(o, T2, ids)
    BY <2>3, <2>12, <2>13, <2>14, <2>15 DEF WriterKnows
  <2>17. ASSUME NEW q \in Process \ {p} PROVE WriterKnows(writer[q], T2, ids)
    <3>1. writer[q] \in Writer /\ WriterKnows(writer[q], trail, ids)
      BY <1>wr
    <3>2. writer[q].seq \in Nat /\ writer[q].seq <= a
      BY <2>5, <3>1 DEF Writer, WriterKnows
    <3>3. writer[q].seq <= a + k /\ writer[q].seq # a + k
      BY <2>3, <3>2
    <3>4. writer[q].pc = "insert" => writer[q].seq + 1 \in DOMAIN T2
      <4>1. CASE writer[q].seq = a
        BY <2>15, <4>1
      <4>2. CASE writer[q].seq # a
        BY <2>3, <2>5, <2>7, <3>1, <3>2, <4>2 DEF WriterKnows
      <4>3. QED
        BY <4>1, <4>2
    <3>5. QED
      BY <2>12, <3>1, <3>3, <3>4 DEF WriterKnows
  <2>18. writer' \in [Process -> Writer] /\ writer'[p] = o /\ \A q \in Process \ {p} : writer'[q] = writer[q]
    BY <1>typ, <2>1, <2>14 DEF AuditTyped
  <2>19. AuditTyped'
    BY <1>typ, <2>1, <2>18 DEF AuditTyped
  <2>20. \A q \in Process : WriterKnows(writer[q], trail, ids)'
    BY <2>1, <2>16, <2>17, <2>18
  <2>21. VerifierKnows(verifier, trail) => VerifierKnows(verifier, T2)
    BY <2>7, <2>8 DEF VerifierKnows
  <2>22. AuditInv'
    BY <2>1, <2>12, <2>19, <2>20, <2>21 DEF AuditInv
  <2>23. KeepsEntries
    BY <2>1, <2>8 DEF KeepsEntries, Sequences
  <2>24. QED
    BY <2>22, <2>23
<1>5. ASSUME NEW p \in Process, SequenceCollision(p) PROVE AuditInv' /\ KeepsEntries
  <2> DEFINE w == writer[p]
             x == [w EXCEPT !.pc = "retry", !.attempt = w.attempt + 1]
             y == IdleWith(w.seq, w.last)
  <2>1. w \in Writer /\ WriterKnows(w, trail, ids) /\ w.pc = "insert"
    BY <1>5, <1>wr DEF SequenceCollision
  <2>2. UNCHANGED <<trail, ids, starts, retention, verifier, purged>>
    BY <1>5 DEF SequenceCollision
  <2>3. CASE w.attempt < SeqRetries
    <3>1. writer' = [writer EXCEPT ![p] = x]
      BY <1>5, <2>3 DEF SequenceCollision
    <3>2. w.attempt + 1 \in 0..SeqRetries
      BY <1>num, <2>1, <2>3 DEF Writer
    <3> HIDE DEF w
    <3>3. x \in Writer /\ x.pc = "retry" /\ x.seq = w.seq /\ x.last = w.last
      BY <2>1, <3>2 DEF Writer
    <3> HIDE DEF x
    <3>4. WriterKnows(x, trail, ids)
      BY <2>1, <3>3 DEF WriterKnows
    <3>5. ids' \in 0..MaxIds /\ ids <= ids' /\ starts' \in 0..MaxStarts /\ WriterKnows(x, trail, ids')
      BY <1>typ, <1>num, <2>2, <3>4 DEF AuditTyped
    <3>6. QED
      BY <2>2, <3>1, <3>3, <3>5, WriterMoves
  <2>4. CASE ~(w.attempt < SeqRetries)
    <3>1. writer' = [writer EXCEPT ![p] = y]
      BY <1>5, <2>4 DEF SequenceCollision, IdleWith
    <3>2. w.seq \in Nat /\ w.last \in 0..MaxIds
      BY <2>1 DEF Writer
    <3> HIDE DEF w
    <3>3. y \in Writer /\ y.pc = "idle" /\ y.seq = w.seq /\ y.last = w.last
      BY <3>2, IdleWriter
    <3> HIDE DEF y
    <3>4. WriterKnows(y, trail, ids)
      BY <2>1, <3>3 DEF WriterKnows
    <3>5. ids' \in 0..MaxIds /\ ids <= ids' /\ starts' \in 0..MaxStarts /\ WriterKnows(y, trail, ids')
      BY <1>typ, <1>num, <2>2, <3>4 DEF AuditTyped
    <3>6. QED
      BY <2>2, <3>1, <3>3, <3>5, WriterMoves
  <2>5. QED
    BY <2>3, <2>4
<1>6. CASE DeleteByAge
  <2>1. PICK cutoff \in 1..(ids + 1) :
          /\ MayKeep({s \in DOMAIN trail : trail[s].at >= cutoff})
          /\ trail' = Kept({s \in DOMAIN trail : trail[s].at >= cutoff})
    BY <1>6 DEF DeleteByAge, Sequences
  <2> DEFINE K == {s \in DOMAIN trail : trail[s].at >= cutoff}
  <2>2. ASSUME NEW s \in K, NEW t \in DOMAIN trail, s <= t PROVE t \in K
    <3>1. trail[s].at <= trail[t].at /\ trail[s] \in Entry /\ trail[t] \in Entry
      BY <1>typ, <2>2 DEF TrailOK
    <3>2. trail[s].at \in Nat /\ trail[t].at \in Nat /\ cutoff \in Nat
      BY <1>num, <3>1 DEF Entry
    <3>3. QED
      BY <3>1, <3>2
  <2>3. retention' \in [pc : {"idle", "count", "delete", "compact"}, cutoff : 0..MaxIds]
    BY <1>6, <1>typ DEF DeleteByAge, AuditTyped
  <2>4. purged' = TRUE /\ UNCHANGED <<writer, ids, starts, verifier>>
    BY <1>6 DEF DeleteByAge
  <2>5. MayKeep(K) /\ trail' = Kept(K) /\ K \in SUBSET DOMAIN trail
    BY <2>1
  <2> HIDE DEF K
  <2>6. QED
    BY <2>2, <2>3, <2>4, <2>5, RetentionKeeps
<1>7. CASE DeleteToCutoff
  <2> DEFINE K == {s \in DOMAIN trail : s > retention.cutoff}
  <2>1. MayKeep(K) /\ trail' = Kept(K) /\ K \in SUBSET DOMAIN trail
    BY <1>7 DEF DeleteToCutoff, Sequences
  <2>2. ASSUME NEW s \in K, NEW t \in DOMAIN trail, s <= t PROVE t \in K
    <3>1. s \in Nat /\ t \in Nat /\ retention.cutoff \in Nat
      BY <1>typ, <1>num DEF TrailOK, AuditTyped
    <3>2. QED
      BY <2>2, <3>1
  <2>3. retention' \in [pc : {"idle", "count", "delete", "compact"}, cutoff : 0..MaxIds]
    BY <1>7, <1>num DEF DeleteToCutoff
  <2>4. purged' = TRUE /\ UNCHANGED <<writer, ids, starts, verifier>>
    BY <1>7 DEF DeleteToCutoff
  <2> HIDE DEF K
  <2>5. QED
    BY <2>1, <2>2, <2>3, <2>4, RetentionKeeps
<1>8. ASSUME NEW n \in 1..MaxIds, FindCutoff(n) PROVE AuditInv' /\ KeepsEntries
  <2> DEFINE c == CHOOSE s \in DOMAIN trail : Cardinality({t \in DOMAIN trail : t > s}) = n
  <2>1. /\ retention' = [pc |-> "delete", cutoff |-> c] /\ Cardinality(DOMAIN trail) > n
        /\ UNCHANGED <<trail, writer, ids, starts, verifier, purged>>
    BY <1>8 DEF FindCutoff, Sequences
  <2>2. \E s \in DOMAIN trail : Cardinality({t \in DOMAIN trail : t > s}) = n
    <3>1. n \in Nat /\ Cardinality(DOMAIN trail) > n /\ TrailOK(trail, ids) /\ ids \in Nat
      BY <1>typ, <1>num, <2>1
    <3>2. QED
      BY <3>1, CutoffExists
  <2>3. c \in DOMAIN trail
    BY <2>2
  <2>4. c \in 0..MaxIds
    BY <1>typ, <1>num, <2>3 DEF TrailOK
  <2> HIDE DEF c
  <2>5. retention' \in [pc : {"idle", "count", "delete", "compact"}, cutoff : 0..MaxIds]
    BY <2>1, <2>4
  <2>6. QED
    BY <2>1, <2>5 DEF AuditInv, AuditTyped, KeepsEntries, Sequences
<1>9. CASE Compact
  <2> DEFINE T2 == Compacted(trail)
  <2>1. /\ trail' = T2 /\ retention' = [pc |-> "idle", cutoff |-> 0]
        /\ UNCHANGED <<writer, ids, starts, verifier, purged>>
    BY <1>9 DEF Compact, Sequences, Compacted
  <2>2. /\ TrailOK(T2, ids) /\ Newest(T2) = Newest(trail) /\ DOMAIN T2 = DOMAIN trail
        /\ \A s \in DOMAIN trail : T2[s].id = trail[s].id /\ T2[s].at = trail[s].at
    BY <1>typ, <1>num, TrailCompacted
  <2>3. retention' \in [pc : {"idle", "count", "delete", "compact"}, cutoff : 0..MaxIds]
    BY <1>num, <2>1
  <2>4. KeepsEntries
    <3> SUFFICES ASSUME NEW s \in DOMAIN trail
                 PROVE [T2[s] EXCEPT !.state = TRUE] = [trail[s] EXCEPT !.state = TRUE]
      BY <2>1, <2>2 DEF KeepsEntries, Sequences
    <3>1. trail[s] \in Entry /\ T2[s] = [trail[s] EXCEPT !.state = FALSE]
      BY <1>typ DEF TrailOK, Compacted
    <3>2. QED
      BY <3>1 DEF Entry
  <2> HIDE DEF T2
  <2>5. AuditInv'
    BY <2>1, <2>2, <2>3, TrailThinned
  <2>6. QED
    BY <2>4, <2>5
<1>10. CASE EndRetention
  <2>1. retention' \in [pc : {"idle", "count", "delete", "compact"}, cutoff : 0..MaxIds]
    BY <1>10, <1>num DEF EndRetention
  <2>2. UNCHANGED <<trail, writer, ids, starts, verifier, purged>>
    BY <1>10 DEF EndRetention
  <2>3. QED
    BY <2>1, <2>2 DEF AuditInv, AuditTyped, KeepsEntries, Sequences
<1>11. CASE VerifyBegins
  <2> DEFINE v == [pc |-> "walking", from |-> 1, prev |-> 0, verdict |-> TRUE]
  <2>1. verifier' = v /\ purged' = FALSE /\ UNCHANGED <<trail, writer, ids, starts, retention>>
    BY <1>11 DEF VerifyBegins
  <2>2. v \in [pc : {"idle", "walking", "done"}, from : 1..(MaxIds + 1), prev : 0..MaxIds, verdict : BOOLEAN]
    BY <1>num
  <2>3. v.verdict = TRUE /\ v.prev = 0
    OBVIOUS
  <2> HIDE DEF v
  <2>4. AuditTyped'
    BY <2>1, <2>2 DEF AuditInv, AuditTyped
  <2>5. QED
    BY <2>1, <2>3, <2>4 DEF AuditInv, VerifierKnows, KeepsEntries, Sequences
<1>12. CASE VerifyChunk
  <2> DEFINE K == Chunk(verifier.from)
             ok == ChunkLinked(K, verifier.prev = 0, verifier.prev)
             m == Max(K)
             x == [verifier EXCEPT !.from = m + 1, !.prev = trail[m].id]
             y == [pc |-> "done", from |-> 1, prev |-> 0, verdict |-> ok]
  <2>1. /\ verifier.pc = "walking" /\ UNCHANGED <<trail, writer, ids, starts, retention, purged>>
        /\ verifier' = IF ok /\ Cardinality(K) = ChunkSize THEN x ELSE y
    BY <1>12 DEF VerifyChunk
  <2>2. /\ verifier.from \in Nat /\ verifier.from >= 1 /\ verifier.prev \in Nat /\ verifier.verdict = TRUE
        /\ purged = FALSE => VerifierKnows(verifier, trail)
    BY <1>typ, <1>num, <2>1 DEF AuditInv, AuditTyped
  <2>3. purged = FALSE => ok
    BY <1>typ, <1>num, <2>2, ChunkPasses DEF VerifierKnows
  <2>4. ok \in BOOLEAN
    BY DEF ChunkLinked
  <2>5. K \subseteq DOMAIN trail
    BY DEF Chunk, Sequences
  <2>6. CASE ok /\ Cardinality(K) = ChunkSize
    <3>1. K # {}
      <4>1. Cardinality({}) = 0 /\ ChunkSize # 0
        BY FS_EmptySet, AuditAssumption
      <4>2. QED
        BY <2>6, <4>1
    <3>2. K \in SUBSET (0..MaxIds)
      BY <1>typ, <1>num, <2>5 DEF TrailOK
    <3>3. m \in K
      BY <1>num, <3>1, <3>2, GreatestNatural
    <3>4. m \in DOMAIN trail /\ m \in 1..MaxIds /\ trail[m] \in Entry
      BY <1>typ, <1>num, <2>5, <3>3 DEF TrailOK
    <3>5. trail[m].id \in 0..MaxIds /\ m + 1 \in 1..(MaxIds + 1)
      BY <1>num, <3>4 DEF Entry
    <3> DEFINE f == m + 1
               i == trail[m].id
    <3>6. verifier' = [verifier EXCEPT !.from = f, !.prev = i]
      BY <2>1, <2>6
    <3>7. f - 1 = m /\ f \in 1..(MaxIds + 1) /\ i \in 0..MaxIds /\ i = trail[m].id
      BY <3>4, <3>5
    <3> HIDE DEF K, ok, m, x, f, i
    <3>8. /\ verifier' \in [pc : {"idle", "walking", "done"}, from : 1..(MaxIds + 1), prev : 0..MaxIds, verdict : BOOLEAN]
          /\ verifier'.from = f /\ verifier'.prev = i /\ verifier'.verdict = verifier.verdict
      BY <1>typ, <3>6, <3>7 DEF AuditTyped
    <3>9. AuditTyped'
      BY <1>typ, <2>1, <3>8 DEF AuditTyped
    <3>10. VerifierKnows(verifier, trail)'
      BY <2>1, <3>4, <3>7, <3>8 DEF VerifierKnows
    <3>11. verifier'.verdict = TRUE
      BY <2>2, <3>8
    <3>12. QED
      BY <2>1, <3>9, <3>10, <3>11 DEF AuditInv, KeepsEntries, Sequences
  <2>7. CASE ~(ok /\ Cardinality(K) = ChunkSize)
    <3>1. verifier' = y
      BY <2>1, <2>7
    <3> HIDE DEF ok, K
    <3>2. /\ y \in [pc : {"idle", "walking", "done"}, from : 1..(MaxIds + 1), prev : 0..MaxIds, verdict : BOOLEAN]
          /\ y.pc = "done" /\ y.verdict = ok
      BY <1>num, <2>4
    <3> HIDE DEF y
    <3>3. AuditTyped'
      BY <1>typ, <2>1, <3>1, <3>2 DEF AuditTyped
    <3>4. verifier'.verdict = TRUE \/ purged' = TRUE
      <4>1. CASE purged = TRUE
        BY <2>1, <4>1
      <4>2. CASE purged = FALSE
        BY <2>3, <2>4, <3>1, <3>2, <4>2
      <4>3. purged \in BOOLEAN
        BY <1>typ DEF AuditTyped
      <4>4. QED
        BY <4>1, <4>2, <4>3
    <3>5. verifier'.pc # "walking"
      BY <3>1, <3>2
    <3>6. QED
      BY <2>1, <3>3, <3>4, <3>5 DEF AuditInv, KeepsEntries, Sequences
  <2>8. QED
    BY <2>6, <2>7
<1>13. CASE UNCHANGED auditVars
  BY <1>13 DEF auditVars, AuditInv, AuditTyped, KeepsEntries, Sequences
<1>14. CASE AuditNext
  <2>1. ASSUME NEW p \in Process, WriterNext(p) PROVE AuditInv' /\ KeepsEntries
    BY <2>1, <1>1, <1>2, <1>3, <1>4, <1>5 DEF WriterNext
  <2>2. CASE RetentionNext
    BY <2>2, <1>6, <1>7, <1>8, <1>9, <1>10 DEF RetentionNext
  <2>3. QED
    BY <1>14, <2>1, <2>2, <1>11, <1>12 DEF AuditNext, VerifyNext
<1>15. QED
  BY <1>13, <1>14

\* ChainIntact, NoFalseAlarm and AppendOnly: however many processes write, die
\* and start again, in batches of whatever size, and whatever retention
\* removes, as long as it stays behind the calls in progress, the trail is one
\* linked chain, verification finds it so, and no entry changes.
THEOREM AuditChainHolds ==
  LongHorizon => (AuditSpec => [](AuditTypeOK /\ ChainIntact /\ NoFalseAlarm) /\ AppendOnly)
<1> SUFFICES ASSUME LongHorizon PROVE AuditSpec => [](AuditTypeOK /\ ChainIntact /\ NoFalseAlarm) /\ AppendOnly
  OBVIOUS
<1>1. AuditInv /\ [AuditNext]_auditVars => AuditInv' /\ [KeepsEntries]_auditVars
  BY AuditStep
<1>2. QED
  BY <1>1, AuditStart, AuditHolds, PTL DEF AuditSpec, AppendOnly

=============================================================================
