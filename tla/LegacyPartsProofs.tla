------------------------- MODULE LegacyPartsProofs --------------------------
(***************************************************************************)
(* Proofs about the other parts of the 1.x framework: rules, quotas and    *)
(* rates, environments, blobs, principals, deployments, stages,            *)
(* connectors, federation, the backends of tenants, plugins, and old data. *)
(***************************************************************************)
EXTENDS Rules, Limits, Environments, BlobStore, Identities, Deployments, StageFlow,
        Connector, Federation, TenantRouter, Plugins, ColdStorage, FiniteSetTheorems, TLAPS

-----------------------------------------------------------------------------
(* Rules and their cache.                                                  *)

RuleRow == [life : {"none", "ACTIVE", "ARCHIVED"}, effect : Effect, conds : Condition, version : Nat]
RuleEdit ==
  [pc : {"rest", "update", "version", "bindings", "invalidate"}, rule : RuleId, read : RuleRow]
Found == [rule : RuleId, effect : Effect, conds : Condition]

RulesTyped ==
  /\ rules \in [RuleId -> RuleRow]
  /\ tainted \subseteq Target
  /\ cache \in [Target -> SUBSET (SUBSET Found)]
  /\ editor \in [Editor -> RuleEdit]
  /\ lookup \subseteq [target : Target, found : SUBSET Found]
  /\ IsFiniteSet(lookup) /\ Cardinality(lookup) <= 1

\* An edit that has written and not yet emptied the cache.
Unfinished == {"version", "bindings", "invalidate"}

RulesInv == RulesTyped /\ CacheHonest

\* The initial rows are rows.
LEMMA RuleRows == Unwritten \in RuleRow /\ AtRest \in RuleEdit /\ AtRest.pc = "rest"
<1>1. (CHOOSE c \in Condition : TRUE) \in Condition /\ (CHOOSE r \in RuleId : TRUE) \in RuleId
  BY RulesAssumption
<1>2. Unwritten \in RuleRow
  BY <1>1 DEF Unwritten, RuleRow, Effect
<1>3. QED
  BY <1>1, <1>2 DEF AtRest, RuleEdit

\* The invariant holds at the start: the cache is empty.
LEMMA RulesStart == RulesInit => RulesInv
<1> SUFFICES ASSUME RulesInit PROVE RulesInv
  OBVIOUS
<1>1. IsFiniteSet(lookup) /\ Cardinality(lookup) <= 1
  BY FS_EmptySet DEF RulesInit
<1>2. RulesTyped
  BY <1>1, RuleRows DEF RulesInit, RulesTyped
<1>3. QED
  BY <1>2 DEF RulesInit, RulesInv, CacheHonest

\* What a lookup reads.
LEMMA FetchedTyped == ASSUME RulesTyped, NEW t \in Target PROVE Fetched(t) \in SUBSET Found
<1>1. \A r \in RuleId : rules[r].effect \in Effect /\ rules[r].conds \in Condition
  BY DEF RulesTyped, RuleRow
<1>2. ASSUME NEW m \in Fetched(t) PROVE m \in Found
  <2>1. PICK r \in RuleId : m = [rule |-> r, effect |-> rules[r].effect, conds |-> rules[r].conds]
    BY DEF Fetched, RulesForTarget
  <2>2. QED
    BY <1>1, <2>1 DEF Found
<1>3. QED
  BY <1>2

\* Reads of unchanged tables give the same.
LEMMA FetchedSame ==
  ASSUME UNCHANGED <<rules, bindings>>, NEW t PROVE Fetched(t)' = Fetched(t)
  BY DEF Fetched, RulesForTarget

\* The invariant says what the model's own type invariant says.
LEMMA RulesHold == RulesInv => RulesTypeOK /\ CacheHonest /\ ExplanationAgrees
<1> SUFFICES ASSUME RulesInv PROVE RulesTypeOK /\ CacheHonest /\ ExplanationAgrees
  OBVIOUS
<1>1. RulesTypeOK
  <2>1. \A r \in RuleId : rules[r].life \in {"none", "ACTIVE", "ARCHIVED"} /\ rules[r].effect \in Effect
    BY DEF RulesInv, RulesTyped, RuleRow
  <2>2. QED
    BY <2>1 DEF RulesInv, RulesTyped, RulesTypeOK
<1>2. ExplanationAgrees
  <2> SUFFICES ASSUME NEW q \in Request, NEW ts \in SUBSET (Target \ {"environment"})
               PROVE Evaluate(q, ts) = EvaluateWithExplanation(q, ts)
    BY DEF ExplanationAgrees
  <2> DEFINE F == UNION {Fetched(t) : t \in ts}
             M == {m \in F : MatchesConditions(m.conds, q)}
             X == {m \in F : ExplainMatch(m.conds, q)}
  <2>1. ts \ {"environment"} = ts
    OBVIOUS
  <2>2. ASSUME NEW m \in F PROVE MatchesConditions(m.conds, q) <=> ExplainMatch(m.conds, q)
    <3>1. m \in Found
      BY FetchedTyped DEF RulesInv
    <3>2. m.conds \in Condition
      BY <3>1 DEF Found
    <3>3. DOMAIN (m.conds) \subseteq Key
      BY <3>2, RulesAssumption
    <3>4. q["action"] # Absent
      BY DEF Request
    <3>5. \A k \in Key \cap DOMAIN (m.conds) : k \in DOMAIN (m.conds)
      OBVIOUS
    <3>6. QED
      BY <3>3, <3>4 DEF MatchesConditions, ExplainMatch, ValueMatches
  <2>3. M = X
    BY <2>2
  <2>4. EvaluateWithExplanation(q, ts) = DenyOverrides(X)
    BY <2>1 DEF EvaluateWithExplanation
  <2>5. Evaluate(q, ts) = DenyOverrides(M)
    BY DEF Evaluate
  <2>6. QED
    BY <2>3, <2>4, <2>5
<1>3. QED
  BY <1>1, <1>2 DEF RulesInv

\* One thread goes on with an edit; the cache is left as it is, and whatever
\* the edit has written is marked by where the thread is, or by a taint.
LEMMA EditorMoves ==
  ASSUME RulesInv, NEW e \in Editor, NEW k \in RuleEdit, editor' = [editor EXCEPT ![e] = k],
         rules' \in [RuleId -> RuleRow], UNCHANGED <<cache, lookup>>, tainted' \subseteq Target,
         \/ k.pc \in Unfinished /\ tainted' = tainted
         \/ k.pc \notin Unfinished /\ editor[e].pc \notin Unfinished /\ UNCHANGED <<rules, bindings, tainted>>
         \/ \A t \in Target : cache[t] # {} => t \in tainted'
  PROVE  RulesInv'
<1>1. editor' \in [Editor -> RuleEdit] /\ editor'[e] = k /\ \A d \in Editor \ {e} : editor'[d] = editor[d]
  BY DEF RulesInv, RulesTyped
<1>2. RulesTyped'
  BY <1>1 DEF RulesInv, RulesTyped
<1>3. CacheHonest'
  <2>1. CASE k.pc \in Unfinished
    BY <1>1, <2>1 DEF CacheHonest, Unfinished
  <2>2. CASE \A t \in Target : cache[t] # {} => t \in tainted'
    BY <2>2 DEF CacheHonest
  <2>3. CASE editor[e].pc \notin Unfinished /\ UNCHANGED <<rules, bindings, tainted>>
    <3>1. \A t \in Target : Fetched(t)' = Fetched(t)
      BY <2>3, FetchedSame
    <3>2. \A d \in Editor : editor[d].pc \in Unfinished => editor'[d].pc \in Unfinished
      BY <1>1, <2>3
    <3>3. QED
      BY <2>3, <3>1, <3>2 DEF RulesInv, CacheHonest, Unfinished
  <2>4. QED
    BY <2>1, <2>2, <2>3
<1>4. QED
  BY <1>2, <1>3 DEF RulesInv

\* No step of store or engine leaves a cached answer that is wrong unnoticed.
LEMMA RulesStep == RulesInv /\ [RulesNext]_ruleVars => RulesInv'
<1> SUFFICES ASSUME RulesInv, [RulesNext]_ruleVars PROVE RulesInv'
  OBVIOUS
<1>typ. RulesTyped
  BY DEF RulesInv
<1>row. \A r \in RuleId : rules[r] \in RuleRow
  BY <1>typ DEF RulesTyped
<1>ed. \A e \in Editor : editor[e] \in RuleEdit /\ editor[e].rule \in RuleId /\ editor[e].read \in RuleRow
  BY <1>typ DEF RulesTyped, RuleEdit
<1>1. ASSUME NEW t \in Target, QueryRules(t) PROVE RulesInv'
  <2>1. lookup' = {[target |-> t, found |-> Fetched(t)]} /\ UNCHANGED <<rules, bindings, cache, tainted, editor>>
    BY <1>1 DEF QueryRules
  <2>2. IsFiniteSet(lookup') /\ Cardinality(lookup') <= 1
    <3> DEFINE l == [target |-> t, found |-> Fetched(t)]
    <3>1. lookup' = {l}
      BY <2>1
    <3> HIDE DEF l
    <3>2. IsFiniteSet({l}) /\ Cardinality({l}) = 1
      BY FS_Singleton
    <3>3. QED
      BY <3>1, <3>2
  <2>3. lookup' \subseteq [target : Target, found : SUBSET Found]
    BY <1>typ, <2>1, FetchedTyped
  <2>4. RulesTyped'
    BY <1>typ, <2>1, <2>2, <2>3 DEF RulesTyped
  <2>5. \A u \in Target : Fetched(u)' = Fetched(u)
    BY <2>1, FetchedSame
  <2>6. CacheHonest'
    BY <2>1, <2>5 DEF RulesInv, CacheHonest
  <2>7. QED
    BY <2>4, <2>6 DEF RulesInv
<1>2. ASSUME NEW t \in Target, ExpireRules(t) PROVE RulesInv'
  <2>1. /\ cache' = [cache EXCEPT ![t] = {}] /\ tainted' = tainted \ {t}
        /\ UNCHANGED <<rules, bindings, editor, lookup>>
    BY <1>2 DEF ExpireRules
  <2>2. cache' \in [Target -> SUBSET (SUBSET Found)] /\ cache'[t] = {} /\ \A u \in Target \ {t} : cache'[u] = cache[u]
    BY <1>typ, <2>1 DEF RulesTyped
  <2>3. RulesTyped'
    BY <1>typ, <2>1, <2>2 DEF RulesTyped
  <2>4. \A u \in Target : Fetched(u)' = Fetched(u)
    BY <2>1, FetchedSame
  <2>5. CacheHonest'
    BY <2>1, <2>2, <2>4 DEF RulesInv, CacheHonest
  <2>6. QED
    BY <2>3, <2>5 DEF RulesInv
<1>3. CASE PutRules
  <2>1. PICK l \in lookup :
          /\ cache' = [cache EXCEPT ![l.target] = {l.found}]
          /\ tainted' = IF l.found = Fetched(l.target) THEN tainted \ {l.target} ELSE tainted \union {l.target}
          /\ lookup' = {}
          /\ UNCHANGED <<rules, versions, bindings, editor>>
    BY <1>3 DEF PutRules
  <2>2. l.target \in Target /\ l.found \in SUBSET Found
    BY <1>typ DEF RulesTyped
  <2> DEFINE u == l.target
  <2>3. cache' \in [Target -> SUBSET (SUBSET Found)] /\ cache'[u] = {l.found} /\ \A t \in Target \ {u} : cache'[t] = cache[t]
    BY <1>typ, <2>1, <2>2 DEF RulesTyped
  <2>4. IsFiniteSet(lookup') /\ Cardinality(lookup') <= 1
    BY <2>1, FS_EmptySet
  <2>5. tainted' \subseteq Target
    BY <1>typ, <2>1, <2>2 DEF RulesTyped
  <2>6. RulesTyped'
    BY <1>typ, <2>1, <2>3, <2>4, <2>5 DEF RulesTyped
  <2>7. \A t \in Target : Fetched(t)' = Fetched(t)
    BY <2>1, FetchedSame
  <2>8. ASSUME NEW t \in Target
        PROVE \/ cache'[t] = {} \/ cache'[t] = {Fetched(t)} \/ t \in tainted'
              \/ \E e \in Editor : editor'[e].pc \in {"version", "bindings", "invalidate"}
    <3>1. CASE t = u
      BY <2>1, <2>3, <3>1
    <3>2. CASE t # u
      BY <2>1, <2>3, <3>2 DEF RulesInv, CacheHonest
    <3>3. QED
      BY <3>1, <3>2
  <2>9. CacheHonest'
    BY <2>7, <2>8 DEF CacheHonest
  <2>10. QED
    BY <2>6, <2>9 DEF RulesInv
<1>4. ASSUME NEW e \in Editor, Edit(e) PROVE RulesInv'
  <2>1. ASSUME NEW r \in RuleId, NEW f \in Effect, ReadRule(e, r, f) PROVE RulesInv'
    <3> DEFINE row == [rules[r] EXCEPT !.effect = f, !.version = @ + 1]
    <3>1. row \in RuleRow
      <4> DEFINE old == rules[r]
      <4>1. old \in RuleRow /\ old.version + 1 \in Nat
        BY <1>row DEF RuleRow
      <4>2. row = [old EXCEPT !.effect = f, !.version = old.version + 1]
        OBVIOUS
      <4> HIDE DEF old
      <4>3. QED
        BY <4>1, <4>2 DEF RuleRow
    <3> HIDE DEF row
    <3> DEFINE k == [pc |-> "update", rule |-> r, read |-> row]
    <3>2. k \in RuleEdit /\ k.pc = "update"
      BY <3>1 DEF RuleEdit
    <3>3. editor' = [editor EXCEPT ![e] = k] /\ UNCHANGED <<rules, versions, bindings, cache, tainted, lookup>>
      BY <2>1 DEF ReadRule, GoesOn, row
    <3>4. editor[e].pc \notin Unfinished /\ k.pc \notin Unfinished
      BY <2>1, <3>2 DEF ReadRule, Unfinished
    <3> HIDE DEF k
    <3>5. QED
      BY <1>typ, <3>2, <3>3, <3>4, EditorMoves DEF RulesTyped
  <2>2. ASSUME NEW r \in RuleId, NEW f \in Effect, NEW c \in Condition, CreateRule(e, r, f, c) PROVE RulesInv'
    <3> DEFINE row == [life |-> "ACTIVE", effect |-> f, conds |-> c, version |-> 1]
    <3>1. row \in RuleRow
      BY DEF RuleRow
    <3> HIDE DEF row
    <3> DEFINE k == [pc |-> "version", rule |-> r, read |-> row]
    <3>2. k \in RuleEdit /\ k.pc \in Unfinished
      BY <3>1 DEF RuleEdit, Unfinished
    <3>3. /\ editor' = [editor EXCEPT ![e] = k] /\ rules' = [rules EXCEPT ![r] = row]
          /\ UNCHANGED <<versions, bindings, cache, tainted, lookup>>
      BY <2>2 DEF CreateRule, GoesOn, row
    <3> HIDE DEF k
    <3>4. rules' \in [RuleId -> RuleRow]
      BY <1>typ, <3>1, <3>3 DEF RulesTyped
    <3>5. QED
      BY <1>typ, <3>2, <3>3, <3>4, EditorMoves DEF RulesTyped
  <2>3. ASSUME NEW r \in RuleId, ArchiveRule(e, r) PROVE RulesInv'
    <3> DEFINE k == [pc |-> "bindings", rule |-> r, read |-> rules[r]]
               row == [rules[r] EXCEPT !.life = "ARCHIVED"]
    <3>1. k \in RuleEdit /\ k.pc \in Unfinished
      BY <1>row DEF RuleEdit, Unfinished
    <3>2. row \in RuleRow
      BY <1>row DEF RuleRow
    <3>3. /\ editor' = [editor EXCEPT ![e] = k] /\ rules' = [rules EXCEPT ![r] = row]
          /\ UNCHANGED <<versions, bindings, cache, tainted, lookup>>
      BY <2>3 DEF ArchiveRule, GoesOn
    <3> HIDE DEF k, row
    <3>4. rules' \in [RuleId -> RuleRow]
      BY <1>typ, <3>2, <3>3 DEF RulesTyped
    <3>5. QED
      BY <1>typ, <3>1, <3>3, <3>4, EditorMoves DEF RulesTyped
  <2>4. ASSUME NEW r \in RuleId, NEW t \in Target, BindRule(e, r, t) \/ UnbindRule(e, r, t) PROVE RulesInv'
    <3> DEFINE k == [pc |-> "invalidate", rule |-> r, read |-> rules[r]]
    <3>1. k \in RuleEdit /\ k.pc \in Unfinished
      BY <1>row DEF RuleEdit, Unfinished
    <3>2. editor' = [editor EXCEPT ![e] = k] /\ UNCHANGED <<rules, versions, cache, tainted, lookup>>
      BY <2>4 DEF BindRule, UnbindRule, GoesOn
    <3> HIDE DEF k
    <3>3. QED
      BY <1>typ, <3>1, <3>2, EditorMoves DEF RulesTyped
  <2>5. CASE UpdateRule(e)
    <3> DEFINE r == editor[e].rule
               old == editor[e].read
               row == [old EXCEPT !.life = rules[r].life]
               k == [pc |-> "version", rule |-> r, read |-> old]
    <3>1. k \in RuleEdit /\ k.pc \in Unfinished
      BY <1>ed DEF RuleEdit, Unfinished
    <3>2. row \in RuleRow
      <4>1. old \in RuleRow /\ rules[r] \in RuleRow
        BY <1>ed, <1>row
      <4>2. QED
        BY <4>1 DEF RuleRow
    <3>3. /\ editor' = [editor EXCEPT ![e] = k] /\ rules' = [rules EXCEPT ![r] = row]
          /\ UNCHANGED <<versions, bindings, cache, tainted, lookup>>
      BY <2>5 DEF UpdateRule, GoesOn
    <3>4. r \in RuleId
      BY <1>ed
    <3> HIDE DEF k, row, r
    <3>5. rules' \in [RuleId -> RuleRow]
      BY <1>typ, <3>2, <3>3, <3>4 DEF RulesTyped
    <3>6. QED
      BY <1>typ, <3>1, <3>3, <3>5, EditorMoves DEF RulesTyped
  <2>6. CASE CreateVersion(e)
    <3> DEFINE r == editor[e].rule
               row == editor[e].read
               free == \A v \in versions : <<v.rule, v.version>> # <<r, row.version>>
               k == [pc |-> "invalidate", rule |-> r, read |-> row]
    <3>1. k \in RuleEdit /\ k.pc \in Unfinished
      BY <1>ed DEF RuleEdit, Unfinished
    <3>2. UNCHANGED <<rules, bindings, cache, lookup>>
      BY <2>6 DEF CreateVersion
    <3>3. CASE free
      <4>1. editor' = [editor EXCEPT ![e] = k] /\ tainted' = tainted
        BY <2>6, <3>3 DEF CreateVersion, GoesOn
      <4> HIDE DEF k
      <4>2. QED
        BY <1>typ, <3>1, <3>2, <4>1, EditorMoves DEF RulesTyped
    <3>4. CASE ~free
      <4>1. editor' = [editor EXCEPT ![e] = AtRest] /\ tainted' = {t \in Target : cache[t] # {}}
        BY <2>6, <3>4 DEF CreateVersion
      <4>2. tainted' \subseteq Target /\ \A t \in Target : cache[t] # {} => t \in tainted'
        BY <4>1
      <4>3. QED
        BY <1>typ, <3>2, <4>1, <4>2, RuleRows, EditorMoves DEF RulesTyped
    <3>5. QED
      BY <3>3, <3>4
  <2>7. CASE ArchiveBindings(e)
    <3> DEFINE k == [pc |-> "invalidate", rule |-> editor[e].rule, read |-> editor[e].read]
    <3>1. k \in RuleEdit /\ k.pc \in Unfinished
      BY <1>ed DEF RuleEdit, Unfinished
    <3>2. editor' = [editor EXCEPT ![e] = k] /\ UNCHANGED <<rules, versions, cache, tainted, lookup>>
      BY <2>7 DEF ArchiveBindings, GoesOn
    <3> HIDE DEF k
    <3>3. QED
      BY <1>typ, <3>1, <3>2, EditorMoves DEF RulesTyped
  <2>8. CASE Invalidate(e)
    <3>1. /\ cache' = [t \in Target |-> {}] /\ tainted' = {} /\ editor' = [editor EXCEPT ![e] = AtRest]
          /\ UNCHANGED <<rules, versions, bindings, lookup>>
      BY <2>8 DEF Invalidate
    <3>2. cache' \in [Target -> SUBSET (SUBSET Found)] /\ \A t \in Target : cache'[t] = {}
      BY <3>1
    <3>3. editor' \in [Editor -> RuleEdit]
      BY <1>typ, <3>1, RuleRows DEF RulesTyped
    <3>4. RulesTyped'
      BY <1>typ, <3>1, <3>2, <3>3 DEF RulesTyped
    <3>5. CacheHonest'
      BY <3>2 DEF CacheHonest
    <3>6. QED
      BY <3>4, <3>5 DEF RulesInv
  <2>9. QED
    BY <1>4, <2>1, <2>2, <2>3, <2>4, <2>5, <2>6, <2>7, <2>8 DEF Edit
<1>5. CASE UNCHANGED ruleVars
  <2>1. UNCHANGED <<rules, bindings, cache, tainted, editor, lookup>>
    BY <1>5 DEF ruleVars
  <2>2. \A t \in Target : Fetched(t)' = Fetched(t)
    BY <2>1, FetchedSame
  <2>3. QED
    BY <2>1, <2>2 DEF RulesInv, RulesTyped, CacheHonest
<1>6. QED
  BY <1>1, <1>2, <1>3, <1>4, <1>5 DEF RulesNext

\* CacheHonest and ExplanationAgrees: for any rules, conditions, targets and
\* editing threads a cached answer is right or its staleness accounted for,
\* and a decision is the same with and without its explanation.
THEOREM RulesAnswerAlike == RulesSpec => [](RulesTypeOK /\ CacheHonest /\ ExplanationAgrees)
  BY RulesStart, RulesStep, RulesHold, PTL DEF RulesSpec

-----------------------------------------------------------------------------
(* Quotas and rate limits.                                                 *)

LogEntry == [at : Nat, scoped : BOOLEAN, id : Nat]
CreateCall == [pc : {"none", "begin", "insert", "record"}, scoped : BOOLEAN, snapshot : Nat]

LimitsTyped ==
  /\ setup \in [engine : {"sqlite", "postgres"}, quota : BOOLEAN]
  /\ now \in 0..MaxNow
  /\ active \in Nat /\ commits \in Nat /\ active <= commits /\ commits <= MaxCreated
  /\ actionLog \subseteq LogEntry /\ IsFiniteSet(actionLog)
  /\ creator \in [Creator -> CreateCall]

\* Who has passed the quota check and who the rate check, and what counts.
PassedQuota == {c \in Creator : creator[c].pc = "insert"}
PassedRate == {c \in Creator : creator[c].pc # "none" /\ creator[c].scoped = FALSE}
InForce == {e \in actionLog : InWindow(e) /\ ~e.scoped}

\* On SQLite who may still write has seen the last count; on PostgreSQL each of
\* those who passed adds one at most.
QuotaInStep ==
  /\ \A c \in Creator : creator[c].snapshot <= commits
  /\ setup.quota = TRUE /\ setup.engine = "sqlite" =>
       /\ active <= QuotaMax
       /\ \A c \in Creator :
            creator[c].pc = "insert" /\ creator[c].snapshot = commits => active < QuotaMax
  /\ setup.quota = TRUE /\ setup.engine = "postgres" =>
       active + Cardinality(PassedQuota) <= QuotaMax + Cardinality(Creator) - 1

RateInStep == Cardinality(InForce) + Cardinality(PassedRate) <= RateMax + Cardinality(Creator) - 1

LimitsInv == LimitsTyped /\ QuotaInStep /\ RateInStep

\* Finite sets that differ by one element at most.
LEMMA OneMore ==
  ASSUME NEW S, NEW T, NEW x, IsFiniteSet(S), T \subseteq S \union {x}
  PROVE  /\ IsFiniteSet(T) /\ Cardinality(S) \in Nat /\ Cardinality(T) \in Nat
         /\ Cardinality(T) <= Cardinality(S) + 1
         /\ T \subseteq S => Cardinality(T) <= Cardinality(S)
         /\ x \in S /\ x \notin T => Cardinality(T) <= Cardinality(S) - 1
<1>1. IsFiniteSet(S \union {x}) /\ Cardinality(S) \in Nat
  BY FS_AddElement, FS_CardinalityType
<1>2. IsFiniteSet(T)
  BY <1>1, FS_Subset
<1>3. Cardinality(T) \in Nat /\ Cardinality(S \union {x}) \in Nat
  BY <1>1, <1>2, FS_CardinalityType
<1>4. Cardinality(T) <= Cardinality(S \union {x})
  BY <1>1, FS_Subset
<1>5. Cardinality(S \union {x}) <= Cardinality(S) + 1
  BY <1>1, FS_AddElement
<1>6. ASSUME T \subseteq S PROVE Cardinality(T) <= Cardinality(S)
  BY <1>6, FS_Subset
<1>7. ASSUME x \in S, x \notin T PROVE Cardinality(T) <= Cardinality(S) - 1
  <2>1. T \subseteq S \ {x}
    BY <1>7
  <2>2. IsFiniteSet(S \ {x}) /\ Cardinality(S \ {x}) = Cardinality(S) - 1
    BY <1>7, FS_RemoveElement
  <2>3. Cardinality(T) <= Cardinality(S \ {x})
    BY <2>1, <2>2, FS_Subset
  <2>4. QED
    BY <2>2, <2>3
<1>8. QED
  BY <1>1, <1>2, <1>3, <1>4, <1>5, <1>6, <1>7

\* The sizes that the invariant adds up are numbers.
LEMMA LimitSizes ==
  ASSUME LimitsInv
  PROVE  /\ Cardinality(Creator) \in Nat /\ QuotaMax \in Nat \ {0} /\ RateMax \in Nat \ {0}
         /\ IsFiniteSet(PassedQuota) /\ Cardinality(PassedQuota) \in Nat
         /\ Cardinality(PassedQuota) <= Cardinality(Creator)
         /\ IsFiniteSet(PassedRate) /\ Cardinality(PassedRate) \in Nat
         /\ Cardinality(PassedRate) <= Cardinality(Creator)
         /\ IsFiniteSet(InForce) /\ Cardinality(InForce) \in Nat
<1>1. PassedQuota \subseteq Creator /\ PassedRate \subseteq Creator /\ InForce \subseteq actionLog
  BY DEF PassedQuota, PassedRate, InForce
<1>2. IsFiniteSet(Creator) /\ IsFiniteSet(actionLog)
  BY LimitsAssumption DEF LimitsInv, LimitsTyped
<1>3. QED
  BY <1>1, <1>2, FS_Subset, FS_CardinalityType, LimitsAssumption

\* The invariant holds at the start.
LEMMA LimitsStart == LimitsInit => LimitsInv
<1> SUFFICES ASSUME LimitsInit PROVE LimitsInv
  OBVIOUS
<1>1. creator \in [Creator -> CreateCall] /\ \A c \in Creator : creator[c].pc = "none" /\ creator[c].snapshot = 0
  BY DEF LimitsInit, Unused, CreateCall
<1>2. LimitsTyped
  <2>1. actionLog \subseteq LogEntry /\ IsFiniteSet(actionLog)
    BY FS_EmptySet DEF LimitsInit
  <2>2. now \in 0..MaxNow /\ active \in Nat /\ commits \in Nat /\ active <= commits /\ commits <= MaxCreated
    BY LimitsAssumption DEF LimitsInit
  <2>3. QED
    BY <1>1, <2>1, <2>2 DEF LimitsInit, LimitsTyped
<1>3. PassedQuota = {} /\ PassedRate = {} /\ InForce = {}
  BY <1>1 DEF PassedQuota, PassedRate, InForce, LimitsInit
<1>4. Cardinality({}) = 0 /\ Cardinality(Creator) \in Nat
  BY FS_EmptySet, FS_CardinalityType, LimitsAssumption
<1>5. QuotaInStep
  BY <1>1, <1>3, <1>4, LimitsAssumption DEF QuotaInStep, LimitsInit
<1>6. RateInStep
  BY <1>3, <1>4, LimitsAssumption DEF RateInStep
<1>7. QED
  BY <1>2, <1>5, <1>6 DEF LimitsInv

\* Time passes, and an object is archived.
LEMMA LimitsAround ==
  ASSUME LimitsInv, LimitTick \/ ArchiveObject
  PROVE  LimitsInv'
<1>0. /\ Cardinality(Creator) \in Nat /\ IsFiniteSet(InForce) /\ Cardinality(InForce) \in Nat
      /\ Cardinality(PassedRate) \in Nat /\ Cardinality(PassedQuota) \in Nat /\ RateMax \in Nat
      /\ QuotaMax \in Nat
      /\ now \in Nat /\ active \in Nat /\ commits \in Nat /\ active <= commits /\ MaxNow \in Nat
      /\ Window \in Nat /\ MaxCreated \in Nat
      /\ \A e \in actionLog : e.at \in Nat
  BY LimitSizes, LimitsAssumption DEF LimitsInv, LimitsTyped, LogEntry
<1>1. CASE LimitTick
  <2>1. now < MaxNow /\ now' = now + 1 /\ UNCHANGED <<setup, active, commits, actionLog, creator>>
    BY <1>1 DEF LimitTick
  <2>2. InForce' \subseteq InForce
    BY <1>0, <2>1 DEF InForce, InWindow
  <2>3. Cardinality(InForce') <= Cardinality(InForce) /\ Cardinality(InForce') \in Nat
    BY <1>0, <2>2, FS_Subset, FS_CardinalityType
  <2>4. PassedRate' = PassedRate /\ PassedQuota' = PassedQuota
    BY <2>1 DEF PassedRate, PassedQuota
  <2>5. LimitsTyped'
    BY <1>0, <2>1 DEF LimitsInv, LimitsTyped
  <2>6. QuotaInStep'
    BY <2>1, <2>4 DEF LimitsInv, QuotaInStep
  <2>7. RateInStep'
    BY <1>0, <2>3, <2>4 DEF LimitsInv, RateInStep
  <2>8. QED
    BY <2>5, <2>6, <2>7 DEF LimitsInv
<1>2. CASE ArchiveObject
  <2>1. /\ active > 0 /\ commits < MaxCreated /\ active' = active - 1 /\ commits' = commits + 1
        /\ UNCHANGED <<setup, now, actionLog, creator>>
    BY <1>2 DEF ArchiveObject
  <2>2. PassedRate' = PassedRate /\ PassedQuota' = PassedQuota /\ InForce' = InForce
    BY <2>1 DEF PassedRate, PassedQuota, InForce, InWindow
  <2>3. LimitsTyped'
    BY <1>0, <2>1 DEF LimitsInv, LimitsTyped
  <2>4. QuotaInStep'
    <3>1. \A c \in Creator : creator[c].snapshot \in Nat
      BY DEF LimitsInv, LimitsTyped, CreateCall
    <3>2. QED
      BY <1>0, <2>1, <2>2, <3>1 DEF LimitsInv, QuotaInStep
  <2>5. RateInStep'
    BY <2>2 DEF LimitsInv, RateInStep
  <2>6. QED
    BY <2>3, <2>4, <2>5 DEF LimitsInv
<1>3. QED
  BY <1>1, <1>2

\* Who has passed which check, after one thread has gone on.
LEMMA CreatorMoves ==
  ASSUME LimitsInv, NEW c \in Creator, NEW d \in CreateCall, creator' = [creator EXCEPT ![c] = d]
  PROVE  /\ creator' \in [Creator -> CreateCall] /\ creator'[c] = d
         /\ \A b \in Creator \ {c} : creator'[b] = creator[b]
         /\ PassedQuota' \subseteq PassedQuota \union {c}
         /\ d.pc # "insert" => PassedQuota' \subseteq PassedQuota /\ c \notin PassedQuota'
         /\ PassedRate' \subseteq PassedRate \union {c}
         /\ d.pc = "none" \/ d.scoped = TRUE => PassedRate' \subseteq PassedRate /\ c \notin PassedRate'
         /\ creator[c].pc # "none" /\ d.scoped = creator[c].scoped => PassedRate' \subseteq PassedRate
<1>1. /\ creator' \in [Creator -> CreateCall] /\ creator'[c] = d
      /\ \A b \in Creator \ {c} : creator'[b] = creator[b]
  BY DEF LimitsInv, LimitsTyped
<1>2. PassedQuota' \subseteq PassedQuota \union {c}
  BY <1>1 DEF PassedQuota
<1>3. d.pc # "insert" => PassedQuota' \subseteq PassedQuota /\ c \notin PassedQuota'
  BY <1>1 DEF PassedQuota
<1>4. PassedRate' \subseteq PassedRate \union {c}
  BY <1>1 DEF PassedRate
<1>5. d.pc = "none" \/ d.scoped = TRUE => PassedRate' \subseteq PassedRate /\ c \notin PassedRate'
  BY <1>1 DEF PassedRate
<1>6. creator[c].pc # "none" /\ d.scoped = creator[c].scoped => PassedRate' \subseteq PassedRate
  BY <1>1 DEF PassedRate
<1>7. QED
  BY <1>1, <1>2, <1>3, <1>4, <1>5, <1>6

\* The calls of one thread.
LEMMA CreateStep ==
  ASSUME LimitsInv, NEW c \in Creator, Create(c)
  PROVE  LimitsInv'
<1> DEFINE C == Cardinality(Creator)
<1>0. /\ C \in Nat /\ QuotaMax \in Nat \ {0} /\ RateMax \in Nat \ {0}
      /\ IsFiniteSet(PassedQuota) /\ Cardinality(PassedQuota) \in Nat
      /\ IsFiniteSet(PassedRate) /\ Cardinality(PassedRate) \in Nat
      /\ IsFiniteSet(InForce) /\ Cardinality(InForce) \in Nat
      /\ IsFiniteSet(Creator) /\ IsFiniteSet(actionLog)
  BY LimitSizes, LimitsAssumption DEF LimitsInv, LimitsTyped
<1>a. /\ active \in Nat /\ commits \in Nat /\ active <= commits /\ commits <= MaxCreated /\ MaxCreated \in Nat
      /\ now \in Nat /\ creator[c] \in CreateCall /\ \A b \in Creator : creator[b].snapshot \in Nat
      /\ setup.quota \in BOOLEAN /\ setup.engine \in {"sqlite", "postgres"}
      /\ creator[c].scoped \in BOOLEAN
  BY LimitsAssumption DEF LimitsInv, LimitsTyped, CreateCall
<1>b. Unused \in CreateCall /\ Unused.pc = "none" /\ Unused.scoped = FALSE /\ Unused.snapshot = 0
  BY DEF Unused, CreateCall
<1>c. \A T : T \subseteq Creator => IsFiniteSet(T) /\ Cardinality(T) \in Nat /\ Cardinality(T) <= C
  BY <1>0, FS_Subset, FS_CardinalityType
<1>d. PassedRate' \subseteq Creator /\ PassedQuota' \subseteq Creator
  BY DEF PassedRate, PassedQuota
<1> HIDE DEF C
<1>1. ASSUME NEW s \in BOOLEAN, CheckRate(c, s) PROVE LimitsInv'
  <2> DEFINE d == [Unused EXCEPT !.pc = "begin", !.scoped = s]
  <2>1. /\ creator[c].pc = "none" /\ CountActions(s) < RateMax
        /\ creator' = [creator EXCEPT ![c] = d] /\ UNCHANGED <<setup, now, active, commits, actionLog>>
    BY <1>1 DEF CheckRate, UnderLimit
  <2>2. d \in CreateCall /\ d.pc = "begin" /\ d.scoped = s /\ d.snapshot = 0
    BY <1>b DEF CreateCall
  <2> HIDE DEF d
  <2>3. /\ creator' \in [Creator -> CreateCall] /\ creator'[c] = d
        /\ \A b \in Creator \ {c} : creator'[b] = creator[b]
        /\ PassedQuota' \subseteq PassedQuota
        /\ PassedRate' \subseteq PassedRate \union {c}
        /\ s = TRUE => PassedRate' \subseteq PassedRate
    BY <2>1, <2>2, CreatorMoves
  <2>4. LimitsTyped'
    BY <2>1, <2>3 DEF LimitsInv, LimitsTyped
  <2>5. Cardinality(PassedQuota') \in Nat /\ Cardinality(PassedQuota') <= Cardinality(PassedQuota)
    BY <1>0, <2>3, FS_Subset, FS_CardinalityType
  <2>6. QuotaInStep'
    <3>1. \A b \in Creator :
            \/ creator'[b].snapshot = creator[b].snapshot /\ creator'[b].pc = creator[b].pc
            \/ creator'[b].snapshot = 0 /\ creator'[b].pc = "begin"
      BY <1>a, <2>2, <2>3
    <3>1a. \A b \in Creator : creator'[b].snapshot <= commits
      BY <1>a, <3>1 DEF LimitsInv, QuotaInStep
    <3>2. setup.quota = TRUE /\ setup.engine = "sqlite" =>
            \A b \in Creator :
              creator'[b].pc = "insert" /\ creator'[b].snapshot = commits => active < QuotaMax
      BY <1>a, <3>1 DEF LimitsInv, QuotaInStep
    <3>3. setup.quota = TRUE /\ setup.engine = "postgres" =>
            active + Cardinality(PassedQuota') <= QuotaMax + C - 1
      BY <1>0, <1>a, <2>5 DEF LimitsInv, QuotaInStep, C
    <3>4. QED
      BY <2>1, <3>1a, <3>2, <3>3 DEF LimitsInv, QuotaInStep, C
  <2>7. InForce' = InForce
    BY <2>1 DEF InForce, InWindow
  <2>8. RateInStep'
    <3>1. CASE s = TRUE
      <4>1. Cardinality(PassedRate') <= Cardinality(PassedRate) /\ Cardinality(PassedRate') \in Nat
        BY <1>0, <2>3, <3>1, FS_Subset, FS_CardinalityType
      <4>2. QED
        BY <1>0, <2>7, <4>1 DEF LimitsInv, RateInStep, C
    <3>2. CASE s = FALSE
      <4>1. Cardinality({e \in actionLog : InWindow(e)}) < RateMax
        BY <2>1, <3>2 DEF CountActions
      <4>2. IsFiniteSet({e \in actionLog : InWindow(e)})
        BY <1>0, FS_Subset
      <4>3. InForce \subseteq {e \in actionLog : InWindow(e)}
        BY DEF InForce
      <4>4. Cardinality(InForce) <= Cardinality({e \in actionLog : InWindow(e)})
            /\ Cardinality({e \in actionLog : InWindow(e)}) \in Nat
        BY <4>2, <4>3, FS_Subset, FS_CardinalityType
      <4>5. Cardinality(PassedRate') \in Nat /\ Cardinality(PassedRate') <= C
        BY <1>c, <1>d
      <4>6. Cardinality(InForce) + Cardinality(PassedRate') <= RateMax + C - 1
        BY <1>0, <4>1, <4>4, <4>5
      <4>7. QED
        BY <2>7, <4>6 DEF RateInStep, C
    <3>3. QED
      BY <3>1, <3>2
  <2>9. QED
    BY <2>4, <2>6, <2>8 DEF LimitsInv
<1>2. ASSUME CheckInTxn(c) PROVE LimitsInv'
  <2> DEFINE ok == (setup.quota => UnderLimit(active, QuotaMax) /\ ~creator[c].scoped)
  <2> DEFINE d == IF ok THEN [creator[c] EXCEPT !.pc = "insert", !.snapshot = commits] ELSE Unused
  <2>1. /\ creator[c].pc = "begin"
        /\ creator' = [creator EXCEPT ![c] = d] /\ UNCHANGED <<setup, now, active, commits, actionLog>>
    BY <1>2 DEF CheckInTxn
  <2>2. /\ d \in CreateCall
        /\ ok => d.pc = "insert" /\ d.snapshot = commits /\ d.scoped = creator[c].scoped
        /\ ~ok => d.pc = "none" /\ d.snapshot = 0
    BY <1>a, <1>b DEF CreateCall
  <2>3. setup.quota = TRUE /\ d.pc = "insert" => active < QuotaMax
    BY <2>2 DEF UnderLimit
  <2> HIDE DEF d
  <2>4. /\ creator' \in [Creator -> CreateCall] /\ creator'[c] = d
        /\ \A b \in Creator \ {c} : creator'[b] = creator[b]
        /\ d.pc # "insert" => PassedQuota' \subseteq PassedQuota
        /\ PassedRate' \subseteq PassedRate
    <3>1. /\ creator' \in [Creator -> CreateCall] /\ creator'[c] = d
          /\ \A b \in Creator \ {c} : creator'[b] = creator[b]
          /\ d.pc # "insert" => PassedQuota' \subseteq PassedQuota
          /\ d.pc = "none" \/ d.scoped = TRUE => PassedRate' \subseteq PassedRate
          /\ creator[c].pc # "none" /\ d.scoped = creator[c].scoped => PassedRate' \subseteq PassedRate
      BY <2>1, <2>2, CreatorMoves
    <3> HIDE DEF ok
    <3>2. QED
      BY <2>1, <2>2, <3>1
  <2>5. LimitsTyped'
    BY <2>1, <2>4 DEF LimitsInv, LimitsTyped
  <2>6. d.snapshot \in Nat /\ d.snapshot <= commits
    <3> HIDE DEF ok
    <3>1. QED
      BY <1>a, <2>2
  <2>7. QuotaInStep'
    <3>1a. \A b \in Creator : creator'[b].snapshot <= commits
      BY <2>4, <2>6 DEF LimitsInv, QuotaInStep
    <3>2. setup.quota = TRUE /\ setup.engine = "sqlite" =>
            \A b \in Creator :
              creator'[b].pc = "insert" /\ creator'[b].snapshot = commits => active < QuotaMax
      <4> HIDE DEF ok
      <4>1. QED
        BY <1>a, <2>3, <2>4, <2>6 DEF LimitsInv, QuotaInStep
    <3>3. setup.quota = TRUE /\ setup.engine = "postgres" =>
            active + Cardinality(PassedQuota') <= QuotaMax + C - 1
      <4> HIDE DEF ok
      <4>1. Cardinality(PassedQuota') \in Nat /\ Cardinality(PassedQuota') <= C
        BY <1>c, <1>d
      <4>2. CASE d.pc = "insert"
        BY <1>0, <1>a, <2>3, <4>1, <4>2
      <4>3. CASE d.pc # "insert"
        <5>1. Cardinality(PassedQuota') <= Cardinality(PassedQuota)
          BY <1>0, <2>4, <4>3, FS_Subset
        <5>2. QED
          BY <1>0, <1>a, <4>1, <5>1 DEF LimitsInv, QuotaInStep, C
      <4>4. QED
        BY <4>2, <4>3
    <3>4. QED
      BY <2>1, <3>1a, <3>2, <3>3 DEF LimitsInv, QuotaInStep, C
  <2>8. RateInStep'
    <3>1. InForce' = InForce
      BY <2>1 DEF InForce, InWindow
    <3>2. Cardinality(PassedRate') <= Cardinality(PassedRate) /\ Cardinality(PassedRate') \in Nat
      BY <1>0, <2>4, FS_Subset, FS_CardinalityType
    <3>3. QED
      BY <1>0, <3>1, <3>2 DEF LimitsInv, RateInStep, C
  <2>9. QED
    BY <2>5, <2>7, <2>8 DEF LimitsInv
<1>3. ASSUME PersistObject(c) PROVE LimitsInv'
  <2>0. creator[c].pc = "insert" /\ c \in PassedQuota /\ commits < MaxCreated
        /\ UNCHANGED <<setup, now, actionLog>>
    BY <1>3 DEF PersistObject, PassedQuota
  <2>1. InForce' = InForce
    BY <2>0 DEF InForce, InWindow
  <2>2. CASE ~MayWrite(c)
    <3>1. creator' = [creator EXCEPT ![c] = Unused] /\ UNCHANGED <<active, commits>>
      BY <1>3, <2>2 DEF PersistObject
    <3>2. /\ creator' \in [Creator -> CreateCall] /\ creator'[c] = Unused
          /\ \A b \in Creator \ {c} : creator'[b] = creator[b]
          /\ PassedQuota' \subseteq PassedQuota /\ PassedRate' \subseteq PassedRate
      BY <1>b, <3>1, CreatorMoves
    <3>3. /\ Cardinality(PassedRate') <= Cardinality(PassedRate) /\ Cardinality(PassedRate') \in Nat
          /\ Cardinality(PassedQuota') <= Cardinality(PassedQuota) /\ Cardinality(PassedQuota') \in Nat
      BY <1>0, <3>2, FS_Subset, FS_CardinalityType
    <3>4. LimitsTyped'
      BY <2>0, <3>1, <3>2 DEF LimitsInv, LimitsTyped
    <3>5. QuotaInStep'
      <4>1. \A b \in Creator : creator'[b].snapshot <= commits
        BY <1>a, <1>b, <3>2 DEF LimitsInv, QuotaInStep
      <4>2. setup.quota = TRUE /\ setup.engine = "sqlite" =>
              \A b \in Creator :
                creator'[b].pc = "insert" /\ creator'[b].snapshot = commits => active < QuotaMax
        BY <1>b, <3>2 DEF LimitsInv, QuotaInStep
      <4>3. setup.quota = TRUE /\ setup.engine = "postgres" =>
              active + Cardinality(PassedQuota') <= QuotaMax + C - 1
        BY <1>0, <1>a, <3>3 DEF LimitsInv, QuotaInStep, C
      <4>4. QED
        BY <2>0, <3>1, <4>1, <4>2, <4>3 DEF LimitsInv, QuotaInStep, C
    <3>6. RateInStep'
      BY <1>0, <2>1, <3>3 DEF LimitsInv, RateInStep, C
    <3>7. QED
      BY <3>4, <3>5, <3>6 DEF LimitsInv
  <2>3. CASE MayWrite(c)
    <3> DEFINE d == [creator[c] EXCEPT !.pc = "record"]
    <3>1. creator' = [creator EXCEPT ![c] = d] /\ active' = active + 1 /\ commits' = commits + 1
      BY <1>3, <2>3 DEF PersistObject
    <3>2. d \in CreateCall /\ d.pc = "record" /\ d.scoped = creator[c].scoped /\ d.snapshot = creator[c].snapshot
      BY <1>a DEF CreateCall
    <3> HIDE DEF d
    <3>3. /\ creator' \in [Creator -> CreateCall] /\ creator'[c] = d
          /\ \A b \in Creator \ {c} : creator'[b] = creator[b]
          /\ PassedQuota' \subseteq PassedQuota /\ c \notin PassedQuota'
          /\ PassedRate' \subseteq PassedRate
      BY <2>0, <3>1, <3>2, CreatorMoves
    <3>4. /\ Cardinality(PassedRate') <= Cardinality(PassedRate) /\ Cardinality(PassedRate') \in Nat
      BY <1>0, <3>3, FS_Subset, FS_CardinalityType
    <3>5. Cardinality(PassedQuota') <= Cardinality(PassedQuota) - 1 /\ Cardinality(PassedQuota') \in Nat
      <4>1. PassedQuota' \subseteq PassedQuota \union {c}
        BY <3>3
      <4>2. QED
        BY <1>0, <2>0, <3>3, <4>1, OneMore
    <3>6. LimitsTyped'
      <4>1. active' \in Nat /\ commits' \in Nat /\ active' <= commits' /\ commits' <= MaxCreated
        BY <1>a, <2>0, <3>1
      <4>2. QED
        BY <2>0, <3>3, <4>1 DEF LimitsInv, LimitsTyped
    <3>7. QuotaInStep'
      <4>1. \A b \in Creator : creator'[b].snapshot <= commits /\ creator'[b].snapshot \in Nat
        BY <1>a, <3>2, <3>3 DEF LimitsInv, QuotaInStep
      <4>2. \A b \in Creator : creator'[b].snapshot <= commits' /\ creator'[b].snapshot # commits'
        BY <1>a, <3>1, <4>1
      <4>3. setup.quota = TRUE /\ setup.engine = "sqlite" => active' <= QuotaMax
        BY <1>0, <1>a, <2>0, <2>3, <3>1 DEF LimitsInv, QuotaInStep, MayWrite
      <4>4. setup.quota = TRUE /\ setup.engine = "postgres" =>
              active' + Cardinality(PassedQuota') <= QuotaMax + C - 1
        BY <1>0, <1>a, <3>1, <3>5 DEF LimitsInv, QuotaInStep, C
      <4>5. QED
        BY <2>0, <4>2, <4>3, <4>4 DEF QuotaInStep, C
    <3>8. RateInStep'
      BY <1>0, <2>1, <3>4 DEF LimitsInv, RateInStep, C
    <3>9. QED
      BY <3>6, <3>7, <3>8 DEF LimitsInv
  <2>4. QED
    BY <2>2, <2>3
<1>4. ASSUME RecordCreate(c) PROVE LimitsInv'
  <2> DEFINE e == [at |-> now, scoped |-> creator[c].scoped, id |-> Cardinality(actionLog)]
  <2>1. /\ creator[c].pc = "record" /\ actionLog' = actionLog \union {e}
        /\ creator' = [creator EXCEPT ![c] = Unused] /\ UNCHANGED <<setup, now, active, commits>>
    BY <1>4 DEF RecordCreate
  <2>2. e \in LogEntry /\ e.scoped = creator[c].scoped
    <3>1. Cardinality(actionLog) \in Nat
      BY <1>0, FS_CardinalityType
    <3>2. QED
      BY <1>a, <3>1 DEF LogEntry
  <2> HIDE DEF e
  <2>3. /\ creator' \in [Creator -> CreateCall] /\ creator'[c] = Unused
        /\ \A b \in Creator \ {c} : creator'[b] = creator[b]
        /\ PassedQuota' \subseteq PassedQuota
        /\ PassedRate' \subseteq PassedRate /\ c \notin PassedRate'
    BY <1>b, <2>1, CreatorMoves
  <2>4. LimitsTyped'
    <3>1. actionLog' \subseteq LogEntry /\ IsFiniteSet(actionLog')
      BY <1>0, <2>1, <2>2, FS_AddElement DEF LimitsInv, LimitsTyped
    <3>2. QED
      BY <2>1, <2>3, <3>1 DEF LimitsInv, LimitsTyped
  <2>5. Cardinality(PassedQuota') <= Cardinality(PassedQuota) /\ Cardinality(PassedQuota') \in Nat
    BY <1>0, <2>3, FS_Subset, FS_CardinalityType
  <2>6. QuotaInStep'
    <3>1. \A b \in Creator : creator'[b].snapshot <= commits
      BY <1>a, <1>b, <2>3 DEF LimitsInv, QuotaInStep
    <3>2. setup.quota = TRUE /\ setup.engine = "sqlite" =>
            \A b \in Creator :
              creator'[b].pc = "insert" /\ creator'[b].snapshot = commits => active < QuotaMax
      BY <1>b, <2>3 DEF LimitsInv, QuotaInStep
    <3>3. setup.quota = TRUE /\ setup.engine = "postgres" =>
            active + Cardinality(PassedQuota') <= QuotaMax + C - 1
      BY <1>0, <1>a, <2>5 DEF LimitsInv, QuotaInStep, C
    <3>4. QED
      BY <2>1, <3>1, <3>2, <3>3 DEF LimitsInv, QuotaInStep, C
  <2>7. RateInStep'
    <3>1. InForce' \subseteq InForce \union {e}
      BY <2>1 DEF InForce, InWindow
    <3>2. CASE creator[c].scoped = TRUE
      <4>1. InForce' \subseteq InForce
        BY <2>1, <2>2, <3>2 DEF InForce, InWindow
      <4>2. /\ Cardinality(InForce') <= Cardinality(InForce) /\ Cardinality(InForce') \in Nat
            /\ Cardinality(PassedRate') <= Cardinality(PassedRate) /\ Cardinality(PassedRate') \in Nat
        BY <1>0, <2>3, <4>1, FS_Subset, FS_CardinalityType
      <4>3. QED
        BY <1>0, <4>2 DEF LimitsInv, RateInStep, C
    <3>3. CASE creator[c].scoped = FALSE
      <4>1. c \in PassedRate
        BY <2>1, <3>3 DEF PassedRate
      <4>2. PassedRate' \subseteq PassedRate \union {c}
        BY <2>3
      <4>3. Cardinality(PassedRate') <= Cardinality(PassedRate) - 1 /\ Cardinality(PassedRate') \in Nat
        BY <1>0, <2>3, <4>1, <4>2, OneMore
      <4>4. Cardinality(InForce') <= Cardinality(InForce) + 1 /\ Cardinality(InForce') \in Nat
        BY <1>0, <3>1, OneMore
      <4>5. QED
        BY <1>0, <4>3, <4>4 DEF LimitsInv, RateInStep, C
    <3>4. QED
      BY <1>a, <3>2, <3>3
  <2>8. QED
    BY <2>4, <2>6, <2>7 DEF LimitsInv
<1>5. QED
  BY <1>1, <1>2, <1>3, <1>4 DEF Create

\* Every step keeps the invariant.
LEMMA LimitsStep == LimitsInv /\ [LimitsNext]_limitVars => LimitsInv'
<1> SUFFICES ASSUME LimitsInv, [LimitsNext]_limitVars PROVE LimitsInv'
  OBVIOUS
<1>1. CASE UNCHANGED limitVars
  <2>1. UNCHANGED <<setup, now, active, commits, actionLog, creator>>
    BY <1>1 DEF limitVars
  <2>2. PassedQuota' = PassedQuota /\ PassedRate' = PassedRate /\ InForce' = InForce
    BY <2>1 DEF PassedQuota, PassedRate, InForce, InWindow
  <2>3. LimitsTyped'
    BY <2>1 DEF LimitsInv, LimitsTyped
  <2>4. QuotaInStep' /\ RateInStep'
    BY <2>1, <2>2 DEF LimitsInv, QuotaInStep, RateInStep
  <2>5. QED
    BY <2>3, <2>4 DEF LimitsInv
<1>2. CASE LimitsNext
  BY <1>2, LimitsAround, CreateStep DEF LimitsNext
<1>3. QED
  BY <1>1, <1>2

\* What the invariant says of quotas and rates.
LEMMA LimitsHold == LimitsInv => LimitsTypeOK /\ QuotaBounded /\ RateBounded
<1> SUFFICES ASSUME LimitsInv PROVE LimitsTypeOK /\ QuotaBounded /\ RateBounded
  OBVIOUS
<1>0. /\ Cardinality(Creator) \in Nat /\ Cardinality(PassedQuota) \in Nat
      /\ Cardinality(PassedRate) \in Nat /\ Cardinality(InForce) \in Nat
      /\ QuotaMax \in Nat /\ RateMax \in Nat
  BY LimitSizes
<1>a. active \in Nat /\ commits \in Nat /\ active <= commits /\ commits <= MaxCreated /\ MaxCreated \in Nat
      /\ setup.quota \in BOOLEAN /\ setup.engine \in {"sqlite", "postgres"}
  BY LimitsAssumption DEF LimitsInv, LimitsTyped
<1>1. LimitsTypeOK
  <2>1. \A c \in Creator : creator[c].pc \in {"none", "begin", "insert", "record"}
    BY DEF LimitsInv, LimitsTyped, CreateCall
  <2>2. active \in 0..MaxCreated
    BY <1>a
  <2>3. QED
    BY <2>1, <2>2 DEF LimitsTypeOK, LimitsInv, LimitsTyped
<1>2. ASSUME setup.quota
      PROVE active <= QuotaMax + IF setup.engine = "postgres" THEN Cardinality(Creator) - 1 ELSE 0
  <2>1. setup.quota = TRUE
    BY <1>2, <1>a
  <2>2. CASE setup.engine = "postgres"
    <3>1. active <= QuotaMax + Cardinality(Creator) - 1
      BY <1>0, <1>a, <2>1, <2>2 DEF LimitsInv, QuotaInStep
    <3>2. QED
      BY <1>0, <1>a, <2>2, <3>1
  <2>3. CASE setup.engine = "sqlite"
    BY <1>0, <1>a, <2>1, <2>3 DEF LimitsInv, QuotaInStep
  <2>4. QED
    BY <1>a, <2>2, <2>3
<1>3. Cardinality(InForce) <= RateMax + Cardinality(Creator) - 1
  BY <1>0 DEF LimitsInv, RateInStep
<1>4. QED
  BY <1>1, <1>2, <1>3 DEF QuotaBounded, RateBounded, InForce

\* Quotas and rates: on SQLite the quota holds, and elsewhere quota and rate are
\* exceeded by one per other thread at most, for any number of threads.
THEOREM LimitsBound == LimitsSpec => [](QuotaBounded /\ RateBounded)
<1>1. LimitsInv => QuotaBounded /\ RateBounded
  BY LimitsHold
<1>2. QED
  BY <1>1, LimitsStart, LimitsStep, PTL DEF LimitsSpec

-----------------------------------------------------------------------------
(* Environments.                                                           *)

Origin == {"none", "created", "projected"}
EnvObject == [life : {"ACTIVE", "ARCHIVED"}, current : Nat, last : Nat]
SnapshotRow == [rows : [Obj -> Origin], versions : [Obj -> Nat]]
OwnerPoint ==
  {"idle", "member", "spawn", "cleanup", "write", "audit", "tombstone", "archived", "revert",
   "promote", "restore"}
OwnerCall ==
  [pc : OwnerPoint, target : EnvState, todo : SUBSET Obj, prev : EnvState, scoped : BOOLEAN]

EnvTyped ==
  /\ env \in EnvState
  /\ envScope \in {"none", "ACTIVE", "ARCHIVED"}
  /\ inside \in [Obj -> Origin]
  /\ objects \in [Obj -> EnvObject]
  /\ promoted \subseteq Obj
  /\ snapshot \subseteq SnapshotRow
  /\ owner \in OwnerCall
  /\ traced \subseteq EnvState \X EnvState
  /\ adrift \in BOOLEAN
  /\ mishaps \in Nat

\* The versions an object has, and a snapshot may return to.
VersionsExist ==
  /\ \A o \in Obj : 1 <= objects[o].current /\ objects[o].current <= objects[o].last
  /\ \A s \in snapshot, o \in Obj :
       s.rows[o] # "none" => 1 <= s.versions[o] /\ s.versions[o] <= objects[o].last

\* What became of the scope, at every point of a call that nothing set adrift.
ScopeInStep ==
  adrift = FALSE =>
    /\ owner.pc \in {"idle", "promote", "restore"} => InStep
    /\ owner.pc \in {"member", "spawn", "cleanup"} => env = "none" /\ envScope = "ACTIVE"
    /\ owner.pc = "write" => env \notin {"none", "discarded"} /\ envScope # "ARCHIVED"
                             /\ owner.target # "none" /\ owner.prev \notin {"none", "discarded"}
    /\ owner.pc = "audit" => /\ env # "none" /\ envScope # "ARCHIVED"
                             /\ env = "discarded" <=> owner.target = "discarded"
                             /\ owner.target = "discarded" => owner.prev \notin {"none", "discarded"}
    /\ owner.pc \in {"tombstone", "revert"} => env = "discarded" /\ envScope # "ARCHIVED"
                                               /\ owner.prev \notin {"none", "discarded"}
    /\ owner.pc = "archived" => env = "discarded" /\ envScope = "ARCHIVED"

\* How far a promotion into a scope is.
PromotesInStep ==
  owner.scoped = TRUE =>
    \/ owner.pc = "promote" /\ Created \subseteq promoted \union owner.todo
    \/ owner.pc = "write" /\ owner.target = "promoted" /\ Created \subseteq promoted
    \/ owner.pc = "audit" /\ owner.target = "promoted"

\* There is one snapshot at most, and half of it may be restored.
RestoresInStep ==
  /\ \A s, t \in snapshot : s = t
  /\ owner.pc = "restore" =>
       \A s \in snapshot, o \in Obj : s.rows[o] # "none" => objects[o].current = s.versions[o]

EnvInv == EnvTyped /\ VersionsExist /\ ScopeInStep /\ PromotesInStep /\ RestoresInStep

\* The invariant holds at the start.
LEMMA EnvStart == EnvInit => EnvInv
<1> SUFFICES ASSUME EnvInit PROVE EnvInv
  OBVIOUS
<1>1. /\ owner \in OwnerCall /\ owner.pc = "idle" /\ owner.scoped = FALSE
  BY DEF EnvInit, EnvIdle, OwnerCall, OwnerPoint, EnvState
<1>2. /\ objects \in [Obj -> EnvObject]
      /\ \A o \in Obj : objects[o].current = 1 /\ objects[o].last = 1
  BY DEF EnvInit, EnvObject
<1>3. EnvTyped
  BY <1>1, <1>2 DEF EnvInit, EnvTyped, EnvState, Origin
<1>4. VersionsExist /\ ScopeInStep /\ PromotesInStep /\ RestoresInStep
  BY <1>1, <1>2 DEF EnvInit, VersionsExist, ScopeInStep, InStep, PromotesInStep, RestoresInStep
<1>5. QED
  BY <1>3, <1>4 DEF EnvInv

\* What the helpers make of the owner's call.
LEMMA OwnerGoesOn ==
  ASSUME owner \in OwnerCall
  PROVE  /\ \A p \in OwnerPoint, t \in EnvState, d \in SUBSET Obj, q \in EnvState :
              Continue(p, t, d, q) => /\ owner' \in OwnerCall
                                      /\ owner'.pc = p /\ owner'.target = t /\ owner'.todo = d
                                      /\ owner'.prev = q /\ owner'.scoped = owner.scoped
         /\ Return => owner' \in OwnerCall /\ owner'.pc = "idle" /\ owner'.scoped = FALSE
<1>1. ASSUME NEW p \in OwnerPoint, NEW t \in EnvState,
             NEW d \in SUBSET Obj, NEW q \in EnvState, Continue(p, t, d, q)
      PROVE  /\ owner' \in OwnerCall
             /\ owner'.pc = p /\ owner'.target = t /\ owner'.todo = d
             /\ owner'.prev = q /\ owner'.scoped = owner.scoped
  BY <1>1 DEF Continue, OwnerCall
<1>2. ASSUME Return
      PROVE  owner' \in OwnerCall /\ owner'.pc = "idle" /\ owner'.scoped = FALSE
  BY <1>2 DEF Return, EnvIdle, OwnerCall, OwnerPoint, EnvState
<1>3. QED
  BY <1>1, <1>2

\* Where a call can be, and what states there are.
LEMMA OwnerPoints ==
  /\ \A p \in {"idle", "member", "spawn", "cleanup", "write", "audit", "tombstone", "archived", "revert",
               "promote", "restore"} : p \in OwnerPoint
  /\ \A t \in {"none", "spawning", "active", "suspended", "completed", "discarded", "promoted"} : t \in EnvState
BY DEF OwnerPoint, EnvState

\* A step of a call that leaves the objects alone.
LEMMA CallMoves ==
  ASSUME EnvInv, UNCHANGED <<inside, objects, promoted, snapshot>>, env' \in EnvState,
         envScope' \in {"none", "ACTIVE", "ARCHIVED"}, owner' \in OwnerCall, mishaps' \in Nat,
         traced' \subseteq EnvState \X EnvState, adrift' \in BOOLEAN,
         owner'.pc # "restore" \/ owner' = owner, ScopeInStep', PromotesInStep'
  PROVE  EnvInv'
<1>1. EnvTyped'
  BY DEF EnvInv, EnvTyped
<1>2. VersionsExist' /\ RestoresInStep'
  BY DEF EnvInv, VersionsExist, RestoresInStep
<1>3. QED
  BY <1>1, <1>2 DEF EnvInv

\* A step that goes on with the owner's call, or ends it, between two points of
\* which neither restores.
LEMMA CallGoes ==
  ASSUME EnvInv, UNCHANGED <<inside, objects, promoted, snapshot, trailVars>>,
         env' \in EnvState, envScope' \in {"none", "ACTIVE", "ARCHIVED"}, owner.pc # "restore",
         owner' \in OwnerCall, owner'.pc # "restore", ScopeInStep', PromotesInStep', PromotesEach
  PROVE  EnvInv' /\ PromotesEach /\ MatchesSnapshot
<1>1. traced' = traced /\ adrift' = adrift /\ mishaps' = mishaps
  BY DEF trailVars
<1>2. EnvInv'
  BY <1>1, CallMoves DEF EnvInv, EnvTyped
<1>3. QED
  BY <1>2 DEF MatchesSnapshot

\* spawn().
LEMMA SpawnMoves ==
  ASSUME EnvInv, SpawnScope \/ ScopeIsMade \/ SpawnInsert \/ CleanUpScope
  PROVE  EnvInv' /\ PromotesEach /\ MatchesSnapshot
<1>0. /\ env \in EnvState /\ envScope \in {"none", "ACTIVE", "ARCHIVED"} /\ owner \in OwnerCall
      /\ ScopeInStep /\ PromotesInStep /\ {} \in SUBSET Obj
      /\ owner.scoped \in BOOLEAN
  BY DEF EnvInv, EnvTyped, OwnerCall
<1>1. CASE SpawnScope
  <2>1. /\ owner.pc = "idle" /\ env = "none" /\ envScope' = "ACTIVE" /\ env' = env
        /\ Continue("member", "spawning", {}, "none")
        /\ UNCHANGED <<inside, objects, promoted, snapshot, trailVars>>
    BY <1>1 DEF SpawnScope
  <2>2. owner' \in OwnerCall /\ owner'.pc = "member" /\ owner'.scoped = owner.scoped
    BY <1>0, <2>1, OwnerGoesOn, OwnerPoints
  <2>3. ScopeInStep' /\ PromotesInStep'
    BY <1>0, <2>1, <2>2 DEF ScopeInStep, PromotesInStep, trailVars
  <2>4. QED
    BY <1>0, <2>1, <2>2, <2>3, CallGoes DEF PromotesEach
<1>2. CASE ScopeIsMade
  <2>1. /\ owner.pc = "member" /\ envScope' = envScope /\ env' = env
        /\ Continue("spawn", "spawning", {}, "none")
        /\ UNCHANGED <<inside, objects, promoted, snapshot, trailVars>>
    BY <1>2 DEF ScopeIsMade
  <2>2. owner' \in OwnerCall /\ owner'.pc = "spawn" /\ owner'.scoped = owner.scoped
    BY <1>0, <2>1, OwnerGoesOn, OwnerPoints
  <2>3. ScopeInStep' /\ PromotesInStep'
    BY <1>0, <2>1, <2>2 DEF ScopeInStep, PromotesInStep, trailVars
  <2>4. QED
    BY <1>0, <2>1, <2>2, <2>3, CallGoes DEF PromotesEach
<1>3. CASE SpawnInsert
  <2>1. /\ owner.pc = "spawn" /\ env' = "spawning" /\ envScope' = envScope
        /\ Continue("audit", "spawning", {}, "none")
        /\ UNCHANGED <<inside, objects, promoted, snapshot, trailVars>>
    BY <1>3 DEF SpawnInsert
  <2>2. /\ owner' \in OwnerCall /\ owner'.pc = "audit" /\ owner'.scoped = owner.scoped
        /\ owner'.target = "spawning" /\ env' \in EnvState
    BY <1>0, <2>1, OwnerGoesOn, OwnerPoints
  <2>3. ScopeInStep' /\ PromotesInStep'
    BY <1>0, <2>1, <2>2 DEF ScopeInStep, PromotesInStep, trailVars
  <2>4. QED
    BY <1>0, <2>1, <2>2, <2>3, CallGoes DEF PromotesEach
<1>4. CASE CleanUpScope
  <2>1. /\ owner.pc = "cleanup" /\ env' = env /\ envScope' = "ARCHIVED" /\ Return
        /\ UNCHANGED <<inside, objects, promoted, snapshot, trailVars>>
    BY <1>4 DEF CleanUpScope
  <2>2. owner' \in OwnerCall /\ owner'.pc = "idle" /\ owner'.scoped = FALSE
    BY <1>0, <2>1, OwnerGoesOn
  <2>3. ScopeInStep' /\ PromotesInStep'
    BY <1>0, <2>1, <2>2 DEF ScopeInStep, InStep, PromotesInStep, trailVars
  <2>4. QED
    BY <1>0, <2>1, <2>2, <2>3, CallGoes DEF PromotesEach
<1>5. QED
  BY <1>1, <1>2, <1>3, <1>4

\* _transition().
LEMMA TransitionMoves ==
  ASSUME EnvInv,
         \/ BeginDiscard \/ WriteState \/ RecordState
         \/ \E t \in {"active", "suspended", "completed", "promoted"} : BeginTransition(t)
  PROVE  EnvInv' /\ PromotesEach /\ MatchesSnapshot
<1>0. /\ env \in EnvState /\ envScope \in {"none", "ACTIVE", "ARCHIVED"} /\ owner \in OwnerCall
      /\ ScopeInStep /\ PromotesInStep /\ {} \in SUBSET Obj /\ Created \in SUBSET Obj
      /\ owner.target \in EnvState /\ owner.prev \in EnvState /\ owner.scoped \in BOOLEAN
      /\ traced \subseteq EnvState \X EnvState /\ adrift \in BOOLEAN /\ mishaps \in Nat
  BY DEF EnvInv, EnvTyped, Created, OwnerCall
<1>1. CASE BeginDiscard \/ \E t \in {"active", "suspended", "completed", "promoted"} : BeginTransition(t)
  <2>1. PICK t \in {"active", "suspended", "completed", "promoted", "discarded"} :
        /\ owner.pc = "idle" /\ <<env, t>> \in ValidTransition
        /\ Continue("write", t, {}, env)
        /\ UNCHANGED <<env, envScope, inside, objects, promoted, snapshot, trailVars>>
    BY <1>1 DEF BeginDiscard, BeginTransition
  <2>2. /\ owner' \in OwnerCall /\ owner'.pc = "write" /\ owner'.scoped = owner.scoped
        /\ owner'.target = t /\ owner'.prev = env
    BY <1>0, <2>1, OwnerGoesOn, OwnerPoints
  <2>3. env \notin {"none", "discarded"}
    BY <2>1 DEF ValidTransition
  <2>4. ScopeInStep'
    BY <1>0, <2>1, <2>2, <2>3 DEF ScopeInStep, InStep, trailVars
  <2>5. PromotesInStep'
    BY <1>0, <2>1, <2>2 DEF PromotesInStep
  <2>6. QED
    BY <1>0, <2>1, <2>2, <2>4, <2>5, CallGoes DEF PromotesEach
<1>2. CASE WriteState
  <2>1. /\ owner.pc = "write" /\ env' = owner.target /\ envScope' = envScope
        /\ Continue("audit", owner.target, {}, owner.prev)
        /\ UNCHANGED <<inside, objects, promoted, snapshot, trailVars>>
    BY <1>2 DEF WriteState
  <2>2. /\ owner' \in OwnerCall /\ owner'.pc = "audit" /\ owner'.scoped = owner.scoped
        /\ owner'.target = owner.target /\ owner'.prev = owner.prev
    BY <1>0, <2>1, OwnerGoesOn, OwnerPoints
  <2>3. ScopeInStep' /\ PromotesInStep'
    BY <1>0, <2>1, <2>2 DEF ScopeInStep, PromotesInStep, trailVars
  <2>4. PromotesEach
    BY <1>0, <2>1 DEF PromotesInStep, PromotesEach
  <2>5. QED
    BY <1>0, <2>1, <2>2, <2>3, <2>4, CallGoes
<1>3. CASE RecordState
  <2>1. /\ owner.pc = "audit" /\ traced' = traced \union {<<owner.prev, owner.target>>}
        /\ IF owner.target = "discarded" THEN Continue("tombstone", "discarded", Created, owner.prev) ELSE Return
        /\ UNCHANGED <<env, envScope, inside, objects, promoted, snapshot, adrift, mishaps>>
    BY <1>3 DEF RecordState
  <2>2. traced' \subseteq EnvState \X EnvState
    BY <1>0, <2>1
  <2>3. /\ owner' \in OwnerCall /\ owner'.scoped \in {FALSE, owner.scoped}
        /\ owner.target = "discarded" => owner'.pc = "tombstone" /\ owner'.prev = owner.prev
        /\ owner.target # "discarded" => owner'.pc = "idle" /\ owner'.scoped = FALSE
    <3>1. CASE owner.target = "discarded"
      <4>1. Continue("tombstone", "discarded", Created, owner.prev)
        BY <2>1, <3>1
      <4>2. "tombstone" \in OwnerPoint /\ "discarded" \in EnvState
        BY OwnerPoints
      <4>3. /\ owner' \in OwnerCall /\ owner'.pc = "tombstone"
            /\ owner'.prev = owner.prev /\ owner'.scoped = owner.scoped
        BY <1>0, <4>1, <4>2, OwnerGoesOn
      <4>4. QED
        BY <3>1, <4>3
    <3>2. CASE owner.target # "discarded"
      BY <1>0, <2>1, <3>2, OwnerGoesOn
    <3>3. QED
      BY <3>1, <3>2
  <2>4. ScopeInStep'
    BY <1>0, <2>1, <2>3 DEF ScopeInStep, InStep
  <2>5. PromotesInStep'
    BY <1>0, <2>1, <2>3 DEF PromotesInStep
  <2>6. EnvInv'
    BY <1>0, <2>1, <2>2, <2>3, <2>4, <2>5, CallMoves
  <2>7. QED
    BY <2>1, <2>6 DEF PromotesEach, MatchesSnapshot
<1>4. QED
  BY <1>1, <1>2, <1>3

\* discard(), from the archiving of its scope.
LEMMA DiscardMoves ==
  ASSUME EnvInv, ArchiveEnvScope \/ ArchiveRefused \/ RecordArchival \/ RevertState
  PROVE  EnvInv' /\ PromotesEach /\ MatchesSnapshot
<1>0. /\ env \in EnvState /\ envScope \in {"none", "ACTIVE", "ARCHIVED"} /\ owner \in OwnerCall
      /\ ScopeInStep /\ PromotesInStep /\ {} \in SUBSET Obj
      /\ owner.prev \in EnvState /\ owner.scoped \in BOOLEAN
  BY DEF EnvInv, EnvTyped, OwnerCall
<1>1. CASE ArchiveEnvScope
  <2>1. /\ owner.pc = "tombstone" /\ env' = env /\ envScope' = "ARCHIVED"
        /\ Continue("archived", "discarded", {}, owner.prev)
        /\ UNCHANGED <<inside, objects, promoted, snapshot, trailVars>>
    BY <1>1 DEF ArchiveEnvScope
  <2>2. owner' \in OwnerCall /\ owner'.pc = "archived" /\ owner'.scoped = owner.scoped
    BY <1>0, <2>1, OwnerGoesOn, OwnerPoints
  <2>3. ScopeInStep' /\ PromotesInStep'
    BY <1>0, <2>1, <2>2 DEF ScopeInStep, PromotesInStep, trailVars
  <2>4. QED
    BY <1>0, <2>1, <2>2, <2>3, CallGoes DEF PromotesEach
<1>2. CASE ArchiveRefused
  <2>1. /\ owner.pc = "tombstone" /\ envScope = "ARCHIVED"
        /\ Continue("revert", "discarded", {}, owner.prev)
        /\ UNCHANGED <<env, envScope, inside, objects, promoted, snapshot, trailVars>>
    BY <1>2 DEF ArchiveRefused
  <2>2. owner' \in OwnerCall /\ owner'.pc = "revert" /\ owner'.scoped = owner.scoped
    BY <1>0, <2>1, OwnerGoesOn, OwnerPoints
  <2>3. ScopeInStep' /\ PromotesInStep'
    BY <1>0, <2>1, <2>2 DEF ScopeInStep, PromotesInStep, trailVars
  <2>4. QED
    BY <1>0, <2>1, <2>2, <2>3, CallGoes DEF PromotesEach
<1>3. CASE RecordArchival
  <2>1. /\ owner.pc = "archived" /\ Return
        /\ UNCHANGED <<env, envScope, inside, objects, promoted, snapshot, trailVars>>
    BY <1>3 DEF RecordArchival
  <2>2. owner' \in OwnerCall /\ owner'.pc = "idle" /\ owner'.scoped = FALSE
    BY <1>0, <2>1, OwnerGoesOn
  <2>3. ScopeInStep' /\ PromotesInStep'
    BY <1>0, <2>1, <2>2 DEF ScopeInStep, InStep, PromotesInStep, trailVars
  <2>4. QED
    BY <1>0, <2>1, <2>2, <2>3, CallGoes DEF PromotesEach
<1>4. CASE RevertState
  <2>1. /\ owner.pc = "revert" /\ env' = owner.prev /\ envScope' = envScope /\ Return
        /\ UNCHANGED <<inside, objects, promoted, snapshot, trailVars>>
    BY <1>4 DEF RevertState, Reverted
  <2>2. owner' \in OwnerCall /\ owner'.pc = "idle" /\ owner'.scoped = FALSE
    BY <1>0, <2>1, OwnerGoesOn
  <2>3. ScopeInStep' /\ PromotesInStep'
    BY <1>0, <2>1, <2>2 DEF ScopeInStep, InStep, PromotesInStep, trailVars
  <2>4. PromotesEach
    BY <1>0, <2>1 DEF PromotesInStep, PromotesEach
  <2>5. QED
    BY <1>0, <2>1, <2>2, <2>3, <2>4, CallGoes
<1>5. QED
  BY <1>1, <1>2, <1>3, <1>4

\* A statement that fails, a process that dies, and a state rolled back.
LEMMA MishapMoves ==
  ASSUME EnvInv, MishapsNext
  PROVE  EnvInv' /\ PromotesEach /\ MatchesSnapshot
<1>0. /\ env \in EnvState /\ envScope \in {"none", "ACTIVE", "ARCHIVED"} /\ owner \in OwnerCall
      /\ mishaps \in Nat /\ ScopeInStep /\ PromotesInStep /\ {} \in SUBSET Obj
      /\ owner.target \in EnvState /\ owner.prev \in EnvState /\ owner.scoped \in BOOLEAN
      /\ traced \subseteq EnvState \X EnvState /\ adrift \in BOOLEAN /\ owner.pc \in OwnerPoint
  BY DEF EnvInv, EnvTyped, OwnerCall
<1>1. /\ mishaps' = mishaps + 1 /\ mishaps' \in Nat /\ mishaps' # mishaps
      /\ UNCHANGED <<envScope, inside, objects, promoted, snapshot>>
  BY <1>0 DEF MishapsNext, Fail, Die, RollBackState
<1>2. PromotesEach /\ MatchesSnapshot
  BY <1>1 DEF PromotesEach, MatchesSnapshot
<1>3. CASE Fail
  <2>1. /\ owner.pc # "idle" /\ env' = env /\ traced' = traced
        /\ CASE owner.pc = "spawn" -> Continue("cleanup", "spawning", {}, "none")
             [] owner.pc \in {"tombstone", "archived"} -> Continue("revert", "discarded", {}, owner.prev)
             [] OTHER -> Return
        /\ adrift' = (adrift \/ owner.pc = "archived" \/ (Exposed /\ owner.pc \notin {"spawn", "tombstone"}))
    BY <1>3 DEF Fail
  <2>2. /\ owner' \in OwnerCall /\ owner'.scoped \in {FALSE, owner.scoped}
        /\ owner.pc = "spawn" => owner'.pc = "cleanup"
        /\ owner.pc \in {"tombstone", "archived"} => owner'.pc = "revert" /\ owner'.prev = owner.prev
        /\ owner.pc \notin {"spawn", "tombstone", "archived"} => owner'.pc = "idle" /\ owner'.scoped = FALSE
    <3>1. CASE owner.pc = "spawn"
      <4>1. Continue("cleanup", "spawning", {}, "none")
        BY <2>1, <3>1
      <4>2. QED
        BY <1>0, <3>1, <4>1, OwnerGoesOn, OwnerPoints
    <3>2. CASE owner.pc \in {"tombstone", "archived"}
      <4>1. Continue("revert", "discarded", {}, owner.prev)
        BY <2>1, <3>2
      <4>2. QED
        BY <1>0, <3>2, <4>1, OwnerGoesOn, OwnerPoints
    <3>3. CASE owner.pc \notin {"spawn", "tombstone", "archived"}
      <4>1. Return
        BY <2>1, <3>3
      <4>2. QED
        BY <1>0, <3>3, <4>1, OwnerGoesOn
    <3>4. QED
      BY <3>1, <3>2, <3>3
  <2>3. adrift' \in BOOLEAN
    BY <2>1
  <2>4. ScopeInStep'
    <3>1. CASE owner.pc \in {"spawn", "tombstone"}
      BY <1>0, <1>1, <2>1, <2>2, <3>1 DEF ScopeInStep
    <3>2. CASE owner.pc \in {"write", "audit", "promote", "restore"}
      BY <1>0, <1>1, <2>1, <2>2, <3>2 DEF ScopeInStep, InStep, Exposed
    <3>3. CASE owner.pc \in {"member", "cleanup", "revert", "archived"}
      BY <2>1, <3>3 DEF ScopeInStep, Exposed
    <3>4. QED
      BY <1>0, <2>1, <3>1, <3>2, <3>3 DEF OwnerPoint
  <2>5. PromotesInStep'
    BY <1>0, <2>1, <2>2 DEF PromotesInStep
  <2>6. owner'.pc # "restore"
    BY <1>0, <2>2 DEF OwnerPoint
  <2>7. EnvInv'
    BY <1>0, <1>1, <2>1, <2>2, <2>3, <2>4, <2>5, <2>6, CallMoves
  <2>8. QED
    BY <1>2, <2>7
<1>4. CASE Die
  <2>1. env' = env /\ traced' = traced /\ owner' = EnvIdle /\ owner.pc # "idle"
        /\ adrift' = (adrift \/ Exposed)
    BY <1>4 DEF Die
  <2>2. owner' \in OwnerCall /\ owner'.pc = "idle" /\ owner'.scoped = FALSE
    BY <1>0, <2>1, OwnerGoesOn DEF Return
  <2>3. ScopeInStep' /\ PromotesInStep' /\ adrift' \in BOOLEAN
    BY <1>0, <1>1, <2>1, <2>2 DEF ScopeInStep, InStep, PromotesInStep, Exposed, OwnerPoint
  <2>4. EnvInv'
    BY <1>0, <1>1, <2>1, <2>2, <2>3, CallMoves
  <2>5. QED
    BY <1>2, <2>4
<1>5. CASE RollBackState
  <2>1. PICK e \in traced :
          /\ env # "none" /\ env' = (IF e[1] = "none" THEN "discarded" ELSE e[1])
          /\ traced' \in {traced, traced \union {<<e[2], e[1]>>}}
          /\ adrift' = (adrift \/ (env = "discarded") # (env' = "discarded"))
          /\ owner' = owner
    BY <1>5 DEF RollBackState
  <2>2. e[1] \in EnvState /\ e[2] \in EnvState
    BY <1>0
  <2>3. /\ env' \in EnvState /\ env' # "none" /\ traced' \subseteq EnvState \X EnvState
        /\ adrift' \in BOOLEAN /\ owner' \in OwnerCall
        /\ adrift' = FALSE => adrift = FALSE /\ (env = "discarded" <=> env' = "discarded")
    <3>1. env' \in EnvState /\ env' # "none"
      BY <2>1, <2>2, OwnerPoints
    <3>2. traced' \subseteq EnvState \X EnvState
      BY <1>0, <2>1, <2>2
    <3>3. /\ adrift' \in BOOLEAN
          /\ adrift' = FALSE => adrift = FALSE /\ (env = "discarded" <=> env' = "discarded")
      BY <1>0, <2>1
    <3>4. QED
      BY <1>0, <2>1, <3>1, <3>2, <3>3
  <2>4. ScopeInStep'
    BY <1>0, <1>1, <2>1, <2>3 DEF ScopeInStep, InStep
  <2>5. PromotesInStep'
    BY <1>0, <1>1, <2>1 DEF PromotesInStep, Created
  <2>6. EnvInv'
    BY <1>0, <1>1, <2>1, <2>3, <2>4, <2>5, CallMoves
  <2>7. QED
    BY <1>2, <2>6
<1>6. QED
  BY <1>3, <1>4, <1>5 DEF MishapsNext

\* A promotion into a scope.
LEMMA PromotionMoves ==
  ASSUME EnvInv, BeginPromote \/ PromoteLast \/ \E o \in Obj : PromoteOne(o)
  PROVE  EnvInv' /\ PromotesEach /\ MatchesSnapshot
<1>0. /\ env \in EnvState /\ envScope \in {"none", "ACTIVE", "ARCHIVED"} /\ owner \in OwnerCall
      /\ mishaps \in Nat /\ adrift \in BOOLEAN /\ traced \subseteq EnvState \X EnvState
      /\ ScopeInStep /\ PromotesInStep /\ {} \in SUBSET Obj
      /\ Created \in SUBSET Obj
      /\ owner.target \in EnvState /\ owner.prev \in EnvState /\ owner.todo \in SUBSET Obj
      /\ owner.scoped \in BOOLEAN
  BY DEF EnvInv, EnvTyped, Created, OwnerCall
<1>1. CASE BeginPromote
  <2>1. /\ owner.pc = "idle" /\ env # "none"
        /\ owner' = [owner EXCEPT !.pc = "promote", !.target = "promoted", !.todo = Created, !.scoped = TRUE]
        /\ UNCHANGED <<env, envScope, inside, objects, promoted, snapshot, trailVars>>
    BY <1>1 DEF BeginPromote
  <2>2. /\ owner' \in OwnerCall /\ owner'.pc = "promote"
        /\ owner'.todo = Created /\ Created' = Created
    <3>1. "promoted" \in EnvState /\ Created' = Created
      BY <2>1 DEF EnvState, Created
    <3>2. QED
      BY <1>0, <2>1, <3>1 DEF OwnerCall, OwnerPoint
  <2>3. ScopeInStep'
    BY <1>0, <2>1, <2>2 DEF ScopeInStep, InStep, trailVars
  <2>4. PromotesInStep'
    BY <2>2 DEF PromotesInStep
  <2>5. EnvInv'
    BY <1>0, <2>1, <2>2, <2>3, <2>4, CallMoves DEF trailVars
  <2>6. QED
    BY <2>1, <2>5 DEF PromotesEach, MatchesSnapshot
<1>2. CASE PromoteLast
  <2>1. /\ owner.pc = "promote" /\ owner.todo = {}
        /\ UNCHANGED <<env, envScope, inside, objects, promoted, snapshot, trailVars>>
    BY <1>2 DEF PromoteLast
  <2>2. CASE Return
    <3>1. owner' \in OwnerCall /\ owner'.pc = "idle" /\ owner'.scoped = FALSE
      BY <1>0, <2>2, OwnerGoesOn
    <3>2. ScopeInStep' /\ PromotesInStep'
      BY <1>0, <2>1, <3>1 DEF ScopeInStep, InStep, trailVars, PromotesInStep
    <3>3. EnvInv'
      BY <1>0, <2>1, <3>1, <3>2, CallMoves DEF trailVars
    <3>4. QED
      BY <2>1, <3>3 DEF PromotesEach, MatchesSnapshot
  <2>3. CASE <<env, "promoted">> \in ValidTransition /\ Continue("write", "promoted", {}, env)
    <3>1. /\ owner' \in OwnerCall /\ owner'.pc = "write" /\ owner'.target = "promoted"
          /\ owner'.prev = env /\ owner'.scoped = owner.scoped
      BY <1>0, <2>3, OwnerGoesOn, OwnerPoints
    <3>2. env = "completed"
      BY <2>3 DEF ValidTransition
    <3>3. ScopeInStep'
      BY <1>0, <2>1, <3>1, <3>2 DEF ScopeInStep, InStep, trailVars
    <3>4. Created' = Created
      BY <2>1 DEF Created
    <3>5. PromotesInStep'
      BY <1>0, <2>1, <3>1, <3>4 DEF PromotesInStep
    <3>6. EnvInv'
      BY <1>0, <2>1, <3>1, <3>3, <3>5, CallMoves DEF trailVars
    <3>7. QED
      BY <2>1, <3>6 DEF PromotesEach, MatchesSnapshot
  <2>4. QED
    BY <1>2, <2>2, <2>3 DEF PromoteLast
<1>3. ASSUME NEW o \in Obj, PromoteOne(o) PROVE EnvInv' /\ PromotesEach /\ MatchesSnapshot
  <2>1. /\ owner.pc = "promote" /\ owner' = [owner EXCEPT !.todo = @ \ {o}]
        /\ promoted' = promoted \union {o}
        /\ UNCHANGED <<env, envScope, inside, objects, snapshot, trailVars>>
    BY <1>3 DEF PromoteOne
  <2>2. /\ owner' \in OwnerCall /\ owner'.pc = "promote"
        /\ owner'.todo = owner.todo \ {o} /\ owner'.scoped = owner.scoped
    BY <1>0, <2>1 DEF OwnerCall, OwnerPoint
  <2>3. Created' = Created
    BY <2>1 DEF Created
  <2>4. ScopeInStep'
    BY <1>0, <2>1, <2>2 DEF ScopeInStep, InStep, trailVars
  <2>5. PromotesInStep'
    BY <1>0, <2>1, <2>2, <2>3 DEF PromotesInStep
  <2>6. EnvTyped'
    BY <1>0, <2>1, <2>2 DEF EnvInv, EnvTyped, trailVars
  <2>7. VersionsExist' /\ RestoresInStep'
    BY <2>1, <2>2 DEF EnvInv, VersionsExist, RestoresInStep
  <2>8. QED
    BY <2>1, <2>4, <2>5, <2>6, <2>7 DEF EnvInv, PromotesEach, MatchesSnapshot
<1>4. QED
  BY <1>1, <1>2, <1>3

\* The owner is idle, or tombstones: what it works with changes.
LEMMA ObjectsMove ==
  ASSUME EnvInv,
         \/ \E o \in Obj : TombstoneOne(o) \/ RemoveObject(o) \/ UpdateObject(o)
         \/ \E o \in Obj, origin \in {"created", "projected"} : AddObject(o, origin)
         \/ ApplyRetention
  PROVE  EnvInv' /\ PromotesEach /\ MatchesSnapshot
<1>0. /\ env \in EnvState /\ envScope \in {"none", "ACTIVE", "ARCHIVED"} /\ owner \in OwnerCall
      /\ mishaps \in Nat /\ adrift \in BOOLEAN /\ traced \subseteq EnvState \X EnvState
      /\ ScopeInStep /\ PromotesInStep /\ objects \in [Obj -> EnvObject]
      /\ owner.todo \in SUBSET Obj /\ inside \in [Obj -> Origin] /\ snapshot \subseteq SnapshotRow
      /\ promoted \subseteq Obj
  BY DEF EnvInv, EnvTyped, OwnerCall
<1>1. ASSUME NEW o \in Obj, TombstoneOne(o) PROVE EnvInv' /\ PromotesEach /\ MatchesSnapshot
  <2>1. /\ owner.pc = "tombstone" /\ owner' = [owner EXCEPT !.todo = @ \ {o}]
        /\ objects' = [objects EXCEPT ![o].life = "ARCHIVED"]
        /\ UNCHANGED <<env, envScope, inside, promoted, snapshot, trailVars>>
    BY <1>1 DEF TombstoneOne
  <2>2. /\ owner' \in OwnerCall /\ owner'.pc = "tombstone"
        /\ owner'.prev = owner.prev /\ owner'.scoped = owner.scoped
    BY <1>0, <2>1 DEF OwnerCall, OwnerPoint
  <2>3. /\ objects' \in [Obj -> EnvObject]
        /\ \A p \in Obj : objects'[p].current = objects[p].current /\ objects'[p].last = objects[p].last
    BY <1>0, <2>1 DEF EnvObject
  <2>4. ScopeInStep'
    BY <1>0, <2>1, <2>2 DEF ScopeInStep, InStep, trailVars
  <2>5. PromotesInStep'
    BY <1>0, <2>1, <2>2 DEF PromotesInStep
  <2>6. EnvTyped'
    BY <1>0, <2>1, <2>2, <2>3 DEF EnvTyped, trailVars
  <2>7. VersionsExist' /\ RestoresInStep'
    BY <2>1, <2>2, <2>3 DEF EnvInv, VersionsExist, RestoresInStep
  <2>8. QED
    BY <2>1, <2>4, <2>5, <2>6, <2>7 DEF EnvInv, PromotesEach, MatchesSnapshot
<1>2. ASSUME NEW o \in Obj, NEW origin \in Origin, owner.pc = "idle",
             inside' = [inside EXCEPT ![o] = origin],
             UNCHANGED <<env, envScope, objects, promoted, snapshot, owner, trailVars>>
      PROVE EnvInv' /\ PromotesEach /\ MatchesSnapshot
  <2>1. EnvTyped'
    BY <1>0, <1>2 DEF EnvTyped, trailVars
  <2>2. ScopeInStep' /\ PromotesInStep' /\ VersionsExist' /\ RestoresInStep'
    BY <1>0, <1>2 DEF ScopeInStep, InStep, trailVars, PromotesInStep, EnvInv, VersionsExist, RestoresInStep
  <2>3. QED
    BY <1>2, <2>1, <2>2 DEF EnvInv, PromotesEach, MatchesSnapshot
<1>3. ASSUME NEW o \in Obj, UpdateObject(o) PROVE EnvInv' /\ PromotesEach /\ MatchesSnapshot
  <2>1. /\ owner.pc = "idle" /\ objects' = [objects EXCEPT ![o].current = @ + 1, ![o].last = @ + 1]
        /\ UNCHANGED <<env, envScope, inside, promoted, snapshot, owner, trailVars>>
    BY <1>3 DEF UpdateObject
  <2>2. objects[o] \in EnvObject /\ objects[o].current \in Nat /\ objects[o].last \in Nat
    BY <1>0 DEF EnvObject
  <2>3. /\ objects' \in [Obj -> EnvObject]
        /\ objects'[o].current = objects[o].current + 1 /\ objects'[o].last = objects[o].last + 1
        /\ \A p \in Obj \ {o} : objects'[p] = objects[p]
    BY <1>0, <2>1, <2>2 DEF EnvObject
  <2>4. EnvTyped'
    BY <1>0, <2>1, <2>3 DEF EnvTyped, trailVars
  <2>5. ScopeInStep' /\ PromotesInStep' /\ RestoresInStep'
    <3>1. Created' = Created
      BY <2>1 DEF Created
    <3>2. QED
      BY <1>0, <2>1, <3>1 DEF ScopeInStep, InStep, trailVars, PromotesInStep, EnvInv, RestoresInStep
  <2>6. VersionsExist'
    <3>1. \A p \in Obj : 1 <= objects'[p].current /\ objects'[p].current <= objects'[p].last
      BY <2>2, <2>3 DEF EnvInv, VersionsExist
    <3>2. ASSUME NEW s \in snapshot, NEW p \in Obj, s.rows[p] # "none"
          PROVE 1 <= s.versions[p] /\ s.versions[p] <= objects'[p].last
      <4>1. s.versions[p] \in Nat /\ 1 <= s.versions[p] /\ s.versions[p] <= objects[p].last
        <5>1. s \in SnapshotRow
          BY <1>0
        <5>2. s.versions[p] \in Nat
          BY <5>1 DEF SnapshotRow
        <5>3. QED
          BY <3>2, <5>2 DEF EnvInv, VersionsExist
      <4>2. CASE p = o
        BY <2>2, <2>3, <4>1, <4>2
      <4>3. CASE p # o
        BY <2>3, <4>1, <4>3
      <4>4. QED
        BY <4>2, <4>3
    <3>3. snapshot' = snapshot
      BY <2>1
    <3>4. QED
      BY <3>1, <3>2, <3>3 DEF VersionsExist
  <2>7. QED
    BY <2>1, <2>4, <2>5, <2>6 DEF EnvInv, PromotesEach, MatchesSnapshot
<1>4. CASE ApplyRetention
  <2>1. /\ owner.pc = "idle" /\ snapshot' = {}
        /\ UNCHANGED <<env, envScope, inside, objects, promoted, owner, trailVars>>
    BY <1>4 DEF ApplyRetention
  <2>2. EnvTyped'
    BY <1>0, <2>1 DEF EnvTyped, trailVars
  <2>3. Created' = Created
    BY <2>1 DEF Created
  <2>4. ScopeInStep' /\ PromotesInStep' /\ VersionsExist' /\ RestoresInStep'
    BY <1>0, <2>1, <2>3 DEF ScopeInStep, InStep, trailVars, PromotesInStep, EnvInv, VersionsExist, RestoresInStep
  <2>5. QED
    BY <2>1, <2>2, <2>4 DEF EnvInv, PromotesEach, MatchesSnapshot
<1>5. QED
  BY <1>1, <1>2, <1>3, <1>4 DEF AddObject, RemoveObject, Origin

\* capture() and restore().
LEMMA SnapshotMoves ==
  ASSUME EnvInv, Capture \/ RestoreVersions \/ RestoreRows
  PROVE  EnvInv' /\ PromotesEach /\ MatchesSnapshot
<1>0. /\ env \in EnvState /\ envScope \in {"none", "ACTIVE", "ARCHIVED"} /\ owner \in OwnerCall
      /\ mishaps \in Nat /\ adrift \in BOOLEAN /\ traced \subseteq EnvState \X EnvState
      /\ ScopeInStep /\ PromotesInStep /\ objects \in [Obj -> EnvObject]
      /\ {} \in SUBSET Obj /\ inside \in [Obj -> Origin] /\ snapshot \subseteq SnapshotRow
      /\ promoted \subseteq Obj /\ owner.scoped \in BOOLEAN
  BY DEF EnvInv, EnvTyped, OwnerCall
<1>1. \A o \in Obj : objects[o] \in EnvObject /\ objects[o].current \in Nat /\ objects[o].last \in Nat
  BY <1>0 DEF EnvObject
<1>2. CASE Capture
  <2> DEFINE V == [o \in Obj |-> IF inside[o] = "none" THEN 0 ELSE objects[o].current]
  <2> DEFINE S == [rows |-> inside, versions |-> V]
  <2>1. /\ owner.pc = "idle" /\ snapshot' = {S}
        /\ UNCHANGED <<env, envScope, inside, objects, promoted, owner, trailVars>>
    BY <1>2 DEF Capture
  <2>2. V \in [Obj -> Nat] /\ \A o \in Obj : inside[o] # "none" => V[o] = objects[o].current
    BY <1>1
  <2> HIDE DEF V
  <2>3. S \in SnapshotRow /\ S.rows = inside /\ S.versions = V
    BY <1>0, <2>2 DEF SnapshotRow
  <2> HIDE DEF S
  <2>4. EnvTyped'
    BY <1>0, <2>1, <2>3 DEF EnvTyped, trailVars
  <2>5. Created' = Created
    BY <2>1 DEF Created
  <2>6. VersionsExist'
    BY <2>1, <2>2, <2>3 DEF EnvInv, VersionsExist
  <2>7. ScopeInStep' /\ PromotesInStep' /\ RestoresInStep'
    BY <1>0, <2>1, <2>5 DEF ScopeInStep, InStep, trailVars, PromotesInStep, RestoresInStep
  <2>8. QED
    BY <2>1, <2>4, <2>6, <2>7 DEF EnvInv, PromotesEach, MatchesSnapshot
<1>3. CASE RestoreVersions
  <2>1. PICK s \in snapshot :
        /\ owner.pc = "idle"
        /\ objects' = [o \in Obj |-> IF s.rows[o] = "none" THEN objects[o]
                                     ELSE [objects[o] EXCEPT !.current = s.versions[o]]]
        /\ Continue("restore", env, {}, env)
        /\ UNCHANGED <<env, envScope, inside, promoted, snapshot, trailVars>>
    BY <1>3 DEF RestoreVersions
  <2>2. /\ owner' \in OwnerCall /\ owner'.pc = "restore" /\ owner'.scoped = owner.scoped
    BY <1>0, <2>1, OwnerGoesOn, OwnerPoints
  <2>3. s \in SnapshotRow
    BY <1>0
  <2>4. \A o \in Obj : s.versions[o] \in Nat
    BY <2>3 DEF SnapshotRow
  <2>5. \A o \in Obj : /\ objects'[o] \in EnvObject /\ objects'[o].last = objects[o].last
                       /\ s.rows[o] = "none" => objects'[o].current = objects[o].current
                       /\ s.rows[o] # "none" => objects'[o].current = s.versions[o]
    BY <1>1, <2>1, <2>4 DEF EnvObject
  <2>6. objects' \in [Obj -> EnvObject]
    BY <2>1, <2>5
  <2>7. EnvTyped'
    BY <1>0, <2>1, <2>2, <2>6 DEF EnvTyped, trailVars
  <2>8. VersionsExist'
    BY <2>1, <2>5 DEF EnvInv, VersionsExist
  <2>9. RestoresInStep'
    BY <2>1, <2>5 DEF EnvInv, RestoresInStep
  <2>10. ScopeInStep' /\ PromotesInStep'
    BY <1>0, <2>1, <2>2 DEF ScopeInStep, InStep, trailVars, PromotesInStep
  <2>11. QED
    BY <2>1, <2>7, <2>8, <2>9, <2>10 DEF EnvInv, PromotesEach, MatchesSnapshot
<1>4. CASE RestoreRows
  <2>1. PICK s \in snapshot :
        /\ owner.pc = "restore" /\ inside' = [o \in Obj |-> Resynced(s, o)] /\ Return
        /\ UNCHANGED <<env, envScope, objects, promoted, snapshot, trailVars>>
    BY <1>4 DEF RestoreRows
  <2>2. owner' \in OwnerCall /\ owner'.pc = "idle" /\ owner'.scoped = FALSE
    BY <1>0, <2>1, OwnerGoesOn
  <2>3. s \in SnapshotRow
    BY <1>0
  <2>4. \A o \in Obj : s.rows[o] \in Origin
    BY <2>3 DEF SnapshotRow
  <2>5. \A o \in Obj : /\ inside'[o] \in Origin
                       /\ (inside'[o] = "none") = (s.rows[o] = "none")
    BY <1>0, <2>1, <2>4 DEF Resynced
  <2>6. inside' \in [Obj -> Origin]
    BY <2>1, <2>5
  <2>7. EnvTyped'
    BY <1>0, <2>1, <2>2, <2>6 DEF EnvTyped, trailVars
  <2>8. VersionsExist' /\ RestoresInStep'
    BY <2>1, <2>2 DEF EnvInv, VersionsExist, RestoresInStep
  <2>9. ScopeInStep' /\ PromotesInStep'
    BY <1>0, <2>1, <2>2 DEF ScopeInStep, InStep, trailVars, PromotesInStep
  <2>10. \A o \in Obj : inside'[o] # "none" => objects'[o].current = s.versions[o]
    BY <2>1, <2>5 DEF EnvInv, RestoresInStep
  <2>11. MatchesSnapshot
    BY <2>5, <2>10 DEF MatchesSnapshot
  <2>12. QED
    BY <2>1, <2>7, <2>8, <2>9, <2>11 DEF EnvInv, PromotesEach
<1>5. QED
  BY <1>2, <1>3, <1>4

\* Every step keeps the invariant, promotes each object and restores what the
\* snapshot has.
LEMMA EnvStep == EnvInv /\ [EnvNext]_envVars => EnvInv' /\ PromotesEach /\ MatchesSnapshot
<1> SUFFICES ASSUME EnvInv, [EnvNext]_envVars PROVE EnvInv' /\ PromotesEach /\ MatchesSnapshot
  OBVIOUS
<1>1. CASE UNCHANGED envVars
  <2>1. EnvTyped' /\ VersionsExist' /\ RestoresInStep'
    BY <1>1 DEF envVars, EnvInv, EnvTyped, VersionsExist, RestoresInStep
  <2>2. ScopeInStep' /\ PromotesInStep'
    BY <1>1 DEF envVars, EnvInv, ScopeInStep, InStep, PromotesInStep, Created
  <2>3. PromotesEach /\ MatchesSnapshot
    BY <1>1 DEF envVars, PromotesEach, MatchesSnapshot
  <2>4. QED
    BY <2>1, <2>2, <2>3 DEF EnvInv
<1>2. CASE EnvNext
  BY <1>2, SpawnMoves, TransitionMoves, DiscardMoves, MishapMoves, PromotionMoves, ObjectsMove, SnapshotMoves
     DEF EnvNext, CallsNext, SnapshotsNext
<1>3. QED
  BY <1>1, <1>2

\* What the invariant says of an environment.
LEMMA EnvHolds == EnvInv => EnvTypeOK /\ ScopeFollowsState
<1> SUFFICES ASSUME EnvInv PROVE EnvTypeOK /\ ScopeFollowsState
  OBVIOUS
<1>1. /\ \A o \in Obj : objects[o] \in EnvObject /\ objects[o].current \in Nat /\ objects[o].last \in Nat
      /\ owner.todo \subseteq Obj
  BY DEF EnvInv, EnvTyped, EnvObject, OwnerCall
<1>2. EnvTypeOK
  BY <1>1 DEF EnvInv, EnvTyped, VersionsExist, EnvTypeOK, Origin
<1>3. ScopeFollowsState
  BY <1>1 DEF EnvInv, ScopeInStep, ScopeFollowsState
<1>4. QED
  BY <1>2, <1>3

\* Environments: the scope follows the environment's state, a promotion into a
\* scope ends with every object promoted, and restore() brings back what the
\* snapshot has, whatever fails on the way.
THEOREM EnvironmentsHold == EnvSpec => []ScopeFollowsState /\ PromotesAll /\ RestoreMatches
<1>1. EnvInv => ScopeFollowsState
  BY EnvHolds
<1>2. QED
  BY <1>1, EnvStart, EnvStep, PTL DEF EnvSpec, PromotesAll, RestoreMatches

-----------------------------------------------------------------------------
(* Blobs.                                                                  *)

MaybeContent == Content \union {NoContent}

UploadCalls ==
  [pc : {"done", "bytes", "row", "version"}, data : MaybeContent, version : 0..MaxBlobVersion]

\* The row is written after the bytes of its path.
BytesFirst ==
  \A u \in Uploader :
    /\ uploader[u].pc # "done" => uploader[u].data \in Content /\ uploader[u].version > 0
    /\ uploader[u].pc \in {"row", "version"} => bytes[uploader[u].version] # NoContent

\* Without overlap: one call is under way, for the version after the row's
\* until it has written the row, and no version is beyond the row's.
OneUpload ==
  /\ \A u, o \in Uploader : uploader[u].pc # "done" /\ uploader[o].pc # "done" => u = o
  /\ \A u \in Uploader :
       LET call == uploader[u] IN
       /\ call.pc \in {"bytes", "row"} => call.version = blob.version + 1
       /\ call.pc = "row" => bytes[call.version] = call.data
       /\ call.pc = "version" => call.version = blob.version /\ call.data = blob.hash
  /\ blob.version > 0 => bytes[blob.version] = blob.hash
  /\ \A v \in 1..MaxBlobVersion :
       blobVersions[v] # NoContent => v <= blob.version /\ bytes[v] = blobVersions[v]

BlobInv ==
  /\ BlobTypeOK
  /\ uploader \in [Uploader -> UploadCalls]
  /\ overlapped \in BOOLEAN
  /\ BytesFirst
  /\ BlobReadable
  /\ ~overlapped => OneUpload

\* The invariant holds at the start.
LEMMA BlobStart == BlobInit => BlobInv
<1> SUFFICES ASSUME BlobInit PROVE BlobInv
  OBVIOUS
<1>1. BlobTypeOK /\ blob.version = 0 /\ \A v \in 1..MaxBlobVersion : blobVersions[v] = NoContent
  BY BlobAssumption DEF BlobInit, BlobTypeOK
<1>2. uploader \in [Uploader -> UploadCalls] /\ \A u \in Uploader : uploader[u].pc = "done"
  BY BlobAssumption DEF BlobInit, UploadCalls, MaybeContent, Unhurried
<1>3. overlapped = FALSE
  BY DEF BlobInit
<1>4. BytesFirst /\ BlobReadable /\ OneUpload
  BY <1>1, <1>2 DEF BytesFirst, BlobReadable, OneUpload
<1>5. QED
  BY <1>1, <1>2, <1>3, <1>4 DEF BlobInv

\* A call begins.
LEMMA BlobBegins ==
  ASSUME BlobInv, NEW u \in Uploader, NEW data \in Content, BeginUpload(u, data)
  PROVE  BlobInv'
<1> USE DEF BlobInv
<1> DEFINE call == [pc |-> "bytes", data |-> data, version |-> blob.version + 1]
<1>1. /\ bytes' = bytes /\ blob' = blob /\ blobVersions' = blobVersions
      /\ uploader' = [uploader EXCEPT ![u] = call]
      /\ blob.version < MaxBlobVersion /\ uploader[u].pc = "done"
      /\ overlapped' = (overlapped \/ \E o \in Uploader \ {u} : uploader[o].pc # "done")
  BY DEF BeginUpload, Does
<1>2. call \in UploadCalls
  BY <1>1, BlobAssumption DEF UploadCalls, MaybeContent, BlobTypeOK
<1>3. BytesFirst'
  BY <1>1, BlobAssumption DEF BytesFirst, BlobTypeOK
<1>4. ~overlapped' => OneUpload'
  <2> SUFFICES ASSUME ~overlapped' PROVE OneUpload'
    OBVIOUS
  <2>1. OneUpload /\ \A o \in Uploader \ {u} : uploader[o].pc = "done" /\ uploader'[o] = uploader[o]
    BY <1>1
  <2>2. uploader'[u] = call
    BY <1>1
  <2>3. QED
    BY <1>1, <2>1, <2>2 DEF OneUpload
<1>5. QED
  BY <1>1, <1>2, <1>3, <1>4 DEF BlobTypeOK, BlobReadable

\* The bytes are stored.
LEMMA BlobStores ==
  ASSUME BlobInv, NEW u \in Uploader, StoreBytes(u)
  PROVE  BlobInv'
<1> USE DEF BlobInv
<1> DEFINE call == uploader[u]
<1>1. /\ call.pc = "bytes" /\ blob' = blob /\ blobVersions' = blobVersions
      /\ bytes' = [bytes EXCEPT ![call.version] = call.data]
      /\ uploader' = [uploader EXCEPT ![u] = [call EXCEPT !.pc = "row"]]
      /\ overlapped' = overlapped
  BY DEF StoreBytes, Does
<1>2. /\ call \in UploadCalls /\ call.data \in Content /\ call.version \in 1..MaxBlobVersion
      /\ call.data # NoContent
  BY <1>1, BlobAssumption DEF BytesFirst, UploadCalls
<1>3. /\ bytes' \in [1..MaxBlobVersion -> MaybeContent]
      /\ bytes'[call.version] = call.data
      /\ \A v \in 1..MaxBlobVersion : v # call.version => bytes'[v] = bytes[v]
      /\ \A v \in 1..MaxBlobVersion : bytes[v] # NoContent => bytes'[v] # NoContent
  BY <1>1, <1>2 DEF BlobTypeOK, MaybeContent
<1>4. /\ uploader' \in [Uploader -> UploadCalls]
      /\ \A o \in Uploader \ {u} : uploader'[o] = uploader[o]
      /\ uploader'[u] = [call EXCEPT !.pc = "row"]
  BY <1>1, <1>2 DEF UploadCalls
<1>5. uploader'[u].pc = "row" /\ uploader'[u].data = call.data /\ uploader'[u].version = call.version
  BY <1>2, <1>4 DEF UploadCalls
<1> HIDE DEF call
<1>6. BytesFirst'
  <2> SUFFICES ASSUME NEW o \in Uploader
               PROVE  /\ uploader'[o].pc # "done" => uploader'[o].data \in Content /\ uploader'[o].version > 0
                      /\ uploader'[o].pc \in {"row", "version"} => bytes'[uploader'[o].version] # NoContent
    BY DEF BytesFirst
  <2>1. CASE o = u
    BY <1>2, <1>3, <1>5, <2>1
  <2>2. CASE o # u
    <3>1. uploader'[o] = uploader[o] /\ uploader[o] \in UploadCalls
      BY <1>4, <2>2
    <3>2. uploader[o].pc # "done" => uploader[o].version \in 1..MaxBlobVersion
      BY <3>1, BlobAssumption DEF BytesFirst, UploadCalls
    <3>3. QED
      BY <1>3, <3>1, <3>2 DEF BytesFirst
  <2>3. QED
    BY <2>1, <2>2
<1>7. BlobReadable'
  BY <1>1, <1>3, BlobAssumption DEF BlobReadable, BlobTypeOK
<1>8. ~overlapped' => OneUpload'
  <2> SUFFICES ASSUME ~overlapped PROVE OneUpload'
    BY <1>1
  <2>1. /\ \A o \in Uploader \ {u} : uploader'[o].pc = "done"
        /\ call.version = blob.version + 1
    BY <1>1, <1>4 DEF OneUpload, call
  <2>2. \A v \in 1..MaxBlobVersion : v <= blob.version => bytes'[v] = bytes[v]
    BY <1>3, <2>1 DEF BlobTypeOK
  <2>3. /\ blob.version > 0 => bytes'[blob.version] = blob.hash
        /\ \A v \in 1..MaxBlobVersion :
             blobVersions[v] # NoContent => v <= blob.version /\ bytes'[v] = blobVersions[v]
    BY <2>2, BlobAssumption DEF OneUpload, BlobTypeOK
  <2>4. QED
    BY <1>1, <1>3, <1>5, <2>1, <2>3 DEF OneUpload
<1>9. QED
  BY <1>1, <1>3, <1>4, <1>6, <1>7, <1>8 DEF BlobTypeOK, MaybeContent

\* The row of blobs is updated.
LEMMA BlobRow ==
  ASSUME BlobInv, NEW u \in Uploader, WriteBlobRow(u)
  PROVE  BlobInv'
<1> USE DEF BlobInv
<1> DEFINE call == uploader[u]
<1>1. /\ call.pc = "row" /\ bytes' = bytes /\ blobVersions' = blobVersions
      /\ blob' = [blob EXCEPT !.version = call.version, !.hash = call.data]
      /\ uploader' = [uploader EXCEPT ![u] = [call EXCEPT !.pc = "version"]]
      /\ overlapped' = overlapped
  BY DEF WriteBlobRow, Does
<1>2. /\ call \in UploadCalls /\ call.data \in Content /\ call.version \in 1..MaxBlobVersion
      /\ bytes[call.version] # NoContent
  BY <1>1, BlobAssumption DEF BytesFirst, UploadCalls
<1>3. /\ uploader' \in [Uploader -> UploadCalls]
      /\ \A o \in Uploader \ {u} : uploader'[o] = uploader[o]
      /\ uploader'[u].pc = "version" /\ uploader'[u].data = call.data
      /\ uploader'[u].version = call.version
  BY <1>1, <1>2 DEF UploadCalls
<1>4. BlobTypeOK' /\ blob'.version = call.version /\ blob'.hash = call.data
  <2>1. blob' = [version |-> call.version, hash |-> call.data, active |-> blob.active]
    BY <1>1 DEF BlobTypeOK
  <2>2. blob.active \in BOOLEAN /\ call.version \in 0..MaxBlobVersion
    BY <1>2 DEF BlobTypeOK
  <2> HIDE DEF call
  <2>3. blob' \in [version : 0..MaxBlobVersion, hash : Content \union {NoContent}, active : BOOLEAN]
    BY <1>2, <2>1, <2>2
  <2>4. QED
    BY <1>1, <2>1, <2>3 DEF BlobTypeOK
<1> HIDE DEF call
<1>5. BytesFirst'
  BY <1>1, <1>2, <1>3 DEF BytesFirst
<1>6. BlobReadable'
  BY <1>1, <1>2, <1>4 DEF BlobReadable
<1>7. ~overlapped' => OneUpload'
  <2> SUFFICES ASSUME ~overlapped PROVE OneUpload'
    BY <1>1
  <2>1. /\ \A o \in Uploader \ {u} : uploader'[o].pc = "done"
        /\ call.version = blob.version + 1 /\ bytes[call.version] = call.data
    BY <1>1, <1>3 DEF OneUpload, call
  <2>2. \A v \in 1..MaxBlobVersion :
          blobVersions[v] # NoContent => v <= call.version /\ bytes[v] = blobVersions[v]
    BY <2>1 DEF OneUpload, BlobTypeOK
  <2>3. QED
    BY <1>1, <1>3, <1>4, <2>1, <2>2 DEF OneUpload
<1>8. QED
  BY <1>1, <1>3, <1>4, <1>5, <1>6, <1>7

\* The version row is inserted.
LEMMA BlobVersion ==
  ASSUME BlobInv, NEW u \in Uploader, CreateBlobVersion(u)
  PROVE  BlobInv'
<1> USE DEF BlobInv
<1> DEFINE call == uploader[u]
<1>1. /\ call.pc = "version" /\ bytes' = bytes /\ blob' = blob
      /\ blobVersions' = IF blobVersions[call.version] = NoContent
                         THEN [blobVersions EXCEPT ![call.version] = call.data] ELSE blobVersions
      /\ uploader' = [uploader EXCEPT ![u] = Unhurried]
      /\ overlapped' = overlapped
  BY DEF CreateBlobVersion, Does
<1>2. /\ call \in UploadCalls /\ call.data \in Content /\ call.version \in 1..MaxBlobVersion
  BY <1>1, BlobAssumption DEF BytesFirst, UploadCalls
<1>3. /\ uploader' \in [Uploader -> UploadCalls]
      /\ \A o \in Uploader \ {u} : uploader'[o] = uploader[o]
      /\ uploader'[u].pc = "done"
  BY <1>1, BlobAssumption DEF UploadCalls, Unhurried, MaybeContent
<1>4. BlobTypeOK' /\ \A v \in 1..MaxBlobVersion :
        blobVersions'[v] = blobVersions[v] \/ (v = call.version /\ blobVersions'[v] = call.data)
  BY <1>1, <1>2 DEF BlobTypeOK
<1> HIDE DEF call
<1>5. BytesFirst' /\ BlobReadable'
  BY <1>1, <1>3 DEF BytesFirst, BlobReadable
<1>6. ~overlapped' => OneUpload'
  <2> SUFFICES ASSUME ~overlapped PROVE OneUpload'
    BY <1>1
  <2>1. /\ \A o \in Uploader : uploader'[o].pc = "done"
        /\ call.version = blob.version /\ bytes[call.version] = call.data
    BY <1>1, <1>2, <1>3 DEF OneUpload, call
  <2>2. QED
    BY <1>1, <1>4, <2>1 DEF OneUpload, BlobTypeOK
<1>7. QED
  BY <1>1, <1>3, <1>4, <1>5, <1>6

\* Every step of the blob store keeps the invariant.
LEMMA BlobStep == BlobInv /\ [BlobNext]_blobVars => BlobInv'
<1> SUFFICES ASSUME BlobInv, [BlobNext]_blobVars PROVE BlobInv'
  OBVIOUS
<1>1. CASE UNCHANGED blobVars
  BY <1>1 DEF blobVars, BlobInv, BlobTypeOK, BytesFirst, BlobReadable, OneUpload
<1>2. CASE DeleteBlob
  <2>1. /\ bytes' = bytes /\ blobVersions' = blobVersions /\ uploader' = uploader
        /\ overlapped' = overlapped
        /\ BlobTypeOK' /\ blob'.version = blob.version /\ blob'.hash = blob.hash
    BY <1>2 DEF DeleteBlob, BlobInv, BlobTypeOK
  <2>2. QED
    BY <2>1 DEF BlobInv, BytesFirst, BlobReadable, OneUpload
<1>3. ASSUME NEW u \in Uploader, UploaderDies(u)
      PROVE  BlobInv'
  <2>1. /\ bytes' = bytes /\ blobVersions' = blobVersions /\ blob' = blob /\ overlapped' = overlapped
        /\ uploader' \in [Uploader -> UploadCalls] /\ uploader'[u].pc = "done"
        /\ \A o \in Uploader \ {u} : uploader'[o] = uploader[o]
    BY <1>3, BlobAssumption DEF UploaderDies, Does, BlobInv, UploadCalls, Unhurried, MaybeContent
  <2>2. QED
    BY <2>1 DEF BlobInv, BlobTypeOK, BytesFirst, BlobReadable, OneUpload
<1>4. QED
  BY <1>1, <1>2, <1>3, BlobBegins, BlobStores, BlobRow, BlobVersion DEF BlobNext

\* The invariant implies what is promised of blobs.
LEMMA BlobHolds == BlobInv => BlobReadable /\ SnapshotsIntact
  BY DEF BlobInv, SnapshotsIntact, OneUpload

\* BlobStore: read() finds bytes under the path of the row wherever an update
\* died, and until two updates overlap the bytes of every version have its hash.
THEOREM BlobsReadable == BlobSpec => [](BlobReadable /\ SnapshotsIntact)
  BY BlobHolds, BlobStart, BlobStep, PTL DEF BlobSpec

-----------------------------------------------------------------------------
(* Principals and the registry.                                            *)

RegistryEntry ==
  [urn : Person, lifecycle : {"active", "archived"}, freed : BOOLEAN, boot : Nat]

\* A call that goes on to insert the principal has saved its entry.
SavedFirst ==
  \A m \in Maker :
    /\ maker[m].pc # "none" => maker[m].entry # 0
    /\ maker[m].pc = "insert" => entryRows[entries[maker[m].entry].urn] = maker[m].entry

\* The index has every entry that archive() has not freed, and those it has
\* freed are not active.
Indexed ==
  \A e \in Held :
    /\ ~entries[e].freed => byUrn[entries[e].urn] = e
    /\ entries[e].lifecycle = "active" => ~entries[e].freed

IdentityTyped ==
  /\ entries \in Seq(RegistryEntry)
  /\ byUrn \in [Person -> 0..Len(entries)]
  /\ entryRows \in [Person -> 0..Len(entries)]
  /\ people \in [Person -> 0..Len(entries)]
  /\ maker \in [Maker -> [pc : {"none", "save", "insert"}, entry : 0..Len(entries)]]
  /\ meddled \in BOOLEAN
  /\ boots \in Nat
  /\ \A e \in 1..Len(entries) : entries[e].boot <= boots

IdentityInv ==
  /\ IdentityTyped
  /\ SavedFirst
  /\ PeopleRegistered
  /\ ~meddled => Indexed

\* The invariant holds at the start.
LEMMA IdentityStart == IdentityInit => IdentityInv
<1> SUFFICES ASSUME IdentityInit PROVE IdentityInv
  OBVIOUS
<1>1. entries \in Seq(RegistryEntry) /\ Len(entries) = 0 /\ Held = {}
  BY DEF IdentityInit, Held
<1>2. IdentityTyped
  <2>1. maker \in [Maker -> [pc : {"none", "save", "insert"}, entry : 0..0]]
    BY DEF IdentityInit, NoCall
  <2>2. byUrn \in [Person -> 0..0] /\ entryRows \in [Person -> 0..0] /\ people \in [Person -> 0..0]
    BY DEF IdentityInit
  <2>3. meddled \in BOOLEAN /\ boots \in Nat
    BY DEF IdentityInit
  <2>4. QED
    BY <1>1, <2>1, <2>2, <2>3 DEF IdentityTyped
<1>3. SavedFirst /\ PeopleRegistered /\ Indexed
  BY <1>1 DEF IdentityInit, SavedFirst, PeopleRegistered, Indexed, NoCall
<1>4. QED
  BY <1>1, <1>2, <1>3 DEF IdentityInv

\* Any entry is a registry entry.
LEMMA EntryTyped ==
  ASSUME IdentityInv, NEW e \in 1..Len(entries)
  PROVE  entries[e] \in RegistryEntry /\ entries[e].urn \in Person /\ Len(entries) \in Nat
<1>1. entries \in Seq(RegistryEntry)
  BY DEF IdentityInv, IdentityTyped
<1>2. entries[e] \in RegistryEntry /\ Len(entries) \in Nat
  BY <1>1
<1>3. QED
  BY <1>2 DEF RegistryEntry

\* register() appends an entry under a URN that is free.
LEMMA IdentityRegisters ==
  ASSUME IdentityInv, NEW m \in Maker, NEW p \in Person, RegisterPrincipal(m, p)
  PROVE  IdentityInv'
<1> DEFINE n == Len(entries)
<1> DEFINE entry == [urn |-> p, lifecycle |-> "active", freed |-> FALSE, boot |-> boots]
<1>1. /\ maker[m].pc = "none" /\ byUrn[p] = 0
      /\ entries' = Append(entries, entry)
      /\ byUrn' = [byUrn EXCEPT ![p] = n + 1]
      /\ maker' = [maker EXCEPT ![m] = [pc |-> "save", entry |-> n + 1]]
      /\ entryRows' = entryRows /\ people' = people /\ meddled' = meddled /\ boots' = boots
  BY DEF RegisterPrincipal, UrnFree
<1>2. IdentityTyped /\ n \in Nat /\ entries \in Seq(RegistryEntry) /\ boots \in Nat
  BY DEF IdentityInv, IdentityTyped
<1>3. entry \in RegistryEntry
  BY <1>2 DEF RegistryEntry
<1> HIDE DEF entry
<1>4. /\ entries' \in Seq(RegistryEntry) /\ Len(entries') = n + 1
      /\ entries'[n + 1] = entry
      /\ \A e \in 1..n : entries'[e] = entries[e]
  BY <1>1, <1>2, <1>3
<1>5. entry.urn = p /\ ~entry.freed /\ entry.boot = boots
  BY DEF entry
<1>6. IdentityTyped'
  <2>1. \A e \in 1..(n + 1) : e \in 1..n \/ e = n + 1
    BY <1>2
  <2>2. \A e \in 1..(n + 1) : entries'[e].boot <= boots
    <3>1. \A e \in 1..n : entries[e].boot <= boots
      BY <1>2 DEF IdentityTyped
    <3> HIDE DEF n
    <3>2. boots <= boots
      BY <1>2
    <3>3. QED
      BY <1>4, <1>5, <2>1, <3>1, <3>2
  <2>3. byUrn' \in [Person -> 0..(n + 1)]
    BY <1>1, <1>2 DEF IdentityTyped
  <2>4. maker' \in [Maker -> [pc : {"none", "save", "insert"}, entry : 0..(n + 1)]]
    BY <1>1, <1>2 DEF IdentityTyped
  <2>5. entryRows \in [Person -> 0..(n + 1)] /\ people \in [Person -> 0..(n + 1)]
    BY <1>2 DEF IdentityTyped
  <2>6. QED
    BY <1>1, <1>2, <1>4, <2>2, <2>3, <2>4, <2>5 DEF IdentityTyped
<1>7. SavedFirst'
  <2> SUFFICES ASSUME NEW k \in Maker
               PROVE  /\ maker'[k].pc # "none" => maker'[k].entry # 0
                      /\ maker'[k].pc = "insert" =>
                           entryRows'[entries'[maker'[k].entry].urn] = maker'[k].entry
    BY DEF SavedFirst
  <2>1. CASE k = m
    BY <1>1, <1>2, <2>1 DEF IdentityTyped
  <2>2. CASE k # m
    <3>1. maker'[k] = maker[k] /\ maker[k].entry \in 0..n
      BY <1>1, <1>2, <2>2 DEF IdentityTyped
    <3>2. maker[k].pc # "none" => maker[k].entry \in 1..n
      BY <1>2, <3>1 DEF IdentityInv, SavedFirst
    <3>3. QED
      BY <1>1, <1>4, <3>1, <3>2 DEF IdentityInv, SavedFirst
  <2>3. QED
    BY <2>1, <2>2
<1>8. ~meddled' => Indexed'
  <2> SUFFICES ASSUME ~meddled, NEW e \in Held'
               PROVE  /\ ~entries'[e].freed => byUrn'[entries'[e].urn] = e
                      /\ entries'[e].lifecycle = "active" => ~entries'[e].freed
    BY <1>1 DEF Indexed
  <2>1. CASE e = n + 1
    BY <1>1, <1>2, <1>4, <1>5, <2>1 DEF IdentityTyped
  <2>2. CASE e # n + 1
    <3>1. e \in 1..n /\ entries'[e] = entries[e] /\ e \in Held
      BY <1>1, <1>2, <1>4, <2>2 DEF Held, n
    <3>2. entries[e].urn \in Person
      BY <3>1, EntryTyped DEF n
    <3>3. /\ ~entries[e].freed => byUrn[entries[e].urn] = e
          /\ entries[e].lifecycle = "active" => ~entries[e].freed
      BY <3>1 DEF IdentityInv, Indexed
    <3>4. ~entries[e].freed => entries[e].urn # p
      BY <1>1, <3>1, <3>3
    <3>5. byUrn' = [byUrn EXCEPT ![p] = n + 1] /\ byUrn \in [Person -> 0..n]
      BY <1>1, <1>2 DEF IdentityTyped
    <3>6. QED
      BY <3>1, <3>2, <3>3, <3>4, <3>5
  <2>3. QED
    BY <2>1, <2>2
<1>9. QED
  BY <1>1, <1>4, <1>6, <1>7, <1>8 DEF IdentityInv, PeopleRegistered

\* save_entry() and the insert of the principal, and their failures.
LEMMA IdentitySaves ==
  ASSUME IdentityInv, NEW m \in Maker, NEW fails \in BOOLEAN,
         SaveEntry(m, fails) \/ InsertPrincipal(m, fails)
  PROVE  IdentityInv'
<1> DEFINE n == Len(entries)
<1> DEFINE e == maker[m].entry
<1> DEFINE p == entries[e].urn
<1>1. /\ entries' = entries /\ byUrn' = byUrn /\ meddled' = meddled /\ boots' = boots
      /\ maker[m].pc \in {"save", "insert"}
  BY DEF SaveEntry, InsertPrincipal
<1>2. IdentityTyped /\ e \in 1..n
  BY <1>1 DEF IdentityInv, IdentityTyped, SavedFirst
<1>3. p \in Person
  BY <1>2, EntryTyped
<1>4. Indexed' = Indexed
  BY <1>1 DEF Indexed, Held
<1>5. CASE SaveEntry(m, fails) /\ (fails \/ entryRows[p] # 0)
  <2>1. maker' = [maker EXCEPT ![m] = NoCall] /\ entryRows' = entryRows /\ people' = people
    BY <1>5 DEF SaveEntry
  <2>2. IdentityTyped' /\ SavedFirst'
    BY <1>1, <1>2, <2>1 DEF IdentityTyped, SavedFirst, NoCall, IdentityInv
  <2>3. QED
    BY <1>1, <1>4, <2>1, <2>2 DEF IdentityInv, PeopleRegistered
<1>6. CASE SaveEntry(m, fails) /\ ~(fails \/ entryRows[p] # 0)
  <2>1. /\ maker' = [maker EXCEPT ![m].pc = "insert"] /\ people' = people
        /\ entryRows' = [entryRows EXCEPT ![p] = e] /\ entryRows[p] = 0
    BY <1>6 DEF SaveEntry
  <2> HIDE DEF e, p
  <2>2. /\ entryRows' \in [Person -> 0..n] /\ entryRows'[p] = e
        /\ \A q \in Person : entryRows[q] # 0 => entryRows'[q] = entryRows[q]
    BY <1>2, <1>3, <2>1 DEF IdentityTyped
  <2>3. /\ maker' \in [Maker -> [pc : {"none", "save", "insert"}, entry : 0..n]]
        /\ maker'[m].pc = "insert" /\ maker'[m].entry = e
        /\ \A k \in Maker \ {m} : maker'[k] = maker[k]
    BY <1>2, <2>1 DEF IdentityTyped, e
  <2>4. IdentityTyped'
    BY <1>1, <1>2, <2>1, <2>2, <2>3 DEF IdentityTyped
  <2>5. SavedFirst'
    <3> SUFFICES ASSUME NEW k \in Maker
                 PROVE  /\ maker'[k].pc # "none" => maker'[k].entry # 0
                        /\ maker'[k].pc = "insert" =>
                             entryRows'[entries'[maker'[k].entry].urn] = maker'[k].entry
      BY DEF SavedFirst
    <3>1. CASE k = m
      BY <1>1, <1>2, <2>2, <2>3, <3>1 DEF p
    <3>2. CASE k # m
      <4>1. maker'[k] = maker[k] /\ maker[k].entry \in 0..n
        BY <1>2, <2>3, <3>2 DEF IdentityTyped
      <4>2. maker[k].pc # "none" => maker[k].entry \in 1..n
        BY <1>2, <4>1 DEF IdentityInv, SavedFirst
      <4>3. maker[k].pc # "none" => entries[maker[k].entry].urn \in Person
        BY <4>2, EntryTyped DEF n
      <4>4. QED
        BY <1>1, <2>2, <4>1, <4>2, <4>3 DEF IdentityInv, SavedFirst
    <3>3. QED
      BY <3>1, <3>2
  <2>6. PeopleRegistered'
    BY <2>1, <2>2 DEF IdentityInv, PeopleRegistered
  <2>7. QED
    BY <1>1, <1>4, <2>4, <2>5, <2>6 DEF IdentityInv, n
<1>7. CASE InsertPrincipal(m, fails)
  <2>1. /\ maker' = [maker EXCEPT ![m] = NoCall] /\ entryRows' = entryRows
        /\ people' = people \/ people' = [people EXCEPT ![p] = e]
        /\ entryRows[p] = e
    BY <1>7 DEF InsertPrincipal, IdentityInv, SavedFirst
  <2> HIDE DEF e, p
  <2>2. people' \in [Person -> 0..n] /\ PeopleRegistered'
    BY <1>2, <1>3, <2>1 DEF IdentityInv, IdentityTyped, PeopleRegistered
  <2>3. IdentityTyped' /\ SavedFirst'
    BY <1>1, <1>2, <2>1, <2>2 DEF IdentityTyped, SavedFirst, NoCall, IdentityInv
  <2>4. QED
    BY <1>1, <1>4, <2>2, <2>3 DEF IdentityInv
<1>8. QED
  BY <1>5, <1>6, <1>7

\* archive() and transition() of an entry of the running process.
LEMMA IdentityArchives ==
  ASSUME IdentityInv, NEW e \in 1..Len(entries),
         \/ ArchiveEntry(e)
         \/ \E lifecycle \in {"active", "archived"} : TransitionEntry(e, lifecycle)
  PROVE  IdentityInv'
<1> DEFINE n == Len(entries)
<1>1. PICK entry \in RegistryEntry :
        /\ entries' = [entries EXCEPT ![e] = entry]
        /\ entry.urn = entries[e].urn /\ entry.boot = entries[e].boot
        /\ ~meddled' => ~entries[e].freed
        /\ \/ entry.lifecycle = "archived" /\ entry.freed /\ byUrn' = [byUrn EXCEPT ![entry.urn] = 0]
           \/ entry.freed = entries[e].freed /\ byUrn' = byUrn
  <2>1. entries[e] \in RegistryEntry
    BY EntryTyped
  <2>2. CASE ArchiveEntry(e)
    <3> DEFINE entry == [entries[e] EXCEPT !.lifecycle = "archived", !.freed = TRUE]
    <3>1. /\ entry \in RegistryEntry /\ entry.urn = entries[e].urn /\ entry.boot = entries[e].boot
          /\ entry.lifecycle = "archived" /\ entry.freed
      BY <2>1 DEF RegistryEntry
    <3>2. entries' = [entries EXCEPT ![e] = entry]
      BY <2>2 DEF ArchiveEntry
    <3> HIDE DEF entry
    <3>3. QED
      BY <2>2, <3>1, <3>2 DEF ArchiveEntry
  <2>3. ASSUME NEW lifecycle \in {"active", "archived"}, TransitionEntry(e, lifecycle)
        PROVE  \E entry \in RegistryEntry :
                 /\ entries' = [entries EXCEPT ![e] = entry]
                 /\ entry.urn = entries[e].urn /\ entry.boot = entries[e].boot
                 /\ ~meddled' => ~entries[e].freed
                 /\ entry.freed = entries[e].freed /\ byUrn' = byUrn
    <3> DEFINE entry == [entries[e] EXCEPT !.lifecycle = lifecycle]
    <3>1. /\ entry \in RegistryEntry /\ entry.urn = entries[e].urn /\ entry.boot = entries[e].boot
          /\ entry.freed = entries[e].freed
      BY <2>1 DEF RegistryEntry
    <3>2. entries' = [entries EXCEPT ![e] = entry]
      BY <2>3 DEF TransitionEntry
    <3> HIDE DEF entry
    <3>3. QED
      BY <2>3, <3>1, <3>2 DEF TransitionEntry
  <2>4. QED
    BY <2>2, <2>3
<1>2. /\ entryRows' = entryRows /\ people' = people /\ maker' = maker /\ boots' = boots
      /\ ~meddled' => ~meddled /\ meddled' \in BOOLEAN
  BY DEF ArchiveEntry, TransitionEntry
<1>3. IdentityTyped /\ n \in Nat /\ entries \in Seq(RegistryEntry)
  BY DEF IdentityInv, IdentityTyped
<1>4. /\ entries' \in Seq(RegistryEntry) /\ Len(entries') = n
      /\ entries'[e] = entry /\ \A f \in 1..n : f # e => entries'[f] = entries[f]
  BY <1>1, <1>3
<1>5. /\ \A f \in 1..n : /\ entries'[f].urn = entries[f].urn /\ entries'[f].boot = entries[f].boot
      /\ entry.urn \in Person
  BY <1>1, <1>4 DEF RegistryEntry
<1>6. IdentityTyped'
  <2>1. byUrn' \in [Person -> 0..n]
    <3>1. byUrn \in [Person -> 0..n] /\ 0 \in 0..n
      BY <1>3 DEF IdentityTyped
    <3> HIDE DEF n
    <3>2. byUrn' = byUrn \/ byUrn' = [byUrn EXCEPT ![entry.urn] = 0]
      BY <1>1
    <3>3. QED
      BY <3>1, <3>2
  <2>2. meddled' \in BOOLEAN
    BY <1>3 DEF ArchiveEntry, TransitionEntry, IdentityTyped
  <2>3. \A f \in 1..n : entries'[f].boot <= boots'
    BY <1>2, <1>3, <1>5 DEF IdentityTyped
  <2>4. QED
    BY <1>2, <1>3, <1>4, <2>1, <2>2, <2>3 DEF IdentityTyped
<1>7. SavedFirst'
  <2>1. \A k \in Maker : maker[k].pc # "none" => maker[k].entry \in 1..n
    BY <1>3 DEF IdentityInv, IdentityTyped, SavedFirst
  <2>2. QED
    BY <1>2, <1>5, <2>1 DEF IdentityInv, SavedFirst
<1>8. ~meddled' => Indexed'
  <2> SUFFICES ASSUME ~meddled', NEW f \in Held'
               PROVE  /\ ~entries'[f].freed => byUrn'[entries'[f].urn] = f
                      /\ entries'[f].lifecycle = "active" => ~entries'[f].freed
    BY DEF Indexed
  <2>1. f \in 1..n /\ f \in Held /\ e \in Held /\ Indexed /\ ~entries[e].freed
    BY <1>1, <1>2, <1>4, <1>5 DEF Held, IdentityInv, ArchiveEntry, TransitionEntry
  <2>2. byUrn[entry.urn] = e
    BY <1>1, <2>1 DEF Indexed
  <2>3. CASE f = e
    BY <1>1, <1>4, <2>1, <2>2, <2>3 DEF Indexed
  <2>4. CASE f # e
    <3>1. entries'[f] = entries[f] /\ entries[f].urn \in Person
      BY <1>4, <2>1, <2>4, EntryTyped
    <3>2. /\ ~entries[f].freed => byUrn[entries[f].urn] = f
          /\ entries[f].lifecycle = "active" => ~entries[f].freed
      BY <2>1 DEF Indexed
    <3>3. ~entries[f].freed => entries[f].urn # entry.urn
      BY <2>2, <2>4, <3>2
    <3>4. byUrn \in [Person -> 0..n]
      BY <1>3 DEF IdentityTyped
    <3>5. QED
      BY <1>1, <3>1, <3>2, <3>3, <3>4
  <2>5. QED
    BY <2>3, <2>4
<1>9. QED
  BY <1>2, <1>4, <1>6, <1>7, <1>8 DEF IdentityInv, PeopleRegistered

\* Every step keeps the invariant.
LEMMA IdentityStep == IdentityInv /\ [IdentityNext]_identityVars => IdentityInv'
<1> SUFFICES ASSUME IdentityInv, [IdentityNext]_identityVars PROVE IdentityInv'
  OBVIOUS
<1>1. CASE UNCHANGED identityVars
  BY <1>1 DEF identityVars, IdentityInv, IdentityTyped, SavedFirst, PeopleRegistered, Indexed, Held
<1>2. CASE \E b \in BOOLEAN : SetFrozen(b)
  BY <1>2 DEF SetFrozen, IdentityInv, IdentityTyped, SavedFirst, PeopleRegistered, Indexed, Held
<1>3. CASE Reboot
  <2>1. /\ boots' = boots + 1 /\ byUrn' = [p \in Person |-> 0] /\ maker' = [m \in Maker |-> NoCall]
        /\ entries' = entries /\ entryRows' = entryRows /\ people' = people /\ meddled' = meddled
    BY <1>3 DEF Reboot
  <2>2. IdentityTyped' /\ Held' = {}
    <3>1. /\ boots \in Nat /\ Len(entries) \in Nat
          /\ \A e \in 1..Len(entries) : entries[e] \in RegistryEntry /\ entries[e].boot <= boots
      BY DEF IdentityInv, IdentityTyped
    <3>2. \A e \in 1..Len(entries) : entries[e].boot \in Nat
      BY <3>1 DEF RegistryEntry
    <3>3. Held' = {}
      BY <2>1, <3>1, <3>2 DEF Held
    <3>4. byUrn' \in [Person -> 0..Len(entries)]
      BY <2>1, <3>1
    <3>5. maker' \in [Maker -> [pc : {"none", "save", "insert"}, entry : 0..Len(entries)]]
      BY <2>1, <3>1 DEF NoCall
    <3>6. boots' \in Nat /\ \A e \in 1..Len(entries) : entries[e].boot <= boots'
      BY <2>1, <3>1, <3>2
    <3>7. QED
      BY <2>1, <3>3, <3>4, <3>5, <3>6 DEF IdentityInv, IdentityTyped
  <2>3. QED
    BY <2>1, <2>2 DEF IdentityInv, SavedFirst, PeopleRegistered, Indexed, NoCall
<1>4. QED
  BY <1>1, <1>2, <1>3, IdentityRegisters, IdentitySaves, IdentityArchives DEF IdentityNext

\* The invariant implies what is promised of principals and of the registry.
LEMMA IdentityHolds == IdentityInv => IdentityTypeOK /\ PeopleRegistered /\ OneActivePerUrn
<1> SUFFICES ASSUME IdentityInv PROVE IdentityTypeOK /\ PeopleRegistered /\ OneActivePerUrn
  OBVIOUS
<1>1. IdentityTypeOK
  <2>1. \A e \in 1..Len(entries) : entries[e].urn \in Person /\ entries[e].lifecycle \in {"active", "archived"}
    BY EntryTyped DEF RegistryEntry
  <2>2. QED
    BY <2>1 DEF IdentityInv, IdentityTyped, IdentityTypeOK
<1>2. OneActivePerUrn
  BY DEF IdentityInv, OneActivePerUrn, UrnsUnique, Indexed
<1>3. QED
  BY <1>1, <1>2 DEF IdentityInv

\* Identities: a principal's entry is saved, whichever step of which attempt
\* failed and whenever the process restarted; a URN has one active entry at
\* most as long as a freed entry is left alone.
THEOREM PrincipalsRegistered == IdentitySpec => [](PeopleRegistered /\ OneActivePerUrn)
  BY IdentityHolds, IdentityStart, IdentityStep, PTL DEF IdentitySpec

-----------------------------------------------------------------------------
(* Deployments.                                                            *)

DeployState == {"pending", "deploying", "deployed", "failed", "rolled_back"}
DeploymentRow == [state : DeployState, version : Nat, rollbackOf : Nat]

AgentPoint == {"free", "insert", "deploying", "deploying!", "run", "deployed", "deployed!",
               "failed", "failed!", "rolled_back", "rolled_back!"}

\* A row with the highest version, so that there is a next one.
HasHighest ==
  deployments # <<>> =>
    \E i \in 1..Len(deployments) :
      \A j \in 1..Len(deployments) : deployments[j].version <= deployments[i].version

\* A deployment has its reversal.
Reversed(i) == \E j \in 1..Len(deployments) : deployments[j].rollbackOf = i

\* What an agent is about to write is true already.
AgentKnows(a) ==
  LET call == agent[a] IN
  /\ call.pc \notin {"free", "insert"} => call.id # 0
  /\ call.pc \in {"deployed", "deployed!"} => call.id \in succeeded
  /\ call.pc \in {"rolled_back", "rolled_back!"} => Reversed(call.id)

DeployTyped ==
  /\ deployments \in Seq(DeploymentRow)
  /\ \A i \in 1..Len(deployments) : deployments[i].rollbackOf <= Len(deployments)
  /\ agent \in [Agent -> [pc : AgentPoint, id : Nat, version : Nat]]
  /\ \A a \in Agent : agent[a].id <= Len(deployments)

DeployInv ==
  /\ DeployTyped
  /\ HasHighest
  /\ \A a \in Agent : AgentKnows(a)
  /\ DeployedHasRun
  /\ RolledBackHasReversal

\* The invariant holds at the start.
LEMMA DeployStart == DeploymentsInit => DeployInv
<1> SUFFICES ASSUME DeploymentsInit PROVE DeployInv
  OBVIOUS
<1>1. deployments \in Seq(DeploymentRow) /\ Len(deployments) = 0 /\ deployments = <<>>
  BY DEF DeploymentsInit
<1>2. /\ agent \in [Agent -> [pc : AgentPoint, id : Nat, version : Nat]]
      /\ \A a \in Agent : agent[a].pc = "free" /\ agent[a].id = 0
  BY DEF DeploymentsInit, FreeAgent, AgentPoint
<1>3. DeployTyped
  BY <1>1, <1>2 DEF DeployTyped
<1>4. QED
  BY <1>1, <1>2, <1>3 DEF DeployInv, HasHighest, AgentKnows, DeployedHasRun, RolledBackHasReversal

\* The fields of a row.
LEMMA DeployRows ==
  ASSUME DeployInv
  PROVE  \A i \in 1..Len(deployments) :
           /\ deployments[i] \in DeploymentRow
           /\ deployments[i].state \in DeployState
           /\ deployments[i].version \in Nat /\ deployments[i].rollbackOf \in Nat
           /\ deployments[i].rollbackOf <= Len(deployments)
<1>1. \A i \in 1..Len(deployments) : deployments[i] \in DeploymentRow
  BY DEF DeployInv, DeployTyped
<1>2. \A r \in DeploymentRow : r.state \in DeployState /\ r.version \in Nat /\ r.rollbackOf \in Nat
  BY DEF DeploymentRow
<1>3. \A i \in 1..Len(deployments) : deployments[i].rollbackOf <= Len(deployments)
  BY DEF DeployInv, DeployTyped
<1>4. QED
  BY <1>1, <1>2, <1>3

\* The version of the next deployment is a number.
LEMMA NextVersion ==
  ASSUME DeployInv
  PROVE  LastVersion \in Nat
<1>1. CASE deployments = <<>>
  BY <1>1 DEF LastVersion
<1>2. CASE deployments # <<>>
  <2> DEFINE V == {deployments[i].version : i \in 1..Len(deployments)}
  <2> DEFINE P(v) == \A i \in 1..Len(deployments) : deployments[i].version <= v
  <2>1. \A i \in 1..Len(deployments) : deployments[i].version \in Nat
    BY DeployRows
  <2>2. \E v \in V : P(v)
    BY <1>2 DEF DeployInv, HasHighest
  <2>3. LastVersion = CHOOSE v \in V : P(v)
    BY <1>2 DEF LastVersion
  <2>4. V \subseteq Nat
    BY <2>1
  <2> HIDE DEF V, P
  <2>5. LastVersion \in V
    BY <2>2, <2>3
  <2>6. QED
    BY <2>4, <2>5
<1>3. QED
  BY <1>1, <1>2

\* A step of one agent that leaves the table alone.
LEMMA AgentMoves ==
  ASSUME DeployInv, NEW a \in Agent, NEW call \in [pc : AgentPoint, id : Nat, version : Nat],
         deployments' = deployments, succeeded \subseteq succeeded',
         agent' = [agent EXCEPT ![a] = call],
         call.id <= Len(deployments),
         call.pc \notin {"free", "insert"} => call.id # 0,
         call.pc \in {"deployed", "deployed!"} => call.id \in succeeded',
         call.pc \in {"rolled_back", "rolled_back!"} => Reversed(call.id)
  PROVE  DeployInv'
<1>1. /\ agent' \in [Agent -> [pc : AgentPoint, id : Nat, version : Nat]] /\ agent'[a] = call
      /\ \A b \in Agent \ {a} : agent'[b] = agent[b]
  BY DEF DeployInv, DeployTyped
<1>2. \A b \in Agent : AgentKnows(b)'
  BY <1>1 DEF DeployInv, AgentKnows, Reversed
<1>3. DeployTyped'
  BY <1>1 DEF DeployInv, DeployTyped
<1>4. QED
  BY <1>2, <1>3 DEF DeployInv, HasHighest, DeployedHasRun, RolledBackHasReversal

\* create_deployment() and rollback_deployment() check.
LEMMA DeployPrepares ==
  ASSUME DeployInv, NEW a \in Agent, NEW of \in 0..Len(deployments), PrepareDeployment(a, of)
  PROVE  DeployInv'
<1> DEFINE call == [FreeAgent EXCEPT !.pc = "insert", !.id = of, !.version = LastVersion + 1]
<1>0. Len(deployments) \in Nat
  BY DEF DeployInv, DeployTyped
<1>a. LastVersion + 1 \in Nat /\ of \in Nat /\ "insert" \in AgentPoint
  BY <1>0, NextVersion DEF AgentPoint
<1>1. /\ deployments' = deployments /\ succeeded' = succeeded
      /\ agent' = [agent EXCEPT ![a] = call]
  BY DEF PrepareDeployment, Goes, deployVars
<1>2. call \in [pc : AgentPoint, id : Nat, version : Nat]
  BY <1>a DEF FreeAgent
<1>3. call.id <= Len(deployments) /\ call.pc = "insert"
  BY <1>0 DEF FreeAgent
<1> HIDE DEF call
<1>4. QED
  BY <1>1, <1>2, <1>3, AgentMoves

\* The row is inserted.
LEMMA DeployInserts ==
  ASSUME DeployInv, NEW a \in Agent, InsertDeployment(a)
  PROVE  DeployInv'
<1> DEFINE n == Len(deployments)
<1> DEFINE of == agent[a].id
<1> DEFINE row == [state |-> "pending", version |-> agent[a].version, rollbackOf |-> of]
<1> DEFINE call == IF of = 0 THEN FreeAgent ELSE [FreeAgent EXCEPT !.pc = "rolled_back", !.id = of]
<1>1. /\ deployments' = Append(deployments, row) /\ succeeded' = succeeded
      /\ agent' = [agent EXCEPT ![a] = call]
  BY DEF InsertDeployment, Goes
<1>2. /\ deployments \in Seq(DeploymentRow) /\ n \in Nat
      /\ of \in Nat /\ of <= n /\ agent[a].version \in Nat
  BY DEF DeployInv, DeployTyped
<1>3. row \in DeploymentRow /\ row.state = "pending" /\ row.rollbackOf = of /\ row.version \in Nat
  BY <1>2 DEF DeploymentRow, DeployState
<1>4. /\ call \in [pc : AgentPoint, id : Nat, version : Nat] /\ call.id = of
      /\ call.pc = IF of = 0 THEN "free" ELSE "rolled_back"
  BY <1>2 DEF FreeAgent, AgentPoint
<1> HIDE DEF row, call, of
<1>5. /\ deployments' \in Seq(DeploymentRow) /\ Len(deployments') = n + 1
      /\ deployments'[n + 1] = row
      /\ \A i \in 1..n : deployments'[i] = deployments[i]
      /\ \A i \in 1..(n + 1) : i \in 1..n \/ i = n + 1
  BY <1>1, <1>2, <1>3
<1>6. /\ agent' \in [Agent -> [pc : AgentPoint, id : Nat, version : Nat]] /\ agent'[a] = call
      /\ \A b \in Agent \ {a} : agent'[b] = agent[b]
  BY <1>1, <1>4 DEF DeployInv, DeployTyped
<1>7. \A i \in Nat : Reversed(i) \/ i = of => Reversed(i)'
  BY <1>2, <1>3, <1>5 DEF Reversed
<1>8. \A b \in Agent : AgentKnows(b)'
  <2>1. AgentKnows(a)'
    BY <1>2, <1>4, <1>6, <1>7 DEF AgentKnows
  <2>2. ASSUME NEW b \in Agent \ {a} PROVE AgentKnows(b)'
    <3>1. AgentKnows(b) /\ agent'[b] = agent[b] /\ agent[b].id \in Nat
      BY <1>6 DEF DeployInv, DeployTyped
    <3>2. QED
      BY <1>1, <1>7, <3>1 DEF AgentKnows
  <2>3. QED
    BY <2>1, <2>2
<1>9. DeployTyped'
  <2>1. \A i \in 1..n : deployments[i].rollbackOf \in Nat /\ deployments[i].rollbackOf <= n + 1
    BY <1>2, DeployRows
  <2>2. \A i \in 1..(n + 1) : deployments'[i].rollbackOf <= n + 1
    BY <1>2, <1>3, <1>5, <2>1
  <2>3. \A b \in Agent : agent'[b].id <= n + 1
    <3>1. \A b \in Agent : agent[b].id \in Nat /\ agent[b].id <= n
      BY DEF DeployInv, DeployTyped
    <3>2. \A b \in Agent : agent[b].id <= n + 1
      BY <1>2, <3>1
    <3>3. QED
      BY <1>4, <1>6, <3>2 DEF of
  <2>4. QED
    BY <1>5, <1>6, <2>2, <2>3 DEF DeployTyped
<1>10. HasHighest'
  <2>0. \A i \in 1..n : deployments[i].version \in Nat
    BY DeployRows
  <2> HIDE DEF n
  <2> SUFFICES \E i \in 1..(n + 1) : \A j \in 1..(n + 1) : deployments'[j].version <= deployments'[i].version
    BY <1>5 DEF HasHighest
  <2>1. n + 1 \in 1..(n + 1) /\ row.version <= row.version
    BY <1>2, <1>3
  <2>2. CASE deployments = <<>>
    <3>1. n = 0
      BY <2>2 DEF n
    <3>2. QED
      BY <1>5, <2>1, <3>1
  <2>3. CASE deployments # <<>>
    <3>1. PICK k \in 1..n : \A j \in 1..n : deployments[j].version <= deployments[k].version
      BY <2>3 DEF DeployInv, HasHighest, n
    <3>2. CASE row.version <= deployments[k].version
      <4>1. k \in 1..(n + 1)
        BY <1>2
      <4>2. QED
        BY <1>5, <3>1, <3>2, <4>1
    <3>3. CASE ~(row.version <= deployments[k].version)
      <4>1. \A j \in 1..n : deployments[j].version <= row.version
        BY <1>3, <2>0, <3>1, <3>3
      <4>2. QED
        BY <1>5, <2>1, <4>1
    <3>4. QED
      BY <3>2, <3>3
  <2>4. QED
    BY <2>2, <2>3
<1>11. DeployedHasRun' /\ RolledBackHasReversal'
  <2>1. DeployedHasRun'
    BY <1>1, <1>3, <1>5 DEF DeployInv, DeployedHasRun
  <2>2. \A i \in 1..(n + 1) : deployments'[i].state = "rolled_back" => Reversed(i)'
    BY <1>2, <1>3, <1>5, <1>7 DEF DeployInv, RolledBackHasReversal, Reversed
  <2>3. QED
    BY <1>5, <2>1, <2>2 DEF RolledBackHasReversal, Reversed
<1>12. QED
  BY <1>8, <1>9, <1>10, <1>11 DEF DeployInv

\* transition_state() checks ...
LEMMA DeployChecks ==
  ASSUME DeployInv, NEW a \in Agent, NEW new, NEW next \in AgentPoint, CheckTransition(a, new, next),
         <<new, next>> \in {<<"deploying", "deploying!">>, <<"deployed", "deployed!">>,
                            <<"failed", "failed!">>, <<"rolled_back", "rolled_back!">>}
  PROVE  DeployInv'
<1> DEFINE call == IF <<deployments[agent[a].id].state, new>> \in AllowedTransition
                   THEN [agent[a] EXCEPT !.pc = next] ELSE FreeAgent
<1>1. /\ deployments' = deployments /\ succeeded' = succeeded /\ agent[a].pc = new
      /\ agent' = [agent EXCEPT ![a] = call]
  BY DEF CheckTransition, Goes, deployVars
<1>2. /\ agent[a] \in [pc : AgentPoint, id : Nat, version : Nat] /\ AgentKnows(a)
      /\ agent[a].id <= Len(deployments) /\ 0 <= Len(deployments)
  BY DEF DeployInv, DeployTyped
<1>3. \/ /\ call \in [pc : AgentPoint, id : Nat, version : Nat] /\ call.pc = "free" /\ call.id = 0
      \/ /\ call \in [pc : AgentPoint, id : Nat, version : Nat]
         /\ call.pc = next /\ call.id = agent[a].id
  BY <1>2 DEF FreeAgent, AgentPoint
<1> HIDE DEF call
<1>4. QED
  BY <1>1, <1>2, <1>3, AgentMoves DEF AgentKnows

\* ... and writes.
LEMMA DeployWrites ==
  ASSUME DeployInv, NEW a \in Agent, NEW pc \in AgentPoint, NEW new \in DeployState, NEW next \in {"free", "run"},
         WriteTransition(a, pc, new, next),
         pc \in {"deploying!", "deployed!", "failed!", "rolled_back!"},
         new = "deployed" => pc = "deployed!",
         new = "rolled_back" => pc = "rolled_back!"
  PROVE  DeployInv'
<1> DEFINE n == Len(deployments)
<1> DEFINE i == agent[a].id
<1> DEFINE row == [deployments[i] EXCEPT !.state = new]
<1> DEFINE call == IF next = "free" THEN FreeAgent ELSE [agent[a] EXCEPT !.pc = next]
<1>1. /\ succeeded' = succeeded /\ agent[a].pc = pc
      /\ agent' = [agent EXCEPT ![a] = call]
      /\ deployments' = [deployments EXCEPT ![i].state = new]
  BY DEF WriteTransition, Goes
<1>2. /\ agent[a] \in [pc : AgentPoint, id : Nat, version : Nat] /\ AgentKnows(a)
      /\ deployments \in Seq(DeploymentRow) /\ n \in Nat
      /\ i \in Nat /\ i <= n
  BY DEF DeployInv, DeployTyped
<1>3. i \in 1..n
  BY <1>1, <1>2 DEF AgentKnows
<1>4. /\ call \in [pc : AgentPoint, id : Nat, version : Nat] /\ call.pc \in {"free", "run"}
      /\ call.id \in {0, i} /\ (call.pc = "run" => call.id = i)
  BY <1>2 DEF FreeAgent, AgentPoint
<1>5. /\ deployments[i] \in DeploymentRow
  BY <1>2, <1>3
<1>6. /\ row \in DeploymentRow /\ row.state = new /\ row.version = deployments[i].version
      /\ row.rollbackOf = deployments[i].rollbackOf
  BY <1>5 DEF DeploymentRow
<1>7. deployments' = [deployments EXCEPT ![i] = row]
  BY <1>1
<1> HIDE DEF row, call
<1>8. /\ deployments' \in Seq(DeploymentRow) /\ Len(deployments') = n /\ deployments'[i] = row
      /\ \A j \in 1..n : j # i => deployments'[j] = deployments[j]
  BY <1>2, <1>3, <1>6, <1>7
<1>9. \A j \in 1..n : /\ deployments'[j].version = deployments[j].version
                      /\ deployments'[j].rollbackOf = deployments[j].rollbackOf
  BY <1>6, <1>8
<1>10. /\ agent' \in [Agent -> [pc : AgentPoint, id : Nat, version : Nat]] /\ agent'[a] = call
       /\ \A b \in Agent \ {a} : agent'[b] = agent[b]
  BY <1>1, <1>4 DEF DeployInv, DeployTyped
<1>11. \A k : Reversed(k)' <=> Reversed(k)
  BY <1>8, <1>9 DEF Reversed
<1>12. \A b \in Agent : AgentKnows(b)'
  <2>1. AgentKnows(a)'
    BY <1>3, <1>4, <1>10 DEF AgentKnows
  <2>2. ASSUME NEW b \in Agent \ {a} PROVE AgentKnows(b)'
    <3>1. AgentKnows(b) /\ agent'[b] = agent[b]
      BY <1>10 DEF DeployInv
    <3>2. QED
      BY <1>1, <1>11, <3>1 DEF AgentKnows
  <2>3. QED
    BY <2>1, <2>2
<1>13. DeployTyped'
  <2>1. \A j \in 1..n : deployments'[j].rollbackOf <= n
    BY <1>9, DeployRows
  <2>2. \A b \in Agent : agent'[b].id <= n
    <3>1. \A b \in Agent : agent[b].id <= n
      BY DEF DeployInv, DeployTyped
    <3>2. call.id <= n
      BY <1>2, <1>4
    <3>3. QED
      BY <1>10, <3>1, <3>2
  <2> HIDE DEF n
  <2>3. QED
    BY <1>8, <1>10, <2>1, <2>2 DEF DeployTyped
<1>14. HasHighest'
  <2>1. deployments # <<>>
    BY <1>3
  <2>2. PICK k \in 1..n : \A j \in 1..n : deployments[j].version <= deployments[k].version
    BY <2>1 DEF DeployInv, HasHighest
  <2>3. QED
    BY <1>8, <1>9, <2>2 DEF HasHighest
<1>15. DeployedHasRun'
  BY <1>1, <1>2, <1>3, <1>6, <1>8 DEF DeployInv, DeployedHasRun, AgentKnows
<1>16. RolledBackHasReversal'
  <2>1. \A j \in 1..n : deployments'[j].state = "rolled_back" => Reversed(j)
    BY <1>1, <1>2, <1>3, <1>6, <1>8 DEF DeployInv, RolledBackHasReversal, AgentKnows, Reversed
  <2>2. QED
    BY <1>8, <1>11, <2>1 DEF RolledBackHasReversal, Reversed
<1>17. QED
  BY <1>12, <1>13, <1>14, <1>15, <1>16 DEF DeployInv

\* execute_deployment(), step by step.
LEMMA DeployExecutes ==
  ASSUME DeployInv, NEW a \in Agent, Execute(a)
  PROVE  DeployInv'
<1>0. agent[a] \in [pc : AgentPoint, id : Nat, version : Nat] /\ AgentKnows(a)
      /\ agent[a].id <= Len(deployments) /\ Len(deployments) \in Nat
  BY DEF DeployInv, DeployTyped
<1>1. ASSUME NEW i \in 1..MaxDeployments, BeginExecute(a, i) PROVE DeployInv'
  <2> DEFINE call == [FreeAgent EXCEPT !.pc = "deploying", !.id = i]
  <2>1. /\ deployments' = deployments /\ succeeded' = succeeded /\ i \in 1..Len(deployments)
        /\ agent' = [agent EXCEPT ![a] = call]
    BY <1>1 DEF BeginExecute, Goes, deployVars
  <2>2. call \in [pc : AgentPoint, id : Nat, version : Nat] /\ call.pc = "deploying" /\ call.id = i
    <3>1. i \in Nat
      OBVIOUS
    <3>2. QED
      BY <3>1 DEF AgentPoint, FreeAgent
  <2>3. call.id <= Len(deployments) /\ call.id # 0
    BY <1>0, <2>1
  <2> HIDE DEF call
  <2>4. QED
    BY <2>1, <2>2, <2>3, AgentMoves
<1>2. ASSUME NEW ok \in BOOLEAN, RunDeployFn(a, ok) PROVE DeployInv'
  <2> DEFINE call == [agent[a] EXCEPT !.pc = IF ok THEN "deployed" ELSE "failed"]
  <2>1. /\ deployments' = deployments /\ agent[a].pc = "run"
        /\ succeeded' = IF ok THEN succeeded \union {agent[a].id} ELSE succeeded
        /\ agent' = [agent EXCEPT ![a] = call]
    BY <1>2 DEF RunDeployFn, Goes
  <2>2. /\ call \in [pc : AgentPoint, id : Nat, version : Nat] /\ call.id = agent[a].id
        /\ call.pc = IF ok THEN "deployed" ELSE "failed"
    BY <1>0 DEF AgentPoint
  <2> HIDE DEF call
  <2>3. QED
    BY <1>0, <2>1, <2>2, AgentMoves DEF AgentKnows
<1>3. CASE CheckTransition(a, "deploying", "deploying!")
  BY <1>3, DeployChecks DEF AgentPoint
<1>4. CASE WriteTransition(a, "deploying!", "deploying", "run")
  BY <1>4, DeployWrites DEF AgentPoint, DeployState
<1>5. CASE CheckTransition(a, "deployed", "deployed!")
  BY <1>5, DeployChecks DEF AgentPoint
<1>6. CASE WriteTransition(a, "deployed!", "deployed", "free")
  BY <1>6, DeployWrites DEF AgentPoint, DeployState
<1>7. CASE CheckTransition(a, "failed", "failed!")
  BY <1>7, DeployChecks DEF AgentPoint
<1>8. CASE WriteTransition(a, "failed!", "failed", "free")
  BY <1>8, DeployWrites DEF AgentPoint, DeployState
<1>9. QED
  BY <1>1, <1>2, <1>3, <1>4, <1>5, <1>6, <1>7, <1>8 DEF Execute

\* Every step keeps the invariant.
LEMMA DeployStep == DeployInv /\ [DeploymentsNext]_deploymentVars => DeployInv'
<1> SUFFICES ASSUME DeployInv, [DeploymentsNext]_deploymentVars PROVE DeployInv'
  OBVIOUS
<1>0. Len(deployments) \in Nat
  BY DEF DeployInv, DeployTyped
<1>1. CASE UNCHANGED deploymentVars \/ ArchiveTarget \/ \E i \in 1..MaxDeployments : RecordGate(i)
  BY <1>1 DEF deploymentVars, ArchiveTarget, RecordGate, DeployInv, DeployTyped, HasHighest, AgentKnows,
     Reversed, DeployedHasRun, RolledBackHasReversal
<1>2. ASSUME NEW a \in Agent, CreateDeployment(a) PROVE DeployInv'
  <2>1. 0 \in 0..Len(deployments)
    BY <1>0
  <2>2. QED
    BY <1>2, <2>1, DeployPrepares DEF CreateDeployment
<1>3. ASSUME NEW a \in Agent, NEW i \in 1..MaxDeployments, RollbackDeployment(a, i) PROVE DeployInv'
  <2>1. i \in 0..Len(deployments) /\ PrepareDeployment(a, i)
    BY <1>0, <1>3 DEF RollbackDeployment
  <2>2. QED
    BY <2>1, DeployPrepares
<1>4. ASSUME NEW a \in Agent, MarkOriginal(a) PROVE DeployInv'
  <2>1. CASE CheckTransition(a, "rolled_back", "rolled_back!")
    BY <2>1, DeployChecks DEF AgentPoint
  <2>2. CASE WriteTransition(a, "rolled_back!", "rolled_back", "free")
    BY <2>2, DeployWrites DEF AgentPoint, DeployState
  <2>3. QED
    BY <1>4, <2>1, <2>2 DEF MarkOriginal
<1>5. ASSUME NEW a \in Agent, AgentDies(a) PROVE DeployInv'
  <2>1. deployments' = deployments /\ succeeded' = succeeded /\ agent' = [agent EXCEPT ![a] = FreeAgent]
    BY <1>5 DEF AgentDies, Goes, deployVars
  <2>2. /\ FreeAgent \in [pc : AgentPoint, id : Nat, version : Nat]
        /\ FreeAgent.pc = "free" /\ FreeAgent.id = 0 /\ 0 <= Len(deployments)
    BY <1>0 DEF FreeAgent, AgentPoint
  <2>3. QED
    BY <2>1, <2>2, AgentMoves
<1>6. QED
  BY <1>1, <1>2, <1>3, <1>4, <1>5, DeployInserts, DeployExecutes DEF DeploymentsNext

\* The invariant implies the type invariant.
LEMMA DeployHolds == DeployInv => DeploymentsTypeOK
<1> SUFFICES ASSUME DeployInv PROVE DeploymentsTypeOK
  OBVIOUS
<1>1. \A i \in 1..Len(deployments) : deployments[i] \in DeploymentRow
  BY DEF DeployInv, DeployTyped
<1>2. \A i \in 1..Len(deployments) : /\ deployments[i].state \in DeployState
                                     /\ deployments[i].rollbackOf \in 0..Len(deployments)
  BY <1>1 DEF DeployInv, DeployTyped, DeploymentRow
<1>3. \A a \in Agent : agent[a].id \in 0..Len(deployments)
  BY DEF DeployInv, DeployTyped
<1>4. QED
  BY <1>2, <1>3 DEF DeploymentsTypeOK, DeployState

\* Deployments: one recorded as deployed has run, one rolled back has its
\* reversal, whichever calls interleave and wherever a process dies.
THEOREM DeploymentsTellTheTruth == DeploymentsSpec => [](DeployedHasRun /\ RolledBackHasReversal)
<1>1. DeployInv => DeployedHasRun /\ RolledBackHasReversal
  BY DEF DeployInv
<1>2. QED
  BY <1>1, DeployStart, DeployStep, PTL DEF DeploymentsSpec

-----------------------------------------------------------------------------
(* The pipeline.                                                           *)

StageRow == [from : Stage \union {NoStage}, to : Stage]

\* By the rows of a table the object has been in a stage, or in none yet.
BeenIn(rows, stage) == stage = NoStage \/ \E j \in 1..Len(rows) : rows[j].to = stage

\* What a transition() has checked stays true of the table while others insert.
StageInv ==
  /\ pipelineOpen \in BOOLEAN
  /\ moves \in Seq(StageRow)
  /\ mover \in [Mover -> [pc : {"still", "insert"}, from : Stage \union {NoStage},
                          to : Stage \union {NoStage}]]
  /\ \A m \in Mover : mover[m].pc = "insert" => mover[m].to \in Stage /\ BeenIn(moves, mover[m].from)
  /\ StagesConnected

\* The invariant holds at the start.
LEMMA StageStart == StageInit => StageInv
<1> SUFFICES ASSUME StageInit PROVE StageInv
  OBVIOUS
<1>1. moves \in Seq(StageRow) /\ Len(moves) = 0
  BY DEF StageInit
<1>2. QED
  BY <1>1 DEF StageInit, StageInv, StagesConnected, NotMoving

\* Every step of the pipeline keeps the invariant.
LEMMA StageStep == StageInv /\ [StageNext]_stageVars => StageInv'
<1> SUFFICES ASSUME StageInv, [StageNext]_stageVars PROVE StageInv'
  OBVIOUS
<1> USE DEF StageInv
<1>1. CASE ArchivePipeline \/ UNCHANGED stageVars
  BY <1>1 DEF ArchivePipeline, stageVars, StagesConnected, BeenIn
<1>2. ASSUME NEW m \in Mover, NEW from \in Stage \union {NoStage}, NEW to \in Stage,
             CheckMove(m, from, to)
      PROVE  StageInv'
  <2>1. BeenIn(moves, from)
    BY <1>2 DEF CheckMove, FromCurrent, CurrentStage, BeenIn
  <2>2. /\ pipelineOpen' = pipelineOpen /\ moves' = moves
        /\ mover' = [mover EXCEPT ![m] = [pc |-> "insert", from |-> from, to |-> to]]
    BY <1>2 DEF CheckMove
  <2>3. \A n \in Mover : mover'[n].pc = "insert" => mover'[n].to \in Stage /\ BeenIn(moves, mover'[n].from)
    BY <2>1, <2>2
  <2>4. QED
    BY <2>2, <2>3 DEF BeenIn, StagesConnected
<1>3. ASSUME NEW m \in Mover, Move(m)
      PROVE  StageInv'
  <2> DEFINE row == [from |-> mover[m].from, to |-> mover[m].to]
  <2>1. /\ pipelineOpen' = pipelineOpen /\ moves' = Append(moves, row)
        /\ mover' = [mover EXCEPT ![m] = NotMoving]
        /\ row \in StageRow /\ BeenIn(moves, row.from)
    BY <1>3 DEF Move, StageRow
  <2> HIDE DEF row
  <2>2. /\ moves' \in Seq(StageRow) /\ Len(moves') = Len(moves) + 1 /\ Len(moves) \in Nat
        /\ moves'[Len(moves) + 1] = row
        /\ \A j \in 1..Len(moves) : moves'[j] = moves[j]
    BY <2>1
  <2>3. \A stage : BeenIn(moves, stage) => BeenIn(moves', stage)
    BY <2>2 DEF BeenIn
  <2>4. \A n \in Mover : mover'[n].pc = "insert" => mover'[n].to \in Stage /\ BeenIn(moves', mover'[n].from)
    BY <2>1, <2>3 DEF NotMoving
  <2>5. StagesConnected'
    <3> SUFFICES ASSUME NEW k \in 1..Len(moves')
                 PROVE  \/ moves'[k].from = NoStage
                        \/ \E j \in 1..(k - 1) : moves'[j].to = moves'[k].from
      BY DEF StagesConnected
    <3>1. CASE k \in 1..Len(moves)
      <4>1. \A j \in 1..(k - 1) : j \in 1..Len(moves)
        BY <3>1
      <4>2. QED
        BY <2>2, <3>1, <4>1 DEF StagesConnected
    <3>2. CASE k = Len(moves) + 1
      <4>1. 1..(k - 1) = 1..Len(moves)
        BY <3>2
      <4>2. QED
        BY <2>1, <2>2, <3>2, <4>1 DEF BeenIn
    <3>3. QED
      BY <2>2, <3>1, <3>2
  <2>6. mover' \in [Mover -> [pc : {"still", "insert"}, from : Stage \union {NoStage},
                              to : Stage \union {NoStage}]]
    BY <2>1 DEF NotMoving
  <2>7. QED
    BY <2>1, <2>2, <2>4, <2>5, <2>6
<1>4. QED
  BY <1>1, <1>2, <1>3 DEF StageNext

\* The invariant implies the type invariant.
LEMMA StageTyped == StageInv => StageTypeOK
<1> SUFFICES ASSUME StageInv PROVE StageTypeOK
  OBVIOUS
<1>1. \A k \in 1..Len(moves) : moves[k] \in StageRow
  BY DEF StageInv
<1>2. QED
  BY <1>1 DEF StageInv, StageTypeOK, StageRow

\* StageFlow: of two transitions that both read the stage before either writes,
\* neither records that the object left a stage it has never been in.
THEOREM StagesStayConnected == StageSpec => []StagesConnected
<1>1. StageInv => StagesConnected
  BY DEF StageInv
<1>2. QED
  BY <1>1, StageStart, StageStep, PTL DEF StageSpec

-----------------------------------------------------------------------------
(* The connector.                                                          *)

LinkStates == {"proposed", "pending_approval", "active", "suspended", "revoked", "rejected"}

SyncCalls == [pc : {"policy", "push", "success", "failed", "blocked"}, type : ObjectType,
              direction : {"inbound", "outbound"}]

\* Where a thread is in a call.
LinkCalls == [pc : {"standby"}] \union [pc : {"write"}, to : LinkStates] \union SyncCalls

\* What a sync has checked, wherever it has got to: the connector was approved,
\* the type is no secret, and a success arrived.
Cleared(p) ==
  LET call == operator[p] IN
  /\ call.pc \in {"policy", "push", "success", "failed", "blocked"} => link.approved
  /\ call.pc \in {"push", "success", "failed"} => call.type \notin SecretLike
  /\ call.pc = "success" /\ call.direction = "outbound" => call.type \in receivedThere

ConnectorInv ==
  /\ ConnectorTypeOK
  /\ link \in [state : LinkStates, direction : Directions, approved : BOOLEAN]
  /\ link.state = "active" => link.approved
  /\ operator \in [Operator -> LinkCalls]
  /\ \A p \in Operator : Cleared(p)
  /\ SecretsStay /\ NeverUnapproved /\ RecordedTruly

\* The invariant holds at the start.
LEMMA ConnectorStart == ConnectorInit => ConnectorInv
<1> SUFFICES ASSUME ConnectorInit PROVE ConnectorInv
  OBVIOUS
<1>1. /\ link.state = "proposed" /\ link.direction \in Directions /\ link.approved = FALSE
      /\ link \in [state : LinkStates, direction : Directions, approved : BOOLEAN]
  BY DEF ConnectorInit, LinkStates
<1>2. operator \in [Operator -> LinkCalls] /\ \A p \in Operator : operator[p].pc = "standby"
  BY DEF ConnectorInit, LinkCalls, Standby
<1>3. traffic = {} /\ receivedThere = {}
  BY DEF ConnectorInit
<1>4. ConnectorTypeOK
  BY <1>1, <1>3 DEF ConnectorTypeOK
<1>5. QED
  BY <1>1, <1>2, <1>3, <1>4 DEF ConnectorInv, Cleared, SecretsStay, NeverUnapproved, RecordedTruly

\* A transition is checked or written.
LEMMA ConnectorTransits ==
  ASSUME ConnectorInv, NEW p \in Operator,
         \/ \E to \in {"pending_approval", "active", "rejected", "suspended", "revoked"} : CheckState(p, to)
         \/ WriteConnectorState(p)
  PROVE  ConnectorInv'
<1> USE DEF ConnectorInv
<1>1. CASE \E to \in {"pending_approval", "active", "rejected", "suspended", "revoked"} : CheckState(p, to)
  <2>1. PICK to \in {"pending_approval", "active", "rejected", "suspended", "revoked"} : CheckState(p, to)
    BY <1>1
  <2>2. /\ link' = link /\ traffic' = traffic /\ receivedThere' = receivedThere
        /\ operator' = [operator EXCEPT ![p] = [pc |-> "write", to |-> to]]
    BY <2>1 DEF CheckState, Calls
  <2>3. [pc |-> "write", to |-> to] \in LinkCalls
    BY DEF LinkCalls, LinkStates
  <2>4. QED
    BY <2>2, <2>3 DEF ConnectorTypeOK, Cleared, SecretsStay, NeverUnapproved, RecordedTruly
<1>2. CASE WriteConnectorState(p)
  <2> DEFINE to == operator[p].to
  <2>1. /\ operator[p].pc = "write" /\ traffic' = traffic /\ receivedThere' = receivedThere
        /\ link' = [link EXCEPT !.state = to, !.approved = @ \/ to = "active"]
        /\ operator' = [operator EXCEPT ![p] = Standby]
    BY <1>2 DEF WriteConnectorState, Calls
  <2>2. to \in LinkStates
    BY <2>1 DEF LinkCalls, SyncCalls
  <2>3. /\ link'.state = to /\ link'.direction = link.direction
        /\ link'.approved = (link.approved \/ to = "active")
        /\ link' \in [state : LinkStates, direction : Directions, approved : BOOLEAN]
    BY <2>1, <2>2
  <2> HIDE DEF to
  <2>4. operator' \in [Operator -> LinkCalls] /\ \A q \in Operator : Cleared(q)'
    <3>1. Standby \in LinkCalls /\ Standby.pc = "standby"
      BY DEF LinkCalls, Standby
    <3>2. operator' \in [Operator -> LinkCalls]
      BY <2>1, <3>1
    <3>3. operator'[p].pc = "standby" /\ \A q \in Operator \ {p} : operator'[q] = operator[q]
      BY <2>1, <3>1
    <3>4. QED
      BY <2>1, <2>3, <3>2, <3>3 DEF Cleared
  <2>5. ConnectorTypeOK'
    BY <2>1, <2>2, <2>3 DEF ConnectorTypeOK, LinkStates
  <2>6. QED
    BY <2>1, <2>3, <2>4, <2>5 DEF SecretsStay, NeverUnapproved, RecordedTruly
<1>3. QED
  BY <1>1, <1>2

\* sync_object() checks, pushes and records.
LEMMA ConnectorSyncs ==
  ASSUME ConnectorInv, NEW p \in Operator,
         \/ \E type \in ObjectType, direction \in {"inbound", "outbound"} : SyncChecksLink(p, type, direction)
         \/ SyncChecksPolicy(p)
         \/ \E answer \in {"2xx", "error", "raises"}, arrives \in BOOLEAN : SyncPushes(p, answer, arrives)
  PROVE  ConnectorInv'
<1> USE DEF ConnectorInv
<1>1. link' = link /\ traffic' = traffic
  BY DEF SyncChecksLink, SyncChecksPolicy, SyncPushes
<1>2. PICK call \in SyncCalls :
        /\ operator' = [operator EXCEPT ![p] = call]
        /\ link.approved
        /\ call.pc \in {"push", "success", "failed"} => call.type \notin SecretLike
        /\ call.pc = "success" /\ call.direction = "outbound" => call.type \in receivedThere'
        /\ receivedThere \subseteq receivedThere'
        /\ \A type \in receivedThere' : type \in receivedThere \/ (type \in ObjectType /\ type \notin SecretLike)
  <2>1. ASSUME NEW type \in ObjectType, NEW direction \in {"inbound", "outbound"},
               SyncChecksLink(p, type, direction)
        PROVE  \E call \in SyncCalls :
                 /\ operator' = [operator EXCEPT ![p] = call]
                 /\ link.approved /\ receivedThere' = receivedThere /\ call.pc = "policy"
    <3>1. [pc |-> "policy", type |-> type, direction |-> direction] \in SyncCalls
      BY DEF SyncCalls
    <3>2. QED
      BY <2>1, <3>1 DEF SyncChecksLink, IsActive, Calls
  <2>2. ASSUME operator[p].pc \in {"policy", "push"}
        PROVE  operator[p] \in SyncCalls /\ link.approved
    BY <2>2 DEF LinkCalls, Cleared
  <2>3. CASE SyncChecksPolicy(p)
    <3>1. operator[p].pc = "policy" /\ receivedThere' = receivedThere
      BY <2>3 DEF SyncChecksPolicy
    <3>2. PICK pc \in {"blocked", "push", "success"} :
            /\ operator' = [operator EXCEPT ![p] = [operator[p] EXCEPT !.pc = pc]]
            /\ pc # "blocked" => operator[p].type \notin SecretLike
            /\ pc = "success" => operator[p].direction # "outbound"
      BY <2>3 DEF SyncChecksPolicy, Calls, PolicyAllows
    <3> DEFINE call == [operator[p] EXCEPT !.pc = pc]
    <3>3. /\ call \in SyncCalls /\ call.pc = pc /\ call.type = operator[p].type
          /\ call.direction = operator[p].direction
      BY <2>2, <3>1 DEF SyncCalls
    <3> HIDE DEF call
    <3>4. operator' = [operator EXCEPT ![p] = call]
      BY <3>2 DEF call
    <3>5. QED
      BY <2>2, <3>1, <3>2, <3>3, <3>4
  <2>4. ASSUME NEW answer \in {"2xx", "error", "raises"}, NEW arrives \in BOOLEAN, SyncPushes(p, answer, arrives)
        PROVE  \E call \in SyncCalls :
                 /\ operator' = [operator EXCEPT ![p] = call]
                 /\ link.approved /\ call.type \notin SecretLike /\ call.type \in ObjectType
                 /\ call.pc = "success" => call.type \in receivedThere'
                 /\ receivedThere' = receivedThere \/ receivedThere' = receivedThere \union {call.type}
    <3> DEFINE call == [operator[p] EXCEPT !.pc = PushStatus(answer)]
    <3>1. operator[p].pc = "push" /\ operator' = [operator EXCEPT ![p] = call]
      BY <2>4 DEF SyncPushes, Calls
    <3>2. /\ call \in SyncCalls /\ call.type = operator[p].type /\ call.type \in ObjectType
          /\ call.pc = PushStatus(answer)
      BY <2>2, <3>1 DEF SyncCalls, PushStatus
    <3>3. call.type \notin SecretLike
      BY <3>1, <3>2 DEF Cleared
    <3>4. /\ receivedThere' = IF arrives THEN receivedThere \union {operator[p].type} ELSE receivedThere
          /\ answer = "2xx" => arrives
      BY <2>4 DEF SyncPushes
    <3> HIDE DEF call
    <3>5. QED
      BY <2>2, <3>1, <3>2, <3>3, <3>4 DEF PushStatus
  <2>5. QED
    BY <2>1, <2>3, <2>4
<1>3. operator' \in [Operator -> LinkCalls] /\ operator'[p] = call
      /\ \A q \in Operator \ {p} : operator'[q] = operator[q]
  BY <1>2 DEF LinkCalls
<1>4. \A q \in Operator : Cleared(q)'
  BY <1>1, <1>2, <1>3 DEF Cleared
<1>5. ConnectorTypeOK'
  BY <1>1, <1>2 DEF ConnectorTypeOK
<1>6. SecretsStay' /\ RecordedTruly' /\ NeverUnapproved'
  BY <1>1, <1>2 DEF SecretsStay, RecordedTruly, NeverUnapproved
<1>7. QED
  BY <1>1, <1>3, <1>4, <1>5, <1>6

\* A call ends with its traffic record.
LEMMA ConnectorRecords ==
  ASSUME ConnectorInv, NEW p \in Operator, RecordTraffic(p)
  PROVE  ConnectorInv'
<1> USE DEF ConnectorInv
<1> DEFINE call == operator[p]
<1> DEFINE record == [type |-> call.type, direction |-> call.direction, status |-> call.pc]
<1>1. /\ call.pc \in {"success", "failed", "blocked"}
      /\ traffic' = traffic \union {record} /\ link' = link /\ receivedThere' = receivedThere
      /\ operator' = [operator EXCEPT ![p] = Standby]
  BY DEF RecordTraffic, Calls
<1>2. call \in SyncCalls /\ Cleared(p)
  BY <1>1 DEF LinkCalls
<1>3. record \in [type : ObjectType, direction : {"inbound", "outbound"}, status : {"success", "failed", "blocked"}]
  BY <1>1, <1>2 DEF SyncCalls
<1>4. /\ link.approved
      /\ record.status \in {"success", "failed"} => record.type \notin SecretLike
      /\ record.status = "success" /\ record.direction = "outbound" => record.type \in receivedThere
  BY <1>1, <1>2 DEF Cleared
<1> HIDE DEF record
<1>5. Standby \in LinkCalls /\ Standby.pc = "standby"
  BY DEF LinkCalls, Standby
<1>6. operator' \in [Operator -> LinkCalls] /\ \A q \in Operator : Cleared(q)'
  BY <1>1, <1>5 DEF Cleared
<1>7. ConnectorTypeOK'
  BY <1>1, <1>3 DEF ConnectorTypeOK
<1>8. SecretsStay' /\ RecordedTruly' /\ NeverUnapproved'
  BY <1>1, <1>3, <1>4 DEF SecretsStay, RecordedTruly, NeverUnapproved
<1>9. QED
  BY <1>1, <1>6, <1>7, <1>8

\* Every step of the connector keeps the invariant.
LEMMA ConnectorStep == ConnectorInv /\ [ConnectorNext]_connectorVars => ConnectorInv'
<1> SUFFICES ASSUME ConnectorInv, [ConnectorNext]_connectorVars PROVE ConnectorInv'
  OBVIOUS
<1>1. CASE \/ UNCHANGED connectorVars
           \/ \E kind \in {"allow_types", "deny_types", "classification"}, types \in SUBSET ObjectType :
                AddPolicy(kind, types)
  BY <1>1 DEF connectorVars, AddPolicy, ConnectorInv, ConnectorTypeOK, Cleared, SecretsStay, NeverUnapproved,
     RecordedTruly
<1>2. CASE \E p \in Operator :
             \/ \E to \in {"pending_approval", "active", "rejected", "suspended", "revoked"} : CheckState(p, to)
             \/ WriteConnectorState(p)
  BY <1>2, ConnectorTransits
<1>3. CASE \E p \in Operator :
             \/ \E type \in ObjectType, direction \in {"inbound", "outbound"} : SyncChecksLink(p, type, direction)
             \/ SyncChecksPolicy(p)
             \/ \E answer \in {"2xx", "error", "raises"}, arrives \in BOOLEAN : SyncPushes(p, answer, arrives)
  BY <1>3, ConnectorSyncs
<1>4. CASE \E p \in Operator : RecordTraffic(p)
  BY <1>4, ConnectorRecords
<1>5. QED
  BY <1>1, <1>2, <1>3, <1>4 DEF ConnectorNext

\* Connector: whatever policies and transitions race with a sync, no secret
\* reaches the other organisation, nothing goes through a connector nobody has
\* approved, and what is recorded as sent arrived.
THEOREM ConnectorGates == ConnectorSpec => [](SecretsStay /\ NeverUnapproved /\ RecordedTruly)
<1>1. ConnectorInv => SecretsStay /\ NeverUnapproved /\ RecordedTruly
  BY DEF ConnectorInv
<1>2. QED
  BY <1>1, ConnectorStart, ConnectorStep, PTL DEF ConnectorSpec

-----------------------------------------------------------------------------
(* Federation.                                                             *)

\* n messages have been created, numbered from what was read.
Numbered(n) ==
  /\ DOMAIN created = 1..n /\ created \in [1..n -> 1..n]
  /\ lastSequence \in 0..n
  /\ sender \in [SenderThread -> [pc : {"quiet", "numbers"}, read : 0..n]]
  /\ network \subseteq [id : 1..n, intact : BOOLEAN]

\* Every accepted message has its number in the ledger.
Ledger ==
  /\ accepted \in [1..MaxMessages -> {0, 1}]
  /\ \A m \in 1..MaxMessages : accepted[m] = 1 => m \in DOMAIN created /\ created[m] \in seen

FederationInv ==
  /\ \E n \in 0..MaxMessages : Numbered(n)
  /\ seen \subseteq 1..MaxMessages
  /\ Ledger

\* The threads that send are of one process.
OneSender == \A s, o \in SenderThread : ProcessOf[s] = ProcessOf[o]

\* Then the lock makes reading and writing the counter one step: the message's
\* number is its place, and each number in the ledger is of a message accepted.
InTurn ==
  /\ \A s, o \in SenderThread : sender[s].pc = "numbers" /\ sender[o].pc = "numbers" => s = o
  /\ \A s \in SenderThread : sender[s].pc = "numbers" => sender[s].read = lastSequence
  /\ DOMAIN created = 1..lastSequence
  /\ \A m \in DOMAIN created : created[m] = m
  /\ \A m \in seen : m \in 1..MaxMessages /\ accepted[m] = 1
  /\ refused = {}

\* The number of the next message.
LEMMA MessageCount ==
  ASSUME NEW n \in Nat, DOMAIN created = 1..n
  PROVE  Cardinality(DOMAIN created) = n
  BY FS_Interval

\* The invariant holds at the start.
LEMMA FederationStart == FederationInit => FederationInv /\ InTurn
<1> SUFFICES ASSUME FederationInit PROVE FederationInv /\ InTurn
  OBVIOUS
<1>1. DOMAIN created = 1..0 /\ created \in [1..0 -> 1..0]
  BY DEF FederationInit
<1>2. sender \in [SenderThread -> [pc : {"quiet", "numbers"}, read : 0..0]]
      /\ \A s \in SenderThread : sender[s].pc = "quiet"
  BY DEF FederationInit, NotSending
<1>3. Numbered(0)
  BY <1>1, <1>2 DEF FederationInit, Numbered
<1>4. Ledger /\ seen \subseteq 1..MaxMessages
  BY <1>1 DEF FederationInit, Ledger
<1>5. InTurn
  BY <1>1, <1>2 DEF FederationInit, InTurn
<1>6. QED
  BY <1>3, <1>4, <1>5, FederationAssumption DEF FederationInv

\* A thread reads the counter.
LEMMA FederationReads ==
  ASSUME FederationInv, NEW s \in SenderThread, ReadSequence(s)
  PROVE  FederationInv' /\ (OneSender /\ InTurn => InTurn')
<1>1. PICK n \in 0..MaxMessages : Numbered(n)
  BY DEF FederationInv
<1>2. /\ lastSequence' = lastSequence /\ seen' = seen /\ created' = created /\ network' = network
      /\ accepted' = accepted /\ refused' = refused
      /\ sender' = [sender EXCEPT ![s] = [pc |-> "numbers", read |-> lastSequence]]
  BY DEF ReadSequence
<1>3. Numbered(n)'
  BY <1>1, <1>2 DEF Numbered
<1>4. FederationInv'
  BY <1>2, <1>3 DEF FederationInv, Ledger
<1>5. ASSUME OneSender, InTurn PROVE InTurn'
  <2>1. \A o \in SenderThread : sender[o].pc = "quiet"
    BY <1>5 DEF ReadSequence, LockFree, OneSender
  <2>2. QED
    BY <1>1, <1>2, <1>5, <2>1 DEF InTurn, Numbered
<1>6. QED
  BY <1>4, <1>5

\* A message is numbered and sent.
LEMMA FederationCreates ==
  ASSUME FederationInv, NEW s \in SenderThread, CreateMessage(s)
  PROVE  FederationInv' /\ (OneSender /\ InTurn => InTurn')
<1>1. PICK n \in 0..MaxMessages : Numbered(n)
  BY DEF FederationInv
<1>2. Cardinality(DOMAIN created) = n
  BY <1>1, MessageCount, FederationAssumption DEF Numbered
<1>3. /\ sender[s].pc = "numbers" /\ n + 1 <= MaxMessages
      /\ seen' = seen /\ accepted' = accepted /\ refused' = refused
      /\ sender' = [sender EXCEPT ![s] = NotSending]
  BY <1>2 DEF CreateMessage
<1>4. /\ sender' \in [SenderThread -> [pc : {"quiet", "numbers"}, read : 0..n]]
      /\ sender'[s].pc = "quiet" /\ \A o \in SenderThread \ {s} : sender'[o] = sender[o]
  BY <1>1, <1>3, FederationAssumption DEF Numbered, NotSending
<1>5. CASE sender[s].read = 0 /\ lastSequence # 0
  <2>1. lastSequence' = lastSequence /\ created' = created /\ network' = network
    BY <1>5 DEF CreateMessage
  <2>2. Numbered(n)'
    BY <1>1, <1>4, <2>1 DEF Numbered
  <2>3. FederationInv'
    BY <1>3, <2>1, <2>2 DEF FederationInv, Ledger
  <2>4. InTurn => InTurn'
    BY <1>3, <1>4, <2>1 DEF InTurn
  <2>5. QED
    BY <2>3, <2>4
<1>6. CASE ~(sender[s].read = 0 /\ lastSequence # 0)
  <2> DEFINE seq == sender[s].read + 1
  <2>1. /\ lastSequence' = seq
        /\ created' = [m \in 1..(n + 1) |-> IF m = n + 1 THEN seq ELSE created[m]]
        /\ network' = network \union {[id |-> n + 1, intact |-> TRUE]}
    BY <1>2, <1>6 DEF CreateMessage, Signed
  <2>2. seq \in 1..(n + 1) /\ n + 1 \in 0..MaxMessages
    BY <1>1, <1>3, FederationAssumption DEF Numbered
  <2>3. /\ DOMAIN created' = 1..(n + 1) /\ created' \in [1..(n + 1) -> 1..(n + 1)]
        /\ \A m \in 1..n : created'[m] = created[m]
        /\ created'[n + 1] = seq
    BY <1>1, <2>1, <2>2 DEF Numbered
  <2>4. sender' \in [SenderThread -> [pc : {"quiet", "numbers"}, read : 0..(n + 1)]]
    BY <1>4
  <2>5. network' \subseteq [id : 1..(n + 1), intact : BOOLEAN]
    <3>1. \A m \in [id : 1..n, intact : BOOLEAN] : m \in [id : 1..(n + 1), intact : BOOLEAN]
      OBVIOUS
    <3>2. [id |-> n + 1, intact |-> TRUE] \in [id : 1..(n + 1), intact : BOOLEAN]
      BY FederationAssumption
    <3>3. QED
      BY <1>1, <2>1, <3>1, <3>2 DEF Numbered
  <2>6. Numbered(n + 1)'
    BY <2>1, <2>2, <2>3, <2>4, <2>5 DEF Numbered
  <2>7. Ledger'
    BY <1>1, <1>3, <2>3 DEF FederationInv, Ledger, Numbered
  <2>8. FederationInv'
    BY <1>3, <2>2, <2>6, <2>7 DEF FederationInv
  <2>9. ASSUME InTurn PROVE InTurn'
    <3>1. lastSequence = n
      <4>1. 1..lastSequence = 1..n /\ lastSequence \in 0..n /\ n \in Nat
        BY <1>1, <2>9 DEF InTurn, Numbered
      <4>2. n > 0 => n \in 1..lastSequence
        BY <4>1
      <4>3. QED
        BY <4>1, <4>2
    <3>2. seq = n + 1 /\ \A o \in SenderThread : sender'[o].pc # "numbers"
      <4>1. \A o \in SenderThread \ {s} : sender[o].pc # "numbers"
        BY <1>3, <2>9 DEF InTurn
      <4>2. QED
        BY <1>3, <1>4, <2>9, <3>1, <4>1 DEF InTurn
    <3>3. \A m \in DOMAIN created' : created'[m] = m
      BY <1>1, <2>3, <2>9, <3>2 DEF InTurn, Numbered
    <3>4. QED
      BY <1>3, <2>1, <2>3, <2>9, <3>2, <3>3 DEF InTurn
  <2>10. QED
    BY <2>8, <2>9
<1>7. QED
  BY <1>5, <1>6

\* A message arrives: it fails verification, is a replay, or is accepted.
LEMMA FederationReceives ==
  ASSUME FederationInv, NEW m \in network, ReceiveMessage(m)
  PROVE  FederationInv' /\ (InTurn => InTurn')
<1>1. PICK n \in 0..MaxMessages : Numbered(n)
  BY DEF FederationInv
<1>2. /\ lastSequence' = lastSequence /\ created' = created /\ network' = network
      /\ sender' = sender
  BY DEF ReceiveMessage
<1>3. Numbered(n)'
  BY <1>1, <1>2 DEF Numbered
<1>4. /\ m.id \in 1..n /\ m.id \in 1..MaxMessages /\ m.id \in DOMAIN created
      /\ created[m.id] \in 1..MaxMessages
  <2>1. m \in [id : 1..n, intact : BOOLEAN]
    BY <1>1 DEF Numbered
  <2>2. m.id \in 1..n
    BY <2>1
  <2>3. created[m.id] \in 1..n
    BY <1>1, <2>2 DEF Numbered
  <2>4. QED
    BY <1>1, <2>2, <2>3, FederationAssumption DEF Numbered
<1>5. CASE ~Verified(m)
  <2>1. seen' = seen /\ accepted' = accepted /\ refused' = refused
    BY <1>5 DEF ReceiveMessage
  <2>2. QED
    BY <1>2, <1>3, <2>1 DEF FederationInv, Ledger, InTurn
<1>6. CASE Verified(m) /\ Replayed(created[m.id])
  <2>1. /\ seen' = seen /\ accepted' = accepted
        /\ refused' = IF accepted[m.id] = 0 THEN refused \union {m.id} ELSE refused
    BY <1>6 DEF ReceiveMessage
  <2>2. InTurn => accepted[m.id] = 1
    BY <1>4, <1>6 DEF InTurn, Replayed
  <2>3. QED
    BY <1>2, <1>3, <2>1, <2>2 DEF FederationInv, Ledger, InTurn
<1>7. CASE Verified(m) /\ ~Replayed(created[m.id])
  <2>1. /\ seen' = seen \union {created[m.id]} /\ refused' = refused
        /\ accepted' = [accepted EXCEPT ![m.id] = accepted[m.id] + 1]
    BY <1>7 DEF ReceiveMessage
  <2>2. accepted[m.id] = 0
    BY <1>4, <1>7 DEF FederationInv, Ledger, Replayed
  <2>3. /\ accepted' \in [1..MaxMessages -> {0, 1}] /\ accepted'[m.id] = 1
        /\ \A k \in 1..MaxMessages : k # m.id => accepted'[k] = accepted[k]
    BY <1>4, <2>1, <2>2 DEF FederationInv, Ledger
  <2>4. FederationInv'
    BY <1>2, <1>3, <1>4, <2>1, <2>3 DEF FederationInv, Ledger
  <2>5. InTurn => InTurn'
    BY <1>2, <1>4, <2>1, <2>3 DEF InTurn
  <2>6. QED
    BY <2>4, <2>5
<1>8. QED
  BY <1>5, <1>6, <1>7

\* The network loses or garbles a message, or a process restarts.
LEMMA FederationMishaps ==
  ASSUME FederationInv,
         \/ \E m \in network : LoseMessage(m) \/ GarbleMessage(m)
         \/ \E s \in SenderThread : RestartSender(ProcessOf[s])
  PROVE  FederationInv' /\ (InTurn => InTurn')
<1>1. PICK n \in 0..MaxMessages : Numbered(n)
  BY DEF FederationInv
<1>2. /\ lastSequence' = lastSequence /\ created' = created /\ seen' = seen
      /\ accepted' = accepted /\ refused' = refused
  BY DEF LoseMessage, GarbleMessage, RestartSender
<1>3. network' \subseteq [id : 1..n, intact : BOOLEAN]
  <2>1. \A m \in network : [m EXCEPT !.intact = FALSE] \in [id : 1..n, intact : BOOLEAN]
    BY <1>1 DEF Numbered
  <2>2. QED
    BY <1>1, <2>1 DEF LoseMessage, GarbleMessage, RestartSender, Numbered
<1>4. /\ sender' \in [SenderThread -> [pc : {"quiet", "numbers"}, read : 0..n]]
      /\ \A s \in SenderThread : sender'[s] = sender[s] \/ sender'[s] = NotSending
  BY <1>1, FederationAssumption DEF LoseMessage, GarbleMessage, RestartSender, Numbered, NotSending
<1>5. Numbered(n)'
  BY <1>1, <1>2, <1>3, <1>4 DEF Numbered
<1>6. FederationInv'
  BY <1>2, <1>5 DEF FederationInv, Ledger
<1>7. InTurn => InTurn'
  BY <1>2, <1>4 DEF InTurn, NotSending
<1>8. QED
  BY <1>6, <1>7

\* Every step keeps the invariant, and with one sending process InTurn.
LEMMA FederationStep ==
  FederationInv /\ [FederationNext]_federationVars =>
    FederationInv' /\ (OneSender /\ InTurn => InTurn')
<1> SUFFICES ASSUME FederationInv, [FederationNext]_federationVars
             PROVE  FederationInv' /\ (OneSender /\ InTurn => InTurn')
  OBVIOUS
<1>1. CASE UNCHANGED federationVars
  BY <1>1 DEF federationVars, FederationInv, Numbered, Ledger, InTurn
<1>2. CASE FederationNext
  BY <1>2, FederationReads, FederationCreates, FederationReceives, FederationMishaps
     DEF FederationNext
<1>3. QED
  BY <1>1, <1>2

\* The invariant implies the type invariant and that no message is accepted twice.
LEMMA FederationHolds ==
  /\ FederationInv => FederationTypeOK /\ AcceptedOnce
  /\ InTurn => NoFalseReplay
<1>1. ASSUME FederationInv PROVE FederationTypeOK /\ AcceptedOnce
  <2>1. PICK n \in 0..MaxMessages : Numbered(n)
    BY <1>1 DEF FederationInv
  <2>2. \A m \in network : m.id \in DOMAIN created
    BY <2>1 DEF Numbered
  <2>3. lastSequence \in Nat
    BY <2>1 DEF Numbered
  <2>4. \A m \in 1..MaxMessages : accepted[m] \in {0, 1}
    BY <1>1 DEF FederationInv, Ledger
  <2>5. FederationTypeOK
    BY <1>1, <2>2, <2>3, <2>4 DEF FederationInv, FederationTypeOK
  <2>6. AcceptedOnce
    BY <2>4 DEF AcceptedOnce
  <2>7. QED
    BY <2>5, <2>6
<1>2. InTurn => NoFalseReplay
  BY DEF InTurn, NoFalseReplay
<1>3. QED
  BY <1>1, <1>2

\* Federation: whatever the network loses, repeats or garbles, whoever
\* restarts and however many processes send, no message is accepted twice.
THEOREM NeverAcceptedTwice == FederationSpec => []AcceptedOnce
  BY FederationHolds, FederationStart, FederationStep, PTL DEF FederationSpec

\* Federation: with one sending process, no message that has not been accepted
\* is taken for a replay.
THEOREM NeverTakenForAnother ==
  ASSUME OneSender
  PROVE  FederationSpec => []NoFalseReplay
<1>1. FederationInv /\ InTurn /\ [FederationNext]_federationVars => FederationInv' /\ InTurn'
  BY FederationStep
<1>2. QED
  BY <1>1, FederationHolds, FederationStart, PTL DEF FederationSpec

-----------------------------------------------------------------------------
(* The tenant router.                                                      *)

RouterThread == RouterCaller \union Admin

\* Where a thread is in the router, and the backend it has.
RouterCalls ==
  [pc : {"away", "lock", "check", "create", "initialize", "use", "close", "clear"},
   backend : 0..MaxBackends]

\* The lock is held from the second look at the cache until a backend is in it,
\* and from a close() of the router until its end; what a thread initializes or
\* closes is not what is cached, nor what another one initializes.
Guarded(t) ==
  /\ caller[t].pc \in {"check", "create", "initialize", "clear"} => lockedBy = {t}
  /\ caller[t].pc \in {"create", "initialize"} => cached = 0
  /\ caller[t].pc = "initialize" => caller[t].backend = made /\ made # 0
  /\ caller[t].pc = "close" => caller[t].backend # cached /\ caller[t].backend \in 1..made
  /\ caller[t].pc = "clear" => t \in Admin /\ cached # 0 /\ cached \notin open

LockGuards ==
  /\ \A t \in RouterThread : Guarded(t)
  /\ \A t, u \in RouterThread :
       caller[t].pc = "initialize" /\ caller[u].pc = "close" => caller[u].backend # made

RouterInv ==
  /\ made \in 0..MaxBackends /\ cached \in 0..made
  /\ open \subseteq 1..made /\ strays \subseteq 1..made /\ cutShort \subseteq 1..made
  /\ caller \in [RouterThread -> RouterCalls]
  /\ lockedBy = {} \/ \E t \in RouterThread : lockedBy = {t}
  /\ LockGuards
  /\ CachedIsOpen
  /\ NoBackendLeaks

\* The invariant holds at the start.
LEMMA RouterStart == RouterInit => RouterInv
  BY RouterAssumption DEF RouterInit, RouterInv, RouterThread, RouterCalls, LockGuards, Guarded,
     CachedIsOpen, NoBackendLeaks, Away

\* What a step of one thread does to the threads.
LEMMA RouterTurns ==
  ASSUME RouterInv, NEW t \in RouterThread,
         NEW pc \in {"away", "lock", "check", "create", "initialize", "use", "close", "clear"},
         NEW b \in 0..MaxBackends, Turns(t, pc, b)
  PROVE  /\ caller' \in [RouterThread -> RouterCalls]
         /\ caller'[t].pc = pc /\ caller'[t].backend = b
         /\ \A s \in RouterThread \ {t} : caller'[s] = caller[s]
BY DEF Turns, RouterInv, RouterCalls

\* A thread's step that leaves the backends alone.
LEMMA RouterIdle ==
  ASSUME RouterInv, NEW t \in RouterCaller,
         LookUp(t) \/ TakeLock(t) \/ CheckAgain(t) \/ Use(t)
  PROVE  RouterInv'
<1> USE DEF RouterInv
<1>1. t \in RouterThread /\ caller[t].pc \notin {"close", "clear", "initialize"}
  BY DEF LookUp, TakeLock, CheckAgain, Use, RouterThread
<1>2. cached' = cached /\ made' = made /\ open' = open /\ strays' = strays /\ cutShort' = cutShort
  BY DEF LookUp, TakeLock, CheckAgain, Use
<1>3. PICK pc \in {"away", "lock", "check", "create", "use"}, b \in 0..MaxBackends : Turns(t, pc, b)
  BY <1>1, RouterAssumption DEF LookUp, TakeLock, CheckAgain, Use
<1>4. /\ caller' \in [RouterThread -> RouterCalls]
      /\ caller'[t].pc = pc /\ caller'[t].backend = b
      /\ \A s \in RouterThread \ {t} : caller'[s] = caller[s]
  BY <1>1, <1>3, RouterTurns
<1>5. lockedBy' = {} \/ \E s \in RouterThread : lockedBy' = {s}
  BY <1>1 DEF LookUp, TakeLock, CheckAgain, Use
<1>6. LockGuards'
  <2>1. /\ pc \in {"check", "create"} => lockedBy' = {t}
        /\ pc = "create" => cached = 0
    <3>1. CASE LookUp(t)
      BY <1>1, <1>3, <3>1 DEF LookUp, Turns
    <3>2. CASE TakeLock(t)
      BY <1>1, <1>3, <3>2 DEF TakeLock, Turns
    <3>3. CASE CheckAgain(t)
      BY <1>1, <1>3, <3>3 DEF CheckAgain, Turns, LockGuards, Guarded
    <3>4. CASE Use(t)
      BY <1>1, <1>3, <3>4 DEF Use, Turns
    <3>5. QED
      BY <3>1, <3>2, <3>3, <3>4
  <2>2. \A s \in RouterThread \ {t} :
          caller[s].pc \in {"check", "create", "initialize", "clear"} => lockedBy' = lockedBy
    BY <1>1 DEF LookUp, TakeLock, CheckAgain, Use, LockGuards, Guarded
  <2>3. Guarded(t)'
    BY <1>2, <1>4, <2>1 DEF Guarded
  <2>4. \A s \in RouterThread \ {t} : Guarded(s)'
    BY <1>2, <1>4, <2>2 DEF LockGuards, Guarded
  <2>5. QED
    BY <1>1, <1>2, <1>4, <2>3, <2>4 DEF LockGuards
<1>7. NoBackendLeaks' /\ CachedIsOpen'
  BY <1>1, <1>2, <1>4 DEF NoBackendLeaks, CachedIsOpen, RouterThread
<1>8. QED
  BY <1>2, <1>4, <1>5, <1>6, <1>7

\* A backend is made, and initialized, under the lock, when none is cached.
LEMMA RouterCreates ==
  ASSUME RouterInv, NEW t \in RouterCaller, NEW ok \in BOOLEAN, NEW opened \in BOOLEAN,
         CreateBackend(t, ok) \/ InitializeBackend(t, ok, opened)
  PROVE  RouterInv'
<1> USE DEF RouterInv
<1>1. /\ t \in RouterThread /\ caller[t].pc \in {"create", "initialize"}
      /\ lockedBy = {t} /\ cached = 0 /\ cutShort' = cutShort
  BY DEF CreateBackend, InitializeBackend, RouterThread, LockGuards, Guarded
<1>2. \A s \in RouterThread \ {t} : caller[s].pc \notin {"check", "create", "initialize", "clear"}
  BY <1>1 DEF LockGuards, Guarded
<1>3. CASE CreateBackend(t, ok)
  <2>1. /\ cached' = cached /\ open' = open /\ strays' = strays /\ made < MaxBackends
        /\ made' \in {made, made + 1}
    BY <1>3 DEF CreateBackend
  <2>2. PICK pc \in {"away", "initialize"}, b \in 0..MaxBackends :
          /\ Turns(t, pc, b)
          /\ pc = "initialize" => b = made' /\ made' = made + 1 /\ lockedBy' = lockedBy
          /\ pc = "away" => made' = made /\ lockedBy' = {}
    BY <1>3, RouterAssumption DEF CreateBackend
  <2>3. /\ caller' \in [RouterThread -> RouterCalls]
        /\ caller'[t].pc = pc /\ caller'[t].backend = b
        /\ \A s \in RouterThread \ {t} : caller'[s] = caller[s]
    BY <1>1, <2>2, RouterTurns
  <2>4. /\ made' \in 0..MaxBackends /\ cached' \in 0..made' /\ open' \subseteq 1..made'
        /\ strays' \subseteq 1..made' /\ cutShort' \subseteq 1..made'
    BY <1>1, <2>1, RouterAssumption
  <2>5. lockedBy' = {} \/ lockedBy' = {t}
    BY <1>1, <2>2
  <2>6. LockGuards'
    <3>1. Guarded(t)'
      BY <1>1, <2>1, <2>2, <2>3, <2>4, RouterAssumption DEF Guarded
    <3>2. \A s \in RouterThread \ {t} : Guarded(s)'
      BY <1>2, <2>1, <2>3 DEF LockGuards, Guarded
    <3>3. \A s \in RouterThread \ {t} : caller[s].pc = "close" => caller[s].backend \in 1..made
      BY DEF LockGuards, Guarded
    <3>4. QED
      BY <1>2, <2>1, <2>2, <2>3, <3>1, <3>2, <3>3 DEF LockGuards
  <2>7. CachedIsOpen' /\ NoBackendLeaks'
    BY <1>1, <2>1, <2>3 DEF CachedIsOpen, NoBackendLeaks, RouterThread
  <2>8. QED
    BY <1>1, <2>3, <2>4, <2>5, <2>6, <2>7
<1>4. CASE InitializeBackend(t, ok, opened)
  <2>1. /\ caller[t].pc = "initialize" /\ caller[t].backend = made /\ made # 0
        /\ made' = made /\ lockedBy' = {}
    BY <1>1, <1>4 DEF InitializeBackend, LockGuards, Guarded
  <2>2. \/ /\ Turns(t, "use", made) /\ cached' = made /\ open' = open \union {made}
           /\ strays' = strays
        \/ /\ Turns(t, "away", 0) /\ cached' = cached /\ open' \ strays' \subseteq open \ strays
           /\ open' \subseteq open \union {made} /\ strays' \subseteq strays \union {made}
    BY <1>4, <2>1 DEF InitializeBackend
  <2>3. PICK pc \in {"away", "use"}, b \in 0..MaxBackends : Turns(t, pc, b)
    BY <2>2, RouterAssumption
  <2>4. /\ caller' \in [RouterThread -> RouterCalls] /\ caller'[t].pc = pc
        /\ \A s \in RouterThread \ {t} : caller'[s] = caller[s]
    BY <1>1, <2>3, RouterTurns
  <2>5. /\ made' \in 0..MaxBackends /\ cached' \in 0..made' /\ open' \subseteq 1..made'
        /\ strays' \subseteq 1..made' /\ cutShort' \subseteq 1..made'
    <3>1. {made} \subseteq 1..made
      BY <2>1, RouterAssumption
    <3>2. open' \subseteq open \union {made} /\ strays' \subseteq strays \union {made}
      BY <2>2
    <3>3. QED
      BY <1>1, <2>1, <2>2, <3>1, <3>2
  <2>6. LockGuards'
    <3>1. Guarded(t)'
      BY <2>4 DEF Guarded
    <3>2. ASSUME NEW s \in RouterThread \ {t} PROVE Guarded(s)'
      <4>1. caller'[s].pc = "close" => caller'[s].backend \in 1..made /\ caller'[s].backend # made
        BY <1>1, <2>1, <2>4 DEF LockGuards, Guarded
      <4>2. cached' \in {0, made}
        BY <1>1, <2>2
      <4>3. QED
        BY <1>2, <2>1, <2>4, <4>1, <4>2 DEF Guarded
    <3>3. QED
      BY <1>2, <2>4, <3>1, <3>2 DEF LockGuards
  <2>7. CachedIsOpen'
    BY <1>1, <2>2 DEF CachedIsOpen
  <2>8. NoBackendLeaks'
    <3> SUFFICES ASSUME NEW d \in open' \ strays'
                 PROVE  \/ cached' = d
                        \/ \E a \in Admin : caller'[a].pc = "close" /\ caller'[a].backend = d
      BY DEF NoBackendLeaks
    <3>1. CASE cached' = d
      BY <3>1
    <3>2. CASE cached' # d
      <4>1. d \in open \ strays
        BY <2>2, <3>2
      <4>2. d # cached
        BY <1>1, <4>1
      <4>3. PICK a \in Admin : caller[a].pc = "close" /\ caller[a].backend = d
        BY <4>1, <4>2 DEF NoBackendLeaks
      <4>4. a \in RouterThread \ {t}
        BY <2>1, <4>3 DEF RouterThread
      <4>5. QED
        BY <2>4, <4>3, <4>4
    <3>3. QED
      BY <3>1, <3>2
  <2>9. QED
    BY <2>1, <2>4, <2>5, <2>6, <2>7, <2>8
<1>5. QED
  BY <1>3, <1>4

\* teardown_tenant() takes the backend out while nobody is making one.
LEMMA RouterTearsDown ==
  ASSUME RouterInv, NEW a \in Admin, NEW ok \in BOOLEAN, PopBackend(a) \/ CloseBackend(a, ok)
  PROVE  RouterInv'
<1> USE DEF RouterInv
<1>0. a \in RouterThread
  BY DEF RouterThread
<1>1. CASE PopBackend(a)
  <2>1. /\ caller[a].pc = "away" /\ lockedBy = {} /\ cached # 0 /\ cached' = 0
        /\ made' = made /\ open' = open /\ lockedBy' = lockedBy
        /\ strays' = strays /\ cutShort' = cutShort
        /\ Turns(a, "close", cached) /\ cached \in 0..MaxBackends
    BY <1>1, RouterAssumption DEF PopBackend
  <2>2. /\ caller' \in [RouterThread -> RouterCalls]
        /\ caller'[a].pc = "close" /\ caller'[a].backend = cached
        /\ \A s \in RouterThread \ {a} : caller'[s] = caller[s]
    BY <1>0, <2>1, RouterTurns
  <2>3. \A s \in RouterThread : caller[s].pc \notin {"check", "create", "initialize", "clear"}
    BY <2>1 DEF LockGuards, Guarded
  <2>4. LockGuards'
    <3>1. \A s \in RouterThread : Guarded(s)'
      BY <2>1, <2>2, <2>3 DEF LockGuards, Guarded
    <3>2. QED
      BY <2>2, <2>3, <3>1 DEF LockGuards
  <2>5. CachedIsOpen' /\ NoBackendLeaks'
    BY <1>0, <2>1, <2>2 DEF CachedIsOpen, NoBackendLeaks, RouterThread
  <2>6. QED
    BY <2>1, <2>2, <2>4, <2>5
<1>2. CASE CloseBackend(a, ok)
  <2>1. /\ caller[a].pc = "close" /\ cached' = cached /\ made' = made /\ lockedBy' = lockedBy
        /\ cutShort' = cutShort /\ Turns(a, "away", 0)
        /\ open' \subseteq open /\ open' \ strays' = (open \ strays) \ {caller[a].backend}
        /\ strays' \subseteq strays \union open
        /\ \A b \in open : b = caller[a].backend \/ b \in open'
    BY <1>2 DEF CloseBackend
  <2>2. /\ caller' \in [RouterThread -> RouterCalls] /\ caller'[a].pc = "away"
        /\ \A s \in RouterThread \ {a} : caller'[s] = caller[s]
    BY <1>0, <2>1, RouterTurns, RouterAssumption
  <2>3. LockGuards'
    BY <2>1, <2>2 DEF LockGuards, Guarded
  <2>4. caller[a].backend # cached
    BY <1>0, <2>1 DEF LockGuards, Guarded
  <2>5. CachedIsOpen' /\ NoBackendLeaks'
    BY <1>0, <2>1, <2>2, <2>4 DEF CachedIsOpen, NoBackendLeaks, RouterThread
  <2>6. QED
    BY <2>1, <2>2, <2>3, <2>5
<1>3. QED
  BY <1>1, <1>2

\* close() holds the lock from its loop to its clear().
LEMMA RouterCloses ==
  ASSUME RouterInv, NEW a \in Admin, NEW ok \in BOOLEAN, CloseCached(a) \/ ClearCache(a, ok)
  PROVE  RouterInv'
<1> USE DEF RouterInv
<1>0. a \in RouterThread
  BY DEF RouterThread
<1>1. CASE CloseCached(a)
  <2>1. /\ caller[a].pc = "away" /\ lockedBy = {} /\ cached # 0 /\ cached' = cached
        /\ made' = made /\ open' = open \ {cached} /\ lockedBy' = {a}
        /\ strays' = strays /\ cutShort' = cutShort /\ Turns(a, "clear", 0)
    BY <1>1 DEF CloseCached
  <2>2. /\ caller' \in [RouterThread -> RouterCalls] /\ caller'[a].pc = "clear"
        /\ \A s \in RouterThread \ {a} : caller'[s] = caller[s]
    BY <1>0, <2>1, RouterTurns, RouterAssumption
  <2>3. \A s \in RouterThread : caller[s].pc \notin {"check", "create", "initialize", "clear"}
    BY <2>1 DEF LockGuards, Guarded
  <2>4. LockGuards'
    <3>1. Guarded(a)'
      BY <2>1, <2>2 DEF Guarded
    <3>2. \A s \in RouterThread \ {a} : Guarded(s)'
      BY <2>1, <2>2, <2>3 DEF LockGuards, Guarded
    <3>3. QED
      BY <2>2, <2>3, <3>1, <3>2 DEF LockGuards
  <2>5. CachedIsOpen' /\ NoBackendLeaks'
    BY <1>0, <2>1, <2>2 DEF CachedIsOpen, NoBackendLeaks, RouterThread
  <2>6. QED
    BY <1>0, <2>1, <2>2, <2>4, <2>5
<1>2. CASE ClearCache(a, ok)
  <2>1. /\ caller[a].pc = "clear" /\ made' = made /\ open' = open /\ lockedBy' = {}
        /\ strays' = strays /\ Turns(a, "away", 0)
        /\ \/ cached' = 0 /\ cutShort' = cutShort
           \/ cached' = cached /\ cutShort' = cutShort \union {cached}
    BY <1>2 DEF ClearCache
  <2>2. /\ caller' \in [RouterThread -> RouterCalls] /\ caller'[a].pc = "away"
        /\ \A s \in RouterThread \ {a} : caller'[s] = caller[s]
    BY <1>0, <2>1, RouterTurns, RouterAssumption
  <2>3. /\ cached # 0 /\ cached \notin open
        /\ \A s \in RouterThread \ {a} :
             caller[s].pc \notin {"check", "create", "initialize", "clear"}
    BY <1>0, <2>1 DEF LockGuards, Guarded
  <2>4. LockGuards'
    BY <2>1, <2>2, <2>3 DEF LockGuards, Guarded
  <2>5. CachedIsOpen' /\ NoBackendLeaks'
    BY <1>0, <2>1, <2>2, <2>3 DEF CachedIsOpen, NoBackendLeaks, RouterThread
  <2>6. /\ cached' \in 0..made /\ cutShort' \subseteq 1..made
    <3>1. cached \in 1..made
      BY <2>3
    <3>2. cutShort' \subseteq cutShort \union {cached} /\ cached' \in {0, cached}
      BY <2>1
    <3>3. 0 \in 0..made
      BY RouterAssumption
    <3>4. QED
      BY <3>1, <3>2, <3>3
  <2>7. QED
    BY <2>1, <2>2, <2>4, <2>5, <2>6
<1>3. QED
  BY <1>1, <1>2

\* Every step of the router keeps the invariant.
LEMMA RouterStep == RouterInv /\ [RouterNext]_routerVars => RouterInv'
<1> SUFFICES ASSUME RouterInv, [RouterNext]_routerVars PROVE RouterInv'
  OBVIOUS
<1>1. CASE RouterNext
  BY <1>1, RouterIdle, RouterCreates, RouterTearsDown, RouterCloses DEF RouterNext
<1>2. CASE UNCHANGED routerVars
  BY <1>2 DEF routerVars, RouterInv, LockGuards, Guarded, CachedIsOpen, NoBackendLeaks
<1>3. QED
  BY <1>1, <1>2

\* The invariant implies the type invariant.
LEMMA RouterTyped == RouterInv => RouterTypeOK
<1> SUFFICES ASSUME RouterInv PROVE RouterTypeOK
  OBVIOUS
<1>1. Cardinality(lockedBy) <= 1
  <2>1. Cardinality({}) = 0
    BY FS_EmptySet
  <2>2. \A t \in RouterThread : Cardinality({t}) = 1
    BY FS_Singleton
  <2>3. QED
    BY <2>1, <2>2 DEF RouterInv
<1>2. QED
  BY <1>1, RouterAssumption DEF RouterInv, RouterTypeOK

\* TenantRouter: whatever callers, creations that fail, teardowns and close() do to
\* each other, the cached backend of a tenant is open, unless close() is at it or
\* was cut short; and no open backend is out of reach of both the cache and the
\* thread that will close it, but those that an initialize() or a close() that
\* raised left open.
THEOREM RouterKeepsBackends == RouterSpec => [](CachedIsOpen /\ NoBackendLeaks)
<1>1. RouterInv => CachedIsOpen /\ NoBackendLeaks
  BY DEF RouterInv
<1>2. QED
  BY <1>1, RouterStart, RouterStep, PTL DEF RouterSpec

-----------------------------------------------------------------------------
(* Plugins.                                                                *)

PluginState == {"none", "installed", "active", "suspended", "uninstalled"}
HostCall ==
  [pc : {"done", "write", "permissions", "hooks", "insert", "dispatch", "access", "handle"},
   to : {"none", "active", "suspended", "uninstalled"}, hook : Hook \union {0}, left : SUBSET Hook,
   live : BOOLEAN, allowed : BOOLEAN, ran : BOOLEAN, calm : BOOLEAN]

PluginsTyped ==
  /\ plugin \in PluginState
  /\ hookRow \in [Hook -> {"none", "ACTIVE", "ARCHIVED"}]
  /\ grants \in Nat /\ granted \in Nat /\ grants <= granted /\ granted <= MaxGrants
  /\ enforcing \in BOOLEAN /\ removed \in BOOLEAN
  /\ host \in [Host -> HostCall]
  /\ hostDeaths \in 0..MaxHostDeaths

\* What a dispatch in this call has made sure of.
CallKnows(c) ==
  /\ c.ran = TRUE => c.live = TRUE /\ (enforcing = TRUE => c.allowed = TRUE)
  /\ c.pc \in {"dispatch", "access", "handle"} =>
       (plugin = "active" => c.live = TRUE) /\ (grants > 0 => c.allowed = TRUE)
  /\ c.pc \in {"access", "handle"} => c.live = TRUE
  /\ c.pc = "handle" => (enforcing = TRUE => c.allowed = TRUE)
  /\ c.pc = "write" => c.to # "none"

\* The plugin is uninstalled, and nobody is about to write or to add a hook.
Gone == plugin = "uninstalled" /\ \A u \in Host : host[u].pc \notin {"write", "insert"}

RemovalKnown ==
  /\ \A t \in Host : host[t].pc \in {"permissions", "hooks"} /\ host[t].to = "uninstalled"
                     /\ host[t].calm = TRUE => Gone
  /\ removed = TRUE => Gone /\ \A h \in Hook : hookRow[h] # "ACTIVE"

PluginsInv == PluginsTyped /\ (\A t \in Host : CallKnows(host[t])) /\ RemovalKnown

\* A thread in no call.
LEMMA HostingKnows ==
  /\ Hosting \in HostCall /\ Hosting.pc = "done" /\ Hosting.ran = FALSE
  /\ Hosting.hook = 0 /\ Hosting.left = {} /\ CallKnows(Hosting)
<1>1. /\ Hosting \in HostCall /\ Hosting.pc = "done" /\ Hosting.ran = FALSE
      /\ Hosting.hook = 0 /\ Hosting.left = {}
  BY DEF Hosting, HostCall
<1>2. QED
  BY <1>1 DEF CallKnows

\* The invariant holds at the start.
LEMMA PluginsStart == PluginsInit => PluginsInv
<1> SUFFICES ASSUME PluginsInit PROVE PluginsInv
  OBVIOUS
<1>1. host \in [Host -> HostCall] /\ \A t \in Host : host[t] = Hosting
  BY HostingKnows DEF PluginsInit
<1>2. PluginsTyped
  <2>1. /\ grants \in Nat /\ granted \in Nat /\ grants <= granted /\ granted <= MaxGrants
        /\ hostDeaths \in 0..MaxHostDeaths
    BY PluginsAssumption DEF PluginsInit
  <2>2. enforcing \in BOOLEAN /\ removed \in BOOLEAN
    BY DEF PluginsInit
  <2>3. plugin \in PluginState /\ hookRow \in [Hook -> {"none", "ACTIVE", "ARCHIVED"}]
    BY DEF PluginsInit, PluginState
  <2>4. QED
    BY <1>1, <2>1, <2>2, <2>3 DEF PluginsTyped
<1>3. QED
  BY <1>1, <1>2, HostingKnows DEF PluginsInit, PluginsInv, RemovalKnown

\* One thread goes on, and perhaps a hook or a permission goes.
LEMMA HostMoves ==
  ASSUME PluginsInv, NEW t \in Host, NEW c \in HostCall, host' = [host EXCEPT ![t] = c],
         UNCHANGED <<plugin, granted, enforcing>>, CallKnows(c),
         grants' \in {grants, 0}, hostDeaths' \in 0..MaxHostDeaths, removed' \in BOOLEAN,
         hookRow' \in [Hook -> {"none", "ACTIVE", "ARCHIVED"}],
         c.pc \in {"write", "insert"} => host[t].pc \in {"write", "insert"} \/ plugin # "uninstalled",
         c.pc \in {"permissions", "hooks"} =>
           c.to = host[t].to /\ c.calm = host[t].calm /\ host[t].pc \in {"permissions", "hooks"},
         removed' = TRUE =>
           /\ removed = TRUE \/ Gone
           /\ \A h \in Hook : hookRow'[h] # "ACTIVE"
  PROVE  PluginsInv'
<1>1. /\ host' \in [Host -> HostCall] /\ host'[t] = c
      /\ \A u \in Host \ {t} : host'[u] = host[u]
  BY DEF PluginsInv, PluginsTyped
<1>2. grants \in Nat /\ granted \in Nat /\ grants' \in Nat /\ grants' <= granted
      /\ (grants' > 0 => grants > 0)
  BY DEF PluginsInv, PluginsTyped
<1>3. PluginsTyped'
  BY <1>1, <1>2 DEF PluginsInv, PluginsTyped
<1>4. ASSUME NEW d, CallKnows(d) PROVE CallKnows(d)'
  BY <1>2, <1>4 DEF CallKnows
<1>5. \A u \in Host : CallKnows(host[u])'
  <2>1. \A u \in Host : CallKnows(host[u])
    BY DEF PluginsInv
  <2>2. QED
    BY <1>1, <1>4, <2>1
<1>6. Gone => Gone'
  BY <1>1 DEF Gone
<1>7. RemovalKnown'
  BY <1>1, <1>6 DEF PluginsInv, RemovalKnown
<1>8. QED
  BY <1>3, <1>5, <1>7 DEF PluginsInv

\* After its first hook a dispatch has made sure of the same.
LEMMA OnwardKnows ==
  ASSUME NEW c \in HostCall, CallKnows(c), c.pc \in {"dispatch", "access", "handle"}
  PROVE  /\ Onward(c) \in HostCall /\ CallKnows(Onward(c))
         /\ Onward(c).pc \in {"done", "dispatch"}
<1> DEFINE left == c.left \ {Max(c.left)}
<1>1. left \in SUBSET Hook
  BY DEF HostCall
<1> DEFINE e == [Hosting EXCEPT !.ran = c.ran, !.live = c.live, !.allowed = c.allowed]
<1> DEFINE g == [c EXCEPT !.pc = "dispatch", !.left = left]
<1>2. Onward(c) = IF left = {} THEN e ELSE g
  BY DEF Onward
<1>3. c.ran \in BOOLEAN /\ c.live \in BOOLEAN /\ c.allowed \in BOOLEAN
  BY DEF HostCall
<1>4. e \in HostCall /\ e.pc = "done" /\ e.ran = c.ran /\ e.live = c.live /\ e.allowed = c.allowed
  BY <1>3, HostingKnows DEF HostCall
<1> HIDE DEF left
<1>5. g \in HostCall /\ g.pc = "dispatch" /\ g.ran = c.ran /\ g.live = c.live /\ g.allowed = c.allowed
  BY <1>1 DEF HostCall
<1> HIDE DEF e, g
<1>6. CallKnows(e)
  BY <1>4 DEF CallKnows
<1>7. CallKnows(g)
  BY <1>5 DEF CallKnows
<1>8. QED
  BY <1>2, <1>4, <1>5, <1>6, <1>7

\* What a dispatch has seen, after the row or the permissions changed.
LEMMA NotingKnows ==
  ASSUME PluginsInv, NEW p \in PluginState, NEW g \in Nat
  PROVE  /\ Noting(p, g) \in [Host -> HostCall]
         /\ \A u \in Host :
              LET d == Noting(p, g)[u] IN
              /\ d.pc = host[u].pc /\ d.to = host[u].to /\ d.calm = host[u].calm
              /\ d.ran = TRUE => d.live = TRUE /\ (enforcing = TRUE => d.allowed = TRUE)
              /\ d.pc \in {"dispatch", "access", "handle"} =>
                   (p = "active" => d.live = TRUE) /\ (g > 0 => d.allowed = TRUE)
              /\ d.pc \in {"access", "handle"} => d.live = TRUE
              /\ d.pc = "handle" => (enforcing = TRUE => d.allowed = TRUE)
              /\ d.pc = "write" => d.to # "none"
<1>1. ASSUME NEW u \in Host
      PROVE /\ Noting(p, g)[u] \in HostCall
            /\ LET d == Noting(p, g)[u] IN
               /\ d.pc = host[u].pc /\ d.to = host[u].to /\ d.calm = host[u].calm
               /\ d.ran = TRUE => d.live = TRUE /\ (enforcing = TRUE => d.allowed = TRUE)
               /\ d.pc \in {"dispatch", "access", "handle"} =>
                    (p = "active" => d.live = TRUE) /\ (g > 0 => d.allowed = TRUE)
               /\ d.pc \in {"access", "handle"} => d.live = TRUE
               /\ d.pc = "handle" => (enforcing = TRUE => d.allowed = TRUE)
               /\ d.pc = "write" => d.to # "none"
  <2> DEFINE c == host[u]
  <2>1. c \in HostCall /\ CallKnows(c)
    BY DEF PluginsInv, PluginsTyped
  <2>2. Noting(p, g)[u] = IF c.pc \in {"dispatch", "access", "handle"}
                          THEN [c EXCEPT !.live = @ \/ p = "active", !.allowed = @ \/ g > 0] ELSE c
    BY DEF Noting
  <2> HIDE DEF c
  <2>3. CASE c.pc \notin {"dispatch", "access", "handle"}
    BY <2>1, <2>2, <2>3 DEF CallKnows, c
  <2>4. CASE c.pc \in {"dispatch", "access", "handle"}
    <3> DEFINE l == (c.live \/ p = "active")
    <3> DEFINE a == (c.allowed \/ g > 0)
    <3> DEFINE d == [c EXCEPT !.live = l, !.allowed = a]
    <3>1. Noting(p, g)[u] = d
      BY <2>2, <2>4
    <3>2. l \in BOOLEAN /\ a \in BOOLEAN
      OBVIOUS
    <3>3. c.live \in BOOLEAN /\ c.allowed \in BOOLEAN
      BY <2>1 DEF HostCall
    <3>4. /\ (c.live = TRUE => l = TRUE) /\ (p = "active" => l = TRUE)
          /\ (c.allowed = TRUE => a = TRUE) /\ (g > 0 => a = TRUE)
      BY <3>3
    <3> HIDE DEF l, a
    <3>5. /\ d \in HostCall /\ d.pc = c.pc /\ d.to = c.to /\ d.calm = c.calm /\ d.ran = c.ran
          /\ d.live = l /\ d.allowed = a
      BY <2>1, <3>2 DEF HostCall
    <3> HIDE DEF d
    <3>6. QED
      BY <2>1, <2>4, <3>1, <3>4, <3>5 DEF CallKnows, c
  <2>5. QED
    BY <2>3, <2>4
<1>2. Noting(p, g) \in [Host -> HostCall]
  BY <1>1 DEF Noting
<1>3. QED
  BY <1>1, <1>2

\* A transition is written: whoever dispatches takes note.
LEMMA PluginWritten ==
  ASSUME PluginsInv, NEW t \in Host, WritePluginState(t)
  PROVE  PluginsInv'
<1> DEFINE to == host[t].to
<1> DEFINE calm == \A u \in Host \ {t} : host[u].pc \notin {"write", "insert"}
<1> DEFINE c == IF AfterWrite(to) = "done" THEN Hosting
                ELSE [host[t] EXCEPT !.pc = AfterWrite(to), !.calm = calm]
<1>0. /\ host[t] \in HostCall /\ CallKnows(host[t]) /\ host[t].pc = "write"
      /\ grants \in Nat
  BY DEF PluginsInv, PluginsTyped, WritePluginState
<1>1. to \in {"active", "suspended", "uninstalled"}
  BY <1>0 DEF CallKnows, HostCall
<1>2. /\ plugin' = to /\ host' = [Noting(to, grants) EXCEPT ![t] = c]
      /\ UNCHANGED <<hookRow, grants, granted, enforcing, hostDeaths, removed>>
  BY DEF WritePluginState
<1>3. /\ to = "active" => AfterWrite(to) = "done"
      /\ to = "suspended" => AfterWrite(to) = "hooks"
      /\ to = "uninstalled" => AfterWrite(to) = "permissions"
  BY DEF AfterWrite
<1>4. to \in PluginState
  BY <1>1 DEF PluginState
<1>5. /\ c \in HostCall /\ c.pc \in {"done", "hooks", "permissions"}
      /\ c.pc \in {"hooks", "permissions"} => c.to = to /\ c.calm = calm
      /\ c.ran = TRUE => c.live = TRUE /\ (enforcing = TRUE => c.allowed = TRUE)
  <2>1. CASE AfterWrite(to) = "done"
    BY <2>1, HostingKnows
  <2>2. CASE AfterWrite(to) # "done"
    <3>1. calm \in BOOLEAN /\ AfterWrite(to) \in {"hooks", "permissions"}
      BY <1>1, <1>3, <2>2
    <3>2. c = [host[t] EXCEPT !.pc = AfterWrite(to), !.calm = calm]
      BY <2>2
    <3> HIDE DEF calm
    <3>3. /\ c \in HostCall /\ c.pc = AfterWrite(to) /\ c.to = to /\ c.calm = calm
          /\ c.ran = host[t].ran /\ c.live = host[t].live /\ c.allowed = host[t].allowed
      BY <1>0, <3>1, <3>2 DEF HostCall
    <3> HIDE DEF c
    <3>4. QED
      BY <1>0, <3>1, <3>3 DEF CallKnows
  <2>3. QED
    BY <2>1, <2>2
<1> DEFINE N == Noting(to, grants)
<1>6. N \in [Host -> HostCall] /\ host' = [N EXCEPT ![t] = c]
  BY <1>0, <1>2, <1>4, NotingKnows
<1>7. \A u \in Host :
        /\ N[u].pc = host[u].pc /\ N[u].to = host[u].to /\ N[u].calm = host[u].calm
        /\ N[u].ran = TRUE => N[u].live = TRUE /\ (enforcing = TRUE => N[u].allowed = TRUE)
        /\ N[u].pc \in {"dispatch", "access", "handle"} =>
             (to = "active" => N[u].live = TRUE) /\ (grants > 0 => N[u].allowed = TRUE)
        /\ N[u].pc \in {"access", "handle"} => N[u].live = TRUE
        /\ N[u].pc = "handle" => (enforcing = TRUE => N[u].allowed = TRUE)
        /\ N[u].pc = "write" => N[u].to # "none"
  BY <1>0, <1>4, NotingKnows
<1> HIDE DEF N, c
<1>8. /\ host' \in [Host -> HostCall] /\ host'[t] = c
      /\ \A u \in Host \ {t} : host'[u] = N[u]
  BY <1>5, <1>6
<1>9. PluginsTyped'
  BY <1>2, <1>4, <1>8 DEF PluginsInv, PluginsTyped
<1>10. \A u \in Host : CallKnows(host[u])'
  <2>1. CallKnows(host[t])'
    BY <1>2, <1>5, <1>8 DEF CallKnows
  <2>2. ASSUME NEW u \in Host \ {t} PROVE CallKnows(host[u])'
    BY <1>2, <1>7, <1>8 DEF CallKnows
  <2>3. QED
    BY <2>1, <2>2
<1>11. ~Gone
  BY <1>0 DEF Gone
<1>12. RemovalKnown'
  <2>1. removed = FALSE
    BY <1>11 DEF PluginsInv, PluginsTyped, RemovalKnown
  <2>2. \A u \in Host \ {t} : ~(host[u].pc \in {"permissions", "hooks"} /\ host[u].to = "uninstalled"
                               /\ host[u].calm = TRUE)
    BY <1>11 DEF PluginsInv, RemovalKnown
  <2>3. ASSUME c.pc \in {"permissions", "hooks"}, c.to = "uninstalled", c.calm = TRUE PROVE Gone'
    <3>1. calm /\ to = "uninstalled"
      BY <1>5, <2>3
    <3>2. \A u \in Host : host'[u].pc \notin {"write", "insert"}
      BY <1>5, <1>7, <1>8, <3>1
    <3>3. QED
      BY <1>2, <3>1, <3>2 DEF Gone
  <2>4. \A u \in Host \ {t} : ~(host'[u].pc \in {"permissions", "hooks"} /\ host'[u].to = "uninstalled"
                               /\ host'[u].calm = TRUE)
    BY <1>7, <1>8, <2>2
  <2>5. \A u \in Host : host'[u].pc \in {"permissions", "hooks"} /\ host'[u].to = "uninstalled"
                        /\ host'[u].calm = TRUE => Gone'
    <3> HIDE DEF calm, to
    <3>1. QED
      BY <1>8, <2>3, <2>4
  <2>6. removed' = FALSE
    BY <1>2, <2>1
  <2>7. QED
    BY <2>5, <2>6 DEF RemovalKnown
<1>13. QED
  BY <1>9, <1>10, <1>12 DEF PluginsInv

\* The plugin's row, its permissions and its hooks, apart from the calls.
LEMMA PluginTables ==
  ASSUME PluginsInv, InstallPlugin \/ GrantPermission \/ RevokePermission \/ \E h \in Hook : DeactivateHook(h)
  PROVE  PluginsInv'
<1>0. grants \in Nat /\ granted \in Nat /\ grants <= granted /\ granted <= MaxGrants /\ MaxGrants \in Nat
      /\ plugin \in PluginState /\ \A u \in Host : CallKnows(host[u])
  BY PluginsAssumption DEF PluginsInv, PluginsTyped
<1>1. CASE InstallPlugin
  <2>1. plugin = "none" /\ plugin' = "installed"
        /\ UNCHANGED <<hookRow, grants, granted, enforcing, host, hostDeaths, removed>>
    BY <1>1 DEF InstallPlugin
  <2>2. PluginsTyped'
    BY <2>1 DEF PluginsInv, PluginsTyped, PluginState
  <2>3. \A u \in Host : CallKnows(host[u])'
    BY <1>0, <2>1 DEF CallKnows
  <2>4. RemovalKnown'
    BY <2>1 DEF PluginsInv, RemovalKnown, Gone
  <2>5. QED
    BY <2>2, <2>3, <2>4 DEF PluginsInv
<1>2. CASE GrantPermission
  <2> DEFINE N == Noting(plugin, grants + 1)
  <2>1. /\ granted < MaxGrants /\ grants' = grants + 1 /\ granted' = granted + 1 /\ host' = N
        /\ UNCHANGED <<plugin, hookRow, enforcing, hostDeaths, removed>>
    BY <1>2 DEF GrantPermission
  <2>2. grants + 1 \in Nat
    BY <1>0
  <2>3. N \in [Host -> HostCall]
    BY <1>0, <2>2, NotingKnows
  <2>4. \A u \in Host :
        /\ N[u].pc = host[u].pc /\ N[u].to = host[u].to /\ N[u].calm = host[u].calm
        /\ N[u].ran = TRUE => N[u].live = TRUE /\ (enforcing = TRUE => N[u].allowed = TRUE)
        /\ N[u].pc \in {"dispatch", "access", "handle"} =>
             (plugin = "active" => N[u].live = TRUE) /\ (grants + 1 > 0 => N[u].allowed = TRUE)
        /\ N[u].pc \in {"access", "handle"} => N[u].live = TRUE
        /\ N[u].pc = "handle" => (enforcing = TRUE => N[u].allowed = TRUE)
        /\ N[u].pc = "write" => N[u].to # "none"
    BY <1>0, <2>2, NotingKnows
  <2> HIDE DEF N
  <2>5. PluginsTyped'
    <3>1. grants' \in Nat /\ granted' \in Nat /\ grants' <= granted' /\ granted' <= MaxGrants
      BY <1>0, <2>1
    <3>2. QED
      BY <2>1, <2>3, <3>1 DEF PluginsInv, PluginsTyped
  <2>6. \A u \in Host : CallKnows(host[u])'
    BY <2>1, <2>4 DEF CallKnows
  <2>7. RemovalKnown'
    BY <2>1, <2>4 DEF PluginsInv, RemovalKnown, Gone
  <2>8. QED
    BY <2>5, <2>6, <2>7 DEF PluginsInv
<1>3. CASE RevokePermission
  <2>1. grants > 0 /\ grants' = grants - 1
        /\ UNCHANGED <<plugin, hookRow, granted, enforcing, host, hostDeaths, removed>>
    BY <1>3 DEF RevokePermission
  <2>2. grants' \in Nat /\ grants' <= granted
    BY <1>0, <2>1
  <2>3. PluginsTyped'
    BY <2>1, <2>2 DEF PluginsInv, PluginsTyped
  <2>4. \A u \in Host : CallKnows(host[u])'
    BY <1>0, <2>1 DEF CallKnows
  <2>5. RemovalKnown'
    BY <2>1 DEF PluginsInv, RemovalKnown, Gone
  <2>6. QED
    BY <2>3, <2>4, <2>5 DEF PluginsInv
<1>4. ASSUME NEW h \in Hook, DeactivateHook(h) PROVE PluginsInv'
  <2>1. hookRow' = [hookRow EXCEPT ![h] = "ARCHIVED"]
        /\ UNCHANGED <<plugin, grants, granted, enforcing, host, hostDeaths, removed>>
    BY <1>4 DEF DeactivateHook
  <2>2. hookRow' \in [Hook -> {"none", "ACTIVE", "ARCHIVED"}]
        /\ \A k \in Hook : hookRow'[k] = "ACTIVE" => hookRow[k] = "ACTIVE"
    BY <2>1 DEF PluginsInv, PluginsTyped
  <2>3. PluginsTyped'
    BY <2>1, <2>2 DEF PluginsInv, PluginsTyped
  <2>4. \A u \in Host : CallKnows(host[u])'
    BY <1>0, <2>1 DEF CallKnows
  <2>5. RemovalKnown'
    BY <2>1, <2>2 DEF PluginsInv, RemovalKnown, Gone
  <2>6. QED
    BY <2>3, <2>4, <2>5 DEF PluginsInv
<1>5. QED
  BY <1>1, <1>2, <1>3, <1>4

\* The calls of one thread.
LEMMA HostSteps ==
  ASSUME PluginsInv, NEW t \in Host
  PROVE  /\ \A to \in {"active", "suspended", "uninstalled"} : CheckTransitionOf(t, to) => PluginsInv'
         /\ RevokePermissions(t) => PluginsInv'
         /\ ArchiveHooks(t) => PluginsInv'
         /\ \A h \in Hook : RegisterChecks(t, h) => PluginsInv'
         /\ RegisterHook(t) => PluginsInv'
         /\ Dispatch(t) => PluginsInv'
         /\ RequireActive(t) => PluginsInv'
         /\ CheckHookAccess(t) => PluginsInv'
         /\ CallHandler(t) => PluginsInv'
         /\ HostDies(t) => PluginsInv'
<1> DEFINE c0 == host[t]
<1>0. /\ c0 \in HostCall /\ CallKnows(c0) /\ plugin \in PluginState /\ grants \in Nat
      /\ hookRow \in [Hook -> {"none", "ACTIVE", "ARCHIVED"}] /\ hostDeaths \in 0..MaxHostDeaths
      /\ removed \in BOOLEAN /\ enforcing \in BOOLEAN
  BY DEF PluginsInv, PluginsTyped
<1>a. /\ Hosting \in HostCall /\ Hosting.pc = "done" /\ Hosting.ran = FALSE /\ CallKnows(Hosting)
  BY HostingKnows
<1>b. removed = TRUE => Gone /\ \A h \in Hook : hookRow[h] # "ACTIVE"
  BY DEF PluginsInv, RemovalKnown
<1>c. ASSUME NEW c \in HostCall, host' = [host EXCEPT ![t] = c],
             UNCHANGED <<plugin, hookRow, grants, granted, enforcing, hostDeaths, removed>>, CallKnows(c),
             c.pc \in {"write", "insert"} => plugin # "uninstalled",
             c.pc \notin {"permissions", "hooks"}
      PROVE PluginsInv'
  BY <1>0, <1>b, <1>c, HostMoves
<1>1. ASSUME NEW to \in {"active", "suspended", "uninstalled"}, CheckTransitionOf(t, to) PROVE PluginsInv'
  <2> DEFINE c == [Hosting EXCEPT !.pc = "write", !.to = to]
  <2>1. /\ host' = [host EXCEPT ![t] = c] /\ to \in ValidPluginTransition[plugin]
        /\ UNCHANGED <<plugin, hookRow, grants, granted, enforcing, hostDeaths, removed>>
    BY <1>1 DEF CheckTransitionOf
  <2>2. plugin # "uninstalled"
    BY <2>1 DEF ValidPluginTransition
  <2>3. c \in HostCall /\ c.pc = "write" /\ c.to = to /\ c.ran = FALSE
    BY <1>a DEF HostCall
  <2> HIDE DEF c
  <2>4. CallKnows(c)
    BY <2>3 DEF CallKnows
  <2>5. QED
    BY <1>c, <2>1, <2>2, <2>3, <2>4
<1>2. ASSUME RevokePermissions(t) PROVE PluginsInv'
  <2> DEFINE c == [c0 EXCEPT !.pc = "hooks"]
  <2>1. /\ host' = [host EXCEPT ![t] = c] /\ grants' = 0 /\ host[t].pc = "permissions"
        /\ UNCHANGED <<plugin, hookRow, granted, enforcing, hostDeaths, removed>>
    BY <1>2 DEF RevokePermissions
  <2>2. /\ c \in HostCall /\ c.pc = "hooks" /\ c.to = host[t].to /\ c.calm = host[t].calm
        /\ c.ran = c0.ran /\ c.live = c0.live /\ c.allowed = c0.allowed
    BY <1>0 DEF HostCall
  <2>3. CallKnows(c)
    <3> HIDE DEF c
    <3>1. QED
      BY <1>0, <2>2 DEF CallKnows
  <2> HIDE DEF c
  <2>4. QED
    BY <1>0, <1>b, <2>1, <2>2, <2>3, HostMoves
<1>3. ASSUME ArchiveHooks(t) PROVE PluginsInv'
  <2>1. /\ host' = [host EXCEPT ![t] = Hosting] /\ host[t].pc = "hooks"
        /\ hookRow' = [h \in Hook |-> IF hookRow[h] = "ACTIVE" THEN "ARCHIVED" ELSE hookRow[h]]
        /\ removed' = (removed \/ (host[t].to = "uninstalled" /\ host[t].calm))
        /\ UNCHANGED <<plugin, grants, granted, enforcing, hostDeaths>>
    BY <1>3 DEF ArchiveHooks
  <2>2. /\ hookRow' \in [Hook -> {"none", "ACTIVE", "ARCHIVED"}]
        /\ \A h \in Hook : hookRow'[h] # "ACTIVE"
    BY <1>0, <2>1
  <2>3. removed' \in BOOLEAN /\ (removed' = TRUE =>
          removed = TRUE \/ (host[t].to = "uninstalled" /\ host[t].calm = TRUE))
    <3>1. host[t].calm \in BOOLEAN
      BY <1>0 DEF HostCall
    <3>2. QED
      BY <1>0, <2>1, <3>1
  <2>4. removed' = TRUE => removed = TRUE \/ Gone
    BY <2>1, <2>3 DEF PluginsInv, RemovalKnown
  <2>5. QED
    BY <1>0, <1>a, <2>1, <2>2, <2>3, <2>4, HostMoves
<1>4. ASSUME NEW h \in Hook, RegisterChecks(t, h) PROVE PluginsInv'
  <2> DEFINE c == [Hosting EXCEPT !.pc = "insert", !.hook = h]
  <2>1. /\ host' = [host EXCEPT ![t] = c] /\ plugin # "uninstalled"
        /\ UNCHANGED <<plugin, hookRow, grants, granted, enforcing, hostDeaths, removed>>
    BY <1>4 DEF RegisterChecks, TakesHooks
  <2>2. c \in HostCall /\ c.pc = "insert" /\ c.ran = FALSE
    BY <1>a DEF HostCall
  <2> HIDE DEF c
  <2>3. CallKnows(c)
    BY <2>2 DEF CallKnows
  <2>4. QED
    BY <1>c, <2>1, <2>2, <2>3
<1>5. ASSUME RegisterHook(t) PROVE PluginsInv'
  <2>1. /\ host' = [host EXCEPT ![t] = Hosting] /\ host[t].pc = "insert"
        /\ hookRow' = [hookRow EXCEPT ![host[t].hook] = "ACTIVE"]
        /\ UNCHANGED <<plugin, grants, granted, enforcing, hostDeaths, removed>>
    BY <1>5 DEF RegisterHook
  <2>2. hookRow' \in [Hook -> {"none", "ACTIVE", "ARCHIVED"}]
    BY <1>0, <2>1
  <2>3. removed = FALSE
    BY <1>0, <1>b, <2>1 DEF Gone
  <2>4. QED
    BY <1>0, <1>a, <2>1, <2>2, <2>3, HostMoves
<1>6. ASSUME Dispatch(t) PROVE PluginsInv'
  <2> DEFINE a == (plugin = "active")
  <2> DEFINE g == (grants > 0)
  <2> DEFINE c == [Hosting EXCEPT !.pc = "dispatch", !.left = GetHooksForPoint, !.live = a, !.allowed = g]
  <2>1. /\ host' = [host EXCEPT ![t] = c]
        /\ UNCHANGED <<plugin, hookRow, grants, granted, enforcing, hostDeaths, removed>>
    BY <1>6 DEF Dispatch
  <2>2. a \in BOOLEAN /\ g \in BOOLEAN /\ GetHooksForPoint \in SUBSET Hook
    BY DEF GetHooksForPoint
  <2>3. (plugin = "active" => a = TRUE) /\ (grants > 0 => g = TRUE)
    OBVIOUS
  <2> HIDE DEF a, g
  <2>4. c \in HostCall /\ c.pc = "dispatch" /\ c.live = a /\ c.allowed = g /\ c.ran = FALSE
    BY <1>a, <2>2 DEF HostCall
  <2> HIDE DEF c
  <2>5. CallKnows(c)
    BY <2>3, <2>4 DEF CallKnows
  <2>6. QED
    BY <1>c, <2>1, <2>4, <2>5
<1>7. ASSUME RequireActive(t) PROVE PluginsInv'
  <2>1. /\ c0.pc = "dispatch"
        /\ host' = [host EXCEPT ![t] = IF plugin # "active" THEN Onward(c0)
                                 ELSE [c0 EXCEPT !.pc = IF enforcing THEN "access" ELSE "handle"]]
        /\ UNCHANGED <<plugin, hookRow, grants, granted, enforcing, hostDeaths, removed>>
    BY <1>7 DEF RequireActive
  <2>2. CASE plugin # "active"
    <3>1. host' = [host EXCEPT ![t] = Onward(c0)]
      BY <2>1, <2>2
    <3>2. Onward(c0) \in HostCall /\ CallKnows(Onward(c0)) /\ Onward(c0).pc \in {"done", "dispatch"}
      BY <1>0, <2>1, OnwardKnows
    <3>3. QED
      BY <1>c, <2>1, <3>1, <3>2
  <2>3. CASE plugin = "active"
    <3> DEFINE p == IF enforcing THEN "access" ELSE "handle"
    <3> DEFINE c == [c0 EXCEPT !.pc = p]
    <3>1. host' = [host EXCEPT ![t] = c]
      BY <2>1, <2>3
    <3>2. p \in {"access", "handle"} /\ (p = "handle" => enforcing = FALSE)
      BY <1>0
    <3> HIDE DEF p
    <3>3. /\ c \in HostCall /\ c.pc = p /\ c.live = c0.live /\ c.allowed = c0.allowed /\ c.ran = c0.ran
      BY <1>0, <3>2 DEF HostCall
    <3>4. CallKnows(c)
      <4> HIDE DEF c
      <4>1. QED
        BY <1>0, <2>1, <2>3, <3>2, <3>3 DEF CallKnows
    <3> HIDE DEF c
    <3>5. QED
      BY <1>c, <2>1, <3>1, <3>2, <3>3, <3>4
  <2>4. QED
    BY <2>2, <2>3
<1>8. ASSUME CheckHookAccess(t) PROVE PluginsInv'
  <2>1. /\ c0.pc = "access"
        /\ host' = [host EXCEPT ![t] = IF grants = 0 THEN Onward(c0) ELSE [c0 EXCEPT !.pc = "handle"]]
        /\ UNCHANGED <<plugin, hookRow, grants, granted, enforcing, hostDeaths, removed>>
    BY <1>8 DEF CheckHookAccess
  <2>2. CASE grants = 0
    <3>1. host' = [host EXCEPT ![t] = Onward(c0)]
      BY <2>1, <2>2
    <3>2. Onward(c0) \in HostCall /\ CallKnows(Onward(c0)) /\ Onward(c0).pc \in {"done", "dispatch"}
      BY <1>0, <2>1, OnwardKnows
    <3>3. QED
      BY <1>c, <2>1, <3>1, <3>2
  <2>3. CASE grants # 0
    <3> DEFINE c == [c0 EXCEPT !.pc = "handle"]
    <3>1. host' = [host EXCEPT ![t] = c] /\ grants > 0
      BY <1>0, <2>1, <2>3
    <3>2. /\ c \in HostCall /\ c.pc = "handle" /\ c.live = c0.live /\ c.allowed = c0.allowed /\ c.ran = c0.ran
      BY <1>0 DEF HostCall
    <3>3. CallKnows(c)
      <4> HIDE DEF c
      <4>1. QED
        BY <1>0, <2>1, <3>1, <3>2 DEF CallKnows
    <3> HIDE DEF c
    <3>4. QED
      BY <1>c, <2>1, <3>1, <3>2, <3>3
  <2>4. QED
    BY <2>2, <2>3
<1>9. ASSUME CallHandler(t) PROVE PluginsInv'
  <2> DEFINE d == [c0 EXCEPT !.ran = TRUE]
  <2> DEFINE e == [Hosting EXCEPT !.ran = TRUE, !.live = c0.live, !.allowed = c0.allowed]
  <2>1. /\ c0.pc = "handle"
        /\ host' = [host EXCEPT ![t] = Onward(d)] \/ host' = [host EXCEPT ![t] = e]
        /\ UNCHANGED <<plugin, hookRow, grants, granted, enforcing, hostDeaths, removed>>
    BY <1>9 DEF CallHandler
  <2>2. /\ d \in HostCall /\ d.pc = "handle" /\ d.live = c0.live /\ d.allowed = c0.allowed /\ d.to = c0.to
    BY <1>0, <2>1 DEF HostCall
  <2>3. e \in HostCall /\ e.pc = "done" /\ e.live = c0.live /\ e.allowed = c0.allowed
    <3>1. c0.live \in BOOLEAN /\ c0.allowed \in BOOLEAN
      BY <1>0 DEF HostCall
    <3>2. QED
      BY <1>a, <3>1 DEF HostCall
  <2> HIDE DEF d, e
  <2>4. CallKnows(d) /\ CallKnows(e)
    BY <1>0, <2>1, <2>2, <2>3 DEF CallKnows
  <2>5. Onward(d) \in HostCall /\ CallKnows(Onward(d)) /\ Onward(d).pc \in {"done", "dispatch"}
    BY <2>2, <2>4, OnwardKnows
  <2>6. CASE host' = [host EXCEPT ![t] = Onward(d)]
    BY <1>c, <2>1, <2>5, <2>6
  <2>7. CASE host' = [host EXCEPT ![t] = e]
    BY <1>c, <2>1, <2>3, <2>4, <2>7
  <2>8. QED
    BY <2>1, <2>6, <2>7
<1>10. ASSUME HostDies(t) PROVE PluginsInv'
  <2>1. /\ host' = [host EXCEPT ![t] = Hosting] /\ hostDeaths < MaxHostDeaths /\ hostDeaths' = hostDeaths + 1
        /\ UNCHANGED <<plugin, hookRow, grants, granted, enforcing, removed>>
    BY <1>10 DEF HostDies
  <2>2. hostDeaths' \in 0..MaxHostDeaths
    BY <1>0, <2>1, PluginsAssumption
  <2>3. QED
    BY <1>0, <1>a, <1>b, <2>1, <2>2, HostMoves
<1>11. QED
  BY <1>1, <1>2, <1>3, <1>4, <1>5, <1>6, <1>7, <1>8, <1>9, <1>10

\* Every step keeps the invariant.
LEMMA PluginsStep == PluginsInv /\ [PluginsNext]_pluginVars => PluginsInv'
<1> SUFFICES ASSUME PluginsInv, [PluginsNext]_pluginVars PROVE PluginsInv'
  OBVIOUS
<1>1. CASE UNCHANGED pluginVars
  BY <1>1 DEF pluginVars, PluginsInv, PluginsTyped, CallKnows, RemovalKnown, Gone
<1>2. CASE PluginsNext
  BY <1>2, PluginTables, PluginWritten, HostSteps DEF PluginsNext
<1>3. QED
  BY <1>1, <1>2

\* What the invariant says of plugins.
LEMMA PluginsHold == PluginsInv => PluginsTypeOK /\ HandlersOfActive /\ RemovedForGood
<1> SUFFICES ASSUME PluginsInv PROVE PluginsTypeOK /\ HandlersOfActive /\ RemovedForGood
  OBVIOUS
<1>1. \A t \in Host : host[t] \in HostCall /\ CallKnows(host[t])
  BY DEF PluginsInv, PluginsTyped
<1>2. \A t \in Host : host[t].left \subseteq Hook /\ host[t].ran \in BOOLEAN
  BY <1>1 DEF HostCall
<1>3. PluginsTypeOK
  <2>1. plugin \in DOMAIN ValidPluginTransition
    BY DEF PluginsInv, PluginsTyped, PluginState, ValidPluginTransition
  <2>2. grants \in 0..granted /\ granted \in 0..MaxGrants
    BY PluginsAssumption DEF PluginsInv, PluginsTyped
  <2>3. QED
    BY <1>2, <2>1, <2>2 DEF PluginsTypeOK, PluginsInv, PluginsTyped
<1>4. HandlersOfActive
  <2>1. enforcing \in BOOLEAN
    BY DEF PluginsInv, PluginsTyped
  <2>2. QED
    BY <1>1, <1>2, <2>1 DEF HandlersOfActive, CallKnows
<1>5. RemovedForGood
  BY DEF RemovedForGood, PluginsInv, PluginsTyped, RemovalKnown, Gone
<1>6. QED
  BY <1>3, <1>4, <1>5

\* Plugins: a dispatch calls handlers only of a plugin that was active and
\* permitted since it began, and one uninstalled undisturbed stays so.
THEOREM PluginsStayClosed == PluginsSpec => [](HandlersOfActive /\ RemovedForGood)
<1>1. PluginsInv => HandlersOfActive /\ RemovedForGood
  BY PluginsHold
<1>2. QED
  BY <1>1, PluginsStart, PluginsStep, PTL DEF PluginsSpec

-----------------------------------------------------------------------------
(* Storage tiers and archives.                                             *)

CoolPolicy == {p \in [source : Tier, target : Tier] : p.target > p.source}
Rows == SUBSET (1..MaxItemVersion)
KeeperCall ==
  [pc : {"waiting", "apply", "collect", "stored", "seal", "delete"},
   targets : SUBSET (Nat \X Tier), from : Tier \union {NoTier}, calm : BOOLEAN, cooled : BOOLEAN,
   items : SUBSET Item, found : [Item -> Rows], kept : [Item -> Rows], ever : [Item -> Rows]]

ColdTyped ==
  /\ tier \in Tier \union {NoTier}
  /\ tierPolicies \in Seq(CoolPolicy)
  /\ versionsOf \in [Item -> Rows]
  /\ archive \in {"none", "open", "sealed", "deleted"}
  /\ contents \in [Item -> Rows]
  /\ keeper \in [Keeper -> KeeperCall]
  /\ sealedCalmly \in BOOLEAN

\* What a thread that is in this call knows of the archive and of its targets.
KeeperKnows(c) ==
  /\ c.cooled = TRUE
  /\ c.pc = "apply" => \A t \in c.targets : t[2] > c.from
  /\ c.pc = "collect" =>
       /\ archive = "none"
       /\ \A i \in Item : /\ c.kept[i] \subseteq versionsOf[i] /\ versionsOf[i] \subseteq c.ever[i]
                          /\ i \notin c.items => c.kept[i] \subseteq c.found[i] /\ c.found[i] \subseteq c.ever[i]
  /\ c.pc = "stored" =>
       /\ archive # "none"
       /\ \A i \in Item : c.kept[i] \subseteq contents[i] /\ contents[i] \subseteq c.ever[i]
  /\ c.pc = "delete" => sealedCalmly = FALSE
  /\ c.pc \in {"seal", "delete"} => archive # "none"

SealedAlone ==
  /\ sealedCalmly = TRUE => archive = "sealed"
  /\ \A k, o \in Keeper : keeper[k].pc = "collect" /\ keeper[o].pc = "collect" => k = o

ColdInv ==
  /\ ColdTyped
  /\ \A k \in Keeper : KeeperKnows(keeper[k])
  /\ SealedAlone

\* A thread that waits relies on nothing.
LEMMA WaitingKnows ==
  Waiting \in KeeperCall /\ Waiting.pc = "waiting" /\ Waiting.cooled = TRUE /\ KeeperKnows(Waiting)
<1> DEFINE z == NoRows
<1> DEFINE T == Nat \X Tier
<1>1. z \in [Item -> Rows] /\ {} \in SUBSET T
  BY DEF NoRows, Rows
<1>2. Waiting = [pc |-> "waiting", targets |-> {}, from |-> NoTier, calm |-> TRUE, cooled |-> TRUE,
            items |-> {}, found |-> z, kept |-> z, ever |-> z]
  BY DEF Waiting
<1> HIDE DEF z, T
<1>3. Waiting \in [pc : {"waiting", "apply", "collect", "stored", "seal", "delete"},
   targets : SUBSET T, from : Tier \union {NoTier}, calm : BOOLEAN, cooled : BOOLEAN,
   items : SUBSET Item, found : [Item -> Rows], kept : [Item -> Rows], ever : [Item -> Rows]]
  BY <1>1, <1>2
<1>4. Waiting \in KeeperCall
  BY <1>3 DEF KeeperCall, T
<1>5. Waiting.pc = "waiting" /\ Waiting.cooled = TRUE
  BY <1>2
<1>6. QED
  BY <1>4, <1>5 DEF KeeperKnows

\* The invariant holds at the start.
LEMMA ColdStart == ColdInit => ColdInv
<1> SUFFICES ASSUME ColdInit PROVE ColdInv
  OBVIOUS
<1>0. MaxItemVersion \in Nat /\ 1 <= MaxItemVersion
  BY ColdAssumption
<1>1. versionsOf \in [Item -> Rows] /\ contents \in [Item -> Rows]
  BY <1>0 DEF ColdInit, NoRows, Rows
<1>2. tierPolicies \in Seq(CoolPolicy)
  BY DEF ColdInit
<1>3. keeper \in [Keeper -> KeeperCall] /\ \A k \in Keeper : keeper[k] = Waiting
  BY WaitingKnows DEF ColdInit
<1>4. ColdTyped
  BY <1>1, <1>2, <1>3 DEF ColdTyped, ColdInit
<1>5. SealedAlone
  BY <1>3, WaitingKnows DEF ColdInit, SealedAlone
<1>6. QED
  BY <1>3, <1>4, <1>5, WaitingKnows DEF ColdInv

\* One thread goes on and the tables stay.
LEMMA KeeperMoves ==
  ASSUME ColdInv, NEW k \in Keeper, NEW c \in KeeperCall, keeper' = [keeper EXCEPT ![k] = c],
         UNCHANGED <<tier, tierPolicies, versionsOf, archive, contents, sealedCalmly>>,
         KeeperKnows(c), c.pc = "collect" => \A o \in Keeper \ {k} : keeper[o].pc # "collect"
  PROVE  ColdInv'
<1>1. /\ keeper' \in [Keeper -> KeeperCall] /\ keeper'[k] = c
      /\ \A o \in Keeper \ {k} : keeper'[o] = keeper[o]
  BY DEF ColdInv, ColdTyped
<1>2. ColdTyped'
  BY <1>1 DEF ColdInv, ColdTyped
<1>3. ASSUME NEW d, KeeperKnows(d) PROVE KeeperKnows(d)'
  BY <1>3 DEF KeeperKnows
<1>4. \A o \in Keeper : KeeperKnows(keeper[o])'
  <2>1. \A o \in Keeper : KeeperKnows(keeper[o])
    BY DEF ColdInv
  <2>2. QED
    BY <1>1, <1>3, <2>1
<1>5. SealedAlone'
  BY <1>1 DEF ColdInv, SealedAlone
<1>6. QED
  BY <1>2, <1>4, <1>5 DEF ColdInv

\* A call whose evaluation is out of date relies on the same.
LEMMA OutOfDate ==
  ASSUME ColdInv, NEW k \in Keeper
  PROVE  /\ Disturbed(k) \in [Keeper -> KeeperCall]
         /\ Disturbed(k)[k] = keeper[k]
         /\ \A o \in Keeper : Disturbed(k)[o].pc = keeper[o].pc /\ KeeperKnows(Disturbed(k)[o])
<1>0. \A o \in Keeper : keeper[o] \in KeeperCall /\ KeeperKnows(keeper[o])
  BY DEF ColdInv, ColdTyped
<1>1. ASSUME NEW c \in KeeperCall, KeeperKnows(c)
      PROVE  /\ [c EXCEPT !.calm = FALSE] \in KeeperCall
             /\ [c EXCEPT !.calm = FALSE].pc = c.pc /\ KeeperKnows([c EXCEPT !.calm = FALSE])
  <2> DEFINE d == [c EXCEPT !.calm = FALSE]
  <2>1. /\ d \in KeeperCall /\ d.pc = c.pc /\ d.targets = c.targets /\ d.from = c.from
        /\ d.cooled = c.cooled /\ d.items = c.items /\ d.found = c.found
        /\ d.kept = c.kept /\ d.ever = c.ever
    BY DEF KeeperCall
  <2> HIDE DEF d
  <2>2. KeeperKnows(d)
    BY <1>1, <2>1 DEF KeeperKnows
  <2>3. QED
    BY <2>1, <2>2 DEF d
<1>2. \A o \in Keeper : Disturbed(k)[o] = IF o # k /\ keeper[o].pc = "apply"
                    THEN [keeper[o] EXCEPT !.calm = FALSE] ELSE keeper[o]
  BY DEF Disturbed
<1>3. \A o \in Keeper : /\ Disturbed(k)[o] \in KeeperCall
                        /\ Disturbed(k)[o].pc = keeper[o].pc /\ KeeperKnows(Disturbed(k)[o])
  BY <1>0, <1>1, <1>2
<1>4. Disturbed(k) \in [Keeper -> KeeperCall]
  BY <1>3 DEF Disturbed
<1>5. QED
  BY <1>2, <1>3, <1>4

\* A tier is assigned, by hand or by a policy.
LEMMA TierMoves ==
  ASSUME ColdInv, NEW k \in Keeper, NEW c \in KeeperCall, KeeperKnows(c), c.pc \in {"waiting", "apply"},
         keeper' = [Disturbed(k) EXCEPT ![k] = c] \/ (keeper' = Disturbed(k)), tier' \in Tier,
         UNCHANGED <<tierPolicies, versionsOf, archive, contents, sealedCalmly>>
  PROVE  ColdInv'
<1>1. /\ Disturbed(k) \in [Keeper -> KeeperCall]
      /\ \A o \in Keeper : Disturbed(k)[o].pc = keeper[o].pc /\ KeeperKnows(Disturbed(k)[o])
  BY OutOfDate
<1>2. /\ keeper' \in [Keeper -> KeeperCall]
      /\ \A o \in Keeper : /\ KeeperKnows(keeper'[o])
                           /\ keeper'[o].pc = "collect" => keeper[o].pc = "collect"
  <2>1. CASE keeper' = Disturbed(k)
    BY <1>1, <2>1
  <2>2. CASE keeper' = [Disturbed(k) EXCEPT ![k] = c]
    <3> DEFINE D == Disturbed(k)
    <3>1. D \in [Keeper -> KeeperCall] /\ keeper' = [D EXCEPT ![k] = c]
          /\ \A o \in Keeper : D[o].pc = keeper[o].pc /\ KeeperKnows(D[o])
      BY <1>1, <2>2
    <3> HIDE DEF D
    <3>2. keeper'[k] = c /\ \A o \in Keeper \ {k} : keeper'[o] = D[o]
      BY <3>1
    <3>3. QED
      BY <3>1, <3>2
  <2>3. QED
    BY <2>1, <2>2
<1>3. ColdTyped'
  BY <1>2 DEF ColdInv, ColdTyped
<1>4. \A o \in Keeper : KeeperKnows(keeper[o])'
  <2>1. ASSUME NEW d, KeeperKnows(d) PROVE KeeperKnows(d)'
    BY <2>1 DEF KeeperKnows
  <2>2. QED
    BY <1>2, <2>1
<1>5. SealedAlone'
  BY <1>2 DEF ColdInv, SealedAlone
<1>6. QED
  BY <1>3, <1>4, <1>5 DEF ColdInv

\* Policies and what they do to the tier.
LEMMA TiersStep ==
  ASSUME ColdInv, TiersNext
  PROVE  ColdInv'
<1>0. /\ tierPolicies \in Seq(CoolPolicy) /\ tier \in Tier \union {NoTier}
      /\ keeper \in [Keeper -> KeeperCall]
      /\ \A k \in Keeper : KeeperKnows(keeper[k])
  BY DEF ColdInv, ColdTyped
<1>1. ASSUME tierPolicies' \in Seq(CoolPolicy),
             UNCHANGED <<tier, versionsOf, archive, contents, keeper, sealedCalmly>>
      PROVE ColdInv'
  BY <1>1 DEF ColdInv, ColdTyped, KeeperKnows, SealedAlone
<1>2. ASSUME NEW s \in Tier, NEW d \in Tier, CreateTierPolicy(s, d) PROVE ColdInv'
  <2>1. [source |-> s, target |-> d] \in CoolPolicy
    BY <1>2 DEF CreateTierPolicy, ColderTarget, CoolPolicy
  <2>2. <<[source |-> s, target |-> d]>> \in Seq(CoolPolicy)
    BY <2>1
  <2>3. tierPolicies' \in Seq(CoolPolicy)
    BY <1>0, <1>2, <2>2 DEF CreateTierPolicy
  <2>4. QED
    BY <1>1, <1>2, <2>3 DEF CreateTierPolicy
<1>3. ASSUME NEW n \in 1..Len(tierPolicies), ArchiveTierPolicy(n) PROVE ColdInv'
  <2>1. tierPolicies' = SubSeq(tierPolicies, 1, n - 1) \o SubSeq(tierPolicies, n + 1, Len(tierPolicies))
    BY <1>3 DEF ArchiveTierPolicy, RemoveAt
  <2>2. SubSeq(tierPolicies, 1, n - 1) \in Seq(CoolPolicy)
    BY <1>0
  <2>3. SubSeq(tierPolicies, n + 1, Len(tierPolicies)) \in Seq(CoolPolicy)
    BY <1>0
  <2>4. tierPolicies' \in Seq(CoolPolicy)
    BY <2>1, <2>2, <2>3
  <2>5. QED
    BY <1>1, <1>3, <2>4 DEF ArchiveTierPolicy
<1>4. ASSUME NEW k \in Keeper, NEW to \in Tier, AssignTier(k, to) PROVE ColdInv'
  BY <1>4, TierMoves, WaitingKnows DEF AssignTier
<1>5. ASSUME NEW k \in Keeper, EvaluatePolicies(k) PROVE ColdInv'
  <2>1. PICK S \in SUBSET {n \in 1..Len(tierPolicies) : tierPolicies[n].source = tier} :
          keeper' = [keeper EXCEPT ![k] =
                       [Waiting EXCEPT !.pc = "apply", !.targets = Candidates(S), !.from = tier]]
    BY <1>5, Zenon DEF EvaluatePolicies
  <2> DEFINE c == [Waiting EXCEPT !.pc = "apply", !.targets = Candidates(S), !.from = tier]
  <2>2. ASSUME NEW n \in S
        PROVE  n \in Nat /\ tierPolicies[n].target \in Tier /\ tierPolicies[n].target > tier
    <3>1. n \in 1..Len(tierPolicies) /\ tierPolicies[n].source = tier
      OBVIOUS
    <3>2. tierPolicies[n] \in CoolPolicy
      BY <1>0, <3>1
    <3>3. QED
      BY <3>1, <3>2 DEF CoolPolicy
  <2>3. \A t \in Candidates(S) : t \in Nat \X Tier /\ t[2] > tier
    BY <2>2 DEF Candidates
  <2>4. Candidates(S) \in SUBSET (Nat \X Tier)
    BY <2>3
  <2>5. c \in KeeperCall /\ c.pc = "apply" /\ c.targets = Candidates(S) /\ c.from = tier /\ c.cooled = TRUE
    <3> DEFINE T == SUBSET (Nat \X Tier)
    <3> DEFINE F == Tier \union {NoTier}
    <3> DEFINE W == Waiting
    <3> DEFINE K == [pc : {"waiting", "apply", "collect", "stored", "seal", "delete"},
           targets : T, from : F, calm : BOOLEAN, cooled : BOOLEAN,
           items : SUBSET Item, found : [Item -> Rows], kept : [Item -> Rows], ever : [Item -> Rows]]
    <3>1. KeeperCall = K /\ Candidates(S) \in T /\ tier \in F
      BY <1>0, <2>4 DEF KeeperCall
    <3>2. W \in K /\ W.cooled = TRUE
      BY <3>1, WaitingKnows
    <3> HIDE DEF T, F, W
    <3>3. [W EXCEPT !.pc = "apply", !.targets = Candidates(S), !.from = tier] \in K
      BY <3>1, <3>2
    <3>4. c \in KeeperCall
      BY <3>1, <3>3 DEF W
    <3>5. c = [W EXCEPT !.pc = "apply", !.targets = Candidates(S), !.from = tier]
      BY DEF W
    <3>6. c.pc = "apply" /\ c.targets = Candidates(S) /\ c.from = tier /\ c.cooled = TRUE
      BY <3>2, <3>5
    <3>7. QED
      BY <3>4, <3>6
  <2>6. keeper' = [keeper EXCEPT ![k] = c]
    BY <2>1
  <2> HIDE DEF c
  <2>7. KeeperKnows(c)
    BY <2>3, <2>5 DEF KeeperKnows
  <2>8. QED
    BY <1>5, <2>5, <2>6, <2>7, KeeperMoves DEF EvaluatePolicies
<1>6. ASSUME NEW k \in Keeper, ApplyTransition(k) PROVE ColdInv'
  <2>1. PICK t \in keeper[k].targets :
       LET rest == keeper[k].targets \ {t} IN
       /\ tier' = t[2]
       /\ keeper' = [Disturbed(k) EXCEPT ![k] =
                       IF rest # {} THEN [keeper[k] EXCEPT !.targets = rest]
                       ELSE [Waiting EXCEPT !.cooled = t[2] > keeper[k].from \/ ~keeper[k].calm]]
    BY <1>6 DEF ApplyTransition
  <2> DEFINE rest == keeper[k].targets \ {t}
  <2>2. keeper[k] \in KeeperCall /\ KeeperKnows(keeper[k]) /\ keeper[k].pc = "apply"
    BY <1>0, <1>6 DEF ApplyTransition
  <2>3. keeper[k].targets \in SUBSET (Nat \X Tier)
    BY <2>2 DEF KeeperCall
  <2>4. t[2] \in Tier /\ t[2] > keeper[k].from
    BY <2>2, <2>3 DEF KeeperKnows
  <2>5. CASE rest # {}
    <3> DEFINE c == [keeper[k] EXCEPT !.targets = rest]
    <3>0. rest \in SUBSET (Nat \X Tier) /\ rest \subseteq keeper[k].targets
      BY <2>3
    <3> HIDE DEF rest
    <3>1. /\ c \in KeeperCall /\ c.pc = "apply" /\ c.targets = rest /\ c.from = keeper[k].from
          /\ c.cooled = keeper[k].cooled
      BY <2>2, <3>0 DEF KeeperCall
    <3>2. KeeperKnows(c)
      <4> HIDE DEF c
      <4>1. QED
        BY <2>2, <3>0, <3>1 DEF KeeperKnows
    <3>3. keeper' = [Disturbed(k) EXCEPT ![k] = c]
      BY <2>1, <2>5 DEF rest
    <3> HIDE DEF c
    <3>4. tier' \in Tier
      BY <2>1, <2>4
    <3>5. QED
      BY <1>6, <3>1, <3>2, <3>3, <3>4, TierMoves DEF ApplyTransition
  <2>6. CASE rest = {}
    <3> DEFINE c == [Waiting EXCEPT !.cooled = TRUE]
    <3>1. (t[2] > keeper[k].from \/ ~keeper[k].calm) = TRUE
      BY <2>4
    <3>2. c = Waiting
      BY WaitingKnows DEF KeeperCall
    <3>3. keeper' = [Disturbed(k) EXCEPT ![k] = c]
      BY <2>1, <2>6, <3>1
    <3> HIDE DEF c
    <3>4. keeper' = [Disturbed(k) EXCEPT ![k] = Waiting] /\ tier' \in Tier
      BY <2>1, <2>4, <3>2, <3>3
    <3>5. QED
      BY <1>6, <3>4, TierMoves, WaitingKnows DEF ApplyTransition
  <2>7. QED
    BY <2>5, <2>6
<1>7. QED
  BY <1>2, <1>3, <1>4, <1>5, <1>6 DEF TiersNext

\* A call that only comes to another point.
LEMMA AtPoint ==
  ASSUME NEW c \in KeeperCall, c.cooled = TRUE, NEW p \in {"seal", "delete", "stored"}
  PROVE  /\ [c EXCEPT !.pc = p] \in KeeperCall /\ [c EXCEPT !.pc = p].pc = p
         /\ [c EXCEPT !.pc = p].cooled = TRUE
         /\ [c EXCEPT !.pc = p].found = c.found
         /\ [c EXCEPT !.pc = p].kept = c.kept /\ [c EXCEPT !.pc = p].ever = c.ever
BY DEF KeeperCall

\* Who notices a row that comes or goes is at the same point of the same call.
LEMMA NoticedKnows ==
  ASSUME NEW i \in Item, NEW gone \in Rows, NEW come \in Rows, NEW c \in KeeperCall, NEW d,
         d = Seeing(c, i, gone, come)
  PROVE  /\ d \in KeeperCall /\ d.pc = c.pc /\ d.items = c.items /\ d.found = c.found
         /\ d.cooled = c.cooled
         /\ d.kept = [j \in Item |-> IF j = i THEN c.kept[j] \ gone ELSE c.kept[j]]
         /\ d.ever = [j \in Item |-> IF j = i THEN c.ever[j] \union come ELSE c.ever[j]]
<1> DEFINE f == [j \in Item |-> IF j = i THEN c.kept[j] \ gone ELSE c.kept[j]]
<1> DEFINE g == [j \in Item |-> IF j = i THEN c.ever[j] \union come ELSE c.ever[j]]
<1>1. c.kept \in [Item -> Rows] /\ c.ever \in [Item -> Rows]
  BY DEF KeeperCall
<1>2. f = [c.kept EXCEPT ![i] = @ \ gone] /\ g = [c.ever EXCEPT ![i] = @ \union come]
  BY <1>1
<1>3. \A j \in Item : f[j] \in Rows /\ g[j] \in Rows
  <2>1. \A j \in Item : c.kept[j] \subseteq 1..MaxItemVersion /\ c.ever[j] \subseteq 1..MaxItemVersion
    BY <1>1 DEF Rows
  <2>2. \A j \in Item : f[j] \subseteq 1..MaxItemVersion /\ g[j] \subseteq 1..MaxItemVersion
    BY <2>1 DEF Rows
  <2>3. QED
    BY <2>2 DEF Rows
<1>4. f \in [Item -> Rows] /\ g \in [Item -> Rows]
  BY <1>3
<1>5. d = [c EXCEPT !.kept = f, !.ever = g]
  BY <1>2 DEF KeeperCall, Seeing
<1> HIDE DEF f, g
<1>6. /\ d \in KeeperCall /\ d.pc = c.pc /\ d.items = c.items /\ d.found = c.found
      /\ d.cooled = c.cooled /\ d.kept = f /\ d.ever = g
  BY <1>4, <1>5 DEF KeeperCall
<1>7. QED
  BY <1>6 DEF f, g

\* What is known of an archive being collected stays true of rows that come and
\* go while its thread notices.
LEMMA CollectedStays ==
  ASSUME NEW i \in Item, NEW gone \in Rows, NEW come \in Rows,
         NEW c \in KeeperCall, NEW d \in KeeperCall, KeeperKnows(c), c.pc = "collect",
         d.pc = c.pc, d.items = c.items, d.found = c.found, d.cooled = c.cooled,
         d.kept = [j \in Item |-> IF j = i THEN c.kept[j] \ gone ELSE c.kept[j]],
         d.ever = [j \in Item |-> IF j = i THEN c.ever[j] \union come ELSE c.ever[j]],
         \A j \in Item : versionsOf'[j] = IF j = i THEN (versionsOf[j] \ gone) \union come ELSE versionsOf[j],
         archive' = archive
  PROVE  /\ d.cooled = TRUE /\ d.pc = "collect" /\ archive' = "none"
         /\ \A j \in Item :
              /\ d.kept[j] \subseteq versionsOf'[j] /\ versionsOf'[j] \subseteq d.ever[j]
              /\ j \notin d.items => d.kept[j] \subseteq d.found[j] /\ d.found[j] \subseteq d.ever[j]
<1>1. /\ c.cooled = TRUE /\ archive = "none"
      /\ \A j \in Item : /\ c.kept[j] \subseteq versionsOf[j] /\ versionsOf[j] \subseteq c.ever[j]
                         /\ j \notin c.items => c.kept[j] \subseteq c.found[j] /\ c.found[j] \subseteq c.ever[j]
  BY DEF KeeperKnows
<1>2. ASSUME NEW j \in Item
      PROVE  /\ d.kept[j] \subseteq c.kept[j] \ (IF j = i THEN gone ELSE {})
             /\ c.ever[j] \union (IF j = i THEN come ELSE {}) \subseteq d.ever[j]
             /\ versionsOf'[j] = (versionsOf[j] \ (IF j = i THEN gone ELSE {})) \union (IF j = i THEN come ELSE {})
  <2>1. CASE j = i
    BY <2>1
  <2>2. CASE j # i
    BY <2>2
  <2>3. QED
    BY <2>1, <2>2
<1>3. \A j \in Item : d.kept[j] \subseteq versionsOf'[j] /\ versionsOf'[j] \subseteq d.ever[j]
  BY <1>1, <1>2
<1>4. \A j \in Item : j \notin d.items => d.kept[j] \subseteq d.found[j] /\ d.found[j] \subseteq d.ever[j]
  BY <1>1, <1>2
<1>5. QED
  BY <1>1, <1>3, <1>4

\* A row of object_versions comes or goes.
LEMMA RowsSeen ==
  ASSUME ColdInv, NEW i \in Item, NEW gone \in Rows, NEW come \in Rows,
         versionsOf' = [versionsOf EXCEPT ![i] = (@ \ gone) \union come],
         keeper' = Noticed(i, gone, come),
         tier' = tier, tierPolicies' = tierPolicies, archive' = archive, contents' = contents,
         sealedCalmly' = sealedCalmly
  PROVE  ColdInv'
<1>0. /\ keeper \in [Keeper -> KeeperCall] /\ versionsOf \in [Item -> Rows]
      /\ \A k \in Keeper : keeper[k] \in KeeperCall /\ KeeperKnows(keeper[k])
  BY DEF ColdInv, ColdTyped
<1>1. /\ versionsOf' \in [Item -> Rows]
      /\ \A j \in Item : versionsOf'[j] = IF j = i THEN (versionsOf[j] \ gone) \union come ELSE versionsOf[j]
  <2>1. (versionsOf[i] \ gone) \union come \in Rows
    BY <1>0 DEF Rows
  <2>2. QED
    BY <1>0, <2>1
<1>2. ASSUME NEW k \in Keeper
      PROVE  keeper'[k] \in KeeperCall /\ keeper'[k].pc = keeper[k].pc /\ KeeperKnows(keeper[k])'
  <2>1. CASE keeper[k].pc # "collect"
    <3>1. keeper'[k] = keeper[k]
      BY <2>1 DEF Noticed
    <3>2. QED
      BY <1>0, <2>1, <3>1 DEF KeeperKnows
  <2>2. CASE keeper[k].pc = "collect"
    <3> DEFINE d == keeper'[k]
    <3>1. d = Seeing(keeper[k], i, gone, come)
      BY <2>2 DEF Noticed
    <3> HIDE DEF d
    <3>2. /\ d \in KeeperCall /\ d.pc = keeper[k].pc /\ d.items = keeper[k].items
          /\ d.found = keeper[k].found /\ d.cooled = keeper[k].cooled
          /\ d.kept = [j \in Item |-> IF j = i THEN keeper[k].kept[j] \ gone ELSE keeper[k].kept[j]]
          /\ d.ever = [j \in Item |-> IF j = i THEN keeper[k].ever[j] \union come ELSE keeper[k].ever[j]]
      <4>1. keeper[k] \in KeeperCall
        BY <1>0
      <4>2. QED
        BY <3>1, <4>1, NoticedKnows
    <3>3. d \in KeeperCall /\ d.pc = keeper[k].pc
      BY <3>2
    <3>4. KeeperKnows(keeper[k])'
      <4> DEFINE c == keeper[k]
      <4>1. c \in KeeperCall /\ KeeperKnows(c) /\ c.pc = "collect"
        BY <1>0, <2>2
      <4>2. /\ d.pc = c.pc /\ d.items = c.items /\ d.found = c.found /\ d.cooled = c.cooled
            /\ d.kept = [j \in Item |-> IF j = i THEN c.kept[j] \ gone ELSE c.kept[j]]
            /\ d.ever = [j \in Item |-> IF j = i THEN c.ever[j] \union come ELSE c.ever[j]]
        BY <3>2
      <4> HIDE DEF c
      <4>3. /\ d.cooled = TRUE /\ d.pc = "collect" /\ archive' = "none"
            /\ \A j \in Item :
                 /\ d.kept[j] \subseteq versionsOf'[j] /\ versionsOf'[j] \subseteq d.ever[j]
                 /\ j \notin d.items => d.kept[j] \subseteq d.found[j] /\ d.found[j] \subseteq d.ever[j]
        BY <1>1, <3>3, <4>1, <4>2, CollectedStays
      <4>4. QED
        BY <4>3 DEF d, KeeperKnows
    <3>5. QED
      BY <3>3, <3>4 DEF d
  <2>3. QED
    BY <2>1, <2>2
<1>3. keeper' \in [Keeper -> KeeperCall]
  <2>1. \A k \in Keeper : Noticed(i, gone, come)[k] \in KeeperCall
    BY <1>2
  <2>2. Noticed(i, gone, come) \in [Keeper -> KeeperCall]
    BY <2>1 DEF Noticed
  <2>3. QED
    BY <2>2
<1>4. ColdTyped'
  BY <1>1, <1>3 DEF ColdInv, ColdTyped
<1>5. SealedAlone'
  BY <1>2 DEF ColdInv, SealedAlone
<1>6. QED
  BY <1>2, <1>4, <1>5 DEF ColdInv

\* An update adds a row, a rollback deletes one.
LEMMA RowsMove ==
  ASSUME ColdInv, NEW i \in Item, NEW v \in 1..MaxItemVersion, AddVersion(i, v) \/ DeleteVersion(i, v)
  PROVE  ColdInv'
<1>0. {v} \in Rows /\ {} \in Rows /\ versionsOf \in [Item -> Rows]
  BY DEF Rows, ColdInv, ColdTyped
<1>1. CASE AddVersion(i, v)
  <2>1. versionsOf[i] \union {v} = (versionsOf[i] \ {}) \union {v}
    OBVIOUS
  <2>2. /\ versionsOf' = [versionsOf EXCEPT ![i] = (@ \ {}) \union {v}]
        /\ keeper' = Noticed(i, {}, {v})
        /\ tier' = tier /\ tierPolicies' = tierPolicies /\ archive' = archive /\ contents' = contents
        /\ sealedCalmly' = sealedCalmly
    BY <1>1, <2>1 DEF AddVersion
  <2>3. QED
    BY <1>0, <2>2, RowsSeen
<1>2. CASE DeleteVersion(i, v)
  <2>1. versionsOf[i] \ {v} = (versionsOf[i] \ {v}) \union {}
    OBVIOUS
  <2>2. /\ versionsOf' = [versionsOf EXCEPT ![i] = (@ \ {v}) \union {}]
        /\ keeper' = Noticed(i, {v}, {})
        /\ tier' = tier /\ tierPolicies' = tierPolicies /\ archive' = archive /\ contents' = contents
        /\ sealedCalmly' = sealedCalmly
    BY <1>2, <2>1 DEF DeleteVersion
  <2>3. QED
    BY <1>0, <2>2, RowsSeen
<1>3. QED
  BY <1>1, <1>2

\* Archives.
LEMMA ArchivesStep ==
  ASSUME ColdInv, ArchivesNext
  PROVE  ColdInv'
<1>0. /\ keeper \in [Keeper -> KeeperCall] /\ versionsOf \in [Item -> Rows]
      /\ contents \in [Item -> Rows] /\ archive \in {"none", "open", "sealed", "deleted"}
      /\ sealedCalmly \in BOOLEAN
      /\ \A k \in Keeper : keeper[k] \in KeeperCall /\ KeeperKnows(keeper[k])
  BY DEF ColdInv, ColdTyped
<1>1. ASSUME NEW i \in Item, NEW v \in 1..MaxItemVersion, AddVersion(i, v) \/ DeleteVersion(i, v)
      PROVE  ColdInv'
  BY <1>1, RowsMove
<1>2. ASSUME NEW k \in Keeper, BeginArchive(k) PROVE ColdInv'
  <2> DEFINE c == [Waiting EXCEPT !.pc = "collect", !.items = Item, !.kept = versionsOf, !.ever = versionsOf]
  <2>1. /\ archive = "none" /\ \A o \in Keeper : keeper[o].pc # "collect"
        /\ keeper' = [keeper EXCEPT ![k] = c]
        /\ UNCHANGED <<tier, tierPolicies, versionsOf, archive, contents, sealedCalmly>>
    BY <1>2 DEF BeginArchive
  <2>2. versionsOf \in [Item -> Rows] /\ Item \in SUBSET Item
    BY <1>0
  <2>3. /\ c \in KeeperCall /\ c.pc = "collect" /\ c.cooled = TRUE /\ c.items = Item
        /\ c.kept = versionsOf /\ c.ever = versionsOf
    BY <2>2, WaitingKnows DEF KeeperCall
  <2> HIDE DEF c
  <2>4. KeeperKnows(c)
    BY <2>1, <2>3 DEF KeeperKnows
  <2>5. QED
    BY <2>1, <2>3, <2>4, KeeperMoves
<1>3. ASSUME NEW k \in Keeper, NEW i \in Item, CollectVersions(k, i) PROVE ColdInv'
  <2> DEFINE f == [keeper[k].found EXCEPT ![i] = versionsOf[i]]
  <2> DEFINE c == [keeper[k] EXCEPT !.found = f, !.items = @ \ {i}]
  <2>1. /\ keeper[k].pc = "collect"
        /\ keeper' = [keeper EXCEPT ![k] = c]
        /\ UNCHANGED <<tier, tierPolicies, versionsOf, archive, contents, sealedCalmly>>
    BY <1>0, <1>3 DEF CollectVersions
  <2>2. /\ keeper[k] \in KeeperCall /\ KeeperKnows(keeper[k]) /\ keeper[k].found \in [Item -> Rows]
        /\ keeper[k].items \in SUBSET Item
    BY <1>0 DEF KeeperCall
  <2>3. /\ f \in [Item -> Rows] /\ f[i] = versionsOf[i]
        /\ \A j \in Item \ {i} : f[j] = keeper[k].found[j]
    BY <1>0, <2>2
  <2> HIDE DEF f
  <2>4. /\ c \in KeeperCall /\ c.pc = "collect" /\ c.cooled = keeper[k].cooled
        /\ c.items = keeper[k].items \ {i} /\ c.found = f
        /\ c.kept = keeper[k].kept /\ c.ever = keeper[k].ever
    BY <2>1, <2>2, <2>3 DEF KeeperCall
  <2> HIDE DEF c
  <2>5. KeeperKnows(c)
    <3>1. \A j \in Item : c.kept[j] \subseteq versionsOf[j] /\ versionsOf[j] \subseteq c.ever[j]
      BY <2>1, <2>2, <2>4 DEF KeeperKnows
    <3>2. \A j \in Item : j \notin c.items => c.kept[j] \subseteq c.found[j] /\ c.found[j] \subseteq c.ever[j]
      BY <2>1, <2>2, <2>3, <2>4, <3>1 DEF KeeperKnows
    <3>3. QED
      BY <2>1, <2>2, <2>4, <3>1, <3>2 DEF KeeperKnows
  <2>6. \A o \in Keeper \ {k} : keeper[o].pc # "collect"
    BY <2>1 DEF ColdInv, SealedAlone
  <2>7. QED
    BY <2>1, <2>4, <2>5, <2>6, KeeperMoves
<1>4. ASSUME NEW k \in Keeper, StoreArchive(k) PROVE ColdInv'
  <2> DEFINE c == [keeper[k] EXCEPT !.pc = "stored"]
  <2>1. /\ keeper[k].pc = "collect" /\ keeper[k].items = {} /\ archive' = "open"
        /\ contents' = keeper[k].found /\ keeper' = [keeper EXCEPT ![k] = c]
        /\ UNCHANGED <<tier, tierPolicies, versionsOf, sealedCalmly>>
    BY <1>4 DEF StoreArchive
  <2>2. keeper[k] \in KeeperCall /\ KeeperKnows(keeper[k]) /\ keeper[k].cooled = TRUE
    BY <1>0 DEF KeeperKnows
  <2>3. /\ c \in KeeperCall /\ c.pc = "stored" /\ c.cooled = TRUE
        /\ c.found = keeper[k].found /\ c.kept = keeper[k].kept /\ c.ever = keeper[k].ever
    BY <2>2, AtPoint
  <2> HIDE DEF c
  <2>4. /\ keeper' \in [Keeper -> KeeperCall] /\ keeper'[k] = c
        /\ \A o \in Keeper \ {k} : keeper'[o] = keeper[o]
    BY <1>0, <2>1, <2>3
  <2>5. archive = "none" /\ sealedCalmly = FALSE
    BY <1>0, <2>1, <2>2 DEF KeeperKnows, ColdInv, SealedAlone
  <2>6. contents' \in [Item -> Rows]
    BY <2>1, <2>2 DEF KeeperCall
  <2>7. ColdTyped'
    BY <2>1, <2>4, <2>6 DEF ColdInv, ColdTyped
  <2>8. SealedAlone'
    BY <2>1, <2>3, <2>4, <2>5 DEF ColdInv, SealedAlone
  <2>9. KeeperKnows(keeper[k])'
    <3>1. \A i \in Item : c.kept[i] \subseteq contents'[i] /\ contents'[i] \subseteq c.ever[i]
      BY <2>1, <2>2, <2>3 DEF KeeperKnows
    <3>2. QED
      BY <2>1, <2>3, <2>4, <3>1 DEF KeeperKnows
  <2>10. ASSUME NEW o \in Keeper \ {k} PROVE KeeperKnows(keeper[o])'
    <3>1. KeeperKnows(keeper[o]) /\ keeper'[o] = keeper[o] /\ keeper[o].pc \notin {"collect", "stored"}
      BY <1>0, <2>1, <2>4, <2>5 DEF KeeperKnows, ColdInv, SealedAlone
    <3>2. QED
      BY <2>1, <2>5, <3>1 DEF KeeperKnows
  <2>11. QED
    BY <2>7, <2>8, <2>9, <2>10 DEF ColdInv
<1>5. ASSUME NEW k \in Keeper, ArchiveReturns(k) PROVE ColdInv'
  BY <1>5, WaitingKnows, KeeperMoves DEF ArchiveReturns
<1>6. ASSUME NEW k \in Keeper, SealChecks(k) \/ DeleteChecks(k) PROVE ColdInv'
  <2>1. /\ archive = "open"
        /\ \E p \in {"seal", "delete"} : keeper' = [keeper EXCEPT ![k] = [Waiting EXCEPT !.pc = p]]
        /\ UNCHANGED <<tier, tierPolicies, versionsOf, archive, contents, sealedCalmly>>
    BY <1>6 DEF SealChecks, DeleteChecks, Unsealed
  <2>2. PICK p \in {"seal", "delete"} : keeper' = [keeper EXCEPT ![k] = [Waiting EXCEPT !.pc = p]]
    BY <2>1
  <2> DEFINE c == [Waiting EXCEPT !.pc = p]
  <2>3. c \in KeeperCall /\ c.pc = p /\ c.cooled = TRUE
    <3> DEFINE W == Waiting
    <3>1. W \in KeeperCall /\ W.cooled = TRUE
      BY WaitingKnows
    <3>2. p \in {"seal", "delete", "stored"}
      BY <2>2
    <3> HIDE DEF W
    <3>3. /\ [W EXCEPT !.pc = p] \in KeeperCall /\ [W EXCEPT !.pc = p].pc = p
          /\ [W EXCEPT !.pc = p].cooled = TRUE
      BY <3>1, <3>2, AtPoint
    <3>4. QED
      BY <3>3 DEF W
  <2>4. keeper' = [keeper EXCEPT ![k] = c]
    BY <2>2
  <2> HIDE DEF c
  <2>5. sealedCalmly = FALSE
    BY <1>0, <2>1 DEF ColdInv, SealedAlone
  <2>6. KeeperKnows(c)
    BY <2>1, <2>3, <2>5 DEF KeeperKnows
  <2>7. QED
    BY <2>1, <2>3, <2>4, <2>6, KeeperMoves
<1>7. ASSUME NEW k \in Keeper, SealArchive(k) \/ DeleteArchive(k) PROVE ColdInv'
  <2>1. /\ keeper' = [keeper EXCEPT ![k] = Waiting]
        /\ keeper[k].pc \in {"seal", "delete"}
        /\ UNCHANGED <<tier, tierPolicies, versionsOf, contents>>
        /\ archive' \in {"sealed", "deleted"} /\ sealedCalmly' \in BOOLEAN
    BY <1>0, <1>7 DEF SealArchive, DeleteArchive
  <2>2. /\ keeper' \in [Keeper -> KeeperCall] /\ keeper'[k] = Waiting
        /\ \A o \in Keeper \ {k} : keeper'[o] = keeper[o]
    BY <1>0, <2>1, WaitingKnows
  <2>3. archive # "none"
    BY <1>0, <2>1 DEF KeeperKnows
  <2>4. ColdTyped'
    BY <2>1, <2>2 DEF ColdInv, ColdTyped
  <2>5. sealedCalmly' = TRUE => /\ archive' = "sealed"
                                /\ \A o \in Keeper \ {k} : keeper[o].pc # "delete"
    <3>1. CASE SealArchive(k)
      BY <3>1 DEF SealArchive
    <3>2. CASE DeleteArchive(k)
      <4>1. keeper[k].pc = "delete" /\ sealedCalmly' = sealedCalmly
        BY <3>2 DEF DeleteArchive
      <4>2. sealedCalmly = FALSE
        BY <1>0, <4>1 DEF KeeperKnows
      <4>3. QED
        BY <4>1, <4>2
    <3>3. QED
      BY <1>7, <3>1, <3>2
  <2>6. SealedAlone'
    BY <2>2, <2>5, WaitingKnows DEF ColdInv, SealedAlone
  <2>7. KeeperKnows(keeper[k])'
    BY <2>2, WaitingKnows DEF KeeperKnows
  <2>8. ASSUME NEW o \in Keeper \ {k} PROVE KeeperKnows(keeper[o])'
    <3>1. KeeperKnows(keeper[o]) /\ keeper'[o] = keeper[o] /\ keeper[o].pc # "collect"
      BY <1>0, <2>2, <2>3 DEF KeeperKnows
    <3>2. keeper[o].pc = "delete" => sealedCalmly' = FALSE
      BY <2>1, <2>5
    <3>3. QED
      BY <2>1, <3>1, <3>2 DEF KeeperKnows
  <2>9. QED
    BY <2>4, <2>6, <2>7, <2>8 DEF ColdInv
<1>8. QED
  BY <1>1, <1>2, <1>3, <1>4, <1>5, <1>6, <1>7 DEF ArchivesNext

\* Every step keeps the invariant.
LEMMA ColdStep == ColdInv /\ [ColdNext]_coldVars => ColdInv'
<1> SUFFICES ASSUME ColdInv, [ColdNext]_coldVars PROVE ColdInv'
  OBVIOUS
<1>1. CASE UNCHANGED coldVars
  BY <1>1 DEF coldVars, ColdInv, ColdTyped, KeeperKnows, SealedAlone
<1>2. CASE ColdNext
  BY <1>2, TiersStep, ArchivesStep DEF ColdNext
<1>3. QED
  BY <1>1, <1>2

\* What the invariant says of tiers and archives.
LEMMA ColdHolds == ColdInv => ColdTypeOK /\ PoliciesCool /\ ArchiveCovers /\ SealedStays
<1> SUFFICES ASSUME ColdInv PROVE ColdTypeOK /\ PoliciesCool /\ ArchiveCovers /\ SealedStays
  OBVIOUS
<1>1. \A n \in 1..Len(tierPolicies) : tierPolicies[n] \in [source : Tier, target : Tier]
  BY DEF ColdInv, ColdTyped, CoolPolicy
<1>2. \A k \in Keeper : /\ keeper[k] \in KeeperCall /\ KeeperKnows(keeper[k])
                        /\ keeper[k].pc \in {"waiting", "apply", "collect", "stored", "seal", "delete"}
  BY DEF ColdInv, ColdTyped, KeeperCall
<1>3. ColdTypeOK
  BY <1>1, <1>2 DEF ColdTypeOK, ColdInv, ColdTyped, Rows
<1>4. PoliciesCool
  BY <1>2 DEF PoliciesCool, KeeperKnows
<1>5. ArchiveCovers
  BY <1>2 DEF ArchiveCovers, KeeperKnows
<1>6. SealedStays
  BY DEF SealedStays, ColdInv, ColdTyped, SealedAlone
<1>7. QED
  BY <1>3, <1>4, <1>5, <1>6

\* Tiers and archives: policies leave a version colder, an archive has every
\* version that was there all the while it was built, whatever updates and
\* rollbacks did, and none that never was, and one sealed undisturbed stays.
THEOREM ColdStaysCold == ColdSpec => [](PoliciesCool /\ ArchiveCovers /\ SealedStays)
<1>1. ColdInv => PoliciesCool /\ ArchiveCovers /\ SealedStays
  BY ColdHolds
<1>2. QED
  BY <1>1, ColdStart, ColdStep, PTL DEF ColdSpec

=============================================================================
