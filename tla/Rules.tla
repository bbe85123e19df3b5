------------------------------- MODULE Rules -------------------------------
(***************************************************************************)
(* Rules of the 1.x framework (rules/): RuleStore edits rules, versions    *)
(* and bindings, one autocommitted statement after the other, and empties  *)
(* the shared RuleCache at the end; RuleEngine looks rules up by target,   *)
(* through the cache, and decides with deny-overrides.  The effect stands  *)
(* for everything update_rule() may change.                                *)
(***************************************************************************)
EXTENDS Naturals, FiniteSets

CONSTANTS
  RuleId,      \* rules
  Target,      \* binding targets of a request, "environment" possibly one
  Condition,   \* condition dicts: functions from some of Key to a set of values
  Key,         \* "action", "principal_kind", "object_type", "scope_id"
  Given,       \* what a request gives for a key, Absent for None
  Absent,
  Editor,      \* threads that call the store
  MaxRuleVersion

ASSUME RulesAssumption ==
  /\ MaxRuleVersion \in Nat
  /\ RuleId # {} /\ Condition # {}
  /\ \A c \in Condition : DOMAIN c \subseteq Key

VARIABLES
  rules,      \* the rules table
  versions,   \* rule_versions: <<rule, version>> rows with the effect they hold
  bindings,   \* rule_bindings: lifecycle per rule and target, "none" for no row
  cache,      \* RuleCache, {} or {rules} per target
  tainted,    \* targets whose entry is stale for a known reason
  editor,     \* per thread: the store operation under way
  lookup      \* the engine's lookup under way: {} or {[target, found]}

ruleVars == <<rules, versions, bindings, cache, tainted, editor, lookup>>

Effect == {"ALLOW", "DENY"}
Unwritten == [life |-> "none", effect |-> "DENY", conds |-> CHOOSE c \in Condition : TRUE, version |-> 0]
AtRest == [pc |-> "rest", rule |-> CHOOSE r \in RuleId : TRUE, read |-> Unwritten]

RulesInit ==
  /\ rules = [r \in RuleId |-> Unwritten]
  /\ versions = {}
  /\ bindings = [r \in RuleId, t \in Target |-> "none"]
  /\ cache = [t \in Target |-> {}]
  /\ tainted = {}
  /\ editor = [e \in Editor |-> AtRest]
  /\ lookup = {}

-----------------------------------------------------------------------------
(* RuleEngine. *)

\* _rules_for_target(): active rules with an active binding.
RulesForTarget(t) == {r \in RuleId : bindings[<<r, t>>] = "ACTIVE" /\ rules[r].life = "ACTIVE"}

\* A result holds the rows as they are read.
Fetched(t) == {[rule |-> r, effect |-> rules[r].effect, conds |-> rules[r].conds] : r \in RulesForTarget(t)}

\* _matches_conditions(): the action is always compared, another key when the
\* request gives a value for it.
MatchesConditions(c, req) ==
  \A k \in DOMAIN c : (k # "action" /\ req[k] = Absent) \/ req[k] \in c[k]

\* Mutant: an absent value matches nothing.
ValueGiven(expected, actual) == actual \in expected

\* _value_matches(), and _explain_match() over the keys it knows.
ValueMatches(expected, actual) == actual = Absent \/ actual \in expected
ExplainMatch(c, req) == \A k \in Key \cap DOMAIN c : ValueMatches(c[k], req[k])

\* Deny overrides, and nothing matching denies.
DenyOverrides(matching) ==
  /\ \A m \in matching : m.effect # "DENY"
  /\ \E m \in matching : m.effect = "ALLOW"

\* evaluate() and evaluate_with_explanation(), without a cache; the latter has
\* no environment.
Evaluate(req, targets) ==
  DenyOverrides({m \in UNION {Fetched(t) : t \in targets} : MatchesConditions(m.conds, req)})
EvaluateWithExplanation(req, targets) ==
  DenyOverrides({m \in UNION {Fetched(t) : t \in targets \ {"environment"}} : ExplainMatch(m.conds, req)})

\* A lookup: answered by the cache, or by the database ...
QueryRules(t) ==
  /\ lookup = {}
  /\ cache[t] = {}
  /\ lookup' = {[target |-> t, found |-> Fetched(t)]}
  /\ UNCHANGED <<rules, versions, bindings, cache, tainted, editor>>

\* ... and then put() into the cache, whatever happened since.
PutRules ==
  \E l \in lookup :
    /\ cache' = [cache EXCEPT ![l.target] = {l.found}]
    /\ tainted' = IF l.found = Fetched(l.target) THEN tainted \ {l.target} ELSE tainted \union {l.target}
    /\ lookup' = {}
    /\ UNCHANGED <<rules, versions, bindings, editor>>

\* get() drops an entry past its TTL.
ExpireRules(t) ==
  /\ cache[t] # {}
  /\ cache' = [cache EXCEPT ![t] = {}]
  /\ tainted' = tainted \ {t}
  /\ UNCHANGED <<rules, versions, bindings, editor, lookup>>

-----------------------------------------------------------------------------
(* RuleStore.  Each operation ends with Invalidate. *)

GoesOn(e, pc, r, row) == editor' = [editor EXCEPT ![e] = [pc |-> pc, rule |-> r, read |-> row]]

Invalidate(e) ==
  /\ editor[e].pc = "invalidate"
  /\ cache' = [t \in Target |-> {}]
  /\ tainted' = {}
  /\ editor' = [editor EXCEPT ![e] = AtRest]
  /\ UNCHANGED <<rules, versions, bindings, lookup>>

\* create_rule(), its INSERT; the version follows.
CreateRule(e, r, f, c) ==
  LET row == [life |-> "ACTIVE", effect |-> f, conds |-> c, version |-> 1] IN
  /\ editor[e].pc = "rest"
  /\ rules[r].life = "none"
  /\ rules' = [rules EXCEPT ![r] = row]
  /\ GoesOn(e, "version", r, row)
  /\ UNCHANGED <<versions, bindings, cache, tainted, lookup>>

\* update_rule() reads the rule ...
ReadRule(e, r, f) ==
  /\ editor[e].pc = "rest"
  /\ rules[r].life # "none"
  /\ rules[r].version < MaxRuleVersion
  /\ GoesOn(e, "update", r, [rules[r] EXCEPT !.effect = f, !.version = @ + 1])
  /\ UNCHANGED <<rules, versions, bindings, cache, tainted, lookup>>

\* ... writes it back, all but its lifecycle ...
UpdateRule(e) ==
  LET r == editor[e].rule
      row == editor[e].read
  IN
  /\ editor[e].pc = "update"
  /\ rules' = [rules EXCEPT ![r] = [row EXCEPT !.life = rules[r].life]]
  /\ GoesOn(e, "version", r, row)
  /\ UNCHANGED <<versions, bindings, cache, tainted, lookup>>

\* ... and adds the version, which UNIQUE(rule_id, version) may refuse: the
\* call then fails and leaves the cache as it is.
CreateVersion(e) ==
  LET r == editor[e].rule
      row == editor[e].read
      free == \A v \in versions : <<v.rule, v.version>> # <<r, row.version>>
  IN
  /\ editor[e].pc = "version"
  /\ versions' = IF free THEN versions \union {[rule |-> r, version |-> row.version, effect |-> row.effect]}
                 ELSE versions
  /\ IF free THEN GoesOn(e, "invalidate", r, row) /\ UNCHANGED tainted
     ELSE /\ editor' = [editor EXCEPT ![e] = AtRest]
          /\ tainted' = {t \in Target : cache[t] # {}}
  /\ UNCHANGED <<rules, bindings, cache, lookup>>

\* archive_rule(): the rule, then its bindings.
ArchiveRule(e, r) ==
  /\ editor[e].pc = "rest"
  /\ rules[r].life # "none"
  /\ rules' = [rules EXCEPT ![r].life = "ARCHIVED"]
  /\ GoesOn(e, "bindings", r, rules[r])
  /\ UNCHANGED <<versions, bindings, cache, tainted, lookup>>

ArchiveBindings(e) ==
  LET r == editor[e].rule IN
  /\ editor[e].pc = "bindings"
  /\ bindings' = [b \in RuleId \X Target |->
                    IF b[1] = r /\ bindings[b] = "ACTIVE" THEN "ARCHIVED" ELSE bindings[b]]
  /\ GoesOn(e, "invalidate", r, editor[e].read)
  /\ UNCHANGED <<rules, versions, cache, tainted, lookup>>

\* bind_rule(): an archived binding keeps its UNIQUE row, and the INSERT fails.
BindRule(e, r, t) ==
  /\ editor[e].pc = "rest"
  /\ rules[r].life # "none"
  /\ bindings[<<r, t>>] = "none"
  /\ bindings' = [bindings EXCEPT ![<<r, t>>] = "ACTIVE"]
  /\ GoesOn(e, "invalidate", r, rules[r])
  /\ UNCHANGED <<rules, versions, cache, tainted, lookup>>

\* Mutant: the cache is emptied before the row is written.
UnbindsLast(e, r, t) ==
  /\ editor[e].pc = "rest"
  /\ bindings[<<r, t>>] = "ACTIVE"
  /\ bindings' = [bindings EXCEPT ![<<r, t>>] = "ARCHIVED"]
  /\ UNCHANGED <<rules, versions, cache, tainted, editor, lookup>>

\* unbind_rule(), when there is an active binding.
UnbindRule(e, r, t) ==
  /\ editor[e].pc = "rest"
  /\ bindings[<<r, t>>] = "ACTIVE"
  /\ bindings' = [bindings EXCEPT ![<<r, t>>] = "ARCHIVED"]
  /\ GoesOn(e, "invalidate", r, rules[r])
  /\ UNCHANGED <<rules, versions, cache, tainted, lookup>>

-----------------------------------------------------------------------------
Edit(e) ==
  \/ \E r \in RuleId :
       \/ \E f \in Effect : ReadRule(e, r, f) \/ \E c \in Condition : CreateRule(e, r, f, c)
       \/ ArchiveRule(e, r)
       \/ \E t \in Target : BindRule(e, r, t) \/ UnbindRule(e, r, t)
  \/ UpdateRule(e) \/ CreateVersion(e) \/ ArchiveBindings(e) \/ Invalidate(e)

RulesNext ==
  \/ \E t \in Target : QueryRules(t) \/ ExpireRules(t)
  \/ PutRules
  \/ \E e \in Editor : Edit(e)

RulesSpec == RulesInit /\ [][RulesNext]_ruleVars

-----------------------------------------------------------------------------
(* Properties. *)

RulesTypeOK ==
  /\ \A r \in RuleId : rules[r].life \in {"none", "ACTIVE", "ARCHIVED"} /\ rules[r].effect \in Effect
  /\ tainted \subseteq Target
  /\ Cardinality(lookup) <= 1

\* "Invalidated by RuleStore on mutations": what the cache holds is what the
\* database would answer, except while an edit is between its first statement
\* and invalidate(), after a lookup that read before an edit and put after it,
\* and after an update that lost the race for its version.
CacheHonest ==
  \A t \in Target :
    \/ cache[t] = {}
    \/ cache[t] = {Fetched(t)}
    \/ t \in tainted
    \/ \E e \in Editor : editor[e].pc \in {"version", "bindings", "invalidate"}

Request == {q \in [Key -> Given] : q["action"] # Absent}

\* evaluate_with_explanation() is "Same logic as evaluate()": wherever no
\* environment is involved both give the same decision, on any rules.
ExplanationAgrees ==
  \A q \in Request, ts \in SUBSET (Target \ {"environment"}) :
    Evaluate(q, ts) = EvaluateWithExplanation(q, ts)
=============================================================================
