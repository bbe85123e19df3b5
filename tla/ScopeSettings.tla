--------------------------- MODULE ScopeSettings ---------------------------
(***************************************************************************)
(* Settings of a chain of nested scopes and how a child inherits them      *)
(* (tenancy/config.py), for one key.  ConfigStore reads, then writes the   *)
(* row it found; ConfigResolver reads scope by scope, from the root down.  *)
(***************************************************************************)
EXTENDS Naturals, Sequences, SequencesExt

CONSTANTS
  Depth,          \* scopes of the chain: 1 is the root, Depth the leaf
  Value,          \* values of the key
  NoValue,
  SettingWriter,  \* threads of the scopes' owners
  ResolveDepth    \* max_depth of the resolver

ASSUME SettingsAssumption == Depth \in Nat \ {0} /\ ResolveDepth \in Nat

VARIABLES
  setting,   \* the scope_settings row of every scope
  sealed,    \* scopes frozen or archived
  writing,   \* the set() or delete() every thread is in
  resolving, \* the resolve() of the leaf under way
  restless   \* settings have been written since resolve() began

settingsVars == <<setting, sealed, writing, resolving, restless>>

Level == 1..Depth

\* ScopedSetting
NoSetting == [life |-> "none", value |-> NoValue]
Resting == [op |-> "rest", at |-> 0, value |-> NoValue]
Unresolved == [pc |-> "rest", todo |-> <<>>, chain |-> <<>>]

SettingsInit ==
  /\ setting = [s \in Level |-> NoSetting]
  /\ sealed = {}
  /\ writing = [w \in SettingWriter |-> Resting]
  /\ resolving = Unresolved
  /\ restless = FALSE

\* get(): an active row.
HasSetting(s) == setting[s].life = "ACTIVE"

-----------------------------------------------------------------------------
(* ConfigStore. *)

\* set(): mutable scope, owner; is there an active row?
SetReads(w, s, v) ==
  /\ writing[w].op = "rest"
  /\ s \notin sealed
  /\ writing' = [writing EXCEPT ![w] =
       [op |-> IF HasSetting(s) THEN "update" ELSE "insert", at |-> s, value |-> v]]
  /\ UNCHANGED <<setting, sealed, resolving, restless>>

\* The row that was there gets the value, whatever has become of it.
SetUpdates(w) ==
  /\ writing[w].op = "update"
  /\ setting' = [setting EXCEPT ![writing[w].at].value = writing[w].value]
  /\ writing' = [writing EXCEPT ![w] = Resting]
  /\ restless' = TRUE
  /\ UNCHANGED <<sealed, resolving>>

\* UNIQUE(scope_id, key): a row, even an archived one, is in the way.
Insertable(s) == setting[s].life = "none"

SetInserts(w) ==
  /\ writing[w].op = "insert"
  /\ Insertable(writing[w].at)
  /\ setting' = [setting EXCEPT ![writing[w].at] = [life |-> "ACTIVE", value |-> writing[w].value]]
  /\ writing' = [writing EXCEPT ![w] = Resting]
  /\ restless' = TRUE
  /\ UNCHANGED <<sealed, resolving>>

\* The INSERT raises.
SetFails(w) ==
  /\ writing[w].op = "insert"
  /\ ~Insertable(writing[w].at)
  /\ writing' = [writing EXCEPT ![w] = [Resting EXCEPT !.op = "raised"]]
  /\ UNCHANGED <<setting, sealed, resolving, restless>>

SetRaised(w) ==
  /\ writing[w].op = "raised"
  /\ writing' = [writing EXCEPT ![w] = Resting]
  /\ UNCHANGED <<setting, sealed, resolving, restless>>

\* delete(): an active row is archived.
DeleteReads(w, s) ==
  /\ writing[w].op = "rest"
  /\ s \notin sealed
  /\ HasSetting(s)
  /\ writing' = [writing EXCEPT ![w] = [op |-> "delete", at |-> s, value |-> NoValue]]
  /\ UNCHANGED <<setting, sealed, resolving, restless>>

DeleteWrites(w) ==
  /\ writing[w].op = "delete"
  /\ setting' = [setting EXCEPT ![writing[w].at].life = "ARCHIVED"]
  /\ writing' = [writing EXCEPT ![w] = Resting]
  /\ restless' = TRUE
  /\ UNCHANGED <<sealed, resolving>>

\* The scope's lifecycle ends changes; its settings can still be read.
Seal(s) ==
  /\ s \notin sealed
  /\ sealed' = sealed \union {s}
  /\ UNCHANGED <<setting, writing, resolving, restless>>

-----------------------------------------------------------------------------
(* ConfigResolver. *)

\* First pass: the chain of ids from the leaf up, at most max_depth + 1 long.
\* Parents never change, so it is one step.  The second pass goes down it.
ScopeChain ==
  LET top == IF Depth > ResolveDepth + 1 THEN Depth - ResolveDepth ELSE 1
  IN  [i \in 1..(Depth - top + 1) |-> top + i - 1]

ResolveBegins ==
  /\ resolving.pc = "rest"
  /\ resolving' = [pc |-> "read", todo |-> ScopeChain, chain |-> <<>>]
  /\ restless' = FALSE
  /\ UNCHANGED <<setting, sealed, writing>>

\* Second pass: one get() at a time, the root first.
ResolveReads ==
  LET s == Head(resolving.todo) IN
  /\ resolving.pc = "read"
  /\ resolving' =
       [pc |-> IF Len(resolving.todo) = 1 THEN "done" ELSE "read",
        todo |-> Tail(resolving.todo),
        chain |-> IF HasSetting(s) THEN Append(resolving.chain, <<s, setting[s].value>>)
                  ELSE resolving.chain]
  /\ UNCHANGED <<setting, sealed, writing, restless>>

\* Mutant: the first value found wins.
RootWins(chain) == IF chain = <<>> THEN NoValue ELSE Head(chain)[2]

\* The last entry of the chain wins.
Winner(chain) == IF chain = <<>> THEN NoValue ELSE Last(chain)[2]

ResolveReturns ==
  /\ resolving.pc = "done"
  /\ resolving' = Unresolved
  /\ UNCHANGED <<setting, sealed, writing, restless>>

-----------------------------------------------------------------------------
SettingsNext ==
  \/ \E w \in SettingWriter :
       \/ \E s \in Level : DeleteReads(w, s) \/ \E v \in Value : SetReads(w, s, v)
       \/ SetUpdates(w) \/ SetInserts(w) \/ SetFails(w) \/ SetRaised(w) \/ DeleteWrites(w)
  \/ \E s \in Level : Seal(s)
  \/ ResolveBegins \/ ResolveReads \/ ResolveReturns

SettingsSpec == SettingsInit /\ [][SettingsNext]_settingsVars

-----------------------------------------------------------------------------
(* Properties. *)

SettingsTypeOK ==
  /\ setting \in [Level -> [life : {"none", "ACTIVE", "ARCHIVED"}, value : Value \union {NoValue}]]
  /\ sealed \subseteq Level
  /\ \A w \in SettingWriter : writing[w].op \in {"rest", "update", "insert", "raised", "delete"}
  /\ resolving.pc \in {"rest", "read", "done"}
  /\ restless \in BOOLEAN

\* "First match wins": a resolve() that no write overlaps gives the value of
\* the nearest scope that has one.
NearestWins ==
  resolving.pc = "done" /\ ~restless =>
    LET near == {s \in Level : HasSetting(s) /\ Depth - s <= ResolveDepth} IN
    Winner(resolving.chain) =
      IF near = {} THEN NoValue ELSE setting[CHOOSE s \in near : \A t \in near : t <= s].value

\* set() "creates or updates": it does not fail where nobody else is writing.
SetAgain ==
  \A w \in SettingWriter : writing[w].op = "raised" => \E x \in SettingWriter \ {w} : writing[x].op # "rest"

=============================================================================
