---------------------------- MODULE Registration ----------------------------
(***************************************************************************)
(* Registration of models and the guards on the relations between them     *)
(* (src/pyscoped/registry.py, apps.py).  Applications import their model   *)
(* modules in any order; a decorated class registers itself at once, while *)
(* the classes it refers to may not exist; models are also registered      *)
(* later, from an application's ready() or at run time.  A relation that   *)
(* is left without its guard reads across scopes.                          *)
(***************************************************************************)
EXTENDS Naturals, FiniteSets

CONSTANTS
  Model,          \* model classes
  Relation        \* relations declared by them: name, model, target, one_to_one, hidden

ASSUME RegistrationAssumption ==
  Relation \subseteq [name : STRING, model : Model, target : Model, one_to_one : BOOLEAN, hidden : BOOLEAN]

VARIABLES
  classes,        \* model classes that exist
  modes,          \* _registry: the mode each registered model was given
  guarded,        \* descriptors wrapped: the relation, and its end
  appsStage       \* "importing", "models_ready", "ready" (ours has run)

registrationVars == <<classes, modes, guarded, appsStage>>

RegistrationInit ==
  /\ classes = {}
  /\ modes = <<>>
  /\ guarded = {}
  /\ appsStage = "importing"

Enforced(registered) == {m \in DOMAIN registered : registered[m] = "enforce"}

\* remote_field.model is a name until the class it names exists.
Resolved(r) == r.target \in classes

Forward(registered) ==
  {r \in Relation : {r.model, r.target} \subseteq Enforced(registered) /\ Resolved(r)}

\* Reverse one-to-one accessors, which are known once all models are.
Reversed(registered) ==
  {r \in Forward(registered) : r.one_to_one /\ ~r.hidden /\ appsStage # "importing"}

\* Mutant: only the relations of the model at hand.
GuardsOf(registered, m) ==
  guarded \union ({r \in Forward(registered) : r.model = m} \X {"forward"})
          \union ({r \in Reversed(registered) : r.target = m} \X {"reverse"})

\* install_relation_guards(), which register() of a model m ends with: all
\* relations of all registered models, those already wrapped excepted.
InstallRelationGuards(registered, m) ==
  guarded \union (Forward(registered) \X {"forward"}) \union (Reversed(registered) \X {"reverse"})

\* A module is imported and a class created.
DefineModel(m) ==
  /\ m \notin classes
  /\ classes' = classes \union {m}
  /\ UNCHANGED <<modes, guarded, appsStage>>

\* register(): the same options again change nothing, others are refused.
Register(m, mode) ==
  /\ m \in classes \ DOMAIN modes
  /\ LET registered == [n \in DOMAIN modes \union {m} |-> IF n = m THEN mode ELSE modes[n]] IN
     /\ modes' = registered
     /\ guarded' = InstallRelationGuards(registered, m)
  /\ UNCHANGED <<classes, appsStage>>

\* Django: all model modules are imported; every relation must resolve.
ModelsReady ==
  /\ appsStage = "importing"
  /\ \A r \in Relation : r.model \in classes => Resolved(r)
  /\ appsStage' = "models_ready"
  /\ UNCHANGED <<classes, modes, guarded>>

\* Mutant: ready() leaves it to the registrations.
ReadyLate ==
  /\ appsStage = "models_ready"
  /\ appsStage' = "ready"
  /\ UNCHANGED <<classes, modes, guarded>>

\* PyScopedConfig.ready(), among those of the other applications.
Ready ==
  /\ appsStage = "models_ready"
  /\ appsStage' = "ready"
  /\ guarded' = guarded \union (Forward(modes) \X {"forward"}) \union (Reversed(modes) \X {"reverse"})
  /\ UNCHANGED <<classes, modes>>

-----------------------------------------------------------------------------
RegistrationNext ==
  \/ ModelsReady \/ Ready
  \/ \E m \in Model : DefineModel(m) \/ \E mode \in {"audit", "enforce"} : Register(m, mode)

RegistrationSpec == RegistrationInit /\ [][RegistrationNext]_registrationVars

-----------------------------------------------------------------------------
(* Properties. *)

RegistrationTypeOK ==
  /\ DOMAIN modes \subseteq classes
  /\ guarded \subseteq Relation \X {"forward", "reverse"}

\* docs/guarantees.md: "FK and one-to-one descriptors between enforced models
\* use scoped target queries".  In whatever order classes are created, refer to
\* each other and are registered, before, while or after the applications get
\* ready, none of them is left out once PyScoped is ready; nor is a relation of
\* an audited model guarded.
GuardsComplete ==
  LET between == {r \in Relation : {r.model, r.target} \subseteq Enforced(modes)} IN
  /\ guarded \subseteq between \X {"forward", "reverse"}
  /\ between \X {"forward"} \subseteq guarded
  /\ appsStage = "ready" => {r \in between : r.one_to_one /\ ~r.hidden} \X {"reverse"} \subseteq guarded

=============================================================================
