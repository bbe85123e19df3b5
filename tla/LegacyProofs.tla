---------------------------- MODULE LegacyProofs ----------------------------
(***************************************************************************)
(* Proofs about MCLegacy, the 1.x framework as a whole: each part behaves  *)
(* in the composition as its own specification allows, and so what is      *)
(* proved of the parts holds of the whole.                                 *)
(***************************************************************************)
EXTENDS MCLegacy, LegacyStoreProofs, LegacyPartsProofs

-----------------------------------------------------------------------------
(* The parts in the composition.                                           *)

\* The parts of MCLegacy share no variable: a step of one leaves the others as
\* they were, and every step of the composition is one of each part, or
\* changes nothing of it.
LEMMA StoresMove ==
  ASSUME [LegacyNext]_legacyVars
  PROVE  /\ [AuditNext]_auditVars /\ [MigNext]_migVars /\ [ObjNext]_objVars
         /\ [TenancyNext]_tenancyVars /\ [SettingsNext]_settingsVars /\ [VaultNext]_vaultVars
<1>1. CASE UNCHANGED legacyVars
  BY <1>1 DEF legacyVars, storeVars
<1>2. CASE LegacyNext
  BY <1>2 DEF LegacyNext, storeVars
<1>3. QED
  BY <1>1, <1>2

\* The parts that decide: rules, limits, environments, blobs and identities.
LEMMA PoliciesMove ==
  ASSUME [LegacyNext]_legacyVars
  PROVE  /\ [RulesNext]_ruleVars /\ [LimitsNext]_limitVars /\ [EnvNext]_envVars
         /\ [BlobNext]_blobVars /\ [IdentityNext]_identityVars
<1>1. CASE UNCHANGED legacyVars
  BY <1>1 DEF legacyVars, policyVars
<1>2. CASE LegacyNext
  BY <1>2 DEF LegacyNext, policyVars, EnvNext
<1>3. QED
  BY <1>1, <1>2

\* The parts that reach out: deployments, stages, connectors, routers, plugins and
\* cold storage.
LEMMA OthersMove ==
  ASSUME [LegacyNext]_legacyVars
  PROVE  /\ [DeploymentsNext]_deploymentVars /\ [StageNext]_stageVars
         /\ [ConnectorNext]_connectorVars /\ [FederationNext]_federationVars
         /\ [RouterNext]_routerVars /\ [PluginsNext]_pluginVars /\ [ColdNext]_coldVars
<1>1. CASE UNCHANGED legacyVars
  BY <1>1 DEF legacyVars, outerVars
<1>2. CASE LegacyNext
  BY <1>2 DEF LegacyNext, outerVars, ColdNext
<1>3. QED
  BY <1>1, <1>2

\* They start as they do alone.
LEMMA LegacyStarts ==
  ASSUME LegacyInit
  PROVE  /\ AuditInit /\ MigInit /\ ObjInit /\ TenancyInit /\ SettingsInit /\ VaultInit
         /\ RulesInit /\ LimitsInit /\ EnvInit /\ BlobInit /\ IdentityInit
         /\ DeploymentsInit /\ StageInit /\ ConnectorInit /\ FederationInit /\ RouterInit
         /\ PluginsInit /\ ColdInit
BY DEF LegacyInit

\* Every behaviour of the 1.x framework is one of each of its parts: the audit
\* trail, its objects, scopes, settings, secrets and migrations ...
THEOREM StoresRefined ==
  LegacySpec =>
    AuditSpec /\ MigSpec /\ ObjSpec /\ TenancySpec /\ SettingsSpec /\ VaultSpec
BY LegacyStarts, StoresMove, PTL
   DEF LegacySpec, AuditSpec, MigSpec, ObjSpec, TenancySpec, SettingsSpec, VaultSpec

\* ... its rules, limits, environments, blobs and principals ...
THEOREM PoliciesRefined ==
  LegacySpec => RulesSpec /\ LimitsSpec /\ EnvSpec /\ BlobSpec /\ IdentitySpec
BY LegacyStarts, PoliciesMove, PTL
   DEF LegacySpec, RulesSpec, LimitsSpec, EnvSpec, BlobSpec, IdentitySpec

\* ... and its deployments, stages, connectors, federation, tenants, plugins
\* and tiers.
THEOREM OthersRefined ==
  LegacySpec =>
    /\ DeploymentsSpec /\ StageSpec /\ ConnectorSpec /\ FederationSpec /\ RouterSpec
    /\ PluginsSpec /\ ColdSpec
BY LegacyStarts, OthersMove, PTL
   DEF LegacySpec, DeploymentsSpec, StageSpec, ConnectorSpec, FederationSpec, RouterSpec,
       PluginsSpec, ColdSpec

-----------------------------------------------------------------------------
(* The invariants of the parts, together.                                  *)

\* The audit trail asks for LongHorizon and so stands apart.
PartsInv ==
  /\ MigInv /\ ObjInv /\ TenancyInv /\ SettingsInv /\ VaultInv
  /\ RulesInv /\ LimitsInv /\ EnvInv /\ BlobInv /\ IdentityInv
  /\ DeployInv /\ StageInv /\ ConnectorInv /\ FederationInv /\ RouterInv /\ PluginsInv /\ ColdInv

\* They hold at the start ...
LEMMA PartsStart == LegacyInit => PartsInv
BY LegacyStarts, MigStart, ObjStart, TenancyStart, SettingsStart, VaultStart, RulesStart, LimitsStart,
   EnvStart, BlobStart, IdentityStart, DeployStart, StageStart, ConnectorStart, FederationStart,
   RouterStart, PluginsStart, ColdStart
   DEF PartsInv

\* ... and every step keeps them.
LEMMA PartsStep == PartsInv /\ [LegacyNext]_legacyVars => PartsInv'
<1> SUFFICES ASSUME PartsInv, [LegacyNext]_legacyVars PROVE PartsInv'
  OBVIOUS
<1>1. MigInv' /\ ObjInv' /\ TenancyInv' /\ SettingsInv' /\ VaultInv'
  BY StoresMove, MigStep, ObjStep, TenancyStep, SettingsStep, VaultStep DEF PartsInv
<1>2. RulesInv' /\ LimitsInv' /\ EnvInv' /\ BlobInv' /\ IdentityInv'
  BY PoliciesMove, RulesStep, LimitsStep, EnvStep, BlobStep, IdentityStep DEF PartsInv
<1>3. /\ DeployInv' /\ StageInv' /\ ConnectorInv' /\ FederationInv' /\ RouterInv'
      /\ PluginsInv' /\ ColdInv'
  BY OthersMove, DeployStep, StageStep, ConnectorStep, FederationStep, RouterStep, PluginsStep, ColdStep
     DEF PartsInv
<1>4. QED
  BY <1>1, <1>2, <1>3 DEF PartsInv

\* What holds in every state of the composition.
LEMMA PartsAlways == LegacySpec => []PartsInv
BY PartsStart, PartsStep, PTL DEF LegacySpec

\* The audit trail's own.
LEMMA AuditAlways == ASSUME LongHorizon PROVE LegacySpec => []AuditInv
<1>1. AuditInv /\ [AuditNext]_auditVars => AuditInv'
  BY AuditStep
<1>2. QED
  BY <1>1, AuditStart, StoresRefined, PTL DEF AuditSpec

\* Federation's, with one sending process.
LEMMA InTurnAlways == ASSUME OneSender PROVE LegacySpec => []InTurn
<1>1. FederationInv /\ InTurn /\ [FederationNext]_federationVars => FederationInv' /\ InTurn'
  BY FederationStep
<1>2. QED
  BY <1>1, FederationStart, OthersRefined, PTL DEF FederationSpec

-----------------------------------------------------------------------------
(* What the 1.x framework promises.                                        *)

\* The state of the part that moves is of its type: rows, calls under way and
\* counters of every part stay what the code makes of them.
THEOREM LegacyTypeCorrect == ASSUME LongHorizon PROVE LegacySpec => []LegacyTypeOK
<1>1. AuditInv /\ PartsInv => LegacyTypeOK
  BY AuditHolds, MigHolds, ObjHolds, TenancyHolds, SettingsHold, VaultHolds, RulesHold, LimitsHold,
     EnvHolds, IdentityHolds, DeployHolds, StageTyped, FederationHolds, RouterTyped, PluginsHold, ColdHolds
     DEF LegacyTypeOK, PartsInv, BlobInv, ConnectorInv
<1>2. QED
  BY <1>1, AuditAlways, PartsAlways, PTL

\* Whatever writers, collisions, restarts and retention do, what is left of
\* the audit trail is one linked chain.
THEOREM ChainsIntact == ASSUME LongHorizon PROVE LegacySpec => []ChainIntact
<1>1. AuditInv => ChainIntact
  BY AuditHolds
<1>2. QED
  BY <1>1, AuditAlways, PTL

\* A migration recorded has its tables, and an interrupted command can be given
\* again.
THEOREM SchemasReached == LegacySpec => []SchemaReached
<1>1. PartsInv => SchemaReached
  BY MigHolds DEF PartsInv, SchemaReached
<1>2. QED
  BY <1>1, PartsAlways, PTL

\* A rollback gives an object the content it had.
THEOREM ContentsRestored == LegacySpec => []RestoresContent
<1>1. PartsInv => RestoresContent
  BY ObjHolds DEF PartsInv
<1>2. QED
  BY <1>1, PartsAlways, PTL

\* No row points to what is not there, wherever a call was cut short: secrets
\* have their current version, blobs their bytes, principals their registry
\* entry, rollbacks their deployment, and no open backend is out of reach.
THEOREM NothingLeftDangling == LegacySpec => []NothingDangling
<1>1. PartsInv => NothingDangling
  BY VaultHolds, BlobHolds, IdentityHolds DEF PartsInv, NothingDangling, DeployInv, RouterInv
<1>2. QED
  BY <1>1, PartsAlways, PTL

\* What was archived, revoked, uninstalled or sealed stays closed.
THEOREM ClosedStay == LegacySpec => []ClosedStaysClosed
<1>1. PartsInv => ClosedStaysClosed
  BY TenancyHolds, VaultHolds, PluginsHold, ColdHolds DEF PartsInv, ClosedStaysClosed
<1>2. QED
  BY <1>1, PartsAlways, PTL

\* Two ways to one answer agree: listing and checking, caches and tables,
\* explanations and decisions, inherited and nearest settings, verification
\* and the chain.
THEOREM AnswersStayAlike == ASSUME LongHorizon PROVE LegacySpec => []AnswersAgree
<1>1. AuditInv /\ PartsInv => AnswersAgree
  BY AuditHolds, ListingAgrees, RulesHold, SettingsHold DEF PartsInv, AnswersAgree
<1>2. QED
  BY <1>1, AuditAlways, PartsAlways, PTL

\* Quotas, rates and the connector's gates hold although checks and what they
\* admit are separate steps.
THEOREM GatesStay == LegacySpec => []GatesHold
<1>1. PartsInv => GatesHold
  BY LimitsHold DEF PartsInv, GatesHold, ConnectorInv
<1>2. QED
  BY <1>1, PartsAlways, PTL

\* No message is accepted twice or refused for another's sake, with one sending
\* process, and no URN has two active entries.
THEOREM OnceAndNoMore == ASSUME OneSender PROVE LegacySpec => []OnlyOnce
<1>1. PartsInv /\ InTurn => OnlyOnce
  BY FederationHolds, IdentityHolds DEF PartsInv, OnlyOnce
<1>2. QED
  BY <1>1, PartsAlways, InTurnAlways, PTL

\* What the database says has happened has happened: deployments, traffic,
\* stages, snapshots, archives and the state of environments.
THEOREM RecordsStayTrue == LegacySpec => []RecordsTrue
<1>1. PartsInv => RecordsTrue
  BY BlobHolds, ColdHolds, EnvHolds DEF PartsInv, RecordsTrue, DeployInv, ConnectorInv, StageInv
<1>2. QED
  BY <1>1, PartsAlways, PTL

\* No step of another undoes what was done: versions and audit entries keep
\* their content, memberships end only as they may, secrets do not rotate
\* back, policies do not warm anything up.
THEOREM NothingIsUndone == ASSUME LongHorizon PROVE LegacySpec => NothingUndone
<1> DEFINE Undoes ==
      CASE focus = "objects" -> KeepsVersions
        [] focus = "audit" -> KeepsEntries
        [] focus = "tenancy" -> KeepsGrants
        [] focus = "vault" -> RotatesForward
        [] focus = "tiers" -> PoliciesCool'
        [] OTHER -> TRUE
<1>1. PartsInv => PoliciesCool
  BY ColdHolds DEF PartsInv
<1>2. AuditInv /\ PartsInv /\ PoliciesCool' /\ [LegacyNext]_legacyVars => Undoes
  <2> SUFFICES ASSUME AuditInv, PartsInv, PoliciesCool', [LegacyNext]_legacyVars PROVE Undoes
    OBVIOUS
  <2>1. KeepsVersions /\ KeepsEntries /\ KeepsGrants /\ RotatesForward
    BY StoresMove, ObjStep, AuditStep, TenancyStep, VaultStep DEF PartsInv
  <2>2. QED
    BY <2>1
<1>3. QED
  BY <1>1, <1>2, AuditAlways, PartsAlways, PTL DEF LegacySpec, NothingUndone

\* Promotion takes every object along, and a restored snapshot is what the
\* environment then has.
THEOREM EnvironmentsAreKept == LegacySpec => EnvironmentsKeep
<1>1. PartsInv /\ [LegacyNext]_legacyVars => PromotesEach /\ MatchesSnapshot
  BY PoliciesMove, EnvStep DEF PartsInv
<1>2. QED
  BY <1>1, PartsAlways, PTL DEF LegacySpec, EnvironmentsKeep

=============================================================================
