------------------------------ MODULE MCLegacy ------------------------------
(***************************************************************************)
(* The stores of the 1.x framework, and its dealings with the outside, for *)
(* TLC: in every behaviour one part, the focus, moves.                     *)
(***************************************************************************)
EXTENDS AuditTrail, Migrations, ObjectStore, Tenancy, ScopeSettings, SecretVault,
        Rules, Limits, Environments, BlobStore, Identities,
        Deployments, StageFlow, Connector, Federation, TenantRouter, Plugins,
        ColdStorage, TLC

\* The two threads, contents or objects of every part: which is which matters
\* to none.
CONSTANTS one, two
MCSymmetry == Permutations({one, two})

\* A team in an organisation.
MCParentOf == "team" :> "org" @@ "org" :> NoScope

\* A rule without conditions, and one with two.
MCCondition == {<<>>, "action" :> {"read"} @@ "principal_kind" :> {"user"}}

\* The threads that send to another instance are of one process.
MCProcessOf == [s \in SenderThread |-> 1]

VARIABLE focus

storeVars == <<auditVars, migVars, objVars, tenancyVars, settingsVars, vaultVars>>
policyVars == <<ruleVars, limitVars, envVars, blobVars, identityVars>>
outerVars == <<deploymentVars, stageVars, connectorVars, federationVars, routerVars,
               pluginVars, coldVars>>
legacyVars == <<storeVars, policyVars, outerVars, focus>>

\* What has several initial states has them in its own behaviours only.
LegacyInit ==
  /\ focus \in {"audit", "migrations", "objects", "tenancy", "settings", "vault",
                "rules", "limits", "environments", "snapshots", "blobs", "identities", "deployments",
                "stages", "connector", "federation", "router", "plugins", "tiers", "archives"}
  /\ AuditInit /\ MigInit /\ ObjInit /\ TenancyInit /\ SettingsInit /\ VaultInit
  /\ RulesInit /\ LimitsInit /\ EnvInit /\ BlobInit /\ IdentityInit
  /\ DeploymentsInit /\ StageInit /\ ConnectorInit /\ FederationInit /\ RouterInit
  /\ PluginsInit /\ ColdInit
  /\ focus # "migrations" => backend = "sqlite"
  /\ focus # "objects" => level = "admin"
  /\ focus # "limits" => setup = [engine |-> "sqlite", quota |-> TRUE]
  /\ focus # "connector" => link.direction = "outbound"
  /\ focus # "plugins" => enforcing

LegacyNext ==
  /\ UNCHANGED focus
  /\ \/ /\ focus = "audit" /\ AuditNext
        /\ UNCHANGED <<migVars, objVars, tenancyVars, settingsVars, vaultVars, policyVars,
                       outerVars>>
     \/ /\ focus = "migrations" /\ MigNext
        /\ UNCHANGED <<auditVars, objVars, tenancyVars, settingsVars, vaultVars, policyVars,
                       outerVars>>
     \/ /\ focus = "objects" /\ ObjNext
        /\ UNCHANGED <<auditVars, migVars, tenancyVars, settingsVars, vaultVars, policyVars,
                       outerVars>>
     \/ /\ focus = "tenancy" /\ TenancyNext
        /\ UNCHANGED <<auditVars, migVars, objVars, settingsVars, vaultVars, policyVars,
                       outerVars>>
     \/ /\ focus = "settings" /\ SettingsNext
        /\ UNCHANGED <<auditVars, migVars, objVars, tenancyVars, vaultVars, policyVars,
                       outerVars>>
     \/ /\ focus = "vault" /\ VaultNext
        /\ UNCHANGED <<auditVars, migVars, objVars, tenancyVars, settingsVars, policyVars,
                       outerVars>>
     \/ /\ focus = "rules" /\ RulesNext
        /\ UNCHANGED <<storeVars, limitVars, envVars, blobVars, identityVars, outerVars>>
     \/ /\ focus = "limits" /\ LimitsNext
        /\ UNCHANGED <<storeVars, ruleVars, envVars, blobVars, identityVars, outerVars>>
     \/ /\ focus = "environments" /\ (CallsNext \/ MishapsNext)
        /\ UNCHANGED <<storeVars, ruleVars, limitVars, blobVars, identityVars, outerVars>>
     \/ /\ focus = "snapshots" /\ (CallsNext \/ SnapshotsNext)
        /\ UNCHANGED <<storeVars, ruleVars, limitVars, blobVars, identityVars, outerVars>>
     \/ /\ focus = "blobs" /\ BlobNext
        /\ UNCHANGED <<storeVars, ruleVars, limitVars, envVars, identityVars, outerVars>>
     \/ /\ focus = "identities" /\ IdentityNext
        /\ UNCHANGED <<storeVars, ruleVars, limitVars, envVars, blobVars, outerVars>>
     \/ /\ focus = "deployments" /\ DeploymentsNext
        /\ UNCHANGED <<storeVars, policyVars, stageVars, connectorVars, federationVars,
                       routerVars, pluginVars, coldVars>>
     \/ /\ focus = "stages" /\ StageNext
        /\ UNCHANGED <<storeVars, policyVars, deploymentVars, connectorVars,
                       federationVars, routerVars, pluginVars, coldVars>>
     \/ /\ focus = "connector" /\ ConnectorNext
        /\ UNCHANGED <<storeVars, policyVars, deploymentVars, stageVars, federationVars,
                       routerVars, pluginVars, coldVars>>
     \/ /\ focus = "federation" /\ FederationNext
        /\ UNCHANGED <<storeVars, policyVars, deploymentVars, stageVars, connectorVars,
                       routerVars, pluginVars, coldVars>>
     \/ /\ focus = "router" /\ RouterNext
        /\ UNCHANGED <<storeVars, policyVars, deploymentVars, stageVars, connectorVars,
                       federationVars, pluginVars, coldVars>>
     \/ /\ focus = "plugins" /\ PluginsNext
        /\ UNCHANGED <<storeVars, policyVars, deploymentVars, stageVars, connectorVars,
                       federationVars, routerVars, coldVars>>
     \/ /\ focus = "tiers" /\ TiersNext
        /\ UNCHANGED <<storeVars, policyVars, deploymentVars, stageVars, connectorVars,
                       federationVars, routerVars, pluginVars>>
     \/ /\ focus = "archives" /\ ArchivesNext
        /\ UNCHANGED <<storeVars, policyVars, deploymentVars, stageVars, connectorVars,
                       federationVars, routerVars, pluginVars>>

LegacySpec == LegacyInit /\ [][LegacyNext]_legacyVars

\* Types of the state of the part that moves.
LegacyTypeOK ==
  /\ focus = "audit" => AuditTypeOK
  /\ focus = "migrations" => MigTypeOK
  /\ focus = "objects" => ObjTypeOK
  /\ focus = "tenancy" => TenancyTypeOK
  /\ focus = "settings" => SettingsTypeOK
  /\ focus = "vault" => VaultTypeOK
  /\ focus = "rules" => RulesTypeOK
  /\ focus = "limits" => LimitsTypeOK
  /\ focus \in {"environments", "snapshots"} => EnvTypeOK
  /\ focus = "blobs" => BlobTypeOK
  /\ focus = "identities" => IdentityTypeOK
  /\ focus = "deployments" => DeploymentsTypeOK
  /\ focus = "stages" => StageTypeOK
  /\ focus = "connector" => ConnectorTypeOK
  /\ focus = "federation" => FederationTypeOK
  /\ focus = "router" => RouterTypeOK
  /\ focus = "plugins" => PluginsTypeOK
  /\ focus \in {"tiers", "archives"} => ColdTypeOK

-----------------------------------------------------------------------------
(* What the parts promise; each conjunct is stated in the part's module,   *)
(* and asked for where that part moves: elsewhere it is in its initial     *)
(* state.                                                                  *)

\* Whatever died or failed between two statements: the current version of a
\* secret, the bytes of a blob, the registry entry of a principal, the reversal
\* of a deployment and the cached backend of a tenant are there, and no open
\* backend is out of reach.
NothingDangling ==
  /\ focus = "vault" => CurrentReadable
  /\ focus = "blobs" => BlobReadable
  /\ focus = "identities" => PeopleRegistered
  /\ focus = "deployments" => RolledBackHasReversal
  /\ focus = "router" => CachedIsOpen /\ NoBackendLeaks

\* What was archived, revoked, uninstalled or sealed stays so for every later
\* call: scopes let nobody in, references give no plaintext, handlers of
\* plugins are not called and their hooks do not come back, archives are not
\* deleted.
ClosedStaysClosed ==
  /\ focus = "tenancy" => ClosedForGood
  /\ focus = "vault" => ResolvesOpenOnly
  /\ focus = "plugins" => HandlersOfActive /\ RemovedForGood
  /\ focus = "archives" => SealedStays

\* Where the code has two ways to an answer they agree: listing objects and
\* checking one, deciding with and without explanation, cached and stored
\* rules, inherited settings and the nearest one, and verification and the
\* chain it verifies.
AnswersAgree ==
  /\ focus = "tenancy" => ListMatchesSight
  /\ focus = "rules" => ExplanationAgrees /\ CacheHonest
  /\ focus = "settings" => NearestWins
  /\ focus = "audit" => NoFalseAlarm

\* The gates hold although their checks and what they admit are separate
\* steps: quotas and rates are exceeded by no more than the threads that race,
\* no secret and nothing unapproved goes to another organisation.
GatesHold ==
  /\ focus = "limits" => QuotaBounded /\ RateBounded
  /\ focus = "connector" => SecretsStay /\ NeverUnapproved

\* No message is accepted twice, or refused for another's sake, and no URN has
\* two active entries.
OnlyOnce ==
  /\ focus = "federation" => AcceptedOnce /\ NoFalseReplay
  /\ focus = "identities" => OneActivePerUrn

\* Whatever commands were cut short, a database with every migration applied
\* has every table, and on SQLite a command can be given again.
SchemaReached == focus = "migrations" => FullyMigrated /\ Repeatable

\* What the database says has happened: deployments that are deployed ran,
\* traffic that succeeded arrived, objects came from the stages they left,
\* snapshots and archives have what they stand for, and the state of an
\* environment that no mishap has set adrift tells whether its scope is open.
RecordsTrue ==
  /\ focus = "deployments" => DeployedHasRun
  /\ focus = "connector" => RecordedTruly
  /\ focus = "stages" => StagesConnected
  /\ focus = "blobs" => SnapshotsIntact
  /\ focus = "archives" => ArchiveCovers
  /\ focus = "environments" => ScopeFollowsState

\* Steps of others never undo what was done: versions and audit entries keep
\* their content, memberships end only as they may, secrets do not rotate
\* back, and retention policies do not warm anything up.
NothingUndone ==
  [][CASE focus = "objects" -> KeepsVersions
       [] focus = "audit" -> KeepsEntries
       [] focus = "tenancy" -> KeepsGrants
       [] focus = "vault" -> RotatesForward
       [] focus = "tiers" -> PoliciesCool'
       [] OTHER -> TRUE]_legacyVars

\* Promotion takes every object along, and a restored snapshot is what the
\* environment then has, whatever failed on the way.
EnvironmentsKeep ==
  [][(focus \in {"environments", "snapshots"}) => PromotesEach /\ MatchesSnapshot]_legacyVars

=============================================================================
