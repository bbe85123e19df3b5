------------------------------ MODULE Schema ------------------------------
(***************************************************************************)
(* The tables of the 1.x framework, in the five places that spell them     *)
(* out: SQLiteBackend's script, PostgresBackend's script, the SQLAlchemy   *)
(* metadata, the initial migration and the migrations after it.            *)
(***************************************************************************)

\* SCHEMA_SQL of storage/sqlite.py, section by section.
LiteCore ==
  {"registry_entries", "principals", "principal_relationships",
   "scoped_objects", "object_versions", "tombstones"}
LiteTenancy ==
  {"scopes", "scope_memberships", "scope_projections", "rules", "rule_versions",
   "rule_bindings"}
LiteAudit ==
  {"audit_trail", "environments", "environment_templates",
   "environment_snapshots", "environment_objects"}
LiteFlow ==
  {"stages", "pipelines", "stage_transitions", "flow_channels", "promotions",
   "deployment_targets", "deployments", "deployment_gates"}
LiteSecrets ==
  {"secrets", "secret_versions", "secret_refs", "secret_access_log",
   "secret_policies"}
LitePlugins ==
  {"integrations", "plugins", "plugin_hooks", "plugin_permissions"}
LiteConnectors ==
  {"connectors", "connector_policies", "connector_traffic",
   "marketplace_listings", "marketplace_reviews", "marketplace_installs"}
LiteContracts ==
  {"contracts", "contract_versions", "blobs", "blob_versions", "scope_settings"}
LiteSearch ==
  {"search_index", "templates", "template_versions"}
LiteTiers ==
  {"tier_assignments", "retention_policies", "glacial_archives", "events",
   "event_subscriptions", "webhook_endpoints", "webhook_deliveries"}
LiteJobs ==
  {"notifications", "notification_rules", "notification_preferences",
   "recurring_schedules", "scheduled_actions", "jobs", "_sync_state"}

Lite == LiteCore \union LiteTenancy \union LiteAudit \union LiteFlow \union LiteSecrets
        \union LitePlugins \union LiteConnectors \union LiteContracts \union LiteSearch
        \union LiteTiers \union LiteJobs

\* SCHEMA_SQL of storage/postgres.py.
PgCore ==
  {"registry_entries", "principals", "principal_relationships",
   "scoped_objects", "object_versions", "tombstones"}
PgTenancy ==
  {"scopes", "scope_memberships", "scope_projections", "rules", "rule_versions",
   "rule_bindings"}
PgAudit ==
  {"audit_trail", "environments", "environment_templates",
   "environment_snapshots", "environment_objects"}
PgFlow ==
  {"stages", "pipelines", "stage_transitions", "flow_channels", "promotions",
   "deployment_targets", "deployments", "deployment_gates"}
PgSecrets ==
  {"secrets", "secret_versions", "secret_refs", "secret_access_log",
   "secret_policies"}
PgPlugins ==
  {"integrations", "plugins", "plugin_hooks", "plugin_permissions"}
PgConnectors ==
  {"connectors", "connector_policies", "connector_traffic",
   "marketplace_listings", "marketplace_reviews", "marketplace_installs"}
PgContracts ==
  {"contracts", "contract_versions", "blobs", "blob_versions", "scope_settings"}
PgSearch ==
  {"search_index", "templates", "template_versions"}
PgTiers ==
  {"tier_assignments", "retention_policies", "glacial_archives", "events",
   "event_subscriptions", "webhook_endpoints", "webhook_deliveries"}
PgJobs ==
  {"notifications", "notification_rules", "notification_preferences",
   "recurring_schedules", "scheduled_actions", "jobs", "_sync_state"}

Pg == PgCore \union PgTenancy \union PgAudit \union PgFlow \union PgSecrets \union PgPlugins
      \union PgConnectors \union PgContracts \union PgSearch \union PgTiers \union PgJobs

\* The tables of the scripts whose CREATE comes right after a section's
\* comment: a script that is split at its semicolons loses them, for the
\* statement then starts with "--".
Headed ==
  {"registry_entries", "principals", "scoped_objects", "scopes", "rules", "audit_trail",
   "environments", "stages", "deployment_targets", "secrets", "integrations", "connectors",
   "contracts", "blobs", "scope_settings", "search_index", "templates", "tier_assignments",
   "events", "notifications", "recurring_schedules", "_sync_state"}

\* The tables of PostgresBackend's script without a CREATE INDEX of their own.
PgUnindexed ==
  {"_sync_state", "deployment_targets", "environment_templates", "pipelines", "rule_versions",
   "secret_policies", "stages", "tombstones"}

\* The SQLAlchemy metadata of storage/_schema.py.
SaCore ==
  {"scoped_migrations", "registry_entries", "principals",
   "principal_relationships", "scoped_objects", "object_versions", "tombstones"}
SaTenancy ==
  {"scopes", "scope_memberships", "scope_projections", "rules", "rule_versions",
   "rule_bindings"}
SaAudit ==
  {"audit_trail", "environment_templates", "environments",
   "environment_snapshots", "environment_objects"}
SaFlow ==
  {"pipelines", "stages", "stage_transitions", "flow_channels", "promotions",
   "deployment_targets", "deployments", "deployment_gates"}
SaSecrets ==
  {"secrets", "secret_versions", "secret_refs", "secret_access_log",
   "secret_policies"}
SaPlugins ==
  {"integrations", "plugins", "plugin_hooks", "plugin_permissions"}
SaConnectors ==
  {"connectors", "connector_policies", "connector_traffic",
   "marketplace_listings", "marketplace_reviews", "marketplace_installs",
   "federation_sequences", "federation_seen_messages"}
SaContracts ==
  {"contracts", "contract_versions", "blobs", "blob_versions", "scope_settings"}
SaSearch ==
  {"search_index", "templates", "template_versions"}
SaTiers ==
  {"tier_assignments", "retention_policies", "glacial_archives", "events",
   "event_subscriptions", "webhook_endpoints", "webhook_deliveries"}
SaJobs ==
  {"notifications", "notification_rules", "notification_preferences",
   "recurring_schedules", "scheduled_actions", "jobs", "_sync_state"}

Metadata == SaCore \union SaTenancy \union SaAudit \union SaFlow \union SaSecrets \union SaPlugins
            \union SaConnectors \union SaContracts \union SaSearch \union SaTiers \union SaJobs

\* Migration 1.
InitCore ==
  {"registry_entries", "principals", "principal_relationships",
   "scoped_objects", "object_versions", "tombstones"}
InitTenancy ==
  {"scopes", "scope_memberships", "scope_projections", "rules", "rule_versions",
   "rule_bindings"}
InitAudit ==
  {"audit_trail", "environments", "environment_templates",
   "environment_snapshots", "environment_objects"}
InitFlow ==
  {"stages", "pipelines", "stage_transitions", "flow_channels", "promotions",
   "deployment_targets", "deployments", "deployment_gates"}
InitSecrets ==
  {"secrets", "secret_versions", "secret_refs", "secret_access_log",
   "secret_policies"}
InitPlugins ==
  {"integrations", "plugins", "plugin_hooks", "plugin_permissions"}
InitConnectors ==
  {"connectors", "connector_policies", "connector_traffic",
   "marketplace_listings", "marketplace_reviews", "marketplace_installs"}

InitialSchema == InitCore \union InitTenancy \union InitAudit \union InitFlow \union InitSecrets
                 \union InitPlugins \union InitConnectors

\* The later migrations that create tables.
AddContracts == {"contracts", "contract_versions"}
AddBlobs == {"blobs", "blob_versions"}
AddScopeSettings == {"scope_settings"}
AddSearchIndex == {"search_index"}
AddTemplates == {"templates", "template_versions"}
AddTieringArchival == {"tier_assignments", "retention_policies", "glacial_archives"}
AddSyncState == {"_sync_state"}
FederationReplay == {"federation_sequences", "federation_seen_messages"}

\* Migrations 8, 9 and 10: functions of their modules, in no class.
EventsWebhooks == {"events", "event_subscriptions", "webhook_endpoints", "webhook_deliveries"}
Notifications == {"notifications", "notification_rules", "notification_preferences"}
Scheduling == {"recurring_schedules", "scheduled_actions", "jobs"}

\* The tables migration 13 puts policies on, in its order: the ones compared
\* by owner_id, then by another column.
OwnerTables ==
  <<"scoped_objects", "scopes", "secrets", "secret_versions", "environments",
    "environment_templates", "stages", "pipelines", "deployment_targets", "contracts", "blobs",
    "search_index", "templates", "retention_policies", "glacial_archives",
    "event_subscriptions", "webhook_endpoints", "notification_rules", "recurring_schedules",
    "scheduled_actions", "jobs">>
MemberTables == <<"scope_memberships", "scope_projections", "notifications">>

\* The owner tables that have no owner_id.
Ownerless == {"secret_versions", "stages"}

=============================================================================
