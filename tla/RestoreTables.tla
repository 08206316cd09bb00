--------------------------- MODULE RestoreTables ----------------------------
(***************************************************************************)
(* The tables the restore planner works from: the components of the         *)
(* coverage registry, their dependencies and phases, and what may be        *)
(* restored automatically and with which credentials.                       *)
(***************************************************************************)
EXTENDS Naturals, Sequences

\* The components of spec/coverage-registry.yaml, in its order.
RegistryTable == <<
  "database.roles", "database.schema", "database.data", "database.migrations",
  "database.auth_storage_customizations", "database.extensions",
  "database.extension_state", "database.cron", "database.queues",
  "database.webhooks", "database.vault_data", "database.publications",
  "database.postgres_config", "database.pooler", "database.pgbouncer",
  "database.ssl", "database.backup_schedule", "database.vault_root_key",
  "auth.data", "auth.config", "auth.sso", "auth.tpa", "auth.signing_keys",
  "auth.legacy_signing_key", "api.modern_keys", "api.legacy_keys_state",
  "edge.functions", "edge.secrets", "storage.service_config",
  "storage.file_buckets", "storage.file_objects", "storage.file_metadata",
  "storage.vector_buckets", "storage.vector_indexes", "storage.vectors",
  "storage.analytics_catalog", "storage.analytics_data", "realtime.config",
  "rest.postgrest_config", "domains.custom_hostname",
  "domains.vanity_subdomain", "network.restrictions", "network.private_link",
  "project.metadata", "project.disk_autoscale", "project.addons",
  "project.read_replicas", "project.log_drains", "project.jit_access",
  "project.branches", "diagnostics.readonly", "diagnostics.health",
  "external.dns", "external.smtp_provider", "external.oauth_provider" >>

AllComponents == {RegistryTable[i] : i \in DOMAIN RegistryTable}

BillableTable == {
  "database.backup_schedule", "domains.custom_hostname",
  "domains.vanity_subdomain", "network.private_link", "project.addons",
  "project.disk_autoscale", "project.read_replicas"}

InspectionOnlyTable == {
  "diagnostics.health", "diagnostics.readonly", "project.branches",
  "project.metadata"}

ExternalTable == {"external.dns", "external.smtp_provider", "external.oauth_provider"}

DependsOn(c) ==
  CASE c \in {"database.vault_root_key", "database.roles"} -> {"database.extensions"}
    [] c = "database.schema" -> {"database.roles"}
    [] c = "database.data" -> {"database.schema"}
    [] c \in {"auth.data", "database.migrations", "database.publications",
              "database.auth_storage_customizations", "rest.postgrest_config"}
         -> {"database.data"}
    [] c = "database.vault_data" -> {"database.data", "database.vault_root_key"}
    [] c \in {"database.cron", "database.queues", "database.extension_state"}
         -> {"database.data", "database.extensions"}
    [] c = "database.webhooks" -> {"database.schema", "database.extensions"}
    [] c = "storage.file_buckets" -> {"database.data", "storage.service_config"}
    [] c = "storage.file_objects" -> {"storage.file_buckets"}
    [] c = "storage.file_metadata" -> {"storage.file_objects"}
    [] c = "storage.vector_indexes" -> {"storage.vector_buckets"}
    [] c = "storage.vectors" -> {"storage.vector_indexes"}
    [] c = "storage.analytics_data" -> {"storage.analytics_catalog"}
    [] c = "auth.config" -> {"auth.data"}
    [] c \in {"auth.sso", "auth.tpa", "auth.signing_keys", "auth.legacy_signing_key"}
         -> {"auth.config"}
    [] c = "realtime.config" -> {"database.publications"}
    [] c = "network.restrictions" -> {"database.data", "rest.postgrest_config"}
    [] c \in {"domains.custom_hostname", "domains.vanity_subdomain",
              "network.private_link"} -> {"network.restrictions"}
    [] OTHER -> {}

DependencyTable == [c \in AllComponents |-> DependsOn(c)]

PhaseOf(c) ==
  CASE c = "database.extensions" -> 2
    [] c = "database.vault_root_key" -> 3
    [] c = "database.roles" -> 4
    [] c = "database.schema" -> 5
    [] c = "database.data" -> 6
    [] c \in {"auth.data", "database.cron", "database.extension_state",
              "database.queues", "database.vault_data", "database.webhooks"} -> 7
    [] c \in {"database.migrations", "database.auth_storage_customizations"} -> 8
    [] c = "database.publications" -> 9
    [] c \in {"storage.service_config", "storage.file_buckets"} -> 10
    [] c = "storage.file_objects" -> 11
    [] c \in {"storage.file_metadata", "storage.vector_buckets",
              "storage.vector_indexes", "storage.vectors",
              "storage.analytics_catalog", "storage.analytics_data"} -> 12
    [] c = "edge.secrets" -> 13
    [] c = "edge.functions" -> 14
    [] c \in {"auth.config", "auth.sso", "auth.tpa"} -> 15
    [] c \in {"auth.signing_keys", "auth.legacy_signing_key"} -> 16
    [] c \in {"api.modern_keys", "api.legacy_keys_state"} -> 17
    [] c \in {"realtime.config", "rest.postgrest_config"} -> 18
    [] c \in {"network.restrictions", "network.private_link",
              "domains.custom_hostname", "domains.vanity_subdomain"} -> 19
    [] c \in BillableTable \cup {"project.metadata", "project.log_drains",
              "project.jit_access", "project.branches"} -> 20
    [] OTHER -> 1

PhaseTable == [c \in AllComponents |-> PhaseOf(c)]

StorageKeyTable == {
  "storage.file_buckets", "storage.file_objects", "storage.file_metadata",
  "storage.vector_buckets", "storage.vector_indexes", "storage.vectors"}

DatabaseTable == {
  "database.extensions", "database.roles", "database.schema", "database.data",
  "auth.data", "database.cron", "database.queues", "database.webhooks",
  "database.migrations", "database.auth_storage_customizations",
  "database.publications", "database.vault_root_key", "storage.file_buckets",
  "storage.file_objects", "storage.file_metadata"}

ManagementTable == {
  "database.vault_root_key", "storage.service_config", "edge.functions",
  "auth.config", "auth.sso", "auth.tpa", "api.modern_keys",
  "api.legacy_keys_state", "database.postgres_config", "database.pooler",
  "database.ssl", "realtime.config", "rest.postgrest_config",
  "network.restrictions"} \cup StorageKeyTable

AutomaticTable == {
  "database.extensions", "database.roles", "database.schema", "database.data",
  "auth.data", "database.cron", "database.queues", "database.webhooks",
  "database.migrations", "database.auth_storage_customizations",
  "database.publications", "storage.service_config", "storage.file_buckets",
  "storage.file_objects", "storage.file_metadata", "storage.vector_buckets",
  "storage.vector_indexes", "storage.vectors", "edge.functions",
  "auth.config", "auth.sso", "auth.tpa", "api.modern_keys",
  "api.legacy_keys_state", "database.postgres_config", "database.pooler",
  "database.ssl", "realtime.config", "rest.postgrest_config",
  "network.restrictions", "database.vault_root_key"}

=============================================================================
