--------------------------- MODULE Configuration ----------------------------
(* rustium-config: validation of a Config, the fingerprint kept with every   *)
(* checkpoint, the warnings about properties that were not read, and what a  *)
(* source publishes under a Config (the use its crate makes of each field).  *)
EXTENDS DebeziumProperties

CONSTANTS Tables, Columns, MessagePrefixes

-----------------------------------------------------------------------------
(* validate *)

\* validate_table_patterns and the other selector checks.
ValidPatterns(patterns) == \A p \in ToSet(patterns) : ValidPattern(p)

\* validate_heartbeat.
ValidHeartbeat(c) ==
  /\ ~Blank(c.heartbeat_topics_prefix)
  /\ ~Blank(c.heartbeat_topic_name)
  /\ "heartbeat_action_query" \in DOMAIN c => ~Blank(c.heartbeat_action_query)

\* The signal settings PostgreSQL, MySQL and SQL Server check alike.
ValidSignals(c) ==
  /\ ~Zero(c.incremental_snapshot_chunk_size)
  /\ c.incremental_snapshot_watermarking_strategy = <<"insert_insert">>
  /\ ~Zero(c.signal_poll_interval)
  /\ ToSet(c.signal_enabled_channels) \subseteq Channels
  /\ "file" \in ToSet(c.signal_enabled_channels) => ~Blank(c.signal_file)
  /\ "kafka" \in ToSet(c.signal_enabled_channels) =>
       /\ Present(c.signal_kafka_bootstrap_servers)
       /\ "" \notin ToSet(c.signal_kafka_bootstrap_servers)
       /\ ~Blank(c.signal_kafka_group_id)
       /\ ~Blank(c.signal_kafka_topic)
       /\ c.signal_auto_commit \in {Absent, <<"false">>}

\* ColumnTransformRule::validate.
ValidTransformations(c) ==
  \A i \in DOMAIN c.column_transformations :
    /\ Present(c.column_transformations[i].columns)
    /\ ValidPatterns(c.column_transformations[i].columns)

\* PostgresSourceConfig::validate.
ValidPostgreSql(c) ==
  /\ ~Blank(c.database) /\ ~Blank(c.username)
  /\ ValidName(c.slot_name) /\ ValidName(c.publication)
  /\ c.slot_ownership = <<"external">> =>
       /\ ~True(c.drop_slot_on_stop) /\ ~True(c.slot_failover)
       /\ c.offset_mismatch_strategy \notin {<<"trust_offset">>, <<"trust_greater_lsn">>}
  /\ \A t \in {c.connect_timeout, c.status_update_interval, c.lsn_flush_timeout} : ~Zero(t)
  /\ c.ssl_mode[1] \in {"disable", "allow", "prefer", "require", "verify-ca", "verify-full"}
  /\ ~Blank(c.ssl_root_cert)
  /\ \A file \in {c.ssl_cert, c.ssl_key, c.ssl_key_password} : ~Present(file)
  /\ ToSet(c.slot_stream_params) \subseteq {"origin=any", "origin=none"}
  /\ "" \notin ToSet(c.database_initial_statements)
  /\ ValidPatterns(c.tables_include \o c.tables_exclude)
  /\ ValidHeartbeat(c) /\ ValidSignals(c) /\ ValidTransformations(c)
  /\ c.hstore_handling_mode[1] \in {"json", "map"}
  /\ c.interval_handling_mode[1] \in {"postgres", "numeric", "string"}
  /\ Absent \in {c.message_prefix_include_list, c.message_prefix_exclude_list}
  /\ ValidPatterns(c.message_prefix_include_list \o c.message_prefix_exclude_list)

\* MySqlSourceConfig::validate; session_time_zone knows the names of UTC only.
ValidMySql(c) ==
  /\ ~Blank(c.username) /\ ~Zero(c.server_id)
  /\ ~Zero(c.connect_keep_alive_interval)
  /\ True(c.connect_keep_alive) => ~Zero(c.reconnect_max_attempts)
  /\ c.connection_time_zone[1] \in {"+00:00", "UTC", "Z", "Etc/UTC"}
  /\ ValidHeartbeat(c) /\ ValidSignals(c) /\ ValidTransformations(c)
  /\ c.ssl_mode[1] \in {"disabled", "preferred", "required", "verify_ca", "verify_identity"}
  /\ Present(c.ssl_cert) <=> Present(c.ssl_key)
  /\ Present(c.ssl_keystore) => ~Present(c.ssl_cert)
  /\ Present(c.ssl_truststore) => ~Present(c.ssl_ca)
  /\ Present(c.ssl_keystore_password) => Present(c.ssl_keystore)
  /\ Present(c.ssl_truststore_password) => Present(c.ssl_truststore)
  /\ c.ssl_mode = <<"disabled">> =>
       \A file \in {c.ssl_ca, c.ssl_cert, c.ssl_keystore, c.ssl_truststore} : ~Present(file)
  /\ "" \notin ToSet(c.databases)
  /\ Absent \in {c.gtid_source_includes, c.gtid_source_excludes}
  /\ ValidPatterns(c.gtid_source_includes \o c.gtid_source_excludes)
  /\ ValidPatterns(c.tables_include \o c.tables_exclude)

\* SqlServerSourceConfig::validate.
ValidSqlServer(c) ==
  /\ ~Blank(c.username) /\ Len(c.databases) = 1 /\ ~Zero(c.streaming_fetch_size)
  /\ ValidHeartbeat(c) /\ ValidSignals(c) /\ ValidTransformations(c)
  /\ c.snapshot_isolation_mode[1] \in
       {"exclusive", "snapshot", "repeatable_read", "read_committed", "read_uncommitted"}
  /\ ValidPatterns(c.tables_include \o c.tables_exclude)

\* OracleSourceConfig::validate.
ValidOracle(c) ==
  /\ ~Blank(c.username) /\ ~Blank(c.database) /\ ~Blank(c.pdb_name)
  /\ ~Zero(c.connect_timeout) /\ ~Zero(c.poll_interval) /\ ~Zero(c.batch_size)
  /\ c.log_mining_strategy = <<"online_catalog">>
  /\ "" \notin ToSet(c.schemas)
  /\ ValidHeartbeat(c)
  /\ ValidPatterns(c.tables_include \o c.tables_exclude)

\* MongoDbSourceConfig::validate: it does not check the heartbeat topic.
ValidMongoDb(c) ==
  /\ StartsWith(c.connection_string[1], "mongodb://")
  /\ ~Zero(c.connect_timeout) /\ ~Zero(c.poll_interval) /\ ~Zero(c.batch_size)
  /\ "" \notin ToSet(c.databases)
  /\ c.full_document[1] \in {"default", "update_lookup"}
  /\ c.full_document_before_change[1] \in {"off", "when_available", "required"}
  /\ ValidPatterns(c.tables_include \o c.tables_exclude)

\* DebeziumBridgeConfig::validate.
ValidTransport(c) ==
  IF c.bridge_type = <<"http">>
  THEN /\ StartsWith(c.path[1], "/") /\ ~Blank(c.authentication_token)
       /\ ~Zero(c.request_timeout) /\ ~Zero(c.max_body_size)
  ELSE /\ Present(c.bootstrap_servers) /\ Present(c.topics)
       /\ "" \notin ToSet(c.bootstrap_servers \o c.topics)
       /\ ~Blank(c.group_id) /\ ~Zero(c.poll_timeout)
       /\ ~Present(c.consumer_properties)

\* DebeziumSourceConfig::validate: what a managed process excludes.
ValidBridge(kind, c) ==
  /\ ~Blank(c.command)
  /\ Present(c.command) =>
       /\ ~Blank(c.offset_file) /\ ~Blank(c.schema_history_file)
       /\ c.bridge_type = <<"http">>
       /\ ~Present(c.authentication_token)
       /\ "topic.prefix" \in DOMAIN c.properties
       /\ kind # "cassandra"
  /\ kind # "cassandra" /\ "connector.class" \in DOMAIN c.properties =>
       ClassOf[c.properties["connector.class"][1]] = kind
  /\ ValidTransport(c)
  /\ ValidHeartbeat(c)

\* SourceConfig::validate.
ValidSource(kind, c) ==
  CASE kind = "postgresql" -> ValidPostgreSql(c)
    [] kind = "mysql" -> ValidMySql(c)
    [] kind = "sqlserver" -> ValidSqlServer(c)
    [] kind = "oracle" -> ValidOracle(c)
    [] kind = "mongodb" -> ValidMongoDb(c)
    [] OTHER -> ValidBridge(kind, c)

\* SinkConfig::validate: acknowledgements are always those of all replicas, and
\* no property may override what Rustium manages.
ValidSink(c) ==
  /\ ValidName(c.topic_prefix)
  /\ c.sink_type = <<"kafka">> =>
       /\ Present(c.sink_servers) /\ "" \notin ToSet(c.sink_servers)
       /\ c.acks \in {<<"all">>, <<"-1">>}
       /\ ~Zero(c.delivery_timeout)
       /\ ~Present(c.sink_properties)

\* FormatConfig::validate and SchemaRegistryConfig::validate.
ValidFormat(c) ==
  IF c.format_type[1] \in {"debezium_json_schema", "debezium_avro", "debezium_protobuf"}
  THEN /\ c.sink_type = <<"kafka">>
       /\ Present(c.registry_urls)
       /\ \A url \in ToSet(c.registry_urls) : StartsWith(url, "http://")
       /\ Present(c.registry_password) => Present(c.registry_username)
       /\ ~Zero(c.registry_request_timeout) /\ ~Zero(c.registry_cache_capacity)
  ELSE ~Present(c.registry_urls)

\* Config::validate.
Valid(kind, c) ==
  /\ ValidName(c.name)
  /\ ValidSource(kind, c) /\ ValidSink(c) /\ ValidFormat(c)
  /\ ~Zero(c.snapshot_fetch_size)
  /\ ValidPatterns(c.snapshot_include_collections)
  /\ ~Zero(c.channel_capacity)
  /\ Int32(c.max_batch_size) \in 1..Int32(c.channel_capacity)
  /\ Int32(c.errors_max_retries) >= -1
  /\ ~Zero(c.errors_retry_delay_initial)
  /\ Int32(c.errors_retry_delay_max) >= Int32(c.errors_retry_delay_initial)

\* Config::load: a Debezium file is of the kind its class says.
Parses(form, kind, file) ==
  IF form = "properties"
  THEN /\ "connector.class" \in DOMAIN file
       /\ file["connector.class"][1] \in DOMAIN ClassOf
       /\ ClassOf[file["connector.class"][1]] = kind
       /\ PropertiesParse(kind, file)
  ELSE YamlParses(kind, file)
ConfigOf(form, kind, file) ==
  IF form = "properties" THEN FromProperties(kind, file) ELSE FromYaml(kind, file)
Loads(form, kind, file) ==
  Parses(form, kind, file) /\ Valid(kind, ConfigOf(form, kind, file))

-----------------------------------------------------------------------------
(* fingerprint *)

\* These fields of the configuration, or none of them.
Fields(c, fields) == [f \in fields |-> c[f]]
When(condition, c, fields) == IF condition THEN Fields(c, fields) ELSE <<>>

\* add_heartbeat_semantics: nothing as long as every value is the default.
HeartbeatSemantics(c) ==
  LET fields == DOMAIN HeartbeatDefaults \cap DOMAIN c
  IN When(\E f \in fields : c[f] # HeartbeatDefaults[f], c, fields)

\* column_transformation_semantics: by priority, whatever the order they are written in.
OfKind(rules, kind) == SelectSeq(rules, LAMBDA r : r.kind = kind)
ByPriority(rules) == OfKind(rules, "truncate") \o OfKind(rules, "mask") \o
                     OfKind(rules, "hash_v1") \o OfKind(rules, "hash_v2")
\* Faulty variant: the rules in the order of the file.
AsWritten(rules) == rules
RulesDigest(rules) == ByPriority(rules)
TransformationSemantics(c) ==
  IF Present(c.column_transformations)
  THEN [column_transformations |-> RulesDigest(c.column_transformations)] ELSE <<>>

\* captures_logical_decoding_messages.
CapturesMessages(c) ==
  \/ True(c.logical_decoding_messages)
  \/ Present(c.message_prefix_include_list)
  \/ Present(c.message_prefix_exclude_list)
\* Faulty variant: the lists count only with the flag.
FlagCapturesMessages(c) == True(c.logical_decoding_messages)
MessagesMatter(c) == CapturesMessages(c)

\* semantic_config of PostgreSQL: most fields only when they are not the default.
PostgreSqlSemantic(c) ==
  Fields(c, {"hostname", "port", "database", "publication", "slot_name", "tables_include",
             "tables_exclude", "hstore_handling_mode"}) @@
  When(c.publication_autocreate_mode # <<"disabled">>, c, {"publication_autocreate_mode"}) @@
  When(Present(c.replica_identity_autoset_values), c, {"replica_identity_autoset_values"}) @@
  When(True(c.publish_via_partition_root), c, {"publish_via_partition_root"}) @@
  When(True(c.slot_failover), c, {"slot_failover"}) @@
  When(c.offset_mismatch_strategy # <<"no_validation">>, c, {"offset_mismatch_strategy"}) @@
  When(c.lsn_flush_mode # <<"connector">>, c, {"lsn_flush_mode"}) @@
  When(c.snapshot_isolation_mode \notin {<<"serializable">>, <<"repeatable_read">>}, c,
       {"snapshot_isolation_mode"}) @@
  When(~Zero(c.xmin_fetch_interval), c, {"xmin_fetch_interval"}) @@
  When(Present(c.slot_stream_params), c, {"slot_stream_params"}) @@
  When(Present(c.database_initial_statements), c, {"database_initial_statements"}) @@
  HeartbeatSemantics(c) @@
  When(Present(c.signal_data_collection) \/ True(c.read_only), c,
       {"signal_data_collection", "incremental_snapshot_chunk_size",
        "incremental_snapshot_watermarking_strategy", "read_only"}) @@
  When(c.signal_enabled_channels # <<"source">>, c,
       {"signal_enabled_channels", "signal_file", "signal_poll_interval", "signal_kafka_topic",
        "signal_kafka_group_id"}) @@
  When(c.interval_handling_mode # <<"postgres">>, c, {"interval_handling_mode"}) @@
  When(True(c.include_unknown_datatypes), c, {"include_unknown_datatypes"}) @@
  When(c.money_fraction_digits # <<"2">>, c, {"money_fraction_digits"}) @@
  When(MessagesMatter(c), c, {"message_prefix_include_list", "message_prefix_exclude_list"}) @@
  TransformationSemantics(c)

\* The signal settings MySQL and SQL Server always put in.
SignalSemantics(c) ==
  Fields(c, DOMAIN SignalDefaults \ {"signal_kafka_poll_timeout", "signal_auto_commit"})

\* semantic_config of MySQL.
MySqlSemantic(c) ==
  Fields(c, {"hostname", "port", "databases", "server_id", "tables_include", "tables_exclude",
             "ssl_ca", "ssl_cert", "ssl_key", "schema_history_skip_unparseable_ddl",
             "gtid_source_includes", "gtid_source_excludes", "gtid_source_filter_dml_events"}) @@
  When(Present(c.ssl_keystore) \/ Present(c.ssl_truststore), c,
       {"ssl_keystore", "ssl_truststore"}) @@
  HeartbeatSemantics(c) @@ SignalSemantics(c) @@ TransformationSemantics(c)

\* semantic_config of SQL Server.
SqlServerSemantic(c) ==
  Fields(c, {"hostname", "port", "databases", "tables_include", "tables_exclude", "encrypt"}) @@
  HeartbeatSemantics(c) @@ SignalSemantics(c) @@ TransformationSemantics(c)

\* semantic_config of Oracle.
OracleSemantic(c) ==
  Fields(c, {"hostname", "port", "database", "pdb_name", "schemas", "tables_include",
             "tables_exclude", "log_mining_strategy", "archive_log_only_mode"}) @@
  HeartbeatSemantics(c)

\* semantic_config of MongoDB: the connection string as it is.
MongoDbSemantic(c) ==
  Fields(c, {"connection_string", "databases", "tables_include", "tables_exclude",
             "full_document", "full_document_before_change"}) @@
  HeartbeatSemantics(c)

\* semantic_config of the two transports.
TransportSemantic(c) ==
  Fields(c, IF c.bridge_type = <<"http">>
            THEN {"bridge_type", "listen", "path", "request_timeout", "max_body_size"}
            ELSE {"bridge_type", "bootstrap_servers", "topics", "group_id",
                  "consumer_properties", "poll_timeout"})

\* redacted_properties: the names the model's files use that sensitive_property hides.
Sensitive == {"database.password", "database.ssl.keystore.password",
              "key.converter.basic.auth.credentials.source",
              "value.converter.basic.auth.credentials.source"}
Redacted(properties) ==
  [p \in DOMAIN properties |-> IF p \in Sensitive THEN Absent ELSE properties[p]]

\* semantic_config of the Debezium bridge.
BridgeSemantic(c) ==
  TransportSemantic(c) @@
  Fields(c, {"command", "command_args", "offset_file", "schema_history_file",
             "heartbeat_topics_prefix", "heartbeat_topic_name"}) @@
  [properties |-> Redacted(c.properties), command_environment |-> Present(c.command_environment)]

\* SourceConfig::semantic_config.
SourceSemantic(kind, c) ==
  [type |-> kind] @@
  (CASE kind = "postgresql" -> PostgreSqlSemantic(c)
     [] kind = "mysql" -> MySqlSemantic(c)
     [] kind = "sqlserver" -> SqlServerSemantic(c)
     [] kind = "oracle" -> OracleSemantic(c)
     [] kind = "mongodb" -> MongoDbSemantic(c)
     [] OTHER -> BridgeSemantic(c))

\* semantic_config of the snapshot.
SnapshotSemantic(c) ==
  Fields(c, {"snapshot_mode", "snapshot_fetch_size"}) @@
  When(Present(c.snapshot_include_collections), c, {"snapshot_include_collections"})
\* ... of the format and its registry.
FormatSemantic(c) ==
  Fields(c, {"format_type", "unavailable_value", "tombstones_on_delete"}) @@
  When(Present(c.registry_urls), c, {"registry_urls", "registry_username",
                                     "registry_request_timeout", "registry_cache_capacity"})
\* ... of the sink: where to, and under which prefix.
SinkSemantic(c) ==
  Fields(c, {"sink_type", "topic_prefix"}) @@ When(c.sink_type = <<"kafka">>, c, {"sink_servers"})

\* Config::fingerprint, the digest left out.
Fingerprint(kind, c) ==
  [name |-> c.name, source |-> SourceSemantic(kind, c), snapshot |-> SnapshotSemantic(c),
   format |-> FormatSemantic(c), sink |-> SinkSemantic(c)]

-----------------------------------------------------------------------------
(* What is published under a configuration. *)

\* TableSelection::includes.
Includes(c, name) ==
  /\ c.tables_include = Absent \/ MatchesAny(c.tables_include, name)
  /\ ~MatchesAny(c.tables_exclude, name)

\* is_business_table of MySQL, discover_tables of Oracle, databases of MongoDB: the
\* database or schema lists are plain names there.
Captured(kind, c, t) ==
  /\ Includes(c, t.schema \o "." \o t.table)
  /\ kind \in {"mysql", "mongodb"} => c.databases = Absent \/ t.schema \in ToSet(c.databases)
  /\ kind = "oracle" => c.schemas = Absent \/ t.schema \in ToSet(c.schemas)
  /\ kind \in {"postgresql", "mysql", "sqlserver"} =>
       t.schema \o "." \o t.table \notin ToSet(c.signal_data_collection)

\* includes_message_prefix.
IncludesPrefix(c, prefix) ==
  /\ CapturesMessages(c)
  /\ c.message_prefix_include_list = Absent \/ MatchesAny(c.message_prefix_include_list, prefix)
  /\ ~MatchesAny(c.message_prefix_exclude_list, prefix)

\* ColumnTransformer: the first rule, by priority, with a selector for the column.
Transformation(c, column) ==
  LET matching == SelectSeq(ByPriority(c.column_transformations),
                            LAMBDA r : MatchesAny(r.columns, column))
  IN IF Present(matching) THEN [kind |-> matching[1].kind, by |-> matching[1].by]
     ELSE [kind |-> "none", by |-> ""]

\* includes_collection: which captured tables a snapshot reads.
Snapshotted(c, t) ==
  \/ c.snapshot_include_collections = Absent
  \/ MatchesAny(c.snapshot_include_collections, t.schema \o "." \o t.table)

\* The other fields a source decides by what to publish, or where to read it.
Deciding(kind, c) ==
  CASE kind = "postgresql" ->
         {"hostname", "port", "database", "publication", "slot_name",
          "publication_autocreate_mode", "publish_via_partition_root", "slot_stream_params",
          "hstore_handling_mode", "interval_handling_mode", "include_unknown_datatypes",
          "money_fraction_digits", "signal_data_collection", "read_only",
          "signal_enabled_channels"}
    [] kind = "mysql" ->
         {"hostname", "port", "gtid_source_includes", "gtid_source_excludes",
          "gtid_source_filter_dml_events", "schema_history_skip_unparseable_ddl",
          "signal_data_collection", "signal_enabled_channels"}
    [] kind = "sqlserver" ->
         {"hostname", "port", "databases", "signal_data_collection", "signal_enabled_channels"}
    [] kind = "oracle" -> {"hostname", "port", "database", "pdb_name", "archive_log_only_mode"}
    [] kind = "mongodb" -> {"databases", "full_document", "full_document_before_change"}
    [] OTHER -> {"bridge_type", "command"} \union
         IF c.bridge_type = <<"http">> THEN {"listen", "path"}
         ELSE {"bootstrap_servers", "topics", "group_id"}

\* Heartbeats are published while their interval is not zero.
Heartbeat(c) ==
  IF "heartbeat_interval" \in DOMAIN c /\ ~Zero(c.heartbeat_interval)
  THEN <<c.heartbeat_topics_prefix, c.heartbeat_topic_name>> ELSE <<>>

\* What a bridged Debezium process captures is decided by the properties it is given.
ProcessProperties == {"table.include.list", "snapshot.mode", "database.hostname", "connector.class"}

\* The servers of a MongoDB connection string: what follows the scheme and the credentials.
ServersOf(uri) ==
  LET signs == {i \in 1..Len(uri) : SubSeq(uri, i, i) = "@"}
      start == IF signs = {} THEN Len("mongodb://") ELSE CHOOSE i \in signs : \A j \in signs : j <= i
  IN SubSeq(uri, start + 1, Len(uri))

\* Everything about a configuration that its topics show.
StreamOf(kind, c) ==
  [tables   |-> IF kind \in Bridged THEN {} ELSE {t \in Tables : Captured(kind, c, t)},
   snapshot |-> [mode |-> c.snapshot_mode, read |-> {t \in Tables : Snapshotted(c, t)}],
   columns  |-> IF "column_transformations" \in DOMAIN c
                THEN [column \in Columns |-> Transformation(c, column)] ELSE <<>>,
   messages |-> IF kind = "postgresql" THEN {p \in MessagePrefixes : IncludesPrefix(c, p)} ELSE {},
   process  |-> IF kind \in Bridged
                THEN Fields(c.properties, ProcessProperties \cap DOMAIN c.properties) ELSE <<>>,
   fields   |-> Fields(c, Deciding(kind, c)),
   servers  |-> IF kind = "mongodb" THEN ServersOf(c.connection_string[1]) ELSE "",
   beats    |-> Heartbeat(c),
   format   |-> Fields(c, {"format_type", "unavailable_value", "tombstones_on_delete",
                           "registry_urls"}),
   topics   |-> Fields(c, {"name", "sink_type", "sink_servers", "topic_prefix"})]
=============================================================================
