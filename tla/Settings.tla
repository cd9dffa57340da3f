------------------------------ MODULE Settings ------------------------------
(* The settings of rustium-config: the fields of every configuration struct  *)
(* with their defaults, and the Debezium properties the parser reads each    *)
(* of them from.  A value is a sequence of strings: <<>> for a setting that  *)
(* is not there, <<"x">> for a scalar, longer ones for lists.                *)
EXTENDS Naturals, Sequences, TLC

Absent == <<>>

\* How a field is read: the properties that give it, the first one present
\* winning, and how the text is parsed.
Read(type, properties) == [from |-> properties, type |-> type, or |-> <<>>]
Text(property)    == Read("text", <<property>>)
List(property)    == Read("list", <<property>>)
Word(property)    == Read("word", <<property>>)
Bool(property)    == Read("bool", <<property>>)
Number(property)  == Read("number", <<property>>)
Integer(property) == Read("integer", <<property>>)
\* ... with a default of its own where the parser does not take the struct's.
Or(row, value)    == [row EXCEPT !.or = <<value>>]

-----------------------------------------------------------------------------
(* Defaults of the structs (the fields without one are required). *)

\* Fields every database source has (hostname, credentials, heartbeat).
LoginDefaults == [hostname |-> <<"localhost">>]
HeartbeatDefaults ==
  [heartbeat_interval |-> <<"0">>, heartbeat_action_query |-> Absent,
   heartbeat_topics_prefix |-> <<"__debezium-heartbeat">>, heartbeat_topic_name |-> Absent]
SignalDefaults ==
  [signal_data_collection |-> Absent, signal_enabled_channels |-> <<"source">>,
   signal_file |-> <<"file-signals.txt">>, signal_poll_interval |-> <<"5000">>,
   signal_kafka_topic |-> Absent, signal_kafka_bootstrap_servers |-> Absent,
   signal_kafka_group_id |-> <<"kafka-signal">>, signal_kafka_poll_timeout |-> <<"100">>,
   signal_auto_commit |-> Absent, incremental_snapshot_chunk_size |-> <<"1024">>,
   incremental_snapshot_watermarking_strategy |-> <<"insert_insert">>]
TableDefaults == [tables_include |-> Absent, tables_exclude |-> Absent]

\* PostgresSourceConfig.
PostgreSqlDefaults ==
  LoginDefaults @@ HeartbeatDefaults @@ SignalDefaults @@ TableDefaults @@
  [port |-> <<"5432">>, publication_autocreate_mode |-> <<"disabled">>,
   replica_identity_autoset_values |-> Absent, publish_via_partition_root |-> <<"false">>,
   slot_name |-> <<"rustium">>, drop_slot_on_stop |-> <<"false">>, slot_failover |-> <<"false">>,
   slot_ownership |-> <<"managed">>, offset_mismatch_strategy |-> <<"no_validation">>,
   lsn_flush_mode |-> <<"connector">>, lsn_flush_timeout |-> <<"30000">>,
   lsn_flush_timeout_action |-> <<"fail">>, slot_stream_params |-> Absent,
   database_initial_statements |-> Absent, snapshot_locking_mode |-> <<"none">>,
   snapshot_lock_timeout |-> <<"10000">>, snapshot_isolation_mode |-> <<"serializable">>,
   xmin_fetch_interval |-> <<"0">>, ssl_mode |-> <<"prefer">>, ssl_root_cert |-> Absent,
   ssl_cert |-> Absent, ssl_key |-> Absent, ssl_key_password |-> Absent,
   connect_timeout |-> <<"30000">>, status_update_interval |-> <<"10000">>,
   tcp_keepalive |-> <<"true">>, read_only |-> <<"false">>, hstore_handling_mode |-> <<"json">>,
   interval_handling_mode |-> <<"postgres">>, include_unknown_datatypes |-> <<"false">>,
   money_fraction_digits |-> <<"2">>, schema_refresh_mode |-> <<"columns_diff">>,
   logical_decoding_messages |-> <<"false">>, message_prefix_include_list |-> Absent,
   message_prefix_exclude_list |-> Absent, column_transformations |-> <<>>]

\* MySqlSourceConfig.
MySqlDefaults ==
  LoginDefaults @@ HeartbeatDefaults @@ SignalDefaults @@ TableDefaults @@
  [port |-> <<"3306">>, databases |-> Absent, server_id |-> <<"5401">>,
   ssl_mode |-> <<"preferred">>, connection_time_zone |-> <<"UTC">>, ssl_ca |-> Absent,
   ssl_cert |-> Absent, ssl_key |-> Absent, ssl_keystore |-> Absent,
   ssl_keystore_password |-> Absent, ssl_truststore |-> Absent,
   ssl_truststore_password |-> Absent, connect_timeout |-> <<"30000">>,
   connect_keep_alive |-> <<"true">>, connect_keep_alive_interval |-> <<"60000">>,
   reconnect_max_attempts |-> <<"10">>, schema_history_skip_unparseable_ddl |-> <<"false">>,
   gtid_source_includes |-> Absent, gtid_source_excludes |-> Absent,
   gtid_source_filter_dml_events |-> <<"true">>, column_transformations |-> <<>>]

\* SqlServerSourceConfig.
SqlServerDefaults ==
  LoginDefaults @@ HeartbeatDefaults @@ SignalDefaults @@ TableDefaults @@
  [port |-> <<"1433">>, databases |-> Absent, connect_timeout |-> <<"30000">>,
   encrypt |-> <<"true">>, trust_server_certificate |-> <<"false">>,
   poll_interval |-> <<"500">>, streaming_fetch_size |-> <<"10240">>,
   snapshot_isolation_mode |-> <<"repeatable_read">>, column_transformations |-> <<>>]

\* OracleSourceConfig.
OracleDefaults ==
  LoginDefaults @@ HeartbeatDefaults @@ TableDefaults @@
  [port |-> <<"1521">>, pdb_name |-> Absent, schemas |-> Absent,
   connect_timeout |-> <<"30000">>, poll_interval |-> <<"500">>, batch_size |-> <<"10240">>,
   log_mining_strategy |-> <<"online_catalog">>, archive_log_only_mode |-> <<"false">>]

\* MongoDbSourceConfig: it has no heartbeat query.
MongoDbDefaults ==
  [f \in DOMAIN HeartbeatDefaults \ {"heartbeat_action_query"} |-> HeartbeatDefaults[f]] @@
  TableDefaults @@
  [databases |-> Absent, connect_timeout |-> <<"30000">>, poll_interval |-> <<"500">>,
   batch_size |-> <<"10240">>, full_document |-> <<"update_lookup">>,
   full_document_before_change |-> <<"when_available">>]

\* DebeziumSourceConfig and its bridge, whose variant is bridge_type.
BridgeDefaults ==
  [f \in {"heartbeat_topics_prefix", "heartbeat_topic_name"} |-> HeartbeatDefaults[f]] @@
  [bridge_type |-> <<"http">>, listen |-> <<"127.0.0.1:18080">>, path |-> <<"/events">>,
   authentication_token |-> Absent, request_timeout |-> <<"60000">>,
   max_body_size |-> <<"16777216">>, bootstrap_servers |-> Absent, topics |-> Absent,
   group_id |-> <<"rustium-debezium-bridge">>, consumer_properties |-> Absent,
   poll_timeout |-> <<"60000">>, command |-> Absent, command_args |-> Absent,
   command_environment |-> Absent, offset_file |-> <<"rustium-debezium.offsets">>,
   schema_history_file |-> <<"rustium-debezium-schema-history.dat">>]

\* SnapshotConfig.
SnapshotDefaults ==
  [snapshot_mode |-> <<"initial">>, snapshot_fetch_size |-> <<"10000">>,
   snapshot_include_collections |-> Absent]

\* FormatConfig and SchemaRegistryConfig; no registry unless registry_urls is set.
FormatDefaults ==
  [format_type |-> <<"debezium_json">>, unavailable_value |-> <<"__rustium_unavailable_value">>,
   tombstones_on_delete |-> <<"true">>, registry_urls |-> Absent, registry_username |-> Absent,
   registry_password |-> Absent, registry_request_timeout |-> <<"10000">>,
   registry_cache_capacity |-> <<"1000">>]

\* SinkConfig, whose variant is sink_type.
SinkDefaults ==
  [topic_prefix |-> <<"rustium">>, sink_servers |-> Absent, acks |-> <<"all">>,
   compression |-> <<"lz4">>, delivery_timeout |-> <<"30000">>, sink_properties |-> Absent]

\* StateConfig, RuntimeSettings, ServerConfig and ObservabilityConfig.
RuntimeDefaults ==
  [state_path |-> <<"rustium.db">>, channel_capacity |-> <<"2048">>,
   max_batch_size |-> <<"512">>, flush_interval |-> <<"100">>,
   shutdown_timeout |-> <<"30000">>, errors_max_retries |-> <<"10">>,
   errors_retry_delay_initial |-> <<"300">>, errors_retry_delay_max |-> <<"10000">>,
   bind |-> <<"127.0.0.1:8080">>, enable_mutations |-> <<"false">>,
   log_format |-> <<"json">>, log_level |-> <<"info">>, metrics |-> <<"true">>]

SharedDefaults == SnapshotDefaults @@ FormatDefaults @@ SinkDefaults @@ RuntimeDefaults

-----------------------------------------------------------------------------
(* The properties each parser reads. *)

LoginProperties ==
  [hostname |-> Text("database.hostname"), port |-> Number("database.port"),
   username |-> Text("database.user"), password |-> Text("database.password")]
HeartbeatProperties ==
  [heartbeat_interval |-> Number("heartbeat.interval.ms"),
   heartbeat_action_query |-> Text("heartbeat.action.query"),
   heartbeat_topics_prefix |->
     Read("text", <<"topic.heartbeat.prefix", "heartbeat.topics.prefix">>),
   heartbeat_topic_name |-> Text("topic.heartbeat.name")]
SignalProperties ==
  [signal_data_collection |-> List("signal.data.collection"),
   signal_enabled_channels |-> List("signal.enabled.channels"),
   signal_file |-> Text("signal.file"), signal_poll_interval |-> Number("signal.poll.interval.ms"),
   signal_kafka_topic |-> Text("signal.kafka.topic"),
   signal_kafka_bootstrap_servers |-> List("signal.kafka.bootstrap.servers"),
   signal_kafka_group_id |-> Text("signal.kafka.groupId"),
   signal_kafka_poll_timeout |-> Number("signal.kafka.poll.timeout.ms"),
   signal_auto_commit |-> Text("signal.consumer.enable.auto.commit"),
   incremental_snapshot_chunk_size |-> Number("incremental.snapshot.chunk.size"),
   incremental_snapshot_watermarking_strategy |->
     Text("incremental.snapshot.watermarking.strategy")]
TableProperties ==
  [tables_include |-> List("table.include.list"), tables_exclude |-> List("table.exclude.list")]

\* parse, for PostgreSQL: where its defaults differ from the struct's they are Debezium's.
PostgreSqlProperties ==
  LoginProperties @@ HeartbeatProperties @@ SignalProperties @@ TableProperties @@
  [database |-> Text("database.dbname"),
   publication |-> Or(Text("publication.name"), <<"dbz_publication">>),
   publication_autocreate_mode |-> Or(Word("publication.autocreate.mode"), <<"all_tables">>),
   replica_identity_autoset_values |-> List("replica.identity.autoset.values"),
   publish_via_partition_root |-> Bool("publish.via.partition.root"),
   slot_name |-> Or(Text("slot.name"), <<"debezium">>),
   drop_slot_on_stop |-> Bool("slot.drop.on.stop"), slot_failover |-> Bool("slot.failover"),
   slot_ownership |-> Read("text", <<>>),
   offset_mismatch_strategy |-> Word("offset.mismatch.strategy"),
   lsn_flush_mode |-> Word("lsn.flush.mode"),
   lsn_flush_timeout |-> Number("lsn.flush.timeout.ms"),
   lsn_flush_timeout_action |-> Word("lsn.flush.timeout.action"),
   slot_stream_params |-> List("slot.stream.params"),
   database_initial_statements |-> List("database.initial.statements"),
   snapshot_locking_mode |-> Word("snapshot.locking.mode"),
   snapshot_lock_timeout |-> Number("snapshot.lock.timeout.ms"),
   snapshot_isolation_mode |-> Word("snapshot.isolation.mode"),
   xmin_fetch_interval |-> Number("xmin.fetch.interval.ms"),
   ssl_mode |-> Text("database.sslmode"), ssl_root_cert |-> Text("database.sslrootcert"),
   ssl_cert |-> Text("database.sslcert"), ssl_key |-> Text("database.sslkey"),
   ssl_key_password |-> Text("database.sslpassword"),
   connect_timeout |-> Number("connection.validation.timeout.ms"),
   status_update_interval |-> Number("status.update.interval.ms"),
   tcp_keepalive |-> Bool("database.tcpKeepAlive"), read_only |-> Bool("read.only"),
   hstore_handling_mode |-> Text("hstore.handling.mode"),
   interval_handling_mode |-> Or(Word("interval.handling.mode"), <<"numeric">>),
   include_unknown_datatypes |-> Bool("include.unknown.datatypes"),
   money_fraction_digits |-> Integer("money.fraction.digits"),
   schema_refresh_mode |-> Word("schema.refresh.mode"),
   logical_decoding_messages |-> Or(Read("bool", <<>>), <<"true">>),
   message_prefix_include_list |-> List("message.prefix.include.list"),
   message_prefix_exclude_list |-> List("message.prefix.exclude.list")]

\* parse_mysql.
MySqlProperties ==
  LoginProperties @@ HeartbeatProperties @@ SignalProperties @@ TableProperties @@
  [databases |-> List("database.include.list"), server_id |-> Number("database.server.id"),
   ssl_mode |-> Text("database.ssl.mode"),
   connection_time_zone |-> Text("database.connectionTimeZone"),
   ssl_ca |-> Text("database.ssl.ca"), ssl_cert |-> Text("database.ssl.cert"),
   ssl_key |-> Text("database.ssl.key"), ssl_keystore |-> Text("database.ssl.keystore"),
   ssl_keystore_password |-> Text("database.ssl.keystore.password"),
   ssl_truststore |-> Text("database.ssl.truststore"),
   ssl_truststore_password |-> Text("database.ssl.truststore.password"),
   connect_timeout |-> Number("connect.timeout.ms"),
   connect_keep_alive |-> Bool("connect.keep.alive"),
   connect_keep_alive_interval |-> Number("connect.keep.alive.interval.ms"),
   reconnect_max_attempts |-> Number("rustium.source.reconnect.max.attempts"),
   schema_history_skip_unparseable_ddl |-> Bool("schema.history.internal.skip.unparseable.ddl"),
   gtid_source_includes |-> List("gtid.source.includes"),
   gtid_source_excludes |-> List("gtid.source.excludes"),
   gtid_source_filter_dml_events |-> Bool("gtid.source.filter.dml.events")]

\* parse_sqlserver.
SqlServerProperties ==
  LoginProperties @@ HeartbeatProperties @@ SignalProperties @@ TableProperties @@
  [databases |-> List("database.names"),
   connect_timeout |-> Number("database.connection.timeout.ms"),
   encrypt |-> Bool("database.encrypt"),
   trust_server_certificate |-> Bool("database.trustServerCertificate"),
   poll_interval |-> Number("poll.interval.ms"),
   streaming_fetch_size |-> Number("streaming.fetch.size"),
   snapshot_isolation_mode |-> Text("snapshot.isolation.mode")]

\* parse_oracle.
OracleProperties ==
  LoginProperties @@ HeartbeatProperties @@ TableProperties @@
  [database |-> Text("database.dbname"), pdb_name |-> Text("pdb.name"),
   schemas |-> List("schema.include.list"), connect_timeout |-> Number("connection.timeout.ms"),
   poll_interval |-> Number("poll.interval.ms"),
   batch_size |-> Number("log.mining.batch.size.default"),
   log_mining_strategy |-> Text("log.mining.strategy"),
   archive_log_only_mode |-> Bool("archive.log.only.mode")]

\* parse_mongodb: the two document modes come from capture.mode.
MongoDbProperties ==
  [f \in DOMAIN MongoDbDefaults \cap DOMAIN HeartbeatProperties |-> HeartbeatProperties[f]] @@
  [connection_string |-> Text("mongodb.connection.string"),
   databases |-> List("database.include.list"),
   tables_include |-> List("collection.include.list"),
   tables_exclude |-> List("collection.exclude.list"),
   connect_timeout |-> Number("connect.timeout.ms"),
   poll_interval |-> Number("poll.interval.ms"), batch_size |-> Number("max.batch.size"),
   full_document |-> Read("text", <<>>), full_document_before_change |-> Read("text", <<>>)]

\* parse_debezium_bridge.
BridgeProperties ==
  [f \in {"heartbeat_topics_prefix", "heartbeat_topic_name"} |-> HeartbeatProperties[f]] @@
  [bridge_type |-> Text("rustium.debezium.bridge.type"),
   listen |-> Text("rustium.debezium.http.listen"), path |-> Text("rustium.debezium.http.path"),
   authentication_token |-> Text("rustium.debezium.http.authentication.token"),
   request_timeout |-> Number("rustium.debezium.http.request.timeout.ms"),
   max_body_size |-> Number("rustium.debezium.http.max.body.bytes"),
   bootstrap_servers |->
     Read("list", <<"rustium.debezium.kafka.bootstrap.servers", "bootstrap.servers">>),
   topics |-> List("rustium.debezium.kafka.topics"),
   group_id |-> Text("rustium.debezium.kafka.group.id"),
   consumer_properties |-> Text("rustium.debezium.kafka.consumer.group.id"),
   poll_timeout |-> Number("rustium.debezium.kafka.poll.timeout.ms"),
   command |-> Text("rustium.debezium.command"),
   command_args |-> List("rustium.debezium.command.args"),
   command_environment |-> Text("rustium.debezium.command.env.TOKEN"),
   offset_file |-> Text("offset.storage.file.filename"),
   schema_history_file |-> Text("schema.history.internal.file.filename")]

\* The SnapshotConfig every parser passes on; the bridge reads its mode leniently.
SnapshotProperties ==
  [snapshot_mode |-> Word("snapshot.mode"), snapshot_fetch_size |-> Number("snapshot.fetch.size"),
   snapshot_include_collections |-> List("snapshot.include.collection.list")]

\* sink_config, and the topic prefix assemble_config requires.
SinkProperties ==
  [sink_type |-> Or(Text("rustium.sink.type"), <<"stdout">>),
   topic_prefix |-> Text("topic.prefix"),
   sink_servers |-> Read("list", <<"rustium.kafka.bootstrap.servers", "bootstrap.servers">>),
   acks |-> Text("rustium.kafka.acks"), compression |-> Text("rustium.kafka.compression.type"),
   delivery_timeout |-> Number("rustium.kafka.delivery.timeout.ms"),
   sink_properties |-> Text("rustium.kafka.property.acks")]

\* assemble_config: identity, state, runtime, server and observability.
RuntimeProperties ==
  [name |-> Text("name"),
   state_path |-> Read("text", <<"rustium.state.path", "offset.storage.file.filename">>),
   channel_capacity |-> Number("max.queue.size"), max_batch_size |-> Number("max.batch.size"),
   flush_interval |-> Number("poll.interval.ms"), shutdown_timeout |-> Read("number", <<>>),
   errors_max_retries |-> Integer("errors.max.retries"),
   errors_retry_delay_initial |-> Number("errors.retry.delay.initial.ms"),
   errors_retry_delay_max |-> Number("errors.retry.delay.max.ms"),
   bind |-> Text("rustium.server.bind"),
   enable_mutations |-> Text("rustium.server.enable.mutations"),
   log_format |-> Text("rustium.log.format"), log_level |-> Text("rustium.log.level"),
   metrics |-> Text("rustium.metrics.enabled")]

\* The part of format_config that reads values; the converters choose the rest.
FormatProperties ==
  [unavailable_value |-> Text("unavailable.value.placeholder"),
   tombstones_on_delete |-> Bool("tombstones.on.delete")]

SharedProperties == SnapshotProperties @@ SinkProperties @@ RuntimeProperties @@ FormatProperties
=============================================================================
