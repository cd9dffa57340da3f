------------------------- MODULE DebeziumProperties -------------------------
(* rustium-config: a configuration file, native YAML or Debezium properties, *)
(* becomes the fields of a Config, or an error.  A file maps the names it    *)
(* sets to values.  Regular expressions are abstract: Language gives the     *)
(* names that each valid pattern matches in full.                            *)
EXTENDS Settings, FiniteSets, SequencesExt

CONSTANT Language

Present(v) == v # Absent
Blank(v)   == v = <<"">>
\* regex_matches and the anchoring of compile_selector; an invalid pattern matches nothing.
ValidPattern(p) == p \in DOMAIN Language
MatchesAny(patterns, name) ==
  \E p \in ToSet(patterns) : ValidPattern(p) /\ name \in Language[p]
\* The numbers the model's files write.
Digits == "-2" :> -2 @@ "-1" :> -1 @@ "0" :> 0 @@ "1" :> 1 @@ "2" :> 2 @@ "10" :> 10 @@
          "100" :> 100 @@ "300" :> 300 @@ "500" :> 500 @@ "512" :> 512 @@ "1000" :> 1000 @@
          "1024" :> 1024 @@ "1433" :> 1433 @@ "1521" :> 1521 @@ "2048" :> 2048 @@
          "3306" :> 3306 @@ "5000" :> 5000 @@ "5401" :> 5401 @@ "5432" :> 5432 @@
          "10000" :> 10000 @@ "10240" :> 10240 @@ "30000" :> 30000 @@ "60000" :> 60000 @@
          "16777216" :> 16777216
Int32(v) == Digits[v[1]]
Zero(v)  == v = <<"0">>
True(v)  == v = <<"true">>
\* Names validate_name refuses, among those the model's files use.
ValidName(v) == Present(v) /\ v[1] \notin {"", "two words"}

-----------------------------------------------------------------------------
(* Debezium properties -> Config (debezium.rs). *)

Databases == {"postgresql", "mysql", "sqlserver", "oracle", "mongodb"}
Bridged   == {"mariadb", "cassandra"}

\* parse: the connector classes it tells apart; two of the eight bridged kinds.
ClassOf == "PostgresConnector" :> "postgresql" @@ "MySqlConnector" :> "mysql" @@
           "SqlServerConnector" :> "sqlserver" @@ "OracleConnector" :> "oracle" @@
           "MongoDbConnector" :> "mongodb" @@ "MariaDbConnector" :> "mariadb" @@
           "Cassandra" :> "cassandra"

PropertiesOf == [postgresql |-> PostgreSqlProperties, mysql |-> MySqlProperties,
                 sqlserver |-> SqlServerProperties, oracle |-> OracleProperties,
                 mongodb |-> MongoDbProperties, mariadb |-> BridgeProperties,
                 cassandra |-> BridgeProperties]
DefaultsOf == [postgresql |-> PostgreSqlDefaults, mysql |-> MySqlDefaults,
               sqlserver |-> SqlServerDefaults, oracle |-> OracleDefaults,
               mongodb |-> MongoDbDefaults, mariadb |-> BridgeDefaults,
               cassandra |-> BridgeDefaults]
Rows(kind)     == PropertiesOf[kind] @@ SharedProperties
Defaults(kind) == DefaultsOf[kind] @@ SharedDefaults

\* What the parsers of the enumerated values accept, and what they call it.
WordsOf ==
  [publication_autocreate_mode |-> {"disabled", "all_tables", "filtered", "no_tables"},
   interval_handling_mode |-> {"numeric", "string"},
   schema_refresh_mode |-> {"columns_diff", "columns_diff_exclude_unchanged_toast"},
   snapshot_locking_mode |-> {"none", "shared"},
   snapshot_isolation_mode |->
     {"serializable", "repeatable_read", "read_committed", "read_uncommitted"},
   offset_mismatch_strategy |->
     {"no_validation", "trust_offset", "trust_slot", "trust_greater_lsn"},
   lsn_flush_mode |-> {"connector", "manual", "connector_and_driver"},
   lsn_flush_timeout_action |-> {"fail", "warn", "ignore"},
   snapshot_mode |-> {"initial", "when_needed", "never", "no_data"}]

\* bool_value, u16_value, usize_value, duration_ms, i32_value and the mode parsers.
WellFormed(field, type, v) ==
  CASE type = "bool" -> v \in {<<"true">>, <<"false">>}
    [] type = "number" -> v[1] \in DOMAIN Digits /\ Int32(v) >= 0
    [] type = "integer" -> v[1] \in DOMAIN Digits
    [] type = "word" -> v[1] \in WordsOf[field]
    [] OTHER -> TRUE

\* The properties of a row that the file has: the first one gives the value.
Given(row, file) == SelectSeq(row.from, LAMBDA p : p \in DOMAIN file)
FieldFrom(kind, field, file) ==
  LET row == Rows(kind)[field] given == Given(row, file)
  IN CASE Present(given) -> file[given[1]]
       [] Present(row.or) -> row.or[1]
       [] field \in DOMAIN Defaults(kind) -> Defaults(kind)[field]
       [] OTHER -> Absent

\* required: these must be there and not blank.
Required == {"username", "password", "database", "connection_string", "name", "topic_prefix"}

\* A property of the file, or its default.
Property(file, p, default) == IF p \in DOMAIN file THEN file[p] ELSE default

\* "(?:schema)\..+": every table of the schema.
OfSchema(schemas) == [i \in DOMAIN schemas |-> schemas[i] \o ".*"]

\* PostgreSQL and Oracle take schema.include.list only without table.include.list,
\* and schema.exclude.list always.
SchemaTables(file) ==
  LET asked == Property(file, "table.include.list", Absent)
  IN [tables_include |-> IF Present(asked) THEN asked
                         ELSE OfSchema(Property(file, "schema.include.list", Absent)),
      tables_exclude |-> Property(file, "table.exclude.list", Absent) \o
                         OfSchema(Property(file, "schema.exclude.list", Absent))]

\* MySQL adds database.exclude.list to the excluded tables.
DatabaseTables(file) ==
  [tables_exclude |-> Property(file, "table.exclude.list", Absent) \o
                      OfSchema(Property(file, "database.exclude.list", Absent))]

\* signal.enabled.channels: jmx becomes the in-process channel, unknown channels are dropped.
Channels == {"source", "file", "in-process", "kafka"}
SignalChannels(file) ==
  LET set   == Property(file, "signal.enabled.channels", Absent)
      asked == IF Present(set) THEN set ELSE <<"source">>
      Take(taken, channel) ==
        LET mapped == IF channel = "jmx" THEN "in-process" ELSE channel
        IN IF mapped \in Channels \ ToSet(taken) THEN Append(taken, mapped) ELSE taken
  IN FoldLeft(Take, <<>>, asked)

\* The deprecated names of offset.mismatch.strategy and lsn.flush.mode.
Deprecated(file) ==
  [offset_mismatch_strategy |->
     IF "offset.mismatch.strategy" \in DOMAIN file THEN file["offset.mismatch.strategy"]
     ELSE IF True(Property(file, "slot.seek.to.known.offset.on.start", <<"false">>))
       THEN <<"trust_offset">> ELSE <<"no_validation">>,
   lsn_flush_mode |->
     IF "lsn.flush.mode" \in DOMAIN file THEN file["lsn.flush.mode"]
     ELSE IF True(Property(file, "flush.lsn.source", <<"true">>))
       THEN <<"connector">> ELSE <<"manual">>]

\* capture.mode of MongoDB.
CaptureModes ==
  [change_streams |-> <<"default", "off">>,
   change_streams_update_full |-> <<"update_lookup", "off">>,
   change_streams_with_pre_image |-> <<"update_lookup", "when_available">>]
CaptureMode(file) == Property(file, "capture.mode", <<"change_streams_update_full">>)[1]
Documents(file) ==
  [full_document |-> <<CaptureModes[CaptureMode(file)][1]>>,
   full_document_before_change |-> <<CaptureModes[CaptureMode(file)][2]>>]

\* The column transformations in the order column_transformations finds them: by
\* kind, then by name.  A property that is no such rule is not read at all.
ColumnRules ==
  <<[property |-> "column.truncate.to.1.chars", kind |-> "truncate", by |-> "1"],
    [property |-> "column.mask.with.2.chars", kind |-> "mask", by |-> "2"],
    [property |-> "column.mask.hash.SHA-256.with.salt.pepper", kind |-> "hash_v1", by |-> "pepper"],
    [property |-> "column.mask.hash.v2.SHA-256.with.salt.pepper", kind |-> "hash_v2",
     by |-> "pepper"]>>
ColumnTransformations(file) ==
  LET found == SelectSeq(ColumnRules, LAMBDA r : r.property \in DOMAIN file)
  IN [i \in DOMAIN found |->
        [kind |-> found[i].kind, by |-> found[i].by, columns |-> file[found[i].property]]]

\* The retry settings fall back to the source's own.
RetryDefaults(kind, file) ==
  LET given == [p \in {"errors.max.retries", "errors.retry.delay.initial.ms",
                       "errors.retry.delay.max.ms", "slot.max.retries", "slot.retry.delay.ms",
                       "rustium.source.reconnect.max.attempts",
                       "connect.keep.alive.interval.ms"} |-> p \in DOMAIN file]
      slot  == kind = "postgresql" /\ given["slot.retry.delay.ms"] /\
               ~given["errors.retry.delay.initial.ms"] /\ ~given["errors.retry.delay.max.ms"]
      keep  == kind = "mysql" /\ given["connect.keep.alive.interval.ms"]
      first == IF given["errors.retry.delay.initial.ms"] THEN file["errors.retry.delay.initial.ms"]
               ELSE IF slot THEN file["slot.retry.delay.ms"]
               ELSE IF keep THEN file["connect.keep.alive.interval.ms"] ELSE <<"300">>
  IN [errors_max_retries |->
        IF given["errors.max.retries"] THEN file["errors.max.retries"]
        ELSE IF kind = "postgresql" /\ given["slot.max.retries"] THEN file["slot.max.retries"]
        ELSE IF kind = "mysql" /\ given["rustium.source.reconnect.max.attempts"]
          THEN file["rustium.source.reconnect.max.attempts"] ELSE <<"10">>,
      errors_retry_delay_initial |-> first,
      errors_retry_delay_max |->
        IF given["errors.retry.delay.max.ms"] THEN file["errors.retry.delay.max.ms"]
        ELSE IF slot \/ keep THEN first ELSE <<"10000">>]

\* format_config: the pair of converters chooses the format; JSON takes no registry.
FormatOf == [JsonConverter |-> "debezium_json", JsonSchemaConverter |-> "debezium_json_schema",
             AvroConverter |-> "debezium_avro", ProtobufConverter |-> "debezium_protobuf"]
RegistryProperties ==
  {"rustium.schema.registry.request.timeout.ms", "rustium.schema.registry.cache.capacity"}
Converter(file, side) == Property(file, side, <<"JsonConverter">>)[1]
FormatConfig(file) ==
  LET json == Converter(file, "key.converter") = "JsonConverter"
      auth == Property(file, "key.converter.basic.auth.user.info", Absent)
  IN [format_type |-> <<FormatOf[Converter(file, "key.converter")]>>,
      registry_urls |-> IF json THEN Absent
                        ELSE Property(file, "key.converter.schema.registry.url", Absent),
      registry_request_timeout |->
        IF json THEN FormatDefaults.registry_request_timeout
        ELSE Property(file, "rustium.schema.registry.request.timeout.ms",
                      FormatDefaults.registry_request_timeout),
      registry_cache_capacity |->
        IF json THEN FormatDefaults.registry_cache_capacity
        ELSE Property(file, "rustium.schema.registry.cache.capacity",
                      FormatDefaults.registry_cache_capacity),
      registry_username |-> IF json \/ auth = Absent THEN Absent ELSE <<auth[1]>>,
      registry_password |-> IF json \/ auth = Absent THEN Absent ELSE <<auth[2]>>]

\* What format_config refuses: key and value converters that differ, and options Rustium lacks.
FormatReads(file) ==
  LET Same(suffix) == Property(file, "key.converter" \o suffix, Absent) =
                      Property(file, "value.converter" \o suffix, Absent)
      Unset(suffix, only) == \A side \in {"key.converter", "value.converter"} :
                               Property(file, side \o suffix, <<only>>) = <<only>>
      format == FormatOf[Converter(file, "key.converter")]
  IN /\ Converter(file, "key.converter") \in DOMAIN FormatOf
     /\ Converter(file, "key.converter") = Converter(file, "value.converter")
     /\ format = "debezium_avro" =>
          \A p \in {"schema.name.adjustment.mode", "field.name.adjustment.mode"} :
            Property(file, p, <<"avro">>) = <<"avro">>
     /\ format = "debezium_protobuf" =>
          /\ Unset(".scrub.invalid.names", "true")
          /\ \A option \in {".optional.for.nullables", ".wrapper.for.nullables",
                            ".generate.struct.for.nulls", ".flatten.unions"} :
               Unset(option, "false")
     /\ format # "debezium_json" =>
          /\ Present(Property(file, "key.converter.schema.registry.url", Absent))
          /\ Same(".schema.registry.url")
          /\ Unset(".auto.register.schemas", "true")
          /\ Unset(".use.latest.version", "false")
          /\ Unset(".subject.name.strategy", "TopicNameStrategy")
          /\ Unset(".basic.auth.credentials.source", "USER_INFO")
          /\ Same(".basic.auth.user.info")
          /\ \A p \in RegistryProperties : WellFormed(p, "number", Property(file, p, <<"1">>))

\* The kind of bridge: Cassandra's is Kafka unless the file says otherwise.
BridgeType(kind, file) ==
  [bridge_type |-> Property(file, "rustium.debezium.bridge.type",
                            IF kind = "cassandra" THEN <<"kafka">> ELSE <<"http">>)]
\* bridge_snapshot_mode never fails.
BridgeSnapshotMode(file) ==
  LET mode == Property(file, "snapshot.mode", <<"initial">>)
  IN [snapshot_mode |-> IF mode \in {<<"never">>, <<"no_data">>} THEN <<"never">>
                        ELSE IF mode = <<"when_needed">> THEN mode ELSE <<"initial">>]
\* The properties handed to the Debezium process: all but Rustium's own and the converters.
StartsWith(p, prefix) == Len(p) >= Len(prefix) /\ SubSeq(p, 1, Len(prefix)) = prefix
BridgeOwned(file) ==
  {p \in DOMAIN file : p \in {"name", "key.converter", "value.converter",
                        "key.converter.schemas.enable", "value.converter.schemas.enable"} \/
                       StartsWith(p, "rustium.")}
BridgePassed(file) == [p \in DOMAIN file \ BridgeOwned(file) |-> file[p]]

\* snapshot_mode calls no_data never.
SnapshotMode(file) ==
  [snapshot_mode |-> LET mode == Property(file, "snapshot.mode", <<"initial">>)
                     IN IF mode = <<"no_data">> THEN <<"never">> ELSE mode]

\* The fields each parser computes rather than reads.
Computed(kind, file) ==
  FormatConfig(file) @@ RetryDefaults(kind, file) @@
  (CASE kind = "postgresql" -> SchemaTables(file) @@ Deprecated(file) @@
          [signal_enabled_channels |-> SignalChannels(file),
           column_transformations |-> ColumnTransformations(file)]
     [] kind = "mysql" -> DatabaseTables(file) @@
          [signal_enabled_channels |-> SignalChannels(file),
           column_transformations |-> ColumnTransformations(file)]
     [] kind = "sqlserver" ->
          [signal_enabled_channels |-> SignalChannels(file),
           column_transformations |-> ColumnTransformations(file)]
     [] kind = "oracle" -> SchemaTables(file)
     [] kind = "mongodb" -> Documents(file)
     [] kind \in Bridged -> BridgeType(kind, file) @@ BridgeSnapshotMode(file) @@
          [properties |-> BridgePassed(file)]) @@ SnapshotMode(file)

\* What the parsers refuse beyond ill-formed values.
ParserRefuses(kind, file) ==
  \/ kind = "postgresql" /\ ( \/ Property(file, "plugin.name", <<"pgoutput">>) # <<"pgoutput">>
                              \/ "database.sslfactory" \in DOMAIN file )
  \/ /\ kind \in {"postgresql", "mysql", "sqlserver"}
     /\ \/ Len(Property(file, "signal.data.collection", Absent)) > 1
        \/ SignalChannels(file) = <<>>
        \/ True(Property(file, "incremental.snapshot.allow.schema.changes", <<"false">>))
  \/ kind = "sqlserver" /\ ( \/ Len(Property(file, "database.names", Absent)) # 1
                             \/ Property(file, "data.query.mode", <<"direct">>) # <<"direct">> )
  \/ kind = "oracle" /\ Property(file, "log.mining.strategy", <<"online_catalog">>) #
                          <<"online_catalog">>
  \/ kind = "mongodb" /\ ( \/ Present(Property(file, "database.exclude.list", Absent))
                           \/ CaptureMode(file) \notin DOMAIN CaptureModes )
  \/ kind \in Bridged /\ BridgeType(kind, file).bridge_type \notin {<<"http">>, <<"kafka">>}
  \/ ~FormatReads(file)
  \/ LET sink == FieldFrom(kind, "sink_type", file)
     IN \/ sink \notin {<<"stdout">>, <<"kafka">>}
        \/ sink = <<"kafka">> /\ ~Present(FieldFrom(kind, "sink_servers", file))

\* from_debezium_properties: whether the file parses, and the Config it gives.
PropertiesParse(kind, file) ==
  /\ ~ParserRefuses(kind, file)
  /\ \A f \in DOMAIN Rows(kind) :
       /\ f \in Required => ~Blank(FieldFrom(kind, f, file)) /\ Present(FieldFrom(kind, f, file))
       /\ \A p \in ToSet(Given(Rows(kind)[f], file)) :
            (p = Given(Rows(kind)[f], file)[1] /\ ~(f = "snapshot_mode" /\ kind \in Bridged))
              => WellFormed(f, Rows(kind)[f].type, file[p])
FromProperties(kind, file) ==
  Computed(kind, file) @@ [f \in DOMAIN Rows(kind) |-> FieldFrom(kind, f, file)]

\* from_yaml: the fields the file has, the defaults for the others; unknown
\* fields are refused.
YamlParses(kind, file) ==
  /\ DOMAIN file \subseteq DOMAIN Rows(kind) \union DOMAIN Defaults(kind)
  /\ DOMAIN Rows(kind) \subseteq DOMAIN file \union DOMAIN Defaults(kind)
FromYaml(kind, file) == file @@ Defaults(kind)
=============================================================================
