------------------------------- MODULE Warnings -------------------------------
(* rustium-config: the warnings about Debezium properties that have no       *)
(* effect, and the properties each parser reads.                             *)
EXTENDS Configuration

\* The list of unsupported_warnings.
Supported ==
  {"name", "connector.class", "tasks.max", "database.hostname", "database.port",
   "database.user", "database.password", "database.dbname", "pdb.name",
   "mongodb.connection.string", "database.sslmode", "database.sslrootcert",
   "database.sslcert", "database.sslkey", "database.sslpassword",
   "database.initial.statements", "database.server.id", "database.server.id.offset",
   "database.ssl.mode", "database.connectionTimeZone", "database.ssl.ca",
   "database.ssl.cert", "database.ssl.key", "database.ssl.keystore",
   "database.ssl.keystore.password", "database.ssl.truststore",
   "database.ssl.truststore.password", "database.include.list", "database.exclude.list",
   "gtid.source.includes", "gtid.source.excludes", "gtid.source.filter.dml.events",
   "connect.timeout.ms", "connect.keep.alive", "connect.keep.alive.interval.ms",
   "database.names", "database.encrypt", "database.trustServerCertificate",
   "database.connection.timeout.ms", "snapshot.isolation.mode", "data.query.mode",
   "streaming.fetch.size", "topic.prefix", "plugin.name", "slot.name", "slot.drop.on.stop",
   "slot.failover", "publication.name", "publication.autocreate.mode",
   "replica.identity.autoset.values", "publish.via.partition.root", "snapshot.mode",
   "snapshot.locking.mode", "snapshot.lock.timeout.ms", "snapshot.fetch.size",
   "snapshot.include.collection.list", "table.include.list", "table.exclude.list",
   "collection.include.list", "collection.exclude.list", "capture.mode",
   "connection.timeout.ms", "log.mining.strategy", "log.mining.batch.size.default",
   "archive.log.only.mode", "schema.include.list", "schema.exclude.list", "max.queue.size",
   "max.batch.size", "poll.interval.ms", "connection.validation.timeout.ms",
   "status.update.interval.ms", "database.tcpKeepAlive", "include.unknown.datatypes",
   "money.fraction.digits", "schema.refresh.mode", "slot.max.retries",
   "slot.retry.delay.ms", "slot.stream.params", "offset.mismatch.strategy",
   "slot.seek.to.known.offset.on.start", "lsn.flush.mode", "flush.lsn.source",
   "unavailable.value.placeholder", "tombstones.on.delete", "key.converter",
   "value.converter", "key.converter.schemas.enable", "value.converter.schemas.enable",
   "key.converter.schema.registry.url", "value.converter.schema.registry.url",
   "key.converter.auto.register.schemas", "value.converter.auto.register.schemas",
   "key.converter.use.latest.version", "value.converter.use.latest.version",
   "key.converter.subject.name.strategy", "value.converter.subject.name.strategy",
   "key.converter.basic.auth.credentials.source",
   "value.converter.basic.auth.credentials.source", "key.converter.basic.auth.user.info",
   "value.converter.basic.auth.user.info", "schema.name.adjustment.mode",
   "field.name.adjustment.mode", "key.converter.scrub.invalid.names",
   "value.converter.scrub.invalid.names", "key.converter.optional.for.nullables",
   "value.converter.optional.for.nullables", "key.converter.wrapper.for.nullables",
   "value.converter.wrapper.for.nullables", "key.converter.generate.struct.for.nulls",
   "value.converter.generate.struct.for.nulls", "key.converter.flatten.unions",
   "value.converter.flatten.unions", "heartbeat.interval.ms", "heartbeat.action.query",
   "heartbeat.topics.prefix", "topic.heartbeat.prefix", "topic.heartbeat.name",
   "signal.data.collection", "signal.enabled.channels", "signal.file",
   "signal.poll.interval.ms", "signal.kafka.topic", "signal.kafka.groupId",
   "signal.kafka.bootstrap.servers", "signal.kafka.poll.timeout.ms",
   "incremental.snapshot.chunk.size", "incremental.snapshot.allow.schema.changes",
   "incremental.snapshot.watermarking.strategy", "read.only", "hstore.handling.mode",
   "interval.handling.mode", "message.prefix.include.list", "message.prefix.exclude.list",
   "offset.storage.file.filename", "bootstrap.servers", "rustium.sink.type",
   "rustium.source.reconnect.max.attempts", "schema.history.internal.skip.unparseable.ddl",
   "rustium.kafka.bootstrap.servers", "rustium.kafka.acks",
   "rustium.kafka.compression.type", "rustium.kafka.delivery.timeout.ms",
   "rustium.schema.registry.request.timeout.ms", "rustium.schema.registry.cache.capacity",
   "rustium.state.path", "rustium.server.bind", "rustium.server.enable.mutations",
   "rustium.log.format", "rustium.log.level", "rustium.metrics.enabled",
   "errors.max.retries", "errors.retry.delay.initial.ms", "errors.retry.delay.max.ms"}

\* Faulty variant: any property about columns passes for a transformation.
AboutColumns(p) == StartsWith(p, "column.")
\* is_column_transformation_property: the rules column_transformations can read.
IsColumnTransformation(p) == p \in {rule.property : rule \in ToSet(ColumnRules)}

\* unsupported_warnings: the properties of the file it names.
Warned(file) ==
  {p \in DOMAIN file \ Supported :
     /\ ~StartsWith(p, "rustium.kafka.property.")
     /\ ~StartsWith(p, "signal.consumer.")
     /\ ~IsColumnTransformation(p)}

-----------------------------------------------------------------------------
\* The converter properties format_config reads: none of them for JSON.
OfBoth(suffixes) == {side \o suffix : side \in {"key.converter", "value.converter"}, suffix \in suffixes}
ReadForFormat(format) ==
  {"key.converter", "value.converter"} \union
  (IF format = "debezium_json" THEN {}
   ELSE RegistryProperties \union
        OfBoth({".schema.registry.url", ".auto.register.schemas", ".use.latest.version",
                ".subject.name.strategy", ".basic.auth.credentials.source",
                ".basic.auth.user.info"})) \union
  (IF format = "debezium_avro"
   THEN {"schema.name.adjustment.mode", "field.name.adjustment.mode"} ELSE {}) \union
  (IF format = "debezium_protobuf"
   THEN OfBoth({".scrub.invalid.names", ".optional.for.nullables", ".wrapper.for.nullables",
                ".generate.struct.for.nulls", ".flatten.unions"}) ELSE {})

\* The properties a parser reads by other ways than a row: to choose, to refuse, to combine
\* or to say itself that they are ignored.
ReadSpecially(kind) ==
  {"connector.class", "errors.max.retries", "errors.retry.delay.initial.ms",
   "errors.retry.delay.max.ms"} \union
  (CASE kind = "postgresql" ->
          {"plugin.name", "schema.include.list", "schema.exclude.list", "slot.max.retries",
           "slot.retry.delay.ms", "slot.seek.to.known.offset.on.start", "flush.lsn.source",
           "incremental.snapshot.allow.schema.changes"}
     [] kind = "mysql" ->
          {"database.exclude.list", "database.server.id.offset",
           "incremental.snapshot.allow.schema.changes"}
     [] kind = "sqlserver" -> {"data.query.mode", "incremental.snapshot.allow.schema.changes"}
     [] kind = "oracle" -> {"schema.include.list", "schema.exclude.list"}
     [] kind = "mongodb" -> {"capture.mode", "database.exclude.list"}
     [] OTHER -> {})

\* Every property the parser of a connector reads beside converters of a format; only three
\* parsers have transformations.
ReadUnder(kind, format) ==
  UNION {ToSet(Rows(kind)[f].from) : f \in DOMAIN Rows(kind)} \union
  ReadSpecially(kind) \union ReadForFormat(format) \union
  (IF kind \in {"postgresql", "mysql", "sqlserver"}
   THEN {rule.property : rule \in ToSet(ColumnRules)} ELSE {})

ReadBy(kind, file) == ReadUnder(kind, FormatConfig(file).format_type[1])

-----------------------------------------------------------------------------
(* What is without effect in silence, or in force in spite of a warning.     *)

\* Some connector reads it, beside some converters.
ReadSomewhere ==
  UNION {ReadUnder(kind, FormatOf[converter]) : kind \in Databases, converter \in DOMAIN FormatOf}

\* Listed as supported, and read by no parser.
ReadByNone == {"tasks.max", "key.converter.schemas.enable", "value.converter.schemas.enable"}

\* Read by PostgreSQL's parser, and not listed.
InForceYetWarned == {"lsn.flush.timeout.ms", "lsn.flush.timeout.action", "xmin.fetch.interval.ms"}
=============================================================================
