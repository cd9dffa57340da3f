------------------------------- MODULE Startup -------------------------------
(* The life of one configuration file: it is loaded, its fingerprint is      *)
(* compared with the one kept beside the checkpoint, the connector runs and  *)
(* saves; the operator edits the file, restarts, resets the state.           *)
EXTENDS Warnings

CONSTANTS Setups,    \* [form, kind, file, edits]
          MaxEdits

VARIABLES setup, file, edits,
          phase,     \* "stopped", "running", "rejected" or "refused"
          config,    \* what the process loaded, <<>> without a process
          saved      \* checkpoints, by state file and connector name

vars == <<setup, file, edits, phase, config, saved>>

Loadable == Loads(setup.form, setup.kind, file)
Loaded   == ConfigOf(setup.form, setup.kind, file)

\* SqliteCheckpointStore: the file of state_path has one row per connector name.
Store(c) == <<c.state_path, c.name>>
Selectors == {"tables_include", "tables_exclude", "databases", "schemas",
              "message_prefix_include_list", "message_prefix_exclude_list",
              "snapshot_include_collections"}
Asked(c) == Fields(c, Selectors \cap DOMAIN c)

\* The settings the fingerprint covers though they decide nothing that is published: how a
\* server is reached, how often it is asked, how much at a time, by which channel a signal
\* comes.
Always == {"snapshot_fetch_size", "registry_username", "registry_request_timeout",
           "registry_cache_capacity"}
BeatSettings == {"heartbeat_interval", "heartbeat_action_query", "heartbeat_topics_prefix",
                 "heartbeat_topic_name"}
SignalSettings == {"signal_file", "signal_poll_interval", "signal_kafka_topic",
                   "signal_kafka_group_id", "incremental_snapshot_chunk_size",
                   "incremental_snapshot_watermarking_strategy"}
Pinned(kind) ==
  Always \union BeatSettings \union
  (CASE kind = "postgresql" -> SignalSettings \union
          {"replica_identity_autoset_values", "slot_failover", "offset_mismatch_strategy",
           "lsn_flush_mode", "snapshot_isolation_mode", "xmin_fetch_interval",
           "database_initial_statements"}
     [] kind = "mysql" -> SignalSettings \union
          {"signal_kafka_bootstrap_servers", "server_id", "ssl_ca", "ssl_cert", "ssl_key",
           "ssl_keystore", "ssl_truststore"}
     [] kind = "sqlserver" -> SignalSettings \union {"signal_kafka_bootstrap_servers", "encrypt"}
     [] kind = "oracle" -> {"log_mining_strategy"}
     [] kind = "mongodb" -> {"connection_string"}
     [] OTHER -> {"request_timeout", "max_body_size", "consumer_properties", "poll_timeout",
                  "command_args", "command_environment", "offset_file", "schema_history_file"})

\* What is kept beside a checkpoint: the fingerprint; for the properties also what was
\* published, and the settings above.  A bridge's properties are pinned but for credentials,
\* and of its environment only whether there is one.
Mark(c) ==
  [fingerprint |-> Fingerprint(setup.kind, c),
   stream      |-> StreamOf(setup.kind, c),
   asked       |-> Asked(c),
   pinned      |-> Fields(c, Pinned(setup.kind) \cap DOMAIN c),
   handed      |-> IF setup.kind \in Bridged
                   THEN Fields(c.properties, DOMAIN c.properties \ Sensitive) ELSE <<>>]
\* run_inner refuses a checkpoint made under another fingerprint.
Matches(c) == Store(c) \in DOMAIN saved =>
                saved[Store(c)].fingerprint = Fingerprint(setup.kind, c)

Init ==
  /\ setup \in Setups
  /\ file = setup.file
  /\ edits = 0
  /\ phase = "stopped"
  /\ config = <<>>
  /\ saved = <<>>

\* main and run: Config::load, then the runtime up to its source.
Reject ==
  /\ phase = "stopped"
  /\ ~Loadable
  /\ phase' = "rejected"
  /\ UNCHANGED <<setup, file, edits, config, saved>>
Refuse ==
  /\ phase = "stopped"
  /\ Loadable
  /\ ~Matches(Loaded)
  /\ phase' = "refused"
  /\ config' = <<Loaded>>
  /\ UNCHANGED <<setup, file, edits, saved>>
Start ==
  /\ phase = "stopped"
  /\ Loadable
  /\ Matches(Loaded)
  /\ phase' = "running"
  /\ config' = <<Loaded>>
  /\ UNCHANGED <<setup, file, edits, saved>>

\* save_checkpoint puts the fingerprint of the running configuration into every checkpoint.
Checkpoint ==
  /\ phase = "running"
  /\ saved' = (Store(config[1]) :> Mark(config[1])) @@ saved
  /\ UNCHANGED <<setup, file, edits, phase, config>>

\* The process ends, whether it ran or not.
Exit ==
  /\ phase # "stopped"
  /\ phase' = "stopped"
  /\ config' = <<>>
  /\ UNCHANGED <<setup, file, edits, saved>>

\* The operator writes a setting, or takes it out.  A running process does not look.
Edit ==
  /\ edits < MaxEdits
  /\ \E edit \in setup.edits :
       file' = IF edit.given THEN (edit.name :> edit.value) @@ file
               ELSE [p \in DOMAIN file \ {edit.name} |-> file[p]]
  /\ file' # file
  /\ edits' = edits + 1
  /\ UNCHANGED <<setup, phase, config, saved>>

\* reset_state: deletes the checkpoint the file names, if there is one.
ResetState ==
  /\ Loadable
  /\ Store(Loaded) \in DOMAIN saved
  /\ saved' = [key \in DOMAIN saved \ {Store(Loaded)} |-> saved[key]]
  /\ UNCHANGED <<setup, file, edits, phase, config>>

Next == Reject \/ Refuse \/ Start \/ Checkpoint \/ Exit \/ Edit \/ ResetState

Spec == Init /\ [][Next]_vars

-----------------------------------------------------------------------------
\* A connector that resumes from a checkpoint publishes what the one that made it
\* published: the same tables, columns, messages, transformations, topics and
\* format, from the same place.  The fingerprint must tell all of these apart,
\* whichever of the fields that have a default were written or left out.
SameStreamResumed ==
  \A c \in ToSet(config) :
    (phase = "running" /\ Store(c) \in DOMAIN saved) =>
      saved[Store(c)].stream = StreamOf(setup.kind, c)

\* A checkpoint is refused only for a reason: what is published would change, a list of
\* tables or prefixes is written in other words, or one of the settings that the fingerprint
\* covers without need was changed (Pinned).  Nothing else costs the operator the
\* checkpoint: passwords of their own, retries, queues, paths, log settings, a default that
\* is written out, or the order in which the column transformations of different kinds are
\* written.  docs/design.md:200 promises as much of the pinned settings too, and of the
\* password within a MongoDB connection string: there it does not hold.
\* (Config::fingerprint)
RefusedForAReason ==
  \A c \in ToSet(config) :
    (phase = "refused" /\ Store(c) \in DOMAIN saved) =>
      LET kept == saved[Store(c)] now == Mark(c)
      IN <<kept.stream, kept.asked, kept.pinned, kept.handed>> #
         <<now.stream, now.asked, now.pinned, now.handed>>

\* The list of supported names agrees with the parsers: a property of a Debezium file
\* that neither its connector's parser reads nor a warning names is one that another
\* connector, or the same beside other converters, would read, or one of three listed for
\* nobody (ReadByNone); and what a warning calls ignored is so, but for three settings of
\* PostgreSQL.  docs/design.md:98 promises a warning for each unsupported property: for these
\* there is none, nor any for a bridged connector, whose file goes to Debezium.
\* (unsupported_warnings)
WarningsMatchReaders ==
  (setup.form = "properties" /\ phase = "running" /\ setup.kind \notin Bridged /\
   Loadable /\ config = <<Loaded>>) =>
    LET read == ReadBy(setup.kind, file)
    IN /\ DOMAIN file \ (read \union Warned(file)) \subseteq ReadSomewhere \union ReadByNone
       /\ read \intersect Warned(file) \subseteq InForceYetWarned
=============================================================================
