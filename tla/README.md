# Rustium in TLA+

Rustium is a change data capture service: a source connector reads a database's
own log, a runtime encodes its records, a sink takes them, and a checkpoint
remembers how far that went. This directory states in TLA+ what that chain
promises, checks it with TLC and proves part of it with TLAPS. All paths below
are relative to `src/` (`crates/...`, `docs/...`, `README.md`).

Contents: 1 Inventory, 2 Modules, 3 Runs, 4 Divergences met while modelling,
5 Proofs, 6 Not modelled.

## 1. Inventory

| Component | State it keeps | Operations | Hard behaviour |
|---|---|---|---|
| Delivery runtime (`crates/rustium-core/src/runtime.rs`) | pending batch, snapshot flag, connector state, status, retry attempts | validate, load, consume, flush (write, save, acknowledge), backoff, shutdown | a crash or error between any two awaits, partial writes, cancellation, a source that blocks or fails meanwhile |
| Events and positions (`event.rs`, `traits.rs`) | - | order of positions, boundaries of records | an order that differs from the order of sending |
| Signals (`signal.rs`, `crates/rustium-signal-kafka`) | a bounded channel, one delivery awaiting its acknowledgement, the topic's committed offset | send and wait, take, acknowledge, commit | an offset committed before the state it stands for is durable |
| Checkpoint store (`crates/rustium-state`) | one row per connector in SQLite | load, save, reset | a save that fails after it took effect, a checkpoint of another configuration |
| PostgreSQL source (`crates/rustium-postgresql/src/source.rs`) | slot, open transaction, serial of the last LSN, replay filter, last safe position, schema history | prepare slot, snapshot, resume, convert, heartbeat, feedback, stop | interleaved and streamed transactions, restarts inside a transaction or snapshot, a slot that disagrees with the checkpoint |
| PostgreSQL incremental snapshots (`incremental_snapshot.rs`, `file_signal.rs`) | progress, current chunk and window, completed signal ids | signals, chunks, windows, deduplication | a chunk read beside the stream |
| MySQL source (`crates/rustium-mysql`) | binlog file and position, table maps, open transaction, definitions of tables, chunk in progress | snapshot, stream, reconnect, DDL, signals, chunks | reconnection inside a transaction, a definition that changes under a chunk, purged binlogs |
| SQL Server source (`crates/rustium-sqlserver`) | two-part cursor, half of an update, open transaction, chunk in progress | snapshot, poll, retention check, signals, chunks by watermark rows | batches that cut transactions and update pairs, the cleanup job, a capture job that lags |
| Oracle source (`crates/rustium-oracle`) | cursor of SCN, RS_ID, SSN | snapshot AS OF, LogMiner poll, heartbeat | open transactions behind the cursor |
| MongoDB source (`crates/rustium-mongodb`) | resume token, last position | open stream, snapshot, change events | stream and snapshot overlap |
| Debezium bridge (`crates/rustium-debezium`) | serial, last record id, pending position, snapshot flag | HTTP ingest, Kafka ingest, wait for the acknowledgement | an answer before its record is durable, a repeated request |
| Encoders (`rustium-format-json`, `-avro`, `-protobuf`) | caches of parsed schemas | key, value, tombstone, heartbeat, message, truncate | a schema that changes under a cache, values a schema has no place for |
| Sinks (`rustium-sink-kafka`, `rustium-sink-stdout`) | producer, cache of registry ids | validate, write, flush, shutdown | part of a batch delivered by a failed write |
| Configuration (`rustium-config`) | - | load YAML or Debezium properties, defaults, checks, warnings, fingerprint | two lists that must agree, an edit that makes a checkpoint mean another stream |
| Column transformation (`rustium-column-transform`) | - | mask, truncate, hash one value | - |
| Service (`rustium-cli`, `rustium-server`) | tasks, a cancellation token and its children, status | run, reset, signal handler, HTTP handlers | the order in which tasks end, a request that waits while the process is told to stop |

Interaction. `ConnectorRuntime` spawns the source with a `SourceContext`: a
bounded `mpsc` channel of records to the runtime, a `watch` channel of saved
positions back, a bounded channel of signals and a cancellation token. The
runtime calls encoder, sink and store directly. The Kafka signal channel hands a
signal to the source and commits its offset when the runtime has saved the
checkpoint that the source attached the acknowledgement to. The configuration
decides by its fingerprint whether a saved checkpoint is the connector's own.

What makes each part correct is, in short: the runtime saves only what the sink
has, in order, and tells neither source nor signal topic more than that; a
connector sends every committed row once per run, in an order that its replay
filter can resume from; a row read outside the stream never replaces a newer one;
whatever cannot be resumed is refused and not skipped; what reaches a topic can be
read with the schema it names; and an edit of the configuration either keeps what
is published or makes the old checkpoint unusable. The hazards of `PROJECT.json`
list where the code could fail to do so.

## 2. Modules

| Module | Models |
|---|---|
| `SourceLog` | a connector as the runtime sees it: one sequence of records with positions, and `LogOrdered`, the contract it owes |
| `AtLeastOnce` | the promise, abstractly: deliver in order, checkpoint what is delivered, confirm what is checkpointed |
| `Runtime` | `runtime.rs` whole, with the source task, the channels, the signal channel and crashes; implements `AtLeastOnce` (`PromiseKept`) |
| `RuntimeProofs`, `RuntimePromise` | theorems about `Runtime`: types, rows, failures and signals; order, and that it implements `AtLeastOnce` |
| `PgStreaming` | the PostgreSQL source without incremental snapshots, with the server it reads from and the runtime reduced to what a connector can tell |
| `PgStreamingProofs` | facts about its log and positions; theorems about `PgStreaming` |
| `PgIncremental` | signals and incremental snapshots of the PostgreSQL source, with the tables they read and the view the sink ends with |
| `PgIncrementalProofs` | theorems about `PgIncremental` |
| `MySql` | the MySQL source: snapshot, binlog stream, reconnection, definitions, signals, chunks |
| `MySqlProofs` | a theorem about `MySql` |
| `SqlServer` | the SQL Server source: snapshot, polls, retention, signals, chunks |
| `SqlServerProofs` | theorems about `SqlServer` |
| `Delivery` | the runtime as the three small connectors see it: channel, batch, checkpoint, acknowledgement, crash |
| `Oracle`, `MongoDb`, `Bridge` | those connectors with their databases or engine, composed with `Delivery` in `MCSources` |
| `SourcesProofs` | theorems about `Oracle` and `MongoDb` composed with `Delivery` |
| `BridgeProofs` | a theorem about `Bridge` composed with `Delivery` |
| `Encoding` | values, events and encoded records that encoders share |
| `JsonEncoder`, `AvroEncoder`, `ProtobufEncoder` | each encoder, as operators from an event to records with schemas, and what a reader of such a record sees |
| `LruCache` | the bounded cache of both the Avro encoder and the registry client |
| `KafkaSink` | batch, encoder, registry, frames, topics, retries and restarts |
| `Service` | a process: `main`'s tasks, tokens and joins, the management server, the Kafka signal channel, restarts |
| `Settings` | the settings of every section with their defaults, checks across them (`rustium-config/src/lib.rs`) |
| `DebeziumProperties` | the Debezium file: each connector's parser (`debezium.rs`) |
| `Configuration` | loading, validation, fingerprint and what a configuration publishes |
| `Warnings` | the list of supported properties against the properties that are read |
| `Startup` | a file that is edited, a process that is started, stopped and reset, the checkpoints it left |
| `MCRuntime`, `MCPgStreaming`, `MCPgIncremental`, `MCMySql`, `MCSqlServer`, `MCSources`, `MCService`, `MCStartup` | the logs, databases, signals, events and files TLC runs them on |

Except for `Runtime`, whose log is a constant the proofs quantify over, a module
has a variable `setup` that `Init` picks from the constant `Setups`: a scripted
database with a configuration and bounds on the faults. One run thus compares
many configurations under the same properties.

### Runtime

`pc` is the await at which the coordinator stands: `select` is the loop of
`run_inner`; `write`, `save` and `ack` are the stages of `flush_batch`; `flush`,
`join` and `shutdown` follow the loop; the `...Wait` values are backoffs of
`wait_for_sink_retry`. Between two awaits anything else may happen: the source
task produces (`Produce`) and sends (`Enqueue`, blocked while the channel is
full), takes a signal, confirms the published position, returns with or without
an error; the token is cancelled; the process crashes. `holding` is a record
whose `send` is pending. A failed write may have delivered any prefix of the
batch, and a failed save may have taken effect.

`delivered`, `ckpt`, `confirmed` and `sigOffset` survive a crash; all else is
reset by `Volatile`. `firstErr` (the first operational error of a run) is a
history variable for the properties.

A position is a number, the rank in the order of `SourcePosition::is_after`.
Messages are pairs of a log index and an ordinal, so a delete with a tombstone is
two messages. The connector state is the set of signals it has applied.

`AtLeastOnce` promises that a checkpoint never goes back and that the source protocol
is told of nothing past it, with one exception, `SnapshotOpen`: until a checkpoint holds
the end of the snapshot, the next start repeats it from the beginning, with
checkpoints that begin again at its first rows, while the position published to the
source starts from the checkpoint of the run before.

### PgStreaming

The server is external: `Write` appends to the write-ahead log `Wal`, `Send`
decodes the next record from where the connection started, a transaction at its
commit or, if it is in `Streamed`, at each of its changes. Assumed of pgoutput: a
change is sent at its own WAL position and a commit with its end position; a
transaction is sent if and only if its commit record lies at or after the start;
a connection starts at the later of the requested position and the slot's; a new
slot waits for running transactions (a simplification: PostgreSQL may admit some
of them).

`Boot` is the start of `PostgresSource::run` up to the connection, with
`Resume` for `resolve_resume_slot` and `Decision` for `resume_slot_decision`.
`CreateSnapshotSlot`, `SendSnapshotRow` and `CompleteSnapshot` are
`run_snapshot`. `Begin` to `MessageRecord` are the arms of
`StreamingState::convert`; each ends in `Record`, the replay filter
(`should_skip`) and the send. `Heartbeat`, `Feedback` and `OrderlyStop` are
branches of the select loop. A position has the fields of `PostgresPosition`
without `xmin`, which its order ignores. A snapshot
reads the rows of tables (`RowsBy`), and no logical decoding messages. `since` is a
history variable: where the slot that was created last begins. The sink is owed (`Owed`)
every row if snapshots are taken, and what was written or committed from `since` on.

Of the runtime, `Consume` takes one record into the batch and may or must save;
a save is one step here because the write, save and crash between them are
`Runtime`'s subject; `Crash` still may come after the write and before the save.

### PgIncremental

`ctl` is the `IncrementalSnapshotController`; `New`, `Handle`, `Stop`, `Advance`,
`Close`, `Deduplicate`, `Observe` are its operations, and `State` is what a
checkpoint keeps of it. `PrepareOpen` to `PrepareClose` are the statements of
`prepare_chunk`, one step each, because the database goes on between them; the
connector task waits (`prep`). `Begin` to `Commit` are the turns of the select
loop for the events that matter here: transactions, rows, commands in the signal
table and watermarks. Without writes (`read_only`) a commit may close a window and
prepare the next chunk several times before it goes out itself
(`CommitClosesWindow`, `CommitContinues`). `TakeExternal`, `CheckpointSignal` and
`CommitOffset` are a signal of the topic; `TakeFile` and `ApplyLine` are the signal
file, which is read and then emptied: a line written between the two, and the lines
read when the process crashes before their state is checkpointed, are lost.

The database is external: a script of statements, transaction ids in order of
first write, rows visible at commit. Keys are a table and a number, a value 0 is a
deleted row. The initial snapshot is left out, so the sink starts empty: it must
have a row when the stream has shown it or a completed snapshot covers it
(`Converges`). `view` is what the sink's log of changes folds to. A window row has
a snapshot position, which comes first at its LSN. Left out: schema checks,
surrogate keys and conditions.

### MySql

The server holds a log of events, whole transactions one after another (`LogSound` says what
a binary log is like, and TLC evaluates it on all setups); `Write` appends a transaction, `Apply` makes its
rows readable, `Purge` forgets the first file. A transaction is written before it
can be read (`prompt` says whether the two coincide). `Validate` to `StartAtEnd`
are `validate_source` and the decisions of `run`; `OpenStream`, `Disconnect` and
`Reconnect` are the outer loop with `rewind`; `Rotate` to `Ddl` the arms of
`process_binlog_event`. A position is a file, the place of the table map it is
anchored at (`Anchor`), and a serial counted since that anchor; `ShouldSkip` is the
replay filter. `ConvertRows` gives the rows of an event serials one after another and drops
the first of them, up to where the filter resumes. A definition of a table is a number; a record that was decoded with
another one than it was written in does not `fit`. `ChunkLow` to `ChunkHigh` are the
queries of `read_incremental_chunk` on another connection; `FinishWindow` sends what
`Observe` has left once the stream is behind the high coordinate.

### SqlServer

`Write` appends a committed transaction, `Capture` makes it visible in the change
tables, `Cleanup` moves the retention. A cursor is a commit LSN, a place in the
transaction and an operation code, as in `CdcCursor`; updates are two rows, of which
a batch may end between (`TakeHalf`). `Poll` reads a batch (`EntriesAfter`,
`ToBatch`), the `Take...` actions are its rows one by one; `Watermark` rows in the
signal table open and close a chunk (`TakeOpen`, `TakeClose`); `prep` is where
`open_window` stands between its queries (`Preparing`). `Applied` are the states behind
each line of the signal file. `cuts` says whether the runtime may end a batch within a
transaction. Results of queries are sets, and `InOrder` lists one from its least row on, as
`ORDER BY` does. The order of an event counts the changes of its transaction that have
rows in the change tables (`Place`).

### Delivery, Oracle, MongoDb, Bridge

`Delivery` is the chain behind the three small connectors: `Flush` takes a batch in
order and checkpoints it, `Backwards` fails on a position before the last, `Crash`
may deliver what no checkpoint holds, `Restart` begins again. `MCSources` composes
it with the connector that the setup names. `Oracle` polls committed rows of a redo
log: `Fetched` are the rows of a poll, a set of log entries, which `Handle` sends from the
least on (`AfterImage` has the WHERE clause); `missed` is a history
variable: rows that were uncommitted when the cursor passed. `MongoDb` opens the
stream before it reads the collections; an event carries the document as of the
lookup. In `Bridge`, an engine repeats its request until it is answered
(`Post`, `Timeout`); `Settle` is the end of `wait_for_ack`.

### Encoders and KafkaSink

Bytes are terms: an encoder maps an event to records whose parts carry a schema and
cells, each cell in a branch of its schema (Avro), in a field number (Protobuf) or
under a name (JSON). A reader looks the schema up in the registry by the id of the
frame and reads the cells with it (`ReadRow`). What an encoder has no place for
(`Unsupported`) ends the connector, and every start that meets it again. `Encode` is `encode_batch` with the
cache of parsed schemas, `FrameCached` and `FrameRegistered` the two ways of
`SchemaRegistryClient`, `Send` one record of a `write`, which may fail anywhere
(`Fault`, `SendFails`) and begins again at the first record; a crash empties the
caches. `setup.events` is what a source sends; the types of columns, versions of a
table and kinds of values come from the code's own tables of types.

### Service

`Build` spawns the tasks of `run` in `main.rs`, `AwaitRuntime`, `AwaitServer` and
`AwaitSignals` are its three awaits in their order, with the result the process exits
with; `Terminate` is the signal handler. The connector has the stages the others see:
`waiting` is the bounded channel of signals, `known` what the source has taken in
order, `durable` the part of it in a checkpoint; `Closes` drops the receiver. `root` is
the token of `main`; the server's is cancelled with it or alone (`ServerCancelled`).
`Validate` to `CommitOffset` are the loop of `KafkaSignalChannel::run`: a record is a
signal of this connector, of another, or none (`Decoded`), and `offset` is what the
broker remembers. `MCService` checks it beside `KafkaSink`, in behaviours of its own.

### Configuration

`Settings` has each section with its defaults and checks, `DebeziumProperties` the
parser of each connector, `Configuration` the choice between formats, the checks
across sections, the fingerprint (`Fingerprint`) and, apart from it, what a
configuration publishes (`StreamOf`). The two are written down independently: the
one is translated from `semantic_config` and the other says which tables, columns,
topics and formats come out. A regular expression stands for the set of names it
matches (`Language`). `Pinned` are the settings that only the fingerprint knows of.
`Warnings` has the properties each parser reads beside converters of a format
(`ReadUnder`) next to the one list of supported properties. `Startup` lets an operator edit the file between runs: a start
is rejected (invalid), refused (another fingerprint) or runs, and checkpoints.

## 3. Runs

| Run | Question | Bounds |
|---|---|---|
| `runtime_snapshot` | do checkpoints cover only what the sink holds, do signal offsets follow them, and does the runtime implement `AtLeastOnce` | two snapshot rows, boundary, delete of two messages, commit; capacity 2, batch of 2, 1 retry, 1 signal, 3 faults, 1 crash |
| `runtime_stream` | does every row, signal and cancellation come to its end, and does a runtime that failed, or whose connector goes back, say so | commits, heartbeats of which one goes back inside a batch; capacity 1, unlimited retries, 2 faults, 1 crash |
| `pg_supported` | snapshot handoff, exact replay, feedback, no start that skips history, every row delivered in the end | the nine setups below; channel of 2 |
| `pg_interleaved_restart` | `CaughtUpComplete` with a restart between the commits of interleaved transactions: refuted | 1 stop |
| `pg_incremental` | does the sink converge under signals, chunks, overlaps and crashes; does every snapshot complete, each chunk being opened once per process | the eleven setups below; channel of 3, 1 remembered id |
| `mysql` | does a resumed stream pass over nothing, with the right definitions; do chunks converge and complete | fifteen setups; channel of 3, 1 remembered id, 1 crash, 1 disconnect, 2 attempts to reconnect |
| `sqlserver` | does a cursor that is cut anywhere pass over nothing and keep events whole; do chunks converge and complete | thirteen setups; channel of 3, 1 crash, 1 failed poll, 2 cleanups |
| `sources` | do the Oracle and MongoDB sinks end with what the database has; is a bridge request answered only when durable; does each reach its end | fifteen setups; channel of 3, 2 crashes (1 with a MongoDB snapshot, see section 4), 2 timeouts |
| `bridge_early_ack` | `AnsweredDelivered` with an incremental snapshot document behind a streamed one: refuted | 2 documents |
| `service` | can a reader of the topic rebuild the table, and does an encoder refuse only the listed kinds of events, and those at every start; does a process that is told to stop exit, and is its signal topic read to the end | events of 1 to 5 rows under 5 formats, caches of 1 or more, faults and crashes; four deployments, signal channel of 1 or 2, up to 4 records and 3 requests, 2 starts with a fault each |
| `stop_request` | `StopStops`, an accepted stop request ends the process: refuted | requests only, 2 starts |
| `configuration` | is a checkpoint resumed only for the same stream and refused only for a reason; do warnings and parsers disagree on no more than the listed properties | eight files of seven kinds, two edits |

Setups of `PgStreaming`; `Init` picks one, so that one run compares them:

| Setup | What it adds |
|---|---|
| `Default` | default configuration, serial transactions with a multi-insert, a message; 2 stops |
| `Interleaved` | two transactions, one around the other, sent at their commits; heartbeats, no stop |
| `InProgressSent` (two) | interleaved or rolled back transactions sent while in progress; 2 stops |
| `Refusing` | `trust_offset`, driver feedback that outruns the checkpoint, slots dropped and lost: starts are refused |
| `Advancing` | `trust_greater_lsn`: a slot behind the checkpoint is advanced, or the start refused inside a transaction |
| `Trusting` | `trust_slot` with driver feedback: history is skipped on purpose (`SkipsOnPurpose`) |
| `WithoutSnapshot` | `never`, manual feedback, a lost slot |
| `Recovering` | `when_needed` after a lost slot, the recovery snapshot not interrupted |

The setups of `PgIncremental` (one or two tables of one to three rows):

| Setup | What it adds |
|---|---|
| `BySource` | a command in the signal table, chunks of one row, an update and a delete; 1 stop |
| `Repeated` | the same id in the table and twice on the topic; 1 stop |
| `Overlapping` | transactions that overlap each other and the watermarks; no stop |
| `WithoutWrites`, `WithoutWritesStopped` | `read_only`, chunks of two rows with overlaps, or one row and 1 stop |
| `Paused` | pause, resume, a second snapshot |
| `Stopped`, `StoppedLast` | the first or the last of two collections is stopped; 1 stop |
| `Beating` | heartbeats, which may fall between a window's rows and their commit; 1 stop |
| `StreamedAside` | a transaction of another table sent in progress |
| `ByFile` | two commands in the signal file, read together, apart or not at all; two tables; 1 stop |

The setups of `MySql` and `SqlServer` are described one by one in `MCMySql` and
`MCSqlServer`: the three channels of signals, pause, resume and stop, schema changes
beside a chunk, filters, statements that cannot be parsed, purged or cleaned logs
under `initial` and `when_needed`, snapshots that did not end, transactions cut by a
batch. Those of the other runs are in `MCSources`, `MCService` and `MCStartup`.

Why the bounds are enough: capacity 1 or 2 makes the channel full and the source
block; a batch of 2 splits a transaction between checkpoints and a delete of two
messages across the limit; one fault per stage plus one while the first is
handled reaches every error path; two stops put a restart after a restart, the
second inside the replay of the first. A heartbeat may come at any time, so its
number is bounded by the channel only. A chunk of one row in a table of two makes
a restart fall before, between and after chunks; the transactions of a script
start and end anywhere around the watermarks. A cache of one entry forgets at every
change of table or version. A signal channel of 1 makes requests and records wait for
each other. Two edits are a change and its undoing, or the change of
two properties that depend on each other.

Deadlock is checked in the runs of `Runtime` and in `configuration`. In the others
the script of the database ends, or a start is refused for good, after which nothing
is left to do.

`EventuallyDelivered` excepts what is meant to stop or to skip: trusted driver
feedback, a start that may refuse (`MayRefuse`: a lost slot, driver feedback, no
snapshot), and a log of interleaved transactions with heartbeats. `ReachesEnd`
speaks of setups that are `steady`; `MCSources` says which are not, and why.

Fairness. `Runtime!Fairness` lets the coordinator, the source task and the signal
channel run, and backoffs end; faults, cancellations and crashes are bounded and
not fair. In the connectors the database writes on, the connector task and the
runtime run. Events, polls, chunks and signals get strong fairness because
`tokio::select!` takes ready branches in random order: heartbeats and feedback delay
an event but not for ever. The flush interval is a timer of its own. In `MCSources`
a send is strongly fair, since the channel of tokio serves its senders in order. In
`Service` the awaits of `main`, the runtime, the server and the signal task are weakly
fair; failures of an idle task, requests, signals, crashes and restarts are not. That a
cancelled runtime returns is an assumption there, and `CancelEnds` in `runtime_stream`.

What the properties except, besides what section 4 tells: rows that were gone before
a capture began again after a snapshot that did not end (`Gone`, `OutOfSight`): the
sink was shown them and nothing takes them back; and Oracle rows in `missed`.

## 4. Divergences met while modelling

Three runs refute a property that the documents state:

- `pg_interleaved_restart`: `PostgresPosition` orders by LSN and the server sends
  in commit order, so `should_skip` drops rows of a transaction that began before
  the checkpointed commit; they are lost (`docs/design.md:90`).
- `bridge_early_ack`: an incremental snapshot document is answered before it is
  written, because snapshot positions come before all streamed ones and
  `wait_for_ack` takes any later position for its own (`README.md:651`).

- `stop_request`: `stop_connector` cancels a child of the token that the connector
  listens to (`crates/rustium-cli/src/main.rs:108`); the server answers "stopping" and
  ends, the connector goes on (`README.md:789`, `docs/design.md:521`).

Further ones were seen with the same modules when a setup's restriction was lifted
(the restriction is named), or by comparing the code with a document while it was
translated. The passing setups stay inside these restrictions.

Runtime:

- A source blocked on the full channel is awaited for `shutdown_timeout`, and a stop
  without any error ends FAILED (`runtime.rs:388`; `docs/design.md:167`). So does a
  stop whose source returned first and dropped its receiver (`runtime.rs:552`), and a
  cancellation in the backoff of sink validation leaves the status STARTING and the
  sink without `shutdown` (`runtime.rs:285`).

Service:

- A stop by SIGTERM may exit with an error though nothing failed: the signal task that
  receives a record, or waits for an acknowledgement, while the source drops its
  receiver may take `Error::Cancelled` before it looks at its token
  (`rustium-signal-kafka/src/lib.rs:167`; `README.md:778` speaks of a graceful stop).
- A management server that cannot bind is noticed only after the runtime has ended
  (`main.rs:122`): until then the connector runs unmanaged.

PostgreSQL (`crates/rustium-postgresql/src/source.rs` unless named):

- The batches of a recovery snapshot are checkpointed with the flags of the obsolete
  checkpoint (`:618`, `docs/design.md:303`); interrupted, it is never finished
  (`Recovering` allows no crash there). MySQL and SQL Server share this.
- With `StreamingMode::On` a change may be out before a chunk's open watermark and
  not committed when the chunk is read; the older row follows it and stays
  (`:733`, `docs/design.md:331`; `StreamedAside` writes another table).
- `checkpoint_external_signal_state` (`:1346`) acknowledges a signal at once if it
  changes nothing in memory, though the checkpoint may still hold the paused progress;
  after a crash the snapshot stays paused (`docs/design.md:99`; `Paused` has no stop).
- `next_serial` counts on from a commit whose end is the LSN of the next rows, and
  counts from 1 on replay: a multi-insert right behind a commit loses a row.
- A heartbeat at the inner of two interleaved commits, still in the batch when
  the older rows arrive, fails the runtime with "source position moved
  backwards". `NeverBackwards` therefore speaks of serial logs.
- A logical decoding message written before the slot is created is never delivered, nor is
  one that was not delivered when a snapshot replaces a lost slot, or when a crash repeats
  the first snapshot before its end is checkpointed: `run_snapshot` reads tables only (`:332`, `:2482`). No
  document promises otherwise; `Owed` asks for such messages no more than the code does.
- Under `never`, a checkpoint made of a heartbeat alone has no schema state, and
  the next start refuses it (`:637`). Rows of a streamed transaction that rolls back
  stay delivered; `StreamStart` keeps an open transaction of another id (`:1967`).
- A heartbeat between the rows of a window and their commit repeats an earlier
  position, so that the runtime may fail; `Converges` and `SnapshotsComplete` of
  `pg_incremental` speak of a connector that has not failed. Where there are stops, no
  transaction is open while the connector commits a watermark (`isolated`).

MySQL (`crates/rustium-mysql/src/source.rs`):

- A record is anchored at the table map of its own table only (`:2128`). One
  statement that writes two tables maps both before the rows of either; a reconnection
  to the second's anchor meets rows of the first and fails with "missing
  TABLE_MAP_EVENT" at every start (`docs/design.md:196`, `:389`). The same happens to a
  heartbeat or reconnection behind a row of the signal table.
- A chunk is read on another connection: a transaction is in the binlog before it is
  visible there, and its row may be read old behind the low coordinate (`prompt`).
- `transaction_from_resume` leaves a transaction open when the position has a GTID
  set; on an idle server the next chunk waits for it.
- Rows of filtered transactions still take keys out of a window; file signals are lost
  by a crash behind `read_and_clear`; an unmatched signal in the table ends the connector
  at every start; binlog file names compare as strings (`event.rs:163`, `rank`).

SQL Server (`crates/rustium-sqlserver/src/source.rs`):

- A checkpoint with `connector_state` is resumed as a completed commit (`:72`), also when
  its batch ended within the transaction, whose rest is then never read. The runtime
  carries the state of one signal into all checkpoints behind it. `docs/design.md:454`
  says that mid-transaction recovery replays from the commit. With `CutWithState` of
  `MCSqlServer` for `Setups`, TLC refutes `NoGap` in 18 steps: a signal, the first row of a
  transaction of three, a batch, a crash, a start behind the other two. In the setups of
  `sqlserver`, `cuts` is off wherever a signal is accepted.
- Retention is checked and changes are read by two queries (`:2365`, `:2056`): a cleanup
  between them passes rows over. The model has the two as one step. The check refuses a
  cursor that is complete at the commit before the minimum.
- A poll interval of 0 reaches `tokio::time::interval` (`:1113`), which panics; so does
  `poll.interval.ms=0` as flush interval. Neither is checked by the configuration.

Oracle (`crates/rustium-oracle/src/source.rs`): rows that were uncommitted when the
cursor or the anchor passed are never read (`:449`). Interleaved commits in one batch
go backwards and fail the runtime again at each start (`Overlapping` is not steady).
`parse_sql_row` lets the WHERE clause overwrite the SET values (`:727`; `where`).

MongoDB (`crates/rustium-mongodb/src/source.rs`): two crashes may leave a stale document.
A start after a snapshot that was cut short opens the stream at the old checkpoint (`:337`,
`:146`) but takes its snapshot, and the checkpoint at its end, at a later anchor. The older
changes the stream then sends again overwrite newer documents until it has reached the
anchor; a second crash after such a change is written and before it is checkpointed
restarts at the anchor, and nothing repairs the document. `docs/design.md:478` and
`README.md:635` say that concurrent changes are not skipped. Setups with a snapshot
therefore have one crash: with two, TLC refutes `CaughtUp`. An invalidated
stream never goes on. Documents of a dropped collection stay at the sink.

Bridge (`crates/rustium-debezium/src/source.rs`): a request of three documents whose
last timed out is refused from then on; documents without an id that are equal and
consecutive are taken for a repetition; a refused Kafka document ends the connector at
every start.

Encoders (`Unsupported` in `KafkaSink`; one such event ends the connector at every start):

- Avro and Protobuf refuse a `TRUNCATE` of a keyed table, which has no row
  (`crates/rustium-format-avro/src/lib.rs:103`, `README.md:373`); a delete under the default
  replica identity, which has nulls in columns that are not null
  (`crates/rustium-postgresql/src/source.rs:1942`); SQL Server `bit`, a boolean in a column of
  bytes; and an array of more than one dimension unless its items are texts, since
  PostgreSQL names its type like one of a single dimension, although `README.md:740` says
  that multidimensional arrays remain lossless.
- Protobuf also refuses `hstore` under the default `hstore.handling.mode=json`, and
  unsigned columns of MySQL that hold decimals or floats.
- The schema that `JsonSchemaConverter` registers is not one the values conform to for
  `int unsigned` (a number declared a string), arrays of more than one dimension and arrays
  with nulls. Nothing refuses them; `MCService` leaves these out under that format.
- Only the first of several truncated tables is sent; MySQL reads `year` as text in a
  snapshot and as integer in the stream.

Configuration (`crates/rustium-config/src`; all three are in the setups of `MCStartup`, and the
properties of `configuration` name exactly them):

- `lsn.flush.timeout.ms`, `lsn.flush.timeout.action` and `xmin.fetch.interval.ms` are
  applied, but a warning says that they are ignored (`debezium.rs:1871`; `InForceYetWarned`).
- Mask properties, `signal.*` and `schema.include.list` are ignored in silence where a
  connector does not have them, converter options under another converter
  (`ReadSomewhere`), and `tasks.max` and `*.schemas.enable` always (`ReadByNone`), although
  `docs/design.md:98` promises a warning. A bridged connector warns of nothing
  (`debezium.rs:1039`): what it does not read goes to Debezium, except Rustium's own and the
  converters' properties. `WarningsMatchReaders` does not speak of it.
- The fingerprint holds tuning such as `snapshot.fetch.size`, heartbeat and poll intervals,
  registry timeouts, and the MongoDB connection string with its password
  (`lib.rs:565`), although `docs/design.md:200` says that passwords and tuning do not affect
  it. `Pinned` lists these settings; changing one makes the checkpoint unusable.
  So do changed properties handed to a bridged process, except those hidden as credentials.

## 5. Proofs

| Theorem | States | Under |
|---|---|---|
| `RuntimeProofs!TypeCorrect` | `Spec => []TypeOK` | - |
| `RuntimeProofs!RowsKept`, `NoLoss` | `RowsAccounted`, `NoAcknowledgedDataLoss` | `LogOrdered` |
| `FailuresReported`, `SignalsKept` there | `FailureVisible`, `SignalsSurvive` | - |
| `RuntimePromise!NothingStale`, `PromiseHeld` | `NoStaleRedelivery`, `PromiseKept` (the refinement of `AtLeastOnce`) | `LogOrdered` |
| `BridgeProofs!AnsweredHeld` | `AnsweredDelivered` | `EnginesOrderly` |
| `PgStreamingProofs!Streams` | the inductive invariant `StreamKept` | - |
| `NeverAGap`, `CaughtUp`, `SlotBehind`, `ReplaysExactly`, `KeepsForward` there | `NoGap`, `CaughtUpComplete`, `SlotCoversDelivered`, `ReplayExact`, `NeverBackwards` | a setup that is `Ordinary` |
| `PgIncrementalProofs!NoRowSkipped`, `PausesHold` | `ProgressCovered`, `PauseHolds` | - |
| `ChunksOnce`, `NothingForgotten` there | `ChunkOpenedOnce`, `NoSnapshotForgotten` | `Remembers(setup)` |
| `MySqlProofs!NeverAGap` | `NoGap` | `LogsSound` |
| `SqlServerProofs!NeverAGap`, `WholeEvents` | `NoGap`, `EventsWhole` | `SetupsOrdinary` |
| `SourcesProofs!NothingPassedOver` | `CaughtUp` | `SetupsSound`, `[]StreamAtAnchor` |
| `StreamsPassNothingOver` there | `CaughtUp` | `SetupsSound`, `MongoStreamsOnly` |

All hold for every value of the constants: every log, capacity, batch size, retry limit,
number of faults, crashes and stops. The assumptions on constants are `LogAssumption`,
`RuntimeAssumption`, `PgAssumption`, `IncrementalAssumption`, `NamesAssumption`,
`MySqlAssumption`, `SqlServerAssumption` and `ScriptAssumption`: types, bounds that are not 0, that rows, keys
and scripts are finite, that no collection has the name that stands for none, and that a
transaction has fewer changes than a change LSN can tell apart. Each invariant was checked by TLC
on the setups of its run before it was proved.

### Runtime

`LogOrdered` is a hypothesis because it is what a connector owes: positions never go
back, and a row has a position after that of everything before it.
`PgStreaming` shows a connector that breaks it (`pg_interleaved_restart`).

`NoLoss`. That a checkpoint covers only delivered rows is not inductive: the saved
position is the highest of the batch, and one has to know that no undelivered row at
or below it is anywhere else. `RowsAccounted` says where every row is: a row that was
sent is delivered, in the batch or in transit (`SentRows`); a row in transit is later
than the batch and all before it (`TransitOrder`); what is not sent yet is later than
what is (`Ahead`); at `save` the batch is delivered (`Written`); before the source is
spawned nothing is in transit (`EarlyEmpty`). So when `save` stores `highest`, a row at
or below it is delivered. TLC checks `RowsAccounted` too, in `runtime_snapshot`.

`FailuresReported`. `FailureKept` says that the first error of a run is in the
coordinator's own result or the source's until it is in the status; it needs that the
source is not running any more once the coordinator has begun to close.

`SignalsKept`. `SignalsFollowed` follows the one signal in flight: in the record that
carries the new state (`TransitSignals`), in the batch (`BatchSignals`), in the checkpoint
(`SignalBooked`). What makes it inductive is `SnapshotFirst`: no signal enters the batch
before the end of the snapshot does. A repeated snapshot forgets the connector state, so
a signal saved earlier would be lost with it.

`NothingStale`, `PromiseHeld`. `OrderKept` adds the order: messages of rows reach the
sink in the order of the log, also across partial writes and retries (`InOrder`,
`BatchOrdered`, `TransitIndexed`); positions of the batch and in transit ascend
(`TransitForward`, which shows that under `LogOrdered` the runtime never fails with "source
position moved backwards"); a checkpoint to come is not behind the last (`BatchForward`),
what is under way is later than it (`RowsFresh`), and what is published to the source is
safe now and after the next save (`AckSafe`). The refinement is then a step of
`AtLeastOnce` or a stutter for each action.

### Bridge

`EnginesOrderly` is a hypothesis about the external engine: it repeats a record right
away or never, and sends the documents of its snapshot first. The setups of `sources`
are so; `bridge_early_ack` is the run without it, and there the property is refuted.
`Kept` says that every document of an answered request is settled (`AnswersSettled`); that
a document is sent after all before it and that an acknowledged or checkpointed position
is one of a written document (`SentInOrder`); that the last id, the pending position and
the one waited for belong to documents that are written or under way (`Remembered`); and
that serials grow (`SerialsGrow`), so that a position that is not after the
acknowledged one is that of a written document. Settled means that the sink holds the
document or that it changes nothing.

### PostgreSQL stream

A setup is `Ordinary` when its transactions lie one after the other, are sent at their
commits, there is no recovery snapshot (`when_needed`) and the driver confirms nothing by
itself. Stops, slot losses, snapshots that did not end, heartbeats, messages, multi-inserts
and both feedback modes are included; of the setups of `pg_supported`, `Default`,
`Advancing` and `WithoutSnapshot` are ordinary. What is excluded is told in section 4: there
the properties fail or are restricted in the run as well. One restriction is of the log:
the first row behind the end of a transaction lies strictly later (`Apart`), because
`next_serial` would count on.

`PgKept` relates three orders, that of the log, that of positions and that of arrival.
A position covers what is at or below it (`Covered`); `CheckpointCovers`, `PipelineCovers`
and `StreamSafe` say so of the checkpoint, of every position in the pipeline and of the last
safe position. `StreamComplete` says that a row that is due is somewhere in the pipeline,
delivered, or still ahead on the connection; `StreamExact` that the next event gets the
serial it has in the log, also when the connection began inside a transaction. Then the
replay filter drops exactly what the resumed position covers. `SnapshotFirst`,
`InSnapshot` and `Attached` do the same for the snapshot and the handoff to the stream.
The lemmas about logs, positions and serials come first; each action of `PgStreaming` has a
lemma of its own.

### PostgreSQL incremental snapshots

`ProgressCovered` is not inductive: the state goes out with a commit, behind the rows of
several chunks, and may be checkpointed long after the controller has moved on. A row
that was there in the beginning and that no transaction has written (`Untouched`) can only
reach the sink by a chunk. `Kept` follows it: while the chunk is prepared it is among the
rows read or behind the end of the chunk (`PrepKept`, `ChunkKept`); once the window is open
it is still in it, since only changes take rows out (`ControllerKept`); when the progress
moves behind it (`Behind`) it is in flight, at or before the first record that carries that
progress (`ProgressKept`, `Arrives`, `FlightKept`), or at the sink (`SinkKept`). The maximum
key, read once per collection, is no lower than any such row. All of it holds for
both ways of watermarking, overlapping and streamed transactions, and when a `stop-snapshot`
takes collections out on either side of the current one (`StopKept`).

`PauseHolds` needs the part of `Kept` that a controller that asks for a chunk (`prepare`) is
active and not paused.

`Remembers` says that no more signals ask for a snapshot than the list of completed signals
holds (`MAX_COMPLETED_SIGNAL_IDS`, 1024). It is a hypothesis because the list drops the
oldest beyond that, and a signal dropped from it runs again when the topic delivers it
again. Of the setups of `pg_incremental`, whose list has one place, all that ask for one
snapshot have it; TLC checked the invariant on these. `OpenKept` is built on an order of
states: one is `Remembered` by a later one when its completed signals are completed there
too, and its snapshot in progress is in progress or completed. Each state in flight is
remembered by those behind it and by the controller, and remembers the checkpoint
(`FlightSound`), so that a crash falls back to a state that has forgotten nothing of what
was persisted; this is `NoSnapshotForgotten`, seen from the checkpoint. For
`ChunkOpenedOnce`, a chunk is `Spent` when the controller is past it or has it as the current
one. Every operation of the controller lets spent chunks stay so (`Follows`), a chunk is
prepared only when it is not spent, and it is spent or `BeingRead` from its open watermark
on. So a process writes at most one for each chunk, and `OpensCounted` counts the log:
no more than one for each process so far, fewer if the chunk may still be opened.

### MySQL

`LogsSound` says that the logs are such as a server writes: a transaction ends with its last
statement, begins with its GTID event where a filter depends on it, lies in one file, maps a
table before rows of it, and file names ascend. Nothing else is asked of the setup: snapshots
in every mode, disconnects, crashes, purges, filters, schema changes, heartbeats, all three
channels of signals and chunks are included, and statements that write several tables, at
which a resumed task fails for a missing table map (section 4) but passes over nothing.

`NoGap` speaks of the stream that runs; what makes it inductive is said of every position a
stream may begin at. A position `Reaches` a row when the row's event is before it, or when it
is at the table map the row is anchored at and its serial is no less than the number of rows
of that map up to this one (`Count`). Each position in flight covers
what it reaches by the records before it (`FlightKept`), the checkpoint by what is delivered
(`CheckpointKept`), the last safe position and the position of the filter by all of it
(`SafeKept`, `FilterKept`); what is behind the cursor has been sent (`CursorKept`).

The code never counts the rows of a map. It counts the rows read on the connection with the
same anchor, and forgets the count at a new anchor, a commit or a rotation. `SerialsKept` says
that this count is never higher than `Count`, so that a position promises no more than has been
sent; and that while the filter is on, in the file it resumes from, it counts all rows of the
map it resumes at, so that a row it drops has the serial it was sent with. The latter needs
that the stream begins no later than that map (`AnchorsKept`), that the map is not replaced
by another one of its table, which would stand later, and that a filtered transaction, whose
rows are not counted, has no such rows at all (`TxnKept`, `IgnoredTogether`). A position in a
later file or at a later anchor ends the filter (`Dropped`). Between transactions no row is
left that the last safe position is the anchor of (the last part of `SafeKept`), which is why
heartbeats, signals and chunks may be sent there with any serial (`SafeSent`,
`WindowFinished`). TLC checked the invariant on all setups, and with two crashes on those
that write several tables, rotate, send signals or change the mode.

### SQL Server

`SetupsOrdinary` says that where batches may end within a transaction (`cuts`), no signal is
accepted: none is sent, or each is one the source ignores or refuses. Otherwise a checkpoint
with connector state loses rows (section 4). Where batches end with
transactions, all signals and chunks are included, and so are crashes, failed polls,
cleanups, both isolation levels and all snapshot modes.

`NoGap` is not inductive: it speaks of the cursor of the running process, and a restart goes
back to one made of the checkpoint. `Kept` says the same of every position from which the
stream may go on. A change is in the way of the first `k` records in flight when it is
delivered or among them (`Arrives`); each position in flight covers what it `Reaches` by
those before it (`FlightKept`), the checkpoint by what is delivered (`CheckpointKept`), the
cursor and the batch still to be handled by all of it (`CursorKept`, `BatchKept`), the last
safe position likewise. A batch holds every row between its first and its last
(`EntriesAfter`, `ToBatch`), and ends a transaction only behind its last row. For
`EventsWhole`, `conv` counts the rows of the open transaction up to the cursor, also
after a restart, which reads it again from its first row and skips what the checkpoint
covers; the half of an update that is pending is the one right before the cursor.
`QuietKept` is the hypothesis at work: where batches are cut, no record and no checkpoint
carries state.

The lines of the signal file are applied by a recursive function, and the library's
induction theorems cannot be used. `Least` proves, from finite cardinalities, that a
non-empty set of numbers has a least element; `AppliedFacts` then takes the first line whose
state would not be well formed, and the line before it.

### Oracle and MongoDB

`CaughtUp` speaks of the end only. What holds all along is about every number `n` of records
that the runtime might still write before the process ends: the sink then has `Shown(key,
n)` of a key and the checkpoint is `PosAt(n)`, or an earlier one if the crash comes before
it is saved. `RowKept(key, t, n)` says that the sink has the row as it is, or the key was
changed after entry `t`, or it is out of sight, or a row of it was missed (`Owed`).
`OracleRestarts` claims it of the entry of each checkpoint from which a start would go on
without a snapshot, `OracleReads` of the cursor of the running connector and all that is
under way; `OracleStreams` says that the rows of a poll leave out nothing between the cursor
and the last of them but what is missed, and `Gone` that all up to a resumed position is
committed or missed, so that a commit to come changes no row the sink was shown.
`DocumentKept`, `MongoRestarts` and `MongoReads` are the same for MongoDB, whose stream may
begin one operation before its cursor (`From`) and whose events carry the document as of the
lookup or of the operation.

`SetupsSound`: a history has the shape the actions read, the WHERE clause of an update
names its key alone (otherwise `AfterImage` is another row, section 4), and a dropped
collection leaves no document. All setups of `sources` are sound. `StreamAtAnchor` says that
the stream of a start that takes a snapshot begins no later than where its anchor restarts
it. It is the exact place where MongoDB fails after two crashes (section 4): it holds unless
changes come between an interrupted snapshot that was checkpointed and the next.
`StreamsPassNothingOver` does without it: for Oracle, in any snapshot mode, and for MongoDB
with `snapshot.mode` `never`. TLC checked the invariants before, with two and three crashes.

### Only model-checked

- Liveness, in all runs: out of the prover's reach.
- `Converges` of `PgIncremental`, `MySql` and `SqlServer`, whose subject is rows that
  transactions do write while a chunk is read, in every order of their commits and the
  watermarks. `ChunkOpenedOnce` and `NoSnapshotForgotten` beyond `Remembers`.
- `LayoutMatches` of `MySql`: the definitions a row is decoded with come from whichever state
  was checkpointed last, and are not related to positions in the proof of `NoGap`. `CaughtUp` of MongoDB after an interrupted snapshot (with one crash).
- `SqlServer` with signals where batches end within transactions: refuted.
- `PgStreaming` on the setups that are not ordinary: interleaved and streamed transactions,
  driver feedback, recovery snapshots.
- `KafkaSink`, `Service` and `Startup`: encoders and settings are tables whose cases TLC
  enumerates.

## 6. Not modelled

- Conversion of values by type in the connectors, the DDL parser of MySQL, the
  column transformations themselves (mask, truncate, hash), the decoding of a bridge
  document: pure functions of one text or value. What they decide for the state (the
  definition a statement leaves, the key of a row, whether a document is refused) is
  part of the setups.
- PostgreSQL: paging of the snapshot under `read_committed`, schema
  checks, surrogate keys and conditions of incremental snapshots, slot failover, and
  the reconnection inside `pg_walstream`, which is external.
- MySQL and SQL Server: TLS, discovery and permission queries, surrogate keys and
  conditions; `read_uncommitted`.
- Oracle and MongoDB: validation, discovery, the list of log files for LogMiner.
- Checkpoint store: migration of version 1 and inspection.
- Service: `validate`, the building of the parts, and the handlers that only read
  (health, status, metrics). A client that never finishes sending a request holds the
  graceful shutdown of the server, and so the exit of the process; the model's requests
  arrive whole.
- Configuration: interpolation and escapes, checks of single texts, regular expressions
  beyond the set of names they match, six of the eight kinds behind the bridge (their
  parsers are the same).
- The stdout sink (no state) and packaging (images, chart, scripts).
