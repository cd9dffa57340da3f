-------------------------------- MODULE Service --------------------------------
(***************************************************************************)
(* One process of the service (rustium-cli, main.rs, run): the connector,  *)
(* the management server (rustium-server, lib.rs) and the Kafka signal     *)
(* channel (rustium-signal-kafka, lib.rs), the tokens that stop them and   *)
(* the bounded channel their signals share (rustium-core, signal.rs).      *)
(*                                                                         *)
(* The connector is cut down to the stages the others see; Runtime.tla is  *)
(* what happens within them, and that a cancelled one ends is CancelEnds   *)
(* there.  Durable are the signals in the checkpoint and the offset of the *)
(* signal topic.  deployment is what the configuration and the topic say,  *)
(* and bounds the requests (deployment.requests) and the starts of the     *)
(* process (deployment.starts); a process meets at most one fault.         *)
(***************************************************************************)
EXTENDS Integers, Sequences, SequencesExt

VARIABLES
    deployment, stage, root, serverToken, exit, term, fault, starts,   \* the process
    connector, result, waiting, known, durable,                        \* the runtime and its source
    server, request, requests,                                         \* the management server
    signals, next, ack, offset                                         \* the Kafka signal channel

main        == <<deployment, stage, exit, starts>>
tokens      == <<root, serverToken, term>>
runtimeVars == <<connector, result, known, durable>>
serverVars  == <<server, request, requests>>
kafkaVars   == <<signals, next, ack, offset>>
serviceVars == <<main, tokens, fault, runtimeVars, waiting, serverVars, kafkaVars>>

ServiceInit ==
    /\ stage = "build" /\ root = FALSE /\ serverToken = FALSE /\ exit = "none" /\ term = FALSE /\ fault = FALSE
    /\ connector = "off" /\ result = "ok" /\ waiting = <<>> /\ known = <<>> /\ durable = <<>>
    /\ server = "off" /\ request = "none" /\ requests = 0
    /\ signals = "off" /\ next = 0 /\ ack = FALSE /\ offset = 0
    /\ starts = 1

\* What the network, a broker, the sink or the disk does to one task.
Fails == ~fault /\ fault' = TRUE

----------------------------------------------------------------------------
(* main.rs, run.                                                            *)

\* The tasks are spawned.
Build ==
    /\ stage = "build" /\ stage' = "run"
    /\ connector' = "starting" /\ server' = "binding"
    /\ signals' = IF deployment.kafka THEN "validating" ELSE "ok"
    /\ UNCHANGED <<deployment, exit, starts, tokens, fault, result, waiting, known, durable,
                   request, requests, next, ack, offset>>

\* build_runtime, build_kafka_signal_channel or the address of the server fails.
BuildFails ==
    /\ stage = "build" /\ Fails /\ stage' = "exited" /\ exit' = "error"
    /\ UNCHANGED <<deployment, starts, tokens, runtimeVars, waiting, serverVars, kafkaVars>>

\* runtime.run returns: everything else is cancelled.
AwaitRuntime ==
    /\ stage = "run" /\ connector = "ended" /\ stage' = "await_server" /\ root' = TRUE
    /\ UNCHANGED <<deployment, exit, starts, serverToken, term, fault, runtimeVars, waiting, serverVars, kafkaVars>>

AwaitServer ==
    /\ stage = "await_server" /\ server \in {"ok", "failed"} /\ stage' = "await_signals"
    /\ UNCHANGED <<deployment, exit, starts, tokens, fault, runtimeVars, waiting, serverVars, kafkaVars>>

AwaitSignals ==
    /\ stage = "await_signals" /\ signals \in {"ok", "failed"} /\ stage' = "exited"
    /\ exit' = IF "failed" \in {result, server, signals} THEN "error" ELSE "ok"
    /\ UNCHANGED <<deployment, starts, tokens, fault, runtimeVars, waiting, serverVars, kafkaVars>>

\* install_signal_handler: SIGTERM or Ctrl-C.
Terminate ==
    /\ stage # "exited" /\ ~term /\ term' = TRUE /\ root' = TRUE
    /\ UNCHANGED <<main, serverToken, fault, runtimeVars, waiting, serverVars, kafkaVars>>

Crash ==
    /\ stage # "exited" /\ Fails /\ stage' = "exited" /\ exit' = "crash"
    /\ UNCHANGED <<deployment, starts, tokens, runtimeVars, waiting, serverVars, kafkaVars>>

\* A new process has the checkpoint, and reads the topic from the committed offset.
StartAgain ==
    /\ stage = "exited" /\ starts < deployment.starts /\ starts' = starts + 1
    /\ stage' = "build" /\ root' = FALSE /\ serverToken' = FALSE /\ exit' = "none" /\ term' = FALSE /\ fault' = FALSE
    /\ connector' = "off" /\ result' = "ok" /\ waiting' = <<>> /\ known' = durable
    /\ server' = "off" /\ request' = "none"
    /\ signals' = "off" /\ next' = offset /\ ack' = FALSE
    /\ UNCHANGED <<deployment, durable, requests, offset>>

Main == Build \/ AwaitRuntime \/ AwaitServer \/ AwaitSignals

----------------------------------------------------------------------------
(* The runtime and the source in it, which owns the receiver.               *)

Open == connector \in {"starting", "running"}

ConnectorStarts ==
    /\ connector = "starting" /\ ~root /\ connector' = "running"
    /\ UNCHANGED <<main, tokens, fault, result, waiting, known, durable, serverVars, kafkaVars>>

\* The source takes the next signal; one it knows is acknowledged at once.
TakeSignal ==
    /\ connector = "running" /\ waiting # <<>>
    /\ waiting' = Tail(waiting)
    /\ IF Contains(known, Head(waiting))
       THEN known' = known /\ ack' = (Head(waiting)[1] = "kafka")
       ELSE known' = Append(known, Head(waiting)) /\ ack' = ack
    /\ UNCHANGED <<main, tokens, fault, connector, result, durable, serverVars, signals, next, offset>>

\* flush_batch: a checkpoint has the state after some of the signals taken, and acknowledges
\* those; once the source has returned, the save is followed by an error instead.
SaveSignals ==
    /\ \E n \in Len(durable) + 1 .. Len(known) :
        /\ durable' = SubSeq(known, 1, n)
        /\ \/ /\ connector = "running" /\ UNCHANGED result
              /\ ack' = (ack \/ \E k \in Len(durable) + 1 .. n : known[k] = <<"kafka", next>>)
           \/ connector = "closing" /\ result' = "failed" /\ UNCHANGED ack
    /\ UNCHANGED <<main, tokens, fault, connector, waiting, known, serverVars, signals, next, offset>>

\* The source returns, and its receiver is dropped.
Closes == Open /\ connector' = "closing" /\ waiting' = <<>>

SourceStops ==
    /\ Closes /\ root
    /\ UNCHANGED <<main, tokens, fault, result, known, durable, serverVars, kafkaVars>>

SourceFails ==
    /\ stage # "exited" /\ Closes /\ Fails /\ result' = "failed"
    /\ UNCHANGED <<main, tokens, known, durable, serverVars, kafkaVars>>

\* The rest of the queue is drained, or given up.
RuntimeReturns ==
    /\ connector = "closing" /\ connector' = "ended"
    /\ \/ UNCHANGED <<result, fault>>
       \/ Fails /\ result' = "failed"
    /\ UNCHANGED <<main, tokens, waiting, known, durable, serverVars, kafkaVars>>

Connector == stage # "exited" /\ (ConnectorStarts \/ TakeSignal \/ SaveSignals \/ SourceStops \/ RuntimeReturns)

\* SignalSender: room for one more.
Room == Open /\ Len(waiting) < deployment.capacity

----------------------------------------------------------------------------
(* rustium-server.                                                          *)

\* Faulty variant: a token of its own.
OwnToken == serverToken

\* cancellation.child_token(): cancelled with its parent, and alone.
ServerCancelled == root \/ serverToken

Bind ==
    /\ server = "binding"
    /\ \/ server' = "listening" /\ UNCHANGED fault
       \/ server' = "failed" /\ Fails
    /\ UNCHANGED <<main, tokens, runtimeVars, waiting, request, requests, kafkaVars>>

\* A request whose handler may act: the others are answered 403, 409 or 400 and change nothing.
Requested ==
    /\ server = "listening" /\ ~ServerCancelled /\ deployment.mutations
    /\ requests < deployment.requests /\ requests' = requests + 1

\* stop_connector.
StopConnector ==
    /\ Requested /\ serverToken' = TRUE
    /\ UNCHANGED <<main, root, term, fault, runtimeVars, waiting, server, request, kafkaVars>>

\* submit_signal: the handler waits until the channel has room or is closed.
SubmitSignal ==
    /\ Requested /\ deployment.inProcess /\ request = "none" /\ request' = "sending"
    /\ UNCHANGED <<main, tokens, fault, runtimeVars, waiting, server, kafkaVars>>

\* 202, or 503: the channel is closed.
Answer ==
    /\ request = "sending" /\ request' = "none"
    /\ \/ Room /\ waiting' = Append(waiting, <<"http", requests>>)
       \/ ~Open /\ UNCHANGED waiting
    /\ UNCHANGED <<main, tokens, fault, runtimeVars, server, requests, kafkaVars>>

\* with_graceful_shutdown: once cancelled, and no request is being answered.
ServerEnds ==
    /\ server = "listening" /\ ServerCancelled /\ request = "none" /\ server' = "ok"
    /\ UNCHANGED <<main, tokens, fault, runtimeVars, waiting, request, requests, kafkaVars>>

ServerTask == stage # "exited" /\ (Bind \/ Answer \/ ServerEnds)
Requests == stage # "exited" /\ (StopConnector \/ SubmitSignal)

----------------------------------------------------------------------------
(* rustium-signal-kafka.  deployment.topic is what was written to the       *)
(* topic: a signal of this connector, one of another ("foreign"), or a      *)
(* record with its key and no signal in it ("invalid").                     *)

ChannelFails == signals' = "failed" /\ root' = TRUE

\* validate: the topic has one partition, which is assigned at the stored offset.
Validate ==
    /\ signals = "validating"
    /\ \/ signals' = "receiving" /\ UNCHANGED <<root, fault>>
       \/ ChannelFails /\ Fails
    /\ UNCHANGED <<main, serverToken, term, runtimeVars, waiting, serverVars, next, ack, offset>>

\* Faulty variant: the offset of a record that is ignored is not committed.
SkipsIgnored(kind) == IF kind = "own" THEN "sending" ELSE "receiving"

\* decode_signal: what is done with a record.
Decoded(kind) == IF kind = "own" THEN "sending" ELSE "committing"

\* receive: a record.
ReceiveSignal ==
    /\ signals = "receiving" /\ next < Len(deployment.topic)
    /\ next' = next + 1 /\ signals' = Decoded(deployment.topic[next + 1]) /\ ack' = FALSE
    /\ UNCHANGED <<main, tokens, fault, runtimeVars, waiting, serverVars, offset>>

ReceiveFails ==
    /\ stage # "exited" /\ signals = "receiving" /\ ChannelFails /\ Fails
    /\ UNCHANGED <<main, serverToken, term, runtimeVars, waiting, serverVars, next, ack, offset>>

\* Both select! of the task, with any other branch that is ready.
ChannelCancelled ==
    /\ signals \in {"receiving", "sending", "waiting"} /\ root /\ signals' = "ok"
    /\ UNCHANGED <<main, tokens, fault, runtimeVars, waiting, serverVars, next, ack, offset>>

\* send_and_wait: into the channel.
SendSignal ==
    /\ signals = "sending" /\ Room
    /\ waiting' = Append(waiting, <<"kafka", next>>) /\ signals' = "waiting"
    /\ UNCHANGED <<main, tokens, fault, runtimeVars, serverVars, next, ack, offset>>

\* The acknowledgement of the signal may still come.
Unanswered ==
    \/ Contains(waiting, <<"kafka", next>>)
    \/ connector # "ended" /\ Contains(known, <<"kafka", next>>) /\ ~Contains(durable, <<"kafka", next>>)

\* The channel is closed, or the acknowledgement is dropped: Error::Cancelled.
SendRefused ==
    /\ \/ signals = "sending" /\ ~Open
       \/ signals = "waiting" /\ ~ack /\ ~Unanswered
    /\ ChannelFails
    /\ UNCHANGED <<main, serverToken, term, fault, runtimeVars, waiting, serverVars, next, ack, offset>>

SendAcknowledged ==
    /\ signals = "waiting" /\ ack /\ signals' = "committing"
    /\ UNCHANGED <<main, tokens, fault, runtimeVars, waiting, serverVars, next, ack, offset>>

\* commit, synchronous.
CommitOffset ==
    /\ signals = "committing"
    /\ \/ offset' = next /\ signals' = "receiving" /\ UNCHANGED <<root, fault>>
       \/ ChannelFails /\ Fails /\ UNCHANGED offset
    /\ UNCHANGED <<main, serverToken, term, runtimeVars, waiting, serverVars, next, ack>>

SignalTask ==
    /\ stage # "exited"
    /\ Validate \/ ReceiveSignal \/ ChannelCancelled \/ SendSignal \/ SendRefused
       \/ SendAcknowledged \/ CommitOffset
----------------------------------------------------------------------------

ServiceNext ==
    \/ Main \/ Connector \/ ServerTask \/ SignalTask
    \/ Requests \/ Terminate \/ StartAgain
    \/ BuildFails \/ SourceFails \/ ReceiveFails \/ Crash

(***************************************************************************)
(* The tokio scheduler runs every task that can run, and the sink, the     *)
(* store and the broker answer, well or not.  Nothing is assumed of        *)
(* signals, requests, failures of an idle task, crashes and restarts.      *)
(***************************************************************************)
ServiceFairness ==
    /\ WF_serviceVars(Main) /\ WF_serviceVars(Connector)
    /\ WF_serviceVars(ServerTask) /\ WF_serviceVars(SignalTask)

----------------------------------------------------------------------------

\* A process that is told to stop, by SIGTERM or because its connector or its signal
\* channel ended, exits: also when it meets the order while it starts, while a request
\* waits for room in the full signal channel, or while a signal waits for a checkpoint.
\* (run, serve, KafkaSignalChannel::run)
TermEnds == (stage # "exited" /\ root) ~> stage = "exited"

\* While nothing fails and nobody stops the process, every record of the signal topic is
\* done with: one that is not a signal of this connector holds up none behind it and is
\* committed as well.  (KafkaSignalChannel::run, decode_signal)
TopicDrains == signals = "receiving" ~> (offset = Len(deployment.topic) \/ term \/ fault \/ stage = "exited")

\* An accepted request to stop the connector stops it: "Graceful stop when mutations are
\* enabled" (README.md:789).  (stop_connector)
StopStops == serverToken ~> stage = "exited"
=============================================================================
