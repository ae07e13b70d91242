-------------------------------- MODULE Bridge --------------------------------
(***************************************************************************)
(* The life of the process (cli.py, bridge.py): one start after another,   *)
(* what each brings up on top of the detection, and the orderly stop.      *)
(*                                                                         *)
(* The process ends when the main thread has, and with it the threads of   *)
(* the core: the interpreter joins them.  The keepalive thread ends only   *)
(* when it is told to, the reader when its read returns after that.        *)
(***************************************************************************)
EXTENDS Detection

CONSTANTS
    MaxStarts,      \* bound on the starts of the process
    MaxClients      \* bound on the API clients at a time

ASSUME BridgeAssumption == MaxStarts \in Nat \ {0} /\ MaxClients \in Nat

VARIABLES
    main,           \* where the main thread is
    starts,         \* how often the process was started
    asked,          \* stop_event of cli.py: a signal has come
    keeper,         \* the keepalive thread
    stream,         \* the reader thread, _read_packets
    stop,           \* _stream_stop_event
    poll,           \* the poll task
    announced,      \* the mDNS record
    server,         \* the API server
    clients,        \* its clients, a number
    reset           \* a client's connection was reset while the server closes

threads == <<keeper, stream, stop>>
services == <<poll, announced, server, clients, reset>>
allVars == <<vars, main, starts, asked, threads, services>>

Starting == {"detect", "sync", "zeroconf"}
Stopping == {"stop_poll", "stop_zeroconf", "stop_server", "wait_clients", "stop_hub"}

TypeOK ==
    /\ DetectionTypeOK
    /\ main \in {"ended", "up", "ending"} \cup Starting \cup Stopping
    /\ starts \in 0..MaxStarts
    /\ asked \in BOOLEAN /\ stop \in BOOLEAN /\ reset \in BOOLEAN
    /\ keeper \in {"none", "runs"} /\ stream \in {"none", "runs"}
    /\ stream = "none" => ~(keeper = "runs" /\ ~stop)
    /\ poll \in {"none", "runs", "dead"}
    /\ announced \in BOOLEAN
    /\ server \in {"none", "binding", "unbound", "bound", "closing"}
    /\ clients \in 0..MaxClients /\ (clients > 0 => server \in {"bound", "closing"})

Init ==
    /\ DetectionInit
    /\ main = "ended"
    /\ starts = 0
    /\ asked = FALSE
    /\ keeper = "none" /\ stream = "none" /\ stop = FALSE
    /\ poll = "none" /\ announced = FALSE /\ server = "none"
    /\ clients = 0 /\ reset = FALSE

-----------------------------------------------------------------------------
(* Starting.                                                               *)

\* A start, with a configuration that may have changed.
Boots(validated) ==
    /\ main = "ended" /\ starts < MaxStarts
    /\ config' \in Configs
    /\ validated = (config'.auto \/ node = "configured")
    /\ starts' = starts + 1
    /\ asked' = FALSE /\ stop' = FALSE
    /\ poll' = "none" /\ announced' = FALSE /\ server' = "none"
    /\ clients' = 0 /\ reset' = FALSE
    /\ port' = "none"
    /\ data' = stored /\ skipped' = FALSE
    /\ UNCHANGED <<node, stored, detection, lingering, keeper, stream>>

\* _load_stored_data comes first in initialize.
Start ==
    /\ Boots(TRUE)
    /\ main' = "detect" /\ step' = "port"
    /\ mishap' = FALSE

\* _validate_serial_port raises before the bridge exists.
Refuse ==
    /\ Boots(FALSE)
    /\ main' = "ending" /\ step' = "off"
    /\ mishap' = TRUE

Detects ==
    /\ DetectionSteps
    /\ UNCHANGED <<main, starts, asked, threads, services>>

\* Lost answers, unknown infos: what the panel may do while it is asked.
Mishaps ==
    /\ Lose \/ ReaderMeetsUnknown
    /\ UNCHANGED <<main, starts, asked, threads, services>>

Replugs ==
    /\ Moves
    /\ UNCHANGED <<main, starts, asked, threads, services>>

\* start raises: _async_run returns, and stops nothing.
StartFails ==
    /\ main = "detect" /\ step = "failed"
    /\ main' = "ending"
    /\ UNCHANGED <<vars, starts, asked, threads, services>>

\* The last lines of initialize, which submit the threads.
Initialized ==
    /\ main = "detect" /\ step = "ready"
    /\ main' = "sync"
    /\ keeper' = "runs" /\ stream' = "runs"
    /\ UNCHANGED <<vars, starts, asked, stop, services>>

\* EspDeviceTree and StateSync.start
Syncs ==
    /\ main = "sync"
    /\ main' = "zeroconf"
    /\ poll' = "runs"
    /\ UNCHANGED <<vars, starts, asked, threads, announced, server, clients, reset>>

\* They walk through the core's tables while the reader adds to them.
SyncRaises ==
    /\ main = "sync"
    /\ main' = "ending"
    /\ UNCHANGED <<vars, starts, asked, threads, services>>

\* register_zeroconf answers None when it fails; the server is a task.
Registers ==
    /\ main = "zeroconf"
    /\ announced' \in BOOLEAN
    /\ server' = "binding"
    /\ main' = "up"
    /\ UNCHANGED <<vars, starts, asked, threads, poll, clients, reset>>

-----------------------------------------------------------------------------
(* Beside the main thread.                                                 *)

\* SIGTERM or SIGINT; one that comes during the detection waits in the loop.
Signal ==
    /\ main \notin {"ended", "ending"} /\ ~asked
    /\ asked' = TRUE
    /\ UNCHANGED <<vars, main, starts, threads, services>>

\* The poll meets a table that the reader adds to; nobody catches it.
PollDies ==
    /\ poll = "runs" /\ main # "ending" /\ stream = "runs"
    /\ poll' = "dead"
    /\ UNCHANGED <<vars, main, starts, asked, threads, announced, server, clients, reset>>

ServerBinds(port_is_free) ==
    /\ server = "binding" /\ main \in {"up", "stop_poll", "stop_zeroconf", "stop_server"}
    /\ server' = IF port_is_free THEN "bound" ELSE "unbound"
    /\ UNCHANGED <<vars, main, starts, asked, threads, poll, announced, clients, reset>>

ClientConnects ==
    /\ server = "bound" /\ main # "ending"
    /\ clients < MaxClients
    /\ clients' = clients + 1
    /\ UNCHANGED <<vars, main, starts, asked, threads, poll, announced, server, reset>>

ClientLeaves(resets) ==
    /\ clients > 0
    /\ clients' = clients - 1
    /\ reset' = (reset \/ (resets /\ server = "closing"))
    /\ UNCHANGED <<vars, main, starts, asked, threads, poll, announced, server>>

-----------------------------------------------------------------------------
(* Stopping.                                                               *)

MainGoes(from, to) == main = from /\ main' = to

BeginStop ==
    /\ asked
    /\ MainGoes("up", "stop_poll")
    /\ UNCHANGED <<vars, starts, asked, threads, services>>

StopPoll ==
    /\ poll # "dead"
    /\ MainGoes("stop_poll", "stop_zeroconf")
    /\ poll' = "none"
    /\ UNCHANGED <<vars, starts, asked, threads, announced, server, clients, reset>>

\* Awaiting the poll task that died raises its exception once more.
StopPollRaises ==
    /\ poll = "dead"
    /\ MainGoes("stop_poll", "ending")
    /\ UNCHANGED <<vars, starts, asked, threads, services>>

StopZeroconf ==
    /\ MainGoes("stop_zeroconf", "stop_server")
    /\ announced' = FALSE
    /\ UNCHANGED <<vars, starts, asked, threads, poll, server, clients, reset>>

\* Mutant: the server is forgotten before its clients have left.
StopServerAbruptly ==
    /\ MainGoes("stop_server", IF server = "bound" THEN "wait_clients" ELSE "stop_hub")
    /\ server' = "none"
    /\ UNCHANGED <<vars, starts, asked, threads, poll, announced, clients, reset>>

\* Nothing to stop as long as run has no server.
StopServer ==
    /\ MainGoes("stop_server", IF server = "bound" THEN "wait_clients" ELSE "stop_hub")
    /\ server' = IF server = "bound" THEN "closing" ELSE server
    /\ UNCHANGED <<vars, starts, asked, threads, poll, announced, clients, reset>>

\* wait_closed, which since Python 3.12.1 waits for every connection.
ServerClosed ==
    /\ clients = 0
    /\ MainGoes("wait_clients", "stop_hub")
    /\ UNCHANGED <<vars, starts, asked, threads, services>>

\* client.stop of a connection that was reset, and not yet discarded.
ClientStopRaises ==
    /\ clients = 0 /\ reset
    /\ MainGoes("wait_clients", "ending")
    /\ UNCHANGED <<vars, starts, asked, threads, services>>

\* Mutant: the keepalive thread is not told.
StopHubQuietly ==
    /\ MainGoes("stop_hub", "ending")
    /\ UNCHANGED <<vars, starts, asked, threads, services>>

StopHub ==
    /\ MainGoes("stop_hub", "ending")
    /\ stop' = TRUE
    /\ UNCHANGED <<vars, starts, asked, keeper, stream, services>>

KeeperEnds ==
    /\ keeper = "runs" /\ stop
    /\ keeper' = "none"
    /\ UNCHANGED <<vars, main, starts, asked, stream, stop, services>>

\* A read returns, or fails: of a reader that was given up, or of the core's.
ReadReturns ==
    /\ lingering \/ (stream = "runs" /\ stop)
    /\ lingering' = FALSE
    /\ stream' = IF stop THEN "none" ELSE stream
    /\ UNCHANGED <<config, node, port, step, memory, detection, mishap>>
    /\ UNCHANGED <<main, starts, asked, keeper, stop, services>>

\* asyncio.run ends the loop and its tasks; the interpreter joins the threads.
End ==
    /\ main = "ending"
    /\ keeper = "none" /\ stream = "none" /\ ~lingering
    /\ main' = "ended"
    /\ UNCHANGED <<vars, starts, asked, threads, services>>

-----------------------------------------------------------------------------
Starts == Detects \/ StartFails \/ Initialized \/ Syncs \/ Registers

Stops ==
    \/ BeginStop \/ StopPoll \/ StopPollRaises \/ StopZeroconf \/ StopServer
    \/ ServerClosed \/ StopHub \/ KeeperEnds \/ End

Next ==
    \/ Start \/ Refuse \/ Starts \/ SyncRaises \/ Mishaps \/ Replugs
    \/ Signal \/ PollDies \/ ServerBinds(TRUE) \/ ServerBinds(FALSE)
    \/ ClientConnects \/ ClientLeaves(TRUE) \/ ClientLeaves(FALSE)
    \/ Stops \/ ClientStopRaises \/ ReadReturns

Spec == Init /\ [][Next]_allVars

\* The threads run and awaits of the loop end; nothing is assumed of the
\* panel and of the clients.
FairSpec == Spec /\ WF_allVars(Starts) /\ WF_allVars(Stops)

-----------------------------------------------------------------------------
(* Properties.                                                             *)

\* Detection fails only when an answer was lost or late, the panel said
\* something unknown or its node moved: when every answer comes before the
\* question is repeated, all packets are told apart and counted right.
FailsOnlyAfterMishap == step = "failed" => mishap

\* Likewise every configured device has its data, although packets are only
\* counted: except when the detection was passed over because the store has
\* data of as many devices, one of which is not configured any more.
DevicesKnown ==
    step = "ready" /\ ~mishap =>
        config.wanted \subseteq data \/ (skipped /\ ~(data \subseteq config.wanted))

\* The main thread has ended, and nobody told the keepalive thread.
Stranded == main = "ending" /\ keeper = "runs" /\ ~stop

\* That happens only after the poll task died, when the first _sync met the
\* reader, or when a client was reset while the server closed: an orderly
\* stop, and a start that fails in the detection, leave no thread behind.
StrandedOnlyIf ==
    Stranded => poll = "dead" \/ reset \/ (poll = "none" /\ server = "none")

HeldByRead == main = "ending" /\ keeper = "none" /\ (stream = "runs" \/ lingering)

\* Every start comes to an end, up or failed, and every process that was
\* told to stop, or failed, ends: unless clients stay for ever, the keepalive
\* thread was left behind or a read does not return.  No detection waits for
\* ever for its answers.
Proceeds ==
    <>[](clients = 0)
        => ((main \notin {"ended", "up"} \/ asked)
              ~> (main = "ended" \/ (main = "up" /\ ~asked) \/ Stranded \/ HeldByRead))

\* core.py: when the configured path does not exist the bridge falls back to
\* detection, so no start is refused while the panel has another path.
FallsBack == [][Refuse => node # "elsewhere"]_allVars
=============================================================================
