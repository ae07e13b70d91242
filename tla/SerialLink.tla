----------------------------- MODULE SerialLink -----------------------------
(***************************************************************************)
(* The serial link (core.py): the reader thread, the keepalive thread, the *)
(* path they open, and the availability they report.                       *)
(*                                                                         *)
(* The panel's device node vanishes and comes back, perhaps under another  *)
(* path.  Each thread that fails looks for the node and stores the path it *)
(* found, without a lock and a while after it looked.  The keepalive       *)
(* thread writes only when the reader has waited for data for half a       *)
(* second; a panel that is asked nothing may send nothing.                 *)
(***************************************************************************)
EXTENDS Naturals

CONSTANTS
    Paths,          \* device nodes the panel may have
    NoPath,         \* none
    Configured,     \* _serial_port when the threads start
    Autodetect,     \* whether the port is configured as "auto"
    Period,         \* idle rounds between two logins, 60 in the code
    NumAsked        \* devices asked for diagnostics once an hour

ASSUME PathsAssumption == Configured \in Paths /\ NoPath \notin Paths
ASSUME ModeAssumption == Autodetect \in BOOLEAN /\ Period \in Nat \ {0} /\ NumAsked \in Nat

VARIABLES
    plugged,        \* the path of the panel's node
    alarm,          \* a section is triggered or pending
    answer,         \* the panel has answered to the open read stream
    main,           \* "starting" until initialize sets last_update_success
    stop,           \* _stream_stop_event
    port,           \* _serial_port
    available,      \* last_update_success
    updating,       \* _stream_data_updating_event
    stream,         \* the reader's: "none", "live", or "dead" (node gone)
    reader,         \* the reader's place, and the path it detected
    keeper,         \* the same of the keepalive thread
    counter,        \* the keepalive thread's
    due,            \* last_devices_update is none, or an hour ago
    asking,         \* number of the device asked, 0 while none is
    diagnosed       \* devices that the panel has in diagnostics

diag == <<due, asking, diagnosed>>
panel == <<plugged, alarm>>
vars == <<plugged, alarm, answer, main, stop, port, available, updating,
          stream, reader, keeper, counter, diag>>

Detecting == {"failed", "detect", "store"}

TypeOK ==
    /\ plugged \in Paths \cup {NoPath}
    /\ alarm \in BOOLEAN
    /\ answer \in BOOLEAN /\ (answer => stream = "live")
    /\ main \in {"starting", "up"}
    /\ stop \in BOOLEAN
    /\ port \in Paths
    /\ available \in BOOLEAN
    /\ updating \in BOOLEAN
    /\ stream \in {"none", "live", "dead"}
    /\ stream = "live" => plugged # NoPath
    /\ reader \in [at : Detecting \cup {"top", "wait", "read", "parse", "sleep", "exit"},
                   found : Paths \cup {NoPath}]
    /\ keeper \in [at : Detecting \cup {"wait", "check", "login", "beat", "status", "start",
                                        "end", "tally", "exit"},
                   found : Paths \cup {NoPath}]
    /\ counter \in 0..(Period - 1)
    /\ due \in BOOLEAN
    /\ asking \in 0..NumAsked /\ (keeper.at \in {"start", "end"} <=> asking # 0)
    /\ diagnosed \subseteq 1..NumAsked /\ (keeper.at = "end" => asking \in diagnosed)

\* initialize has just submitted both threads.
Init ==
    /\ plugged \in Paths \cup {NoPath}
    /\ alarm = FALSE
    /\ answer = FALSE
    /\ main = "starting"
    /\ stop = FALSE
    /\ port = Configured
    /\ available = FALSE
    /\ updating = FALSE
    /\ stream = "none"
    /\ reader = [at |-> "top", found |-> NoPath]
    /\ keeper = [at |-> "wait", found |-> NoPath]
    /\ counter = 0
    /\ due = TRUE /\ asking = 0 /\ diagnosed = {}

-----------------------------------------------------------------------------
(* The panel and the main thread.                                          *)

Unplug ==
    /\ plugged # NoPath
    /\ plugged' = NoPath
    /\ stream' = IF stream = "live" THEN "dead" ELSE stream
    /\ answer' = FALSE
    /\ UNCHANGED <<diag, alarm, main, stop, port, available, updating, reader,
                   keeper, counter>>

Plug ==
    /\ plugged = NoPath
    /\ plugged' \in Paths
    /\ UNCHANGED <<diag, alarm, answer, main, stop, port, available, updating,
                   stream, reader, keeper, counter>>

Alarm ==
    /\ alarm' = ~alarm
    /\ UNCHANGED <<diag, plugged, answer, main, stop, port, available, updating,
                   stream, reader, keeper, counter>>

\* The last line of initialize, after the threads have begun.
Initialized ==
    /\ main = "starting"
    /\ main' = "up"
    /\ available' = TRUE
    /\ UNCHANGED <<diag, panel, answer, stop, port, updating, stream, reader,
                   keeper, counter>>

Shutdown ==
    /\ main = "up" /\ ~stop
    /\ stop' = TRUE
    /\ UNCHANGED <<diag, panel, answer, main, port, available, updating, stream,
                   reader, keeper, counter>>

-----------------------------------------------------------------------------
(* _read_packets.                                                          *)

Opens == plugged = port

ReaderExits ==
    /\ reader.at = "top" /\ stop
    /\ reader' = [reader EXCEPT !.at = "exit"]
    /\ stream' = "none"
    /\ answer' = FALSE
    /\ UNCHANGED <<diag, panel, main, stop, port, available, updating, keeper,
                   counter>>

\* Open the stream if there is none, or anew when the hour has changed.
ReaderOpens(again) ==
    /\ reader.at = "top" /\ ~stop
    /\ again \/ stream = "none"
    /\ stream' = IF Opens THEN "live" ELSE "none"
    /\ reader' = [reader EXCEPT !.at = IF Opens THEN "wait" ELSE "failed"]
    /\ answer' = FALSE
    /\ UNCHANGED <<diag, panel, main, stop, port, available, updating, keeper,
                   counter>>

ReaderKeepsStream ==
    /\ reader.at = "top" /\ ~stop
    /\ stream # "none"
    /\ reader' = [reader EXCEPT !.at = "wait"]
    /\ UNCHANGED <<diag, panel, answer, main, stop, port, available, updating,
                   stream, keeper, counter>>

ReaderWaits ==
    /\ reader.at = "wait"
    /\ updating' = FALSE
    /\ reader' = [reader EXCEPT !.at = "read"]
    /\ UNCHANGED <<diag, panel, answer, main, stop, port, available, stream,
                   keeper, counter>>

\* The panel answers, or sends something by itself.
ReaderReads(asked) ==
    /\ reader.at = "read" /\ stream = "live"
    /\ asked => answer
    /\ updating' = TRUE
    /\ answer' = FALSE
    /\ reader' = [reader EXCEPT !.at = "parse"]
    /\ UNCHANGED <<diag, panel, main, stop, port, available, stream, keeper,
                   counter>>

\* An empty read: the stream is dropped, the port not looked for.
ReaderMeetsEnd ==
    /\ reader.at = "read" /\ stream = "dead"
    /\ updating' = TRUE
    /\ available' = FALSE
    /\ stream' = "none"
    /\ reader' = [reader EXCEPT !.at = "sleep"]
    /\ UNCHANGED <<diag, panel, answer, main, stop, port, keeper, counter>>

ReaderRaises ==
    /\ reader.at = "read" /\ stream = "dead"
    /\ reader' = [reader EXCEPT !.at = "failed"]
    /\ UNCHANGED <<diag, panel, answer, main, stop, port, available, updating,
                   stream, keeper, counter>>

\* Availability first, then the packets, of which a malformed one raises.
ReaderParses(raises) ==
    /\ reader.at = "parse"
    /\ available' = TRUE
    /\ reader' = [reader EXCEPT !.at = IF raises THEN "failed" ELSE "sleep"]
    /\ UNCHANGED <<diag, panel, answer, main, stop, port, updating, stream,
                   keeper, counter>>

\* Mutant: the link is unavailable only when the node is there and fails.
ReaderFailsQuietly ==
    /\ reader.at = "failed"
    /\ available' = (available /\ stream = "none")
    /\ stream' = "none"
    /\ answer' = FALSE
    /\ reader' = [reader EXCEPT !.at = "detect"]
    /\ UNCHANGED <<diag, panel, main, stop, port, updating, keeper, counter>>

\* except Exception: unavailable, and the stream closed.
ReaderFails ==
    /\ reader.at = "failed"
    /\ available' = FALSE
    /\ stream' = "none"
    /\ answer' = FALSE
    /\ reader' = [reader EXCEPT !.at = "detect"]
    /\ UNCHANGED <<diag, panel, main, stop, port, updating, keeper, counter>>

\* _redetect_serial_port, in two steps: look, and store what was found.
Detected == IF Autodetect THEN plugged ELSE NoPath

\* Mutant: only the configured port is ever replaced.
RedetectedOnce(found) == IF found = NoPath \/ port # Configured THEN port ELSE found

Redetected(found) == IF found = NoPath THEN port ELSE found

ReaderDetects ==
    /\ reader.at = "detect"
    /\ reader' = [at |-> "store", found |-> Detected]
    /\ UNCHANGED <<diag, panel, answer, main, stop, port, available, updating,
                   stream, keeper, counter>>

ReaderStores ==
    /\ reader.at = "store"
    /\ port' = Redetected(reader.found)
    /\ reader' = [at |-> "sleep", found |-> NoPath]
    /\ UNCHANGED <<diag, panel, answer, main, stop, available, updating, stream,
                   keeper, counter>>

ReaderSleeps ==
    /\ reader.at = "sleep"
    /\ reader' = [reader EXCEPT !.at = "top"]
    /\ UNCHANGED <<diag, panel, answer, main, stop, port, available, updating,
                   stream, keeper, counter>>

-----------------------------------------------------------------------------
(* _keepalive.                                                             *)

KeeperExits ==
    /\ keeper.at = "wait" /\ stop
    /\ keeper' = [keeper EXCEPT !.at = "exit"]
    /\ UNCHANGED <<diag, panel, answer, main, stop, port, available, updating,
                   stream, reader, counter>>

\* The wait of half a second ended without data: login, or heartbeat.
KeeperWakes ==
    /\ keeper.at = "wait" /\ ~stop
    /\ ~updating
    /\ keeper' = [keeper EXCEPT !.at = "check"]
    /\ UNCHANGED <<diag, panel, answer, main, stop, port, available, updating,
                   stream, reader, counter>>

\* Mutant: the turn for a login is counted one too far.
KeeperChecksLate ==
    /\ keeper.at = "check"
    /\ keeper' = [keeper EXCEPT !.at = IF counter = Period /\ ~alarm THEN "login" ELSE "beat"]
    /\ UNCHANGED <<diag, panel, answer, main, stop, port, available, updating,
                   stream, reader, counter>>

KeeperChecks ==
    /\ keeper.at = "check"
    /\ keeper' = [keeper EXCEPT !.at = IF counter = 0 /\ ~alarm THEN "login" ELSE "beat"]
    /\ UNCHANGED <<diag, panel, answer, main, stop, port, available, updating,
                   stream, reader, counter>>

\* _is_alarm_active meets a section that the reader is just creating: in the
\* table, and without a state.
KeeperCheckRaises ==
    /\ keeper.at = "check" /\ counter = 0
    /\ reader.at = "parse"
    /\ keeper' = [keeper EXCEPT !.at = "failed"]
    /\ UNCHANGED <<diag, panel, answer, main, stop, port, available, updating,
                   stream, reader, counter>>

\* Each write opens the port; whoever reads then gets the answer.
KeeperWrites(at, next) ==
    /\ keeper.at = at
    /\ keeper' = [keeper EXCEPT !.at = IF Opens THEN next ELSE "failed"]
    /\ answer' = IF Opens THEN stream = "live" ELSE answer
    /\ UNCHANGED <<panel, main, stop, port, available, updating, stream, reader, counter>>

Login ==
    /\ KeeperWrites("login", IF due THEN "status" ELSE "tally")
    /\ UNCHANGED diag

Heartbeat ==
    /\ KeeperWrites("beat", "tally")
    /\ UNCHANGED diag

\* Mutant: the hour is noted before the devices are asked.
ForceStatusAndNote ==
    /\ KeeperWrites("status", IF NumAsked = 0 THEN "tally" ELSE "start")
    /\ asking' = IF Opens /\ NumAsked > 0 THEN 1 ELSE 0
    /\ due' = (due /\ ~Opens)
    /\ UNCHANGED diagnosed

\* _force_devices_status_update
ForceStatus ==
    /\ KeeperWrites("status", IF NumAsked = 0 THEN "tally" ELSE "start")
    /\ asking' = IF Opens /\ NumAsked > 0 THEN 1 ELSE 0
    /\ due' = (due /\ ~(Opens /\ NumAsked = 0))
    /\ UNCHANGED diagnosed

\* _force_devices_info_update: a device begins its diagnostics; the answer is
\* waited for, but only for two seconds.
StartDiagnostics ==
    /\ KeeperWrites("start", "end")
    /\ asking' = IF Opens THEN asking ELSE 0
    /\ diagnosed' = IF Opens THEN diagnosed \cup {asking} ELSE diagnosed
    /\ UNCHANGED due

\* The end, after which it is the next one's turn; the hour is noted last.
EndDiagnostics ==
    LET last == asking = NumAsked
    IN  /\ KeeperWrites("end", IF last THEN "tally" ELSE "start")
        /\ asking' = IF last \/ ~Opens THEN 0 ELSE asking + 1
        /\ diagnosed' = IF Opens THEN diagnosed \ {asking} ELSE diagnosed
        /\ due' = (due /\ ~(last /\ Opens))

HourPasses ==
    /\ ~due /\ keeper.at \in {"wait", "tally"}
    /\ due' = TRUE
    /\ UNCHANGED <<panel, answer, main, stop, port, available, updating, stream,
                   reader, keeper, counter, asking, diagnosed>>

KeeperFails ==
    /\ keeper.at = "failed"
    /\ available' = FALSE
    /\ keeper' = [keeper EXCEPT !.at = "detect"]
    /\ UNCHANGED <<diag, panel, answer, main, stop, port, updating, stream,
                   reader, counter>>

KeeperDetects ==
    /\ keeper.at = "detect"
    /\ keeper' = [at |-> "store", found |-> Detected]
    /\ UNCHANGED <<diag, panel, answer, main, stop, port, available, updating,
                   stream, reader, counter>>

KeeperStores ==
    /\ keeper.at = "store"
    /\ port' = Redetected(keeper.found)
    /\ keeper' = [at |-> "tally", found |-> NoPath]
    /\ UNCHANGED <<diag, panel, answer, main, stop, available, updating, stream,
                   reader, counter>>

\* Mutant: the counter does not start over.
KeeperTalliesOn ==
    /\ keeper.at = "tally"
    /\ counter' = counter + 1
    /\ keeper' = [keeper EXCEPT !.at = "wait"]
    /\ UNCHANGED <<diag, panel, answer, main, stop, port, available, updating,
                   stream, reader>>

KeeperTallies ==
    /\ keeper.at = "tally"
    /\ counter' = (counter + 1) % Period
    /\ keeper' = [keeper EXCEPT !.at = "wait"]
    /\ UNCHANGED <<diag, panel, answer, main, stop, port, available, updating,
                   stream, reader>>

-----------------------------------------------------------------------------
Reader ==
    \/ ReaderExits \/ ReaderOpens(FALSE) \/ ReaderKeepsStream \/ ReaderWaits
    \/ ReaderReads(TRUE) \/ ReaderMeetsEnd \/ ReaderRaises \/ ReaderParses(FALSE)
    \/ ReaderFails \/ ReaderDetects \/ ReaderStores \/ ReaderSleeps

Keeper ==
    \/ KeeperExits \/ KeeperWakes \/ KeeperChecks \/ Login \/ Heartbeat
    \/ ForceStatus \/ StartDiagnostics \/ EndDiagnostics
    \/ KeeperFails \/ KeeperDetects \/ KeeperStores \/ KeeperTallies

Malformed == ReaderParses(TRUE)
Hourly == ReaderOpens(TRUE)
Unasked == ReaderReads(FALSE)

\* Both threads have ended.
Ended == reader.at = "exit" /\ keeper.at = "exit" /\ UNCHANGED vars

Next ==
    \/ Unplug \/ Plug \/ Alarm \/ HourPasses \/ Initialized \/ Shutdown
    \/ Reader \/ Malformed \/ Hourly \/ Unasked
    \/ Keeper \/ KeeperCheckRaises
    \/ Ended

Spec == Init /\ [][Next]_vars

\* The threads run, a read of a node that is gone fails, the panel answers
\* what it is asked, and hours go by.
Fairness ==
    /\ WF_vars(Initialized)
    /\ WF_vars(Reader)
    /\ SF_vars(Hourly)
    /\ WF_vars(Keeper)

FairSpec == Spec /\ Fairness

-----------------------------------------------------------------------------
(* Properties.                                                             *)

Disturbance == Unplug \/ Plug \/ Malformed \/ KeeperCheckRaises \/ Shutdown

\* When the panel stays plugged in, autodetection recovers the link: both
\* threads end up with the path of its node, whatever they detected and
\* stored late, and the bridge says it is available, even if the panel
\* sends nothing unasked.
Recovers ==
    <>[][~Disturbance]_vars /\ <>[](plugged # NoPath /\ ~stop)
        => <>[](port = plugged /\ available)

\* When the panel is gone for good, the bridge ends up unavailable: also
\* when initialize declares it available after the reader has failed.
GoneIsShown == <>[](plugged = NoPath) => <>[](stop \/ ~available)

\* The login is renewed again and again while there is no alarm and the
\* panel leaves pauses: no failed write or skipped turn stops it.  (A check
\* that raises costs a turn, but only so many sections are created.)
LoginRenewed ==
    /\ <>[](~alarm /\ plugged # NoPath /\ ~stop)
    /\ <>[][~KeeperCheckRaises]_vars
    /\ []<><<KeeperWakes>>_vars
    => []<><<Login>>_vars

\* Once an hour has passed all devices are asked, and none is left in
\* diagnostics, whatever failed in between: a write that fails leaves one
\* there, but not the hour noted, so the next login begins anew.
DiagnosticsEnd ==
    /\ <>[](~alarm /\ plugged # NoPath /\ ~stop)
    /\ <>[][~Disturbance]_vars
    /\ []<><<KeeperWakes>>_vars
    => []<>(~due /\ diagnosed = {})
=============================================================================
