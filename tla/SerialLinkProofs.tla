--------------------------- MODULE SerialLinkProofs ---------------------------
(***************************************************************************)
(* The serial link, for any paths, period and number of devices asked: the *)
(* type invariant, which says that an open stream has a node, that only a  *)
(* live one gets answers, and that exactly one device is asked while the   *)
(* keepalive thread is at it.                                              *)
(***************************************************************************)
EXTENDS SerialLink, TLAPS

(* TypeOK, in parts.                                                       *)

PanelTyped ==
    /\ plugged \in Paths \cup {NoPath}
    /\ alarm \in BOOLEAN
    /\ main \in {"starting", "up"}
    /\ stop \in BOOLEAN
    /\ port \in Paths
    /\ available \in BOOLEAN
    /\ updating \in BOOLEAN

StreamTyped ==
    /\ answer \in BOOLEAN /\ (answer => stream = "live")
    /\ stream \in {"none", "live", "dead"}
    /\ stream = "live" => plugged # NoPath

ReaderTyped ==
    reader \in [at : Detecting \cup {"top", "wait", "read", "parse", "sleep", "exit"},
                found : Paths \cup {NoPath}]

KeeperTyped ==
    keeper \in [at : Detecting \cup {"wait", "check", "login", "beat", "status", "start",
                                     "end", "tally", "exit"},
                found : Paths \cup {NoPath}]

CountTyped == counter \in 0..(Period - 1)

AskingTyped ==
    /\ due \in BOOLEAN
    /\ asking \in 0..NumAsked /\ (keeper.at \in {"start", "end"} <=> asking # 0)
    /\ diagnosed \subseteq 1..NumAsked /\ (keeper.at = "end" => asking \in diagnosed)

Parts == PanelTyped /\ StreamTyped /\ ReaderTyped /\ KeeperTyped /\ CountTyped /\ AskingTyped

\* The parts make up the type invariant.
LEMMA PartsAreTypes == Parts <=> TypeOK
  BY DEF Parts, PanelTyped, StreamTyped, ReaderTyped, KeeperTyped, CountTyped, AskingTyped,
         TypeOK

\* What leaves the variables of a part alone leaves the part true.
LEMMA Kept ==
    /\ PanelTyped /\ UNCHANGED <<panel, main, stop, port, available, updating>> => PanelTyped'
    /\ StreamTyped /\ UNCHANGED <<plugged, stream, answer>> => StreamTyped'
    /\ ReaderTyped /\ UNCHANGED reader => ReaderTyped'
    /\ KeeperTyped /\ UNCHANGED keeper => KeeperTyped'
    /\ CountTyped /\ UNCHANGED counter => CountTyped'
    /\ AskingTyped /\ UNCHANGED <<diag, keeper>> => AskingTyped'
  BY DEF panel, diag, PanelTyped, StreamTyped, ReaderTyped, KeeperTyped, CountTyped,
         AskingTyped

\* An open stream belongs to the node that is plugged in.
LEMMA OpensPlugged ==
    ASSUME PanelTyped, Opens
    PROVE  plugged # NoPath
  BY PathsAssumption DEF PanelTyped, Opens

\* The panel and the main thread keep the types.
LEMMA PanelSteps ==
    ASSUME Parts, Unplug \/ Plug \/ Alarm \/ HourPasses \/ Initialized \/ Shutdown
    PROVE  Parts'
  <1> USE DEF Parts
  <1>1. CASE Unplug
    <2>1. PanelTyped'
      BY <1>1 DEF Unplug, PanelTyped, panel
    <2>2. StreamTyped'
      BY <1>1 DEF Unplug, StreamTyped, panel, PanelTyped
    <2> QED
      BY <1>1, Kept, <2>1, <2>2 DEF Unplug, panel
  <1>2. CASE Plug
    <2>1. PanelTyped'
      BY <1>2, PathsAssumption DEF Plug, PanelTyped, panel
    <2>2. StreamTyped'
      BY <1>2, PathsAssumption DEF Plug, StreamTyped, panel, PanelTyped
    <2> QED
      BY <1>2, Kept, <2>1, <2>2 DEF Plug, panel
  <1>3. CASE Alarm
    <2>1. PanelTyped'
      BY <1>3 DEF Alarm, PanelTyped, panel
    <2> QED
      BY <1>3, Kept, <2>1 DEF Alarm, panel
  <1>4. CASE HourPasses
    <2>1. AskingTyped'
      BY <1>4 DEF HourPasses, AskingTyped, diag
    <2> QED
      BY <1>4, Kept, <2>1 DEF HourPasses, panel
  <1>5. CASE Initialized
    <2>1. PanelTyped'
      BY <1>5 DEF Initialized, PanelTyped, panel
    <2> QED
      BY <1>5, Kept, <2>1 DEF Initialized, panel
  <1>6. CASE Shutdown
    <2>1. PanelTyped'
      BY <1>6 DEF Shutdown, PanelTyped, panel
    <2> QED
      BY <1>6, Kept, <2>1 DEF Shutdown, panel
  <1> QED
    BY <1>1, <1>2, <1>3, <1>4, <1>5, <1>6

\* The reader thread does: a dropped or reopened stream has no answer.
LEMMA ReaderSteps ==
    ASSUME Parts, Reader \/ Malformed \/ Hourly \/ Unasked
    PROVE  Parts'
  <1> USE DEF Parts
  <1>1. CASE ReaderExits
    <2>1. StreamTyped'
      BY <1>1 DEF ReaderExits, StreamTyped, panel, PanelTyped
    <2>2. ReaderTyped'
      BY <1>1 DEF ReaderExits, ReaderTyped, Detecting
    <2> QED
      BY <1>1, Kept, <2>1, <2>2 DEF ReaderExits, panel
  <1>2. ASSUME NEW again \in BOOLEAN, ReaderOpens(again) PROVE Parts'
    <2>1. StreamTyped'
      BY <1>2, OpensPlugged DEF ReaderOpens, StreamTyped, panel, PanelTyped
    <2>2. ReaderTyped'
      BY <1>2, OpensPlugged DEF ReaderOpens, ReaderTyped, Detecting
    <2> QED
      BY <1>2, Kept, <2>1, <2>2 DEF ReaderOpens, panel
  <1>3. CASE ReaderKeepsStream
    <2>1. ReaderTyped'
      BY <1>3 DEF ReaderKeepsStream, ReaderTyped, Detecting
    <2> QED
      BY <1>3, Kept, <2>1 DEF ReaderKeepsStream, panel
  <1>4. CASE ReaderWaits
    <2>1. PanelTyped'
      BY <1>4 DEF ReaderWaits, PanelTyped, panel
    <2>2. ReaderTyped'
      BY <1>4 DEF ReaderWaits, ReaderTyped, Detecting
    <2> QED
      BY <1>4, Kept, <2>1, <2>2 DEF ReaderWaits, panel
  <1>5. ASSUME NEW asked \in BOOLEAN, ReaderReads(asked) PROVE Parts'
    <2>1. PanelTyped'
      BY <1>5 DEF ReaderReads, PanelTyped, panel
    <2>2. StreamTyped'
      BY <1>5 DEF ReaderReads, StreamTyped, panel, PanelTyped
    <2>3. ReaderTyped'
      BY <1>5 DEF ReaderReads, ReaderTyped, Detecting
    <2> QED
      BY <1>5, Kept, <2>1, <2>2, <2>3 DEF ReaderReads, panel
  <1>6. CASE ReaderMeetsEnd
    <2>1. PanelTyped'
      BY <1>6 DEF ReaderMeetsEnd, PanelTyped, panel
    <2>2. StreamTyped'
      BY <1>6 DEF ReaderMeetsEnd, StreamTyped, panel, PanelTyped
    <2>3. ReaderTyped'
      BY <1>6 DEF ReaderMeetsEnd, ReaderTyped, Detecting
    <2> QED
      BY <1>6, Kept, <2>1, <2>2, <2>3 DEF ReaderMeetsEnd, panel
  <1>7. CASE ReaderRaises
    <2>1. ReaderTyped'
      BY <1>7 DEF ReaderRaises, ReaderTyped, Detecting
    <2> QED
      BY <1>7, Kept, <2>1 DEF ReaderRaises, panel
  <1>8. ASSUME NEW raises \in BOOLEAN, ReaderParses(raises) PROVE Parts'
    <2>1. PanelTyped'
      BY <1>8 DEF ReaderParses, PanelTyped, panel
    <2>2. ReaderTyped'
      BY <1>8 DEF ReaderParses, ReaderTyped, Detecting
    <2> QED
      BY <1>8, Kept, <2>1, <2>2 DEF ReaderParses, panel
  <1>9. CASE ReaderFails
    <2>1. PanelTyped'
      BY <1>9 DEF ReaderFails, PanelTyped, panel
    <2>2. StreamTyped'
      BY <1>9 DEF ReaderFails, StreamTyped, panel, PanelTyped
    <2>3. ReaderTyped'
      BY <1>9 DEF ReaderFails, ReaderTyped, Detecting
    <2> QED
      BY <1>9, Kept, <2>1, <2>2, <2>3 DEF ReaderFails, panel
  <1>10. CASE ReaderDetects
    <2>1. ReaderTyped'
      BY <1>10 DEF ReaderDetects, Detected, ReaderTyped, PanelTyped, Detecting
    <2> QED
      BY <1>10, Kept, <2>1 DEF ReaderDetects, panel
  <1>11. CASE ReaderStores
    <2>1. PanelTyped'
      BY <1>11 DEF ReaderStores, Redetected, PanelTyped, panel, ReaderTyped
    <2>2. ReaderTyped'
      BY <1>11 DEF ReaderStores, Redetected, ReaderTyped, PanelTyped, Detecting
    <2> QED
      BY <1>11, Kept, <2>1, <2>2 DEF ReaderStores, panel
  <1>12. CASE ReaderSleeps
    <2>1. ReaderTyped'
      BY <1>12 DEF ReaderSleeps, ReaderTyped, Detecting
    <2> QED
      BY <1>12, Kept, <2>1 DEF ReaderSleeps, panel
  <1> QED
    BY <1>1, <1>2, <1>3, <1>4, <1>5, <1>6, <1>7, <1>8, <1>9, <1>10, <1>11, <1>12
       DEF Reader, Malformed, Hourly, Unasked

\* The keepalive thread does, in the steps that write nothing ...
LEMMA KeeperSteps ==
    ASSUME Parts, KeeperExits \/ KeeperWakes \/ KeeperChecks \/ KeeperCheckRaises
           \/ KeeperFails \/ KeeperDetects \/ KeeperStores \/ KeeperTallies
    PROVE  Parts'
  <1> USE DEF Parts
  <1>1. CASE KeeperExits
    <2>1. KeeperTyped'
      BY <1>1 DEF KeeperExits, KeeperTyped, Detecting
    <2>2. AskingTyped'
      BY <1>1 DEF KeeperExits, AskingTyped, diag
    <2> QED
      BY <1>1, Kept, <2>1, <2>2 DEF KeeperExits, panel
  <1>2. CASE KeeperWakes
    <2>1. KeeperTyped'
      BY <1>2 DEF KeeperWakes, KeeperTyped, Detecting
    <2>2. AskingTyped'
      BY <1>2 DEF KeeperWakes, AskingTyped, diag
    <2> QED
      BY <1>2, Kept, <2>1, <2>2 DEF KeeperWakes, panel
  <1>3. CASE KeeperChecks
    <2>1. KeeperTyped'
      BY <1>3 DEF KeeperChecks, KeeperTyped, Detecting
    <2>2. AskingTyped'
      BY <1>3 DEF KeeperChecks, AskingTyped, diag
    <2> QED
      BY <1>3, Kept, <2>1, <2>2 DEF KeeperChecks, panel
  <1>4. CASE KeeperCheckRaises
    <2>1. KeeperTyped'
      BY <1>4 DEF KeeperCheckRaises, KeeperTyped, Detecting
    <2>2. AskingTyped'
      BY <1>4 DEF KeeperCheckRaises, AskingTyped, diag
    <2> QED
      BY <1>4, Kept, <2>1, <2>2 DEF KeeperCheckRaises, panel
  <1>5. CASE KeeperFails
    <2>1. PanelTyped'
      BY <1>5 DEF KeeperFails, PanelTyped, panel
    <2>2. KeeperTyped'
      BY <1>5 DEF KeeperFails, KeeperTyped, Detecting
    <2>3. AskingTyped'
      BY <1>5 DEF KeeperFails, AskingTyped, diag
    <2> QED
      BY <1>5, Kept, <2>1, <2>2, <2>3 DEF KeeperFails, panel
  <1>6. CASE KeeperDetects
    <2>1. KeeperTyped'
      BY <1>6 DEF KeeperDetects, Detected, KeeperTyped, PanelTyped, Detecting
    <2>2. AskingTyped'
      BY <1>6 DEF KeeperDetects, Detected, AskingTyped, diag, PanelTyped
    <2> QED
      BY <1>6, Kept, <2>1, <2>2 DEF KeeperDetects, panel
  <1>7. CASE KeeperStores
    <2>1. PanelTyped'
      BY <1>7 DEF KeeperStores, Redetected, PanelTyped, panel, KeeperTyped
    <2>2. KeeperTyped'
      BY <1>7 DEF KeeperStores, Redetected, KeeperTyped, PanelTyped, Detecting
    <2>3. AskingTyped'
      BY <1>7 DEF KeeperStores, Redetected, AskingTyped, diag, PanelTyped
    <2> QED
      BY <1>7, Kept, <2>1, <2>2, <2>3 DEF KeeperStores, panel
  <1>8. CASE KeeperTallies
    <2>1. KeeperTyped'
      BY <1>8, ModeAssumption DEF KeeperTallies, KeeperTyped, Detecting
    <2>2. CountTyped'
      BY <1>8, ModeAssumption DEF KeeperTallies, CountTyped
    <2>3. AskingTyped'
      BY <1>8, ModeAssumption DEF KeeperTallies, AskingTyped, diag
    <2> QED
      BY <1>8, Kept, <2>1, <2>2, <2>3 DEF KeeperTallies, panel
  <1> QED
    BY <1>1, <1>2, <1>3, <1>4, <1>5, <1>6, <1>7, <1>8

\* A write of the keepalive thread, whatever comes next.
LEMMA WritesTyped ==
    ASSUME Parts, NEW at, NEW next \in {"status", "start", "end", "tally"},
           KeeperWrites(at, next)
    PROVE  /\ keeper.at = at /\ keeper'.at = IF Opens THEN next ELSE "failed"
           /\ PanelTyped' /\ StreamTyped' /\ ReaderTyped' /\ KeeperTyped' /\ CountTyped'
  <1> USE DEF Parts
  <1>1. keeper.at = at /\ keeper'.at = IF Opens THEN next ELSE "failed"
    BY DEF KeeperWrites, KeeperTyped
  <1>2. StreamTyped'
    BY DEF KeeperWrites, StreamTyped, panel
  <1>3. KeeperTyped'
    BY DEF KeeperWrites, KeeperTyped, Detecting
  <1> QED
    BY <1>1, <1>2, <1>3, Kept DEF KeeperWrites, panel

\* ... and in those that write, where a failure ends the asking.
LEMMA WritingSteps ==
    ASSUME Parts, Login \/ Heartbeat \/ ForceStatus \/ StartDiagnostics \/ EndDiagnostics
    PROVE  Parts'
  <1>1. CASE Login
    <2> DEFINE next == IF due THEN "status" ELSE "tally"
    <2>1. KeeperWrites("login", next)
      BY <1>1 DEF Login
    <2>2. next \in {"status", "start", "end", "tally"}
      OBVIOUS
    <2>3. keeper.at = "login" /\ keeper'.at = IF Opens THEN next ELSE "failed"
      BY <2>1, <2>2, WritesTyped
    <2>4. AskingTyped'
      BY <1>1, <2>3, ModeAssumption DEF Login, AskingTyped, Parts, diag
    <2> HIDE DEF next
    <2> QED
      BY <2>1, <2>2, <2>4, WritesTyped DEF Parts
  <1>2. CASE Heartbeat
    <2> DEFINE next == "tally"
    <2>1. KeeperWrites("beat", next)
      BY <1>2 DEF Heartbeat
    <2>2. next \in {"status", "start", "end", "tally"}
      OBVIOUS
    <2>3. keeper.at = "beat" /\ keeper'.at = IF Opens THEN next ELSE "failed"
      BY <2>1, <2>2, WritesTyped
    <2>4. AskingTyped'
      BY <1>2, <2>3, ModeAssumption DEF Heartbeat, AskingTyped, Parts, diag
    <2> HIDE DEF next
    <2> QED
      BY <2>1, <2>2, <2>4, WritesTyped DEF Parts
  <1>3. CASE ForceStatus
    <2> DEFINE next == IF NumAsked = 0 THEN "tally" ELSE "start"
    <2>1. KeeperWrites("status", next)
      BY <1>3 DEF ForceStatus
    <2>2. next \in {"status", "start", "end", "tally"}
      OBVIOUS
    <2>3. keeper.at = "status" /\ keeper'.at = IF Opens THEN next ELSE "failed"
      BY <2>1, <2>2, WritesTyped
    <2>4. AskingTyped'
      BY <1>3, <2>3, ModeAssumption DEF ForceStatus, AskingTyped, Parts
    <2> HIDE DEF next
    <2> QED
      BY <2>1, <2>2, <2>4, WritesTyped DEF Parts
  <1>4. CASE StartDiagnostics
    <2> DEFINE next == "end"
    <2>1. KeeperWrites("start", next)
      BY <1>4 DEF StartDiagnostics
    <2>2. next \in {"status", "start", "end", "tally"}
      OBVIOUS
    <2>3. keeper.at = "start" /\ keeper'.at = IF Opens THEN next ELSE "failed"
      BY <2>1, <2>2, WritesTyped
    <2>4. AskingTyped'
      BY <1>4, <2>3, ModeAssumption DEF StartDiagnostics, AskingTyped, Parts
    <2> HIDE DEF next
    <2> QED
      BY <2>1, <2>2, <2>4, WritesTyped DEF Parts
  <1>5. CASE EndDiagnostics
    <2> DEFINE next == IF asking = NumAsked THEN "tally" ELSE "start"
    <2>1. KeeperWrites("end", next)
      BY <1>5 DEF EndDiagnostics
    <2>2. next \in {"status", "start", "end", "tally"}
      OBVIOUS
    <2>3. keeper.at = "end" /\ keeper'.at = IF Opens THEN next ELSE "failed"
      BY <2>1, <2>2, WritesTyped
    <2>4. AskingTyped'
      BY <1>5, <2>3, ModeAssumption DEF EndDiagnostics, AskingTyped, Parts
    <2> HIDE DEF next
    <2> QED
      BY <2>1, <2>2, <2>4, WritesTyped DEF Parts
  <1> QED
    BY <1>1, <1>2, <1>3, <1>4, <1>5

\* The threads begin with no stream and nobody asked.
LEMMA InitTyped ==
    ASSUME Init
    PROVE  Parts
  <1> USE DEF Init
  <1>1. PanelTyped
    BY PathsAssumption DEF PanelTyped
  <1>2. StreamTyped
    BY DEF StreamTyped
  <1>3. ReaderTyped
    BY DEF ReaderTyped, Detecting
  <1>4. KeeperTyped
    BY DEF KeeperTyped, Detecting
  <1>5. CountTyped
    BY ModeAssumption DEF CountTyped
  <1>6. AskingTyped
    BY ModeAssumption DEF AskingTyped
  <1> QED
    BY <1>1, <1>2, <1>3, <1>4, <1>5, <1>6 DEF Parts

\* Type correctness of the serial link: no thread's step gives a dead stream
\* an answer or lets the keepalive thread ask two devices at a time.
THEOREM TypeCorrect == Spec => []TypeOK
  <1>1. Init => Parts
    BY InitTyped
  <1>2. Parts /\ [Next]_vars => Parts'
    <2> SUFFICES ASSUME Parts, [Next]_vars PROVE Parts'
      OBVIOUS
    <2>1. CASE UNCHANGED vars
      BY <2>1, Kept DEF Parts, vars, diag, panel
    <2>2. CASE Ended
      BY <2>2, <2>1 DEF Ended
    <2> QED
      BY <2>1, <2>2, PanelSteps, ReaderSteps, KeeperSteps, WritingSteps DEF Next, Keeper
  <1> QED
    BY <1>1, <1>2, PartsAreTypes, PTL DEF Spec
=============================================================================
