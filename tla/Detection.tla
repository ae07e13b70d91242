------------------------------ MODULE Detection ------------------------------
(***************************************************************************)
(* What initialize of core.py asks the panel before the bridge is up: the  *)
(* serial port, the central unit, the devices, the sections.               *)
(*                                                                         *)
(* Each detection has a thread that asks again and again and one that      *)
(* reads; the main thread waits for the reader, but not for ever.  Answers *)
(* come in any order, a few of them in one read, late, or never.  Bridge   *)
(* starts it, again and again.                                             *)
(***************************************************************************)
EXTENDS Naturals, FiniteSets, FiniteSetsExt

CONSTANTS
    Autodetect,     \* whether the port is configured as "auto": what it may be
    Wanted,         \* the sets of devices that may be configured and not ignored
    Rounds,         \* how often a writer asks before the reader is given up
    MaxBatch        \* answers in one read

ASSUME ConfigsAssumption == Autodetect \subseteq BOOLEAN /\ Wanted \subseteq SUBSET (1..230)
ASSUME RoundsAssumption == Rounds \in Nat \ {0} /\ MaxBatch \in Nat \ {0}

VARIABLES
    config,         \* the configuration of this start
    node,           \* where the panel is: the configured path, another, none
    port,           \* _serial_port
    step,           \* where initialize is
    data,           \* keys of _devices_data
    stored,         \* the same in the store
    skipped,        \* the devices were not asked for at this start
    owed,           \* answers on their way, a bag
    got,            \* what the reader of this detection has, a bag
    rounds,         \* how often its writer has asked
    writer,         \* "asks", or "failed"
    reader,         \* "reads", "ended", "raised"
    lingering,      \* a reader given up waits in a read
    mishap          \* something was lost, late, or unknown at this start

memory == <<data, stored, skipped>>
detection == <<owed, got, rounds, writer, reader>>
vars == <<config, node, port, step, memory, detection, lingering, mishap>>

Configs == [auto : Autodetect, wanted : Wanted]
Devices == UNION Wanted
Nodes == {"configured", "elsewhere", "absent"}
Detections == {"central", "devices", "sections"}

\* Answers.  The three system infos of the central unit are SystemInfo's.
Info(type) == <<"info", type>>
Status(d) == <<"status", d>>
DevicesSections == <<"devices_sections", 0>>
SectionsStates == <<"sections_states", 0>>

Infos == {Info(type) : type \in {2, 8, 9}}
Answers == Infos \cup {Status(d) : d \in Devices} \cup {DevicesSections, SectionsStates}

NoAnswers == [a \in Answers |-> 0]
Arrived(bag) == {a \in Answers : bag[a] > 0}
Add(bag, answers) == [a \in Answers |-> bag[a] + (IF a \in answers THEN 1 ELSE 0)]
Count(bag) == FoldSet(LAMBDA a, n : n + bag[a], 0, Answers)

DetectionTypeOK ==
    /\ config \in Configs
    /\ node \in Nodes /\ port \in Nodes \cup {"none"}
    /\ step \in {"off", "port", "ready", "failed"} \cup Detections
    /\ data \subseteq Devices /\ stored \subseteq Devices /\ skipped \in BOOLEAN
    /\ owed \in [Answers -> 0..Rounds] /\ got \in [Answers -> 0..Rounds]
    /\ rounds \in 0..Rounds
    /\ writer \in {"asks", "failed"}
    /\ reader \in {"reads", "ended", "raised"}
    /\ lingering \in BOOLEAN /\ mishap \in BOOLEAN

DetectionInit ==
    /\ config \in Configs
    /\ node \in Nodes
    /\ port = "none"
    /\ step = "off"
    /\ data = {} /\ stored = {} /\ skipped = FALSE
    /\ owed = NoAnswers /\ got = NoAnswers /\ rounds = 0
    /\ writer = "asks" /\ reader = "reads"
    /\ lingering = FALSE
    /\ mishap = FALSE

-----------------------------------------------------------------------------
(* The serial port.                                                        *)

\* The panel is plugged in, out, or elsewhere: a read that waits fails.
Moves ==
    /\ node' \in Nodes \ {node}
    /\ reader' = IF step \in Detections /\ reader = "reads" THEN "raised" ELSE reader
    /\ mishap' = TRUE
    /\ UNCHANGED <<config, port, step, memory, owed, got, rounds, writer, lingering>>

\* initialize: autodetection, or the configured path as long as it exists.
DetectedPort ==
    IF config.auto \/ node = "elsewhere" THEN node ELSE "configured"

Opens == node # "absent" /\ port = node

-----------------------------------------------------------------------------
(* A detection.                                                            *)

Requests(s) ==
    CASE s = "central" -> Infos
      [] s = "devices" -> {Status(d) : d \in config.wanted} \cup {DevicesSections}
      [] s = "sections" -> {SectionsStates}

\* Mutant: the answer about all devices' sections is not counted.
EnoughStatuses(bag) ==
    CASE step = "central" -> Infos \subseteq Arrived(bag)
      [] step = "devices" -> Count(bag) = Cardinality(config.wanted)
      [] step = "sections" -> bag[SectionsStates] > 0

\* The answers about devices are counted, not told apart.
Enough(bag) ==
    CASE step = "central" -> Infos \subseteq Arrived(bag)
      [] step = "devices" -> Count(bag) = Cardinality(config.wanted) + 1
      [] step = "sections" -> bag[SectionsStates] > 0

\* The reader's thread opens a stream: what was on its way is gone.
Begins(s) ==
    /\ step' = s
    /\ owed' = NoAnswers /\ got' = NoAnswers /\ rounds' = 0
    /\ writer' = "asks"
    /\ reader' = IF node # "absent" /\ port' = node THEN "reads" ELSE "raised"

\* Autodetection finds nothing.
PortNotDetected ==
    /\ step = "port"
    /\ config.auto /\ node = "absent"
    /\ step' = "failed"
    /\ mishap' = TRUE
    /\ UNCHANGED <<config, node, port, memory, detection, lingering>>

FindPort ==
    /\ step = "port"
    /\ ~(config.auto /\ node = "absent")
    /\ port' = DetectedPort
    /\ Begins("central")
    /\ UNCHANGED <<config, node, memory, lingering, mishap>>

\* Mutant: whatever the store has will do.
NothingToDetectOnceStored == config.wanted = {} \/ data # {}

\* _detect_devices: no device, or as many as the store has data of.
NothingToDetect ==
    config.wanted = {} \/ Cardinality(data) = Cardinality(config.wanted)

WriterAsks ==
    /\ step \in Detections
    /\ writer = "asks" /\ rounds < Rounds
    /\ Opens
    /\ owed' = Add(owed, Requests(step))
    /\ rounds' = rounds + 1
    /\ mishap' = (mishap \/ (reader = "reads" /\ owed # NoAnswers))
    /\ UNCHANGED <<config, node, port, step, memory, got, writer, reader, lingering>>

\* The node has gone, perhaps amid the packets: nobody looks at the exception.
WriterFails ==
    /\ step \in Detections
    /\ writer = "asks" /\ rounds < Rounds
    /\ ~Opens
    /\ \E part \in SUBSET Requests(step) : owed' = Add(owed, part)
    /\ writer' = "failed"
    /\ mishap' = TRUE
    /\ UNCHANGED <<config, node, port, step, memory, got, rounds, reader, lingering>>

\* An answer is not given, or cannot be decoded.
Lose ==
    /\ \E a \in Arrived(owed) : owed' = [owed EXCEPT ![a] = @ - 1]
    /\ mishap' = TRUE
    /\ UNCHANGED <<config, node, port, step, memory, got, rounds, writer, reader, lingering>>

\* One read: the count is looked at after its last packet.
ReaderReads ==
    /\ step \in Detections /\ reader = "reads"
    /\ \E batch \in SUBSET Arrived(owed) :
          /\ batch # {} /\ Cardinality(batch) <= MaxBatch
          /\ owed' = [a \in Answers |-> owed[a] - (IF a \in batch THEN 1 ELSE 0)]
          /\ got' = Add(got, batch \cap Requests(step))
    /\ reader' = IF Enough(got') THEN "ended" ELSE "reads"
    /\ UNCHANGED <<config, node, port, step, memory, rounds, writer, lingering, mishap>>

\* An info of a type that SystemInfo does not have: a ValueError.
ReaderMeetsUnknown ==
    /\ step = "central" /\ reader = "reads"
    /\ reader' = "raised"
    /\ mishap' = TRUE
    /\ UNCHANGED <<config, node, port, step, memory, owed, got, rounds, writer, lingering>>

\* What the threads had is gone with them.
DetectionOver ==
    /\ owed' = NoAnswers /\ got' = NoAnswers /\ rounds' = 0
    /\ writer' = "asks" /\ reader' = "reads"

Fails(lingers) ==
    /\ step' = "failed"
    /\ lingering' = lingers
    /\ DetectionOver
    /\ UNCHANGED <<config, node, port, memory>>

MainMeetsException ==
    /\ step \in Detections /\ reader = "raised"
    /\ mishap' = TRUE
    /\ Fails(FALSE)

\* Mutant: the reader is waited for without a limit.
MainTimesOutNever ==
    /\ step \in Detections /\ reader = "reads" /\ writer = "failed"
    /\ UNCHANGED mishap
    /\ Fails(TRUE)

\* The time is up; the reader stays in its read.
MainTimesOut ==
    /\ step \in Detections /\ reader = "reads"
    /\ rounds = Rounds \/ writer = "failed"
    /\ mishap' = (mishap \/ owed # NoAnswers)
    /\ Fails(TRUE)

\* The central unit is known: on to the devices, or past them.
MainTakesCentral ==
    /\ step = "central" /\ reader = "ended"
    /\ port' = port
    /\ Begins(IF NothingToDetect THEN "sections" ELSE "devices")
    /\ skipped' = NothingToDetect
    /\ UNCHANGED <<config, node, data, stored, lingering, mishap>>

\* ShouldNotHappen: enough packets, but none with the sections.
MainMissesSections ==
    /\ step = "devices" /\ reader = "ended" /\ got[DevicesSections] = 0
    /\ UNCHANGED mishap
    /\ Fails(FALSE)

MainTakesDevices ==
    /\ step = "devices" /\ reader = "ended" /\ got[DevicesSections] > 0
    /\ data' = data \cup {d \in config.wanted : Status(d) \in Arrived(got)}
    /\ stored' = data'
    /\ port' = port
    /\ Begins("sections")
    /\ UNCHANGED <<config, node, skipped, lingering, mishap>>

MainTakesSections ==
    /\ step = "sections" /\ reader = "ended"
    /\ step' = "ready"
    /\ DetectionOver
    /\ UNCHANGED <<config, node, port, memory, lingering, mishap>>

DetectionSteps ==
    \/ PortNotDetected \/ FindPort
    \/ WriterAsks \/ WriterFails \/ ReaderReads \/ MainMeetsException
    \/ MainTimesOut \/ MainTakesCentral \/ MainMissesSections
    \/ MainTakesDevices \/ MainTakesSections
=============================================================================
