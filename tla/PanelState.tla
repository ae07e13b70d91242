----------------------------- MODULE PanelState -----------------------------
(***************************************************************************)
(* What the bridge makes of the panel's packets (core.py): the entities it *)
(* creates, the states it shows and stores, and what a restart restores.   *)
(*                                                                         *)
(* The panel reports each change once, in packets of which one read of the *)
(* serial line returns a few; it may repeat its states.  Packets are lost  *)
(* when the stream is reopened (hourly, or after an exception), and with   *)
(* an exception the rest of the read.  The reader thread handles one       *)
(* packet at a time; Store and StateSync model what happens beside it.     *)
(***************************************************************************)
EXTENDS Codec, Functions

CONSTANTS
    SectionCodes,   \* what the panel may say of a section: 256 * byte 1 + byte 2
    NumSections,    \* sections the panel can have, the first of them in use
    FireSections,   \* sections with a device in them
    Devices,        \* numbers of the devices not ignored
    Known,          \* those that were detected: the keys of _devices_data
    WithBattery,    \* those that have a battery, the central unit's 0 included
    Sirens,         \* those whose batteries have voltages
    Buses,          \* the central unit's
    Lan,            \* number of the LAN connection
    MaxSent,        \* bound on the packets the panel sends
    MaxReads        \* bound on the reads that wait in the line

CentralUnit == 0
Sections == 1..NumSections
ServicePair == <<Service, 0>>
ServiceMode == <<"service", 1>>   \* in_service_mode, for doubt
FaultEvents == {6, 7}           \* sabotage and fault, which share a sensor

ASSUME PanelAssumption ==
    /\ NumSections \in 1..MaxSections
    /\ FireSections \subseteq Sections
    /\ Devices \subseteq 1..230 /\ Known \subseteq Devices
    /\ WithBattery \subseteq Devices \cup {CentralUnit}
    /\ Sirens \subseteq Devices /\ Buses \subseteq 1..3
    /\ Lan \in 231..239
    /\ MaxSent \in Nat /\ MaxReads \in Nat

ASSUME CodesAssumption == {256 * Disarmed, 256 * 7} \subseteq SectionCodes

\* Two bytes, a SectionPrimaryState in the first of them, and never service:
\* that is panel.service.
ASSUME SectionsAssumption ==
    \A c \in SectionCodes :
       c \in Nat /\ c < 65536 /\ (c \div 256) % 8 \notin {0, Service}

VARIABLES
    panel,          \* what is the case: see PanelType
    sent,           \* how many packets the panel has sent
    line,           \* the reads that wait: a sequence of sequences of packets
    rest,           \* packets of the current read not handled yet
    bridge,         \* the tables of the core, and what they hand to the store
    doubt           \* what it shows wrongly because of a loss or a misread packet

vars == <<panel, sent, line, rest, bridge, doubt>>

Pairs == {<<c \div 256, c % 256>> : c \in SectionCodes}

PanelType ==
    [sections : [Sections -> Pairs], service : BOOLEAN,
     active : SUBSET Devices, faults : SUBSET (Devices \X FaultEvents),
     low : SUBSET WithBattery, lan : BOOLEAN, pg : BOOLEAN,
     power : BOOLEAN]

SectionKinds == {"section", "section_problem", "fire"}

Entities ==
    (SectionKinds \X Sections)
      \cup ({"state", "problem"} \X Devices)
      \cup ({"battery", "voltage"} \X (Devices \cup {CentralUnit}))
      \cup ({"bus"} \X (Buses \cup {1})) \cup ({"lan", "lan_ip", "pg", "power"} \X {1})

States == {"on", "off", "unknown", "none", "triggered", "pending", "arming",
           "armed_away", "armed_home", "armed_night", "disarmed", "value"}

Stored(e) == e[1] \notin {"section", "section_problem", "fire", "state"}

TypeOK ==
    /\ panel \in PanelType
    /\ sent \in 0..MaxSent
    /\ Len(line) <= MaxReads
    /\ bridge.entities \subseteq DOMAIN bridge.shown
    /\ DOMAIN bridge.shown \subseteq Entities
    /\ \A e \in DOMAIN bridge.shown : bridge.shown[e] \in States
    /\ bridge.battery \subseteq Known \cup {CentralUnit}
    /\ bridge.buses \subseteq Buses \cup {1}
    /\ \A e \in DOMAIN bridge.stored.states : Stored(e)
    /\ doubt \subseteq Entities \cup {ServiceMode}

-----------------------------------------------------------------------------
(* The tables: each operator returns them as a method leaves them.         *)

\* The states of new, and of old where new has none.
Over(old, new) ==
    [e \in DOMAIN old \cup DOMAIN new |-> IF e \in DOMAIN new THEN new[e] ELSE old[e]]

All(entities, state) == [e \in entities |-> state]

\* _update_entity_state, of every entity that new has a state of
Update(b, new) ==
    [b EXCEPT !.shown = Over(@, new),
              !.stored.states = Over(@, Restrict(new, {e \in DOMAIN new : Stored(e)}))]

\* Mutant: no initial state.
AddEntitiesBare(b, initial) == [b EXCEPT !.entities = @ \cup DOMAIN initial]

\* _add_entity of each: an initial state only where none was loaded.
AddEntities(b, initial) ==
    [b EXCEPT !.entities = @ \cup DOMAIN initial, !.shown = Over(initial, @)]

\* _send_signal_entities_added
Announce(b) == [b EXCEPT !.announced = b.entities]

SectionEntities(numbers) ==
    ({"section", "section_problem"} \X numbers) \cup ({"fire"} \X (numbers \cap FireSections))

SectionEntityState(e, pair) ==
    LET state == SectionState(pair)
    IN  CASE e[1] = "section" -> AlarmState(state, FALSE)
          [] e[1] = "section_problem" -> ProblemState(state)
          [] e[1] = "fire" -> FireState(state)

\* Mutant: a section that appears is not announced.
CreateSectionsQuietly(b, states) == AddEntities(b, states)

\* The sections that have not all of their entities are created, and announced.
CreateSections(b, states) ==
    IF DOMAIN states \subseteq b.entities THEN b ELSE Announce(AddEntities(b, states))

\* What the pairs say of the entities of some sections.
SectionsSay(pairs, numbers) ==
    [e \in SectionEntities(numbers) |-> SectionEntityState(e, pairs[e[2]])]

InService(pairs) == {i \in 1..UsedSections(pairs) : SectionState(pairs[i]).state = Service}

\* Mutant: the service mode ends only when a packet says so of section 1.
ParseSectionsSticky(b, pairs) ==
    LET states == SectionsSay(pairs, 1..UsedSections(pairs))
    IN  IF InService(pairs) # {} THEN [b EXCEPT !.inService = TRUE]
        ELSE Update(CreateSections(b, states), states)

\* The sections before the first in service mode are updated, the others not.
ParseSections(b, pairs) ==
    LET before == {i \in 1..UsedSections(pairs) : \A j \in InService(pairs) : i < j}
        states == SectionsSay(pairs, before)
    IN  [Update(CreateSections(b, states), states) EXCEPT !.inService = InService(pairs) # {}]

BatteryIs(battery) == OnOff(~battery.ok)

HasVoltages(number) == number \in Sirens \cup {CentralUnit}

\* The entities of batteries: one of level and problem, and one of the
\* voltages.
BatteryEntities(numbers) ==
    ({"battery"} \X numbers) \cup ({"voltage"} \X {n \in numbers : HasVoltages(n)})

BatteryStates(numbers, battery, voltage) ==
    [e \in BatteryEntities(numbers) |-> IF e[1] = "battery" THEN battery ELSE voltage]

\* Mutant: the battery of a device is not remembered.
AddBatteryOnce(b, number, battery) ==
    Announce(AddEntities([b EXCEPT !.battery = @ \cup {number}],
                         BatteryStates({number}, BatteryIs(battery), "none")))

\* A battery heard of for the first time: the data that makes a restart
\* create its entities is stored.
AddBattery(b, number, battery) ==
    Announce(AddEntities([b EXCEPT !.battery = @ \cup {number},
                                   !.stored.battery = b.battery \cup {number}],
                         BatteryStates({number}, BatteryIs(battery), "none")))

\* The panel sends the voltages of a battery with its level.
ParseInfo(b, number, byte) ==
    IF ~HasBatteryLevel(byte) THEN b
    ELSE Update(IF number \in b.battery THEN b ELSE AddBattery(b, number, Battery(byte)),
                BatteryStates({number}, BatteryIs(Battery(byte)), "value"))

AddBuses(b, buses) ==
    IF buses \subseteq b.buses THEN b
    ELSE Announce(AddEntities([b EXCEPT !.buses = @ \cup buses,
                                        !.stored.buses = b.buses \cup buses],
                              All({"bus"} \X (buses \ b.buses), "none")))

\* The central unit's info: power supply, battery, and a bus if it names one.
ParseCentralUnit(b, power, byte, buses) ==
    LET battery == ParseInfo(Update(b, All({<<"power", 1>>}, OnOff(power))), CentralUnit, byte)
    IN  Update(AddBuses(battery, buses), All({"bus"} \X buses, "value"))

\* A status packet of a wireless device: as an info packet, but it adds no
\* entity.
ParseStatus(b, number, byte) ==
    IF ~HasBatteryLevel(byte) THEN b
    ELSE Update([b EXCEPT !.battery = @ \cup {number},
                          !.stored.battery = b.battery \cup {number}],
                All({<<"battery", number>>}, BatteryIs(Battery(byte))))

AddLanIp(b) ==
    IF <<"lan_ip", 1>> \in b.entities THEN b
    ELSE Announce(AddEntities([b EXCEPT !.stored.ip = TRUE], All({<<"lan_ip", 1>>}, "none")))

ParseLanInfo(b, ok) ==
    Update(AddLanIp(Update(b, All({<<"lan", 1>>}, OnOff(ok)))), All({<<"lan_ip", 1>>}, "value"))

\* Which sensor shows a fault, if it is one.
FaultSensor(b, number, byte2) ==
    CASE Fault(byte2) = "battery" /\ number \in b.battery -> {<<"battery", number>>}
      [] Fault(byte2) \notin {"none", "battery"} /\ number # CentralUnit -> {<<"problem", number>>}
      [] OTHER -> {}

\* _parse_device_state_packet of the central unit, of the LAN connection, and
\* of a device with a state.
ParseEvent(b, number, byte2, byte3) ==
    LET state == DeviceState(byte3, number)
        fault == FaultSensor(b, number, byte2)
        deviceSpeaks == number \in Devices /\ state # "unknown" /\ ~IsHeartbeat(byte2)
    IN  CASE number = Lan /\ state # "unknown" ->
                Update(b, All({<<"lan", 1>>}, OnOff(state = "off")))
          [] deviceSpeaks /\ fault = {} -> Update(b, All({<<"state", number>>}, state))
          [] (deviceSpeaks \/ number = CentralUnit) /\ fault # {} -> Update(b, All(fault, state))
          [] OTHER -> b

ParseDevices(b, on) == Update(b, [e \in {"state"} \X Devices |-> OnOff(e[2] \in on)])

ParsePg(b, on) == Update(b, All({<<"pg", 1>>}, OnOff(on)))

\* The branches of _read_packets.
Handle(b, p) ==
    CASE p.kind = "sections" -> ParseSections(b, p.pairs)
      [] p.kind = "devices" -> ParseDevices(b, p.on)
      [] p.kind = "pg" -> ParsePg(b, p.pg)
      [] p.kind = "event" -> ParseEvent(b, p.number, p.byte2, p.byte3)
      [] p.kind = "info" -> ParseInfo(b, p.number, p.byte)
      [] p.kind = "central" -> ParseCentralUnit(b, p.power, p.byte, p.buses)
      [] p.kind = "status" -> ParseStatus(b, p.number, p.byte)
      [] p.kind = "lan" -> ParseLanInfo(b, p.ok)

\* A section without a state, or data of a device that was not detected.
Raises(b, p) ==
    CASE p.kind = "sections" -> SectionsPacketRaises(p.pairs)
      [] p.kind = "info" -> /\ HasBatteryLevel(p.byte)
                            /\ p.number \in Devices \ Known
      [] p.kind = "status" -> p.number \notin Known
      [] OTHER -> FALSE

-----------------------------------------------------------------------------
(* What the panel says (external), and what each packet is about.          *)

AllSections(now) ==
    [kind |-> "sections",
     pairs |-> [s \in 1..(NumSections + 1) |->
                  IF s > NumSections \/ now.sections[s] = Unused THEN Unused
                  ELSE IF now.service THEN ServicePair ELSE now.sections[s]]]

EventPacket(number, byte2, on) ==
    [kind |-> "event", number |-> number, byte2 |-> byte2,
     byte3 |-> ((4 * number + 104) % 256) + (IF on THEN 0 ELSE 2)]

BatteryByte(now, number) ==
    IF number \notin WithBattery THEN 15 ELSE IF number \in now.low THEN 33 ELSE 8

BatteryPacket(now, kind, number) ==
    [kind |-> kind, number |-> number, byte |-> BatteryByte(now, number)]

CentralPacket(now, buses) ==
    [kind |-> "central", power |-> now.power, byte |-> BatteryByte(now, CentralUnit),
     buses |-> buses]

\* The packets that repeat a state.
Reports(now) ==
    {AllSections(now), [kind |-> "devices", on |-> now.active], [kind |-> "pg", pg |-> now.pg],
     [kind |-> "lan", ok |-> now.lan]}
      \cup {BatteryPacket(now, "info", d) : d \in Devices}
      \cup {CentralPacket(now, {bus}) : bus \in Buses}

\* Those that say nothing new, or nothing that can be understood; heartbeats
\* come in two forms.
Oddities(now) ==
    {EventPacket(d, IF d \in Known THEN HeartbeatEvent ELSE 51, TRUE) : d \in Devices}
      \cup {BatteryPacket(now, "status", d) : d \in Devices}
      \cup {[kind |-> "sections", pairs |-> <<<<0, 0>>>>]}

\* What a well-formed packet makes certain.
Tells(p) ==
    CASE p.kind = "sections" ->
            IF SectionsPacketRaises(p.pairs) THEN {}
            ELSE {ServiceMode} \cup (IF p.pairs[1] = ServicePair THEN {}
                                     ELSE SectionKinds \X Sections)
      [] p.kind = "devices" -> {"state"} \X Devices
      [] p.kind = "pg" -> {<<"pg", 1>>}
      [] p.kind = "lan" -> {"lan", "lan_ip"} \X {1}
      [] p.kind \in {"info", "status"} -> {<<"battery", p.number>>}
      [] p.kind = "central" -> {<<"battery", CentralUnit>>, <<"power", 1>>}
      [] p.kind = "event" ->
            IF IsHeartbeat(p.byte2) THEN {}
            ELSE CASE p.number = Lan -> {<<"lan", 1>>}
              [] p.number # Lan /\ Fault(p.byte2) = "battery" -> {<<"battery", p.number>>}
              [] p.number \in Devices /\ Fault(p.byte2) = "none" -> {<<"state", p.number>>}
              [] OTHER -> {<<"problem", p.number>>}

\* A low battery the bridge does not know of is taken for activity.
Misleads(b, p) ==
    IF p.kind = "event" /\ p.number \in Devices \ b.battery /\ Fault(p.byte2) = "battery"
    THEN {<<"state", p.number>>, <<"battery", p.number>>} ELSE {}

-----------------------------------------------------------------------------
(* What initialize makes of the file, of a sections packet and, when it     *)
(* came in the same read, of the PG outputs.                               *)

Loaded(file) ==
    [shown |-> file.states, entities |-> {}, announced |-> {}, battery |-> file.battery,
     buses |-> file.buses, stored |-> file, inService |-> FALSE]

CreateDevices(b) ==
    AddEntities(AddEntities(b, All({"problem", "state"} \X Devices, "off")),
                BatteryStates(b.battery \cap Devices, "off", "none"))

CreatePgOutputs(b) == AddEntities(b, All({<<"pg", 1>>}, "off"))

CreateCentralUnitSensors(b) ==
    LET power == AddEntities(b, All({<<"power", 1>>}, "off"))
        battery == AddEntities(power, BatteryStates(b.battery \cap {CentralUnit}, "none", "none"))
        buses == AddEntities(battery, All({"bus"} \X b.buses, "none"))
        lan == AddEntities(buses, All({<<"lan", 1>>}, "on"))
    IN  IF b.stored.ip THEN AddEntities(lan, All({<<"lan_ip", 1>>}, "none")) ELSE lan

Started(file, now, withPg) ==
    LET pairs == AllSections(now).pairs
        sections == CreateSections(CreateDevices(Loaded(file)),
                                   SectionsSay(pairs, 1..UsedSections(pairs)))
        parsed == IF withPg THEN ParsePg(sections, now.pg) ELSE sections
    IN  Announce(CreateCentralUnitSensors(CreatePgOutputs(parsed)))

-----------------------------------------------------------------------------
(* What the bridge should show.                                            *)

UsedNow(now) == {s \in Sections : now.sections[s] # Unused}

\* The first sections are used, one at least.
InUse(now) == \E n \in Sections : UsedNow(now) = 1..n

\* The state an entity should show; of a battery or an address, once it is
\* known.  Voltages are values, of which nothing is said.
TrueState(now, e) ==
    CASE e[1] \in SectionKinds -> SectionEntityState(e, now.sections[e[2]])
      [] e[1] = "state" -> OnOff(e[2] \in now.active)
      [] e[1] = "battery" -> OnOff(e[2] \in now.low)
      [] e[1] = "pg" -> OnOff(now.pg)
      [] e[1] = "lan" -> OnOff(now.lan)
      [] e[1] = "power" -> OnOff(now.power)
      [] e[1] = "lan_ip" -> "value"
      [] e[1] = "problem" -> "off"

\* Problem sensors: two kinds of faults share one, and the end of either
\* turns it off; so nothing is said of one while a fault lasts.
Speaks(now, e) ==
    CASE e[1] \in SectionKinds -> ~now.service /\ e[2] \in UsedNow(now)
      [] e[1] \in {"voltage", "bus"} -> FALSE
      [] e[1] = "problem" -> \A f \in FaultEvents : <<e[2], f>> \notin now.faults
      [] OTHER -> TRUE

Expected(now) ==
    SectionEntities(UsedNow(now)) \cup ({"state", "problem"} \X Devices) \cup ({"pg", "lan", "power"} \X {1})

\* What the bridge shows wrongly, or not at all.
Wrong(b, now) ==
    {e \in b.entities \cup Expected(now) :
       Speaks(now, e) /\ ~(e \in b.entities /\ b.shown[e] = TrueState(now, e))}
      \cup (IF b.inService = now.service THEN {} ELSE {ServiceMode})

EmptyFile == [states |-> All({}, "none"), battery |-> {}, buses |-> {1}, ip |-> FALSE]

Init ==
    /\ panel = [sections |-> [s \in Sections |-> IF s = 1 THEN <<Disarmed, 0>> ELSE Unused],
                service |-> FALSE, active |-> {}, faults |-> {}, low |-> {},
                lan |-> TRUE, pg |-> FALSE, power |-> FALSE]
    /\ sent = 0
    /\ line = <<>>
    /\ rest = <<>>
    /\ bridge = Started(EmptyFile, panel, FALSE)
    /\ doubt = {}

-----------------------------------------------------------------------------
\* The panel sends a packet, in a read of its own or with the one before.
Send(p) ==
    /\ sent < MaxSent
    /\ sent' = sent + 1
    /\ \/ Len(line) < MaxReads /\ line' = Append(line, <<p>>)
       \/ /\ line # <<>> /\ Len(line[Len(line)]) = 1
          /\ line' = [line EXCEPT ![Len(line)] = Append(@, p)]

Changes(now, p) ==
    /\ panel' = now
    /\ Send(p)
    /\ UNCHANGED <<rest, bridge, doubt>>

Toggle(set, element) == IF element \in set THEN set \ {element} ELSE set \cup {element}

SectionChanges ==
    \E s \in Sections, pair \in Pairs :
       LET now == [panel EXCEPT !.sections[s] = pair]
       IN  /\ now # panel /\ InUse(now)
           /\ Changes(now, AllSections(now))

ServiceChanges ==
    LET now == [panel EXCEPT !.service = ~@] IN Changes(now, AllSections(now))

DeviceActs ==
    \E d \in Devices :
       LET now == [panel EXCEPT !.active = Toggle(@, d)]
       IN  Changes(now, EventPacket(d, ActivityEvent, d \in now.active))

FaultChanges ==
    \E fault \in Devices \X FaultEvents :
       LET now == [panel EXCEPT !.faults = Toggle(@, fault)]
       IN  Changes(now, EventPacket(fault[1], fault[2], fault \in now.faults))

BatteryChanges ==
    \E n \in WithBattery :
       LET now == [panel EXCEPT !.low = Toggle(@, n)]
       IN  Changes(now, EventPacket(n, 20, n \in now.low))

LanChanges ==
    LET now == [panel EXCEPT !.lan = ~@] IN Changes(now, EventPacket(Lan, ActivityEvent, ~now.lan))

PgChanges ==
    LET now == [panel EXCEPT !.pg = ~@] IN Changes(now, [kind |-> "pg", pg |-> now.pg])

PowerChanges ==
    LET now == [panel EXCEPT !.power = ~@] IN Changes(now, CentralPacket(now, {}))

PanelChanges ==
    SectionChanges \/ ServiceChanges \/ DeviceActs \/ FaultChanges \/ BatteryChanges
      \/ LanChanges \/ PgChanges \/ PowerChanges

Report(p) ==
    /\ Send(p)
    /\ UNCHANGED <<panel, rest, bridge, doubt>>

Repeats == \E p \in Reports(panel) : Report(p)

SendsOddity == \E p \in Oddities(panel) : Report(p)

\* stream.read
Read ==
    /\ rest = <<>> /\ line # <<>>
    /\ rest' = Head(line)
    /\ line' = Tail(line)
    /\ UNCHANGED <<panel, sent, bridge, doubt>>

HandleNext ==
    /\ rest # <<>>
    /\ LET p == Head(rest)
       IN  /\ ~Raises(bridge, p)
           /\ bridge' = Handle(bridge, p)
           /\ doubt' = (doubt \ Tells(p)) \cup Misleads(bridge, p)
    /\ rest' = Tail(rest)
    /\ UNCHANGED <<panel, sent, line>>

\* The exception drops the read, and what arrives until the stream is open.
HandleRaises ==
    /\ rest # <<>> /\ Raises(bridge, Head(rest))
    /\ doubt' = doubt \cup Wrong(bridge, panel)
    /\ rest' = <<>>
    /\ line' = <<>>
    /\ UNCHANGED <<panel, sent, bridge>>

\* Between two reads, when the hour has changed.
Reopen ==
    /\ rest = <<>> /\ line # <<>>
    /\ doubt' = doubt \cup Wrong(bridge, panel)
    /\ line' = <<>>
    /\ UNCHANGED <<panel, sent, rest, bridge>>

\* From the file as of now: Store models one that lags behind.
Restart(withPg) ==
    /\ bridge' = Started(bridge.stored, panel, withPg)
    /\ doubt' = Wrong(bridge', panel)
    /\ line' = <<>>
    /\ rest' = <<>>
    /\ UNCHANGED <<panel, sent>>

Next ==
    \/ PanelChanges \/ Repeats \/ SendsOddity
    \/ Read \/ HandleNext \/ HandleRaises \/ Reopen
    \/ Restart(TRUE) \/ Restart(FALSE)

Spec == Init /\ [][Next]_vars

-----------------------------------------------------------------------------
(* Properties.                                                             *)

\* When all that arrived is handled, every entity shows what is the case,
\* and every section that is used has its entities, except for what a lost
\* packet, a restart or a low battery taken for activity was about.  In
\* service mode the bridge says so; leaving it brings the sections up to
\* date, whatever changed meanwhile, and no heartbeat changes anything.
Truthful == line = <<>> /\ rest = <<>> => Wrong(bridge, panel) \subseteq doubt

\* Entities that appear while the bridge runs are announced: none waits for
\* the next one to be noticed.
Announced == bridge.entities = bridge.announced

\* A restart from the file of this moment would create every entity that
\* exists now and is not a section's, and show what it shows where states
\* are stored.
RestartShowsTheSame ==
    LET again == Started(bridge.stored, panel, FALSE)
    IN  \A e \in bridge.entities :
           e[1] \notin SectionKinds =>
               /\ e \in again.entities
               /\ Stored(e) => again.shown[e] = bridge.shown[e]
=============================================================================
