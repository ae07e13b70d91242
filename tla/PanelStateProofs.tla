-------------------------- MODULE PanelStateProofs --------------------------
(***************************************************************************)
(* What the bridge makes of the packets, for any panel: sections, devices, *)
(* batteries, buses and bounds.  The theorems are at the end.              *)
(*                                                                         *)
(* The invariant has two parts.  Of the tables (Good): the entities are    *)
(* those that a start from what is stored would create, all of them        *)
(* announced, and a stored state is the state shown, so that nothing but   *)
(* the file is needed to restore them.  Of the packets (Accounted): for    *)
(* each entity either the last packet on its way that tells anything of    *)
(* it tells what is the case now; or none does, and what the bridge shows  *)
(* of it is right, or doubtful.                                            *)
(***************************************************************************)
EXTENDS PanelState, CodecProofs


-----------------------------------------------------------------------------
(* The tables, and the operators that change them.                         *)

\* A section can be disarmed, and out of use.
LEMMA PairsAre == <<1, 0>> \in Pairs /\ <<7, 0>> \in Pairs
  <1>1. 256 * 1 \in SectionCodes /\ 256 * 7 \in SectionCodes
    BY CodesAssumption DEF Disarmed
  <1>2. /\ (256 * 1) \div 256 = 1 /\ (256 * 1) % 256 = 0
        /\ (256 * 7) \div 256 = 7 /\ (256 * 7) % 256 = 0
    OBVIOUS
  <1> QED
    BY <1>1, <1>2 DEF Pairs

\* A table of states.
Shows == UNION {[es -> States] : es \in SUBSET Entities}

\* What the store holds: states, and the data that entities are created from.
Files ==
    [states : Shows, battery : SUBSET (WithBattery \cap (Known \cup {CentralUnit})),
     buses : SUBSET (Buses \cup {1}), ip : BOOLEAN]

\* The tables of the core, with the file they hand to the store.
Tables ==
    [shown : Shows, entities : SUBSET Entities, announced : SUBSET Entities,
     battery : SUBSET (WithBattery \cap (Known \cup {CentralUnit})),
     buses : SUBSET (Buses \cup {1}), stored : Files, inService : BOOLEAN]

\* A table of states, by its domain and its values.
LEMMA ShowsIs ==
    ASSUME NEW f
    PROVE  f \in Shows <=> /\ f = [e \in DOMAIN f |-> f[e]]
                           /\ DOMAIN f \subseteq Entities
                           /\ \A e \in DOMAIN f : f[e] \in States
  BY DEF Shows

\* f has the states of new, and of old where new has none.
Overlaid(f, old, new) ==
    /\ DOMAIN f = DOMAIN old \cup DOMAIN new
    /\ \A e \in DOMAIN new : f[e] = new[e]
    /\ \A e \in DOMAIN old \ DOMAIN new : f[e] = old[e]

\* Over overlays: a table of states, if it is given two.
LEMMA OverShows ==
    ASSUME NEW old \in Shows, NEW new \in Shows
    PROVE  Over(old, new) \in Shows /\ Overlaid(Over(old, new), old, new)
  <1>1. /\ DOMAIN old \subseteq Entities /\ DOMAIN new \subseteq Entities
        /\ \A e \in DOMAIN old : old[e] \in States
        /\ \A e \in DOMAIN new : new[e] \in States
    BY ShowsIs
  <1>2. /\ DOMAIN Over(old, new) = DOMAIN old \cup DOMAIN new
        /\ \A e \in DOMAIN new : Over(old, new)[e] = new[e]
        /\ \A e \in DOMAIN old \ DOMAIN new : Over(old, new)[e] = old[e]
        /\ Over(old, new) = [e \in DOMAIN Over(old, new) |-> Over(old, new)[e]]
    BY DEF Over
  <1>3. \A e \in DOMAIN Over(old, new) : Over(old, new)[e] \in States
    BY <1>1, <1>2
  <1> QED
    BY <1>1, <1>2, <1>3, ShowsIs DEF Overlaid

\* Those states of new that are stored.
Storable(new) == Restrict(new, {e \in DOMAIN new : Stored(e)})

\* They are a table of states again.
LEMMA StorableShows ==
    ASSUME NEW new \in Shows
    PROVE  /\ Storable(new) \in Shows
           /\ DOMAIN Storable(new) = {e \in DOMAIN new : Stored(e)}
           /\ \A e \in DOMAIN Storable(new) : Storable(new)[e] = new[e]
  BY ShowsIs DEF Storable, Restrict

\* _update_entity_state: both tables are overlaid, the rest is kept.
LEMMA UpdateIs ==
    ASSUME NEW b \in Tables, NEW new \in Shows
    PROVE  LET c == Update(b, new)
           IN  /\ c \in Tables
               /\ c.shown = Over(b.shown, new)
               /\ c.stored.states = Over(b.stored.states, Storable(new))
               /\ c.entities = b.entities /\ c.announced = b.announced
               /\ c.battery = b.battery /\ c.buses = b.buses /\ c.inService = b.inService
               /\ c.stored.battery = b.stored.battery /\ c.stored.buses = b.stored.buses
               /\ c.stored.ip = b.stored.ip
  <1>1. b.shown \in Shows /\ b.stored \in Files /\ b.stored.states \in Shows
    BY DEF Tables, Files
  <1>2. Over(b.shown, new) \in Shows /\ Over(b.stored.states, Storable(new)) \in Shows
    BY <1>1, OverShows, StorableShows
  <1> DEFINE shown == Over(b.shown, new)
             states == Over(b.stored.states, Storable(new))
             file == [b.stored EXCEPT !.states = states]
             c == [b EXCEPT !.shown = shown, !.stored = file]
  <1>3. Update(b, new) = c
    BY DEF Update, Storable, Tables, Files
  <1> HIDE DEF shown, states
  <1>4. /\ file \in Files /\ file.states = states /\ file.ip = b.stored.ip
        /\ file.battery = b.stored.battery /\ file.buses = b.stored.buses
    BY <1>1, <1>2 DEF Files, shown, states
  <1> HIDE DEF file
  <1>5. /\ c \in Tables /\ c.shown = shown /\ c.stored = file
        /\ c.entities = b.entities /\ c.announced = b.announced
        /\ c.battery = b.battery /\ c.buses = b.buses /\ c.inService = b.inService
    BY <1>1, <1>2, <1>4 DEF Tables, shown
  <1> HIDE DEF c
  <1> QED
    BY <1>3, <1>4, <1>5 DEF shown, states

\* _add_entity: entities are added, what was shown stays.
LEMMA AddEntitiesIs ==
    ASSUME NEW b \in Tables, NEW initial \in Shows
    PROVE  LET c == AddEntities(b, initial)
           IN  /\ c \in Tables
               /\ c.shown = Over(initial, b.shown)
               /\ c.entities = b.entities \cup DOMAIN initial
               /\ c.announced = b.announced /\ c.stored = b.stored
               /\ c.battery = b.battery /\ c.buses = b.buses /\ c.inService = b.inService
  <1>1. b.shown \in Shows /\ DOMAIN initial \subseteq Entities
    BY ShowsIs DEF Tables
  <1>2. Over(initial, b.shown) \in Shows
    BY <1>1, OverShows
  <1> QED
    BY <1>1, <1>2 DEF Tables, AddEntities

\* _send_signal_entities_added: only the announcement changes.
LEMMA AnnounceIs ==
    ASSUME NEW b \in Tables
    PROVE  LET c == Announce(b)
           IN  /\ c \in Tables
               /\ c.announced = b.entities
               /\ c.shown = b.shown /\ c.entities = b.entities /\ c.stored = b.stored
               /\ c.battery = b.battery /\ c.buses = b.buses /\ c.inService = b.inService
  BY DEF Tables, Announce

\* One state for every entity is a table of states.
LEMMA AllShows ==
    ASSUME NEW es \in SUBSET Entities, NEW state \in States
    PROVE  /\ All(es, state) \in Shows /\ DOMAIN All(es, state) = es
           /\ \A e \in es : All(es, state)[e] = state
  BY ShowsIs DEF All

-----------------------------------------------------------------------------
(* Tables from which a start can restore what is shown.                    *)

\* The entities that every start creates.
Always == ({"state", "problem"} \X Devices) \cup ({"pg", "lan", "power"} \X {1})

\* The entities that a file makes a start create, and those of sections.
Due(file) ==
    SectionEntities(Sections) \cup Always \cup BatteryEntities(file.battery)
      \cup ({"bus"} \X file.buses) \cup (IF file.ip THEN {<<"lan_ip", 1>>} ELSE {})

\* What a start shows of an entity of which nothing was stored.
Initially(e) ==
    IF e[1] \in {"voltage", "bus", "lan_ip"} \/ e = <<"battery", CentralUnit>> THEN "none"
    ELSE IF e[1] = "lan" THEN "on" ELSE "off"

\* What is stored is what is shown, and what a start needs.
Kept(b) ==
    /\ Always \subseteq b.entities /\ b.entities \subseteq Due(b.stored)
    /\ b.entities \subseteq DOMAIN b.shown
    /\ b.stored.battery = b.battery /\ b.stored.buses = b.buses
    /\ \A e \in DOMAIN b.stored.states :
          Stored(e) /\ e \in DOMAIN b.shown /\ b.shown[e] = b.stored.states[e]
    /\ \A e \in b.entities \ DOMAIN b.stored.states : Stored(e) => b.shown[e] = Initially(e)

\* Tables that are announced and kept.
Good(b) == b \in Tables /\ Kept(b) /\ b.announced = b.entities

\* c is b with the states of new, and perhaps with entities they are of.
Changed(b, c, new) ==
    /\ c \in Tables
    /\ b.entities \subseteq c.entities /\ c.entities \subseteq b.entities \cup DOMAIN new
    /\ Overlaid(c.shown, b.shown, new)
    /\ Overlaid(c.stored.states, b.stored.states, Storable(new))

\* Tables stay good if what changes is shown and stored alike.
LEMMA ChangedGood ==
    ASSUME NEW b, NEW c, NEW new \in Shows, Good(b), Changed(b, c, new),
           c.entities \subseteq Due(c.stored), c.announced = c.entities,
           c.stored.battery = c.battery, c.stored.buses = c.buses
    PROVE  Good(c)
  <1>1. /\ DOMAIN Storable(new) = {e \in DOMAIN new : Stored(e)}
        /\ \A e \in DOMAIN Storable(new) : Storable(new)[e] = new[e]
    BY StorableShows
  <1>2. /\ DOMAIN c.stored.states = DOMAIN b.stored.states \cup {e \in DOMAIN new : Stored(e)}
        /\ \A e \in DOMAIN new : Stored(e) => c.stored.states[e] = new[e]
        /\ \A e \in DOMAIN b.stored.states \ {d \in DOMAIN new : Stored(d)} :
              c.stored.states[e] = b.stored.states[e]
    BY <1>1 DEF Changed, Overlaid
  <1>3. /\ Always \subseteq b.entities
        /\ b.entities \subseteq DOMAIN b.shown
        /\ \A e \in DOMAIN b.stored.states :
              Stored(e) /\ e \in DOMAIN b.shown /\ b.shown[e] = b.stored.states[e]
        /\ \A e \in b.entities \ DOMAIN b.stored.states : Stored(e) => b.shown[e] = Initially(e)
    BY DEF Good, Kept
  <1>4. Always \subseteq c.entities /\ c.entities \subseteq DOMAIN c.shown
    BY <1>3 DEF Changed, Overlaid
  <1>5. ASSUME NEW e \in DOMAIN c.stored.states
        PROVE  Stored(e) /\ e \in DOMAIN c.shown /\ c.shown[e] = c.stored.states[e]
    BY <1>2, <1>3 DEF Changed, Overlaid
  <1>6. ASSUME NEW e \in c.entities \ DOMAIN c.stored.states, Stored(e)
        PROVE  c.shown[e] = Initially(e)
    BY <1>2, <1>3, <1>6 DEF Changed, Overlaid
  <1> QED
    BY <1>4, <1>5, <1>6 DEF Good, Kept, Changed

\* States of entities that there are.
LEMMA UpdateChanged ==
    ASSUME NEW b, NEW new \in Shows, Good(b)
    PROVE  Changed(b, Update(b, new), new)
  <1> DEFINE c == Update(b, new)
  <1>1. b \in Tables /\ b.shown \in Shows /\ b.stored.states \in Shows
    BY DEF Good, Tables, Files
  <1>2. /\ c \in Tables /\ c.entities = b.entities
        /\ c.shown = Over(b.shown, new)
        /\ c.stored.states = Over(b.stored.states, Storable(new))
    BY <1>1, UpdateIs
  <1> HIDE DEF c
  <1>3. /\ Overlaid(c.shown, b.shown, new)
        /\ Overlaid(c.stored.states, b.stored.states, Storable(new))
    BY <1>1, <1>2, OverShows, StorableShows
  <1>4. Changed(b, c, new)
    BY <1>2, <1>3 DEF Changed
  <1> QED
    BY <1>4 DEF c

\* _update_entity_state keeps tables good.
LEMMA UpdateGood ==
    ASSUME NEW b, NEW new \in Shows, Good(b)
    PROVE  Good(Update(b, new))
  <1>1. b \in Tables
    BY DEF Good
  <1> DEFINE c == Update(b, new)
  <1>2. /\ c.entities = b.entities /\ c.announced = b.announced
        /\ c.battery = b.battery /\ c.buses = b.buses
        /\ c.stored.battery = b.stored.battery /\ c.stored.buses = b.stored.buses
        /\ c.stored.ip = b.stored.ip
    BY <1>1, UpdateIs
  <1>3. Changed(b, c, new)
    BY UpdateChanged
  <1> HIDE DEF c
  <1>4. c.entities \subseteq Due(c.stored)
    BY <1>2 DEF Good, Kept, Due
  <1>5. /\ c.announced = c.entities
        /\ c.stored.battery = c.battery /\ c.stored.buses = c.buses
    BY <1>2 DEF Good, Kept
  <1>6. Good(c)
    BY <1>3, <1>4, <1>5, ChangedGood
  <1> QED
    BY <1>6 DEF c

\* Entities are added, announced, and their states updated: a is b but for
\* what it knows of batteries, buses and the address.
LEMMA AddedGood ==
    ASSUME NEW b, NEW a \in Tables, NEW initial \in Shows, NEW new \in Shows,
           Good(b), DOMAIN initial \subseteq DOMAIN new,
           a.shown = b.shown, a.entities = b.entities, a.stored.states = b.stored.states,
           a.stored.battery = a.battery, a.stored.buses = a.buses,
           b.entities \cup DOMAIN initial \subseteq Due(a.stored)
    PROVE  LET c == Update(Announce(AddEntities(a, initial)), new)
           IN  /\ Changed(b, c, new) /\ Good(c)
               /\ c.entities = b.entities \cup DOMAIN initial
               /\ c.battery = a.battery /\ c.inService = a.inService
  <1> DEFINE d == AddEntities(a, initial)
             f == Announce(d)
             c == Update(f, new)
  <1>1. /\ d \in Tables
        /\ d.shown = Over(initial, a.shown)
        /\ d.entities = a.entities \cup DOMAIN initial
        /\ d.stored = a.stored
        /\ d.battery = a.battery /\ d.buses = a.buses /\ d.inService = a.inService
    BY AddEntitiesIs
  <1> HIDE DEF d
  <1>2. /\ f \in Tables /\ f.announced = d.entities
        /\ f.shown = d.shown /\ f.entities = d.entities /\ f.stored = d.stored
        /\ f.battery = d.battery /\ f.buses = d.buses /\ f.inService = d.inService
    BY <1>1, AnnounceIs
  <1> HIDE DEF f
  <1>3. /\ c \in Tables
        /\ c.shown = Over(f.shown, new)
        /\ c.stored.states = Over(f.stored.states, Storable(new))
        /\ c.entities = f.entities /\ c.announced = f.announced
        /\ c.battery = f.battery /\ c.buses = f.buses /\ c.inService = f.inService
        /\ c.stored.battery = f.stored.battery /\ c.stored.buses = f.stored.buses
        /\ c.stored.ip = f.stored.ip
    BY <1>2, UpdateIs
  <1> HIDE DEF c
  <1>4. b.shown \in Shows /\ f.shown \in Shows /\ f.stored.states \in Shows
    BY <1>2 DEF Good, Tables, Files
  <1>5. Overlaid(f.shown, initial, b.shown)
    <2>1. f.shown = Over(initial, b.shown)
      BY <1>1, <1>2
    <2> QED
      BY <1>4, <2>1, OverShows
  <1>6. /\ Overlaid(c.shown, f.shown, new)
        /\ Overlaid(c.stored.states, f.stored.states, Storable(new))
    <2>1. Storable(new) \in Shows
      BY StorableShows
    <2>2. Overlaid(Over(f.shown, new), f.shown, new)
      BY <1>4, OverShows
    <2>3. Overlaid(Over(f.stored.states, Storable(new)), f.stored.states, Storable(new))
      BY <1>4, <2>1, OverShows
    <2> QED
      BY <1>3, <2>2, <2>3
  <1>7. c.entities = b.entities \cup DOMAIN initial
    BY <1>1, <1>2, <1>3
  <1>8. Changed(b, c, new)
    <2>1. Overlaid(c.shown, b.shown, new)
      BY <1>5, <1>6 DEF Overlaid
    <2> QED
      BY <1>1, <1>2, <1>3, <1>6, <1>7, <2>1 DEF Changed
  <1>9. c.entities \subseteq Due(c.stored)
    BY <1>1, <1>2, <1>3, <1>7 DEF Due
  <1>10. Good(c)
    <2>1. c.announced = c.entities /\ c.stored.battery = c.battery /\ c.stored.buses = c.buses
      BY <1>1, <1>2, <1>3
    <2> QED
      BY <1>8, <1>9, <2>1, ChangedGood
  <1> QED
    BY <1>1, <1>2, <1>3, <1>7, <1>8, <1>10 DEF c, f, d

-----------------------------------------------------------------------------
(* What the packets say, as tables of states.                              *)

\* Which method handles a packet: one, by its kind.
LEMMA HandleIs ==
    ASSUME NEW b, NEW p
    PROVE  /\ p.kind = "sections" => Handle(b, p) = ParseSections(b, p.pairs)
           /\ p.kind = "devices" => Handle(b, p) = ParseDevices(b, p.on)
           /\ p.kind = "pg" => Handle(b, p) = ParsePg(b, p.pg)
           /\ p.kind = "event" => Handle(b, p) = ParseEvent(b, p.number, p.byte2, p.byte3)
           /\ p.kind = "info" => Handle(b, p) = ParseInfo(b, p.number, p.byte)
           /\ p.kind = "central" => Handle(b, p) = ParseCentralUnit(b, p.power, p.byte, p.buses)
           /\ p.kind = "status" => Handle(b, p) = ParseStatus(b, p.number, p.byte)
           /\ p.kind = "lan" => Handle(b, p) = ParseLanInfo(b, p.ok)
  BY DEF Handle

\* Every state a section has is a state, in the three entities it has.
LEMMA SectionStatesAre ==
    ASSUME NEW e, NEW pair
    PROVE  e[1] \in SectionKinds => SectionEntityState(e, pair) \in States
  <1> DEFINE state == SectionState(pair)
  <1>1. AlarmState(state, FALSE) \in States
    BY DEF AlarmState, States
  <1>2. ProblemState(state) \in States /\ FireState(state) \in States
    BY DEF ProblemState, FireState, OnOff, States
  <1> HIDE DEF state
  <1>3. SectionEntityState(e, pair) = 
           CASE e[1] = "section" -> AlarmState(state, FALSE)
             [] e[1] = "section_problem" -> ProblemState(state)
             [] e[1] = "fire" -> FireState(state)
    BY DEF SectionEntityState, state
  <1> QED
    BY <1>1, <1>2, <1>3 DEF SectionKinds

\* What pairs say of sections is a table of states of their entities.
LEMMA SectionsSayIs ==
    ASSUME NEW pairs, NEW numbers \in SUBSET Sections
    PROVE  /\ SectionsSay(pairs, numbers) \in Shows
           /\ DOMAIN SectionsSay(pairs, numbers) = SectionEntities(numbers)
           /\ \A e \in SectionEntities(numbers) :
                 SectionsSay(pairs, numbers)[e] = SectionEntityState(e, pairs[e[2]])
  <1>1. \A e \in SectionEntities(numbers) : e[1] \in SectionKinds /\ e \in Entities
    <2> SUFFICES ASSUME NEW e \in SectionEntities(numbers)
                 PROVE  e[1] \in SectionKinds /\ e \in SectionKinds \X Sections
      BY DEF Entities
    <2>1. CASE e \in {"section", "section_problem"} \X numbers
      BY <2>1 DEF SectionKinds
    <2>2. CASE e \in {"fire"} \X (numbers \cap FireSections)
      BY <2>2 DEF SectionKinds
    <2> QED
      BY <2>1, <2>2 DEF SectionEntities
  <1>2. \A e \in SectionEntities(numbers) : SectionEntityState(e, pairs[e[2]]) \in States
    BY <1>1, SectionStatesAre
  <1> QED
    BY <1>1, <1>2, ShowsIs DEF SectionsSay

\* So is what is said of batteries.
LEMMA BatteryStatesIs ==
    ASSUME NEW numbers \in SUBSET (Devices \cup {CentralUnit}),
           NEW battery \in States, NEW voltage \in States
    PROVE  LET new == BatteryStates(numbers, battery, voltage)
           IN  /\ new \in Shows /\ DOMAIN new = BatteryEntities(numbers)
               /\ \A e \in BatteryEntities(numbers) :
                     new[e] = IF e[1] = "battery" THEN battery ELSE voltage
  <1>1. BatteryEntities(numbers) \subseteq Entities
    BY DEF BatteryEntities, Entities
  <1> QED
    BY <1>1, ShowsIs DEF BatteryStates

\* A sections packet has the pairs of the sections in use, and counts them.
LEMMA UsedOf ==
    ASSUME NEW now \in PanelType, NEW n \in Sections, UsedNow(now) = 1..n
    PROVE  LET pairs == AllSections(now).pairs
           IN  /\ UsedSections(pairs) = n
               /\ \A i \in 1..n : pairs[i] = IF now.service THEN ServicePair ELSE now.sections[i]
               /\ ~SectionsPacketRaises(pairs)
               /\ InService(pairs) = IF now.service THEN 1..n ELSE {}
  <1> DEFINE pairs == AllSections(now).pairs
  <1>1. /\ NumSections \in 1..15 /\ n \in 1..NumSections
        /\ \A s \in Sections : now.sections[s] # Unused <=> s <= n
    <2>1. NumSections \in 1..15 /\ Sections = 1..NumSections /\ n \in 1..NumSections
      BY PanelAssumption DEF Sections, MaxSections
    <2>2. \A s \in Sections : now.sections[s] # Unused <=> s \in 1..n
      BY DEF UsedNow
    <2> QED
      BY <2>1, <2>2
  <1>2. /\ Len(pairs) = NumSections + 1
        /\ \A s \in 1..(NumSections + 1) :
              pairs[s] = IF s > n THEN Unused
                         ELSE IF now.service THEN ServicePair ELSE now.sections[s]
    BY <1>1 DEF AllSections, Sections
  <1>3. ASSUME NEW i \in 1..n
        PROVE  /\ pairs[i] = IF now.service THEN ServicePair ELSE now.sections[i]
               /\ pairs[i] # Unused /\ i <= Len(pairs)
               /\ pairs[i][1] % 8 # 0
               /\ pairs[i][1] % 8 = Service <=> now.service
    <2>1. i \in Sections /\ i <= n
      BY <1>1 DEF Sections
    <2>2. pairs[i] = IF now.service THEN ServicePair ELSE now.sections[i]
      BY <1>1, <1>2
    <2>3. now.sections[i] \in Pairs /\ now.sections[i] # Unused
      BY <1>1, <2>1 DEF PanelType
    <2>4. PICK c \in SectionCodes : now.sections[i] = <<c \div 256, c % 256>>
      BY <2>3 DEF Pairs
    <2>5. now.sections[i][1] % 8 \notin {0, Service}
      <3>1. now.sections[i][1] = c \div 256
        BY <2>4
      <3>2. (c \div 256) % 8 \notin {0, Service}
        BY SectionsAssumption
      <3> QED
        BY <3>1, <3>2
    <2>6. ServicePair # Unused /\ ServicePair[1] % 8 = Service /\ Service # 0
      BY DEF ServicePair, Unused, Service
    <2> QED
      BY <1>1, <1>2, <2>1, <2>2, <2>3, <2>5, <2>6
  <1>4. pairs[n + 1] = Unused
    BY <1>1, <1>2
  <1> HIDE DEF pairs
  <1>5. UsedSections(pairs) = n
    <2> DEFINE used == {m \in 0..MaxSections : \A i \in 1..m : i <= Len(pairs) => pairs[i] # Unused}
    <2>1. n \in used
      <3>1. n \in 0..MaxSections
        BY <1>1 DEF MaxSections
      <3>2. \A i \in 1..n : pairs[i] # Unused
        BY <1>3
      <3> QED
        BY <3>1, <3>2
    <2>2. ASSUME NEW m \in used PROVE m <= n
      BY <1>1, <1>2, <1>4 DEF MaxSections
    <2>3. \A m \in used : (\A other \in used : other <= m) => m = n
      BY <1>1, <2>1, <2>2
    <2>4. UsedSections(pairs) = CHOOSE m \in used : \A other \in used : other <= m
      BY DEF UsedSections
    <2> HIDE DEF used
    <2> QED
      BY <2>1, <2>2, <2>3, <2>4
  <1>6. ~SectionsPacketRaises(pairs)
    BY <1>3, <1>5 DEF SectionsPacketRaises
  <1>7. InService(pairs) = IF now.service THEN 1..n ELSE {}
    BY <1>3, <1>5 DEF InService, SectionState
  <1> QED
    BY <1>3, <1>5, <1>6, <1>7 DEF pairs

-----------------------------------------------------------------------------
(* The methods that handle a packet: what each changes, and what it keeps. *)

\* Only of some entities c says something else than b, or has them newly.
Elsewhere(b, c, told) ==
    /\ b.entities \subseteq c.entities /\ c.entities \subseteq b.entities \cup told
    /\ \A e \in DOMAIN b.shown \ told : e \in DOMAIN c.shown /\ c.shown[e] = b.shown[e]

\* What changes by a table changes in its domain only.
LEMMA ChangedElsewhere ==
    ASSUME NEW b, NEW c, NEW new, Changed(b, c, new)
    PROVE  Elsewhere(b, c, DOMAIN new)
  BY DEF Changed, Overlaid, Elsewhere

\* Less is kept if more is told.
LEMMA ElsewhereMore ==
    ASSUME NEW b, NEW c, NEW told, NEW more, Elsewhere(b, c, told), told \subseteq more
    PROVE  Elsewhere(b, c, more)
  BY DEF Elsewhere

\* Two changes change what either does.
LEMMA ElsewhereThen ==
    ASSUME NEW b, NEW c, NEW d, NEW told, Elsewhere(b, c, told), Elsewhere(c, d, told)
    PROVE  Elsewhere(b, d, told)
  BY DEF Elsewhere

\* The state of a sensor is one.
LEMMA OnOffState == \A on : OnOff(on) \in States
  BY DEF OnOff, States

\* One method after another.
LEMMA UpdateIsGood ==
    ASSUME NEW b, NEW new \in Shows, Good(b)
    PROVE  LET c == Update(b, new)
           IN  /\ Good(c) /\ Elsewhere(b, c, DOMAIN new)
               /\ \A e \in DOMAIN new : e \in DOMAIN c.shown /\ c.shown[e] = new[e]
               /\ c.entities = b.entities /\ c.battery = b.battery /\ c.inService = b.inService
  <1> DEFINE c == Update(b, new)
  <1>1. b \in Tables
    BY DEF Good
  <1>2. c.entities = b.entities /\ c.battery = b.battery /\ c.inService = b.inService
    BY <1>1, UpdateIs
  <1>3. Good(c) /\ Changed(b, c, new)
    BY UpdateGood, UpdateChanged
  <1> HIDE DEF c
  <1>4. /\ Elsewhere(b, c, DOMAIN new)
        /\ \A e \in DOMAIN new : e \in DOMAIN c.shown /\ c.shown[e] = new[e]
    BY <1>3, ChangedElsewhere DEF Changed, Overlaid
  <1> QED
    BY <1>2, <1>3, <1>4 DEF c

\* _update_entity_state with one state for some entities.
LEMMA UpdateAllGood ==
    ASSUME NEW b, NEW es \in SUBSET Entities, NEW state \in States, Good(b)
    PROVE  LET c == Update(b, All(es, state))
           IN  /\ Good(c) /\ Elsewhere(b, c, es)
               /\ \A e \in es : e \in DOMAIN c.shown /\ c.shown[e] = state
               /\ c.entities = b.entities /\ c.battery = b.battery /\ c.inService = b.inService
  <1> DEFINE new == All(es, state)
  <1>1. new \in Shows /\ DOMAIN new = es /\ \A e \in es : new[e] = state
    BY AllShows
  <1> HIDE DEF new
  <1> DEFINE c == Update(b, new)
  <1>2. /\ Good(c) /\ Elsewhere(b, c, DOMAIN new)
        /\ \A e \in DOMAIN new : e \in DOMAIN c.shown /\ c.shown[e] = new[e]
        /\ c.entities = b.entities /\ c.battery = b.battery /\ c.inService = b.inService
    BY <1>1, UpdateIsGood
  <1> HIDE DEF c
  <1>3. /\ Good(c) /\ Elsewhere(b, c, es)
        /\ \A e \in es : e \in DOMAIN c.shown /\ c.shown[e] = state
        /\ c.entities = b.entities /\ c.battery = b.battery /\ c.inService = b.inService
    BY <1>1, <1>2
  <1> QED
    BY <1>3 DEF c, new

\* The service mode is no part of what is kept.
LEMMA InServiceGood ==
    ASSUME NEW b, NEW service \in BOOLEAN, Good(b)
    PROVE  LET c == [b EXCEPT !.inService = service]
           IN  Good(c) /\ c.entities = b.entities /\ c.shown = b.shown /\ c.inService = service
  <1> DEFINE c == [b EXCEPT !.inService = service]
  <1>1. b \in Tables
    BY DEF Good
  <1>2. /\ c \in Tables
        /\ c.entities = b.entities /\ c.shown = b.shown /\ c.stored = b.stored
        /\ c.announced = b.announced /\ c.battery = b.battery /\ c.buses = b.buses
        /\ c.inService = service
    BY <1>1 DEF Tables
  <1> HIDE DEF c
  <1>3. Good(c)
    BY <1>2 DEF Good, Kept
  <1> QED
    BY <1>2, <1>3 DEF c

\* A sections packet: what a panel that has n sections said at some time.
LEMMA ParseSectionsIs ==
    ASSUME NEW b, Good(b), NEW now \in PanelType, NEW n \in Sections, UsedNow(now) = 1..n
    PROVE  LET c == ParseSections(b, AllSections(now).pairs)
               told == IF now.service THEN {} ELSE SectionEntities(1..n)
           IN  /\ Good(c) /\ Elsewhere(b, c, told)
               /\ told \subseteq c.entities
               /\ \A e \in told : c.shown[e] = SectionEntityState(e, now.sections[e[2]])
               /\ c.inService = now.service
  <1> DEFINE pairs == AllSections(now).pairs
             numbers == IF now.service THEN {} ELSE 1..n
             told == IF now.service THEN {} ELSE SectionEntities(1..n)
             new == SectionsSay(pairs, numbers)
             c == Update(CreateSections(b, new), new)
  <1>0. now.service \in BOOLEAN
    BY DEF PanelType
  <1>1. numbers \subseteq Sections /\ n \in Nat
    <2>1. NumSections \in 1..15 /\ Sections = 1..NumSections /\ n \in 1..NumSections
      BY PanelAssumption DEF Sections, MaxSections
    <2> QED
      BY <2>1
  <1>2. /\ UsedSections(pairs) = n
        /\ \A i \in 1..n : pairs[i] = IF now.service THEN ServicePair ELSE now.sections[i]
        /\ InService(pairs) = IF now.service THEN 1..n ELSE {}
    BY UsedOf
  <1> HIDE DEF pairs
  <1>3. {i \in 1..UsedSections(pairs) : \A j \in InService(pairs) : i < j} = numbers
    BY <1>1, <1>2
  <1>4. (InService(pairs) # {}) = now.service
    <2>1. 1 \in 1..n
      BY PanelAssumption DEF Sections
    <2> QED
      BY <1>0, <1>2, <2>1
  <1>5. ParseSections(b, pairs) = [c EXCEPT !.inService = now.service]
    BY <1>3, <1>4 DEF ParseSections
  <1>6. SectionEntities(numbers) = told
    BY DEF SectionEntities
  <1>7. /\ new \in Shows /\ DOMAIN new = told
        /\ \A e \in told : new[e] = SectionEntityState(e, pairs[e[2]])
    BY <1>1, <1>6, SectionsSayIs
  <1>8. \A e \in told : e[2] \in 1..n /\ ~now.service
    BY DEF SectionEntities
  <1>9. \A e \in told : new[e] = SectionEntityState(e, now.sections[e[2]])
    BY <1>2, <1>7, <1>8
  <1>10. told \subseteq Due(b.stored)
    BY <1>1 DEF SectionEntities, Due
  <1> HIDE DEF new, told, numbers
  <1>11. /\ Good(c) /\ Elsewhere(b, c, told) /\ told \subseteq c.entities
         /\ \A e \in told : c.shown[e] = new[e]
    <2>1. CASE told \subseteq b.entities
      <3>1. CreateSections(b, new) = b
        BY <1>7, <2>1 DEF CreateSections
      <3>2. LET d == Update(b, new)
            IN  /\ Good(d) /\ Elsewhere(b, d, DOMAIN new)
                /\ \A e \in DOMAIN new : d.shown[e] = new[e]
                /\ d.entities = b.entities
        BY <1>7, UpdateIsGood
      <3> QED
        BY <1>7, <2>1, <3>1, <3>2
    <2>2. CASE ~(told \subseteq b.entities)
      <3>1. CreateSections(b, new) = Announce(AddEntities(b, new))
        BY <1>7, <2>2 DEF CreateSections
      <3>2. /\ b \in Tables /\ b.stored.battery = b.battery /\ b.stored.buses = b.buses
            /\ b.entities \subseteq Due(b.stored)
        BY DEF Good, Kept
      <3>3. b.entities \cup DOMAIN new \subseteq Due(b.stored)
        BY <1>7, <1>10, <3>2
      <3> DEFINE d == Update(Announce(AddEntities(b, new)), new)
      <3>4. Changed(b, d, new) /\ Good(d) /\ d.entities = b.entities \cup DOMAIN new
        BY <1>7, <3>2, <3>3, AddedGood
      <3>5. c = d
        BY <3>1
      <3> HIDE DEF c, d
      <3>6. Elsewhere(b, c, told) /\ \A e \in told : c.shown[e] = new[e]
        BY <1>7, <3>4, <3>5, ChangedElsewhere DEF Changed, Overlaid
      <3> QED
        BY <1>7, <3>4, <3>5, <3>6
    <2> QED
      BY <2>1, <2>2
  <1> HIDE DEF c
  <1> DEFINE f == [c EXCEPT !.inService = now.service]
  <1>12. Good(f) /\ f.entities = c.entities /\ f.shown = c.shown /\ f.inService = now.service
    BY <1>0, <1>11, InServiceGood
  <1> HIDE DEF f
  <1>13. Elsewhere(b, f, told)
    BY <1>11, <1>12 DEF Elsewhere
  <1>14. told \subseteq f.entities /\ \A e \in told : f.shown[e] = SectionEntityState(e, now.sections[e[2]])
    BY <1>9, <1>11, <1>12
  <1>15. ParseSections(b, pairs) = f
    BY <1>5 DEF f
  <1> QED
    BY <1>12, <1>13, <1>14, <1>15 DEF pairs, told

\* Silent entities: of voltages and currents nothing is said.
Silent == {e \in Entities : e[1] \in {"voltage", "bus"}}

\* Batteries have entities that there are, of a level and of voltages.
LEMMA BatteryEntitiesAre ==
    ASSUME NEW number \in Devices \cup {CentralUnit}
    PROVE  /\ BatteryEntities({number}) \subseteq {<<"battery", number>>} \cup Silent
           /\ <<"battery", number>> \in BatteryEntities({number})
  BY DEF BatteryEntities, Silent, Entities

\* An info packet: the battery is added if it is new, stored, and shown.
LEMMA ParseInfoIs ==
    ASSUME NEW b, Good(b), NEW number \in Devices \cup {CentralUnit}, NEW byte,
           HasBatteryLevel(byte) => number \in WithBattery /\ number \in Known \cup {CentralUnit}
    PROVE  LET c == ParseInfo(b, number, byte)
           IN  /\ Good(c) /\ Elsewhere(b, c, {<<"battery", number>>} \cup Silent)
               /\ c.inService = b.inService
               /\ HasBatteryLevel(byte) =>
                     /\ <<"battery", number>> \in DOMAIN c.shown
                     /\ c.shown[<<"battery", number>>] = BatteryIs(Battery(byte))
               /\ ~HasBatteryLevel(byte) => c = b
  <1> DEFINE told == {<<"battery", number>>} \cup Silent
             level == BatteryIs(Battery(byte))
             new == BatteryStates({number}, level, "value")
             initial == BatteryStates({number}, level, "none")
             c == ParseInfo(b, number, byte)
  <1>1. CASE ~HasBatteryLevel(byte)
    <2>1. c = b
      BY <1>1 DEF ParseInfo
    <2> QED
      BY <1>1, <2>1 DEF Elsewhere
  <1>2. CASE HasBatteryLevel(byte)
    <2>1. number \in WithBattery \cap (Known \cup {CentralUnit})
      BY <1>2
    <2>2. level \in States /\ "value" \in States /\ "none" \in States
      BY DEF BatteryIs, OnOff, States
    <2>3. /\ new \in Shows /\ DOMAIN new = BatteryEntities({number})
          /\ \A e \in BatteryEntities({number}) : new[e] = IF e[1] = "battery" THEN level ELSE "value"
      BY <2>2, BatteryStatesIs
    <2>4. initial \in Shows /\ DOMAIN initial = BatteryEntities({number})
      BY <2>2, BatteryStatesIs
    <2>5. /\ DOMAIN new \subseteq told /\ <<"battery", number>> \in DOMAIN new
          /\ new[<<"battery", number>>] = level
      BY <2>3, BatteryEntitiesAre
    <2> HIDE DEF new, initial
    <2>6. CASE number \in b.battery
      <3>1. c = Update(b, new)
        BY <1>2, <2>6 DEF ParseInfo, new
      <3> DEFINE d == Update(b, new)
      <3>2. /\ Good(d) /\ Elsewhere(b, d, DOMAIN new)
            /\ \A e \in DOMAIN new : e \in DOMAIN d.shown /\ d.shown[e] = new[e]
            /\ d.inService = b.inService
        BY <2>3, UpdateIsGood
      <3> HIDE DEF d, c
      <3>3. Elsewhere(b, d, told)
        BY <2>5, <3>2, ElsewhereMore
      <3>4. c = d
        BY <3>1 DEF d
      <3> QED
        BY <1>2, <2>5, <3>2, <3>3, <3>4 DEF c
    <2>7. CASE number \notin b.battery
      <3> DEFINE a == [b EXCEPT !.battery = @ \cup {number},
                                !.stored.battery = b.battery \cup {number}]
                 d == Update(Announce(AddEntities(a, initial)), new)
      <3>1. c = d
        BY <1>2, <2>7 DEF ParseInfo, AddBattery, new, initial
      <3>2. b \in Tables /\ b.stored \in Files /\ b.stored.battery = b.battery
        BY DEF Good, Kept, Tables
      <3>3. a = [b EXCEPT !.battery = b.battery \cup {number},
                          !.stored = [b.stored EXCEPT !.battery = b.battery \cup {number}]]
        BY <3>2 DEF Tables
      <3>4. /\ a \in Tables
            /\ a.shown = b.shown /\ a.entities = b.entities /\ a.inService = b.inService
            /\ a.stored.states = b.stored.states /\ a.stored.ip = b.stored.ip
            /\ a.stored.buses = b.stored.buses /\ a.buses = b.buses
            /\ a.battery = b.battery \cup {number} /\ a.stored.battery = b.battery \cup {number}
        BY <2>1, <3>2, <3>3 DEF Tables, Files
      <3> HIDE DEF a
      <3>5. b.entities \cup DOMAIN initial \subseteq Due(a.stored)
        <4>1. b.entities \subseteq Due(b.stored)
          BY DEF Good, Kept
        <4>2. /\ BatteryEntities(b.stored.battery) \subseteq BatteryEntities(a.stored.battery)
              /\ BatteryEntities({number}) \subseteq BatteryEntities(a.stored.battery)
          BY <3>2, <3>4 DEF BatteryEntities
        <4> QED
          BY <2>4, <3>4, <4>1, <4>2 DEF Due
      <3>6. a.stored.battery = a.battery /\ a.stored.buses = a.buses
        BY <3>4 DEF Good, Kept
      <3>7. DOMAIN initial \subseteq DOMAIN new
        BY <2>3, <2>4
      <3>8. Changed(b, d, new) /\ Good(d) /\ d.inService = a.inService
        <4>1. /\ a \in Tables /\ a.shown = b.shown /\ a.entities = b.entities
              /\ a.stored.states = b.stored.states
          BY <3>4
        <4>2. initial \in Shows /\ new \in Shows
          BY <2>3, <2>4
        <4> QED
          BY <3>5, <3>6, <3>7, <4>1, <4>2, AddedGood
      <3> HIDE DEF c, d
      <3>9. Elsewhere(b, d, told)
        BY <2>5, <3>8, ChangedElsewhere, ElsewhereMore
      <3>10. /\ <<"battery", number>> \in DOMAIN d.shown
             /\ d.shown[<<"battery", number>>] = level
        BY <2>5, <3>8 DEF Changed, Overlaid
      <3> QED
        BY <1>2, <3>1, <3>4, <3>8, <3>9, <3>10 DEF c
    <2> QED
      BY <2>6, <2>7
  <1> QED
    BY <1>1, <1>2

\* Buses: added if they are new, stored, and shown.
LEMMA BusesIs ==
    ASSUME NEW b, Good(b), NEW buses \in SUBSET Buses
    PROVE  LET c == Update(AddBuses(b, buses), All({"bus"} \X buses, "value"))
           IN  Good(c) /\ Elsewhere(b, c, Silent) /\ c.inService = b.inService
  <1> DEFINE new == All({"bus"} \X buses, "value")
             c == Update(AddBuses(b, buses), new)
  <1>1. {"bus"} \X buses \subseteq Silent /\ {"bus"} \X buses \in SUBSET Entities
    BY DEF Silent, Entities
  <1>2. new \in Shows /\ DOMAIN new = {"bus"} \X buses
    BY <1>1, AllShows DEF States
  <1> HIDE DEF new
  <1>3. CASE buses \subseteq b.buses
    <2> DEFINE d == Update(b, new)
    <2>1. Good(d) /\ Elsewhere(b, d, DOMAIN new) /\ d.inService = b.inService
      BY <1>2, UpdateIsGood
    <2>2. c = d
      BY <1>3 DEF AddBuses
    <2> HIDE DEF c, d
    <2>3. Elsewhere(b, d, Silent)
      BY <1>1, <1>2, <2>1, ElsewhereMore
    <2> QED
      BY <2>1, <2>2, <2>3 DEF c, new
  <1>4. CASE ~(buses \subseteq b.buses)
    <2> DEFINE a == [b EXCEPT !.buses = @ \cup buses, !.stored.buses = b.buses \cup buses]
               initial == All({"bus"} \X (buses \ b.buses), "none")
               d == Update(Announce(AddEntities(a, initial)), new)
    <2>1. c = d
      BY <1>4 DEF AddBuses
    <2>2. {"bus"} \X (buses \ b.buses) \in SUBSET Entities /\ "none" \in States
      BY DEF Entities, States
    <2>3. initial \in Shows /\ DOMAIN initial = {"bus"} \X (buses \ b.buses)
      BY <2>2, AllShows
    <2>4. b \in Tables /\ b.stored \in Files /\ b.stored.buses = b.buses
      BY DEF Good, Kept, Tables
    <2>5. a = [b EXCEPT !.buses = b.buses \cup buses,
                        !.stored = [b.stored EXCEPT !.buses = b.buses \cup buses]]
      BY <2>4 DEF Tables
    <2>6. /\ a \in Tables
          /\ a.shown = b.shown /\ a.entities = b.entities /\ a.inService = b.inService
          /\ a.stored.states = b.stored.states /\ a.stored.ip = b.stored.ip
          /\ a.stored.battery = b.stored.battery /\ a.battery = b.battery
          /\ a.buses = b.buses \cup buses /\ a.stored.buses = b.buses \cup buses
      BY <2>4, <2>5 DEF Tables, Files
    <2> HIDE DEF a, initial
    <2>7. b.entities \cup DOMAIN initial \subseteq Due(a.stored)
      <3>1. b.entities \subseteq Due(b.stored)
        BY DEF Good, Kept
      <3>2. /\ {"bus"} \X b.stored.buses \subseteq {"bus"} \X a.stored.buses
            /\ {"bus"} \X (buses \ b.buses) \subseteq {"bus"} \X a.stored.buses
        BY <2>4, <2>6
      <3> QED
        BY <2>3, <2>6, <3>1, <3>2 DEF Due
    <2>8. a.stored.battery = a.battery /\ a.stored.buses = a.buses
      BY <2>6 DEF Good, Kept
    <2>9. DOMAIN initial \subseteq DOMAIN new
      BY <1>2, <2>3
    <2>10. Changed(b, d, new) /\ Good(d) /\ d.inService = a.inService
      <3>1. /\ a \in Tables /\ a.shown = b.shown /\ a.entities = b.entities
            /\ a.stored.states = b.stored.states
        BY <2>6
      <3>2. initial \in Shows /\ new \in Shows
        BY <1>2, <2>3
      <3> QED
        BY <2>7, <2>8, <2>9, <3>1, <3>2, AddedGood
    <2> HIDE DEF c, d
    <2>11. Elsewhere(b, d, Silent)
      BY <1>1, <1>2, <2>10, ChangedElsewhere, ElsewhereMore
    <2> QED
      BY <2>1, <2>6, <2>10, <2>11 DEF c, new
  <1> QED
    BY <1>3, <1>4

\* The packet of the central unit: power supply, battery, and bus.
LEMMA ParseCentralUnitIs ==
    ASSUME NEW b, Good(b), NEW power \in BOOLEAN, NEW byte, NEW buses \in SUBSET Buses,
           HasBatteryLevel(byte) => CentralUnit \in WithBattery
    PROVE  LET c == ParseCentralUnit(b, power, byte, buses)
           IN  /\ Good(c)
               /\ Elsewhere(b, c, {<<"power", 1>>, <<"battery", CentralUnit>>} \cup Silent)
               /\ c.inService = b.inService
               /\ c.shown[<<"power", 1>>] = OnOff(power)
               /\ HasBatteryLevel(byte) =>
                     c.shown[<<"battery", CentralUnit>>] = BatteryIs(Battery(byte))
  <1> DEFINE e1 == <<"power", 1>>
             e2 == <<"battery", CentralUnit>>
             told == {e1, e2} \cup Silent
             level == BatteryIs(Battery(byte))
             d1 == Update(b, All({e1}, OnOff(power)))
             d2 == ParseInfo(d1, CentralUnit, byte)
             d3 == Update(AddBuses(d2, buses), All({"bus"} \X buses, "value"))
  <1>0. /\ e1 \in Entities /\ e2 \in Entities /\ e1 # e2
        /\ e1 \notin Silent /\ e2 \notin Silent
    BY DEF Entities, Silent
  <1>1. /\ Good(d1) /\ Elsewhere(b, d1, {e1}) /\ d1.shown[e1] = OnOff(power)
        /\ d1.inService = b.inService
    BY <1>0, OnOffState, UpdateAllGood
  <1> HIDE DEF d1
  <1>2. /\ Good(d2) /\ Elsewhere(d1, d2, {e2} \cup Silent) /\ d2.inService = d1.inService
        /\ HasBatteryLevel(byte) => e2 \in DOMAIN d2.shown /\ d2.shown[e2] = level
    BY <1>1, ParseInfoIs
  <1> HIDE DEF d2
  <1>3. Good(d3) /\ Elsewhere(d2, d3, Silent) /\ d3.inService = d2.inService
    BY <1>2, BusesIs
  <1>4. ParseCentralUnit(b, power, byte, buses) = d3
    BY DEF ParseCentralUnit, d1, d2
  <1> HIDE DEF d3, level
  <1>5. Elsewhere(b, d3, told)
    <2>1. Elsewhere(b, d1, told) /\ Elsewhere(d1, d2, told) /\ Elsewhere(d2, d3, told)
      <3>1. {e1} \subseteq told /\ {e2} \cup Silent \subseteq told /\ Silent \subseteq told
        OBVIOUS
      <3> HIDE DEF told
      <3> QED
        BY <1>1, <1>2, <1>3, <3>1, ElsewhereMore
    <2> HIDE DEF told
    <2>2. Elsewhere(b, d2, told)
      BY <2>1, ElsewhereThen
    <2> QED
      BY <2>1, <2>2, ElsewhereThen
  <1>6. e1 \in b.entities /\ b.entities \subseteq DOMAIN b.shown
    BY DEF Good, Kept, Always
  <1>7. e1 \in DOMAIN d1.shown
    BY <1>1, <1>6 DEF Good, Kept, Always
  <1>8. d3.shown[e1] = OnOff(power)
    BY <1>0, <1>1, <1>2, <1>3, <1>7 DEF Elsewhere
  <1>9. ASSUME HasBatteryLevel(byte) PROVE d3.shown[e2] = level
    BY <1>0, <1>2, <1>3, <1>9 DEF Elsewhere
  <1> QED
    BY <1>3, <1>4, <1>5, <1>1, <1>2, <1>8, <1>9 DEF told, level

\* A status packet: the battery is remembered and shown, no entity added.
LEMMA ParseStatusIs ==
    ASSUME NEW b, Good(b), NEW number \in Known, NEW byte,
           HasBatteryLevel(byte) => number \in WithBattery
    PROVE  LET c == ParseStatus(b, number, byte)
           IN  /\ Good(c) /\ Elsewhere(b, c, {<<"battery", number>>})
               /\ c.inService = b.inService
               /\ HasBatteryLevel(byte) => c.shown[<<"battery", number>>] = BatteryIs(Battery(byte))
               /\ ~HasBatteryLevel(byte) => c = b
  <1> DEFINE e == <<"battery", number>>
             c == ParseStatus(b, number, byte)
             level == BatteryIs(Battery(byte))
  <1>1. CASE ~HasBatteryLevel(byte)
    <2>1. c = b
      BY <1>1 DEF ParseStatus
    <2> QED
      BY <1>1, <2>1 DEF Elsewhere
  <1>2. CASE HasBatteryLevel(byte)
    <2> DEFINE a == [b EXCEPT !.battery = @ \cup {number},
                              !.stored.battery = b.battery \cup {number}]
               d == Update(a, All({e}, level))
    <2>1. c = d
      BY <1>2 DEF ParseStatus
    <2>2. number \in WithBattery \cap (Known \cup {CentralUnit})
      BY <1>2
    <2>3. b \in Tables /\ b.stored \in Files /\ b.stored.battery = b.battery
      BY DEF Good, Kept, Tables
    <2>4. a = [b EXCEPT !.battery = b.battery \cup {number},
                        !.stored = [b.stored EXCEPT !.battery = b.battery \cup {number}]]
      BY <2>3 DEF Tables
    <2>5. /\ a \in Tables
          /\ a.shown = b.shown /\ a.entities = b.entities /\ a.inService = b.inService
          /\ a.announced = b.announced
          /\ a.stored.states = b.stored.states /\ a.stored.ip = b.stored.ip
          /\ a.stored.buses = b.stored.buses /\ a.buses = b.buses
          /\ a.battery = b.battery \cup {number} /\ a.stored.battery = b.battery \cup {number}
      BY <2>2, <2>3, <2>4 DEF Tables, Files
    <2> HIDE DEF a
    <2>6. Good(a)
      <3>1. b.entities \subseteq Due(b.stored)
        BY DEF Good, Kept
      <3>2. BatteryEntities(b.stored.battery) \subseteq BatteryEntities(a.stored.battery)
        BY <2>3, <2>5 DEF BatteryEntities
      <3>3. a.entities \subseteq Due(a.stored)
        BY <2>5, <3>1, <3>2 DEF Due
      <3> QED
        BY <2>5, <3>3 DEF Good, Kept
    <2>7. e \in Entities /\ level \in States
      <3>1. Known \subseteq Devices
        BY PanelAssumption
      <3> QED
        BY <3>1 DEF Entities, BatteryIs, OnOff, States
    <2>8. Good(d) /\ Elsewhere(a, d, {e}) /\ d.shown[e] = level /\ d.inService = a.inService
      BY <2>6, <2>7, UpdateAllGood
    <2> HIDE DEF c, d, level
    <2>9. Elsewhere(b, d, {e})
      BY <2>5, <2>8 DEF Elsewhere
    <2> QED
      BY <1>2, <2>1, <2>5, <2>8, <2>9 DEF c, level
  <1> QED
    BY <1>1, <1>2

\* The packet of the LAN connection: its state, and its address.
LEMMA ParseLanInfoIs ==
    ASSUME NEW b, Good(b), NEW ok \in BOOLEAN
    PROVE  LET c == ParseLanInfo(b, ok)
           IN  /\ Good(c) /\ Elsewhere(b, c, {"lan", "lan_ip"} \X {1})
               /\ c.inService = b.inService
               /\ c.shown[<<"lan", 1>>] = OnOff(ok) /\ c.shown[<<"lan_ip", 1>>] = "value"
  <1> DEFINE e1 == <<"lan", 1>>
             e2 == <<"lan_ip", 1>>
             told == {"lan", "lan_ip"} \X {1}
             d1 == Update(b, All({e1}, OnOff(ok)))
             new == All({e2}, "value")
             d2 == Update(AddLanIp(d1), new)
  <1>0. /\ e1 \in Entities /\ e2 \in Entities /\ e1 # e2 /\ "value" \in States /\ "none" \in States
        /\ {e1} \subseteq told /\ {e2} \subseteq told
    BY DEF Entities, States
  <1>1. /\ Good(d1) /\ Elsewhere(b, d1, {e1}) /\ e1 \in DOMAIN d1.shown /\ d1.shown[e1] = OnOff(ok)
        /\ d1.inService = b.inService
    BY <1>0, OnOffState, UpdateAllGood
  <1> HIDE DEF d1
  <1>2. /\ Good(d2) /\ Elsewhere(d1, d2, {e2}) /\ d2.shown[e2] = "value"
        /\ d2.inService = d1.inService
    <2>1. CASE e2 \in d1.entities
      <3>1. d2 = Update(d1, new)
        BY <2>1 DEF AddLanIp
      <3> QED
        BY <1>0, <1>1, <3>1, UpdateAllGood
    <2>2. CASE e2 \notin d1.entities
      <3> DEFINE a == [d1 EXCEPT !.stored.ip = TRUE]
                 initial == All({e2}, "none")
                 d == Update(Announce(AddEntities(a, initial)), new)
      <3>1. d2 = d
        BY <2>2 DEF AddLanIp
      <3>2. /\ initial \in Shows /\ DOMAIN initial = {e2}
            /\ new \in Shows /\ DOMAIN new = {e2} /\ new[e2] = "value"
        BY <1>0, AllShows
      <3>3. d1 \in Tables /\ d1.stored \in Files
        BY <1>1 DEF Good, Tables
      <3>4. a = [d1 EXCEPT !.stored = [d1.stored EXCEPT !.ip = TRUE]]
        BY <3>3 DEF Tables
      <3>5. /\ a \in Tables
            /\ a.shown = d1.shown /\ a.entities = d1.entities /\ a.inService = d1.inService
            /\ a.stored.states = d1.stored.states /\ a.stored.ip
            /\ a.stored.buses = d1.stored.buses /\ a.buses = d1.buses
            /\ a.stored.battery = d1.stored.battery /\ a.battery = d1.battery
        BY <3>3, <3>4 DEF Tables, Files
      <3> HIDE DEF a, initial, new
      <3>6. d1.entities \cup DOMAIN initial \subseteq Due(a.stored)
        <4>1. d1.entities \subseteq Due(d1.stored)
          BY <1>1 DEF Good, Kept
        <4> QED
          BY <3>2, <3>5, <4>1 DEF Due
      <3>7. a.stored.battery = a.battery /\ a.stored.buses = a.buses
        BY <1>1, <3>5 DEF Good, Kept
      <3>8. DOMAIN initial \subseteq DOMAIN new
        BY <3>2
      <3>9. Changed(d1, d, new) /\ Good(d) /\ d.inService = a.inService
        <4>1. /\ a \in Tables /\ a.shown = d1.shown /\ a.entities = d1.entities
              /\ a.stored.states = d1.stored.states
          BY <3>5
        <4>2. initial \in Shows /\ new \in Shows
          BY <3>2
        <4> QED
          BY <1>1, <3>6, <3>7, <3>8, <4>1, <4>2, AddedGood
      <3> HIDE DEF d, d2
      <3>10. Elsewhere(d1, d, {e2}) /\ d.shown[e2] = "value"
        BY <3>2, <3>9, ChangedElsewhere DEF Changed, Overlaid
      <3> QED
        BY <3>1, <3>5, <3>9, <3>10
    <2> QED
      BY <2>1, <2>2
  <1>3. ParseLanInfo(b, ok) = d2
    BY DEF ParseLanInfo, d1
  <1> HIDE DEF d2, new
  <1>4. Elsewhere(b, d2, told)
    <2> HIDE DEF told, e1, e2
    <2>1. Elsewhere(b, d1, told) /\ Elsewhere(d1, d2, told)
      BY <1>0, <1>1, <1>2, ElsewhereMore
    <2> QED
      BY <2>1, ElsewhereThen
  <1>5. d2.shown[e1] = OnOff(ok)
    BY <1>0, <1>1, <1>2 DEF Elsewhere
  <1> QED
    BY <1>1, <1>2, <1>3, <1>4, <1>5

\* The two codes of a device's state, on and off, are read as they are meant.
LEMMA EventState ==
    ASSUME NEW number \in 0..239, NEW byte2, NEW on \in BOOLEAN
    PROVE  DeviceState(EventPacket(number, byte2, on).byte3, number) = OnOff(on)
  <1> DEFINE code == ((4 * number + 104) % 256)
  <1>1. number \in DeviceNumbers
    BY DEF DeviceNumbers, Byte
  <1>2. DeviceState(code + 0, number) = "on" /\ DeviceState(code + 0 + 2, number) = "off"
    BY <1>1, DeviceStateDecodes
  <1>3. code \in Nat
    OBVIOUS
  <1>4. EventPacket(number, byte2, on).byte3 = code + (IF on THEN 0 ELSE 2)
    BY DEF EventPacket
  <1> HIDE DEF code
  <1>5. code + 0 + 2 = code + 2
    BY <1>3
  <1> QED
    BY <1>2, <1>4, <1>5 DEF OnOff

-----------------------------------------------------------------------------
(* What a packet other than a sections packet makes certain.               *)

\* The event of a device or the central unit, with the code of either state.
EventOf(number, byte2) ==
    \/ number \in Devices /\ byte2 \in {HeartbeatEvent, 51, ActivityEvent} \cup FaultEvents
    \/ number = Lan /\ byte2 = ActivityEvent
    \/ number \in WithBattery /\ byte2 = 20

\* The events that a panel can have sent.
IsEvent(p) ==
    \E number \in Devices \cup WithBattery \cup {Lan}, byte2 \in Byte, on \in BOOLEAN :
       EventOf(number, byte2) /\ p = EventPacket(number, byte2, on)

\* The packets about one battery.
IsBattery(p) ==
    \E now \in PanelType, kind \in {"info", "status"}, d \in Devices :
       p = BatteryPacket(now, kind, d)

\* The packets of the central unit.
IsCentral(p) ==
    \E now \in PanelType, buses \in SUBSET Buses : p = CentralPacket(now, buses)

\* What a packet other than a sections packet says of the entities it tells.
Says(p, e) ==
    CASE p.kind = "devices" -> OnOff(e[2] \in p.on)
      [] p.kind = "pg" -> OnOff(p.pg)
      [] p.kind = "lan" -> IF e[1] = "lan" THEN OnOff(p.ok) ELSE "value"
      [] p.kind \in {"info", "status"} -> OnOff(p.byte = 33)
      [] p.kind = "central" -> IF e[1] = "power" THEN OnOff(p.power) ELSE OnOff(p.byte = 33)
      [] p.kind = "event" ->
            IF p.number = Lan THEN OnOff(DeviceState(p.byte3, p.number) = "off")
            ELSE DeviceState(p.byte3, p.number)

\* c is b after p: good, and what p tells of is shown as p says.
Handled(b, c, p) ==
    /\ Good(c) /\ Elsewhere(b, c, Tells(p) \cup Misleads(b, p) \cup Silent)
    /\ c.inService = b.inService
    /\ \A e \in Tells(p) \ Misleads(b, p) : e \in c.entities => c.shown[e] = Says(p, e)

\* The battery of a device is an entity, and no other.
LEMMA BatteryEntity ==
    ASSUME NEW b, Good(b), NEW number, <<"battery", number>> \in b.entities
    PROVE  number \in b.battery
  <1>1. <<"battery", number>> \in Due(b.stored)
    BY DEF Good, Kept
  <1>2. <<"battery", number>> \in BatteryEntities(b.stored.battery)
    BY <1>1 DEF Due, SectionEntities, Always
  <1> QED
    BY <1>2 DEF BatteryEntities, Good, Kept

\* The codes of events, apart from one another and from heartbeats.
LEMMA EventCodes ==
    /\ \A byte2 \in {HeartbeatEvent, 51} : IsHeartbeat(byte2) /\ Fault(byte2) = "none"
    /\ ~IsHeartbeat(ActivityEvent) /\ Fault(ActivityEvent) = "none"
    /\ \A byte2 \in FaultEvents : ~IsHeartbeat(byte2) /\ Fault(byte2) \notin {"none", "battery"}
    /\ ~IsHeartbeat(20) /\ Fault(20) = "battery"
  BY DEF IsHeartbeat, Event, Fault, HeartbeatEvent, ActivityEvent, FaultEvents

\* What an event tells of, by its code and its number.
LEMMA EventTells ==
    ASSUME NEW number, NEW byte2, NEW on
    PROVE  LET p == EventPacket(number, byte2, on)
           IN  Tells(p) = IF IsHeartbeat(byte2) THEN {}
                          ELSE IF number = Lan THEN {<<"lan", 1>>}
                          ELSE IF Fault(byte2) = "battery" THEN {<<"battery", number>>}
                          ELSE IF number \in Devices /\ Fault(byte2) = "none"
                               THEN {<<"state", number>>}
                          ELSE {<<"problem", number>>}
  <1> DEFINE p == EventPacket(number, byte2, on)
  <1>1. p.kind = "event" /\ p.byte2 = byte2 /\ p.number = number
    BY DEF EventPacket
  <1> HIDE DEF p
  <1>2. Tells(p) = IF IsHeartbeat(byte2) THEN {}
          ELSE CASE number = Lan -> {<<"lan", 1>>}
              [] number # Lan /\ Fault(byte2) = "battery" -> {<<"battery", number>>}
              [] number \in Devices /\ Fault(byte2) = "none" -> {<<"state", number>>}
              [] OTHER -> {<<"problem", number>>}
    BY <1>1 DEF Tells
  <1>3. Lan \notin Devices
    <2>1. Devices \subseteq 1..230 /\ Lan \in 231..239
      BY PanelAssumption
    <2> QED
      BY <2>1
  <1> QED
    BY <1>2, <1>3 DEF p

\* What an event says, by the code of the state in its last byte.
LEMMA EventSays ==
    ASSUME NEW number \in 0..239, NEW byte2, NEW on \in BOOLEAN, NEW e
    PROVE  Says(EventPacket(number, byte2, on), e) = OnOff(IF number = Lan THEN ~on ELSE on)
  <1> DEFINE p == EventPacket(number, byte2, on)
  <1>1. p.kind = "event" /\ p.byte2 = byte2 /\ p.number = number
    BY DEF EventPacket
  <1>2. DeviceState(p.byte3, number) = OnOff(on)
    BY EventState
  <1> HIDE DEF p
  <1>3. Says(p, e) = IF number = Lan THEN OnOff(OnOff(on) = "off") ELSE OnOff(on)
    BY <1>1, <1>2 DEF Says
  <1>4. (OnOff(on) = "off") = ~on
    BY DEF OnOff
  <1> QED
    BY <1>3, <1>4 DEF p

-----------------------------------------------------------------------------
(* Events.                                                                 *)

\* Numbers of devices, of the central unit and of the LAN connection differ.
LEMMA NumbersAre ==
    /\ Devices \subseteq 1..230 /\ Lan \in 231..239 /\ Lan \notin Devices
    /\ CentralUnit = 0 /\ CentralUnit \notin Devices /\ Lan # CentralUnit
    /\ Known \subseteq Devices /\ WithBattery \subseteq Devices \cup {CentralUnit}
    /\ Buses \subseteq 1..3
  <1>1. /\ Devices \subseteq 1..230 /\ Lan \in 231..239
        /\ Known \subseteq Devices /\ WithBattery \subseteq Devices \cup {CentralUnit}
        /\ Buses \subseteq 1..3
    BY PanelAssumption
  <1>2. CentralUnit = 0
    BY DEF CentralUnit
  <1> QED
    BY <1>1, <1>2

\* An event sets one state at most: that of the sensor it speaks of, or of
\* one it is misled to.
LEMMA HandledOne ==
    ASSUME NEW b, NEW p, Good(b), NEW e \in Entities, NEW state \in States,
           Handle(b, p) = Update(b, All({e}, state)),
           e \in Tells(p) \cup Misleads(b, p),
           \A d \in Tells(p) \ Misleads(b, p) : d = e /\ Says(p, d) = state
    PROVE  Handled(b, Handle(b, p), p)
  <1> DEFINE c == Handle(b, p)
             told == Tells(p) \cup Misleads(b, p) \cup Silent
  <1>1. {e} \in SUBSET Entities /\ {e} \subseteq told
    OBVIOUS
  <1>2. /\ Good(c) /\ Elsewhere(b, c, {e}) /\ c.shown[e] = state
        /\ c.inService = b.inService
    BY <1>1, UpdateAllGood
  <1> HIDE DEF c
  <1>3. Elsewhere(b, c, told)
    <2> HIDE DEF told
    <2> QED
      BY <1>1, <1>2, ElsewhereMore
  <1> QED
    BY <1>2, <1>3 DEF Handled, c

\* A packet that changes nothing and tells of nothing is handled.
LEMMA HandledNone ==
    ASSUME NEW b, NEW p, Good(b), Handle(b, p) = b,
           \A e \in Tells(p) \ Misleads(b, p) : e \notin b.entities
    PROVE  Handled(b, Handle(b, p), p)
  BY DEF Handled, Elsewhere

\* Every event is handled: activity, faults, batteries and the LAN connection.
LEMMA EventIs ==
    ASSUME NEW b, Good(b), NEW number, NEW byte2, EventOf(number, byte2), NEW on \in BOOLEAN
    PROVE  LET p == EventPacket(number, byte2, on) IN Handled(b, Handle(b, p), p)
  <1> DEFINE p == EventPacket(number, byte2, on)
             fault == FaultSensor(b, number, byte2)
             speaks == number \in Devices /\ ~IsHeartbeat(byte2)
  <1> SUFFICES Handled(b, Handle(b, p), p)
    OBVIOUS
  <1>1. number \in Devices \cup {CentralUnit, Lan} /\ number \in 0..239
    <2>1. number \in Devices \cup {CentralUnit, Lan}
      BY NumbersAre DEF EventOf
    <2> QED
      BY <2>1, NumbersAre
  <1>2. DeviceState(p.byte3, number) = OnOff(on)
    BY <1>1, EventState
  <1>3. p.kind = "event" /\ p.number = number /\ p.byte2 = byte2
    BY DEF EventPacket
  <1>4. \A e : Says(p, e) = OnOff(IF number = Lan THEN ~on ELSE on)
    BY <1>1, EventSays
  <1>5. Tells(p) = IF IsHeartbeat(byte2) THEN {}
                   ELSE IF number = Lan THEN {<<"lan", 1>>}
                   ELSE IF Fault(byte2) = "battery" THEN {<<"battery", number>>}
                   ELSE IF number \in Devices /\ Fault(byte2) = "none"
                        THEN {<<"state", number>>}
                   ELSE {<<"problem", number>>}
    BY EventTells
  <1> HIDE DEF p
  <1>6. Misleads(b, p) = IF number \in Devices \ b.battery /\ Fault(byte2) = "battery"
                         THEN {<<"state", number>>, <<"battery", number>>} ELSE {}
    BY <1>3 DEF Misleads
  <1>7. OnOff(on) \in States /\ OnOff(~on) \in States /\ OnOff(on) # "unknown"
        /\ (OnOff(on) = "off") = ~on
    BY DEF OnOff, States
  <1>8. Handle(b, p) = ParseEvent(b, number, byte2, p.byte3)
    BY <1>3, HandleIs
  <1>9. fault = CASE Fault(byte2) = "battery" /\ number \in b.battery -> {<<"battery", number>>}
                  [] Fault(byte2) \notin {"none", "battery"} /\ number # CentralUnit -> {<<"problem", number>>}
                  [] OTHER -> {}
    BY DEF FaultSensor
  <1>10. Handle(b, p) =
          CASE number = Lan -> Update(b, All({<<"lan", 1>>}, OnOff(~on)))
            [] speaks /\ fault = {} -> Update(b, All({<<"state", number>>}, OnOff(on)))
            [] (speaks \/ number = CentralUnit) /\ fault # {} -> Update(b, All(fault, OnOff(on)))
            [] OTHER -> b
    <2> HIDE DEF fault
    <2>1. speaks <=> number \in Devices /\ OnOff(on) # "unknown" /\ ~IsHeartbeat(byte2)
      BY <1>7
    <2>2. Handle(b, p) =
            LET state == OnOff(on)
                deviceSpeaks == number \in Devices /\ state # "unknown" /\ ~IsHeartbeat(byte2)
            IN CASE number = Lan /\ state # "unknown" ->
                  Update(b, All({<<"lan", 1>>}, OnOff(state = "off")))
              [] deviceSpeaks /\ fault = {} -> Update(b, All({<<"state", number>>}, state))
              [] (deviceSpeaks \/ number = CentralUnit) /\ fault # {} -> Update(b, All(fault, state))
              [] OTHER -> b
      BY <1>2, <1>8 DEF ParseEvent, fault
    <2> QED
      BY <1>7, <2>1, <2>2
  <1> HIDE DEF fault
  <1>11. CASE number \in Devices /\ byte2 \in {HeartbeatEvent, 51}
    <2>1. number # Lan /\ number # CentralUnit /\ IsHeartbeat(byte2) /\ Fault(byte2) = "none"
      BY <1>11, NumbersAre, EventCodes
    <2>2. fault = {} /\ Handle(b, p) = b
      BY <1>9, <1>10, <2>1
    <2> QED
      BY <1>5, <2>1, <2>2, HandledNone
  <1>12. CASE number \in Devices /\ byte2 = ActivityEvent
    <2>1. number # Lan /\ number # CentralUnit /\ ~IsHeartbeat(byte2) /\ Fault(byte2) = "none"
      BY <1>12, NumbersAre, EventCodes
    <2>2. fault = {}
      BY <1>9, <2>1
    <2>3. Handle(b, p) = Update(b, All({<<"state", number>>}, OnOff(on)))
      BY <1>10, <1>12, <2>1, <2>2
    <2>4. <<"state", number>> \in Entities
      BY <1>12 DEF Entities
    <2> QED
      BY <1>4, <1>5, <1>6, <1>7, <1>12, <2>1, <2>3, <2>4, HandledOne
  <1>13. CASE number \in Devices /\ byte2 \in FaultEvents
    <2>1. /\ number # Lan /\ number # CentralUnit /\ ~IsHeartbeat(byte2)
          /\ Fault(byte2) \notin {"none", "battery"}
      BY <1>13, NumbersAre, EventCodes
    <2>2. fault = {<<"problem", number>>}
      BY <1>9, <2>1
    <2>3. Handle(b, p) = Update(b, All({<<"problem", number>>}, OnOff(on)))
      BY <1>10, <1>13, <2>1, <2>2
    <2>4. <<"problem", number>> \in Entities
      BY <1>13 DEF Entities
    <2> QED
      BY <1>4, <1>5, <1>6, <1>7, <1>13, <2>1, <2>3, <2>4, HandledOne
  <1>14. CASE number = Lan /\ byte2 = ActivityEvent
    <2>1. number \notin Devices /\ ~IsHeartbeat(byte2) /\ Fault(byte2) = "none"
      BY <1>14, NumbersAre, EventCodes
    <2>2. Handle(b, p) = Update(b, All({<<"lan", 1>>}, OnOff(~on)))
      BY <1>10, <1>14, <2>1, NumbersAre
    <2>3. <<"lan", 1>> \in Entities
      BY DEF Entities
    <2> QED
      BY <1>4, <1>5, <1>6, <1>7, <1>14, <2>1, <2>2, <2>3, HandledOne
  <1>15. CASE number \in WithBattery /\ byte2 = 20
    <2>1. /\ number # Lan /\ ~IsHeartbeat(byte2) /\ Fault(byte2) = "battery"
          /\ number \in Devices \cup {CentralUnit}
      BY <1>15, NumbersAre, EventCodes
    <2>2. Tells(p) = {<<"battery", number>>}
      BY <1>5, <2>1
    <2>3. CASE number \in b.battery
      <3>1. fault = {<<"battery", number>>}
        BY <1>9, <2>1, <2>3
      <3>2. Handle(b, p) = Update(b, All({<<"battery", number>>}, OnOff(on)))
        BY <1>10, <2>1, <3>1
      <3>3. <<"battery", number>> \in Entities
        BY <2>1 DEF Entities
      <3>4. Misleads(b, p) = {}
        BY <1>6, <2>3
      <3> QED
        BY <1>4, <1>7, <2>1, <2>2, <3>2, <3>3, <3>4, HandledOne
    <2>4. CASE number \in Devices \ b.battery
      <3>1. fault = {}
        BY <1>9, <2>1, <2>4
      <3>2. Handle(b, p) = Update(b, All({<<"state", number>>}, OnOff(on)))
        BY <1>10, <2>1, <2>4, <3>1
      <3>3. <<"state", number>> \in Entities
        BY <2>4 DEF Entities
      <3>4. Misleads(b, p) = {<<"state", number>>, <<"battery", number>>}
        BY <1>6, <2>1, <2>4
      <3> QED
        BY <1>7, <2>2, <3>2, <3>3, <3>4, HandledOne
    <2>5. CASE number = CentralUnit /\ number \notin b.battery
      <3>1. fault = {} /\ number \notin Devices
        BY <1>9, <2>1, <2>5, NumbersAre
      <3>2. Handle(b, p) = b
        BY <1>10, <2>1, <3>1
      <3>3. <<"battery", number>> \notin b.entities
        BY <2>5, BatteryEntity
      <3> QED
        BY <2>2, <3>2, <3>3, HandledNone
    <2> QED
      BY <2>1, <2>3, <2>4, <2>5
  <1> QED
    BY <1>11, <1>12, <1>13, <1>14, <1>15 DEF EventOf

-----------------------------------------------------------------------------
(* Batteries, lists of states and the central unit.                        *)

\* The byte of a battery says whether there is one, and whether it is low.
LEMMA BatteryByteIs ==
    ASSUME NEW now \in PanelType, NEW number
    PROVE  /\ HasBatteryLevel(BatteryByte(now, number)) <=> number \in WithBattery
           /\ number \in WithBattery =>
                 BatteryIs(Battery(BatteryByte(now, number))) = OnOff(BatteryByte(now, number) = 33)
  <1>1. /\ ~HasBatteryLevel(15) /\ HasBatteryLevel(33) /\ HasBatteryLevel(8)
        /\ Battery(33).ok = FALSE /\ Battery(8).ok = TRUE
    <2>1. ~HasBatteryLevel(15) /\ HasBatteryLevel(33) /\ HasBatteryLevel(8)
      BY DEF HasBatteryLevel
    <2>2. Bit(33, 32) /\ ~Bit(8, 32) /\ ~Bit(8, 16)
      BY DEF Bit
    <2> QED
      BY <2>1, <2>2 DEF Battery
  <1>2. BatteryIs(Battery(33)) = "on" /\ BatteryIs(Battery(8)) = "off"
    BY <1>1 DEF BatteryIs, OnOff
  <1> QED
    BY <1>1, <1>2 DEF BatteryByte, OnOff

\* A battery that does not raise is of a detected device, or the central unit.
LEMMA BatteryKnown ==
    ASSUME NEW b, Good(b), NEW number, <<"battery", number>> \in b.entities
    PROVE  number \in WithBattery /\ number \in Known \cup {CentralUnit}
  <1>1. number \in b.battery
    BY BatteryEntity
  <1>2. b.battery \subseteq WithBattery \cap (Known \cup {CentralUnit})
    BY DEF Good, Tables
  <1> QED
    BY <1>1, <1>2

\* Lists of states: PG outputs, devices, and the LAN connection.
LEMMA ListsAre ==
    ASSUME NEW b, Good(b), NEW p,
           \/ \E on \in SUBSET Devices : p = [kind |-> "devices", on |-> on]
           \/ \E pg \in BOOLEAN : p = [kind |-> "pg", pg |-> pg]
           \/ \E ok \in BOOLEAN : p = [kind |-> "lan", ok |-> ok]
    PROVE  Handled(b, Handle(b, p), p)
  <1> DEFINE c == Handle(b, p)
             told == Tells(p) \cup Misleads(b, p) \cup Silent
  <1>1. CASE \E on \in SUBSET Devices : p = [kind |-> "devices", on |-> on]
    <2> DEFINE new == [e \in {"state"} \X Devices |-> OnOff(e[2] \in p.on)]
    <2>1. p.kind = "devices"
      BY <1>1
    <2>2. Tells(p) = {"state"} \X Devices /\ Misleads(b, p) = {}
      BY <2>1 DEF Tells, Misleads
    <2>3. new \in Shows /\ DOMAIN new = Tells(p) /\ \A e \in Tells(p) : new[e] = OnOff(e[2] \in p.on)
      <3>1. {"state"} \X Devices \subseteq Entities
        BY DEF Entities
      <3>2. \A e \in {"state"} \X Devices : OnOff(e[2] \in p.on) \in States
        BY OnOffState
      <3> QED
        BY <2>2, <3>1, <3>2, ShowsIs
    <2>4. \A e : Says(p, e) = OnOff(e[2] \in p.on)
      BY <2>1 DEF Says
    <2>5. c = Update(b, new)
      BY <2>1, HandleIs DEF ParseDevices
    <2> HIDE DEF new
    <2>6. /\ Good(c) /\ Elsewhere(b, c, DOMAIN new) /\ c.inService = b.inService
          /\ \A e \in DOMAIN new : c.shown[e] = new[e]
      BY <2>3, <2>5, UpdateIsGood
    <2> HIDE DEF c
    <2>7. Elsewhere(b, c, Tells(p) \cup Misleads(b, p) \cup Silent)
      BY <2>3, <2>6, ElsewhereMore
    <2> QED
      BY <2>3, <2>4, <2>6, <2>7 DEF Handled, c
  <1>2. CASE \E pg \in BOOLEAN : p = [kind |-> "pg", pg |-> pg]
    <2>1. p.kind = "pg" /\ <<"pg", 1>> \in Entities
      BY <1>2 DEF Entities
    <2>2. Tells(p) = {<<"pg", 1>>} /\ \A e : Says(p, e) = OnOff(p.pg)
      BY <2>1 DEF Tells, Says
    <2>3. c = Update(b, All({<<"pg", 1>>}, OnOff(p.pg)))
      BY <2>1, HandleIs DEF ParsePg
    <2> QED
      BY <2>1, <2>2, <2>3, OnOffState, HandledOne
  <1>3. CASE \E ok \in BOOLEAN : p = [kind |-> "lan", ok |-> ok]
    <2>1. p.kind = "lan" /\ p.ok \in BOOLEAN
      BY <1>3
    <2>2. Tells(p) = {"lan", "lan_ip"} \X {1}
      BY <2>1 DEF Tells
    <2>3. /\ Says(p, <<"lan", 1>>) = OnOff(p.ok) /\ Says(p, <<"lan_ip", 1>>) = "value"
      BY <2>1 DEF Says
    <2>4. /\ Good(c) /\ Elsewhere(b, c, Tells(p)) /\ c.inService = b.inService
          /\ c.shown[<<"lan", 1>>] = OnOff(p.ok) /\ c.shown[<<"lan_ip", 1>>] = "value"
      BY <2>1, <2>2, HandleIs, ParseLanInfoIs
    <2> HIDE DEF c
    <2>5. Elsewhere(b, c, Tells(p) \cup Misleads(b, p) \cup Silent)
      BY <2>4, ElsewhereMore
    <2>6. \A e \in Tells(p) : e = <<"lan", 1>> \/ e = <<"lan_ip", 1>>
      BY <2>2
    <2> QED
      BY <2>3, <2>4, <2>5, <2>6 DEF Handled, c
  <1> QED
    BY <1>1, <1>2, <1>3

\* Every info and status packet that does not raise is handled.
LEMMA BatteryIsHandled ==
    ASSUME NEW b, Good(b), NEW p, IsBattery(p), ~Raises(b, p)
    PROVE  Handled(b, Handle(b, p), p)
  <1>1. PICK now \in PanelType, kind \in {"info", "status"}, d \in Devices :
           p = BatteryPacket(now, kind, d)
    BY DEF IsBattery
  <1> DEFINE c == Handle(b, p)
             e == <<"battery", d>>
             byte == BatteryByte(now, d)
  <1>2. p.kind = kind /\ p.number = d /\ p.byte = byte
    BY <1>1 DEF BatteryPacket
  <1>3. /\ HasBatteryLevel(byte) <=> d \in WithBattery
        /\ d \in WithBattery => BatteryIs(Battery(byte)) = OnOff(byte = 33)
    BY BatteryByteIs
  <1> HIDE DEF byte
  <1>4. Tells(p) = {e} /\ Misleads(b, p) = {} /\ Says(p, e) = OnOff(byte = 33)
    BY <1>2 DEF Tells, Misleads, Says
  <1>5. kind = "info" => c = ParseInfo(b, d, byte)
    BY <1>2, HandleIs
  <1>6. kind = "status" => c = ParseStatus(b, d, byte)
    BY <1>2, HandleIs
  <1>7. HasBatteryLevel(byte) \/ kind = "status" => d \in Known
    BY <1>2 DEF Raises
  <1> HIDE DEF c
  <1>8. /\ Good(c) /\ Elsewhere(b, c, {e} \cup Silent) /\ c.inService = b.inService
        /\ HasBatteryLevel(byte) => c.shown[e] = BatteryIs(Battery(byte))
        /\ ~HasBatteryLevel(byte) => c = b
    <2>1. CASE kind = "info"
      BY <1>3, <1>5, <1>7, <2>1, ParseInfoIs
    <2>2. CASE kind = "status"
      <3>1. /\ Good(c) /\ Elsewhere(b, c, {e}) /\ c.inService = b.inService
            /\ HasBatteryLevel(byte) => c.shown[e] = BatteryIs(Battery(byte))
            /\ ~HasBatteryLevel(byte) => c = b
        BY <1>3, <1>6, <1>7, <2>2, ParseStatusIs
      <3>2. Elsewhere(b, c, {e} \cup Silent)
        BY <3>1, ElsewhereMore
      <3> QED
        BY <3>1, <3>2
    <2> QED
      BY <2>1, <2>2
  <1>9. e \in c.entities => c.shown[e] = OnOff(byte = 33)
    <2>1. CASE HasBatteryLevel(byte)
      BY <1>3, <1>8, <2>1
    <2>2. CASE ~HasBatteryLevel(byte)
      BY <1>3, <1>8, <2>2, BatteryKnown
    <2> QED
      BY <2>1, <2>2
  <1>10. Elsewhere(b, c, Tells(p) \cup Misleads(b, p) \cup Silent)
    BY <1>4, <1>8
  <1> QED
    BY <1>4, <1>8, <1>9, <1>10 DEF Handled, c

\* Every packet of the central unit is handled.
LEMMA CentralIsHandled ==
    ASSUME NEW b, Good(b), NEW p, IsCentral(p)
    PROVE  Handled(b, Handle(b, p), p)
  <1>1. PICK now \in PanelType, buses \in SUBSET Buses : p = CentralPacket(now, buses)
    BY DEF IsCentral
  <1> DEFINE c == Handle(b, p)
             e1 == <<"power", 1>>
             e2 == <<"battery", CentralUnit>>
             byte == BatteryByte(now, CentralUnit)
  <1>2. p.kind = "central" /\ p.power = now.power /\ p.byte = byte /\ p.buses = buses
        /\ now.power \in BOOLEAN
    BY <1>1 DEF CentralPacket, PanelType
  <1>3. /\ HasBatteryLevel(byte) <=> CentralUnit \in WithBattery
        /\ CentralUnit \in WithBattery => BatteryIs(Battery(byte)) = OnOff(byte = 33)
    BY BatteryByteIs
  <1> HIDE DEF byte
  <1>4. /\ Tells(p) = {e1, e2} /\ Misleads(b, p) = {}
        /\ Says(p, e1) = OnOff(now.power) /\ Says(p, e2) = OnOff(byte = 33)
    <2>1. Tells(p) = {e1, e2} /\ Misleads(b, p) = {}
      BY <1>2 DEF Tells, Misleads
    <2>2. \A e : Says(p, e) = IF e[1] = "power" THEN OnOff(p.power) ELSE OnOff(p.byte = 33)
      BY <1>2 DEF Says
    <2> QED
      BY <1>2, <2>1, <2>2
  <1>5. c = ParseCentralUnit(b, now.power, byte, buses)
    BY <1>2, HandleIs
  <1>6. /\ Good(c) /\ Elsewhere(b, c, {e1, e2} \cup Silent) /\ c.inService = b.inService
        /\ c.shown[e1] = OnOff(now.power)
        /\ HasBatteryLevel(byte) => c.shown[e2] = BatteryIs(Battery(byte))
    BY <1>2, <1>3, <1>5, ParseCentralUnitIs
  <1> HIDE DEF c
  <1>7. e2 \in c.entities => c.shown[e2] = OnOff(byte = 33)
    BY <1>3, <1>6, BatteryKnown
  <1>8. Elsewhere(b, c, Tells(p) \cup Misleads(b, p) \cup Silent)
    BY <1>4, <1>6
  <1> QED
    BY <1>4, <1>6, <1>7, <1>8 DEF Handled, c

-----------------------------------------------------------------------------
(* A start: initialize, one method after another.                          *)

\* What a start shows of an entity of which nothing was stored: of a
\* section's, what the panel says.
First(e, pairs) ==
    IF e[1] \in SectionKinds THEN SectionEntityState(e, pairs[e[2]]) ELSE Initially(e)

\* No section says anything of an entity that is not of one.
LEMMA FirstIs ==
    ASSUME NEW e, NEW pairs
    PROVE  e[1] \notin SectionKinds \/ Stored(e) => First(e, pairs) = Initially(e)
  BY DEF First, Stored, SectionKinds

\* The tables while a start fills them.
Starting(b, pairs) ==
    /\ b \in Tables
    /\ b.entities \subseteq DOMAIN b.shown /\ b.entities \subseteq Due(b.stored)
    /\ b.stored.battery = b.battery /\ b.stored.buses = b.buses
    /\ \A e \in DOMAIN b.stored.states :
          Stored(e) /\ e \in DOMAIN b.shown /\ b.shown[e] = b.stored.states[e]
    /\ \A e \in DOMAIN b.shown \ DOMAIN b.stored.states :
          b.shown[e] = First(e, pairs)

\* c is b with more entities.
Further(b, c, more, pairs) ==
    /\ Starting(c, pairs) /\ c.entities = b.entities \cup more
    /\ c.stored = b.stored /\ c.inService = b.inService

\* Entities added in two steps.
LEMMA FurtherThen ==
    ASSUME NEW b, NEW c, NEW d, NEW more, NEW others, NEW pairs, Further(b, c, more, pairs), Further(c, d, others, pairs)
    PROVE  Further(b, d, more \cup others, pairs)
  BY DEF Further

\* _add_entity of entities with their first states, where none was loaded.
LEMMA StartAdds ==
    ASSUME NEW b, NEW pairs, Starting(b, pairs), NEW initial \in Shows, DOMAIN initial \subseteq Due(b.stored),
           \A e \in DOMAIN initial : initial[e] = First(e, pairs)
    PROVE  Further(b, AddEntities(b, initial), DOMAIN initial, pairs)
  <1> DEFINE c == AddEntities(b, initial)
  <1>1. b \in Tables /\ b.shown \in Shows
    BY DEF Starting, Tables
  <1>2. /\ c \in Tables
        /\ c.shown = Over(initial, b.shown)
        /\ c.entities = b.entities \cup DOMAIN initial
        /\ c.stored = b.stored
        /\ c.battery = b.battery /\ c.buses = b.buses /\ c.inService = b.inService
    BY <1>1, AddEntitiesIs
  <1> HIDE DEF c
  <1>3. Overlaid(c.shown, initial, b.shown)
    BY <1>1, <1>2, OverShows
  <1>4. Starting(c, pairs)
    BY <1>2, <1>3 DEF Starting, Overlaid
  <1> QED
    BY <1>2, <1>4 DEF Further, c

\* The announcement at the end of a start makes its tables good.
LEMMA StartAnnounces ==
    ASSUME NEW b, NEW pairs, Starting(b, pairs)
    PROVE  /\ Further(b, Announce(b), {}, pairs)
           /\ Always \subseteq b.entities => Good(Announce(b))
  <1> DEFINE c == Announce(b)
  <1>1. /\ c \in Tables /\ c.announced = b.entities
        /\ c.shown = b.shown /\ c.entities = b.entities /\ c.stored = b.stored
        /\ c.battery = b.battery /\ c.buses = b.buses /\ c.inService = b.inService
    BY AnnounceIs DEF Starting
  <1> HIDE DEF c
  <1>2. Starting(c, pairs)
    BY <1>1 DEF Starting
  <1>3. Always \subseteq c.entities => Good(c)
    BY <1>1, <1>2, FirstIs DEF Starting, Good, Kept
  <1> QED
    BY <1>1, <1>2, <1>3 DEF Further, c

\* A state of the PG outputs that came with the first sections packet.
LEMMA StartUpdatesPg ==
    ASSUME NEW b, NEW pairs, Starting(b, pairs), NEW on \in BOOLEAN
    PROVE  LET c == ParsePg(b, on)
           IN  /\ Starting(c, pairs) /\ c.entities = b.entities /\ c.inService = b.inService
               /\ c.stored.battery = b.stored.battery /\ c.stored.buses = b.stored.buses
               /\ c.stored.ip = b.stored.ip
  <1> DEFINE new == All({<<"pg", 1>>}, OnOff(on))
             c == Update(b, new)
  <1>1. b \in Tables /\ b.shown \in Shows /\ b.stored.states \in Shows
    BY DEF Starting, Tables, Files
  <1>2. new \in Shows /\ DOMAIN new = {<<"pg", 1>>}
    <2>1. {<<"pg", 1>>} \subseteq Entities /\ OnOff(on) \in States
      BY OnOffState DEF Entities
    <2> QED
      BY <2>1, AllShows
  <1> HIDE DEF new
  <1>3. Stored(<<"pg", 1>>)
    BY DEF Stored
  <1>4. /\ DOMAIN Storable(new) = DOMAIN new /\ Storable(new) \in Shows
        /\ \A e \in DOMAIN new : Stored(e) /\ Storable(new)[e] = new[e]
    BY <1>2, <1>3, StorableShows
  <1>5. /\ c \in Tables /\ c.shown = Over(b.shown, new)
        /\ c.stored.states = Over(b.stored.states, Storable(new))
        /\ c.entities = b.entities /\ c.battery = b.battery /\ c.buses = b.buses
        /\ c.inService = b.inService
        /\ c.stored.battery = b.stored.battery /\ c.stored.buses = b.stored.buses
        /\ c.stored.ip = b.stored.ip
    BY <1>1, <1>2, UpdateIs
  <1> HIDE DEF c
  <1>6. /\ Overlaid(c.shown, b.shown, new)
        /\ Overlaid(c.stored.states, b.stored.states, Storable(new))
    BY <1>1, <1>2, <1>4, <1>5, OverShows
  <1>7. Starting(c, pairs)
    <2>1. c.entities \subseteq Due(c.stored)
      BY <1>5 DEF Starting, Due
    <2>2. \A e \in DOMAIN c.stored.states :
             Stored(e) /\ e \in DOMAIN c.shown /\ c.shown[e] = c.stored.states[e]
      BY <1>4, <1>6 DEF Starting, Overlaid
    <2>3. \A e \in DOMAIN c.shown \ DOMAIN c.stored.states : c.shown[e] = First(e, pairs)
      BY <1>4, <1>6 DEF Starting, Overlaid
    <2> QED
      BY <1>5, <1>6, <2>1, <2>2, <2>3 DEF Starting, Overlaid
  <1> QED
    BY <1>5, <1>7 DEF ParsePg, c, new

\* The same with one state for all.
LEMMA StartAddsAll ==
    ASSUME NEW b, NEW pairs, Starting(b, pairs), NEW es \in SUBSET Entities, NEW state \in States,
           es \subseteq Due(b.stored), \A e \in es : state = First(e, pairs)
    PROVE  Further(b, AddEntities(b, All(es, state)), es, pairs)
  <1> DEFINE new == All(es, state)
  <1>1. new \in Shows /\ DOMAIN new = es /\ \A e \in es : new[e] = state
    BY AllShows
  <1> HIDE DEF new
  <1>2. Further(b, AddEntities(b, new), DOMAIN new, pairs)
    BY <1>1, StartAdds
  <1> QED
    BY <1>1, <1>2 DEF new

\* The same for batteries that were loaded.
LEMMA StartAddsBatteries ==
    ASSUME NEW b, NEW pairs, Starting(b, pairs), NEW numbers \in SUBSET b.stored.battery, NEW state \in States,
           \A n \in numbers : state = Initially(<<"battery", n>>)
    PROVE  Further(b, AddEntities(b, BatteryStates(numbers, state, "none")), BatteryEntities(numbers), pairs)
  <1> DEFINE new == BatteryStates(numbers, state, "none")
  <1>1. numbers \in SUBSET (Devices \cup {CentralUnit})
    <2>1. b.stored.battery \subseteq WithBattery
      BY DEF Starting, Tables, Files
    <2> QED
      BY <2>1, NumbersAre
  <1>2. "none" \in States
    BY DEF States
  <1>3. /\ new \in Shows /\ DOMAIN new = BatteryEntities(numbers)
        /\ \A e \in BatteryEntities(numbers) : new[e] = IF e[1] = "battery" THEN state ELSE "none"
    <2>1. new \in Shows /\ DOMAIN new = BatteryEntities(numbers)
      BY <1>1, <1>2, BatteryStatesIs
    <2>2. \A e \in BatteryEntities(numbers) : new[e] = IF e[1] = "battery" THEN state ELSE "none"
      BY DEF BatteryStates
    <2> QED
      BY <2>1, <2>2
  <1>4. BatteryEntities(numbers) \subseteq Due(b.stored)
    BY DEF BatteryEntities, Due
  <1>5. ASSUME NEW e \in BatteryEntities(numbers)
        PROVE  new[e] = First(e, pairs)
    <2>1. CASE e \in {"battery"} \X numbers
      <3>1. PICK n \in numbers : e = <<"battery", n>>
        BY <2>1
      <3> HIDE DEF new
      <3>2. new[e] = state /\ e[1] \notin SectionKinds
        BY <1>3, <1>5, <3>1 DEF SectionKinds
      <3> QED
        BY <3>1, <3>2, FirstIs
    <2>2. CASE e \in {"voltage"} \X numbers
      <3>1. e[1] = "voltage"
        BY <2>2
      <3> HIDE DEF new
      <3> QED
        BY <1>3, <1>5, <3>1, FirstIs DEF Initially, SectionKinds
    <2> QED
      BY <2>1, <2>2 DEF BatteryEntities
  <1> HIDE DEF new
  <1>6. Further(b, AddEntities(b, new), DOMAIN new, pairs)
    BY <1>3, <1>4, <1>5, StartAdds
  <1> QED
    BY <1>3, <1>6 DEF new

\* A file that a bridge can have written.
AsStored(file) == file \in Files /\ \A e \in DOMAIN file.states : Stored(e)

\* The entities of a start, part by part.
LEMMA DueParts ==
    ASSUME NEW file
    PROVE  /\ {"problem", "state"} \X Devices \subseteq Due(file)
           /\ \A kind \in {"pg", "lan", "power"} : <<kind, 1>> \in Due(file)
           /\ {"bus"} \X file.buses \subseteq Due(file)
           /\ file.ip => <<"lan_ip", 1>> \in Due(file)
           /\ SectionEntities(Sections) \subseteq Due(file)
  BY DEF Due, Always

\* What was loaded, before any entity is created.
LEMMA LoadedIs ==
    ASSUME NEW file, NEW pairs, AsStored(file)
    PROVE  /\ Starting(Loaded(file), pairs) /\ Loaded(file).entities = {}
           /\ Loaded(file).stored = file /\ Loaded(file).inService = FALSE
  <1> DEFINE b == Loaded(file)
  <1>1. /\ b \in Tables /\ b.shown = file.states /\ b.entities = {} /\ b.stored = file
        /\ b.battery = file.battery /\ b.buses = file.buses /\ b.inService = FALSE
    BY DEF AsStored, Loaded, Tables, Files
  <1> HIDE DEF b
  <1>2. Starting(b, pairs)
    BY <1>1 DEF Starting, AsStored
  <1> QED
    BY <1>1, <1>2 DEF b

\* Devices and their batteries are created.
LEMMA CreateDevicesIs ==
    ASSUME NEW b, NEW pairs, Starting(b, pairs)
    PROVE  Further(b, CreateDevices(b),
                   ({"problem", "state"} \X Devices) \cup BatteryEntities(b.battery \cap Devices), pairs)
  <1> DEFINE es == {"problem", "state"} \X Devices
             numbers == b.battery \cap Devices
             c == AddEntities(b, All(es, "off"))
             d == AddEntities(c, BatteryStates(numbers, "off", "none"))
  <1>1. es \in SUBSET Entities /\ "off" \in States /\ es \subseteq Due(b.stored)
    BY DueParts DEF Entities, States
  <1>2. \A e \in es : "off" = First(e, pairs)
    BY FirstIs DEF Initially, SectionKinds
  <1>3. CreateDevices(b) = d
    BY DEF CreateDevices
  <1>4. Further(b, c, es, pairs)
    BY <1>1, <1>2, StartAddsAll
  <1> HIDE DEF c
  <1>5. Starting(c, pairs) /\ c.stored = b.stored
    BY <1>4 DEF Further
  <1>6. numbers \in SUBSET c.stored.battery
    BY <1>5 DEF Starting
  <1>7. \A n \in numbers : "off" = Initially(<<"battery", n>>)
    BY NumbersAre DEF Initially
  <1> HIDE DEF numbers
  <1>8. Further(c, d, BatteryEntities(numbers), pairs)
    BY <1>1, <1>5, <1>6, <1>7, StartAddsBatteries
  <1> HIDE DEF d, es
  <1>9. Further(b, d, es \cup BatteryEntities(numbers), pairs)
    BY <1>4, <1>8, FurtherThen
  <1> QED
    BY <1>3, <1>9 DEF es, numbers

\* The sensors of the central unit are created.
LEMMA CreateCentralUnitIs ==
    ASSUME NEW b, NEW pairs, Starting(b, pairs)
    PROVE  Further(b, CreateCentralUnitSensors(b),
                   ({"power", "lan"} \X {1}) \cup BatteryEntities(b.battery \cap {CentralUnit})
                     \cup ({"bus"} \X b.buses) \cup (IF b.stored.ip THEN {<<"lan_ip", 1>>} ELSE {}), pairs)
  <1> DEFINE numbers == b.battery \cap {CentralUnit}
             buses == {"bus"} \X b.buses
             ip == IF b.stored.ip THEN {<<"lan_ip", 1>>} ELSE {}
             c == AddEntities(b, All({<<"power", 1>>}, "off"))
             d == AddEntities(c, BatteryStates(numbers, "none", "none"))
             f == AddEntities(d, All(buses, "none"))
             g == AddEntities(f, All({<<"lan", 1>>}, "on"))
             h == IF b.stored.ip THEN AddEntities(g, All({<<"lan_ip", 1>>}, "none")) ELSE g
  <1>1. /\ {<<"power", 1>>} \in SUBSET Entities /\ {<<"lan", 1>>} \in SUBSET Entities
        /\ {<<"lan_ip", 1>>} \in SUBSET Entities
        /\ "off" \in States /\ "none" \in States /\ "on" \in States
    BY DEF Entities, States
  <1>2. buses \in SUBSET Entities
    BY DEF Starting, Tables, Entities
  <1>3. /\ {<<"power", 1>>} \subseteq Due(b.stored) /\ {<<"lan", 1>>} \subseteq Due(b.stored)
        /\ buses \subseteq Due(b.stored)
        /\ b.stored.ip => {<<"lan_ip", 1>>} \subseteq Due(b.stored)
    BY DueParts DEF Starting
  <1>4. /\ \A e \in {<<"power", 1>>} : "off" = First(e, pairs)
        /\ \A e \in {<<"lan", 1>>} : "on" = First(e, pairs)
        /\ \A e \in {<<"lan_ip", 1>>} : "none" = First(e, pairs)
        /\ \A e \in buses : "none" = First(e, pairs)
        /\ \A n \in numbers : "none" = Initially(<<"battery", n>>)
    BY FirstIs DEF Initially, SectionKinds
  <1>5. Further(b, c, {<<"power", 1>>}, pairs)
    BY <1>1, <1>3, <1>4, StartAddsAll
  <1> HIDE DEF c
  <1>6. Starting(c, pairs) /\ c.stored = b.stored /\ numbers \in SUBSET c.stored.battery
    BY <1>5 DEF Further, Starting
  <1> HIDE DEF numbers, buses
  <1>7. Further(c, d, BatteryEntities(numbers), pairs)
    BY <1>1, <1>4, <1>6, StartAddsBatteries
  <1> HIDE DEF d
  <1>8. Starting(d, pairs) /\ d.stored = b.stored
    BY <1>6, <1>7 DEF Further
  <1>9. Further(d, f, buses, pairs)
    BY <1>1, <1>2, <1>3, <1>4, <1>8, StartAddsAll
  <1> HIDE DEF f
  <1>10. Starting(f, pairs) /\ f.stored = b.stored
    BY <1>8, <1>9 DEF Further
  <1>11. Further(f, g, {<<"lan", 1>>}, pairs)
    BY <1>1, <1>3, <1>4, <1>10, StartAddsAll
  <1> HIDE DEF g
  <1>12. Starting(g, pairs) /\ g.stored = b.stored
    BY <1>10, <1>11 DEF Further
  <1>13. Further(g, h, ip, pairs)
    <2>1. CASE b.stored.ip
      <3>1. h = AddEntities(g, All({<<"lan_ip", 1>>}, "none")) /\ ip = {<<"lan_ip", 1>>}
        BY <2>1
      <3>2. Further(g, AddEntities(g, All({<<"lan_ip", 1>>}, "none")), {<<"lan_ip", 1>>}, pairs)
        BY <1>1, <1>3, <1>4, <1>12, <2>1, StartAddsAll
      <3> QED
        BY <3>1, <3>2
    <2>2. CASE ~b.stored.ip
      BY <1>12, <2>2 DEF Further
    <2> QED
      BY <2>1, <2>2
  <1>14. CreateCentralUnitSensors(b) = h
    BY DEF CreateCentralUnitSensors, c, d, f, g, numbers, buses
  <1> HIDE DEF h, ip
  <1>15. Further(b, h, {<<"power", 1>>} \cup BatteryEntities(numbers) \cup buses
                         \cup {<<"lan", 1>>} \cup ip, pairs)
    BY <1>5, <1>7, <1>9, <1>11, <1>13 DEF Further
  <1>16. {<<"power", 1>>} \cup {<<"lan", 1>>} = {"power", "lan"} \X {1}
    OBVIOUS
  <1>17. Further(b, h, ({"power", "lan"} \X {1}) \cup BatteryEntities(numbers) \cup buses \cup ip, pairs)
    BY <1>15, <1>16 DEF Further
  <1> QED
    BY <1>14, <1>17 DEF numbers, buses, ip

\* A start: every entity that the file, the devices and the sections in use
\* give rise to, announced, with the states of the file where it has some.
Restored(c, file, now, n, withPg) ==
    /\ Good(c) /\ c.inService = FALSE
    /\ c.entities = (Due(file) \ SectionEntities(Sections)) \cup SectionEntities(1..n)
    /\ ~withPg => c.stored = file
    /\ \A e \in c.entities \ DOMAIN c.stored.states :
          c.shown[e] = First(e, AllSections(now).pairs)

\* initialize restores the file, whatever it finds the sections to be.
LEMMA StartedIs ==
    ASSUME NEW file, AsStored(file), NEW now \in PanelType, NEW n \in Sections,
           UsedNow(now) = 1..n, NEW withPg \in BOOLEAN
    PROVE  Restored(Started(file, now, withPg), file, now, n, withPg)
  <1> DEFINE pairs == AllSections(now).pairs
             states == SectionsSay(pairs, 1..UsedSections(pairs))
             b0 == Loaded(file)
             b1 == CreateDevices(b0)
             b2 == CreateSections(b1, states)
             b3 == IF withPg THEN ParsePg(b2, now.pg) ELSE b2
             b4 == CreatePgOutputs(b3)
             b5 == CreateCentralUnitSensors(b4)
             c == Announce(b5)
             pg == {<<"pg", 1>>}
             first == ({"problem", "state"} \X Devices) \cup BatteryEntities(file.battery \cap Devices)
             last == ({"power", "lan"} \X {1}) \cup BatteryEntities(file.battery \cap {CentralUnit})
                       \cup ({"bus"} \X file.buses) \cup (IF file.ip THEN {<<"lan_ip", 1>>} ELSE {})
             sections == SectionEntities(1..n)
  <1>1. Started(file, now, withPg) = c
    BY DEF Started
  <1>2. Starting(b0, pairs) /\ b0.entities = {} /\ b0.stored = file /\ b0.inService = FALSE
        /\ b0.battery = file.battery
    <2>1. Starting(b0, pairs) /\ b0.entities = {} /\ b0.stored = file /\ b0.inService = FALSE
      BY LoadedIs
    <2> QED
      BY <2>1 DEF Starting
  <1> HIDE DEF b0
  <1>3. Starting(b1, pairs) /\ b1.entities = first /\ b1.stored = file /\ b1.inService = FALSE
    <2>1. Further(b0, b1, first, pairs)
      BY <1>2, CreateDevicesIs
    <2> QED
      BY <1>2, <2>1 DEF Further
  <1> HIDE DEF b1
  <1>4. /\ states \in Shows /\ DOMAIN states = sections
        /\ sections \subseteq SectionEntities(Sections) /\ <<"section", 1>> \in sections
        /\ \A e \in sections : states[e] = First(e, pairs)
    <2>1. 1..n \in SUBSET Sections /\ 1 \in 1..n
      <3>1. NumSections \in 1..15 /\ Sections = 1..NumSections /\ n \in 1..NumSections
        BY PanelAssumption DEF Sections, MaxSections
      <3> QED
        BY <3>1
    <2>2. UsedSections(pairs) = n
      BY UsedOf
    <2> HIDE DEF pairs
    <2>3. /\ states \in Shows /\ DOMAIN states = sections
          /\ \A e \in sections : states[e] = SectionEntityState(e, pairs[e[2]])
      BY <2>1, <2>2, SectionsSayIs
    <2>4. \A e \in sections : e[1] \in SectionKinds
      BY DEF SectionEntities, SectionKinds
    <2>5. /\ sections \subseteq SectionEntities(Sections)
          /\ <<"section", 1>> \in sections
      BY <2>1 DEF SectionEntities
    <2> HIDE DEF sections, states
    <2> QED
      BY <2>3, <2>4, <2>5 DEF First
  <1> HIDE DEF states
  <1>5. Starting(b2, pairs) /\ b2.entities = first \cup sections /\ b2.stored = file /\ b2.inService = FALSE
    <2> DEFINE d == AddEntities(b1, states)
    <2>1. <<"section", 1>> \notin first
      BY DEF BatteryEntities
    <2>2. b2 = Announce(d)
      BY <1>3, <1>4, <2>1 DEF CreateSections
    <2>4. Further(b1, d, sections, pairs)
      BY <1>3, <1>4, DueParts, StartAdds
    <2> HIDE DEF d
    <2>5. Further(d, b2, {}, pairs)
      BY <2>2, <2>4, StartAnnounces DEF Further
    <2> QED
      BY <1>3, <2>4, <2>5 DEF Further
  <1> HIDE DEF b2
  <1>6. /\ Starting(b3, pairs) /\ b3.entities = first \cup sections /\ b3.inService = FALSE
        /\ b3.stored.battery = file.battery /\ b3.stored.buses = file.buses
        /\ b3.stored.ip = file.ip
        /\ ~withPg => b3.stored = file
    <2>1. CASE withPg
      <3>1. now.pg \in BOOLEAN
        BY DEF PanelType
      <3> QED
        BY <1>5, <2>1, <3>1, StartUpdatesPg
    <2>2. CASE ~withPg
      BY <1>5, <2>2
    <2> QED
      BY <2>1, <2>2
  <1> HIDE DEF b3
  <1>7. /\ Starting(b4, pairs) /\ b4.entities = first \cup sections \cup pg
        /\ b4.stored = b3.stored /\ b4.inService = FALSE
    <2>1. pg \in SUBSET Entities /\ "off" \in States /\ \A e \in pg : "off" = First(e, pairs)
      BY FirstIs DEF Entities, States, Initially, SectionKinds
    <2>2. pg \subseteq Due(b3.stored)
      BY DueParts
    <2> HIDE DEF pg
    <2>3. Further(b3, AddEntities(b3, All(pg, "off")), pg, pairs)
      BY <1>6, <2>1, <2>2, StartAddsAll
    <2>4. b4 = AddEntities(b3, All(pg, "off"))
      BY DEF CreatePgOutputs, pg
    <2> QED
      BY <1>6, <2>3, <2>4 DEF Further
  <1> HIDE DEF b4
  <1>8. /\ Starting(b5, pairs) /\ b5.entities = first \cup sections \cup pg \cup last
        /\ b5.stored = b3.stored /\ b5.inService = FALSE
    <2>1. b4.battery = file.battery /\ b4.buses = file.buses /\ b4.stored.ip = file.ip
      BY <1>6, <1>7 DEF Starting
    <2>2. Further(b4, b5, last, pairs)
      BY <1>7, <2>1, CreateCentralUnitIs
    <2> QED
      BY <1>7, <2>2 DEF Further
  <1> HIDE DEF b5
  <1>9. first \cup pg \cup last = Due(file) \ SectionEntities(Sections)
    <2>1. file.battery \subseteq Devices \cup {CentralUnit}
      BY NumbersAre DEF AsStored, Files
    <2>2. BatteryEntities(file.battery \cap Devices) \cup BatteryEntities(file.battery \cap {CentralUnit})
            = BatteryEntities(file.battery)
      BY <2>1 DEF BatteryEntities
    <2>3. ({"problem", "state"} \X Devices) \cup pg \cup ({"power", "lan"} \X {1}) = Always
      BY DEF Always
    <2>4. \A e \in Always \cup BatteryEntities(file.battery) \cup ({"bus"} \X file.buses)
                     \cup {<<"lan_ip", 1>>} : e \notin SectionEntities(Sections)
      BY DEF Always, BatteryEntities, SectionEntities
    <2>5. first \cup pg \cup last =
            Always \cup BatteryEntities(file.battery) \cup ({"bus"} \X file.buses)
              \cup (IF file.ip THEN {<<"lan_ip", 1>>} ELSE {})
      BY <2>2, <2>3
    <2> HIDE DEF first, pg, last
    <2> QED
      BY <2>4, <2>5 DEF Due
  <1>10. Always \subseteq b5.entities
    <2>1. Always \subseteq Due(file) \ SectionEntities(Sections)
      BY DEF Due, Always, SectionEntities
    <2> HIDE DEF first, pg, last
    <2> QED
      BY <1>8, <1>9, <2>1
  <1> HIDE DEF first, pg, last
  <1>11. Good(c) /\ Further(b5, c, {}, pairs)
    BY <1>8, <1>10, StartAnnounces
  <1> HIDE DEF c
  <1>12. c.entities = b5.entities /\ c.stored = b5.stored /\ c.inService = FALSE
    BY <1>8, <1>11 DEF Further
  <1>13. c.entities = (Due(file) \ SectionEntities(Sections)) \cup sections
    BY <1>8, <1>9, <1>12
  <1>14. ~withPg => c.stored = file
    BY <1>6, <1>8, <1>12
  <1>15. \A e \in c.entities \ DOMAIN c.stored.states : c.shown[e] = First(e, pairs)
    BY <1>11 DEF Further, Starting
  <1> HIDE DEF sections
  <1> QED
    BY <1>1, <1>11, <1>12, <1>13, <1>14, <1>15 DEF sections, pairs, Restored

-----------------------------------------------------------------------------
(* A packet handled makes right all it tells of, if it is fresh.           *)

\* A packet of which the bridge makes nothing: it raises.
Garbled == [kind |-> "sections", pairs |-> <<<<0, 0>>>>]

\* What a panel says of its sections.
IsSections(p) == \E now \in PanelType : InUse(now) /\ p = AllSections(now)

\* The packets with a list of states or the state of the connection.
IsList(p) ==
    \/ \E on \in SUBSET Devices : p = [kind |-> "devices", on |-> on]
    \/ \E pg \in BOOLEAN : p = [kind |-> "pg", pg |-> pg]
    \/ \E ok \in BOOLEAN : p = [kind |-> "lan", ok |-> ok]

\* The packets that a panel can have sent.
IsPacket(p) ==
    p = Garbled \/ IsSections(p) \/ IsList(p) \/ IsBattery(p) \/ IsCentral(p) \/ IsEvent(p)

\* What a packet that tells of e says, if e has to show what is the case now.
Agrees(p, now, e) ==
    CASE e = ServiceMode -> (p.pairs[1] = ServicePair) = now.service
      [] e[1] \in SectionKinds -> now.service \/ p = AllSections(now)
      [] OTHER -> Speaks(now, e) => Says(p, e) = TrueState(now, e)

\* An entity that should be shown otherwise.
Amiss(b, now, e) ==
    /\ e \in b.entities \cup Expected(now) /\ Speaks(now, e)
    /\ ~(e \in b.entities /\ b.shown[e] = TrueState(now, e))

\* The service mode is no entity.
LEMMA ServiceApart == ServiceMode \notin Entities /\ \A kind \in SectionKinds : ServiceMode[1] # kind
  BY DEF ServiceMode, Entities, SectionKinds

\* What is wrong are entities that are amiss, and the service mode.
LEMMA WrongIs ==
    ASSUME NEW b \in Tables, NEW now \in PanelType
    PROVE  /\ Wrong(b, now) \subseteq Entities \cup {ServiceMode}
           /\ \A e \in Entities : e \in Wrong(b, now) <=> Amiss(b, now, e)
           /\ ServiceMode \in Wrong(b, now) <=> b.inService # now.service
  <1>1. b.entities \subseteq Entities
    BY DEF Tables
  <1>2. Expected(now) \subseteq Entities
    BY DEF Expected, SectionEntities, UsedNow, Entities, SectionKinds
  <1>3. \A e : e # ServiceMode => (e \in Wrong(b, now) <=> Amiss(b, now, e))
    BY DEF Wrong, Amiss
  <1>4. ServiceMode \in Wrong(b, now) <=> b.inService # now.service
    BY <1>1, <1>2, ServiceApart DEF Wrong
  <1>5. \A e : Amiss(b, now, e) => e \in Entities
    BY <1>1, <1>2 DEF Amiss
  <1> QED
    BY <1>3, <1>4, <1>5, ServiceApart

\* A packet is of one kind, which decides what it looks like.
LEMMA KindsAre ==
    ASSUME NEW p
    PROVE  /\ p = Garbled \/ IsSections(p) => p.kind = "sections"
           /\ IsList(p) => p.kind \in {"devices", "pg", "lan"}
           /\ IsBattery(p) => p.kind \in {"info", "status"}
           /\ IsCentral(p) => p.kind = "central"
           /\ IsEvent(p) => p.kind = "event"
  <1>1. p = Garbled \/ IsSections(p) => p.kind = "sections"
    BY DEF Garbled, IsSections, AllSections
  <1>2. IsList(p) => p.kind \in {"devices", "pg", "lan"}
    BY DEF IsList
  <1>3. IsBattery(p) => p.kind \in {"info", "status"}
    BY DEF IsBattery, BatteryPacket
  <1>4. IsCentral(p) => p.kind = "central"
    BY DEF IsCentral, CentralPacket
  <1>5. IsEvent(p) => p.kind = "event"
    BY DEF IsEvent, EventPacket
  <1> QED
    BY <1>1, <1>2, <1>3, <1>4, <1>5

\* A sections packet that makes no sense raises; those of a panel do not.
LEMMA GarbledRaises ==
    ASSUME NEW b
    PROVE  Raises(b, Garbled) /\ Tells(Garbled) = {}
  <1> DEFINE pairs == <<<<0, 0>>>>
             used == {n \in 0..MaxSections : \A i \in 1..n : i <= Len(pairs) => pairs[i] # Unused}
  <1>1. Garbled.kind = "sections" /\ Garbled.pairs = pairs
    BY DEF Garbled
  <1>2. Len(pairs) = 1 /\ pairs[1] = <<0, 0>> /\ pairs[1][1] = 0 /\ <<0, 0>> # Unused
    BY DEF Unused
  <1> HIDE DEF pairs
  <1>3. UsedSections(pairs) \in 1..15
    <2>1. used = 0..15
      BY <1>2 DEF MaxSections
    <2>2. UsedSections(pairs) = CHOOSE n \in used : \A other \in used : other <= n
      BY DEF UsedSections
    <2>3. \E n \in 0..15 : \A other \in 0..15 : other <= n
      <3>1. 15 \in 0..15 /\ \A other \in 0..15 : other <= 15
        OBVIOUS
      <3> QED
        BY <3>1
    <2> HIDE DEF used
    <2> DEFINE most == CHOOSE n \in 0..15 : \A other \in 0..15 : other <= n
    <2>4. most \in 0..15 /\ \A other \in 0..15 : other <= most
      BY <2>3
    <2>5. UsedSections(pairs) = most
      BY <2>1, <2>2
    <2> HIDE DEF most
    <2> QED
      BY <2>4, <2>5
  <1>4. SectionsPacketRaises(pairs)
    <2>1. 1 \in 1..UsedSections(pairs)
      BY <1>3
    <2>2. pairs[1][1] % 8 = 0
      BY <1>2
    <2> QED
      BY <2>1, <2>2 DEF SectionsPacketRaises
  <1> QED
    BY <1>1, <1>4 DEF Raises, Tells

\* Every other packet that does not raise is handled.
LEMMA OthersHandled ==
    ASSUME NEW b, Good(b), NEW p, IsPacket(p), ~IsSections(p), ~Raises(b, p)
    PROVE  p.kind # "sections" /\ Handled(b, Handle(b, p), p)
  <1>1. p # Garbled
    BY GarbledRaises
  <1>2. CASE IsList(p)
    BY <1>2, ListsAre, KindsAre DEF IsList
  <1>3. CASE IsBattery(p)
    BY <1>3, BatteryIsHandled, KindsAre
  <1>4. CASE IsCentral(p)
    BY <1>4, CentralIsHandled, KindsAre
  <1>5. CASE IsEvent(p)
    <2>1. PICK number \in Devices \cup WithBattery \cup {Lan}, byte2 \in Byte, on \in BOOLEAN :
             EventOf(number, byte2) /\ p = EventPacket(number, byte2, on)
      BY <1>5 DEF IsEvent
    <2> QED
      BY <1>5, <2>1, EventIs, KindsAre
  <1> QED
    BY <1>1, <1>2, <1>3, <1>4, <1>5 DEF IsPacket

\* What a panel says of its sections, while it is in service mode or not.
LEMMA SectionsTell ==
    ASSUME NEW now \in PanelType, NEW n \in Sections, UsedNow(now) = 1..n
    PROVE  LET p == AllSections(now)
           IN  /\ p.kind = "sections"
               /\ (p.pairs[1] = ServicePair) = now.service
               /\ Tells(p) = {ServiceMode} \cup (IF now.service THEN {} ELSE SectionKinds \X Sections)
               /\ \A b : ~Raises(b, p) /\ Misleads(b, p) = {}
  <1> DEFINE p == AllSections(now)
  <1>1. 1 \in 1..n /\ 1 \in Sections
    <2>1. NumSections \in 1..15 /\ Sections = 1..NumSections /\ n \in 1..NumSections
      BY PanelAssumption DEF Sections, MaxSections
    <2> QED
      BY <2>1
  <1>2. p.kind = "sections"
    BY DEF AllSections
  <1>3. /\ p.pairs[1] = IF now.service THEN ServicePair ELSE now.sections[1]
        /\ ~SectionsPacketRaises(p.pairs)
    BY <1>1, UsedOf
  <1>4. now.sections[1] # ServicePair
    <2>1. now.sections[1] \in Pairs
      BY <1>1 DEF PanelType
    <2>2. PICK c \in SectionCodes : now.sections[1] = <<c \div 256, c % 256>>
      BY <2>1 DEF Pairs
    <2>3. (c \div 256) % 8 # Service
      BY SectionsAssumption
    <2>4. now.sections[1][1] = c \div 256
      BY <2>2
    <2>5. ServicePair[1] % 8 = Service
      BY DEF ServicePair, Service
    <2> QED
      BY <2>3, <2>4, <2>5
  <1>5. now.service \in BOOLEAN
    BY DEF PanelType
  <1> HIDE DEF p
  <1>6. (p.pairs[1] = ServicePair) = now.service
    BY <1>3, <1>4, <1>5
  <1>7. Tells(p) = {ServiceMode} \cup (IF now.service THEN {} ELSE SectionKinds \X Sections)
    BY <1>2, <1>3, <1>6 DEF Tells
  <1>8. \A b : ~Raises(b, p) /\ Misleads(b, p) = {}
    BY <1>2, <1>3 DEF Raises, Misleads
  <1> QED
    BY <1>2, <1>6, <1>7, <1>8 DEF p

\* A packet that is not about sections tells of no section.
LEMMA OthersTell ==
    ASSUME NEW b, NEW p, IsPacket(p), p.kind # "sections"
    PROVE  /\ \A e \in Tells(p) : e # ServiceMode /\ e[1] \notin SectionKinds
           /\ Misleads(b, p) \subseteq Entities
  <1> DEFINE Apart(e) == e[1] \in {"state", "problem", "battery", "pg", "lan", "lan_ip", "power"}
  <1>1. \A e : Apart(e) => e # ServiceMode /\ e[1] \notin SectionKinds
    BY DEF ServiceMode, SectionKinds
  <1>2. ASSUME NEW e \in Tells(p) PROVE Apart(e)
    <2>1. CASE IsList(p)
      BY <1>2, <2>1, KindsAre DEF Tells
    <2>2. CASE IsBattery(p)
      BY <1>2, <2>2, KindsAre DEF Tells
    <2>3. CASE IsCentral(p)
      BY <1>2, <2>3, KindsAre DEF Tells
    <2>4. CASE IsEvent(p)
      <3>1. PICK number \in Devices \cup WithBattery \cup {Lan}, byte2 \in Byte, on \in BOOLEAN :
               p = EventPacket(number, byte2, on)
        BY <2>4 DEF IsEvent
      <3> QED
        BY <1>2, <3>1, EventTells
    <2> QED
      BY <2>1, <2>2, <2>3, <2>4, KindsAre DEF IsPacket
  <1>3. Misleads(b, p) \subseteq Entities
    BY DEF Misleads, Entities
  <1> HIDE DEF Apart
  <1> QED
    BY <1>1, <1>2, <1>3

\* After such a packet, what it tells of is as it says.
LEMMA OthersAmiss ==
    ASSUME NEW b, Good(b), NEW p, IsPacket(p), p.kind # "sections",
           NEW c, Handled(b, c, p), NEW now \in PanelType, NEW e, Amiss(c, now, e)
    PROVE  /\ e \in Tells(p) /\ Agrees(p, now, e) => e \in Misleads(b, p)
           /\ e \notin Tells(p) => Amiss(b, now, e) \/ e \in Misleads(b, p)
  <1>1. Always \subseteq c.entities
    BY DEF Handled, Good, Kept
  <1>2. ASSUME e \in Tells(p), Agrees(p, now, e), e \notin Misleads(b, p)
        PROVE  FALSE
    <2>1. e # ServiceMode /\ e[1] \notin SectionKinds
      BY <1>2, OthersTell
    <2>2. Says(p, e) = TrueState(now, e)
      BY <1>2, <2>1 DEF Agrees, Amiss
    <2>3. e \in c.entities
      <3>1. e \in Expected(now) => e \in Always
        BY <2>1 DEF Expected, SectionEntities, SectionKinds, Always
      <3> QED
        BY <1>1, <3>1 DEF Amiss
    <2> QED
      BY <1>2, <2>2, <2>3 DEF Handled, Amiss
  <1>3. ASSUME e \notin Tells(p), e \notin Misleads(b, p)
        PROVE  Amiss(b, now, e)
    <2>1. e \notin Silent
      BY DEF Silent, Amiss, Speaks, SectionKinds
    <2>2. e \notin Tells(p) \cup Misleads(b, p) \cup Silent
      BY <1>3, <2>1
    <2>3. Elsewhere(b, c, Tells(p) \cup Misleads(b, p) \cup Silent)
      BY DEF Handled
    <2>4. b.entities \subseteq DOMAIN b.shown
      BY DEF Good, Kept
    <2>5. /\ e \in c.entities <=> e \in b.entities
          /\ e \in b.entities => c.shown[e] = b.shown[e]
      BY <2>2, <2>3, <2>4 DEF Elsewhere
    <2> QED
      BY <2>5 DEF Amiss
  <1> QED
    BY <1>2, <1>3

\* After a sections packet, sections and service mode are as it says.
LEMMA SectionsAmiss ==
    ASSUME NEW b, Good(b), NEW p, IsSections(p), NEW now \in PanelType, InUse(now)
    PROVE  LET c == Handle(b, p)
           IN  /\ Good(c)
               /\ ServiceMode \in Tells(p)
               /\ Agrees(p, now, ServiceMode) => c.inService = now.service
               /\ \A e \in Entities : Amiss(c, now, e) =>
                     /\ e \in Tells(p) => ~Agrees(p, now, e)
                     /\ e \notin Tells(p) => Amiss(b, now, e)
  <1> DEFINE c == Handle(b, p)
  <1>1. PICK was \in PanelType : InUse(was) /\ p = AllSections(was)
    BY DEF IsSections
  <1>2. PICK n \in Sections : UsedNow(was) = 1..n
    BY <1>1 DEF InUse
  <1> DEFINE told == IF was.service THEN {} ELSE SectionEntities(1..n)
  <1>3. /\ p.kind = "sections" /\ (p.pairs[1] = ServicePair) = was.service
        /\ Tells(p) = {ServiceMode} \cup (IF was.service THEN {} ELSE SectionKinds \X Sections)
    BY <1>1, <1>2, SectionsTell
  <1>4. c = ParseSections(b, p.pairs)
    BY <1>3, HandleIs
  <1>5. /\ Good(c) /\ Elsewhere(b, c, told) /\ c.inService = was.service
    BY <1>1, <1>2, <1>4, ParseSectionsIs
  <1> HIDE DEF c
  <1>6. was.service \in BOOLEAN /\ now.service \in BOOLEAN
    BY DEF PanelType
  <1>7. Agrees(p, now, ServiceMode) => c.inService = now.service
    <2>1. Agrees(p, now, ServiceMode) => (p.pairs[1] = ServicePair) = now.service
      BY ServiceApart DEF Agrees
    <2>2. Agrees(p, now, ServiceMode) => was.service = now.service
      BY <1>3, <1>6, <2>1
    <2> QED
      BY <1>5, <2>2
  <1>8. ASSUME NEW e \in Entities, Amiss(c, now, e), e \notin Tells(p)
        PROVE  Amiss(b, now, e)
    <2>1. e \notin told
      <3>1. SectionEntities(1..n) \subseteq SectionKinds \X Sections
        <4>1. 1..n \subseteq Sections
          BY <1>2 DEF UsedNow
        <4> QED
          BY <4>1 DEF SectionEntities, SectionKinds
      <3> QED
        BY <1>3, <1>8, <3>1
    <2>2. b.entities \subseteq DOMAIN b.shown
      BY DEF Good, Kept
    <2> HIDE DEF told
    <2>3. /\ e \in c.entities <=> e \in b.entities
          /\ e \in b.entities => c.shown[e] = b.shown[e]
      BY <1>5, <2>1, <2>2 DEF Elsewhere
    <2> QED
      BY <1>8, <2>3 DEF Amiss
  <1>9. ASSUME NEW e \in Entities, Amiss(c, now, e), e \in Tells(p), Agrees(p, now, e)
        PROVE  FALSE
    <2>1. e \in SectionKinds \X Sections /\ e # ServiceMode
      BY <1>3, <1>9, ServiceApart
    <2>2. ~now.service /\ e[2] \in UsedNow(now)
      <3>1. Speaks(now, e)
        BY <1>9 DEF Amiss
      <3>2. e[1] \in SectionKinds
        BY <2>1
      <3> QED
        BY <3>1, <3>2 DEF Speaks, SectionKinds
    <2>3. p = AllSections(now)
      BY <1>9, <2>1, <2>2 DEF Agrees
    <2>4. PICK m \in Sections : UsedNow(now) = 1..m
      BY DEF InUse
    <2>5. /\ SectionEntities(1..m) \subseteq c.entities
          /\ \A d \in SectionEntities(1..m) : c.shown[d] = SectionEntityState(d, now.sections[d[2]])
      BY <1>4, <2>2, <2>3, <2>4, ParseSectionsIs
    <2>6. e \in SectionEntities(1..m)
      <3>1. e \in SectionEntities(Sections)
        <4>1. Expected(now) \cap (SectionKinds \X Sections) \subseteq SectionEntities(Sections)
          BY DEF Expected, SectionEntities, SectionKinds, UsedNow
        <4>2. c.entities \cap (SectionKinds \X Sections) \subseteq SectionEntities(Sections)
          <5>1. c.entities \subseteq Due(c.stored)
            BY <1>5 DEF Good, Kept
          <5>2. Due(c.stored) \cap (SectionKinds \X Sections) \subseteq SectionEntities(Sections)
            BY DEF Due, Always, BatteryEntities, SectionKinds
          <5> QED
            BY <5>1, <5>2
        <4> QED
          BY <1>9, <2>1, <4>1, <4>2 DEF Amiss
      <3> QED
        BY <2>2, <2>4, <3>1 DEF SectionEntities
    <2>7. TrueState(now, e) = SectionEntityState(e, now.sections[e[2]])
      BY <2>1 DEF TrueState, SectionKinds
    <2> QED
      BY <1>9, <2>5, <2>6, <2>7 DEF Amiss
  <1>10. ServiceMode \in Tells(p)
    BY <1>3
  <1> QED
    BY <1>5, <1>7, <1>8, <1>9, <1>10 DEF c

\* A packet that is handled: what is wrong afterwards was not told, or told of
\* an earlier time, or is doubtful.
LEMMA HandleNextIs ==
    ASSUME NEW b, Good(b), NEW p, IsPacket(p), ~Raises(b, p),
           NEW now \in PanelType, InUse(now)
    PROVE  LET c == Handle(b, p)
           IN  /\ Good(c)
               /\ Misleads(b, p) \subseteq Entities
               /\ \A e \in Wrong(c, now) :
                     /\ e \in Tells(p) /\ Agrees(p, now, e) => e \in Misleads(b, p)
                     /\ e \notin Tells(p) => e \in Wrong(b, now) \/ e \in Misleads(b, p)
  <1> DEFINE c == Handle(b, p)
  <1>0. Good(c) => b \in Tables /\ c \in Tables
    BY DEF Good
  <1>1. CASE IsSections(p)
    <2>1. /\ Good(c) /\ ServiceMode \in Tells(p)
          /\ Agrees(p, now, ServiceMode) => c.inService = now.service
          /\ \A e \in Entities : Amiss(c, now, e) =>
                /\ e \in Tells(p) => ~Agrees(p, now, e)
                /\ e \notin Tells(p) => Amiss(b, now, e)
      BY <1>1, SectionsAmiss
    <2>2. Misleads(b, p) = {}
      BY <1>1, KindsAre DEF Misleads
    <2> HIDE DEF c
    <2>3. ASSUME NEW e \in Wrong(c, now)
          PROVE  /\ e \in Tells(p) => ~Agrees(p, now, e)
                 /\ e \notin Tells(p) => e \in Wrong(b, now)
      <3>1. CASE e = ServiceMode
        BY <1>0, <2>1, <2>3, <3>1, WrongIs
      <3>2. CASE e \in Entities
        BY <1>0, <2>1, <2>3, <3>2, WrongIs
      <3> QED
        BY <1>0, <2>1, <2>3, <3>1, <3>2, WrongIs
    <2> QED
      BY <2>1, <2>2, <2>3 DEF c
  <1>2. CASE ~IsSections(p)
    <2>1. p.kind # "sections" /\ Handled(b, c, p)
      BY <1>2, OthersHandled
    <2>2. Good(c) /\ c.inService = b.inService /\ Misleads(b, p) \subseteq Entities
      BY <2>1, OthersTell DEF Handled
    <2> HIDE DEF c
    <2>3. ASSUME NEW e \in Wrong(c, now)
          PROVE  /\ e \in Tells(p) /\ Agrees(p, now, e) => e \in Misleads(b, p)
                 /\ e \notin Tells(p) => e \in Wrong(b, now) \/ e \in Misleads(b, p)
      <3>1. CASE e = ServiceMode
        BY <1>0, <2>1, <2>2, <2>3, <3>1, WrongIs, OthersTell
      <3>2. CASE e \in Entities
        BY <1>0, <2>1, <2>2, <2>3, <3>2, WrongIs, OthersAmiss
      <3> QED
        BY <1>0, <2>2, <2>3, <3>1, <3>2, WrongIs
    <2> QED
      BY <2>2, <2>3 DEF c
  <1> QED
    BY <1>1, <1>2

-----------------------------------------------------------------------------
(* What the panel sends is fresh.                                          *)

\* A packet that says of all it tells what is the case.
Fresh(p, now) == IsPacket(p) /\ \A e \in Tells(p) : Agrees(p, now, e)

\* An entity that is not of a section agrees with what its state is.
LEMMA OrdinaryAgrees ==
    ASSUME NEW p, NEW now, NEW e, e[1] \in {"state", "problem", "battery", "pg", "lan", "lan_ip", "power"},
           Speaks(now, e) => Says(p, e) = TrueState(now, e)
    PROVE  Agrees(p, now, e)
  <1>1. e # ServiceMode /\ e[1] \notin SectionKinds
    BY DEF ServiceMode, SectionKinds
  <1> QED
    BY <1>1 DEF Agrees

\* A sections packet of now is fresh.
LEMMA SectionsFresh ==
    ASSUME NEW now \in PanelType, InUse(now)
    PROVE  Fresh(AllSections(now), now)
  <1> DEFINE p == AllSections(now)
  <1>1. IsPacket(p)
    BY DEF IsPacket, IsSections
  <1>2. PICK n \in Sections : UsedNow(now) = 1..n
    BY DEF InUse
  <1>3. /\ (p.pairs[1] = ServicePair) = now.service
        /\ Tells(p) \subseteq {ServiceMode} \cup (SectionKinds \X Sections)
    BY <1>2, SectionsTell
  <1>4. Agrees(p, now, ServiceMode)
    BY <1>3, ServiceApart DEF Agrees
  <1>5. ASSUME NEW e \in SectionKinds \X Sections PROVE Agrees(p, now, e)
    BY <1>5, ServiceApart DEF Agrees
  <1> HIDE DEF p
  <1> QED
    BY <1>1, <1>3, <1>4, <1>5 DEF Fresh, p

\* So are lists of states of now.
LEMMA ListsFresh ==
    ASSUME NEW now \in PanelType
    PROVE  /\ Fresh([kind |-> "devices", on |-> now.active], now)
           /\ Fresh([kind |-> "pg", pg |-> now.pg], now)
           /\ Fresh([kind |-> "lan", ok |-> now.lan], now)
  <1>1. now.active \in SUBSET Devices /\ now.pg \in BOOLEAN /\ now.lan \in BOOLEAN
    BY DEF PanelType
  <1>2. Fresh([kind |-> "devices", on |-> now.active], now)
    <2> DEFINE p == [kind |-> "devices", on |-> now.active]
    <2>1. IsPacket(p) /\ p.kind = "devices" /\ p.on = now.active
      BY <1>1 DEF IsPacket, IsList
    <2> HIDE DEF p
    <2>2. ASSUME NEW e \in Tells(p) PROVE Agrees(p, now, e)
      <3>1. e[1] = "state"
        BY <2>1, <2>2 DEF Tells
      <3>2. Says(p, e) = OnOff(e[2] \in now.active)
        BY <2>1 DEF Says
      <3>3. TrueState(now, e) = OnOff(e[2] \in now.active)
        BY <3>1 DEF TrueState, SectionKinds
      <3> QED
        BY <3>1, <3>2, <3>3, OrdinaryAgrees
    <2> QED
      BY <2>1, <2>2 DEF Fresh, p
  <1>3. Fresh([kind |-> "pg", pg |-> now.pg], now)
    <2> DEFINE p == [kind |-> "pg", pg |-> now.pg]
    <2>1. IsPacket(p) /\ p.kind = "pg" /\ p.pg = now.pg
      BY <1>1 DEF IsPacket, IsList
    <2> HIDE DEF p
    <2>2. ASSUME NEW e \in Tells(p) PROVE Agrees(p, now, e)
      <3>1. e[1] = "pg"
        BY <2>1, <2>2 DEF Tells
      <3>2. Says(p, e) = OnOff(now.pg)
        BY <2>1 DEF Says
      <3>3. TrueState(now, e) = OnOff(now.pg)
        BY <3>1 DEF TrueState, SectionKinds
      <3> QED
        BY <3>1, <3>2, <3>3, OrdinaryAgrees
    <2> QED
      BY <2>1, <2>2 DEF Fresh, p
  <1>4. Fresh([kind |-> "lan", ok |-> now.lan], now)
    <2> DEFINE p == [kind |-> "lan", ok |-> now.lan]
    <2>1. IsPacket(p) /\ p.kind = "lan" /\ p.ok = now.lan
      BY <1>1 DEF IsPacket, IsList
    <2> HIDE DEF p
    <2>2. ASSUME NEW e \in Tells(p) PROVE Agrees(p, now, e)
      <3>1. e[1] \in {"lan", "lan_ip"}
        BY <2>1, <2>2 DEF Tells
      <3>2. Says(p, e) = IF e[1] = "lan" THEN OnOff(now.lan) ELSE "value"
        BY <2>1 DEF Says
      <3>3. TrueState(now, e) = IF e[1] = "lan" THEN OnOff(now.lan) ELSE "value"
        BY <3>1 DEF TrueState, SectionKinds
      <3> QED
        BY <3>1, <3>2, <3>3, OrdinaryAgrees
    <2> QED
      BY <2>1, <2>2 DEF Fresh, p
  <1> QED
    BY <1>2, <1>3, <1>4

\* So is a packet about a battery.
LEMMA BatteryFresh ==
    ASSUME NEW now \in PanelType, NEW kind \in {"info", "status"}, NEW d \in Devices
    PROVE  Fresh(BatteryPacket(now, kind, d), now)
  <1> DEFINE p == BatteryPacket(now, kind, d)
             e == <<"battery", d>>
  <1>1. IsPacket(p)
    BY DEF IsPacket, IsBattery
  <1>2. p.kind = kind /\ p.number = d /\ p.byte = BatteryByte(now, d)
    BY DEF BatteryPacket
  <1> HIDE DEF p
  <1>3. Tells(p) = {e} /\ Says(p, e) = OnOff(BatteryByte(now, d) = 33)
    BY <1>2 DEF Tells, Says
  <1>4. (BatteryByte(now, d) = 33) = (d \in now.low)
    BY DEF BatteryByte, PanelType
  <1>5. TrueState(now, e) = OnOff(d \in now.low)
    BY DEF TrueState, SectionKinds
  <1>6. Agrees(p, now, e)
    BY <1>3, <1>4, <1>5, OrdinaryAgrees
  <1> QED
    BY <1>1, <1>3, <1>6 DEF Fresh, p

\* So is one of the central unit.
LEMMA CentralFresh ==
    ASSUME NEW now \in PanelType, NEW buses \in SUBSET Buses
    PROVE  Fresh(CentralPacket(now, buses), now)
  <1> DEFINE p == CentralPacket(now, buses)
             e1 == <<"power", 1>>
             e2 == <<"battery", CentralUnit>>
             byte == BatteryByte(now, CentralUnit)
  <1>1. IsPacket(p)
    BY DEF IsPacket, IsCentral
  <1>2. p.kind = "central" /\ p.power = now.power /\ p.byte = byte
    BY DEF CentralPacket
  <1> HIDE DEF p
  <1>3. (byte = 33) = (CentralUnit \in now.low)
    BY DEF BatteryByte, PanelType
  <1> HIDE DEF byte
  <1>4. Tells(p) = {e1, e2}
    BY <1>2 DEF Tells
  <1>5. \A e : Says(p, e) = IF e[1] = "power" THEN OnOff(now.power) ELSE OnOff(byte = 33)
    BY <1>2 DEF Says
  <1>6. /\ TrueState(now, e1) = OnOff(now.power)
        /\ TrueState(now, e2) = OnOff(CentralUnit \in now.low)
    BY DEF TrueState, SectionKinds
  <1>7. Agrees(p, now, e1)
    BY <1>5, <1>6, OrdinaryAgrees
  <1>8. Agrees(p, now, e2)
    <2>1. Says(p, e2) = OnOff(CentralUnit \in now.low)
      BY <1>3, <1>5
    <2> QED
      BY <1>6, <2>1, OrdinaryAgrees
  <1> QED
    BY <1>1, <1>4, <1>7, <1>8 DEF Fresh, p

\* A heartbeat, a status or a garbled packet tells of nothing that is not so.
LEMMA OddityFresh ==
    ASSUME NEW now \in PanelType, NEW p \in Oddities(now)
    PROVE  Fresh(p, now)
  <1>1. CASE \E d \in Devices : p = EventPacket(d, IF d \in Known THEN HeartbeatEvent ELSE 51, TRUE)
    <2>1. PICK d \in Devices : p = EventPacket(d, IF d \in Known THEN HeartbeatEvent ELSE 51, TRUE)
      BY <1>1
    <2> DEFINE byte2 == IF d \in Known THEN HeartbeatEvent ELSE 51
    <2>2. byte2 \in {HeartbeatEvent, 51} /\ byte2 \in Byte
      BY DEF HeartbeatEvent, Byte
    <2> HIDE DEF byte2
    <2>3. p = EventPacket(d, byte2, TRUE)
      BY <2>1 DEF byte2
    <2>4. IsEvent(p)
      <3>1. EventOf(d, byte2)
        BY <2>2 DEF EventOf
      <3> QED
        BY <2>2, <2>3, <3>1 DEF IsEvent
    <2>5. Tells(p) = {}
      <3>1. IsHeartbeat(byte2)
        BY <2>2, EventCodes
      <3>2. Tells(EventPacket(d, byte2, TRUE)) = {}
        BY <3>1, EventTells
      <3> QED
        BY <2>3, <3>2
    <2> QED
      BY <2>4, <2>5 DEF Fresh, IsPacket
  <1>2. CASE \E d \in Devices : p = BatteryPacket(now, "status", d)
    BY <1>2, BatteryFresh
  <1>3. CASE p = Garbled
    BY <1>3, GarbledRaises DEF Fresh, IsPacket
  <1> QED
    BY <1>1, <1>2, <1>3 DEF Oddities, Garbled

\* A repeated state is fresh.
LEMMA ReportFresh ==
    ASSUME NEW now \in PanelType, InUse(now), NEW p \in Reports(now)
    PROVE  Fresh(p, now)
  <1>1. \A bus \in Buses : Fresh(CentralPacket(now, {bus}), now)
    BY CentralFresh
  <1> QED
    BY <1>1, SectionsFresh, ListsFresh, BatteryFresh DEF Reports

-----------------------------------------------------------------------------
(* A change of the panel, and the packet that tells of it.                 *)

\* Of e nothing new is the case.
Stays(was, now, e) ==
    CASE e = ServiceMode -> was.service = now.service
      [] e[1] \in SectionKinds ->
            now.service \/ (was.service = now.service /\ was.sections = now.sections)
      [] OTHER -> Speaks(now, e) => Speaks(was, e) /\ TrueState(was, e) = TrueState(now, e)

\* An entity of which nothing new is the case is not wrong because of it.
LEMMA StaysWrong ==
    ASSUME NEW b \in Tables, NEW was \in PanelType, NEW now \in PanelType,
           NEW e \in Entities \cup {ServiceMode}, Stays(was, now, e)
    PROVE  /\ \A p : Agrees(p, was, e) => Agrees(p, now, e)
           /\ e \in Wrong(b, now) => e \in Wrong(b, was)
  <1>1. CASE e = ServiceMode
    <2>1. was.service = now.service
      BY <1>1, ServiceApart DEF Stays
    <2>2. \A p : Agrees(p, was, e) => Agrees(p, now, e)
      BY <1>1, <2>1, ServiceApart DEF Agrees
    <2> QED
      BY <1>1, <2>1, <2>2, WrongIs
  <1>2. CASE e \in Entities /\ e[1] \in SectionKinds
    <2>1. e # ServiceMode
      BY <1>2, ServiceApart
    <2>2. now.service \/ (was.service = now.service /\ was.sections = now.sections)
      BY <1>2, <2>1 DEF Stays
    <2>3. was.service = now.service /\ was.sections = now.sections => AllSections(was) = AllSections(now)
      BY DEF AllSections
    <2>4. \A p : Agrees(p, was, e) => Agrees(p, now, e)
      BY <1>2, <2>1, <2>2, <2>3 DEF Agrees
    <2>5. Amiss(b, now, e) => Amiss(b, was, e)
      <3> SUFFICES ASSUME Amiss(b, now, e) PROVE Amiss(b, was, e)
        OBVIOUS
      <3>1. Speaks(now, e)
        BY DEF Amiss
      <3>2. ~now.service /\ e[2] \in UsedNow(now)
        BY <1>2, <3>1 DEF Speaks, SectionKinds
      <3>3. was.service = now.service /\ was.sections = now.sections
        BY <2>2, <3>2
      <3>4. UsedNow(was) = UsedNow(now)
        BY <3>3 DEF UsedNow
      <3>5. Expected(was) = Expected(now)
        BY <3>4 DEF Expected
      <3>6. Speaks(was, e)
        BY <1>2, <3>2, <3>3, <3>4 DEF Speaks, SectionKinds
      <3>7. TrueState(was, e) = TrueState(now, e)
        BY <1>2, <3>3 DEF TrueState, SectionKinds
      <3> QED
        BY <3>5, <3>6, <3>7 DEF Amiss
    <2> QED
      BY <1>2, <2>4, <2>5, WrongIs
  <1>3. CASE e \in Entities /\ e[1] \notin SectionKinds
    <2>1. e # ServiceMode
      BY <1>3, ServiceApart
    <2>2. Speaks(now, e) => Speaks(was, e) /\ TrueState(was, e) = TrueState(now, e)
      BY <1>3, <2>1 DEF Stays
    <2>3. \A p : Agrees(p, was, e) => Agrees(p, now, e)
      BY <1>3, <2>1, <2>2 DEF Agrees
    <2>4. e \in Expected(now) => e \in Expected(was)
      BY <1>3 DEF Expected, SectionEntities, SectionKinds
    <2>5. Amiss(b, now, e) => Amiss(b, was, e)
      BY <2>2, <2>4 DEF Amiss
    <2> QED
      BY <1>3, <2>3, <2>5, WrongIs
  <1> QED
    BY <1>1, <1>2, <1>3

\* What the panel tells when something changes: all of what changes.
Told(was, now, p) ==
    /\ now \in PanelType /\ InUse(now) /\ Fresh(p, now)
    /\ \A e \in Entities \cup {ServiceMode} : e \notin Tells(p) => Stays(was, now, e)

\* Only what told is about changes.
LEMMA ChangeTold ==
    ASSUME NEW was \in PanelType, NEW now \in PanelType, InUse(now), NEW p, Fresh(p, now),
           now.sections = was.sections, now.service = was.service,
           \A e \in Entities : e \notin Tells(p) /\ e[1] \notin SectionKinds =>
              (Speaks(now, e) => Speaks(was, e) /\ TrueState(was, e) = TrueState(now, e))
    PROVE  Told(was, now, p)
  <1>1. Stays(was, now, ServiceMode)
    BY ServiceApart DEF Stays
  <1>2. ASSUME NEW e \in Entities, e \notin Tells(p)
        PROVE  Stays(was, now, e)
    <2>1. e # ServiceMode
      BY ServiceApart
    <2> QED
      BY <1>2, <2>1 DEF Stays
  <1> QED
    BY <1>1, <1>2 DEF Told

\* What the state of an entity that is not a section's depends on.
Depends(panelState, e) ==
    CASE e[1] = "state" -> e[2] \in panelState.active
      [] e[1] = "problem" -> {f \in FaultEvents : <<e[2], f>> \in panelState.faults}
      [] e[1] = "battery" -> e[2] \in panelState.low
      [] e[1] = "pg" -> panelState.pg
      [] e[1] = "lan" -> panelState.lan
      [] e[1] = "power" -> panelState.power
      [] OTHER -> {}

\* The state of an entity changes only with what it depends on.
LEMMA SameState ==
    ASSUME NEW was, NEW now, NEW e \in Entities, e[1] \notin SectionKinds,
           Depends(was, e) = Depends(now, e), Speaks(now, e)
    PROVE  Speaks(was, e) /\ TrueState(was, e) = TrueState(now, e)
  <1>1. e[1] \in {"state", "problem", "battery", "pg", "lan", "power", "lan_ip", "voltage", "bus"}
    BY DEF Entities, SectionKinds
  <1>2. e[1] \notin {"voltage", "bus"}
    BY DEF Speaks, SectionKinds
  <1>3. CASE e[1] = "problem"
    <2>1. \A f \in FaultEvents : <<e[2], f>> \notin now.faults
      BY <1>3 DEF Speaks, SectionKinds
    <2>2. {f \in FaultEvents : <<e[2], f>> \in was.faults} = {f \in FaultEvents : <<e[2], f>> \in now.faults}
      BY <1>3 DEF Depends
    <2>3. \A f \in FaultEvents : <<e[2], f>> \notin was.faults
      BY <2>1, <2>2
    <2> QED
      BY <1>3, <2>3 DEF Speaks, TrueState, SectionKinds
  <1>4. CASE e[1] = "state"
    BY <1>4 DEF Depends, Speaks, TrueState, SectionKinds
  <1>5. CASE e[1] = "battery"
    BY <1>5 DEF Depends, Speaks, TrueState, SectionKinds
  <1>6. CASE e[1] \in {"pg", "lan", "power", "lan_ip"}
    BY <1>6 DEF Depends, Speaks, TrueState, SectionKinds
  <1> QED
    BY <1>1, <1>2, <1>3, <1>4, <1>5, <1>6

\* Only what is told of changes.
LEMMA DependsTold ==
    ASSUME NEW was \in PanelType, NEW now \in PanelType, InUse(now), NEW p, Fresh(p, now),
           now.sections = was.sections, now.service = was.service,
           \A e \in Entities : Depends(was, e) = Depends(now, e) \/ e \in Tells(p)
    PROVE  Told(was, now, p)
  BY ChangeTold, SameState

\* An entity is its kind and its number.
LEMMA EntityIs == \A e \in Entities : e = <<e[1], e[2]>>
  BY DEF Entities

\* An event is fresh if what it says is the case.
LEMMA EventFresh ==
    ASSUME NEW now, NEW number \in Devices \cup WithBattery \cup {Lan}, NEW byte2 \in Byte,
           EventOf(number, byte2), NEW on \in BOOLEAN,
           NEW e, Tells(EventPacket(number, byte2, on)) = {e},
           e[1] \in {"state", "problem", "battery", "lan"},
           Speaks(now, e) => OnOff(IF number = Lan THEN ~on ELSE on) = TrueState(now, e)
    PROVE  Fresh(EventPacket(number, byte2, on), now)
  <1> DEFINE p == EventPacket(number, byte2, on)
  <1>1. IsPacket(p)
    BY DEF IsPacket, IsEvent
  <1>2. number \in 0..239
    BY NumbersAre
  <1>3. Says(p, e) = OnOff(IF number = Lan THEN ~on ELSE on)
    BY <1>2, EventSays
  <1> HIDE DEF p
  <1>4. Agrees(p, now, e)
    BY <1>3, OrdinaryAgrees
  <1>5. Tells(p) = {e}
    BY DEF p
  <1> QED
    BY <1>1, <1>4, <1>5 DEF Fresh, p

\* A device becomes active or inactive: its event tells all that changes.
LEMMA DeviceActsTold ==
    ASSUME NEW was \in PanelType, InUse(was), NEW d \in Devices
    PROVE  LET now == [was EXCEPT !.active = Toggle(@, d)]
           IN  Told(was, now, EventPacket(d, ActivityEvent, d \in now.active))
  <1> DEFINE now == [was EXCEPT !.active = Toggle(@, d)]
             on == d \in now.active
             p == EventPacket(d, ActivityEvent, on)
             e == <<"state", d>>
  <1>1. /\ now \in PanelType /\ now.sections = was.sections /\ now.service = was.service
        /\ now.faults = was.faults /\ now.low = was.low /\ now.lan = was.lan /\ now.pg = was.pg
        /\ now.power = was.power /\ \A n : n # d => (n \in now.active <=> n \in was.active)
    BY DEF PanelType, Toggle
  <1>2. InUse(now)
    BY <1>1 DEF InUse, UsedNow
  <1> HIDE DEF now
  <1>3. ActivityEvent \in Byte /\ EventOf(d, ActivityEvent) /\ d # Lan
    BY NumbersAre DEF ActivityEvent, Byte, EventOf
  <1>4. Tells(p) = {e}
    BY <1>3, EventTells, EventCodes
  <1>5. TrueState(now, e) = OnOff(on)
    BY DEF TrueState, SectionKinds
  <1>6. Fresh(p, now)
    <2>1. d \in Devices \cup WithBattery \cup {Lan} /\ on \in BOOLEAN /\ e[1] = "state"
      OBVIOUS
    <2>2. OnOff(IF d = Lan THEN ~on ELSE on) = TrueState(now, e)
      BY <1>3, <1>5
    <2> HIDE DEF on, e
    <2> QED
      BY <1>3, <1>4, <2>1, <2>2, EventFresh
  <1>7. ASSUME NEW f \in Entities, f \notin Tells(p) PROVE Depends(was, f) = Depends(now, f)
    <2>1. f[1] = "state" => f[2] # d
      BY <1>4, <1>7, EntityIs
    <2> QED
      BY <1>1, <2>1 DEF Depends
  <1> HIDE DEF p
  <1>8. Told(was, now, p)
    BY <1>1, <1>2, <1>6, <1>7, DependsTold
  <1> QED
    BY <1>8 DEF now, p

\* So does the event of a fault that begins or ends.
LEMMA FaultChangesTold ==
    ASSUME NEW was \in PanelType, InUse(was), NEW fault \in Devices \X FaultEvents
    PROVE  LET now == [was EXCEPT !.faults = Toggle(@, fault)]
           IN  Told(was, now, EventPacket(fault[1], fault[2], fault \in now.faults))
  <1> DEFINE now == [was EXCEPT !.faults = Toggle(@, fault)]
             on == fault \in now.faults
             p == EventPacket(fault[1], fault[2], on)
             e == <<"problem", fault[1]>>
  <1>0. fault[1] \in Devices /\ fault[2] \in FaultEvents /\ fault = <<fault[1], fault[2]>>
    OBVIOUS
  <1>1. /\ now \in PanelType /\ now.sections = was.sections /\ now.service = was.service
        /\ now.active = was.active /\ now.low = was.low /\ now.lan = was.lan /\ now.pg = was.pg
        /\ now.power = was.power /\ \A f : f # fault => (f \in now.faults <=> f \in was.faults)
    BY DEF PanelType, Toggle
  <1>2. InUse(now)
    BY <1>1 DEF InUse, UsedNow
  <1> HIDE DEF now
  <1>3. fault[2] \in Byte /\ EventOf(fault[1], fault[2]) /\ fault[1] # Lan
    BY <1>0, NumbersAre DEF FaultEvents, Byte, EventOf
  <1>4. Tells(p) = {e}
    BY <1>0, <1>3, EventTells, EventCodes
  <1>5. Speaks(now, e) => ~on /\ TrueState(now, e) = "off"
    BY <1>0 DEF Speaks, TrueState, SectionKinds
  <1>6. Fresh(p, now)
    <2>1. Speaks(now, e) => OnOff(on) = TrueState(now, e)
      BY <1>5 DEF OnOff
    <2>2. fault[1] \in Devices \cup WithBattery \cup {Lan} /\ on \in BOOLEAN /\ e[1] = "problem"
      BY <1>0
    <2>3. Speaks(now, e) => OnOff(IF fault[1] = Lan THEN ~on ELSE on) = TrueState(now, e)
      BY <1>3, <2>1
    <2> HIDE DEF on, e
    <2> QED
      BY <1>3, <1>4, <2>2, <2>3, EventFresh
  <1>7. ASSUME NEW f \in Entities, f \notin Tells(p) PROVE Depends(was, f) = Depends(now, f)
    <2>1. f[1] = "problem" => f[2] # fault[1]
      BY <1>4, <1>7, EntityIs
    <2>2. f[1] = "problem" => \A k : <<f[2], k>> \in now.faults <=> <<f[2], k>> \in was.faults
      BY <1>0, <1>1, <2>1
    <2>3. f[1] = "problem" => Depends(was, f) = Depends(now, f)
      BY <2>2 DEF Depends
    <2>4. f[1] # "problem" => Depends(was, f) = Depends(now, f)
      BY <1>1 DEF Depends
    <2> QED
      BY <2>3, <2>4
  <1> HIDE DEF p
  <1>8. Told(was, now, p)
    BY <1>1, <1>2, <1>6, <1>7, DependsTold
  <1> QED
    BY <1>8 DEF now, p

\* So does that of a battery.
LEMMA BatteryChangesTold ==
    ASSUME NEW was \in PanelType, InUse(was), NEW n \in WithBattery
    PROVE  LET now == [was EXCEPT !.low = Toggle(@, n)]
           IN  Told(was, now, EventPacket(n, 20, n \in now.low))
  <1> DEFINE now == [was EXCEPT !.low = Toggle(@, n)]
             on == n \in now.low
             p == EventPacket(n, 20, on)
             e == <<"battery", n>>
  <1>1. /\ now \in PanelType /\ now.sections = was.sections /\ now.service = was.service
        /\ now.active = was.active /\ now.faults = was.faults /\ now.lan = was.lan
        /\ now.pg = was.pg /\ now.power = was.power
        /\ \A m : m # n => (m \in now.low <=> m \in was.low)
    BY DEF PanelType, Toggle
  <1>2. InUse(now)
    BY <1>1 DEF InUse, UsedNow
  <1> HIDE DEF now
  <1>3. 20 \in Byte /\ EventOf(n, 20) /\ n # Lan
    BY NumbersAre DEF Byte, EventOf
  <1>4. Tells(p) = {e}
    BY <1>3, EventTells, EventCodes
  <1>5. TrueState(now, e) = OnOff(on)
    BY DEF TrueState, SectionKinds
  <1>6. Fresh(p, now)
    <2>1. n \in Devices \cup WithBattery \cup {Lan} /\ on \in BOOLEAN /\ e[1] = "battery"
      OBVIOUS
    <2>2. OnOff(IF n = Lan THEN ~on ELSE on) = TrueState(now, e)
      BY <1>3, <1>5
    <2> HIDE DEF on, e
    <2> QED
      BY <1>3, <1>4, <2>1, <2>2, EventFresh
  <1>7. ASSUME NEW f \in Entities, f \notin Tells(p) PROVE Depends(was, f) = Depends(now, f)
    <2>1. f[1] = "battery" => f[2] # n
      BY <1>4, <1>7, EntityIs
    <2> QED
      BY <1>1, <2>1 DEF Depends
  <1> HIDE DEF p
  <1>8. Told(was, now, p)
    BY <1>1, <1>2, <1>6, <1>7, DependsTold
  <1> QED
    BY <1>8 DEF now, p

\* So does that of the LAN connection.
LEMMA LanChangesTold ==
    ASSUME NEW was \in PanelType, InUse(was)
    PROVE  LET now == [was EXCEPT !.lan = ~@]
           IN  Told(was, now, EventPacket(Lan, ActivityEvent, ~now.lan))
  <1> DEFINE now == [was EXCEPT !.lan = ~@]
             on == ~now.lan
             p == EventPacket(Lan, ActivityEvent, on)
             e == <<"lan", 1>>
  <1>1. /\ now \in PanelType /\ now.sections = was.sections /\ now.service = was.service
        /\ now.active = was.active /\ now.faults = was.faults /\ now.low = was.low
        /\ now.pg = was.pg /\ now.power = was.power /\ now.lan \in BOOLEAN
    BY DEF PanelType
  <1>2. InUse(now)
    BY <1>1 DEF InUse, UsedNow
  <1> HIDE DEF now
  <1>3. ActivityEvent \in Byte /\ EventOf(Lan, ActivityEvent)
    BY DEF ActivityEvent, Byte, EventOf
  <1>4. Tells(p) = {e}
    BY EventTells, EventCodes
  <1>5. TrueState(now, e) = OnOff(~on)
    <2>1. TrueState(now, e) = OnOff(now.lan)
      BY DEF TrueState, SectionKinds
    <2> QED
      BY <1>1, <2>1
  <1>6. Fresh(p, now)
    BY <1>3, <1>4, <1>5, EventFresh
  <1>7. ASSUME NEW f \in Entities, f \notin Tells(p) PROVE Depends(was, f) = Depends(now, f)
    <2>1. f[1] # "lan"
      BY <1>4, <1>7 DEF Entities, SectionKinds
    <2> QED
      BY <1>1, <2>1 DEF Depends
  <1> HIDE DEF p
  <1>8. Told(was, now, p)
    BY <1>1, <1>2, <1>6, <1>7, DependsTold
  <1> QED
    BY <1>8 DEF now, p

\* So does the list of the PG outputs.
LEMMA PgChangesTold ==
    ASSUME NEW was \in PanelType, InUse(was)
    PROVE  LET now == [was EXCEPT !.pg = ~@]
           IN  Told(was, now, [kind |-> "pg", pg |-> now.pg])
  <1> DEFINE now == [was EXCEPT !.pg = ~@]
             p == [kind |-> "pg", pg |-> now.pg]
  <1>1. /\ now \in PanelType /\ now.sections = was.sections /\ now.service = was.service
        /\ now.active = was.active /\ now.faults = was.faults /\ now.low = was.low
        /\ now.lan = was.lan /\ now.power = was.power
    BY DEF PanelType
  <1>2. InUse(now)
    BY <1>1 DEF InUse, UsedNow
  <1> HIDE DEF now
  <1>3. Fresh(p, now)
    BY <1>1, ListsFresh
  <1>4. Tells(p) = {<<"pg", 1>>}
    BY DEF Tells
  <1>5. ASSUME NEW f \in Entities, f \notin Tells(p) PROVE Depends(was, f) = Depends(now, f)
    <2>1. f[1] # "pg"
      BY <1>4, <1>5 DEF Entities, SectionKinds
    <2> QED
      BY <1>1, <2>1 DEF Depends
  <1> HIDE DEF p
  <1>6. Told(was, now, p)
    BY <1>1, <1>2, <1>3, <1>5, DependsTold
  <1> QED
    BY <1>6 DEF now, p

\* So does the packet of the power supply.
LEMMA PowerChangesTold ==
    ASSUME NEW was \in PanelType, InUse(was)
    PROVE  LET now == [was EXCEPT !.power = ~@] IN Told(was, now, CentralPacket(now, {}))
  <1> DEFINE now == [was EXCEPT !.power = ~@]
             p == CentralPacket(now, {})
  <1>1. /\ now \in PanelType /\ now.sections = was.sections /\ now.service = was.service
        /\ now.active = was.active /\ now.faults = was.faults /\ now.low = was.low
        /\ now.lan = was.lan /\ now.pg = was.pg
    BY DEF PanelType
  <1>2. InUse(now)
    BY <1>1 DEF InUse, UsedNow
  <1> HIDE DEF now
  <1>3. Fresh(p, now)
    BY <1>1, CentralFresh
  <1>4. <<"power", 1>> \in Tells(p)
    BY DEF Tells, CentralPacket
  <1>5. ASSUME NEW f \in Entities, f \notin Tells(p) PROVE Depends(was, f) = Depends(now, f)
    <2>1. f[1] # "power"
      BY <1>4, <1>5 DEF Entities, SectionKinds
    <2> QED
      BY <1>1, <2>1 DEF Depends
  <1> HIDE DEF p
  <1>6. Told(was, now, p)
    BY <1>1, <1>2, <1>3, <1>5, DependsTold
  <1> QED
    BY <1>6 DEF now, p

\* Nothing but sections and service mode change.
LEMMA SectionsTold ==
    ASSUME NEW was \in PanelType, NEW now \in PanelType, InUse(now),
           was.active = now.active, was.faults = now.faults, was.low = now.low,
           was.lan = now.lan, was.pg = now.pg, was.power = now.power
    PROVE  Told(was, now, AllSections(now))
  <1> DEFINE p == AllSections(now)
  <1>1. Fresh(p, now)
    BY SectionsFresh
  <1>2. PICK n \in Sections : UsedNow(now) = 1..n
    BY DEF InUse
  <1>3. Tells(p) = {ServiceMode} \cup (IF now.service THEN {} ELSE SectionKinds \X Sections)
    BY <1>2, SectionsTell
  <1> HIDE DEF p
  <1>4. ASSUME NEW e \in Entities, e \notin Tells(p) PROVE Stays(was, now, e)
    <2>0. e # ServiceMode
      BY ServiceApart
    <2>1. CASE e[1] \in SectionKinds
      <3>1. e \in SectionKinds \X Sections
        BY <2>1 DEF Entities, SectionKinds
      <3>2. now.service
        BY <1>3, <1>4, <3>1
      <3> QED
        BY <2>0, <2>1, <3>2 DEF Stays
    <2>2. CASE e[1] \notin SectionKinds
      <3>1. Depends(was, e) = Depends(now, e)
        BY DEF Depends
      <3>2. Speaks(now, e) => Speaks(was, e) /\ TrueState(was, e) = TrueState(now, e)
        BY <2>2, <3>1, SameState
      <3> QED
        BY <2>0, <2>2, <3>2 DEF Stays
    <2> QED
      BY <2>1, <2>2
  <1>5. Told(was, now, p)
    BY <1>1, <1>3, <1>4 DEF Told
  <1> QED
    BY <1>5 DEF p

\* Whatever changes in the panel, a packet tells all of it.
LEMMA PanelChangesTell ==
    ASSUME panel \in PanelType, InUse(panel), PanelChanges
    PROVE  \E p : Told(panel, panel', p) /\ Send(p) /\ UNCHANGED <<rest, bridge, doubt>>
  <1> SUFFICES ASSUME NEW now, NEW p, Changes(now, p), Told(panel, now, p)
               PROVE  Told(panel, panel', p) /\ Send(p) /\ UNCHANGED <<rest, bridge, doubt>>
    <2> SUFFICES \E now, p : Changes(now, p) /\ Told(panel, now, p)
      OBVIOUS
    <2>1. CASE SectionChanges
      <3>1. PICK s \in Sections, pair \in Pairs :
               LET now == [panel EXCEPT !.sections[s] = pair]
               IN  now # panel /\ InUse(now) /\ Changes(now, AllSections(now))
        BY <2>1 DEF SectionChanges
      <3> DEFINE now == [panel EXCEPT !.sections[s] = pair]
      <3>2. /\ now \in PanelType /\ panel.active = now.active /\ panel.faults = now.faults
            /\ panel.low = now.low /\ panel.lan = now.lan /\ panel.pg = now.pg
            /\ panel.power = now.power
        BY DEF PanelType
      <3>3. InUse(now) /\ Changes(now, AllSections(now))
        BY <3>1
      <3> HIDE DEF now
      <3> QED
        BY <3>2, <3>3, SectionsTold
    <2>2. CASE ServiceChanges
      <3> DEFINE now == [panel EXCEPT !.service = ~@]
      <3>1. /\ now \in PanelType /\ panel.active = now.active /\ panel.faults = now.faults
            /\ panel.low = now.low /\ panel.lan = now.lan /\ panel.pg = now.pg
            /\ panel.power = now.power /\ now.sections = panel.sections
        BY DEF PanelType
      <3>2. Changes(now, AllSections(now))
        BY <2>2 DEF ServiceChanges
      <3> HIDE DEF now
      <3>3. InUse(now)
        BY <3>1 DEF InUse, UsedNow
      <3> QED
        BY <3>1, <3>2, <3>3, SectionsTold
    <2>3. CASE DeviceActs
      BY <2>3, DeviceActsTold DEF DeviceActs
    <2>4. CASE FaultChanges
      BY <2>4, FaultChangesTold DEF FaultChanges
    <2>5. CASE BatteryChanges
      BY <2>5, BatteryChangesTold DEF BatteryChanges
    <2>6. CASE LanChanges
      BY <2>6, LanChangesTold DEF LanChanges
    <2>7. CASE PgChanges
      BY <2>7, PgChangesTold DEF PgChanges
    <2>8. CASE PowerChanges
      BY <2>8, PowerChangesTold DEF PowerChanges
    <2> QED
      BY <2>1, <2>2, <2>3, <2>4, <2>5, <2>6, <2>7, <2>8 DEF PanelChanges
  <1> QED
    BY DEF Changes

-----------------------------------------------------------------------------
(* Packets on their way.                                                   *)

\* The last packet that tells of e says what e has to show now.
Settled(packets, now, e) ==
    \E i \in 1..Len(packets) :
       /\ e \in Tells(packets[i]) /\ Agrees(packets[i], now, e)
       /\ \A j \in 1..Len(packets) : i < j => e \notin Tells(packets[j])

\* No packet tells of e.
Untold(packets, e) == \A i \in 1..Len(packets) : e \notin Tells(packets[i])

\* The same of the reads that wait.
Waits(reads, now, e) ==
    \E i \in 1..Len(reads) :
       /\ Settled(reads[i], now, e)
       /\ \A j \in 1..Len(reads) : i < j => Untold(reads[j], e)

\* No read that waits tells of e.
Silence(reads, e) == \A i \in 1..Len(reads) : Untold(reads[i], e)

\* A set that has the packets as members, so that there are sequences of them.
Packet ==
    {p \in {Garbled} \cup {AllSections(now) : now \in PanelType}
             \cup {[kind |-> "devices", on |-> on] : on \in SUBSET Devices}
             \cup {[kind |-> "pg", pg |-> pg] : pg \in BOOLEAN}
             \cup {[kind |-> "lan", ok |-> ok] : ok \in BOOLEAN}
             \cup {BatteryPacket(now, kind, d) :
                     now \in PanelType, kind \in {"info", "status"}, d \in Devices}
             \cup {CentralPacket(now, buses) : now \in PanelType, buses \in SUBSET Buses}
             \cup {EventPacket(number, byte2, on) :
                     number \in Devices \cup WithBattery \cup {Lan}, byte2 \in Byte, on \in BOOLEAN} :
       IsPacket(p)}

\* Its members are the packets that a panel can have sent.
LEMMA PacketIs == \A p : p \in Packet <=> IsPacket(p)
  BY DEF Packet, IsPacket, IsSections, IsList, IsBattery, IsCentral, IsEvent

\* One more packet: it settles what it tells of, and leaves the rest as it was.
LEMMA AppendSettles ==
    ASSUME NEW packets \in Seq(Packet), NEW p \in Packet, NEW now, NEW e
    PROVE  /\ e \in Tells(p) /\ Agrees(p, now, e) => Settled(Append(packets, p), now, e)
           /\ e \notin Tells(p) /\ Settled(packets, now, e) => Settled(Append(packets, p), now, e)
           /\ e \notin Tells(p) /\ Untold(packets, e) => Untold(Append(packets, p), e)
  <1> DEFINE more == Append(packets, p)
  <1>1. /\ Len(more) = Len(packets) + 1 /\ Len(packets) \in Nat /\ more[Len(packets) + 1] = p
        /\ \A i \in 1..Len(packets) : more[i] = packets[i]
    OBVIOUS
  <1> HIDE DEF more
  <1>2. ASSUME e \in Tells(p), Agrees(p, now, e)
        PROVE  Settled(more, now, e)
    <2>1. Len(packets) + 1 \in 1..Len(more)
      BY <1>1
    <2>2. \A j \in 1..Len(more) : ~(Len(packets) + 1 < j)
      BY <1>1
    <2> QED
      BY <1>1, <1>2, <2>1, <2>2 DEF Settled
  <1>3. ASSUME e \notin Tells(p), Settled(packets, now, e)
        PROVE  Settled(more, now, e)
    <2>1. PICK i \in 1..Len(packets) :
             /\ e \in Tells(packets[i]) /\ Agrees(packets[i], now, e)
             /\ \A j \in 1..Len(packets) : i < j => e \notin Tells(packets[j])
      BY <1>3 DEF Settled
    <2>2. i \in 1..Len(more) /\ more[i] = packets[i]
      BY <1>1
    <2>3. ASSUME NEW j \in 1..Len(more), i < j PROVE e \notin Tells(more[j])
      <3>1. j = Len(packets) + 1 \/ j \in 1..Len(packets)
        BY <1>1
      <3> QED
        BY <1>1, <1>3, <2>1, <2>3, <3>1
    <2> QED
      BY <2>1, <2>2, <2>3 DEF Settled
  <1>4. ASSUME e \notin Tells(p), Untold(packets, e)
        PROVE  Untold(more, e)
    <2> SUFFICES ASSUME NEW j \in 1..Len(more) PROVE e \notin Tells(more[j])
      BY DEF Untold
    <2>1. j = Len(packets) + 1 \/ j \in 1..Len(packets)
      BY <1>1
    <2> QED
      BY <1>1, <1>4, <2>1 DEF Untold
  <1> QED
    BY <1>2, <1>3, <1>4 DEF more

\* Send: the same of the line, whether the packet comes in a read of its own or not.
LEMMA SendIs ==
    ASSUME NEW p \in Packet, Send(p), line \in Seq(Seq(Packet)), Len(line) <= MaxReads,
           sent \in 0..MaxSent
    PROVE  /\ line' \in Seq(Seq(Packet)) /\ Len(line') <= MaxReads /\ sent' \in 0..MaxSent
           /\ \A now, e :
                 /\ e \in Tells(p) /\ Agrees(p, now, e) => Waits(line', now, e)
                 /\ e \notin Tells(p) /\ Waits(line, now, e) => Waits(line', now, e)
                 /\ e \notin Tells(p) /\ Silence(line, e) => Silence(line', e)
  <1>0. sent' \in 0..MaxSent
    <2>1. MaxSent \in Nat
      BY PanelAssumption
    <2> QED
      BY <2>1 DEF Send
  <1>1. CASE Len(line) < MaxReads /\ line' = Append(line, <<p>>)
    <2>1. <<p>> \in Seq(Packet) /\ Len(<<p>>) = 1 /\ <<p>>[1] = p
      OBVIOUS
    <2> DEFINE read == <<p>>
    <2> HIDE DEF read
    <2>2. /\ line' \in Seq(Seq(Packet)) /\ Len(line') = Len(line) + 1 /\ Len(line) \in Nat
          /\ line'[Len(line) + 1] = read /\ \A i \in 1..Len(line) : line'[i] = line[i]
      BY <1>1, <2>1 DEF read
    <2>3. Len(line') <= MaxReads
      <3>1. MaxReads \in Nat
        BY PanelAssumption
      <3> QED
        BY <1>1, <2>2, <3>1
    <2>4. ASSUME NEW now, NEW e
          PROVE  /\ e \in Tells(p) /\ Agrees(p, now, e) => Waits(line', now, e)
                 /\ e \notin Tells(p) /\ Waits(line, now, e) => Waits(line', now, e)
                 /\ e \notin Tells(p) /\ Silence(line, e) => Silence(line', e)
      <3>1. /\ e \in Tells(p) /\ Agrees(p, now, e) => Settled(read, now, e)
            /\ e \notin Tells(p) => Untold(read, e)
        BY <2>1 DEF read, Settled, Untold
      <3>2. ASSUME e \in Tells(p), Agrees(p, now, e) PROVE Waits(line', now, e)
        <4>1. Len(line) + 1 \in 1..Len(line') /\ \A j \in 1..Len(line') : ~(Len(line) + 1 < j)
          BY <2>2
        <4> QED
          BY <2>2, <3>1, <3>2, <4>1 DEF Waits
      <3>3. \A j \in 1..Len(line') : j = Len(line) + 1 \/ j \in 1..Len(line)
        BY <2>2
      <3>4. ASSUME e \notin Tells(p), Waits(line, now, e) PROVE Waits(line', now, e)
        <4>1. PICK i \in 1..Len(line) : /\ Settled(line[i], now, e)
                                        /\ \A j \in 1..Len(line) : i < j => Untold(line[j], e)
          BY <3>4 DEF Waits
        <4>2. i \in 1..Len(line') /\ Settled(line'[i], now, e)
          BY <2>2, <4>1
        <4>3. \A j \in 1..Len(line') : i < j => Untold(line'[j], e)
          BY <2>2, <3>1, <3>3, <3>4, <4>1
        <4> QED
          BY <4>2, <4>3 DEF Waits
      <3>5. ASSUME e \notin Tells(p), Silence(line, e) PROVE Silence(line', e)
        BY <2>2, <3>1, <3>3, <3>5 DEF Silence
      <3> QED
        BY <3>2, <3>4, <3>5
    <2> QED
      BY <1>0, <2>2, <2>3, <2>4
  <1>2. CASE /\ line # <<>> /\ Len(line[Len(line)]) = 1
             /\ line' = [line EXCEPT ![Len(line)] = Append(@, p)]
    <2> DEFINE n == Len(line)
               last == line[n]
               more == Append(last, p)
    <2>1. n \in 1..n /\ n \in Nat /\ last \in Seq(Packet)
      BY <1>2
    <2>2. more \in Seq(Packet)
      BY <2>1
    <2>3. line' = [line EXCEPT ![n] = more]
      BY <1>2
    <2> HIDE DEF more
    <2>4. /\ line' \in Seq(Seq(Packet)) /\ Len(line') = n
          /\ line'[n] = more /\ \A i \in 1..n : i # n => line'[i] = line[i]
      BY <2>1, <2>2, <2>3
    <2> HIDE DEF n, last
    <2>5. ASSUME NEW now, NEW e
          PROVE  /\ e \in Tells(p) /\ Agrees(p, now, e) => Waits(line', now, e)
                 /\ e \notin Tells(p) /\ Waits(line, now, e) => Waits(line', now, e)
                 /\ e \notin Tells(p) /\ Silence(line, e) => Silence(line', e)
      <3>1. /\ e \in Tells(p) /\ Agrees(p, now, e) => Settled(more, now, e)
            /\ e \notin Tells(p) /\ Settled(last, now, e) => Settled(more, now, e)
            /\ e \notin Tells(p) /\ Untold(last, e) => Untold(more, e)
        BY <2>1, AppendSettles DEF more
      <3>2. ASSUME e \in Tells(p), Agrees(p, now, e) PROVE Waits(line', now, e)
        <4>1. \A j \in 1..n : ~(n < j)
          BY <2>1
        <4> QED
          BY <2>1, <2>4, <3>1, <3>2, <4>1 DEF Waits
      <3>3. Len(line) = n /\ line[n] = last
        BY DEF n, last
      <3>4. ASSUME e \notin Tells(p), Waits(line, now, e) PROVE Waits(line', now, e)
        <4>1. PICK i \in 1..n : /\ Settled(line[i], now, e)
                                /\ \A j \in 1..n : i < j => Untold(line[j], e)
          BY <3>3, <3>4 DEF Waits
        <4>2. Settled(line'[i], now, e)
          BY <2>4, <3>1, <3>3, <3>4, <4>1
        <4>3. \A j \in 1..n : i < j => Untold(line'[j], e)
          BY <2>4, <3>1, <3>3, <3>4, <4>1
        <4> QED
          BY <2>4, <4>1, <4>2, <4>3 DEF Waits
      <3>5. ASSUME e \notin Tells(p), Silence(line, e) PROVE Silence(line', e)
        BY <2>4, <3>1, <3>3, <3>5 DEF Silence
      <3> QED
        BY <3>2, <3>4, <3>5
    <2>6. Len(line') <= MaxReads
      BY <2>4 DEF n
    <2> QED
      BY <1>0, <2>4, <2>5, <2>6
  <1> QED
    BY <1>1, <1>2 DEF Send

\* The first packet of a read settles what the others do not tell of.
LEMMA TailSettles ==
    ASSUME NEW packets \in Seq(Packet), packets # <<>>, NEW now, NEW e
    PROVE  /\ Settled(packets, now, e) =>
                 \/ Settled(Tail(packets), now, e)
                 \/ /\ Untold(Tail(packets), e)
                    /\ e \in Tells(Head(packets)) /\ Agrees(Head(packets), now, e)
           /\ Untold(packets, e) => e \notin Tells(Head(packets)) /\ Untold(Tail(packets), e)
  <1> DEFINE tail == Tail(packets)
  <1>1. /\ Len(packets) \in Nat /\ Len(packets) >= 1 /\ Len(tail) = Len(packets) - 1
        /\ Head(packets) = packets[1]
        /\ \A i \in 1..Len(tail) : tail[i] = packets[i + 1]
    OBVIOUS
  <1> HIDE DEF tail
  <1>2. ASSUME Settled(packets, now, e)
        PROVE  \/ Settled(tail, now, e)
               \/ Untold(tail, e) /\ e \in Tells(packets[1]) /\ Agrees(packets[1], now, e)
    <2>1. PICK i \in 1..Len(packets) :
             /\ e \in Tells(packets[i]) /\ Agrees(packets[i], now, e)
             /\ \A j \in 1..Len(packets) : i < j => e \notin Tells(packets[j])
      BY <1>2 DEF Settled
    <2>2. CASE i = 1
      <3>1. ASSUME NEW j \in 1..Len(tail) PROVE e \notin Tells(tail[j])
        <4>1. j + 1 \in 1..Len(packets) /\ i < j + 1 /\ tail[j] = packets[j + 1]
          BY <1>1, <2>2
        <4> QED
          BY <2>1, <4>1
      <3> QED
        BY <2>1, <2>2, <3>1 DEF Untold
    <2>3. CASE i # 1
      <3>1. i - 1 \in 1..Len(tail) /\ tail[i - 1] = packets[i]
        BY <1>1, <2>3
      <3>2. ASSUME NEW j \in 1..Len(tail), i - 1 < j PROVE e \notin Tells(tail[j])
        <4>1. j + 1 \in 1..Len(packets) /\ i < j + 1 /\ tail[j] = packets[j + 1]
          BY <1>1, <3>2
        <4> QED
          BY <2>1, <4>1
      <3> QED
        BY <2>1, <3>1, <3>2 DEF Settled
    <2> QED
      BY <2>2, <2>3
  <1>3. ASSUME Untold(packets, e)
        PROVE  e \notin Tells(packets[1]) /\ Untold(tail, e)
    <2>1. 1 \in 1..Len(packets)
      BY <1>1
    <2>2. ASSUME NEW j \in 1..Len(tail) PROVE e \notin Tells(tail[j])
      <3>1. j + 1 \in 1..Len(packets) /\ tail[j] = packets[j + 1]
        BY <1>1
      <3> QED
        BY <1>3, <3>1 DEF Untold
    <2> QED
      BY <1>3, <2>1, <2>2 DEF Untold
  <1> QED
    BY <1>1, <1>2, <1>3 DEF tail

\* stream.read: what waited is settled by the read, or waits still.
LEMMA ReadSettles ==
    ASSUME NEW reads \in Seq(Seq(Packet)), reads # <<>>, NEW now, NEW e
    PROVE  /\ Waits(reads, now, e) =>
                 \/ Waits(Tail(reads), now, e)
                 \/ Silence(Tail(reads), e) /\ Settled(Head(reads), now, e)
           /\ Silence(reads, e) => Untold(Head(reads), e) /\ Silence(Tail(reads), e)
  <1> DEFINE tail == Tail(reads)
  <1>1. /\ Len(reads) \in Nat /\ Len(reads) >= 1 /\ Len(tail) = Len(reads) - 1
        /\ Head(reads) = reads[1]
        /\ \A i \in 1..Len(tail) : tail[i] = reads[i + 1]
    OBVIOUS
  <1> HIDE DEF tail
  <1>2. ASSUME Waits(reads, now, e)
        PROVE  Waits(tail, now, e) \/ (Silence(tail, e) /\ Settled(reads[1], now, e))
    <2>1. PICK i \in 1..Len(reads) : /\ Settled(reads[i], now, e)
                                     /\ \A j \in 1..Len(reads) : i < j => Untold(reads[j], e)
      BY <1>2 DEF Waits
    <2>2. CASE i = 1
      <3>1. ASSUME NEW j \in 1..Len(tail) PROVE Untold(tail[j], e)
        <4>1. j + 1 \in 1..Len(reads) /\ i < j + 1 /\ tail[j] = reads[j + 1]
          BY <1>1, <2>2
        <4> QED
          BY <2>1, <4>1
      <3> QED
        BY <2>1, <2>2, <3>1 DEF Silence
    <2>3. CASE i # 1
      <3>1. i - 1 \in 1..Len(tail) /\ tail[i - 1] = reads[i]
        BY <1>1, <2>3
      <3>2. ASSUME NEW j \in 1..Len(tail), i - 1 < j PROVE Untold(tail[j], e)
        <4>1. j + 1 \in 1..Len(reads) /\ i < j + 1 /\ tail[j] = reads[j + 1]
          BY <1>1, <3>2
        <4> QED
          BY <2>1, <4>1
      <3> QED
        BY <2>1, <3>1, <3>2 DEF Waits
    <2> QED
      BY <2>2, <2>3
  <1>3. ASSUME Silence(reads, e)
        PROVE  Untold(reads[1], e) /\ Silence(tail, e)
    <2>1. 1 \in 1..Len(reads)
      BY <1>1
    <2>2. ASSUME NEW j \in 1..Len(tail) PROVE Untold(tail[j], e)
      <3>1. j + 1 \in 1..Len(reads) /\ tail[j] = reads[j + 1]
        BY <1>1
      <3> QED
        BY <1>3, <3>1 DEF Silence
    <2> QED
      BY <1>3, <2>1, <2>2 DEF Silence
  <1> QED
    BY <1>1, <1>2, <1>3 DEF tail

\* What is settled stays so while what agrees with the panel does.
LEMMA StaysSettled ==
    ASSUME NEW was, NEW now, NEW e, \A p : Agrees(p, was, e) => Agrees(p, now, e)
    PROVE  /\ \A packets : Settled(packets, was, e) => Settled(packets, now, e)
           /\ \A reads : Waits(reads, was, e) => Waits(reads, now, e)
  <1>1. \A packets : Settled(packets, was, e) => Settled(packets, now, e)
    BY DEF Settled
  <1> QED
    BY <1>1 DEF Waits

-----------------------------------------------------------------------------
(* The invariant.                                                          *)

\* The types, and tables that are good.
Typed ==
    /\ panel \in PanelType /\ InUse(panel)
    /\ sent \in 0..MaxSent
    /\ line \in Seq(Seq(Packet)) /\ Len(line) <= MaxReads
    /\ rest \in Seq(Packet)
    /\ Good(bridge)
    /\ doubt \subseteq Entities \cup {ServiceMode}

\* Of every entity: a packet that waits will set it right, or it is right, or
\* doubtful.
Accounted(e) ==
    \/ Waits(line, panel, e)
    \/ Silence(line, e) /\ Settled(rest, panel, e)
    \/ /\ Silence(line, e) /\ Untold(rest, e)
       /\ e \in Wrong(bridge, panel) => e \in doubt

\* The invariant.
IInv == Typed /\ \A e \in Entities \cup {ServiceMode} : Accounted(e)

\* Where nothing is on its way, nothing is told.
LEMMA EmptyIs ==
    /\ <<>> \in Seq(Packet) /\ <<>> \in Seq(Seq(Packet)) /\ Len(<<>>) = 0
    /\ \A e : Untold(<<>>, e) /\ Silence(<<>>, e)
    /\ \A now, e : ~Settled(<<>>, now, e) /\ ~Waits(<<>>, now, e)
  <1>1. <<>> \in Seq(Packet) /\ <<>> \in Seq(Seq(Packet)) /\ Len(<<>>) = 0
    OBVIOUS
  <1>2. \A e : Untold(<<>>, e) /\ Silence(<<>>, e)
    BY DEF Untold, Silence
  <1>3. \A now, e : ~Settled(<<>>, now, e) /\ ~Waits(<<>>, now, e)
    BY DEF Settled, Waits
  <1> QED
    BY <1>1, <1>2, <1>3

\* Good tables are tables.
LEMMA GoodTables == \A b : Good(b) => b \in Tables
  BY DEF Good

\* The bridge shows at its first start what is the case, without a packet.
LEMMA InitInv == Init => IInv
  <1> SUFFICES ASSUME Init PROVE IInv
    OBVIOUS
  <1>1. NumSections \in 1..15 /\ Sections = 1..NumSections
    BY PanelAssumption DEF Sections, MaxSections
  <1>2. 1 \in Sections
    BY <1>1
  <1>3. <<Disarmed, 0>> \in Pairs /\ Unused \in Pairs /\ <<Disarmed, 0>> # Unused
    <2>1. <<1, 0>> \in Pairs /\ <<7, 0>> \in Pairs
      BY PairsAre
    <2> QED
      BY <2>1 DEF Disarmed, Unused
  <1>4. panel \in PanelType
    BY <1>3 DEF Init, PanelType
  <1>5. UsedNow(panel) = 1..1
    <2>1. \A s \in Sections : panel.sections[s] # Unused <=> s = 1
      BY <1>3 DEF Init
    <2> QED
      BY <1>2, <2>1 DEF UsedNow
  <1>6. AsStored(EmptyFile)
    <2>1. All({}, "none") \in Shows /\ DOMAIN All({}, "none") = {}
      BY AllShows DEF States
    <2> QED
      BY <2>1 DEF AsStored, EmptyFile, Files
  <1> DEFINE pairs == AllSections(panel).pairs
  <1>7. /\ Good(bridge) /\ bridge.inService = FALSE /\ bridge.stored = EmptyFile
        /\ bridge.entities = (Due(EmptyFile) \ SectionEntities(Sections)) \cup SectionEntities(1..1)
        /\ \A e \in bridge.entities \ DOMAIN bridge.stored.states : bridge.shown[e] = First(e, pairs)
    <2>1. bridge = Started(EmptyFile, panel, FALSE)
      BY DEF Init
    <2>2. FALSE \in BOOLEAN
      OBVIOUS
    <2> HIDE DEF pairs
    <2>3. Restored(Started(EmptyFile, panel, FALSE), EmptyFile, panel, 1, FALSE)
      BY <1>2, <1>4, <1>5, <1>6, <2>2, StartedIs
    <2> QED
      BY <2>1, <2>3 DEF Restored, pairs
  <1>8. /\ panel.service = FALSE /\ panel.active = {} /\ panel.faults = {} /\ panel.low = {}
        /\ panel.lan = TRUE /\ panel.pg = FALSE /\ panel.power = FALSE
    BY DEF Init
  <1>9. pairs[1] = panel.sections[1]
    <2>1. \A s \in 1..1 : pairs[s] = IF panel.service THEN ServicePair ELSE panel.sections[s]
      BY <1>2, <1>4, <1>5, UsedOf
    <2> QED
      BY <1>8, <2>1
  <1> HIDE DEF pairs
  <1>10. \A e \in bridge.entities : bridge.shown[e] = First(e, pairs)
    <2>1. DOMAIN bridge.stored.states = {}
      BY <1>7 DEF EmptyFile, All
    <2> QED
      BY <1>7, <2>1
  <1>11. Always \subseteq bridge.entities /\ Expected(panel) \subseteq bridge.entities
    <2>1. Always \subseteq bridge.entities
      BY <1>7 DEF Good, Kept
    <2> QED
      BY <1>5, <1>7, <2>1 DEF Expected, Always
  <1>12. ASSUME NEW e \in Entities, Amiss(bridge, panel, e) PROVE FALSE
    <2>1. e \in bridge.entities /\ Speaks(panel, e) /\ bridge.shown[e] # TrueState(panel, e)
      BY <1>11, <1>12 DEF Amiss
    <2>2. bridge.shown[e] = First(e, pairs)
      BY <1>10, <2>1
    <2>3. CASE e[1] \in SectionKinds
      <3>1. e[2] \in UsedNow(panel)
        BY <2>1, <2>3 DEF Speaks, SectionKinds
      <3>2. e[2] = 1
        BY <1>5, <3>1
      <3>3. TrueState(panel, e) = SectionEntityState(e, panel.sections[1])
        BY <2>3, <3>2 DEF TrueState, SectionKinds
      <3> QED
        BY <1>9, <2>1, <2>2, <2>3, <3>2, <3>3 DEF First
    <2>4. CASE e[1] \notin SectionKinds
      <3>1. bridge.shown[e] = Initially(e)
        BY <2>2, <2>4, FirstIs
      <3>2. e \in Always \cup ({"bus"} \X {1})
        <4>1. e \in Due(EmptyFile)
          BY <1>7, <2>1, <2>4 DEF SectionEntities, SectionKinds
        <4>2. BatteryEntities({}) = {}
          BY DEF BatteryEntities
        <4> QED
          BY <2>4, <4>1, <4>2 DEF Due, EmptyFile, SectionEntities, SectionKinds
      <3>3. e[1] # "bus"
        BY <2>1 DEF Speaks, SectionKinds
      <3>4. e \in Always
        BY <3>2, <3>3
      <3>5. CASE e[1] \in {"state", "problem"}
        BY <1>8, <2>1, <3>1, <3>5 DEF TrueState, Initially, OnOff, SectionKinds
      <3>6. CASE e[1] \in {"pg", "lan", "power"}
        BY <1>8, <2>1, <3>1, <3>6 DEF TrueState, Initially, OnOff, SectionKinds
      <3> QED
        BY <3>4, <3>5, <3>6 DEF Always
    <2> QED
      BY <2>3, <2>4
  <1>13. \A e \in Entities \cup {ServiceMode} : e \notin Wrong(bridge, panel)
    BY <1>4, <1>7, <1>8, <1>12, WrongIs, GoodTables
  <1>14. Typed
    <2>1. MaxSent \in Nat /\ MaxReads \in Nat
      BY PanelAssumption
    <2>2. InUse(panel)
      BY <1>2, <1>5 DEF InUse
    <2>3. sent = 0 /\ line = <<>> /\ rest = <<>> /\ doubt = {}
      BY DEF Init
    <2>4. sent \in 0..MaxSent /\ Len(line) <= MaxReads
      BY <2>1, <2>3, EmptyIs
    <2>5. line \in Seq(Seq(Packet)) /\ rest \in Seq(Packet)
      BY <2>3, EmptyIs
    <2> QED
      BY <1>4, <1>7, <2>2, <2>3, <2>4, <2>5 DEF Typed
  <1>15. \A e \in Entities \cup {ServiceMode} : Accounted(e)
    BY <1>13, EmptyIs DEF Init, Accounted
  <1> QED
    BY <1>14, <1>15 DEF IInv

\* What is handled, lost or restored leaves nothing unaccounted for.
LEMMA HandleNextInv ==
    ASSUME IInv, HandleNext
    PROVE  IInv'
  <1> DEFINE p == Head(rest)
             tail == Tail(rest)
  <1>1. /\ panel \in PanelType /\ InUse(panel) /\ Good(bridge) /\ line \in Seq(Seq(Packet))
        /\ rest \in Seq(Packet) /\ doubt \subseteq Entities \cup {ServiceMode}
        /\ sent \in 0..MaxSent /\ Len(line) <= MaxReads
    BY DEF IInv, Typed
  <1>2. /\ rest # <<>> /\ ~Raises(bridge, p) /\ bridge' = Handle(bridge, p)
        /\ doubt' = (doubt \ Tells(p)) \cup Misleads(bridge, p)
        /\ rest' = tail /\ panel' = panel /\ sent' = sent /\ line' = line
    BY DEF HandleNext
  <1>3. p \in Packet /\ tail \in Seq(Packet)
    BY <1>1, <1>2
  <1>4. \A e : /\ Settled(rest, panel, e) =>
                     \/ Settled(tail, panel, e)
                     \/ Untold(tail, e) /\ e \in Tells(p) /\ Agrees(p, panel, e)
               /\ Untold(rest, e) => e \notin Tells(p) /\ Untold(tail, e)
    BY <1>1, <1>2, TailSettles
  <1> HIDE DEF p, tail
  <1>5. /\ Good(bridge') /\ Misleads(bridge, p) \subseteq Entities
        /\ \A e \in Wrong(bridge', panel) :
              /\ e \in Tells(p) /\ Agrees(p, panel, e) => e \in Misleads(bridge, p)
              /\ e \notin Tells(p) => e \in Wrong(bridge, panel) \/ e \in Misleads(bridge, p)
    BY <1>1, <1>2, <1>3, PacketIs, HandleNextIs
  <1>6. Typed'
    BY <1>1, <1>2, <1>3, <1>5 DEF Typed
  <1>7. ASSUME NEW e \in Entities \cup {ServiceMode} PROVE Accounted(e)'
    <2>1. CASE Waits(line, panel, e)
      BY <1>2, <2>1 DEF Accounted
    <2>2. CASE Silence(line, e) /\ Settled(rest, panel, e)
      <3>1. CASE Settled(tail, panel, e)
        BY <1>2, <2>2, <3>1 DEF Accounted
      <3>2. CASE Untold(tail, e) /\ e \in Tells(p) /\ Agrees(p, panel, e)
        BY <1>2, <1>5, <2>2, <3>2 DEF Accounted
      <3> QED
        BY <1>4, <2>2, <3>1, <3>2
    <2>3. CASE /\ Silence(line, e) /\ Untold(rest, e)
               /\ e \in Wrong(bridge, panel) => e \in doubt
      <3>1. e \notin Tells(p) /\ Untold(tail, e)
        BY <1>4, <2>3
      <3> QED
        BY <1>2, <1>5, <2>3, <3>1 DEF Accounted
    <2> QED
      BY <2>1, <2>2, <2>3 DEF IInv, Accounted
  <1> QED
    BY <1>6, <1>7 DEF IInv

\* What the panel sends sets right all that it tells of, when its turn comes.
LEMMA SendInv ==
    ASSUME IInv, NEW p, Told(panel, panel', p), Send(p), UNCHANGED <<rest, bridge, doubt>>
    PROVE  IInv'
  <1>1. /\ panel \in PanelType /\ Good(bridge) /\ line \in Seq(Seq(Packet))
        /\ rest \in Seq(Packet) /\ sent \in 0..MaxSent /\ Len(line) <= MaxReads
    BY DEF IInv, Typed
  <1>2. panel' \in PanelType /\ InUse(panel') /\ p \in Packet
    BY PacketIs DEF Told, Fresh
  <1>3. /\ line' \in Seq(Seq(Packet)) /\ Len(line') <= MaxReads /\ sent' \in 0..MaxSent
        /\ \A now, e :
              /\ e \in Tells(p) /\ Agrees(p, now, e) => Waits(line', now, e)
              /\ e \notin Tells(p) /\ Waits(line, now, e) => Waits(line', now, e)
              /\ e \notin Tells(p) /\ Silence(line, e) => Silence(line', e)
    BY <1>1, <1>2, SendIs
  <1>4. Typed'
    <2>1. InUse(panel)'
      BY <1>2 DEF InUse, UsedNow
    <2>2. Good(bridge)'
      BY <1>1 DEF Good, Kept
    <2> QED
      BY <1>1, <1>2, <1>3, <2>1, <2>2 DEF IInv, Typed
  <1>5. ASSUME NEW e \in Entities \cup {ServiceMode} PROVE Accounted(e)'
    <2>1. CASE e \in Tells(p)
      <3>1. Agrees(p, panel', e)
        BY <2>1 DEF Told, Fresh
      <3>2. Waits(line', panel', e)
        BY <1>3, <2>1, <3>1
      <3> QED
        BY <3>2 DEF Accounted
    <2>2. CASE e \notin Tells(p)
      <3>1. Stays(panel, panel', e)
        BY <2>2 DEF Told
      <3>2. /\ \A q : Agrees(q, panel, e) => Agrees(q, panel', e)
            /\ e \in Wrong(bridge, panel') => e \in Wrong(bridge, panel)
        BY <1>1, <1>2, <3>1, GoodTables, StaysWrong
      <3>3. /\ \A packets : Settled(packets, panel, e) => Settled(packets, panel', e)
            /\ \A reads : Waits(reads, panel, e) => Waits(reads, panel', e)
        BY <3>2, StaysSettled
      <3>4. rest' = rest /\ bridge' = bridge /\ doubt' = doubt
        OBVIOUS
      <3>5. Accounted(e)
        BY DEF IInv
      <3> QED
        BY <1>3, <2>2, <3>2, <3>3, <3>4, <3>5 DEF Accounted
    <2> QED
      BY <2>1, <2>2
  <1> QED
    BY <1>4, <1>5 DEF IInv

\* A read is handled before those after it.
LEMMA ReadInv ==
    ASSUME IInv, Read
    PROVE  IInv'
  <1>1. /\ line \in Seq(Seq(Packet)) /\ line # <<>> /\ rest = <<>> /\ Len(line) <= MaxReads
        /\ rest' = Head(line) /\ line' = Tail(line)
        /\ panel' = panel /\ sent' = sent /\ bridge' = bridge /\ doubt' = doubt
    BY DEF IInv, Typed, Read
  <1>2. rest' \in Seq(Packet) /\ line' \in Seq(Seq(Packet)) /\ Len(line') <= MaxReads
    <2>1. MaxReads \in Nat
      BY PanelAssumption
    <2> QED
      BY <1>1, <2>1
  <1>3. Typed'
    BY <1>1, <1>2 DEF IInv, Typed
  <1>4. ASSUME NEW e \in Entities \cup {ServiceMode} PROVE Accounted(e)'
    <2>1. /\ Waits(line, panel, e) =>
                \/ Waits(line', panel, e)
                \/ Silence(line', e) /\ Settled(rest', panel, e)
          /\ Silence(line, e) => Untold(rest', e) /\ Silence(line', e)
      BY <1>1, ReadSettles
    <2>2. ~Settled(rest, panel, e)
      BY <1>1, EmptyIs
    <2>3. Accounted(e)
      BY DEF IInv
    <2> QED
      BY <1>1, <2>1, <2>2, <2>3 DEF Accounted
  <1> QED
    BY <1>3, <1>4 DEF IInv

\* What is lost is doubtful from then on.
LEMMA LossInv ==
    ASSUME IInv, Good(bridge'), panel' = panel, sent' = sent, line' = <<>>, rest' = <<>>,
           doubt' \subseteq Entities \cup {ServiceMode}, Wrong(bridge', panel) \subseteq doubt'
    PROVE  IInv'
  <1>1. MaxReads \in Nat
    BY PanelAssumption
  <1>2. Typed'
    BY <1>1, EmptyIs DEF IInv, Typed
  <1>3. ASSUME NEW e \in Entities \cup {ServiceMode} PROVE Accounted(e)'
    BY EmptyIs DEF Accounted
  <1> QED
    BY <1>2, <1>3 DEF IInv

\* Only entities and the service mode are wrong.
LEMMA WrongBounded ==
    ASSUME NEW b, Good(b), panel \in PanelType
    PROVE  Wrong(b, panel) \subseteq Entities \cup {ServiceMode}
  BY WrongIs, GoodTables

\* Good tables hand to the store a file that can be loaded.
LEMMA GoodIsStored ==
    ASSUME NEW b, Good(b)
    PROVE  AsStored(b.stored)
  BY DEF Good, Kept, Tables, AsStored

-----------------------------------------------------------------------------
(* The theorems.                                                           *)

\* A start loses what waits, and is taken at its word of nothing.
LEMMA RestartInv ==
    ASSUME IInv, NEW withPg \in BOOLEAN, Restart(withPg)
    PROVE  IInv'
  <1>1. panel \in PanelType /\ InUse(panel) /\ Good(bridge)
    BY DEF IInv, Typed
  <1>2. /\ bridge' = Started(bridge.stored, panel, withPg) /\ doubt' = Wrong(bridge', panel)
        /\ line' = <<>> /\ rest' = <<>> /\ panel' = panel /\ sent' = sent
    BY DEF Restart
  <1>3. PICK n \in Sections : UsedNow(panel) = 1..n
    BY <1>1 DEF InUse
  <1>4. AsStored(bridge.stored)
    BY <1>1, GoodIsStored
  <1>5. Restored(Started(bridge.stored, panel, withPg), bridge.stored, panel, n, withPg)
    BY <1>1, <1>3, <1>4, StartedIs
  <1>6. Good(bridge')
    BY <1>2, <1>5 DEF Restored
  <1>7. doubt' \subseteq Entities \cup {ServiceMode}
    BY <1>1, <1>2, <1>6, WrongBounded
  <1> QED
    BY <1>2, <1>6, <1>7, LossInv

\* An exception or a stream reopened loses what waits, and makes it doubtful.
LEMMA DoubtfulInv ==
    ASSUME IInv, doubt' = doubt \cup Wrong(bridge, panel), rest' = <<>>, line' = <<>>,
           UNCHANGED <<panel, sent, bridge>>
    PROVE  IInv'
  <1>1. /\ panel \in PanelType /\ Good(bridge) /\ doubt \subseteq Entities \cup {ServiceMode}
        /\ panel' = panel /\ sent' = sent /\ bridge' = bridge
    BY DEF IInv, Typed
  <1>2. Wrong(bridge, panel) \subseteq Entities \cup {ServiceMode}
    BY <1>1, WrongBounded
  <1>3. doubt' \subseteq Entities \cup {ServiceMode} /\ Wrong(bridge', panel) \subseteq doubt'
    BY <1>1, <1>2
  <1>4. Good(bridge')
    BY <1>1
  <1> QED
    BY <1>1, <1>3, <1>4, LossInv

\* A fresh packet is told also when nothing changes.
LEMMA SameTold ==
    ASSUME NEW now \in PanelType, InUse(now), NEW p, Fresh(p, now)
    PROVE  Told(now, now, p)
  BY DEF Told, Stays

\* A repeated state or an oddity.
LEMMA ReportsInv ==
    ASSUME IInv, NEW p, Fresh(p, panel), Report(p)
    PROVE  IInv'
  <1>1. Told(panel, panel, p)
    BY SameTold DEF IInv, Typed
  <1>2. panel' = panel /\ Send(p) /\ UNCHANGED <<rest, bridge, doubt>>
    BY DEF Report
  <1>3. Told(panel, panel', p)
    BY <1>1, <1>2
  <1> QED
    BY <1>2, <1>3, SendInv

\* Every step.
LEMMA NextInv ==
    ASSUME IInv, [Next]_vars
    PROVE  IInv'
  <1>1. panel \in PanelType /\ InUse(panel)
    BY DEF IInv, Typed
  <1>2. CASE PanelChanges
    <2>1. PICK p : Told(panel, panel', p) /\ Send(p) /\ UNCHANGED <<rest, bridge, doubt>>
      BY <1>1, <1>2, PanelChangesTell
    <2> QED
      BY <2>1, SendInv
  <1>3. CASE Repeats
    BY <1>1, <1>3, ReportFresh, ReportsInv DEF Repeats
  <1>4. CASE SendsOddity
    BY <1>1, <1>4, OddityFresh, ReportsInv DEF SendsOddity
  <1>5. CASE Read
    BY <1>5, ReadInv
  <1>6. CASE HandleNext
    BY <1>6, HandleNextInv
  <1>7. CASE HandleRaises
    BY <1>7, DoubtfulInv DEF HandleRaises
  <1>8. CASE Reopen
    BY <1>8, DoubtfulInv DEF Reopen
  <1>9. CASE Restart(TRUE) \/ Restart(FALSE)
    BY <1>9, RestartInv
  <1>10. CASE UNCHANGED vars
    <2>1. /\ panel' = panel /\ sent' = sent /\ line' = line /\ rest' = rest
          /\ bridge' = bridge /\ doubt' = doubt
      BY <1>10 DEF vars
    <2>2. Typed'
      BY <2>1 DEF IInv, Typed
    <2>3. \A e \in Entities \cup {ServiceMode} : Accounted(e)'
      BY <2>1 DEF IInv, Accounted
    <2> QED
      BY <2>2, <2>3 DEF IInv
  <1> QED
    BY <1>2, <1>3, <1>4, <1>5, <1>6, <1>7, <1>8, <1>9, <1>10 DEF Next

\* The invariant holds in every state that is reached.
LEMMA Invariant == Spec => []IInv
  BY InitInv, NextInv, PTL DEF Spec

\* The type invariant: of the panel, of what is on its way, and of the tables
\* with what they hand to the store.
THEOREM TypeCorrect == Spec => []TypeOK
  <1>1. IInv => TypeOK
    <2> SUFFICES ASSUME IInv PROVE TypeOK
      OBVIOUS
    <2>1. /\ panel \in PanelType /\ sent \in 0..MaxSent /\ Len(line) <= MaxReads
          /\ doubt \subseteq Entities \cup {ServiceMode}
          /\ bridge \in Tables /\ Kept(bridge)
      BY DEF IInv, Typed, Good
    <2>2. /\ bridge.entities \subseteq DOMAIN bridge.shown
          /\ \A e \in DOMAIN bridge.stored.states : Stored(e)
      BY <2>1 DEF Kept
    <2>3. /\ DOMAIN bridge.shown \subseteq Entities
          /\ \A e \in DOMAIN bridge.shown : bridge.shown[e] \in States
      BY <2>1 DEF Tables, Shows
    <2>4. /\ bridge.battery \subseteq Known \cup {CentralUnit}
          /\ bridge.buses \subseteq Buses \cup {1}
      BY <2>1 DEF Tables
    <2> QED
      BY <2>1, <2>2, <2>3, <2>4 DEF TypeOK
  <1> QED
    BY <1>1, Invariant, PTL

\* For any panel: an entity that a packet makes the bridge create is announced
\* by the method that creates it, so none waits for the next one to be noticed.
THEOREM NoneUnannounced == Spec => []Announced
  <1>1. IInv => Announced
    BY DEF IInv, Typed, Good, Announced
  <1> QED
    BY <1>1, Invariant, PTL

\* For any panel: a restart from the file as it is now would create every entity
\* but those of sections, which it takes from the panel, and show each state
\* that is stored as it is shown now.
THEOREM RestartRestores == Spec => []RestartShowsTheSame
  <1>1. IInv => RestartShowsTheSame
    <2> SUFFICES ASSUME IInv PROVE RestartShowsTheSame
      OBVIOUS
    <2>1. panel \in PanelType /\ InUse(panel) /\ Good(bridge) /\ Kept(bridge)
      BY DEF IInv, Typed, Good
    <2>2. PICK n \in Sections : UsedNow(panel) = 1..n
      BY <2>1 DEF InUse
    <2> DEFINE again == Started(bridge.stored, panel, FALSE)
    <2>3. Restored(again, bridge.stored, panel, n, FALSE)
      BY <2>1, <2>2, GoodIsStored, StartedIs
    <2> HIDE DEF again
    <2>4. /\ Kept(again) /\ again.stored = bridge.stored
          /\ again.entities = (Due(bridge.stored) \ SectionEntities(Sections)) \cup SectionEntities(1..n)
      BY <2>3 DEF Restored, Good
    <2>5. ASSUME NEW e \in bridge.entities, e[1] \notin SectionKinds
          PROVE  e \in again.entities /\ (Stored(e) => again.shown[e] = bridge.shown[e])
      <3>1. e \in Due(bridge.stored) /\ e \notin SectionEntities(Sections)
        BY <2>1, <2>5 DEF Kept, SectionEntities, SectionKinds
      <3>2. e \in again.entities
        BY <2>4, <3>1
      <3>3. CASE e \in DOMAIN bridge.stored.states
        BY <2>1, <2>4, <3>2, <3>3 DEF Kept
      <3>4. CASE e \notin DOMAIN bridge.stored.states
        BY <2>1, <2>4, <2>5, <3>2, <3>4 DEF Kept
      <3> QED
        BY <3>2, <3>3, <3>4
    <2> QED
      BY <2>5 DEF again, RestartShowsTheSame
  <1> QED
    BY <1>1, Invariant, PTL

\* For any panel, in any order of changes, repetitions, reads that hold one
\* packet or two, exceptions, streams reopened and restarts: when all that
\* arrived is handled, nothing is shown wrongly that is not in doubt because
\* of a loss, of a start, or of a low battery taken for activity.
THEOREM TruthfulUnlessDoubtful == Spec => []Truthful
  <1>1. IInv => Truthful
    <2> SUFFICES ASSUME IInv, line = <<>>, rest = <<>>
                 PROVE  Wrong(bridge, panel) \subseteq doubt
      BY DEF Truthful
    <2>1. Wrong(bridge, panel) \subseteq Entities \cup {ServiceMode}
      BY WrongBounded DEF IInv, Typed
    <2>2. ASSUME NEW e \in Entities \cup {ServiceMode} PROVE e \in Wrong(bridge, panel) => e \in doubt
      <3>1. Accounted(e)
        BY DEF IInv
      <3> QED
        BY <3>1, EmptyIs DEF Accounted
    <2> QED
      BY <2>1, <2>2
  <1> QED
    BY <1>1, Invariant, PTL
=============================================================================
