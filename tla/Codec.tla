-------------------------------- MODULE Codec --------------------------------
(***************************************************************************)
(* The conversions of the panel's protocol (core.py, const.py): what the   *)
(* bridge reads in the bytes of a packet, and the section command it       *)
(* writes.  Pure operators, used by the modules of the handlers.           *)
(* A byte is a number; byte i of packet[i:i+1] in the code is the argument *)
(* named here.                                                             *)
(***************************************************************************)
EXTENDS Integers, Sequences

Byte == 0..255

\* The bit of value w (1, 2, 4, ... 128) of a byte.
Bit(byte, w) == (byte \div w) % 2 = 1

OnOff(on) == IF on THEN "on" ELSE "off"

-----------------------------------------------------------------------------
(* Device state packets: byte 2 an event and flags, byte 3 the state,      *)
(* bytes 4 and 5 the device's number.                                      *)

DeviceNumbers == Byte

\* Ten bits of two little-endian bytes, of which the lower eight are meant.
DeviceNumber(byte4, byte5) == ((byte4 + 256 * byte5) \div 64) % 256

HighNumberOffset(number) ==
    CASE number <= 37 -> 0
      [] number > 37 /\ number <= 101 -> -64
      [] number > 101 /\ number <= 165 -> -128
      [] number > 165 /\ number <= 229 -> -192
      [] OTHER -> -256

StatesOffset(number) == (number + HighNumberOffset(number)) * 4 + 104

\* Two codes of each state; any other code says nothing.
DeviceState(byte3, number) ==
    LET code == byte3 - StatesOffset(number)
    IN  CASE code \in {0, 1} -> "on"
          [] code \in {2, 3} -> "off"
          [] OTHER -> "unknown"

HeartbeatEvent == 15
ActivityEvent == 4

Event(byte2) == byte2 % 32                      \* DEVICE_STATE_EVENT_MASK

IsHeartbeat(byte2) == byte2 = 51 \/ Event(byte2) = HeartbeatEvent

Fault(byte2) ==
    CASE Event(byte2) = 20 -> "battery"
      [] Event(byte2) = 5 -> "power_supply"
      [] Event(byte2) = 6 -> "sabotage"
      [] Event(byte2) = 7 -> "unknown"
      [] OTHER -> "none"

-----------------------------------------------------------------------------
(* Sections states packets: a pair of bytes per section, as many as are    *)
(* used.                                                                   *)

MaxSections == 15
Unused == <<7, 0>>

\* SectionPrimaryState
Disarmed == 1
ArmedPartially == 2
ArmedFull == 3
Service == 5
Blocked == 6

SectionState(pair) ==
    [state |-> pair[1] % 8,
     arming |-> Bit(pair[1], 128),
     pending |-> Bit(pair[1], 64),
     problem |-> Bit(pair[1], 32),
     triggered |-> Bit(pair[1], 16) \/ Bit(pair[1], 8)
                     \/ Bit(pair[2], 64) \/ Bit(pair[2], 8) \/ Bit(pair[2], 4),
     sabotage |-> Bit(pair[2], 16),
     fire |-> Bit(pair[2], 2)]

\* How many sections the pairs of a packet describe.
UsedSections(pairs) ==
    LET used == {n \in 0..MaxSections : \A i \in 1..n : i <= Len(pairs) => pairs[i] # Unused}
    IN  CHOOSE n \in used : \A other \in used : other <= n

\* No SectionPrimaryState has the value 0; a packet that ends before the
\* unused section is read as if it did.
SectionsPacketRaises(pairs) ==
    \E i \in 1..UsedSections(pairs) : i <= Len(pairs) => pairs[i][1] % 8 = 0

AlarmState(s, homeMode) ==
    CASE s.state \in {Service, Blocked} -> "none"
      [] s.state \notin {Service, Blocked} /\ (s.triggered \/ s.sabotage) -> "triggered"
      [] s.state \notin {Service, Blocked} /\ ~(s.triggered \/ s.sabotage) ->
            CASE s.pending -> "pending"
              [] ~s.pending /\ s.arming -> "arming"
              [] ~s.pending /\ ~s.arming /\ s.state = ArmedFull -> "armed_away"
              [] ~s.pending /\ ~s.arming /\ s.state = ArmedPartially ->
                    IF homeMode THEN "armed_home" ELSE "armed_night"
              [] OTHER -> "disarmed"

ProblemState(s) == OnOff(s.problem \/ s.sabotage)

FireState(s) == OnOff(s.fire)

-----------------------------------------------------------------------------
(* Levels.                                                                 *)

\* Low nibble in steps of 10: 11 to 15 are no levels.  (101 to 110 would be
\* an InvalidBatteryLevel; no nibble is.)
HasBatteryLevel(byte) == byte % 16 <= 10

Battery(byte) ==
    [level |-> (byte % 16) * 10, ok |-> ~Bit(byte, 32) /\ ~Bit(byte, 16)]

\* Tenths of a degree, two bytes, the upper one signed.
Temperature(byte3, byte4) == byte3 + 256 * (IF byte4 >= 128 THEN byte4 - 256 ELSE byte4)

SmokeTemperature(byte1) == IF byte1 > 100 THEN byte1 - 128 ELSE byte1

-----------------------------------------------------------------------------
(* What is written.                                                        *)

\* MODIFY_SECTION, one byte: the wanted state and the section.
ModifyBase(state) ==
    CASE state = "disarmed" -> 143
      [] state = "armed_away" -> 159
      [] OTHER -> 175           \* armed_home and armed_night

ModifyByte(state, section) == ModifyBase(state) + section
=============================================================================
