----------------------------- MODULE CodecProofs -----------------------------
(***************************************************************************)
(* What the conversions of Codec decode, for every byte and every number.  *)
(***************************************************************************)
EXTENDS Codec, TLAPS

\* The five ranges of _convert_jablotron_device_state_to_state are one
\* formula: the codes of a device start at 4 * number + 104, modulo 256.
LEMMA OffsetIsModular ==
    ASSUME NEW number \in DeviceNumbers
    PROVE  /\ StatesOffset(number) = (4 * number + 104) % 256
           /\ StatesOffset(number) \in 0..252
BY DEF StatesOffset, HighNumberOffset, DeviceNumbers, Byte

\* At no boundary between two ranges of numbers does a code fall out of the
\* byte or into the other state: for each of the 256 numbers the two codes of
\* "on" and the two of "off" are bytes, and read as that state.
THEOREM DeviceStateDecodes ==
    ASSUME NEW number \in DeviceNumbers, NEW variant \in {0, 1}
    PROVE  LET code == ((4 * number + 104) % 256) + variant
           IN  /\ code \in Byte /\ code + 2 \in Byte
               /\ DeviceState(code, number) = "on"
               /\ DeviceState(code + 2, number) = "off"
BY OffsetIsModular DEF DeviceState, Byte

\* A code read with the number of another device says something wrong only
\* if the numbers differ by a multiple of 64: a number that was misread
\* otherwise is noticed as an unknown state.
THEOREM DeviceStatesApart ==
    ASSUME NEW number \in DeviceNumbers, NEW other \in DeviceNumbers,
           number % 64 # other % 64,
           NEW code \in Byte, DeviceState(code, number) # "unknown"
    PROVE  DeviceState(code, other) = "unknown"
<1> DEFINE Turns == {0, 64, 128, 192, 256}
<1>1. \A n \in DeviceNumbers : \E h \in Turns : StatesOffset(n) = 4 * (n - h) + 104
  <2> SUFFICES ASSUME NEW n \in DeviceNumbers
               PROVE  \E h \in Turns : StatesOffset(n) = 4 * (n - h) + 104
    OBVIOUS
  <2>1. HighNumberOffset(n) \in {0, -64, -128, -192, -256}
    BY DEF HighNumberOffset
  <2>2. HighNumberOffset(n) \in Int /\ 0 - HighNumberOffset(n) \in Turns
    BY <2>1
  <2>3. StatesOffset(n) = 4 * (n - (0 - HighNumberOffset(n))) + 104
    BY <2>2 DEF StatesOffset, DeviceNumbers, Byte
  <2> QED
    BY <2>2, <2>3
<1>2. PICK h \in Turns : StatesOffset(number) = 4 * (number - h) + 104
  BY <1>1
<1>3. PICK g \in Turns : StatesOffset(other) = 4 * (other - g) + 104
  BY <1>1
<1>4. code - StatesOffset(number) \in 0..3
  BY OffsetIsModular DEF DeviceState, Byte
<1>5. code - StatesOffset(other) \notin {0, 1, 2, 3}
  <2> SUFFICES ASSUME code - StatesOffset(other) \in 0..3 PROVE FALSE
    OBVIOUS
  <2>1. number - h = other - g
    BY <1>2, <1>3, <1>4 DEF DeviceNumbers, Byte
  <2>2. number = other + (h - g)
    BY <2>1 DEF DeviceNumbers, Byte
  <2>3. number % 64 = other % 64
    BY <2>2 DEF DeviceNumbers, Byte
  <2> QED
    BY <2>3
<1> QED
  BY <1>5 DEF DeviceState

\* No byte has a battery level above 100: InvalidBatteryLevel is never
\* raised, and a level is shown or the packet says nothing of one.
THEOREM BatteryLevelBounded ==
    ASSUME NEW byte \in Byte, HasBatteryLevel(byte)
    PROVE  Battery(byte).level \in 0..100
BY DEF HasBatteryLevel, Battery, Byte

\* The command byte of MODIFY_SECTION names one section and one state (home
\* and night are the same to the panel), whatever section is commanded.
THEOREM ModifyByteInjective ==
    ASSUME NEW section \in 1..MaxSections, NEW other \in 1..MaxSections,
           NEW state \in {"disarmed", "armed_away", "armed_home", "armed_night"},
           NEW wanted \in {"disarmed", "armed_away", "armed_home", "armed_night"},
           ModifyByte(state, section) = ModifyByte(wanted, other)
    PROVE  /\ section = other
           /\ ModifyBase(state) = ModifyBase(wanted)
           /\ ModifyByte(state, section) \in Byte
<1>1. ModifyBase(state) \in {143, 159, 175} /\ ModifyBase(wanted) \in {143, 159, 175}
  BY DEF ModifyBase
<1> QED
  BY <1>1 DEF ModifyByte, MaxSections, Byte

\* The two bytes of a temperature, in tenths of a degree, are read as two's
\* complement of sixteen bits: every reading below zero too.
THEOREM TemperatureDecodes ==
    ASSUME NEW byte3 \in Byte, NEW byte4 \in Byte
    PROVE  LET word == byte3 + 256 * byte4
           IN  Temperature(byte3, byte4) = IF word >= 32768 THEN word - 65536 ELSE word
<1>1. CASE byte4 >= 128
  <2>1. byte3 + 256 * byte4 >= 32768
    BY <1>1 DEF Byte
  <2> QED
    BY <1>1, <2>1 DEF Temperature, Byte
<1>2. CASE byte4 < 128
  <2>1. ~(byte3 + 256 * byte4 >= 32768)
    BY <1>2 DEF Byte
  <2> QED
    BY <1>2, <2>1 DEF Temperature, Byte
<1> QED
  BY <1>1, <1>2 DEF Byte

\* A smoke detector's temperature from -27 to 100, seven bits in two's
\* complement: the limit that is "only an estimate" in the code is exact there.
THEOREM SmokeTemperatureDecodes ==
    ASSUME NEW degrees \in -27..100
    PROVE  SmokeTemperature(degrees % 128) = degrees
BY DEF SmokeTemperature
=============================================================================
