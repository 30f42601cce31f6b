------------------------------- MODULE Sender -------------------------------
(***************************************************************************)
(* The battery sensor, src/_sender.cpp with lib/utils/tcu_board.cpp and    *)
(* sendPacket() of lib/espRadio: it boots, measures, broadcasts one packet *)
(* and goes to deep sleep, for ever.  Deep sleep clears the RAM; variables *)
(* marked RTC_DATA_ATTR outlive it, and so does the hold of a pin, which   *)
(* makes every write to the pin void.  A reset (power, panic) loses the    *)
(* RTC variables as well.                                                  *)
(*                                                                         *)
(* Delays and the time asleep are left out: ASSUME SleepAssumption says    *)
(* that the interval fits the int it is multiplied in.                     *)
(***************************************************************************)
EXTENDS Integers, FiniteSets

CONSTANTS
  SEND_VCC_AFTER_BOOTS,  \* boots that use the battery voltage of an earlier one
  Millivolts,            \* battery voltages that can be measured
  ID_RANGE,              \* 2^16: tEspPacket::packetID is a uint16_t
  ERR_RANGE,             \* 2^32: tempErrCount is a uint32_t
  MaxResets,             \* bound: resets in one behaviour
  LED_PIN, SENSOR_POWER_PIN, DALLAS_PIN,
  GPIO_NUM_0,            \* the boot pin, which is held high
  OtherPins,             \* GPIO 27 and 36, isolated with them
  SleepUs, INT_MAX       \* espSenderIntervalS * US_FACTOR; the largest int

Pins == {LED_PIN, SENSOR_POWER_PIN, DALLAS_PIN, GPIO_NUM_0} \union OtherPins

ASSUME SenderAssumption ==
  /\ SEND_VCC_AFTER_BOOTS \in Nat
  /\ Millivolts \subseteq Nat \ {0}
  /\ ID_RANGE \in Nat \ {0} /\ ERR_RANGE \in Nat /\ ERR_RANGE > 2
  /\ MaxResets \in Nat

ASSUME PinAssumption ==
  /\ LED_PIN # SENSOR_POWER_PIN /\ DALLAS_PIN \notin {LED_PIN, SENSOR_POWER_PIN}
  /\ GPIO_NUM_0 \notin {LED_PIN, SENSOR_POWER_PIN, DALLAS_PIN}
  /\ {LED_PIN, SENSOR_POWER_PIN, DALLAS_PIN, GPIO_NUM_0} \intersect OtherPins = {}

ASSUME SleepAssumption == SleepUs \in 1..INT_MAX

VARIABLES
  pc,                                          \* the call of senderSetup() that comes next
  vccMv, vccCntr, tempErrCount, espPacketID,   \* RTC_DATA_ATTR
  held,                                        \* pins whose hold is on
  high,                                        \* pins that are driven high
  t, tries,                                    \* of tsReadDallas(): reading, remeasurings
  driver,                                      \* frame handed to the driver, or {}
  onAir,                                       \* history: the last frame sent since a reset, or {}
  unsent,                                      \* history: packets numbered since then, and not sent
  vccAge,                                      \* history: boots since the voltage was measured
  errsAtBoot,                                  \* history: tempErrCount when this boot began
  resets                                       \* resets so far

rtcVars     == <<vccMv, vccCntr, tempErrCount, espPacketID>>
pinVars     == <<held, high>>
historyVars == <<onAir, unsent, vccAge, errsAtBoot>>
senderVars  == <<pc, rtcVars, pinVars, t, tries, driver, historyVars, resets>>

\* Power on: the RTC variables as the program's image initialises them.
Init ==
  /\ pc = "boot"
  /\ vccMv = 0 /\ vccCntr = SEND_VCC_AFTER_BOOTS
  /\ tempErrCount = 0 /\ espPacketID = 0
  /\ held = {} /\ high = {}
  /\ t = "good" /\ tries = 0 /\ driver = {}
  /\ onAir = {} /\ unsent = 0 /\ vccAge = 0 /\ errsAtBoot = 0
  /\ resets = 0

-----------------------------------------------------------------------------
\* Mutant of Release: the sensor's supply is forgotten.
ReleaseNotSensor == held \ (Pins \ {SENSOR_POWER_PIN})

\* boardUnisolatePins().
Release == held \ Pins

\* boardInit() and boardLedOn().  A pin keeps its level while its hold is on.
Boot ==
  /\ pc = "boot" /\ pc' = "readTemp"
  /\ held' = Release
  /\ high' = (high \intersect Release) \union ({SENSOR_POWER_PIN, LED_PIN} \ Release)
  /\ tries' = 0
  /\ vccAge' = vccAge + 1 /\ errsAtBoot' = tempErrCount
  /\ UNCHANGED <<rtcVars, t, driver, onAir, unsent, resets>>

\* A reading out of range, or of exactly 25.0 C, is taken again, twice at most.
Remeasure(reading) == reading = "bad" /\ tries < 2

\* Mutant of ReadTemp: until the reading is good.
ReadTempUntilGood ==
  /\ pc = "readTemp"
  /\ t' \in {"good", "bad"}
  /\ pc' = IF t' = "bad" THEN "readTemp" ELSE "getVcc"
  /\ tempErrCount' = IF t' = "bad" THEN (tempErrCount + 1) % ERR_RANGE ELSE tempErrCount
  /\ UNCHANGED <<vccMv, vccCntr, espPacketID, pinVars, tries, driver, historyVars, resets>>

\* tsReadDallas(), one measurement.
ReadTemp ==
  /\ pc = "readTemp"
  /\ t' \in {"good", "bad"}
  /\ IF Remeasure(t')
       THEN /\ tries' = tries + 1
            /\ tempErrCount' = (tempErrCount + 1) % ERR_RANGE
            /\ UNCHANGED pc
       ELSE /\ pc' = "getVcc"
            /\ UNCHANGED <<tries, tempErrCount>>
  /\ UNCHANGED <<vccMv, vccCntr, espPacketID, pinVars, driver, historyVars, resets>>

\* Mutant of VccDue: one boot late.
VccDueLate == vccCntr > SEND_VCC_AFTER_BOOTS

VccDue == vccCntr >= SEND_VCC_AFTER_BOOTS

\* getVcc(): the battery is measured, or the boots are counted.
GetVcc ==
  /\ pc = "getVcc" /\ pc' = "sendPacket"
  /\ \/ /\ VccDue
        /\ vccCntr' = 0 /\ vccMv' \in Millivolts
        /\ vccAge' = 0
     \/ /\ ~VccDue
        /\ vccCntr' = vccCntr + 1
        /\ UNCHANGED <<vccMv, vccAge>>
  /\ UNCHANGED <<tempErrCount, espPacketID, pinVars, t, tries, driver, onAir,
                 unsent, errsAtBoot, resets>>

Packet == [packetID |-> espPacketID, batVCC |-> vccMv, tempC |-> t,
           tempErrCount |-> tempErrCount]

\* Mutant of NextPacketID: the counter is wider than the field.
NextPacketIDWide == espPacketID + 1

\* Mutant of NextPacketID: 0 is kept for the first packet after a reset.
NextPacketIDSkipsZero == IF espPacketID + 1 = ID_RANGE THEN 1 ELSE espPacketID + 1

NextPacketID == (espPacketID + 1) % ID_RANGE

\* sendPacket(): without a radio the packet gets no number; with one it does,
\* also when esp_now_send() does not take it.
SendPacket ==
  /\ pc = "sendPacket" /\ pc' = "shutdown"
  /\ \/ UNCHANGED <<espPacketID, driver, unsent>>
     \/ /\ espPacketID' = NextPacketID
        /\ driver' \in {{}, {Packet}}
        /\ unsent' = (unsent + 1) % ID_RANGE
  /\ UNCHANGED <<vccMv, vccCntr, tempErrCount, pinVars, t, tries, onAir, vccAge,
                 errsAtBoot, resets>>

\* Mutant of Shutdown: boardIsolatePin(GPIO_NUM_12, false), so that the sensor is
\* switched off when its pin is in hold already.
ShutdownSensorHeld ==
  /\ pc = "shutdown" /\ pc' = "asleep"
  /\ high' = (high \ ({LED_PIN} \ held)) \union ({GPIO_NUM_0} \ held)
  /\ held' = held \union Pins
  /\ driver' = {}
  /\ UNCHANGED <<rtcVars, t, tries, historyVars, resets>>

\* boardShutdown() and deepSleep(): the pins are driven, then held.  A frame that
\* the driver still has is lost.
Shutdown ==
  /\ pc = "shutdown" /\ pc' = "asleep"
  /\ high' = (high \ ({LED_PIN, SENSOR_POWER_PIN} \ held)) \union ({GPIO_NUM_0} \ held)
  /\ held' = held \union Pins
  /\ driver' = {}
  /\ UNCHANGED <<rtcVars, t, tries, historyVars, resets>>

\* The timer starts the program again: all but rtcVars and pins is lost.
Wake ==
  /\ pc = "asleep" /\ pc' = "boot"
  /\ high' = high \intersect held
  /\ t' = "good" /\ tries' = 0
  /\ UNCHANGED <<rtcVars, held, driver, historyVars, resets>>

\* The driver sends what esp_now_send() queued, if the program is still awake.
Transmit ==
  /\ driver # {} /\ driver' = {}
  /\ onAir' = driver /\ unsent' = 0
  /\ UNCHANGED <<pc, rtcVars, pinVars, t, tries, vccAge, errsAtBoot, resets>>

\* A reset at any time.  The hold of the pins may outlive it.
Reset ==
  /\ resets < MaxResets /\ resets' = resets + 1
  /\ pc' = "boot"
  /\ vccMv' = 0 /\ vccCntr' = SEND_VCC_AFTER_BOOTS
  /\ tempErrCount' = 0 /\ espPacketID' = 0
  /\ onAir' = {} /\ unsent' = 0 /\ vccAge' = 0 /\ errsAtBoot' = 0
  /\ held' \in {held, {}} /\ high' = high \intersect held'
  /\ t' = "good" /\ tries' = 0 /\ driver' = {}

SenderStep == Boot \/ ReadTemp \/ GetVcc \/ SendPacket \/ Shutdown \/ Wake

Next == SenderStep \/ Transmit \/ Reset

Spec == Init /\ [][Next]_senderVars

\* The program runs on, and the timer of the deep sleep fires.
FairSpec == Spec /\ WF_senderVars(SenderStep)

-----------------------------------------------------------------------------
(* Properties.                                                             *)

Packets == [packetID : 0..(ID_RANGE - 1), batVCC : Nat, tempC : {"good", "bad"},
            tempErrCount : 0..(ERR_RANGE - 1)]

SenderTypeOK ==
  /\ pc \in {"boot", "readTemp", "getVcc", "sendPacket", "shutdown", "asleep"}
  /\ vccMv \in Millivolts \union {0} /\ vccCntr \in 0..SEND_VCC_AFTER_BOOTS
  /\ tempErrCount \in 0..(ERR_RANGE - 1) /\ espPacketID \in 0..(ID_RANGE - 1)
  /\ held \subseteq Pins /\ high \subseteq Pins
  /\ t \in {"good", "bad"} /\ tries \in 0..2
  /\ \A f \in driver \union onAir : f \in Packets
  /\ unsent \in 0..(ID_RANGE - 1) /\ vccAge \in Nat
  /\ errsAtBoot \in 0..(ERR_RANGE - 1) /\ resets \in 0..MaxResets

\* A packet never carries a voltage that was not measured, nor one measured more
\* than SEND_VCC_AFTER_BOOTS boots ago, whatever was reset in between.
VccIsRecent ==
  pc \in {"sendPacket", "shutdown", "asleep"} =>
    vccMv \in Millivolts /\ vccAge <= SEND_VCC_AFTER_BOOTS

\* A bad temperature goes out only after two remeasurings in the same boot, which
\* the packet's tempErrCount shows.
BadIsCounted ==
  \A f \in driver : f.tempC = "bad" =>
    f.tempErrCount = (errsAtBoot + 2) % ERR_RANGE

\* From the packetIDs of two frames a receiver can tell how many packets between
\* them never were on the air, across deep sleeps and the wrap of the uint16_t.
GapTellsLosses ==
  \A f \in onAir : espPacketID = (f.packetID + 1 + unsent) % ID_RANGE

\* The sensor is powered and on no held pin when it is read, although the pins
\* were isolated for the sleep before.
SensorPowered ==
  pc = "readTemp" => SENSOR_POWER_PIN \in high /\ held \intersect Pins = {}

\* While the board sleeps neither the LED nor the sensor draws current, and the
\* hold keeps it so.
AsleepIsDark ==
  pc = "asleep" => {LED_PIN, SENSOR_POWER_PIN} \intersect high = {} /\ Pins \subseteq held

\* A sensor or a radio that fails for ever does not keep the board awake.
SleepsAgain == []<>(pc = "asleep")

-----------------------------------------------------------------------------
(* The inductive invariant behind them.                                    *)

\* Boots counted by the code and boots that were.
VccCounted ==
  /\ vccMv = 0 => vccCntr = SEND_VCC_AFTER_BOOTS /\ pc \in {"boot", "readTemp", "getVcc"}
  /\ vccMv # 0 => vccAge = vccCntr + (IF pc \in {"readTemp", "getVcc"} THEN 1 ELSE 0)

PinsInOrder ==
  /\ pc \in {"readTemp", "getVcc", "sendPacket", "shutdown"} => held = {}
  /\ pc = "readTemp" => SENSOR_POWER_PIN \in high
  /\ AsleepIsDark

DriverEmptyUntilSent ==
  pc \in {"asleep", "boot", "readTemp", "getVcc", "sendPacket"} => driver = {}

RemeasuringsCounted ==
  /\ DriverEmptyUntilSent
  /\ pc = "readTemp" => tempErrCount = (errsAtBoot + tries) % ERR_RANGE
  /\ pc \in {"getVcc", "sendPacket"} /\ t = "bad" =>
       tempErrCount = (errsAtBoot + 2) % ERR_RANGE
  /\ BadIsCounted

NumbersInOrder ==
  /\ \A f \in driver : espPacketID = (f.packetID + 1) % ID_RANGE
  /\ GapTellsLosses

SenderInv == SenderTypeOK /\ VccCounted /\ PinsInOrder /\ RemeasuringsCounted
               /\ NumbersInOrder

-----------------------------------------------------------------------------
(* Why the board sleeps again, whatever fails.                             *)

CallsToSleep == CASE pc = "boot"       -> 7
                  [] pc = "readTemp"   -> 6 - tries
                  [] pc = "getVcc"     -> 3
                  [] pc = "sendPacket" -> 2
                  [] pc = "shutdown"   -> 1
                  [] pc = "asleep"     -> 0

\* A frame that the driver still has counts as half a call.
StepsToSleep == 2 * CallsToSleep + (IF driver # {} THEN 1 ELSE 0)

\* Each step of a boot that no reset ends, of the program or of the driver, brings the
\* board closer to its sleep, which is at most 15 steps away.
SleepComesCloser ==
  [][pc # "asleep" /\ resets' = resets => StepsToSleep' < StepsToSleep]_senderVars
=============================================================================
