---------------------------- MODULE SenderProofs ----------------------------
(***************************************************************************)
(* Proofs about Sender, for every number of boots between measurements,    *)
(* every width of the counters and every number of resets.                 *)
(***************************************************************************)
EXTENDS Sender, TLAPS

\* A counter that wraps stays in its range.
LEMMA Wraps ==
  ASSUME NEW n \in Nat, NEW range \in Nat \ {0}
  PROVE  n % range \in 0..(range - 1)
  OBVIOUS

LEMMA WrapsNot ==
  ASSUME NEW range \in Nat \ {0}, NEW n \in Nat, n < range
  PROVE  n % range = n
  OBVIOUS

LEMMA WrapsOnce ==
  ASSUME NEW range \in Nat \ {0}, NEW n \in Nat, n >= range, n < range + range
  PROVE  n % range = n - range
  OBVIOUS

\* One more than a wrapped sum is the wrap of one more.
LEMMA WrapsSucc ==
  ASSUME NEW range \in Nat \ {0}, NEW n \in Nat, n < range + range
  PROVE  ((n % range) + 1) % range = (n + 1) % range
  <1>1. CASE n < range
    BY <1>1, WrapsNot
  <1>2. CASE n >= range /\ n + 1 < range + range
    <2>1. n % range = n - range
      BY <1>2, WrapsOnce
    <2>2. n + 1 \in Nat /\ n + 1 >= range
      BY <1>2
    <2>3. (n + 1) % range = n + 1 - range
      BY <1>2, <2>2, WrapsOnce
    <2>4. n - range + 1 \in Nat /\ n - range + 1 < range
      BY <1>2
    <2>5. (n - range + 1) % range = n - range + 1
      BY <2>4, WrapsNot
    <2>. QED  BY <2>1, <2>3, <2>5
  <1>3. CASE n + 1 = range + range
    <2>1. n % range = range - 1
      <3>1. n >= range
        BY <1>3
      <3>2. n % range = n - range
        BY <3>1, WrapsOnce
      <3>. QED  BY <1>3, <3>2
    <2>2. ((n % range) + 1) % range = 0
      BY <2>1, WrapsOnce
    <2>3. (n+1) % range = 0
      BY <1>3
    <2>. QED  BY <2>2, <2>3
  <1>. QED  BY <1>1, <1>2, <1>3

\* A sum wraps the same when an addend has wrapped before.
LEMMA WrapsAdd ==
  ASSUME NEW range \in Nat \ {0}, NEW m \in Nat, m <= range, NEW n \in 0..(range - 1)
  PROVE  (m + ((n + 1) % range)) % range = (m + n + 1) % range
  <1>1. CASE n + 1 < range
    BY <1>1, WrapsNot
  <1>2. CASE n + 1 = range
    <2>1. (n + 1) % range = 0
      BY <1>2, WrapsOnce
    <2>2. m + n + 1 = m + range
      BY <1>2
    <2>3. (m + range) % range = m % range
      <3>1. CASE m < range
        <4>1. m % range = m
          BY <3>1, WrapsNot
        <4>2. m + range \in Nat /\ m + range >= range /\ m + range < range + range
          BY <3>1
        <4>3. (m + range) % range = m + range - range
          BY <4>2, WrapsOnce
        <4>. QED  BY <4>1, <4>3
      <3>2. CASE m = range
        <4>1. range % range = 0
          OBVIOUS
        <4>2. (range + range) % range = 0
          OBVIOUS
        <4>. QED  BY <3>2, <4>1, <4>2
      <3>. QED  BY <3>1, <3>2
    <2>. QED  BY <2>1, <2>2, <2>3
  <1>. QED  BY <1>1, <1>2

\* A number that is n + 1 ahead of p, modulo range, stays so when both go on by one.
LEMMA BothCount ==
  ASSUME NEW range \in Nat \ {0}, NEW p \in 0..(range - 1), NEW n \in 0..(range - 1)
  PROVE  (((p + 1 + n) % range) + 1) % range = (p + 1 + ((n + 1) % range)) % range
  <1>1. p + 1 + n \in Nat /\ p + 1 + n < range + range
    OBVIOUS
  <1>2. (((p + 1 + n) % range) + 1) % range = (p + 1 + n + 1) % range
    BY <1>1, WrapsSucc
  <1>3. p + 1 \in Nat /\ p + 1 <= range
    OBVIOUS
  <1>4. (p + 1 + ((n + 1) % range)) % range = (p + 1 + n + 1) % range
    BY <1>3, WrapsAdd
  <1>. QED  BY <1>2, <1>4

LEMMA ConstantsTyped ==
  /\ ID_RANGE \in Nat \ {0} /\ ERR_RANGE \in Nat \ {0} /\ MaxResets \in Nat
  /\ SEND_VCC_AFTER_BOOTS \in Nat /\ Millivolts \subseteq Nat \ {0}
  BY SenderAssumption

LEMMA PacketTyped == SenderTypeOK => Packet \in Packets
  <1> SUFFICES ASSUME SenderTypeOK PROVE Packet \in Packets
    OBVIOUS
  <1>1. espPacketID \in 0..(ID_RANGE - 1) /\ tempErrCount \in 0..(ERR_RANGE - 1)
        /\ t \in {"good", "bad"}
    BY DEF SenderTypeOK
  <1>2. vccMv \in Nat
    BY ConstantsTyped DEF SenderTypeOK
  <1>. QED  BY <1>1, <1>2 DEF Packet, Packets

LEMMA SenderTypeStep == SenderTypeOK /\ [Next]_senderVars => SenderTypeOK'
  <1> SUFFICES ASSUME SenderTypeOK, [Next]_senderVars PROVE SenderTypeOK'
    OBVIOUS
  <1>1. CASE Boot
    BY <1>1 DEF Boot, Release, Pins, SenderTypeOK, rtcVars
  <1>2. CASE ReadTemp
    <2>1. (tempErrCount + 1) % ERR_RANGE \in 0..(ERR_RANGE - 1)
      BY ConstantsTyped, Wraps DEF SenderTypeOK
    <2>2. tempErrCount' \in 0..(ERR_RANGE - 1) /\ tries' \in 0..2
      BY <1>2, <2>1 DEF ReadTemp, Remeasure, SenderTypeOK
    <2>. QED  BY <1>2, <2>2 DEF ReadTemp, SenderTypeOK, pinVars, historyVars
  <1>3. CASE GetVcc
    BY <1>3, ConstantsTyped DEF GetVcc, VccDue, SenderTypeOK, pinVars
  <1>4. CASE SendPacket
    <2>1. /\ NextPacketID \in 0..(ID_RANGE - 1)
          /\ (unsent + 1) % ID_RANGE \in 0..(ID_RANGE - 1)
      BY ConstantsTyped, Wraps DEF SenderTypeOK, NextPacketID
    <2>2. /\ espPacketID' \in 0..(ID_RANGE - 1)
          /\ unsent' \in 0..(ID_RANGE - 1)
      BY <1>4, <2>1 DEF SendPacket, SenderTypeOK
    <2>3. \A f \in driver' : f \in Packets
      BY <1>4, PacketTyped DEF SendPacket, SenderTypeOK
    <2>. QED  BY <1>4, <2>2, <2>3 DEF SendPacket, SenderTypeOK, pinVars
  <1>5. CASE Shutdown
    BY <1>5 DEF Shutdown, SenderTypeOK, Pins, rtcVars, historyVars
  <1>6. CASE Wake
    BY <1>6 DEF Wake, SenderTypeOK, rtcVars, historyVars
  <1>7. CASE Transmit
    BY <1>7, ConstantsTyped DEF Transmit, SenderTypeOK, rtcVars, pinVars
  <1>8. CASE Reset
    BY <1>8, ConstantsTyped DEF Reset, SenderTypeOK
  <1>9. CASE UNCHANGED senderVars
    BY <1>9 DEF senderVars, rtcVars, pinVars, historyVars, SenderTypeOK
  <1>. QED
    BY <1>1, <1>2, <1>3, <1>4, <1>5, <1>6, <1>7, <1>8, <1>9 DEF Next, SenderStep

\* Every variable keeps its type: the counters wrap and never leave their width,
\* and the remeasurings end.
THEOREM SenderTypeCorrect == Spec => []SenderTypeOK
  <1>1. Init => SenderTypeOK
    BY ConstantsTyped DEF Init, SenderTypeOK
  <1>. QED  BY <1>1, SenderTypeStep, PTL DEF Spec

-----------------------------------------------------------------------------
(* The battery voltage.                                                    *)

LEMMA VccStep == SenderTypeOK /\ VccCounted /\ [Next]_senderVars => VccCounted'
  <1> SUFFICES ASSUME SenderTypeOK, VccCounted, [Next]_senderVars PROVE VccCounted'
    OBVIOUS
  <1>1. CASE Boot
    BY <1>1 DEF Boot, VccCounted, SenderTypeOK, rtcVars
  <1>2. CASE ReadTemp
    BY <1>2 DEF ReadTemp, VccCounted, SenderTypeOK, historyVars
  <1>3. CASE GetVcc
    BY <1>3, ConstantsTyped DEF GetVcc, VccDue, VccCounted, SenderTypeOK
  <1>4. CASE SendPacket \/ Shutdown \/ Wake \/ Transmit
    BY <1>4 DEF SendPacket, Shutdown, Wake, Transmit, VccCounted, rtcVars, historyVars
  <1>5. CASE Reset
    BY <1>5 DEF Reset, VccCounted
  <1>6. CASE UNCHANGED senderVars
    BY <1>6 DEF senderVars, rtcVars, historyVars, VccCounted
  <1>. QED  BY <1>1, <1>2, <1>3, <1>4, <1>5, <1>6 DEF Next, SenderStep

\* No packet carries a voltage that was never measured, or one older than
\* SEND_VCC_AFTER_BOOTS boots.
THEOREM VccStaysRecent == Spec => []VccIsRecent
  <1>1. Init => VccCounted
    BY DEF Init, VccCounted
  <1>2. SenderTypeOK /\ VccCounted => VccIsRecent
    BY DEF SenderTypeOK, VccCounted, VccIsRecent
  <1>. QED  BY <1>1, <1>2, VccStep, SenderTypeCorrect, PTL DEF Spec

-----------------------------------------------------------------------------
(* The pins.                                                               *)

LEMMA PinsStep == SenderTypeOK /\ PinsInOrder /\ [Next]_senderVars => PinsInOrder'
  <1> SUFFICES ASSUME SenderTypeOK, PinsInOrder, [Next]_senderVars PROVE PinsInOrder'
    OBVIOUS
  <1>1. CASE Boot
    <2>1. Release = {}
      BY DEF Release, SenderTypeOK
    <2>. QED  BY <1>1, <2>1 DEF Boot, PinsInOrder, AsleepIsDark
  <1>2. CASE ReadTemp
    BY <1>2 DEF ReadTemp, PinsInOrder, AsleepIsDark, pinVars
  <1>3. CASE GetVcc \/ SendPacket
    BY <1>3 DEF GetVcc, SendPacket, PinsInOrder, AsleepIsDark, pinVars
  <1>4. CASE Shutdown
    <2>1. held = {} /\ pc' = "asleep" /\ held' = Pins
      BY <1>4 DEF Shutdown, PinsInOrder
    <2>2. {LED_PIN, SENSOR_POWER_PIN} \intersect high' = {}
      BY <1>4, <2>1, PinAssumption DEF Shutdown
    <2>. QED  BY <2>1, <2>2 DEF PinsInOrder, AsleepIsDark
  <1>5. CASE Wake \/ Reset
    BY <1>5 DEF Wake, Reset, PinsInOrder, AsleepIsDark
  <1>6. CASE Transmit \/ UNCHANGED senderVars
    BY <1>6 DEF Transmit, senderVars, PinsInOrder, AsleepIsDark, pinVars
  <1>. QED  BY <1>1, <1>2, <1>3, <1>4, <1>5, <1>6 DEF Next, SenderStep

LEMMA PinsInvariant == Spec => []PinsInOrder
  <1>1. Init => PinsInOrder
    BY DEF Init, PinsInOrder, AsleepIsDark
  <1>. QED  BY <1>1, PinsStep, SenderTypeCorrect, PTL DEF Spec

\* The sensor is read with its supply on, whatever the sleep or the reset before
\* left in hold.
THEOREM SensorIsPowered == Spec => []SensorPowered
  <1>1. PinsInOrder => SensorPowered
    BY DEF PinsInOrder, SensorPowered
  <1>. QED  BY <1>1, PinsInvariant, PTL

\* The board sleeps with the LED and the sensor off.
THEOREM SleepIsDark == Spec => []AsleepIsDark
  <1>1. PinsInOrder => AsleepIsDark
    BY DEF PinsInOrder
  <1>. QED  BY <1>1, PinsInvariant, PTL
-----------------------------------------------------------------------------
(* The error count.                                                        *)

LEMMA RemeasuringsStep ==
  SenderTypeOK /\ RemeasuringsCounted /\ [Next]_senderVars => RemeasuringsCounted'
  <1> SUFFICES ASSUME SenderTypeOK, RemeasuringsCounted, [Next]_senderVars
               PROVE  RemeasuringsCounted'
    OBVIOUS
  <1>0. /\ errsAtBoot \in Nat /\ errsAtBoot < ERR_RANGE /\ tries \in 0..2
        /\ tempErrCount \in Nat /\ tempErrCount < ERR_RANGE
        /\ ERR_RANGE \in Nat \ {0} /\ ERR_RANGE > 2
    BY SenderAssumption DEF SenderTypeOK
  <1>1. CASE Boot
    <2>1. tempErrCount' = (errsAtBoot' + tries') % ERR_RANGE
      <3>1. errsAtBoot' = tempErrCount /\ tempErrCount' = tempErrCount /\ tries' = 0
        BY <1>1 DEF Boot, rtcVars
      <3>2. tempErrCount % ERR_RANGE = tempErrCount
        BY <1>0, WrapsNot
      <3>. QED  BY <1>0, <3>1, <3>2
    <2>2. BadIsCounted'
      BY <1>1 DEF Boot, DriverEmptyUntilSent, RemeasuringsCounted, BadIsCounted
    <2>. QED  BY <1>1, <2>1, <2>2 DEF Boot, RemeasuringsCounted, DriverEmptyUntilSent
  <1>2. CASE ReadTemp
    <2>1. CASE Remeasure(t')
      <3>1. /\ tries' = tries + 1 /\ errsAtBoot' = errsAtBoot /\ driver' = driver
            /\ tempErrCount' = (tempErrCount + 1) % ERR_RANGE
            /\ pc = "readTemp" /\ pc' = "readTemp" /\ tries < 2
        BY <1>2, <2>1 DEF ReadTemp, Remeasure, historyVars
      <3>2. tempErrCount = (errsAtBoot + tries) % ERR_RANGE
        BY <3>1 DEF RemeasuringsCounted
      <3>3. errsAtBoot + tries \in Nat /\ errsAtBoot + tries < ERR_RANGE + ERR_RANGE
        BY <1>0, <3>1
      <3>4. tempErrCount' = (errsAtBoot + tries + 1) % ERR_RANGE
        BY <1>0, <3>1, <3>2, <3>3, WrapsSucc
      <3>5. errsAtBoot + tries + 1 = errsAtBoot' + tries'
        BY <1>0, <3>1
      <3>. QED  BY <3>1, <3>4, <3>5 DEF RemeasuringsCounted, BadIsCounted, DriverEmptyUntilSent
    <2>2. CASE ~Remeasure(t')
      <3>1. /\ UNCHANGED <<tempErrCount, errsAtBoot, driver>>
            /\ pc = "readTemp" /\ pc' = "getVcc" /\ (t' = "bad" => tries = 2)
        BY <1>0, <1>2, <2>2 DEF ReadTemp, Remeasure, historyVars
      <3>. QED  BY <3>1 DEF RemeasuringsCounted, BadIsCounted, DriverEmptyUntilSent
    <2>. QED  BY <2>1, <2>2
  <1>3. CASE GetVcc
    BY <1>3 DEF GetVcc, RemeasuringsCounted, BadIsCounted, DriverEmptyUntilSent
  <1>4. CASE SendPacket
    <2>1. /\ pc = "sendPacket" /\ pc' = "shutdown" /\ UNCHANGED <<tempErrCount, errsAtBoot>>
          /\ driver' \in {driver, {}, {Packet}}
      BY <1>4 DEF SendPacket
    <2>2. Packet.tempC = t /\ Packet.tempErrCount = tempErrCount
      BY DEF Packet
    <2>3. driver = {}
      BY <2>1 DEF RemeasuringsCounted, DriverEmptyUntilSent
    <2>4. t = "bad" => tempErrCount = (errsAtBoot + 2) % ERR_RANGE
      BY <2>1 DEF RemeasuringsCounted
    <2>5. \A f \in driver' : f = Packet
      BY <2>1, <2>3
    <2>6. BadIsCounted'
      BY <2>1, <2>2, <2>4, <2>5 DEF BadIsCounted
    <2>. QED  BY <2>1, <2>6 DEF RemeasuringsCounted, DriverEmptyUntilSent
  <1>5. CASE Shutdown \/ Wake \/ Transmit \/ Reset
    BY <1>5 DEF Shutdown, Wake, Transmit, Reset, RemeasuringsCounted, BadIsCounted,
                DriverEmptyUntilSent, rtcVars, historyVars
  <1>6. CASE UNCHANGED senderVars
    BY <1>6 DEF senderVars, rtcVars, historyVars, RemeasuringsCounted, BadIsCounted,
                DriverEmptyUntilSent
  <1>. QED  BY <1>1, <1>2, <1>3, <1>4, <1>5, <1>6 DEF Next, SenderStep

\* A bad temperature is sent only after two remeasurings, and its packet shows them.
THEOREM BadTempIsCounted == Spec => []BadIsCounted
  <1>1. Init => RemeasuringsCounted
    BY DEF Init, RemeasuringsCounted, BadIsCounted, DriverEmptyUntilSent
  <1>2. RemeasuringsCounted => BadIsCounted
    BY DEF RemeasuringsCounted
  <1>. QED  BY <1>1, <1>2, RemeasuringsStep, SenderTypeCorrect, PTL DEF Spec

-----------------------------------------------------------------------------
(* The packet numbers.                                                     *)

LEMMA NumbersStep == SenderTypeOK /\ NumbersInOrder /\ [Next]_senderVars => NumbersInOrder'
  <1> SUFFICES ASSUME SenderTypeOK, NumbersInOrder, [Next]_senderVars PROVE NumbersInOrder'
    OBVIOUS
  <1>1. CASE SendPacket
    <2>1. CASE UNCHANGED <<espPacketID, driver, unsent>>
      BY <1>1, <2>1 DEF SendPacket, NumbersInOrder, GapTellsLosses
    <2>2. CASE /\ espPacketID' = NextPacketID /\ driver' \in {{}, {Packet}}
               /\ unsent' = (unsent + 1) % ID_RANGE
      <3>1. \A f \in driver' : espPacketID' = (f.packetID + 1) % ID_RANGE
        BY <2>2 DEF Packet, NextPacketID
      <3>2. ASSUME NEW f \in onAir
            PROVE  espPacketID' = (f.packetID + 1 + unsent') % ID_RANGE
        <4>0. ID_RANGE \in Nat \ {0}
          BY ConstantsTyped
        <4>1. f \in Packets /\ unsent \in 0..(ID_RANGE - 1)
          BY DEF SenderTypeOK
        <4>2. f.packetID \in 0..(ID_RANGE - 1)
          BY <4>1 DEF Packets
        <4>3. espPacketID = (f.packetID + 1 + unsent) % ID_RANGE
          BY DEF NumbersInOrder, GapTellsLosses
        <4>4. (espPacketID + 1) % ID_RANGE
                = (f.packetID + 1 + ((unsent + 1) % ID_RANGE)) % ID_RANGE
          BY <4>0, <4>1, <4>2, <4>3, BothCount
        <4>5. espPacketID' = (espPacketID + 1) % ID_RANGE
          BY <2>2 DEF NextPacketID
        <4>6. unsent' = (unsent + 1) % ID_RANGE
          BY <2>2
        <4>. QED  BY <4>4, <4>5, <4>6, Zenon
      <3>. QED  BY <1>1, <3>1, <3>2 DEF SendPacket, NumbersInOrder, GapTellsLosses
    <2>. QED  BY <1>1, <2>1, <2>2 DEF SendPacket
  <1>2. CASE Transmit
    <2>1. onAir' = driver /\ driver' = {} /\ unsent' = 0 /\ espPacketID' = espPacketID
      BY <1>2 DEF Transmit, rtcVars
    <2>2. ASSUME NEW f \in driver
          PROVE  espPacketID = (f.packetID + 1 + 0) % ID_RANGE
      <3>1. f.packetID \in Nat
        BY DEF SenderTypeOK, Packets
      <3>. QED  BY <3>1 DEF NumbersInOrder
    <2>. QED  BY <2>1, <2>2 DEF NumbersInOrder, GapTellsLosses
  <1>3. CASE Boot \/ ReadTemp \/ GetVcc \/ Shutdown \/ Wake
    BY <1>3 DEF Boot, ReadTemp, GetVcc, Shutdown, Wake, NumbersInOrder, GapTellsLosses,
                rtcVars, historyVars
  <1>4. CASE Reset
    BY <1>4 DEF Reset, NumbersInOrder, GapTellsLosses
  <1>5. CASE UNCHANGED senderVars
    BY <1>5 DEF senderVars, rtcVars, historyVars, NumbersInOrder, GapTellsLosses
  <1>. QED  BY <1>1, <1>2, <1>3, <1>4, <1>5 DEF Next, SenderStep

\* The numbers of two frames tell how many packets between them were lost, across
\* sleeps and wraps of the number.
THEOREM GapsTellLosses == Spec => []GapTellsLosses
  <1>1. Init => NumbersInOrder
    BY DEF Init, NumbersInOrder, GapTellsLosses
  <1>2. NumbersInOrder => GapTellsLosses
    BY DEF NumbersInOrder
  <1>. QED  BY <1>1, <1>2, NumbersStep, SenderTypeCorrect, PTL DEF Spec

-----------------------------------------------------------------------------
\* The invariant that carries all of these, the one the runs check as it stands.
THEOREM SenderInvariant == Spec => []SenderInv
  <1>1. Init => VccCounted /\ RemeasuringsCounted /\ NumbersInOrder
    BY DEF Init, VccCounted, RemeasuringsCounted, BadIsCounted, DriverEmptyUntilSent,
           NumbersInOrder, GapTellsLosses
  <1>2. Spec => []VccCounted
    BY <1>1, VccStep, SenderTypeCorrect, PTL DEF Spec
  <1>3. Spec => []RemeasuringsCounted
    BY <1>1, RemeasuringsStep, SenderTypeCorrect, PTL DEF Spec
  <1>4. Spec => []NumbersInOrder
    BY <1>1, NumbersStep, SenderTypeCorrect, PTL DEF Spec
  <1>. QED
    BY <1>2, <1>3, <1>4, PinsInvariant, SenderTypeCorrect, PTL DEF SenderInv

-----------------------------------------------------------------------------
(* Sleep.                                                                  *)

LEMMA StepsTyped == SenderTypeOK => StepsToSleep \in 0..15
  BY DEF SenderTypeOK, StepsToSleep, CallsToSleep

\* The driver holds no frame until the packet is sent: without that, its sending it
\* would not be paid for.
LEMMA CloserStep ==
  ASSUME SenderTypeOK, SenderTypeOK', DriverEmptyUntilSent, [Next]_senderVars,
         pc # "asleep", resets' = resets
  PROVE  StepsToSleep' < StepsToSleep \/ UNCHANGED senderVars
  <1> USE DEF StepsToSleep, CallsToSleep
  <1>1. CASE Boot
    BY <1>1 DEF Boot, DriverEmptyUntilSent
  <1>2. CASE ReadTemp
    BY <1>2 DEF ReadTemp, Remeasure, SenderTypeOK, DriverEmptyUntilSent
  <1>3. CASE GetVcc
    BY <1>3 DEF GetVcc, DriverEmptyUntilSent
  <1>4. CASE SendPacket
    BY <1>4 DEF SendPacket, DriverEmptyUntilSent
  <1>5. CASE Shutdown
    BY <1>5 DEF Shutdown
  <1>6. CASE Transmit
    <2>1. pc' = pc /\ tries' = tries /\ driver # {} /\ driver' = {}
      BY <1>6 DEF Transmit
    <2>2. PICK calls \in 0..7 : CallsToSleep = calls /\ CallsToSleep' = calls
      BY <2>1 DEF SenderTypeOK
    <2> HIDE DEF CallsToSleep
    <2>3. StepsToSleep = 2 * calls + 1 /\ StepsToSleep' = 2 * calls
      BY <2>1, <2>2
    <2>. QED
      BY <2>3
  <1>7. CASE Reset
    BY <1>7 DEF Reset, SenderTypeOK
  <1>8. CASE Wake
    BY <1>8 DEF Wake
  <1>. QED
    BY <1>1, <1>2, <1>3, <1>4, <1>5, <1>6, <1>7, <1>8 DEF Next, SenderStep

\* Whatever sensor, battery and radio do, a boot that no reset ends has at most 15
\* steps, each of which brings it closer to its sleep: no retry goes round in circles.
THEOREM SleepIsNear == Spec => [](StepsToSleep \in 0..15) /\ SleepComesCloser
  <1>1. SenderInv => SenderTypeOK /\ DriverEmptyUntilSent
    BY DEF SenderInv, RemeasuringsCounted
  <1>2. SenderTypeOK /\ SenderTypeOK' /\ DriverEmptyUntilSent /\ [Next]_senderVars
          => [pc # "asleep" /\ resets' = resets => StepsToSleep' < StepsToSleep]_senderVars
    BY CloserStep
  <1>. QED
    BY <1>1, <1>2, StepsTyped, SenderInvariant, PTL DEF Spec, SleepComesCloser
=============================================================================
