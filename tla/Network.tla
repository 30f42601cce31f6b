------------------------------ MODULE Network -------------------------------
(***************************************************************************)
(* Battery sensors, the air and the dongle: what the constants of the two  *)
(* programs, 300 s of deep sleep here and 15 minutes of life there, make   *)
(* of lost packets.  The dongle is Dongle; its processReceiver() takes     *)
(* what the sensors have sent.  A sensor is its cycle: SLEEP_MS of sleep   *)
(* and at most AWAKE_MS of work, with one packet in each.  How it measures *)
(* is in Sender, and how the queue is filled in EspRadio.                  *)
(*                                                                         *)
(* Time passes in the steps of the dongle.  A packet that comes while      *)
(* receivePacket() waits is taken by the next call, which makes it later,  *)
(* never earlier.                                                          *)
(***************************************************************************)
EXTENDS Dongle, FiniteSets

CONSTANTS
  SLEEP_MS,    \* espSenderIntervalS
  AWAKE_MS,    \* longest time from waking to sleeping
  QUEUE_SIZE,  \* of radioQ
  MAX_MISSED   \* packets of one sensor lost in a row

CYCLE_MS == SLEEP_MS + AWAKE_MS

\* Longest time between two calls of receivePacket() that find a packet, and that
\* one from each sensor can wait.
TAKE_MAX == BUTTON_MAX + DELAY_MS + CPU_MS
WAIT_MAX == Cardinality(Sites) * TAKE_MAX

\* A sensor's reading is tested at this age at most: its packets are so far apart,
\* and those of the other sensors may go first.
MAX_GAP == (MAX_MISSED + 1) * CYCLE_MS + (WAIT_MAX - BUTTON_MAX)

ASSUME NetworkAssumption ==
  /\ IsFiniteSet(Sites)
  /\ {SLEEP_MS, AWAKE_MS, QUEUE_SIZE, MAX_MISSED} \subseteq Nat
  /\ QUEUE_SIZE >= Cardinality(Sites)
  /\ SLEEP_MS > WAIT_MAX
  /\ MAX_GAP <= TEMP_LIFE_TIME_MS

VARIABLES
  radioQ,     \* the sensors whose packets wait
  sinceSent,  \* by sensor: time since its last packet, sent or lost
  missed,     \* by sensor: packets lost in a row
  heard       \* history: sensors the dongle got a packet of

netVars == <<radioQ, sinceSent, missed, heard>>

NetInit ==
  /\ Init /\ radioQ = <<>> /\ heard = {}
  /\ sinceSent = [s \in Sites |-> 0] /\ missed = [s \in Sites |-> 0]

-----------------------------------------------------------------------------

\* processReceiver(): the oldest packet, or a wait for none.
Receive ==
  /\ ProcessReceiver
  /\ \/ /\ radioQ = <<>>
        /\ readingVars' = readingVars /\ UNCHANGED <<radioQ, heard>>
     \/ /\ radioQ # <<>> /\ radioQ' = Tail(radioQ)
        /\ \E t \in Temps : Store(Head(radioQ), t, millis)
        /\ heard' = heard \union {Head(radioQ)}
        /\ UNCHANGED millis

OtherCalls ==
  /\ UpdateTemp \/ ProcessTempIndication \/ ProcessButton \/ Hold
       \/ UpdateLed \/ UpdateScreen \/ Delay
  /\ UNCHANGED <<radioQ, heard>>

\* The dongle's time is the sensors': none of them is late.
DongleStep ==
  /\ Receive \/ OtherCalls
  /\ sinceSent' = [s \in Sites |-> sinceSent[s] + Since(millis', millis)]
  /\ \A s \in Sites : sinceSent'[s] <= CYCLE_MS
  /\ UNCHANGED missed

Due(s) == sinceSent[s] >= SLEEP_MS

\* sendPacket(), once in each cycle.  The packet gets through, or is lost: the
\* radio did not start, the sleep came first, nobody heard it or the queue was full.
SendPacket(s) ==
  /\ Due(s)
  /\ sinceSent' = [sinceSent EXCEPT ![s] = 0]
  /\ \/ /\ Len(radioQ) < QUEUE_SIZE /\ radioQ' = Append(radioQ, s)
        /\ missed' = [missed EXCEPT ![s] = 0]
     \/ /\ missed[s] < MAX_MISSED \/ Len(radioQ) = QUEUE_SIZE
        /\ missed' = [missed EXCEPT ![s] = @ + 1]
        /\ UNCHANGED radioQ
  /\ UNCHANGED <<dongleVars, heard>>

NetNext == \/ DongleStep
           \/ PressOrRelease /\ UNCHANGED netVars
           \/ \E s \in Sites : SendPacket(s)

NetSpec == NetInit /\ [][NetNext]_<<dongleVars, netVars>>

-----------------------------------------------------------------------------
(* Properties.                                                             *)

\* A sensor that works is never shown as unknown, once it was heard, although up
\* to MAX_MISSED of its packets in a row are lost and the button holds up the loop.
WorkingIsKnown == \A s \in heard : temp[s] # NO_TEMP

-----------------------------------------------------------------------------
(* The inductive invariant behind it.                                       *)

\* Longest time to the next call of receivePacket().
Left == CASE pc = "delay" -> TAKE_MAX
          [] pc \in {"updateTemp", "processTempIndication", "processButton"} -> BUTTON_MAX
          [] pc = "hold" -> BUTTON_MAX - sinceToggle
          [] pc \in {"updateLed", "updateScreen", "processReceiver"} -> 0

NetTypeOK ==
  /\ radioQ \in Seq(Sites) /\ heard \subseteq Sites
  /\ sinceSent \in [Sites -> 0..CYCLE_MS] /\ missed \in [Sites -> 0..MAX_MISSED]

Queued(s) == \E i \in 1..Len(radioQ) : radioQ[i] = s

\* The queue has one packet of a sensor at most, and it is taken in time.
QueueInTime ==
  /\ \A i, j \in 1..Len(radioQ) : radioQ[i] = radioQ[j] => i = j
  /\ \A i \in 1..Len(radioQ) :
       sinceSent[radioQ[i]] + Left + (i - 1) * TAKE_MAX <= WAIT_MAX

\* The age of a reading, by the cycles of its sensor.
AgeInCycles ==
  \A s \in heard :
    /\ temp[s] # NO_TEMP
    /\ ~Queued(s) => age[s] <= missed[s] * CYCLE_MS + sinceSent[s]
    /\ Queued(s) => age[s] <= (MAX_MISSED + 1) * CYCLE_MS + sinceSent[s]

NetInv == NetTypeOK /\ QueueInTime /\ AgeInCycles
=============================================================================
