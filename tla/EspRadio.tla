------------------------------ MODULE EspRadio ------------------------------
(***************************************************************************)
(* The receiving half of lib/espRadio/espRadio.cpp, as it runs in the      *)
(* gateway and in the dongle.  Two tasks share it: the loop task, which    *)
(* polls receivePacket(), and the WiFi task of the ESP-NOW driver, which   *)
(* runs the callback OnDataRecv() for every frame it hears.  They meet in  *)
(* one FreeRTOS queue, radioQ.                                             *)
(*                                                                         *)
(* A frame is its position on the air (seq, a history value the code does  *)
(* not have) and the protocol id it carries.  Ticks are not counted: a     *)
(* bounded wait may end whenever what it waits for is missing.             *)
(***************************************************************************)
EXTENDS Naturals, Sequences, Functions

CONSTANTS
  ENOW_Q_LEN,       \* length of radioQ (20 in the code)
  InboxLen,         \* frames the driver buffers ahead of the WiFi task
  HeapQueues,       \* queues the heap has room for
  MaxFaults,        \* bound: driver calls that fail in one behaviour
  MaxFrames,        \* bound: frames on the air in one behaviour
  Protocols,        \* protocol ids a frame may carry
  ESP_PROTOCOL_ID   \* the id of this project's packets

ASSUME RadioAssumption ==
  /\ ENOW_Q_LEN \in Nat \ {0}
  /\ InboxLen \in Nat \ {0}
  /\ HeapQueues \in Nat
  /\ MaxFaults \in Nat
  /\ MaxFrames \in Nat
  /\ ESP_PROTOCOL_ID \in Protocols

\* startReceiver() drops a queue each time the registration fails; the heap
\* must outlast the failures.
ASSUME HeapAssumption == HeapQueues > MaxFaults

VARIABLES
  wasRadioInit,        \* static flag: ESP-NOW is up and the peer is added
  receiverWasStarted,  \* static flag: queue and callback are installed
  radioQ,              \* queue handle; 0 is NULL
  allocated,           \* queues xQueueCreate() has handed out
  queues,              \* contents of every queue, by handle
  recvCb,              \* the driver has OnDataRecv registered
  inbox,               \* frames the driver holds for the WiFi task
  cbFrame,             \* <<f>> while OnDataRecv is inside xQueueSend, else <<>>
  pc,                  \* where the loop task is in receivePacket()
  onAir,               \* history: frames broadcast so far
  got,                 \* history: positions of the packets returned as true
  faults               \* driver calls that have failed

radioVars == <<wasRadioInit, receiverWasStarted, radioQ, allocated, queues, recvCb,
               inbox, cbFrame, pc, onAir, got, faults>>

NULL  == 0
Frame == [seq : Nat, proto : Protocols]

Init ==
  /\ wasRadioInit = FALSE
  /\ receiverWasStarted = FALSE
  /\ radioQ = NULL
  /\ allocated = 0
  /\ queues = [h \in 1..HeapQueues |-> <<>>]
  /\ recvCb = FALSE
  /\ inbox = <<>>
  /\ cbFrame = <<>>
  /\ pc = "out"
  /\ onAir = 0
  /\ got = <<>>
  /\ faults = 0

-----------------------------------------------------------------------------
(* The loop task: receivePacket(), cut where the WiFi task can interleave. *)

\* A driver call returns ESP_OK, or another code while the bound allows it.
DriverCall(ok) == /\ ok \/ faults < MaxFaults
                  /\ faults' = IF ok THEN faults ELSE faults + 1

\* initRadio(): nothing to do when it has succeeded before; otherwise
\* esp_now_init() and esp_now_add_peer(), either of which may fail.
InitRadio ==
  /\ pc = "out"
  /\ IF wasRadioInit
       THEN /\ pc' = "startReceiver"
            /\ UNCHANGED <<wasRadioInit, faults>>
       ELSE \E ok \in BOOLEAN :
              /\ DriverCall(ok)
              /\ wasRadioInit' = ok
              /\ pc' = IF ok THEN "startReceiver" ELSE "out"
  /\ UNCHANGED <<receiverWasStarted, radioQ, allocated, queues, recvCb,
                 inbox, cbFrame, onAir, got>>

\* Mutant of CreateQueue: the flag is not tested, every poll makes a queue.
CreateQueueOnEveryPoll ==
  /\ pc = "startReceiver"
  /\ pc' = "register"
  /\ IF allocated < HeapQueues
       THEN /\ allocated' = allocated + 1
            /\ radioQ' = allocated + 1
       ELSE /\ radioQ' = NULL
            /\ UNCHANGED allocated
  /\ UNCHANGED <<wasRadioInit, receiverWasStarted, queues, recvCb, inbox,
                 cbFrame, onAir, got, faults>>

\* startReceiver() up to xQueueCreate(): a new queue on every call that does
\* not find the receiver started.  The result is not tested for NULL.
CreateQueue ==
  /\ pc = "startReceiver"
  /\ IF receiverWasStarted
       THEN /\ pc' = "receive"
            /\ UNCHANGED <<radioQ, allocated>>
       ELSE /\ pc' = "register"
            /\ IF allocated < HeapQueues
                 THEN /\ allocated' = allocated + 1
                      /\ radioQ' = allocated + 1
                 ELSE /\ radioQ' = NULL
                      /\ UNCHANGED allocated
  /\ UNCHANGED <<wasRadioInit, receiverWasStarted, queues, recvCb, inbox,
                 cbFrame, onAir, got, faults>>

\* Mutant of RegisterCb: the outcome is not kept in receiverWasStarted.
RegisterCbForgets ==
  /\ pc = "register"
  /\ \E ok \in BOOLEAN :
       /\ DriverCall(ok)
       /\ recvCb' = (recvCb \/ ok)
       /\ pc' = IF ok THEN "receive" ELSE "out"
  /\ UNCHANGED <<wasRadioInit, receiverWasStarted, radioQ, allocated, queues,
                 inbox, cbFrame, onAir, got>>

\* The rest of startReceiver(): esp_now_register_recv_cb().
RegisterCb ==
  /\ pc = "register"
  /\ \E ok \in BOOLEAN :
       /\ DriverCall(ok)
       /\ recvCb' = (recvCb \/ ok)
       /\ receiverWasStarted' = ok
       /\ pc' = IF ok THEN "receive" ELSE "out"
  /\ UNCHANGED <<wasRadioInit, radioQ, allocated, queues, inbox, cbFrame,
                 onAir, got>>

\* Mutant of ReceiveOne: a packet of another protocol is left in the queue.
ReceiveKeepsForeign ==
  /\ pc = "receive"
  /\ radioQ # NULL
  /\ queues[radioQ] # <<>>
  /\ LET rData == Head(queues[radioQ])
         ours  == rData.proto = ESP_PROTOCOL_ID IN
       /\ got' = IF ours THEN Append(got, rData.seq) ELSE got
       /\ queues' = IF ours THEN [queues EXCEPT ![radioQ] = Tail(@)] ELSE queues
  /\ pc' = "out"
  /\ UNCHANGED <<wasRadioInit, receiverWasStarted, radioQ, allocated, recvCb,
                 inbox, cbFrame, onAir, faults>>

\* xQueueReceive() finds a packet: it leaves the queue whatever it holds, and
\* receivePacket() returns true only for our protocol id.
ReceiveOne ==
  /\ pc = "receive"
  /\ radioQ # NULL
  /\ queues[radioQ] # <<>>
  /\ LET rData == Head(queues[radioQ]) IN
       got' = IF rData.proto = ESP_PROTOCOL_ID THEN Append(got, rData.seq) ELSE got
  /\ queues' = [queues EXCEPT ![radioQ] = Tail(@)]
  /\ pc' = "out"
  /\ UNCHANGED <<wasRadioInit, receiverWasStarted, radioQ, allocated, recvCb,
                 inbox, cbFrame, onAir, faults>>

\* xQueueReceive() waits its 100 ticks for nothing.
ReceiveTimeout ==
  /\ pc = "receive"
  /\ radioQ # NULL
  /\ queues[radioQ] = <<>>
  /\ pc' = "out"
  /\ UNCHANGED <<wasRadioInit, receiverWasStarted, radioQ, allocated, queues,
                 recvCb, inbox, cbFrame, onAir, got, faults>>

LoopTask == InitRadio \/ CreateQueue \/ RegisterCb \/ ReceiveOne \/ ReceiveTimeout

-----------------------------------------------------------------------------
(* The WiFi task.                                                          *)

\* The driver hands over the oldest frame: OnDataRecv() copies it and enters
\* xQueueSend() with a wait of 1000 ticks.
OnDataRecv ==
  /\ cbFrame = <<>>
  /\ inbox # <<>>
  /\ cbFrame' = <<Head(inbox)>>
  /\ inbox' = Tail(inbox)
  /\ UNCHANGED <<wasRadioInit, receiverWasStarted, radioQ, allocated, queues,
                 recvCb, pc, onAir, got, faults>>

\* Mutant of QueueSend: the queue takes one packet more than it has room for.
QueueSendOverruns ==
  /\ cbFrame # <<>>
  /\ radioQ # NULL
  /\ Len(queues[radioQ]) <= ENOW_Q_LEN
  /\ queues' = [queues EXCEPT ![radioQ] = Append(@, Head(cbFrame))]
  /\ cbFrame' = <<>>
  /\ UNCHANGED <<wasRadioInit, receiverWasStarted, radioQ, allocated, recvCb,
                 inbox, pc, onAir, got, faults>>

\* Mutant of QueueSend: xQueueSendToFront() in place of xQueueSend().
QueueSendToFront ==
  /\ cbFrame # <<>>
  /\ radioQ # NULL
  /\ Len(queues[radioQ]) < ENOW_Q_LEN
  /\ queues' = [queues EXCEPT ![radioQ] = cbFrame \o @]
  /\ cbFrame' = <<>>
  /\ UNCHANGED <<wasRadioInit, receiverWasStarted, radioQ, allocated, recvCb,
                 inbox, pc, onAir, got, faults>>

\* xQueueSend() finds room.
QueueSend ==
  /\ cbFrame # <<>>
  /\ radioQ # NULL
  /\ Len(queues[radioQ]) < ENOW_Q_LEN
  /\ queues' = [queues EXCEPT ![radioQ] = Append(@, Head(cbFrame))]
  /\ cbFrame' = <<>>
  /\ UNCHANGED <<wasRadioInit, receiverWasStarted, radioQ, allocated, recvCb,
                 inbox, pc, onAir, got, faults>>

\* Mutant of QueueSendTimeout: xQueueSend() waits for ever (portMAX_DELAY).
QueueSendNeverGivesUp == FALSE /\ UNCHANGED radioVars

\* The queue stays full for 1000 ticks: xQueueSend() gives up, its result is
\* ignored and the packet is gone.
QueueSendTimeout ==
  /\ cbFrame # <<>>
  /\ radioQ # NULL
  /\ Len(queues[radioQ]) >= ENOW_Q_LEN
  /\ cbFrame' = <<>>
  /\ UNCHANGED <<wasRadioInit, receiverWasStarted, radioQ, allocated, queues,
                 recvCb, inbox, pc, onAir, got, faults>>

WifiTask == OnDataRecv \/ QueueSend \/ QueueSendTimeout

-----------------------------------------------------------------------------
(* The air: broadcasts of every sender in reach.                           *)

Broadcast(proto) ==
  /\ onAir < MaxFrames
  /\ onAir' = onAir + 1
  /\ \/ /\ recvCb
        /\ Len(inbox) < InboxLen
        /\ inbox' = Append(inbox, [seq |-> onAir + 1, proto |-> proto])
     \/ UNCHANGED inbox               \* not heard, or no receiver yet
  /\ UNCHANGED <<wasRadioInit, receiverWasStarted, radioQ, allocated, queues,
                 recvCb, cbFrame, pc, got, faults>>

Air == \E proto \in Protocols : Broadcast(proto)

Next == LoopTask \/ WifiTask \/ Air

Spec == Init /\ [][Next]_radioVars

\* FreeRTOS keeps running the WiFi task, and its waits are bounded.  Nothing
\* obliges the loop task to poll: InitWiFi() and tb.connect() may hold it.
FairSpec == Spec /\ WF_radioVars(WifiTask)

\* The dongle's main loop polls for ever.
Polling == WF_radioVars(LoopTask)

-----------------------------------------------------------------------------
(* Properties.                                                             *)

RadioTypeOK ==
  /\ wasRadioInit \in BOOLEAN
  /\ receiverWasStarted \in BOOLEAN
  /\ allocated \in 0..HeapQueues
  /\ radioQ \in 0..allocated
  /\ queues \in [1..HeapQueues -> Seq(Frame)]
  /\ \A h \in 1..HeapQueues : Len(queues[h]) <= ENOW_Q_LEN
  /\ recvCb \in BOOLEAN
  /\ inbox \in Seq(Frame)
  /\ cbFrame \in Seq(Frame) /\ Len(cbFrame) <= 1
  /\ pc \in {"out", "startReceiver", "register", "receive"}
  /\ onAir \in Nat
  /\ got \in Seq(Nat)
  /\ faults \in 0..MaxFaults

\* The packets receivePacket() hands out come in the order in which they were
\* broadcast, and none comes twice, whatever the two tasks' interleaving, the
\* full queue and the failed driver calls do.
InOrderOnce == \A i, j \in 1..Len(got) : i < j => got[i] < got[j]

\* The unchecked result of xQueueCreate() is never used as NULL: neither
\* xQueueReceive() nor the callback's xQueueSend() meets a NULL radioQ.
NullQueueNeverUsed == pc = "receive" \/ cbFrame # <<>> \/ inbox # <<>> => radioQ # NULL

\* A queue that startReceiver() has dropped holds no packet: what the callback
\* queues is always within reach of receivePacket().
NoStrandedPacket == \A h \in 1..HeapQueues : h # radioQ => queues[h] = <<>>

\* The WiFi task leaves OnDataRecv() even if the loop task never polls again.
CallbackReturns == cbFrame # <<>> ~> cbFrame = <<>>

\* Our packet n waits in the queue that receivePacket() reads.
Queued(n) == /\ radioQ # NULL
             /\ [seq |-> n, proto |-> ESP_PROTOCOL_ID] \in Range(queues[radioQ])

\* While the loop task polls, foreign frames in front of a queued packet do not
\* keep it from being returned.
QueuedIsDelivered ==
  Polling => \A n \in 1..MaxFrames : Queued(n) ~> n \in Range(got)

-----------------------------------------------------------------------------
(* The inductive invariant behind the safety properties.                   *)

\* How far startReceiver() has got.  One queue is lost per failed driver call,
\* so the heap still has one when CreateQueue comes to ask for it.
RadioControl ==
  /\ recvCb <=> receiverWasStarted
  /\ receiverWasStarted => wasRadioInit /\ radioQ # NULL
  /\ pc = "register" => ~receiverWasStarted /\ radioQ # NULL
  /\ pc = "receive" => receiverWasStarted
  /\ allocated <= faults + (IF pc = "register" \/ receiverWasStarted THEN 1 ELSE 0)
  /\ pc # "out" => wasRadioInit
  /\ ~recvCb => inbox = <<>> /\ cbFrame = <<>> /\ \A h \in 1..HeapQueues : queues[h] = <<>>

InFlight == Range(inbox) \union Range(cbFrame)
              \union UNION {Range(queues[h]) : h \in 1..HeapQueues}

Increasing(s) == \A i, j \in 1..Len(s) : i < j => s[i].seq < s[j].seq
Older(A, B)   == \A f \in A, g \in B : f.seq < g.seq

\* The packets got, the queue, the callback's frame and the inbox are one line,
\* in the order of the air.
RadioOrder ==
  /\ \A i \in 1..Len(got) : got[i] <= onAir
  /\ \A f \in InFlight : f.seq <= onAir /\ \A i \in 1..Len(got) : got[i] < f.seq
  /\ Increasing(inbox)
  /\ \A h \in 1..HeapQueues : Increasing(queues[h])
  /\ \A h \in 1..HeapQueues : Older(Range(queues[h]), Range(cbFrame) \union Range(inbox))
  /\ Older(Range(cbFrame), Range(inbox))

RadioInv == RadioTypeOK /\ RadioControl /\ NoStrandedPacket /\ RadioOrder /\ InOrderOnce

-----------------------------------------------------------------------------
(* receivePacket() implements a lossy channel that keeps the order.        *)

Fifo == INSTANCE LossyFifo WITH
          sent      <- onAir,
          pending   <- {f.seq : f \in {g \in InFlight : g.proto = ESP_PROTOCOL_ID}},
          delivered <- got

\* Every step of the two tasks is a step of the lossy channel or invisible:
\* the filter on the protocol id and the timeouts only ever lose packets.
ImplementsLossyFifo == Fifo!FifoSpec
=============================================================================
