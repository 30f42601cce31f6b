-------------------------------- MODULE Ota --------------------------------
(***************************************************************************)
(* A firmware update over MQTT: OTA_Handler.h, Callback_Watchdog.cpp,      *)
(* HashGenerator.cpp and Updater.cpp of lib/ThingsBoard/src, and the part  *)
(* of ThingsBoard.h that starts and ends it.  The device asks for one      *)
(* chunk at a time, stores and hashes it, and asks for the next; the       *)
(* watchdog asks again, in the task of the ESP timer, beside the loop      *)
(* task that handles what arrives.  What one line of the code reads and    *)
(* another changes is a step of its own, so the two tasks interleave.      *)
(*                                                                         *)
(* A chunk is <<version, index>>; all firmwares have the same Size, and a  *)
(* chunk fits the sector that Updater.cpp collects before it writes.  A    *)
(* hash is the sequence of the chunks that went into it.  The messages of  *)
(* the state of the update are left out.                                   *)
(***************************************************************************)
EXTENDS Integers, Sequences

CONSTANTS
  Versions, Running0,   \* versions of the firmware; the one on the device at first
  Assignable, Fits,     \* those the server assigns; those that fit the partition
  Size, CHUNK_SIZE,     \* bytes of a firmware, and of a chunk
  CHUNK_RETRIES,        \* m_retries of a new chunk
  BigBuffer,            \* the MQTT buffer holds a chunk already before the update
  PromptTimer,          \* the server answers later than a callback of the timer takes
  MaxStops,             \* bound: calls of Stop_Firmware_Update()
  MaxAssigns,           \* bound: assignments made by the server
  MaxFaults,            \* bound: lost connections, failing calls, power losses
  MaxInFlight           \* bound: messages on their way in one direction

ASSUME OtaAssumption ==
  /\ Running0 \in Versions /\ Assignable \subseteq Versions
  /\ Size \in Nat \ {0} /\ CHUNK_SIZE \in Nat \ {0} /\ CHUNK_RETRIES \in Nat
  /\ MaxStops \in Nat /\ MaxAssigns \in Nat /\ MaxFaults \in Nat /\ MaxInFlight \in Nat
  /\ BigBuffer \in BOOLEAN

Total      == (Size \div CHUNK_SIZE) + 1          \* m_total_chunks
DataChunks == (Size + CHUNK_SIZE - 1) \div CHUNK_SIZE
HasData(c) == c[2] < DataChunks                   \* the last chunk may be empty
Image(v)   == [i \in 1..DataChunks |-> <<v, i - 1>>]
Tasks      == {"loop", "timer"}
NoChunk    == <<Running0, 0>>

VARIABLES
  otaCb, want, requested, retries, hash,   \* of OTA_Handler; m_fw_callback is set or not
  spoiled,                                 \* m_hash was finished and not started again
  tbCb, bigBuffer, previousBig, changeBuffer,   \* of ThingsBoard, and the size of the buffer
  open, flash, buffered,                   \* of Updater: _size > 0, sectors written, _buffer
  slot, enabled, boot, running,            \* the other partition, its header, otadata, the program
  armed,                                   \* the watchdog's timer runs
  pc, chunk,                               \* where the tasks are; the chunk the loop handles
  connected, subscribed, toServer, toDevice, assigned,  \* MQTT and the server
  told,                                    \* what the application was told last
  panic,                                   \* a null pointer was followed
  stops, assigns, faults                   \* bounded counters

handlerVars == <<otaCb, want, requested, retries, hash, spoiled>>
bufferVars  == <<bigBuffer, previousBig, changeBuffer>>
updaterVars == <<open, flash, buffered>>
slotVars    == <<slot, enabled, boot, running>>
netVars     == <<connected, subscribed, toServer, toDevice, assigned>>
boundVars   == <<stops, assigns, faults>>
otaVars     == <<handlerVars, tbCb, bufferVars, updaterVars, slotVars, armed, pc, chunk,
                 netVars, told, panic, boundVars>>

\* The application has called Subscribe_Firmware_Update() with the firmware it is.
Init ==
  /\ otaCb = FALSE /\ want = Running0 /\ requested = 0 /\ retries = 0
  /\ hash = <<>> /\ spoiled = FALSE
  /\ tbCb = TRUE /\ bigBuffer = BigBuffer /\ previousBig = FALSE /\ changeBuffer = FALSE
  /\ open = FALSE /\ flash = <<>> /\ buffered = <<>>
  /\ slot = <<>> /\ enabled = FALSE /\ boot = "running" /\ running = Running0
  /\ armed = FALSE /\ pc = [t \in Tasks |-> "idle"] /\ chunk = NoChunk
  /\ connected = TRUE /\ subscribed = FALSE /\ toServer = <<>> /\ toDevice = <<>>
  /\ assigned = Running0 /\ told = "nothing" /\ panic = FALSE
  /\ stops = 0 /\ assigns = 0 /\ faults = 0

Goto(t, label) == pc' = [pc EXCEPT ![t] = label]
Fault == faults < MaxFaults /\ faults' = faults + 1
Panic == panic' = TRUE /\ UNCHANGED <<handlerVars, tbCb, bufferVars, updaterVars, slotVars,
                                      armed, pc, chunk, netVars, told, boundVars>>

\* UpdateClass::_reset().
ResetUpdater == open' = FALSE /\ flash' = <<>> /\ buffered' = <<>>

-----------------------------------------------------------------------------
(* Handling of failures, by either task.                                   *)

\* Mutant of FailTo: the last retry is not the last.
FailToOneMore(t, label) ==
  IF retries < 0
  THEN Goto(t, "failed") /\ UNCHANGED retries
  ELSE retries' = retries - 1 /\ Goto(t, label)

\* Handle_Failure(): again as long as there are retries left.
FailTo(t, label) ==
  IF retries = 0
  THEN Goto(t, "failed") /\ UNCHANGED retries
  ELSE retries' = retries - 1 /\ Goto(t, label)

\* Firmware_OTA_Unsubscribe(): the size of the receive buffer of before.
RestoreBuffer == bigBuffer' = IF changeBuffer THEN previousBig ELSE bigBuffer

\* The callback of the application, then Firmware_OTA_Unsubscribe().
End(t, verdict) ==
  /\ told' = verdict
  /\ RestoreBuffer /\ tbCb' = FALSE
  /\ subscribed' = FALSE
  /\ Goto(t, "idle")
  /\ UNCHANGED <<previousBig, changeBuffer, connected, toServer, toDevice, assigned>>

Verdict(t) ==
  /\ pc[t] \in {"failed", "done"}
  /\ IF ~otaCb
     THEN Panic
     ELSE /\ End(t, IF pc[t] = "done" THEN "ok" ELSE "failed")
          /\ UNCHANGED <<handlerVars, updaterVars, slotVars, armed, chunk, panic, boundVars>>

\* Mutant of RequestFirst: the flash updater is not reset.
RequestFirstKeepsFlash(t) ==
  /\ pc[t] = "first"
  /\ IF ~otaCb
     THEN Panic
     ELSE /\ requested' = 0 /\ retries' = CHUNK_RETRIES
          /\ hash' = <<>> /\ spoiled' = FALSE /\ armed' = FALSE
          /\ Goto(t, "next")
          /\ UNCHANGED <<otaCb, want, tbCb, bufferVars, updaterVars, slotVars, chunk, netVars,
                         told, panic, boundVars>>

\* Request_First_Firmware_Packet().
RequestFirst(t) ==
  /\ pc[t] = "first"
  /\ IF ~otaCb
     THEN Panic
     ELSE /\ requested' = 0 /\ retries' = CHUNK_RETRIES
          /\ hash' = <<>> /\ spoiled' = FALSE /\ armed' = FALSE
          /\ ResetUpdater
          /\ Goto(t, "next")
          /\ UNCHANGED <<otaCb, want, tbCb, bufferVars, slotVars, chunk, netVars,
                         told, panic, boundVars>>

-----------------------------------------------------------------------------
(* Request_Next_Firmware_Packet(), by either task.                         *)

RequestNext(t) ==
  /\ pc[t] = "next"
  /\ Goto(t, IF requested >= Total THEN "finish" ELSE "publish")
  /\ UNCHANGED <<handlerVars, tbCb, bufferVars, updaterVars, slotVars, armed, chunk, netVars,
                 told, panic, boundVars>>

\* Publish_Chunk_Request(), which reads the chunk size from ThingsBoard's own
\* pointer.  Without a connection, or with a full pipe, nothing is sent.
PublishRequest(t) ==
  /\ pc[t] = "publish"
  /\ IF ~tbCb
     THEN Panic
     ELSE /\ toServer' = IF connected /\ Len(toServer) < MaxInFlight
                         THEN Append(toServer, <<"chunk", requested>>) ELSE toServer
          /\ Goto(t, "arm")
          /\ UNCHANGED <<handlerVars, tbCb, bufferVars, updaterVars, slotVars, armed, chunk,
                         connected, subscribed, toDevice, assigned, told, panic, boundVars>>

\* Mutant of Arm: only a request that could be sent is watched.
ArmIfSent(t) ==
  /\ pc[t] = "arm"
  /\ IF ~otaCb
     THEN Panic
     ELSE /\ armed' = (armed \/ connected)
          /\ Goto(t, "idle")
          /\ UNCHANGED <<handlerVars, tbCb, bufferVars, updaterVars, slotVars, chunk, netVars,
                         told, panic, boundVars>>

\* m_watchdog.once(): to start a timer that runs is an error that is ignored.
Arm(t) ==
  /\ pc[t] = "arm"
  /\ IF ~otaCb
     THEN Panic
     ELSE /\ armed' = TRUE
          /\ Goto(t, "idle")
          /\ UNCHANGED <<handlerVars, tbCb, bufferVars, updaterVars, slotVars, chunk, netVars,
                         told, panic, boundVars>>

\* The timer's task calls Handle_Request_Timeout().
Timeout ==
  /\ armed /\ pc["timer"] = "idle"
  /\ armed' = FALSE
  /\ FailTo("timer", "next")
  /\ UNCHANGED <<otaCb, want, requested, hash, spoiled, tbCb, bufferVars, updaterVars, slotVars,
                 chunk, netVars, told, panic, boundVars>>

-----------------------------------------------------------------------------
(* The end of the download, by either task.                                *)

\* Mutant of HashMatches: the checksum is not compared.
HashMatchesAlways == TRUE

\* A hash that was finished before comes out different the second time.
HashMatches == ~spoiled /\ hash = Image(want)

\* UpdateClass::end(): the whole image is there, its header is written, and it
\* is the one to boot.
UpdaterEnd(t) ==
  \/ /\ open /\ Len(flash) = DataChunks
     /\ enabled' = TRUE /\ boot' = "slot" /\ ResetUpdater /\ Goto(t, "done")
     /\ UNCHANGED <<slot, running, retries, faults>>
  \/ /\ open /\ Len(flash) = DataChunks
     /\ Fault /\ enabled' \in {enabled, TRUE} /\ ResetUpdater /\ FailTo(t, "first")
     /\ UNCHANGED <<slot, running, boot>>
  \/ /\ open /\ Len(flash) # DataChunks
     /\ ResetUpdater /\ FailTo(t, "first") /\ UNCHANGED <<slotVars, faults>>
  \/ ~open /\ FailTo(t, "first") /\ UNCHANGED <<updaterVars, slotVars, faults>>

\* Finish_Firmware_Update(), up to the callback.
Finish(t) ==
  /\ pc[t] = "finish"
  /\ spoiled' = TRUE
  /\ IF HashMatches
     THEN UpdaterEnd(t)
     ELSE FailTo(t, "first") /\ UNCHANGED <<updaterVars, slotVars, faults>>
  /\ UNCHANGED <<otaCb, want, requested, hash, tbCb, bufferVars, armed, chunk, netVars, told,
                 panic, stops, assigns>>

-----------------------------------------------------------------------------
(* Process_Firmware_Packet(), by the loop task.                            *)

\* The MQTT client drops what its buffer does not hold, the handler what it did
\* not ask for.
Expected(c) == c[2] = requested /\ (bigBuffer \/ ~HasData(c))

ReceiveChunk ==
  /\ pc["loop"] = "idle" /\ toDevice # <<>> /\ Head(toDevice)[1] = "chunk"
  /\ toDevice' = Tail(toDevice)
  /\ LET c == Head(toDevice)[2] IN
       IF Expected(c)
       THEN chunk' = c /\ armed' = FALSE /\ Goto("loop", IF c[2] = 0 THEN "begin" ELSE "write")
       ELSE UNCHANGED <<chunk, armed, pc>>
  /\ UNCHANGED <<handlerVars, tbCb, bufferVars, updaterVars, slotVars, connected, subscribed,
                 toServer, assigned, told, panic, boundVars>>

\* UpdateClass::begin().
Begin ==
  /\ pc["loop"] = "begin"
  /\ \/ /\ ~open /\ want \in Fits
        /\ open' = TRUE /\ flash' = <<>> /\ buffered' = <<>>
        /\ Goto("loop", "write") /\ UNCHANGED <<retries, faults>>
     \/ open /\ FailTo("loop", "first") /\ UNCHANGED <<updaterVars, faults>>
     \/ /\ ~open
        /\ \/ want \notin Fits /\ UNCHANGED faults
           \/ Fault
        /\ ResetUpdater /\ FailTo("loop", "first")
  /\ UNCHANGED <<otaCb, want, requested, hash, spoiled, tbCb, bufferVars, slotVars, armed, chunk,
                 netVars, told, panic, stops, assigns>>

Stored  == flash \o buffered
IsLast  == Len(Stored) + 1 = DataChunks
Flushes == buffered # <<>> \/ IsLast

\* Mutant of HeaderAfterWrite: the header outlives the image.
HeaderStays == enabled

\* The first sector written takes the header with it.
HeaderAfterWrite == enabled /\ ~Flushes

\* UpdateClass::write(): the sector collected before goes to the flash, and so
\* does the last one.
WriteChunk ==
  /\ pc["loop"] = "write"
  /\ IF HasData(chunk)
     THEN /\ open /\ Len(Stored) < DataChunks
          /\ flash' = IF IsLast THEN Append(Stored, chunk) ELSE Stored
          /\ buffered' = IF IsLast THEN <<>> ELSE <<chunk>>
          /\ slot' = IF Flushes THEN flash' ELSE slot
          /\ enabled' = HeaderAfterWrite
     ELSE UNCHANGED <<flash, buffered, slot, enabled>>
  /\ Goto("loop", "hash")
  /\ UNCHANGED <<handlerVars, tbCb, bufferVars, open, boot, running, armed, chunk, netVars, told,
                 panic, boundVars>>

WriteFails ==
  /\ pc["loop"] = "write" /\ HasData(chunk)
  /\ \/ ~open /\ UNCHANGED <<updaterVars, slotVars, faults>>
     \/ open /\ Len(Stored) >= DataChunks /\ ResetUpdater /\ UNCHANGED <<slotVars, faults>>
     \/ /\ open /\ Flushes /\ Fault /\ ResetUpdater     \* erased, or not even that
        /\ \/ slot' = flash /\ enabled' = FALSE
           \/ UNCHANGED <<slot, enabled>>
        /\ UNCHANGED <<boot, running>>
  /\ FailTo("loop", "first")
  /\ UNCHANGED <<otaCb, want, requested, hash, spoiled, tbCb, bufferVars, armed, chunk, netVars,
                 told, panic, stops, assigns>>

\* The chunk is hashed and counted.
HashChunk ==
  /\ pc["loop"] = "hash"
  /\ \/ /\ hash' = IF HasData(chunk) /\ ~spoiled THEN Append(hash, chunk) ELSE hash
        /\ requested' = chunk[2] + 1
        /\ Goto("loop", "progress") /\ UNCHANGED <<retries, faults>>
     \/ Fault /\ FailTo("loop", "first") /\ UNCHANGED <<hash, requested>>
  /\ UNCHANGED <<otaCb, want, spoiled, tbCb, bufferVars, updaterVars, slotVars, armed, chunk,
                 netVars, told, panic, stops, assigns>>

\* Stop_Firmware_Update(), called by the application while the update runs.
Stop ==
  /\ told = "running" /\ stops < MaxStops /\ stops' = stops + 1
  /\ armed' = FALSE /\ ResetUpdater
  /\ retries' = IF retries = 0 THEN 0 ELSE retries - 1
  /\ otaCb' = FALSE
  /\ End("loop", "failed")
  /\ UNCHANGED <<want, requested, hash, spoiled, slotVars, chunk, panic, assigns, faults>>

StopWhenIdle == pc["loop"] = "idle" /\ Stop

\* The progress callback, which may stop the update; if it did not, the
\* next chunk has all its retries.
Progress ==
  /\ pc["loop"] = "progress"
  /\ \/ ~otaCb /\ Panic
     \/ otaCb /\ Stop
     \/ /\ otaCb /\ retries' = CHUNK_RETRIES /\ Goto("loop", "next")
        /\ UNCHANGED <<otaCb, want, requested, hash, spoiled, tbCb, bufferVars, updaterVars,
                       slotVars, armed, chunk, netVars, told, panic, boundVars>>

-----------------------------------------------------------------------------
(* Start of an update, by the loop task.                                   *)

\* Mutant of Refused: the callback is not tested.
RefusedIfCurrent(v) == v = running

\* No callback, or the firmware is the one that runs.
Refused(v) == ~tbCb \/ v = running

\* Firmware_Shared_Attribute_Received(): subscribing or the larger buffer may
\* fail, else Start_Firmware_Update() of the handler.
AttributeReceived ==
  /\ pc["loop"] = "idle" /\ toDevice # <<>> /\ Head(toDevice)[1] = "attribute"
  /\ toDevice' = Tail(toDevice)
  /\ LET v == Head(toDevice)[2] IN
     \/ /\ Refused(v)
        /\ UNCHANGED <<otaCb, want, bufferVars, pc, subscribed, told, faults>>
     \/ /\ ~Refused(v) /\ Fault
        /\ UNCHANGED <<otaCb, want, bufferVars, pc, subscribed, told>>
     \/ /\ ~Refused(v) /\ ~bigBuffer /\ Fault
        /\ subscribed' = TRUE /\ previousBig' = bigBuffer /\ changeBuffer' = TRUE
        /\ UNCHANGED <<otaCb, want, bigBuffer, pc, told>>
     \/ /\ ~Refused(v)
        /\ subscribed' = TRUE /\ previousBig' = bigBuffer /\ changeBuffer' = ~bigBuffer
        /\ bigBuffer' = TRUE
        /\ otaCb' = TRUE /\ want' = v /\ told' = "running"
        /\ Goto("loop", "first") /\ UNCHANGED faults
  /\ UNCHANGED <<requested, retries, hash, spoiled, tbCb, updaterVars, slotVars, armed, chunk,
                 connected, toServer, assigned, panic, stops, assigns>>

\* Start_Firmware_Update() of ThingsBoard: asks what is assigned.
StartFirmwareUpdate ==
  /\ pc["loop"] = "idle" /\ told # "running"
  /\ connected /\ Len(toServer) < MaxInFlight
  /\ tbCb' = TRUE /\ toServer' = Append(toServer, <<"attributes", 0>>)
  /\ UNCHANGED <<handlerVars, bufferVars, updaterVars, slotVars, armed, pc, chunk, connected,
                 subscribed, toDevice, assigned, told, panic, boundVars>>

-----------------------------------------------------------------------------
(* The server, the connection and the power.                               *)

\* The server answers with chunks of the firmware that is assigned now, and with
\* an empty one beyond its end.
Answer ==
  /\ toServer # <<>> /\ Len(toDevice) < MaxInFlight
  /\ PromptTimer => pc["timer"] = "idle"
  /\ toServer' = Tail(toServer)
  /\ LET r == Head(toServer) IN
       toDevice' = CASE r[1] = "attributes" -> Append(toDevice, <<"attribute", assigned>>)
                     [] r[1] = "chunk" /\ subscribed ->
                          Append(toDevice, <<"chunk", <<assigned, r[2]>>>>)
                     [] OTHER -> toDevice
  /\ UNCHANGED <<handlerVars, tbCb, bufferVars, updaterVars, slotVars, armed, pc, chunk, connected,
                 subscribed, assigned, told, panic, boundVars>>

Assign ==
  /\ assigns < MaxAssigns /\ assigns' = assigns + 1
  /\ connected => Len(toDevice) < MaxInFlight
  /\ \E v \in Assignable \ {assigned} :
       /\ assigned' = v
       /\ toDevice' = IF connected THEN Append(toDevice, <<"attribute", v>>) ELSE toDevice
  /\ UNCHANGED <<handlerVars, tbCb, bufferVars, updaterVars, slotVars, armed, pc, chunk, connected,
                 subscribed, toServer, told, panic, stops, faults>>

\* What is under way is lost with the connection, and so are the subscriptions.
Drop ==
  /\ connected /\ Fault
  /\ connected' = FALSE /\ subscribed' = FALSE /\ toServer' = <<>> /\ toDevice' = <<>>
  /\ UNCHANGED <<handlerVars, tbCb, bufferVars, updaterVars, slotVars, armed, pc, chunk, assigned,
                 told, panic, stops, assigns>>

\* Resubscribe_Topics() leaves the firmware topic out.
Reconnect ==
  /\ ~connected /\ pc["loop"] = "idle" /\ connected' = TRUE
  /\ UNCHANGED <<handlerVars, tbCb, bufferVars, updaterVars, slotVars, armed, pc, chunk,
                 subscribed, toServer, toDevice, assigned, told, panic, boundVars>>

\* A restart, by the application after an update, by a panic or by the power.
\* The boot loader takes the new image if it is the one to boot and its header
\* is there; the image that ran so far is the other one then.
Reboot ==
  /\ \/ (panic \/ told = "ok") /\ UNCHANGED faults
     \/ ~panic /\ Fault
  /\ IF boot = "slot" /\ enabled
     THEN running' = slot[1][1] /\ slot' = Image(running)
     ELSE UNCHANGED <<running, slot>>
  /\ boot' = "running" /\ UNCHANGED enabled
  /\ otaCb' = FALSE /\ want' = Running0 /\ requested' = 0 /\ retries' = 0
  /\ hash' = <<>> /\ spoiled' = FALSE
  /\ tbCb' = TRUE /\ bigBuffer' = BigBuffer /\ previousBig' = FALSE /\ changeBuffer' = FALSE
  /\ ResetUpdater /\ armed' = FALSE
  /\ pc' = [t \in Tasks |-> "idle"] /\ chunk' = NoChunk
  /\ connected' = TRUE /\ subscribed' = FALSE /\ toServer' = <<>> /\ toDevice' = <<>>
  /\ told' = "nothing" /\ panic' = FALSE
  /\ UNCHANGED <<assigned, stops, assigns>>

Either(t) == \/ Verdict(t) \/ RequestFirst(t) \/ RequestNext(t) \/ PublishRequest(t)
             \/ Arm(t) \/ Finish(t)

Loop == ReceiveChunk \/ Begin \/ WriteChunk \/ WriteFails \/ HashChunk \/ Progress
          \/ AttributeReceived \/ Either("loop")

Next ==
  \/ ~panic /\ \/ Loop \/ Either("timer") \/ Timeout
               \/ StopWhenIdle \/ StartFirmwareUpdate \/ Reconnect
               \/ Answer \/ Assign \/ Drop
  \/ Reboot

Spec == Init /\ [][Next]_otaVars

\* Both tasks go on, the timer fires when it is due, and the server answers.
LiveSpec == Spec /\ WF_otaVars(~panic /\ Loop) /\ WF_otaVars(~panic /\ Either("timer"))
                 /\ WF_otaVars(~panic /\ Timeout) /\ WF_otaVars(~panic /\ Answer)

-----------------------------------------------------------------------------
(* Properties.                                                             *)

Chunks == Versions \X Nat

Labels   == {"idle", "begin", "write", "hash", "progress", "first", "next", "publish", "arm",
             "finish", "failed", "done"}
Messages == ({"chunk"} \X Chunks) \union ({"attribute"} \X Versions)

FlagsType == /\ otaCb \in BOOLEAN /\ spoiled \in BOOLEAN /\ tbCb \in BOOLEAN
             /\ bigBuffer \in BOOLEAN /\ previousBig \in BOOLEAN /\ changeBuffer \in BOOLEAN
             /\ open \in BOOLEAN /\ enabled \in BOOLEAN /\ armed \in BOOLEAN
             /\ connected \in BOOLEAN /\ subscribed \in BOOLEAN /\ panic \in BOOLEAN

CountsType == /\ requested \in Nat /\ retries \in 0..CHUNK_RETRIES
              /\ stops \in 0..MaxStops /\ assigns \in 0..MaxAssigns /\ faults \in 0..MaxFaults

ImageTypes == /\ want \in Versions /\ running \in Versions /\ assigned \in Versions
              /\ hash \in Seq(Chunks) /\ slot \in Seq(Chunks)
              /\ flash \in Seq(Chunks) /\ buffered \in Seq(Chunks)
              /\ boot \in {"running", "slot"} /\ told \in {"nothing", "running", "ok", "failed"}

TasksType == pc \in [Tasks -> Labels] /\ chunk \in Chunks

NetType == toServer \in Seq({"chunk", "attributes"} \X Nat) /\ toDevice \in Seq(Messages)

\* Every variable has its type; the counters stay within their bounds.
OtaTypeOK == FlagsType /\ CountsType /\ ImageTypes /\ TasksType /\ NetType

\* An image with a header, one that the boot loader would start, is a whole
\* image of one firmware, whatever was lost, mixed, repeated or cut off.
BootableIsWhole == enabled => \E v \in Versions : slot = Image(v)

\* What is under a valid header is not touched: writing takes the header first.
HeaderGoesFirst == [][enabled /\ enabled' => slot' = slot \/ running' # running]_otaVars

\* A running update is never forgotten: the watchdog runs, or a task is at work.
UpdateIsWatched ==
  told = "running" => armed \/ panic \/ \E t \in Tasks : pc[t] # "idle"

\* Nothing follows a null pointer while an update runs.
RunningIsSafe == panic => told # "running"

\* Every update comes to an end the application is told of, as the comment on
\* Handle_Failure() has it: without retries left, any issue aborts the update.
UpdateEnds == told = "running" ~> told # "running"

\* After Stop_Firmware_Update() "ongoing communication is discarded"
\* (OTA_Handler.h): what is still received does no harm.
StoppedIsQuiet ==
  [][told = "failed" /\ ~otaCb /\ pc["timer"] = "idle" => ~panic']_otaVars

-----------------------------------------------------------------------------
(* The inductive invariant behind the safety properties.                   *)

\* While an update runs both pointers are set.
PointersSet == told = "running" => otaCb /\ tbCb

\* The chunk about to be hashed counts.
Hashed == IF pc["loop"] = "hash" /\ HasData(chunk) THEN Append(hash, chunk) ELSE hash

\* What is stored is what is hashed, or too much to become an image.
StoredIsHashed ==
  /\ open /\ ~spoiled => Stored = Hashed \/ Len(Stored) > Len(Hashed)
  /\ Len(Stored) <= DataChunks
  /\ requested = 0 => hash = <<>> \/ spoiled
  /\ pc["loop"] = "begin" => requested = 0

\* The sectors of this session are the partition's.
FlashIsSlot == flash # <<>> => slot = flash

OtaInv == /\ OtaTypeOK /\ PointersSet /\ StoredIsHashed /\ FlashIsSlot
          /\ BootableIsWhole /\ UpdateIsWatched /\ RunningIsSafe
=============================================================================
