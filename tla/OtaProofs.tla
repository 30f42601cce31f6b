----------------------------- MODULE OtaProofs -----------------------------
(***************************************************************************)
(* Proofs about Ota: types, the pointers, the watchdog, and that no image  *)
(* but a whole one can be booted, for every size of firmware and chunk,    *)
(* every number of retries, faults and assignments, and every interleaving *)
(* of the two tasks.                                                       *)
(***************************************************************************)
EXTENDS Ota, TLAPS, SequenceTheorems

USE OtaAssumption

LEMMA TotalType == Total \in Nat \ {0} /\ DataChunks \in Nat \ {0}
  <1>1. Size \div CHUNK_SIZE \in Nat
    OBVIOUS
  <1>2. Size + CHUNK_SIZE - 1 >= CHUNK_SIZE
    OBVIOUS
  <1>3. (Size + CHUNK_SIZE - 1) \div CHUNK_SIZE >= 1
    BY <1>2
  <1> QED
    BY <1>1, <1>3 DEF Total, DataChunks

LEMMA ImageType ==
  ASSUME NEW v \in Versions
  PROVE  /\ Image(v) \in Seq(Chunks) /\ Len(Image(v)) = DataChunks
         /\ Image(v)[1] = <<v, 0>>
  <1>1. \A i \in 1..DataChunks : <<v, i - 1>> \in Chunks
    BY TotalType DEF Chunks
  <1>2. Image(v) \in [1..DataChunks -> Chunks]
    BY <1>1 DEF Image
  <1>3. Image(v) \in Seq(Chunks) /\ Len(Image(v)) = DataChunks
    BY <1>2, TotalType
  <1> QED
    BY <1>3, TotalType DEF Image

-----------------------------------------------------------------------------
(* Type correctness.                                                       *)

LEMMA InitTypes == Init => OtaTypeOK
  <1> SUFFICES ASSUME Init PROVE OtaTypeOK
    OBVIOUS
  <1> USE DEF Init
  <1>1. FlagsType
    BY DEF FlagsType
  <1>2. CountsType
    BY DEF CountsType
  <1>3. ImageTypes
    BY DEF ImageTypes
  <1>4. TasksType /\ NetType
    BY DEF TasksType, NetType, NoChunk, Chunks, Tasks, Labels
  <1> QED
    BY <1>1, <1>2, <1>3, <1>4 DEF OtaTypeOK

LEMMA Words ==
  /\ "loop" \in Tasks /\ "timer" \in Tasks
  /\ "idle" \in Labels /\ "begin" \in Labels /\ "write" \in Labels /\ "hash" \in Labels
  /\ "progress" \in Labels /\ "first" \in Labels /\ "next" \in Labels /\ "publish" \in Labels
  /\ "arm" \in Labels /\ "finish" \in Labels /\ "failed" \in Labels /\ "done" \in Labels
  BY DEF Tasks, Labels

\* The sequences the steps build.
LEMMA SeqFacts ==
  /\ <<>> \in Seq(Chunks)
  /\ \A c \in Chunks : <<c>> \in Seq(Chunks)
  /\ \A q \in Seq(Chunks), c \in Chunks : Append(q, c) \in Seq(Chunks)
  /\ \A q, r \in Seq(Chunks) : q \o r \in Seq(Chunks)
  OBVIOUS

LEMMA QueueFacts ==
  /\ <<>> \in Seq(Messages)
  /\ \A q \in Seq(Messages), m \in Messages : Append(q, m) \in Seq(Messages)
  /\ \A q \in Seq(Messages) : q # <<>> => Head(q) \in Messages /\ Tail(q) \in Seq(Messages)
  OBVIOUS

LEMMA RequestFacts ==
  ASSUME NEW Request, Request = {"chunk", "attributes"} \X Nat
  PROVE  /\ <<>> \in Seq(Request)
         /\ \A q \in Seq(Request), m \in Request : Append(q, m) \in Seq(Request)
         /\ \A q \in Seq(Request) : q # <<>> => Head(q) \in Request /\ Tail(q) \in Seq(Request)
  OBVIOUS

LEMMA FaultType == CountsType /\ Fault => faults' \in 0..MaxFaults
  BY DEF Fault, CountsType

LEMMA ResetType ==
  ResetUpdater => open' = FALSE /\ flash' \in Seq(Chunks) /\ buffered' \in Seq(Chunks)
  BY SeqFacts DEF ResetUpdater

LEMMA GotoType ==
  ASSUME TasksType, NEW t \in Tasks, NEW l \in Labels, Goto(t, l)
  PROVE  pc' \in [Tasks -> Labels]
  BY DEF Goto, TasksType

LEMMA FailToType ==
  ASSUME TasksType, CountsType, NEW t \in Tasks, NEW l \in Labels, FailTo(t, l)
  PROVE  pc' \in [Tasks -> Labels] /\ retries' \in 0..CHUNK_RETRIES
  BY GotoType, Words DEF FailTo, CountsType

LEMMA PanicType == OtaTypeOK /\ Panic => OtaTypeOK'
  BY DEF Panic, OtaTypeOK, FlagsType, CountsType, ImageTypes, TasksType, NetType, handlerVars,
         bufferVars, updaterVars, slotVars, netVars, boundVars

LEMMA FlagsStep ==
  ASSUME OtaTypeOK, [Next]_otaVars, ~Panic
  PROVE  FlagsType'
  <1> USE ResetType DEF OtaTypeOK, FlagsType, otaVars, handlerVars, bufferVars,
         updaterVars, slotVars, netVars, boundVars
  <1>1. ASSUME NEW t \in Tasks, Verdict(t) PROVE FlagsType'
    BY <1>1 DEF Verdict, End, RestoreBuffer
  <1>2. ASSUME NEW t \in Tasks, RequestFirst(t) PROVE FlagsType'
    BY <1>2 DEF RequestFirst
  <1>3. ASSUME NEW t \in Tasks, RequestNext(t) PROVE FlagsType'
    BY <1>3 DEF RequestNext
  <1>4. ASSUME NEW t \in Tasks, PublishRequest(t) PROVE FlagsType'
    BY <1>4 DEF PublishRequest
  <1>5. ASSUME NEW t \in Tasks, Arm(t) PROVE FlagsType'
    BY <1>5, ZenonT(30) DEF Arm
  <1>6. ASSUME NEW t \in Tasks, Finish(t) PROVE FlagsType'
    BY <1>6 DEF Finish, UpdaterEnd
  <1>7. CASE Timeout
    BY <1>7 DEF Timeout
  <1>8. CASE ReceiveChunk
    BY <1>8, ZenonT(30) DEF ReceiveChunk
  <1>9. CASE Begin
    BY <1>9, ZenonT(30) DEF Begin
  <1>10. CASE WriteChunk
    BY <1>10 DEF WriteChunk, HeaderAfterWrite, Stored
  <1>11. CASE WriteFails
    BY <1>11 DEF WriteFails
  <1>12. CASE HashChunk
    BY <1>12 DEF HashChunk
  <1>13. CASE Progress
    <2>1. CASE otaCb /\ Stop
      BY <2>1 DEF Stop, End, RestoreBuffer
    <2> QED
      BY <1>13, <2>1 DEF Progress
  <1>14. CASE StopWhenIdle
    BY <1>14 DEF StopWhenIdle, Stop, End, RestoreBuffer
  <1>15. CASE AttributeReceived
    BY <1>15, ZenonT(30) DEF AttributeReceived
  <1>16. CASE StartFirmwareUpdate
    BY <1>16 DEF StartFirmwareUpdate
  <1>17. CASE Answer
    BY <1>17 DEF Answer
  <1>18. CASE Assign
    BY <1>18 DEF Assign
  <1>19. CASE Drop
    BY <1>19 DEF Drop
  <1>20. CASE Reconnect
    BY <1>20 DEF Reconnect
  <1>21. CASE Reboot
    BY <1>21 DEF Reboot, NoChunk
  <1>22. CASE UNCHANGED otaVars
    BY <1>22
  <1> QED
    BY <1>1, <1>2, <1>3, <1>4, <1>5, <1>6, <1>7, <1>8, <1>9, <1>10, <1>11, <1>12, <1>13, <1>14, <1>15, <1>16, <1>17, <1>18, <1>19, <1>20, <1>21, <1>22, Words DEF Next, Loop, Either

LEMMA CountsStep ==
  ASSUME OtaTypeOK, [Next]_otaVars, ~Panic
  PROVE  CountsType'
  <1> USE FaultType, FailToType, Words DEF OtaTypeOK, CountsType, otaVars, handlerVars, bufferVars,
         updaterVars, slotVars, netVars, boundVars
  <1>1. ASSUME NEW t \in Tasks, Verdict(t) PROVE CountsType'
    BY <1>1 DEF Verdict, End, RestoreBuffer
  <1>2. ASSUME NEW t \in Tasks, RequestFirst(t) PROVE CountsType'
    BY <1>2 DEF RequestFirst
  <1>3. ASSUME NEW t \in Tasks, RequestNext(t) PROVE CountsType'
    BY <1>3 DEF RequestNext
  <1>4. ASSUME NEW t \in Tasks, PublishRequest(t) PROVE CountsType'
    BY <1>4 DEF PublishRequest
  <1>5. ASSUME NEW t \in Tasks, Arm(t) PROVE CountsType'
    BY <1>5 DEF Arm
  <1>6. ASSUME NEW t \in Tasks, Finish(t) PROVE CountsType'
    BY <1>6 DEF Finish, UpdaterEnd
  <1>7. CASE Timeout
    BY <1>7 DEF Timeout
  <1>8. CASE ReceiveChunk
    BY <1>8 DEF ReceiveChunk
  <1>9. CASE Begin
    BY <1>9 DEF Begin
  <1>10. CASE WriteChunk
    BY <1>10 DEF WriteChunk, HeaderAfterWrite, Stored
  <1>11. CASE WriteFails
    BY <1>11 DEF WriteFails
  <1>12. CASE HashChunk
    BY <1>12 DEF HashChunk, TasksType, Chunks
  <1>13. CASE Progress
    BY <1>13 DEF Progress, Stop, End, RestoreBuffer
  <1>14. CASE StopWhenIdle
    BY <1>14 DEF StopWhenIdle, Stop, End, RestoreBuffer
  <1>15. CASE AttributeReceived
    BY <1>15 DEF AttributeReceived
  <1>16. CASE StartFirmwareUpdate
    BY <1>16 DEF StartFirmwareUpdate
  <1>17. CASE Answer
    BY <1>17 DEF Answer
  <1>18. CASE Assign
    BY <1>18 DEF Assign
  <1>19. CASE Drop
    BY <1>19 DEF Drop
  <1>20. CASE Reconnect
    BY <1>20 DEF Reconnect
  <1>21. CASE Reboot
    BY <1>21 DEF Reboot, NoChunk
  <1>22. CASE UNCHANGED otaVars
    BY <1>22
  <1> QED
    BY <1>1, <1>2, <1>3, <1>4, <1>5, <1>6, <1>7, <1>8, <1>9, <1>10, <1>11, <1>12, <1>13, <1>14, <1>15, <1>16, <1>17, <1>18, <1>19, <1>20, <1>21, <1>22, Words DEF Next, Loop, Either

LEMMA ImageStep ==
  ASSUME OtaTypeOK, BootableIsWhole, [Next]_otaVars, ~Panic
  PROVE  ImageTypes'
  <1> USE ResetType, SeqFacts DEF OtaTypeOK, ImageTypes, otaVars, handlerVars, bufferVars,
         updaterVars, slotVars, netVars, boundVars
  <1>1. ASSUME NEW t \in Tasks, Verdict(t) PROVE ImageTypes'
    BY <1>1 DEF Verdict, End, RestoreBuffer
  <1>2. ASSUME NEW t \in Tasks, RequestFirst(t) PROVE ImageTypes'
    BY <1>2 DEF RequestFirst
  <1>3. ASSUME NEW t \in Tasks, RequestNext(t) PROVE ImageTypes'
    BY <1>3 DEF RequestNext
  <1>4. ASSUME NEW t \in Tasks, PublishRequest(t) PROVE ImageTypes'
    BY <1>4 DEF PublishRequest
  <1>5. ASSUME NEW t \in Tasks, Arm(t) PROVE ImageTypes'
    BY <1>5 DEF Arm
  <1>6. ASSUME NEW t \in Tasks, Finish(t) PROVE ImageTypes'
    BY <1>6 DEF Finish, UpdaterEnd
  <1>7. CASE Timeout
    BY <1>7 DEF Timeout
  <1>8. CASE ReceiveChunk
    BY <1>8 DEF ReceiveChunk
  <1>9. CASE Begin
    BY <1>9 DEF Begin
  <1>10. CASE WriteChunk
    <2>1. Stored \in Seq(Chunks) /\ Append(Stored, chunk) \in Seq(Chunks) /\ <<chunk>> \in Seq(Chunks)
      BY DEF Stored, TasksType
    <2>2. flash' \in Seq(Chunks) /\ buffered' \in Seq(Chunks) /\ slot' \in Seq(Chunks)
      BY <1>10, <2>1 DEF WriteChunk
    <2> QED
      BY <1>10, <2>2 DEF WriteChunk
  <1>11. CASE WriteFails
    BY <1>11 DEF WriteFails
  <1>12. CASE HashChunk
    BY <1>12 DEF HashChunk, TasksType
  <1>13. CASE Progress
    BY <1>13 DEF Progress, Stop, End, RestoreBuffer
  <1>14. CASE StopWhenIdle
    BY <1>14 DEF StopWhenIdle, Stop, End, RestoreBuffer
  <1>15. CASE AttributeReceived
    <2>1. Head(toDevice) \in Messages /\ Head(toDevice)[1] = "attribute"
      BY <1>15, QueueFacts DEF AttributeReceived, NetType
    <2>2. Head(toDevice)[2] \in Versions
      BY <2>1 DEF Messages
    <2> QED
      BY <1>15, <2>2 DEF AttributeReceived
  <1>16. CASE StartFirmwareUpdate
    BY <1>16 DEF StartFirmwareUpdate
  <1>17. CASE Answer
    BY <1>17 DEF Answer
  <1>18. CASE Assign
    BY <1>18 DEF Assign
  <1>19. CASE Drop
    BY <1>19 DEF Drop
  <1>20. CASE Reconnect
    BY <1>20 DEF Reconnect
  <1>21. CASE Reboot
    <2>1. boot = "slot" /\ enabled => slot[1][1] \in Versions
      BY ImageType DEF BootableIsWhole
    <2> QED
      BY <1>21, <2>1, ImageType DEF Reboot
  <1>22. CASE UNCHANGED otaVars
    BY <1>22
  <1> QED
    BY <1>1, <1>2, <1>3, <1>4, <1>5, <1>6, <1>7, <1>8, <1>9, <1>10, <1>11, <1>12, <1>13, <1>14, <1>15, <1>16, <1>17, <1>18, <1>19, <1>20, <1>21, <1>22, Words DEF Next, Loop, Either

LEMMA TasksStep ==
  ASSUME OtaTypeOK, [Next]_otaVars, ~Panic
  PROVE  TasksType'
  <1> USE GotoType, FailToType, Words DEF OtaTypeOK, TasksType, otaVars, handlerVars, bufferVars,
         updaterVars, slotVars, netVars, boundVars
  <1>1. ASSUME NEW t \in Tasks, Verdict(t) PROVE TasksType'
    BY <1>1 DEF Verdict, End, RestoreBuffer
  <1>2. ASSUME NEW t \in Tasks, RequestFirst(t) PROVE TasksType'
    BY <1>2 DEF RequestFirst
  <1>3. ASSUME NEW t \in Tasks, RequestNext(t) PROVE TasksType'
    BY <1>3 DEF RequestNext
  <1>4. ASSUME NEW t \in Tasks, PublishRequest(t) PROVE TasksType'
    BY <1>4 DEF PublishRequest
  <1>5. ASSUME NEW t \in Tasks, Arm(t) PROVE TasksType'
    BY <1>5 DEF Arm
  <1>6. ASSUME NEW t \in Tasks, Finish(t) PROVE TasksType'
    BY <1>6 DEF Finish, UpdaterEnd
  <1>7. CASE Timeout
    BY <1>7 DEF Timeout
  <1>8. CASE ReceiveChunk
    <2>1. Head(toDevice) \in Messages /\ Head(toDevice)[1] = "chunk"
      BY <1>8, QueueFacts DEF ReceiveChunk, NetType
    <2>2. Head(toDevice)[2] \in Chunks
      BY <2>1 DEF Messages
    <2> QED
      BY <1>8, <2>2 DEF ReceiveChunk
  <1>9. CASE Begin
    BY <1>9 DEF Begin
  <1>10. CASE WriteChunk
    BY <1>10 DEF WriteChunk, HeaderAfterWrite, Stored
  <1>11. CASE WriteFails
    BY <1>11 DEF WriteFails
  <1>12. CASE HashChunk
    BY <1>12 DEF HashChunk
  <1>13. CASE Progress
    BY <1>13 DEF Progress, Stop, End, RestoreBuffer
  <1>14. CASE StopWhenIdle
    BY <1>14 DEF StopWhenIdle, Stop, End, RestoreBuffer
  <1>15. CASE AttributeReceived
    BY <1>15 DEF AttributeReceived
  <1>16. CASE StartFirmwareUpdate
    BY <1>16 DEF StartFirmwareUpdate
  <1>17. CASE Answer
    BY <1>17 DEF Answer
  <1>18. CASE Assign
    BY <1>18 DEF Assign
  <1>19. CASE Drop
    BY <1>19 DEF Drop
  <1>20. CASE Reconnect
    BY <1>20 DEF Reconnect
  <1>21. CASE Reboot
    BY <1>21 DEF Reboot, NoChunk, Chunks
  <1>22. CASE UNCHANGED otaVars
    BY <1>22
  <1> QED
    BY <1>1, <1>2, <1>3, <1>4, <1>5, <1>6, <1>7, <1>8, <1>9, <1>10, <1>11, <1>12, <1>13, <1>14, <1>15, <1>16, <1>17, <1>18, <1>19, <1>20, <1>21, <1>22, Words DEF Next, Loop, Either

LEMMA NetStep ==
  ASSUME OtaTypeOK, [Next]_otaVars, ~Panic
  PROVE  NetType'
  <1> USE QueueFacts, RequestFacts DEF OtaTypeOK, NetType, otaVars, handlerVars, bufferVars,
         updaterVars, slotVars, netVars, boundVars
  <1>1. ASSUME NEW t \in Tasks, Verdict(t) PROVE NetType'
    BY <1>1 DEF Verdict, End, RestoreBuffer
  <1>2. ASSUME NEW t \in Tasks, RequestFirst(t) PROVE NetType'
    BY <1>2 DEF RequestFirst
  <1>3. ASSUME NEW t \in Tasks, RequestNext(t) PROVE NetType'
    BY <1>3 DEF RequestNext
  <1>4. ASSUME NEW t \in Tasks, PublishRequest(t) PROVE NetType'
    BY <1>4 DEF PublishRequest, CountsType
  <1>5. ASSUME NEW t \in Tasks, Arm(t) PROVE NetType'
    BY <1>5 DEF Arm
  <1>6. ASSUME NEW t \in Tasks, Finish(t) PROVE NetType'
    BY <1>6 DEF Finish, UpdaterEnd
  <1>7. CASE Timeout
    BY <1>7 DEF Timeout
  <1>8. CASE ReceiveChunk
    BY <1>8 DEF ReceiveChunk
  <1>9. CASE Begin
    BY <1>9 DEF Begin
  <1>10. CASE WriteChunk
    BY <1>10 DEF WriteChunk, HeaderAfterWrite, Stored
  <1>11. CASE WriteFails
    BY <1>11 DEF WriteFails
  <1>12. CASE HashChunk
    BY <1>12 DEF HashChunk
  <1>13. CASE Progress
    BY <1>13 DEF Progress, Stop, End, RestoreBuffer
  <1>14. CASE StopWhenIdle
    BY <1>14 DEF StopWhenIdle, Stop, End, RestoreBuffer
  <1>15. CASE AttributeReceived
    BY <1>15 DEF AttributeReceived
  <1>16. CASE StartFirmwareUpdate
    BY <1>16 DEF StartFirmwareUpdate
  <1>17. CASE Answer
    <2>1. Head(toServer) \in {"chunk", "attributes"} \X Nat /\ assigned \in Versions
      BY <1>17 DEF Answer, ImageTypes
    <2>2. /\ <<"attribute", assigned>> \in Messages
          /\ <<"chunk", <<assigned, Head(toServer)[2]>>>> \in Messages
      BY <2>1 DEF Messages, Chunks
    <2>3. toDevice' \in Seq(Messages)
      BY <1>17, <2>1, <2>2 DEF Answer
    <2> QED
      BY <1>17, <2>3 DEF Answer
  <1>18. CASE Assign
    BY <1>18 DEF Assign, Messages
  <1>19. CASE Drop
    BY <1>19 DEF Drop
  <1>20. CASE Reconnect
    BY <1>20 DEF Reconnect
  <1>21. CASE Reboot
    BY <1>21 DEF Reboot, NoChunk
  <1>22. CASE UNCHANGED otaVars
    BY <1>22
  <1> QED
    BY <1>1, <1>2, <1>3, <1>4, <1>5, <1>6, <1>7, <1>8, <1>9, <1>10, <1>11, <1>12, <1>13, <1>14, <1>15, <1>16, <1>17, <1>18, <1>19, <1>20, <1>21, <1>22, Words DEF Next, Loop, Either

-----------------------------------------------------------------------------
(* Pointers and watchdog.                                                   *)

LEMMA PointersStep ==
  ASSUME OtaTypeOK, PointersSet, [Next]_otaVars, ~Panic
  PROVE  PointersSet'
  <1> USE DEF PointersSet, otaVars, handlerVars, bufferVars, updaterVars, slotVars, netVars, boundVars
  <1>1. CASE AttributeReceived
    BY <1>1 DEF AttributeReceived, Refused
  <1>2. CASE Stop
    BY <1>2 DEF Stop, End
  <1>3. ASSUME NEW t \in Tasks, Verdict(t) PROVE PointersSet'
    BY <1>3 DEF Verdict, End
  <1>4. CASE Reboot
    BY <1>4 DEF Reboot
  <1>5. CASE StartFirmwareUpdate
    BY <1>5 DEF StartFirmwareUpdate
  <1>6. ASSUME NEW t \in Tasks,
               RequestFirst(t) \/ RequestNext(t) \/ PublishRequest(t) \/ Arm(t) \/ Finish(t)
        PROVE  PointersSet'
    BY <1>6 DEF RequestFirst, RequestNext, PublishRequest, Arm, Finish
  <1>7. CASE Progress
    BY <1>7, <1>2 DEF Progress
  <1>8. CASE \/ ReceiveChunk \/ Begin \/ WriteChunk \/ WriteFails \/ HashChunk \/ Timeout
             \/ Answer \/ Assign \/ Drop \/ Reconnect \/ UNCHANGED otaVars
    BY <1>8 DEF ReceiveChunk, Begin, WriteChunk, WriteFails, HashChunk, Timeout, Answer, Assign,
                Drop, Reconnect
  <1> QED
    BY <1>1, <1>2, <1>3, <1>4, <1>5, <1>6, <1>7, <1>8, Words DEF Next, Loop, Either, StopWhenIdle

LEMMA WatchedStep ==
  ASSUME OtaTypeOK, UpdateIsWatched, [Next]_otaVars, ~Panic
  PROVE  UpdateIsWatched'
  <1> USE Words DEF UpdateIsWatched, OtaTypeOK, TasksType, Goto, FailTo, otaVars, handlerVars,
                    bufferVars, updaterVars, slotVars, netVars, boundVars
  <1>1. CASE AttributeReceived
    BY <1>1 DEF AttributeReceived
  <1>2. CASE Stop
    BY <1>2 DEF Stop, End
  <1>3. ASSUME NEW t \in Tasks, Verdict(t) PROVE UpdateIsWatched'
    BY <1>3 DEF Verdict, End
  <1>4. CASE Reboot
    BY <1>4 DEF Reboot
  <1>5. ASSUME NEW t \in Tasks, RequestFirst(t) \/ RequestNext(t) \/ PublishRequest(t)
        PROVE  UpdateIsWatched'
    BY <1>5 DEF RequestFirst, RequestNext, PublishRequest
  <1>6. ASSUME NEW t \in Tasks, Arm(t) PROVE UpdateIsWatched'
    BY <1>6 DEF Arm
  <1>7. ASSUME NEW t \in Tasks, Finish(t) PROVE UpdateIsWatched'
    <2>1. pc'[t] # "idle"
      BY <1>7 DEF Finish, UpdaterEnd
    <2> QED
      BY <2>1
  <1>8. CASE Progress
    BY <1>8, <1>2 DEF Progress
  <1>9. CASE Begin \/ WriteChunk \/ WriteFails \/ HashChunk
    <2>1. pc'["loop"] # "idle"
      BY <1>9 DEF Begin, WriteChunk, WriteFails, HashChunk
    <2> QED
      BY <2>1
  <1>10. CASE Timeout
    <2>1. pc'["timer"] # "idle"
      BY <1>10 DEF Timeout
    <2> QED
      BY <2>1
  <1>11. CASE ReceiveChunk
    BY <1>11 DEF ReceiveChunk
  <1>12. CASE StartFirmwareUpdate \/ Answer \/ Assign \/ Drop \/ Reconnect \/ UNCHANGED otaVars
    BY <1>12 DEF StartFirmwareUpdate, Answer, Assign, Drop, Reconnect
  <1> QED
    BY <1>1, <1>2, <1>3, <1>4, <1>5, <1>6, <1>7, <1>8, <1>9, <1>10, <1>11, <1>12
    DEF Next, Loop, Either, StopWhenIdle

\* Where a null pointer is followed, the update is no longer running.
LEMMA SafeStep ==
  ASSUME PointersSet, RunningIsSafe, [Next]_otaVars
  PROVE  RunningIsSafe'
  <1> USE DEF PointersSet, RunningIsSafe
  <1>1. CASE Panic /\ (~otaCb \/ ~tbCb)
    BY <1>1 DEF Panic
  <1>2. CASE UNCHANGED otaVars
    BY <1>2 DEF otaVars
  <1>3. CASE Reboot
    BY <1>3 DEF Reboot
  <1>4. CASE ~panic /\ panic' = panic
    BY <1>4
  <1>5. ASSUME ~panic, NEW t \in Tasks, Either(t) PROVE RunningIsSafe'
    BY <1>1, <1>4, <1>5
    DEF Either, Verdict, RequestFirst, RequestNext, PublishRequest, Arm, Finish
  <1>6. ASSUME ~panic, Timeout \/ ReceiveChunk \/ Begin \/ WriteChunk \/ WriteFails \/ HashChunk
                       \/ StopWhenIdle \/ StartFirmwareUpdate \/ Reconnect \/ Answer \/ Assign
                       \/ Drop \/ AttributeReceived
        PROVE  RunningIsSafe'
    BY <1>4, <1>6
    DEF Timeout, ReceiveChunk, Begin, WriteChunk, WriteFails, HashChunk, StopWhenIdle, Stop,
        StartFirmwareUpdate, Reconnect, Answer, Assign, Drop, AttributeReceived
  <1>7. ASSUME ~panic, Progress PROVE RunningIsSafe'
    BY <1>1, <1>4, <1>7 DEF Progress, Stop
  <1> QED
    BY <1>2, <1>3, <1>5, <1>6, <1>7, Words DEF Next, Loop

-----------------------------------------------------------------------------
(* The image: what is stored is what is hashed.                            *)

LEMMA StoredType ==
  OtaTypeOK => /\ Stored \in Seq(Chunks) /\ Len(Stored) = Len(flash) + Len(buffered)
               /\ Hashed \in Seq(Chunks)
  BY DEF OtaTypeOK, ImageTypes, TasksType, Stored, Hashed

\* Steps that touch neither hash nor flash.
LEMMA StoredQuiet ==
  ASSUME OtaTypeOK, StoredIsHashed, UNCHANGED <<open, flash, buffered, hash, requested>>,
         spoiled' = spoiled \/ spoiled',
         \/ UNCHANGED chunk /\ pc'["loop"] = pc["loop"]
         \/ /\ pc["loop"] # "hash" /\ pc'["loop"] # "hash"
            /\ pc'["loop"] = "begin" => requested = 0
  PROVE  StoredIsHashed'
  <1>1. Stored' = Stored
    BY DEF Stored
  <1>2. Hashed' = Hashed
    BY DEF Hashed, HasData
  <1> QED
    BY <1>1, <1>2, ZenonT(30) DEF StoredIsHashed

\* Steps that reset the updater.
LEMMA StoredReset ==
  ASSUME OtaTypeOK, ResetUpdater,
         requested' = 0 => hash' = <<>> \/ spoiled',
         pc'["loop"] = "begin" => requested' = 0
  PROVE  StoredIsHashed'
  <1>1. ~open' /\ Stored' = <<>>
    BY DEF ResetUpdater, Stored
  <1> QED
    BY <1>1, TotalType DEF StoredIsHashed

\* A chunk that is written is stored last.
LEMMA StoredAppend ==
  ASSUME OtaTypeOK,
         \/ flash' = Append(Stored, chunk) /\ buffered' = <<>>
         \/ flash' = Stored /\ buffered' = <<chunk>>
  PROVE  Stored' = Append(Stored, chunk)
  <1>1. Stored \in Seq(Chunks) /\ chunk \in Chunks
    BY StoredType DEF OtaTypeOK, TasksType
  <1>2. Append(Stored, chunk) \in Seq(Chunks) /\ Append(Stored, chunk) = Stored \o <<chunk>>
    BY <1>1, AppendIsConcat
  <1>3. Stored' = flash' \o buffered'
    BY DEF Stored
  <1>4. CASE flash' = Append(Stored, chunk) /\ buffered' = <<>>
    BY <1>2, <1>3, <1>4, ConcatEmptySeq
  <1>5. CASE flash' = Stored /\ buffered' = <<chunk>>
    BY <1>2, <1>3, <1>5
  <1> QED
    BY <1>4, <1>5

LEMMA StoredStep ==
  ASSUME OtaTypeOK, StoredIsHashed, [Next]_otaVars, ~Panic
  PROVE  StoredIsHashed'
  <1> USE Words DEF OtaTypeOK, TasksType, Goto, FailTo, otaVars, handlerVars, bufferVars,
                    updaterVars, slotVars, netVars, boundVars
  <1>1. ASSUME NEW t \in Tasks, Verdict(t) \/ RequestNext(t) \/ PublishRequest(t) \/ Arm(t)
        PROVE  StoredIsHashed'
    BY <1>1, StoredQuiet DEF Verdict, End, RequestNext, PublishRequest, Arm
  <1>2. ASSUME NEW t \in Tasks, RequestFirst(t) PROVE StoredIsHashed'
    BY <1>2, StoredReset DEF RequestFirst
  <1>3. ASSUME NEW t \in Tasks, Finish(t) PROVE StoredIsHashed'
    <2>1. spoiled' /\ requested' = requested /\ hash' = hash
      BY <1>3 DEF Finish
    <2>2. \/ pc'["loop"] = pc["loop"] /\ chunk' = chunk
          \/ pc["loop"] = "finish" /\ pc'["loop"] \in {"first", "failed", "done"}
      BY <1>3 DEF Finish, UpdaterEnd
    <2>3. CASE ResetUpdater
      BY <2>1, <2>2, <2>3, StoredReset DEF StoredIsHashed
    <2>4. CASE UNCHANGED updaterVars
      BY <2>1, <2>2, <2>4, StoredQuiet
    <2> QED
      BY <1>3, <2>3, <2>4 DEF Finish, UpdaterEnd
  <1>4. CASE Timeout
    BY <1>4, StoredQuiet DEF Timeout
  <1>5. CASE ReceiveChunk
    BY <1>5, StoredQuiet DEF ReceiveChunk, Expected
  <1>6. CASE Begin
    <2>1. CASE open' /\ flash' = <<>> /\ buffered' = <<>> /\ Goto("loop", "write") /\ ~open
      <3>1. requested = 0 /\ UNCHANGED <<hash, requested, spoiled, chunk>>
        BY <1>6 DEF Begin, StoredIsHashed
      <3>2. Stored' = <<>> /\ Hashed' = hash /\ pc'["loop"] = "write"
        BY <2>1, <3>1 DEF Stored, Hashed
      <3>3. hash = <<>> \/ spoiled
        BY <3>1 DEF StoredIsHashed
      <3> QED
        BY <3>1, <3>2, <3>3, TotalType DEF StoredIsHashed
    <2>2. CASE UNCHANGED updaterVars /\ FailTo("loop", "first")
      BY <1>6, <2>2, StoredQuiet DEF Begin
    <2>3. CASE ResetUpdater /\ FailTo("loop", "first")
      BY <1>6, <2>3, StoredReset DEF Begin, StoredIsHashed
    <2> QED
      BY <1>6, <2>1, <2>2, <2>3 DEF Begin
  <1>7. CASE WriteChunk
    <2>1. CASE HasData(chunk)
      <3>1. Stored' = Append(Stored, chunk) /\ Len(Stored) < DataChunks
        BY <1>7, <2>1, StoredAppend DEF WriteChunk
      <3>2. /\ pc["loop"] = "write" /\ pc'["loop"] = "hash"
            /\ UNCHANGED <<hash, requested, spoiled, chunk, open>>
        BY <1>7 DEF WriteChunk
      <3>3. Hashed = hash /\ Hashed' = Append(hash, chunk)
        BY <2>1, <3>2 DEF Hashed, HasData
      <3>4. Len(Stored') = Len(Stored) + 1 /\ Len(Hashed') = Len(hash) + 1
        BY <3>1, <3>3, StoredType DEF ImageTypes
      <3>5. open /\ ~spoiled => Stored' = Hashed' \/ Len(Stored') > Len(Hashed')
        BY <3>1, <3>3, <3>4, StoredType DEF StoredIsHashed, ImageTypes
      <3> QED
        BY <3>1, <3>2, <3>4, <3>5, StoredType, TotalType DEF StoredIsHashed
    <2>2. CASE ~HasData(chunk)
      <3>1. UNCHANGED <<open, flash, buffered, hash, requested, spoiled, chunk>>
        BY <1>7, <2>2 DEF WriteChunk
      <3>2. pc["loop"] = "write" /\ pc'["loop"] = "hash"
        BY <1>7 DEF WriteChunk
      <3>3. Hashed' = Hashed /\ Stored' = Stored
        BY <2>2, <3>1, <3>2 DEF Hashed, Stored, HasData
      <3> QED
        BY <3>1, <3>2, <3>3, ZenonT(30) DEF StoredIsHashed
    <2> QED
      BY <2>1, <2>2
  <1>8. CASE WriteFails
    <2>1. CASE ResetUpdater
      BY <1>8, <2>1, StoredReset DEF WriteFails, StoredIsHashed
    <2>2. CASE UNCHANGED updaterVars
      BY <1>8, <2>2, StoredQuiet DEF WriteFails
    <2> QED
      BY <1>8, <2>1, <2>2 DEF WriteFails
  <1>9. CASE HashChunk
    <2> DEFINE more == HasData(chunk) /\ ~spoiled
    <2>1. UNCHANGED <<open, flash, buffered, spoiled, chunk>> /\ Stored' = Stored
      BY <1>9 DEF HashChunk, Stored
    <2>2. pc["loop"] = "hash" /\ pc'["loop"] \in {"progress", "first", "failed"}
      BY <1>9 DEF HashChunk
    <2>3. Hashed' = hash'
      BY <2>2 DEF Hashed
    <2>4. CASE hash' = IF more THEN Append(hash, chunk) ELSE hash
      <3>1. ~spoiled => hash' = Hashed
        BY <2>2, <2>4 DEF Hashed
      <3>2. chunk[2] \in Nat
        BY DEF Chunks
      <3>3. requested' # 0 \/ UNCHANGED <<requested, hash>>
        BY <1>9, <3>2 DEF HashChunk
      <3> QED
        BY <2>1, <2>2, <2>3, <3>1, <3>3 DEF StoredIsHashed
    <2>5. CASE UNCHANGED <<hash, requested>>
      <3>1. Hashed = hash \/ (Hashed = Append(hash, chunk) /\ Len(Hashed) = Len(hash) + 1)
        BY DEF Hashed, ImageTypes
      <3>2. open /\ ~spoiled => Stored = hash \/ Len(Stored) > Len(hash)
        BY <3>1, StoredType DEF StoredIsHashed, ImageTypes
      <3> QED
        BY <2>1, <2>2, <2>3, <2>5, <3>2 DEF StoredIsHashed
    <2> QED
      BY <1>9, <2>4, <2>5 DEF HashChunk
  <1>10. CASE Stop /\ pc["loop"] \in {"idle", "progress"}
    BY <1>10, StoredReset DEF Stop, End, StoredIsHashed
  <1>11. CASE Progress
    BY <1>10, <1>11, StoredQuiet DEF Progress
  <1>12. CASE AttributeReceived \/ StartFirmwareUpdate \/ Answer \/ Assign \/ Drop \/ Reconnect
              \/ UNCHANGED otaVars
    BY <1>12, StoredQuiet
    DEF AttributeReceived, StartFirmwareUpdate, Answer, Assign, Drop, Reconnect
  <1>13. CASE Reboot
    BY <1>13, StoredReset DEF Reboot
  <1> QED
    BY <1>1, <1>2, <1>3, <1>4, <1>5, <1>6, <1>7, <1>8, <1>9, <1>10, <1>11, <1>12, <1>13
    DEF Next, Loop, Either, StopWhenIdle

-----------------------------------------------------------------------------
(* The slot.                                                               *)

\* Steps that write nothing to the slot.
LEMMA SlotQuiet ==
  ASSUME FlagsType, FlashIsSlot, BootableIsWhole, UNCHANGED <<slot, enabled>>,
         flash' = flash \/ flash' = <<>>
  PROVE  FlashIsSlot' /\ BootableIsWhole'
  BY DEF FlashIsSlot, BootableIsWhole

\* A hash that matches is that of what the slot holds.
LEMMA WholeWhenMatched ==
  ASSUME OtaTypeOK, StoredIsHashed, FlashIsSlot, HashMatches, open, Len(flash) = DataChunks
  PROVE  slot = Image(want)
  <1>1. hash = Image(want) /\ ~spoiled
    BY DEF HashMatches
  <1>2. Len(hash) = DataChunks /\ want \in Versions
    BY <1>1, ImageType DEF OtaTypeOK, ImageTypes
  <1>3. Len(Stored) <= DataChunks /\ Len(buffered) \in Nat /\ Len(flash) \in Nat
    BY DEF StoredIsHashed, OtaTypeOK, ImageTypes
  <1>4. buffered = <<>> /\ Stored = flash
    <2>1. Len(buffered) = 0
      BY <1>3, StoredType, TotalType
    <2>2. buffered = <<>>
      BY <2>1, EmptySeq DEF OtaTypeOK, ImageTypes
    <2> QED
      BY <2>2, ConcatEmptySeq DEF Stored, OtaTypeOK, ImageTypes
  <1>5. Stored = hash
    <2>1. Stored = Hashed \/ Len(Stored) > Len(Hashed)
      BY <1>1 DEF StoredIsHashed
    <2>2. Hashed = hash \/ Len(Hashed) = Len(hash) + 1
      BY DEF Hashed, OtaTypeOK, ImageTypes, TasksType
    <2> QED
      BY <1>2, <1>3, <2>1, <2>2, StoredType, TotalType
  <1>6. flash # <<>>
    BY TotalType
  <1> QED
    BY <1>1, <1>4, <1>5, <1>6 DEF FlashIsSlot

LEMMA SlotStep ==
  ASSUME OtaTypeOK, StoredIsHashed, FlashIsSlot, BootableIsWhole, [Next]_otaVars, ~Panic
  PROVE  FlashIsSlot' /\ BootableIsWhole'
  <1> USE Words, SlotQuiet DEF OtaTypeOK, ResetUpdater, otaVars, handlerVars, bufferVars,
                               updaterVars, slotVars, netVars, boundVars
  <1>1. ASSUME NEW t \in Tasks,
               Verdict(t) \/ RequestFirst(t) \/ RequestNext(t) \/ PublishRequest(t) \/ Arm(t)
        PROVE  FlashIsSlot' /\ BootableIsWhole'
    BY <1>1 DEF Verdict, RequestFirst, RequestNext, PublishRequest, Arm
  <1>2. ASSUME NEW t \in Tasks, Finish(t) PROVE FlashIsSlot' /\ BootableIsWhole'
    <2>1. CASE HashMatches /\ open /\ Len(flash) = DataChunks
      <3>1. UNCHANGED slot /\ want \in Versions /\ flash' = <<>>
        BY <1>2, <2>1 DEF Finish, UpdaterEnd, ImageTypes
      <3>2. slot' = Image(want)
        BY <2>1, <3>1, WholeWhenMatched
      <3> QED
        BY <3>1, <3>2 DEF FlashIsSlot, BootableIsWhole
    <2>2. CASE ~(HashMatches /\ open /\ Len(flash) = DataChunks)
      BY <1>2, <2>2 DEF Finish, UpdaterEnd
    <2> QED
      BY <2>1, <2>2
  <1>3. CASE WriteChunk
    <2>1. CASE ~HasData(chunk) \/ ~Flushes
      <3>1. UNCHANGED slot /\ enabled' = enabled
        BY <1>3, <2>1 DEF WriteChunk, HeaderAfterWrite, FlagsType
      <3>2. flash' = flash
        BY <1>3, <2>1, ConcatEmptySeq DEF WriteChunk, Flushes, Stored, ImageTypes
      <3> QED
        BY <3>1, <3>2
    <2>2. CASE HasData(chunk) /\ Flushes
      <3>1. slot' = flash' /\ ~enabled'
        BY <1>3, <2>2 DEF WriteChunk, HeaderAfterWrite
      <3> QED
        BY <3>1 DEF FlashIsSlot, BootableIsWhole
    <2> QED
      BY <2>1, <2>2
  <1>4. CASE WriteFails
    <2>1. CASE flash' = <<>> /\ ~enabled'
      BY <2>1 DEF FlashIsSlot, BootableIsWhole
    <2>2. CASE (flash' = flash \/ flash' = <<>>) /\ UNCHANGED <<slot, enabled>>
      BY <2>2
    <2> QED
      BY <1>4, <2>1, <2>2 DEF WriteFails
  <1>5. CASE Timeout \/ ReceiveChunk \/ Begin \/ HashChunk
    BY <1>5 DEF Timeout, ReceiveChunk, Begin, HashChunk
  <1>6. CASE Progress \/ StopWhenIdle
    BY <1>6 DEF Progress, StopWhenIdle, Stop
  <1>7. CASE AttributeReceived \/ StartFirmwareUpdate \/ Answer \/ Assign \/ Drop \/ Reconnect
             \/ UNCHANGED otaVars
    BY <1>7 DEF AttributeReceived, StartFirmwareUpdate, Answer, Assign, Drop, Reconnect
  <1>8. CASE Reboot
    <2>1. flash' = <<>> /\ running \in Versions /\ enabled' = enabled
      BY <1>8 DEF Reboot, ImageTypes
    <2>2. slot' = Image(running) \/ slot' = slot
      BY <1>8 DEF Reboot
    <2> QED
      BY <2>1, <2>2 DEF FlashIsSlot, BootableIsWhole
  <1> QED
    BY <1>1, <1>2, <1>3, <1>4, <1>5, <1>6, <1>7, <1>8 DEF Next, Loop, Either

-----------------------------------------------------------------------------
(* The theorems.                                                           *)

LEMMA InvInit == Init => OtaInv
  <1> SUFFICES ASSUME Init PROVE OtaInv
    OBVIOUS
  <1>1. OtaTypeOK
    BY InitTypes
  <1>2. Stored = <<>> /\ Len(Stored) = 0
    BY DEF Init, Stored
  <1>3. StoredIsHashed
    BY <1>2, TotalType DEF Init, StoredIsHashed, Tasks
  <1> QED
    BY <1>1, <1>3
    DEF Init, OtaInv, PointersSet, FlashIsSlot, BootableIsWhole, UpdateIsWatched, RunningIsSafe

LEMMA InvStep == OtaInv /\ [Next]_otaVars => OtaInv'
  <1> SUFFICES ASSUME OtaInv, [Next]_otaVars PROVE OtaInv'
    OBVIOUS
  <1> USE DEF OtaInv
  <1>1. RunningIsSafe'
    BY SafeStep
  <1>2. CASE Panic
    <2>1. OtaTypeOK' /\ panic'
      BY <1>2, PanicType DEF Panic
    <2>2. PointersSet' /\ FlashIsSlot' /\ BootableIsWhole' /\ StoredIsHashed'
      BY <1>2
      DEF Panic, PointersSet, FlashIsSlot, BootableIsWhole, StoredIsHashed, Stored, Hashed, HasData,
          handlerVars, updaterVars, slotVars
    <2> QED
      BY <1>1, <2>1, <2>2 DEF UpdateIsWatched
  <1>3. CASE ~Panic
    BY <1>1, <1>3, FlagsStep, CountsStep, ImageStep, TasksStep, NetStep, PointersStep, WatchedStep,
       StoredStep, SlotStep DEF OtaTypeOK
  <1> QED
    BY <1>2, <1>3

\* The inductive invariant: what OTA_Handler.h, ThingsBoard.h and Updater.cpp
\* keep together through every interleaving of the loop and the timer.
THEOREM OtaInvariant == Spec => []OtaInv
  <1>1. Init => OtaInv
    BY InvInit
  <1>2. OtaInv /\ [Next]_otaVars => OtaInv'
    BY InvStep
  <1> QED
    BY <1>1, <1>2, PTL DEF Spec

\* Every variable of the update keeps its type, m_retries its range.
THEOREM OtaTypeCorrect == Spec => []OtaTypeOK
  BY OtaInvariant, PTL DEF OtaInv

\* The boot loader finds a header only over the whole image of one firmware,
\* whatever is lost, mixed, repeated or interrupted (Updater.cpp: end()).
THEOREM OnlyWholeImagesBoot == Spec => []BootableIsWhole
  BY OtaInvariant, PTL DEF OtaInv

\* A running update has its watchdog armed or a task at work on it
\* (OTA_Handler.h: Request_Next_Firmware_Packet()).
THEOREM UpdatesAreWatched == Spec => []UpdateIsWatched
  BY OtaInvariant, PTL DEF OtaInv

\* No null m_fw_callback is used while an update runs.
THEOREM RunningNeverPanics == Spec => []RunningIsSafe
  BY OtaInvariant, PTL DEF OtaInv

LEMMA HeaderStep ==
  ASSUME OtaInv, [Next]_otaVars, enabled, enabled'
  PROVE  slot' = slot \/ running' # running
  <1> USE DEF OtaInv, OtaTypeOK, otaVars, handlerVars, bufferVars, updaterVars, slotVars, netVars,
              boundVars
  <1>1. CASE Reboot
    <2>1. PICK v \in Versions : slot = Image(v)
      BY DEF BootableIsWhole
    <2>2. slot[1][1] = v
      BY <2>1, ImageType
    <2>3. CASE running' = running /\ boot = "slot"
      BY <1>1, <2>1, <2>2, <2>3 DEF Reboot
    <2>4. CASE boot # "slot"
      BY <1>1, <2>4 DEF Reboot
    <2> QED
      BY <2>3, <2>4
  <1>2. CASE WriteChunk
    BY <1>2 DEF WriteChunk, HeaderAfterWrite
  <1>3. CASE WriteFails
    BY <1>3 DEF WriteFails
  <1>4. ASSUME NEW t \in Tasks, Either(t) PROVE slot' = slot
    BY <1>4 DEF Either, Verdict, RequestFirst, RequestNext, PublishRequest, Arm, Finish, UpdaterEnd,
                Panic
  <1>5. CASE \/ Timeout \/ ReceiveChunk \/ Begin \/ HashChunk \/ Progress \/ StopWhenIdle
             \/ AttributeReceived \/ StartFirmwareUpdate \/ Answer \/ Assign \/ Drop \/ Reconnect
             \/ UNCHANGED otaVars
    BY <1>5 DEF Timeout, ReceiveChunk, Begin, HashChunk, Progress, Panic, StopWhenIdle, Stop,
                AttributeReceived, StartFirmwareUpdate, Answer, Assign, Drop, Reconnect
  <1> QED
    BY <1>1, <1>2, <1>3, <1>4, <1>5, Words DEF Next, Loop

\* Nothing under a valid header is overwritten, except that the partitions
\* change places at a restart (Updater.cpp: _writeBuffer()).
THEOREM HeaderIsTakenFirst == Spec => HeaderGoesFirst
  <1>1. OtaInv /\ [Next]_otaVars
          => [enabled /\ enabled' => slot' = slot \/ running' # running]_otaVars
    BY HeaderStep
  <1> QED
    BY <1>1, OtaInvariant, PTL DEF Spec, HeaderGoesFirst
=============================================================================
