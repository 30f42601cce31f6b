--------------------------- MODULE EspRadioProofs ---------------------------
(***************************************************************************)
(* Proofs about EspRadio, for every queue length, every number of senders, *)
(* faults and frames.  The argument is an inductive invariant in three     *)
(* layers, each proved on top of the one before: the types, how far        *)
(* startReceiver() has got, and the order of the frames in the line that   *)
(* runs from the air through inbox, callback and queue to the reader.      *)
(***************************************************************************)
EXTENDS EspRadio, SequenceTheorems, TLAPS

-----------------------------------------------------------------------------
(* Lemmas on the range and the order of a sequence of frames.              *)

LEMMA RangeEmpty == Range(<<>>) = {}
  BY DEF Range

LEMMA RangeAppend ==
  ASSUME NEW S, NEW s \in Seq(S), NEW e \in S
  PROVE  Range(Append(s, e)) = Range(s) \union {e}
  <1>1. /\ Append(s, e) \in Seq(S) /\ Len(Append(s, e)) = Len(s) + 1
        /\ \A i \in 1..Len(s) : Append(s, e)[i] = s[i]
        /\ Append(s, e)[Len(s) + 1] = e
    BY AppendProperties
  <1>2. /\ Len(s) \in Nat /\ DOMAIN s = 1..Len(s)
        /\ DOMAIN Append(s, e) = 1..(Len(s) + 1)
    BY <1>1, LenProperties
  <1>. QED  BY <1>1, <1>2 DEF Range

LEMMA RangeTail ==
  ASSUME NEW S, NEW s \in Seq(S), s # <<>>
  PROVE  /\ Head(s) \in Range(s)
         /\ Range(Tail(s)) \subseteq Range(s)
         /\ Range(s) = {Head(s)} \union Range(Tail(s))
  <1>1. /\ Tail(s) \in Seq(S) /\ Len(Tail(s)) = Len(s) - 1
        /\ \A i \in 1..Len(Tail(s)) : Tail(s)[i] = s[i + 1]
    BY HeadTailProperties
  <1>2. /\ Len(s) \in Nat \ {0} /\ DOMAIN s = 1..Len(s)
        /\ DOMAIN Tail(s) = 1..(Len(s) - 1)
    BY <1>1, LenProperties, EmptySeq
  <1>3. Head(s) = s[1]
    OBVIOUS
  <1>4. Head(s) \in Range(s)
    BY <1>2, <1>3 DEF Range
  <1>5. Range(Tail(s)) \subseteq Range(s)
    <2>1. ASSUME NEW i \in 1..(Len(s) - 1)
          PROVE  Tail(s)[i] \in Range(s)
      <3>1. i + 1 \in 1..Len(s) /\ Tail(s)[i] = s[i + 1]
        BY <1>1, <1>2
      <3>. QED  BY <3>1, <1>2 DEF Range
    <2>. QED  BY <2>1, <1>2 DEF Range
  <1>6. ASSUME NEW i \in 1..Len(s)
        PROVE  s[i] \in {Head(s)} \union Range(Tail(s))
    <2>1. CASE i = 1
      BY <2>1, <1>3
    <2>2. CASE i # 1
      <3>1. i - 1 \in 1..(Len(s) - 1) /\ Tail(s)[i - 1] = s[i]
        BY <2>2, <1>1, <1>2
      <3>. QED  BY <3>1, <1>2 DEF Range
    <2>. QED  BY <2>1, <2>2
  <1>. QED  BY <1>2, <1>4, <1>5, <1>6 DEF Range

LEMMA RangeSingle ==
  ASSUME NEW S, NEW s \in Seq(S), s # <<>>, Len(s) <= 1
  PROVE  Range(s) = {Head(s)} /\ Head(s) \in S
  <1>1. Len(s) = 1 /\ DOMAIN s = 1..1
    <2>1. Len(s) \in Nat \ {0}
      BY EmptySeq
    <2>2. DOMAIN s = 1..Len(s)
      BY LenProperties
    <2>. QED  BY <2>1, <2>2
  <1>2. Head(s) = s[1] /\ s[1] \in S
    BY <1>1, ElementOfSeq
  <1>. QED  BY <1>1, <1>2 DEF Range

LEMMA RangeTyped ==
  ASSUME NEW S, NEW s \in Seq(S)
  PROVE  Range(s) \subseteq S
  BY LenProperties, ElementOfSeq DEF Range

LEMMA IncreasingAppend ==
  ASSUME NEW s \in Seq(Frame), NEW f \in Frame, Increasing(s),
         \A g \in Range(s) : g.seq < f.seq
  PROVE  Increasing(Append(s, f))
  <1> DEFINE t == Append(s, f)
  <1>1. /\ Len(t) = Len(s) + 1 /\ Len(s) \in Nat /\ t[Len(s) + 1] = f
        /\ \A i \in 1..Len(s) : t[i] = s[i] /\ s[i] \in Range(s)
    BY AppendProperties, LenProperties DEF Range
  <1>2. ASSUME NEW i \in 1..Len(t), NEW j \in 1..Len(t), i < j
        PROVE  t[i].seq < t[j].seq
    <2>1. i \in 1..Len(s)
      BY <1>1, <1>2
    <2>2. CASE j = Len(s) + 1
      BY <2>1, <2>2, <1>1
    <2>3. CASE j # Len(s) + 1
      <3>1. j \in 1..Len(s)
        BY <2>3, <1>1
      <3>2. t[i] = s[i] /\ t[j] = s[j]
        BY <3>1, <2>1, <1>1
      <3>. QED  BY <3>1, <3>2, <2>1, <1>2 DEF Increasing
    <2>. QED  BY <2>2, <2>3
  <1>. QED  BY <1>2 DEF Increasing

LEMMA IncreasingTail ==
  ASSUME NEW s \in Seq(Frame), s # <<>>, Increasing(s)
  PROVE  /\ Increasing(Tail(s))
         /\ \A g \in Range(Tail(s)) : Head(s).seq < g.seq
  <1> DEFINE t == Tail(s)
  <1>1. /\ t \in Seq(Frame) /\ Len(t) = Len(s) - 1 /\ Len(s) \in Nat \ {0}
        /\ \A i \in 1..Len(t) : t[i] = s[i + 1]
        /\ DOMAIN t = 1..Len(t)
    BY HeadTailProperties, LenProperties, EmptySeq
  <1>2. Head(s) = s[1]
    OBVIOUS
  <1>3. ASSUME NEW i \in 1..Len(t), NEW j \in 1..Len(t), i < j
        PROVE  t[i].seq < t[j].seq
    <2>1. i + 1 \in 1..Len(s) /\ j + 1 \in 1..Len(s) /\ i + 1 < j + 1
      BY <1>1, <1>3
    <2>2. s[i + 1].seq < s[j + 1].seq
      BY <2>1 DEF Increasing
    <2>. QED  BY <2>2, <1>1
  <1>4. ASSUME NEW i \in 1..Len(t)
        PROVE  Head(s).seq < t[i].seq
    <2>1. 1 \in 1..Len(s) /\ i + 1 \in 1..Len(s) /\ 1 < i + 1
      BY <1>1
    <2>2. s[1].seq < s[i + 1].seq
      BY <2>1 DEF Increasing
    <2>. QED  BY <2>2, <1>1, <1>2
  <1>5. Increasing(t)
    BY <1>3 DEF Increasing
  <1>6. \A g \in Range(t) : Head(s).seq < g.seq
    BY <1>1, <1>4 DEF Range
  <1>. QED  BY <1>5, <1>6
-----------------------------------------------------------------------------
(* Types.                                                                  *)

LEMMA TypeInit == Init => RadioTypeOK
  <1> SUFFICES ASSUME Init PROVE RadioTypeOK
    OBVIOUS
  <1> USE RadioAssumption DEF Init, NULL
  <1>1. /\ queues \in [1..HeapQueues -> Seq(Frame)]
        /\ \A h \in 1..HeapQueues : Len(queues[h]) <= ENOW_Q_LEN
    OBVIOUS
  <1>2. allocated \in 0..HeapQueues /\ radioQ \in 0..allocated /\ faults \in 0..MaxFaults
    OBVIOUS
  <1>3. inbox \in Seq(Frame) /\ cbFrame \in Seq(Frame) /\ got \in Seq(Nat)
    OBVIOUS
  <1>4. Len(cbFrame) <= 1
    OBVIOUS
  <1>5. pc \in {"out", "startReceiver", "register", "receive"} /\ onAir \in Nat
    OBVIOUS
  <1>6. wasRadioInit \in BOOLEAN /\ receiverWasStarted \in BOOLEAN /\ recvCb \in BOOLEAN
    OBVIOUS
  <1>. QED  BY <1>1, <1>2, <1>3, <1>4, <1>5, <1>6 DEF RadioTypeOK

LEMMA TypeStep == RadioTypeOK /\ [Next]_radioVars => RadioTypeOK'
  <1> SUFFICES ASSUME RadioTypeOK, [Next]_radioVars PROVE RadioTypeOK'
    OBVIOUS
  <1> USE RadioAssumption DEF RadioTypeOK
  <1>1. CASE InitRadio
    BY <1>1 DEF InitRadio, DriverCall
  <1>2. CASE CreateQueue
    BY <1>2 DEF CreateQueue, NULL
  <1>3. CASE RegisterCb
    BY <1>3 DEF RegisterCb, DriverCall
  <1>4. CASE ReceiveOne
    <2>1. /\ radioQ \in 1..HeapQueues /\ queues[radioQ] \in Seq(Frame)
          /\ queues[radioQ] # <<>>
      BY <1>4 DEF ReceiveOne, NULL
    <2>2. /\ Tail(queues[radioQ]) \in Seq(Frame) /\ Head(queues[radioQ]) \in Frame
          /\ Len(Tail(queues[radioQ])) <= ENOW_Q_LEN
      <3>1. Len(Tail(queues[radioQ])) = Len(queues[radioQ]) - 1
        BY <2>1, HeadTailProperties
      <3>2. Len(queues[radioQ]) \in Nat /\ Len(queues[radioQ]) <= ENOW_Q_LEN
        BY <2>1, LenProperties
      <3>. QED  BY <2>1, <3>1, <3>2, HeadTailProperties
    <2>3. /\ queues' \in [1..HeapQueues -> Seq(Frame)]
          /\ \A h \in 1..HeapQueues : Len(queues'[h]) <= ENOW_Q_LEN
      BY <1>4, <2>1, <2>2 DEF ReceiveOne
    <2>4. got' \in Seq(Nat)
      BY <1>4, <2>2 DEF ReceiveOne, Frame
    <2>. QED  BY <1>4, <2>3, <2>4 DEF ReceiveOne
  <1>5. CASE ReceiveTimeout
    BY <1>5 DEF ReceiveTimeout
  <1>6. CASE OnDataRecv
    <2>1. Tail(inbox) \in Seq(Frame) /\ Head(inbox) \in Frame
      BY <1>6, HeadTailProperties DEF OnDataRecv
    <2>2. cbFrame' \in Seq(Frame) /\ Len(cbFrame') <= 1
      BY <1>6, <2>1 DEF OnDataRecv
    <2>. QED  BY <1>6, <2>1, <2>2 DEF OnDataRecv
  <1>7. CASE QueueSend
    <2>1. radioQ \in 1..HeapQueues /\ queues[radioQ] \in Seq(Frame)
      BY <1>7 DEF QueueSend, NULL
    <2>2. Head(cbFrame) \in Frame
      BY <1>7, HeadTailProperties DEF QueueSend
    <2>3. /\ Append(queues[radioQ], Head(cbFrame)) \in Seq(Frame)
          /\ Len(Append(queues[radioQ], Head(cbFrame))) <= ENOW_Q_LEN
      <3>1. Len(Append(queues[radioQ], Head(cbFrame))) = Len(queues[radioQ]) + 1
        BY <2>1, <2>2, AppendProperties
      <3>2. Len(queues[radioQ]) \in Nat /\ Len(queues[radioQ]) < ENOW_Q_LEN
        BY <1>7, <2>1, LenProperties DEF QueueSend
      <3>. QED  BY <2>1, <2>2, <3>1, <3>2, AppendProperties
    <2>4. /\ queues' \in [1..HeapQueues -> Seq(Frame)]
          /\ \A h \in 1..HeapQueues : Len(queues'[h]) <= ENOW_Q_LEN
      BY <1>7, <2>1, <2>3 DEF QueueSend
    <2>5. cbFrame' \in Seq(Frame) /\ Len(cbFrame') <= 1
      BY <1>7, EmptySeq DEF QueueSend
    <2>. QED  BY <1>7, <2>4, <2>5 DEF QueueSend
  <1>8. CASE QueueSendTimeout
    <2>1. cbFrame' \in Seq(Frame) /\ Len(cbFrame') <= 1
      BY <1>8, EmptySeq DEF QueueSendTimeout
    <2>. QED  BY <1>8, <2>1 DEF QueueSendTimeout
  <1>9. ASSUME NEW proto \in Protocols, Broadcast(proto)
        PROVE  RadioTypeOK'
    <2> DEFINE f == [seq |-> onAir + 1, proto |-> proto]
    <2>1. f \in Frame /\ onAir' \in Nat
      BY <1>9 DEF Broadcast, Frame
    <2>2. inbox' = Append(inbox, f) \/ inbox' = inbox
      BY <1>9 DEF Broadcast
    <2> HIDE DEF f
    <2>3. Append(inbox, f) \in Seq(Frame)
      BY <2>1, AppendProperties
    <2>. QED  BY <1>9, <2>1, <2>2, <2>3 DEF Broadcast
  <1>10. CASE UNCHANGED radioVars
    BY <1>10 DEF radioVars
  <1>. QED
    BY <1>1, <1>2, <1>3, <1>4, <1>5, <1>6, <1>7, <1>8, <1>9, <1>10
       DEF Next, LoopTask, WifiTask, Air

\* Types: the queue never holds more than ENOW_Q_LEN packets, the callback never
\* more than one, and radioQ is NULL or a queue xQueueCreate() has handed out.
THEOREM RadioTypeCorrect == Spec => []RadioTypeOK
  BY TypeInit, TypeStep, PTL DEF Spec
-----------------------------------------------------------------------------
(* How far startReceiver() has got.                                        *)

LEMMA ControlInit == Init => RadioControl /\ NoStrandedPacket
  BY RadioAssumption DEF Init, RadioControl, NoStrandedPacket, NULL

LEMMA ControlStep ==
  ASSUME RadioTypeOK, RadioControl, NoStrandedPacket, [Next]_radioVars
  PROVE  (RadioControl /\ NoStrandedPacket)'
  <1> USE RadioAssumption, HeapAssumption DEF RadioTypeOK, RadioControl, NoStrandedPacket, NULL
  <1>1. CASE InitRadio
    BY <1>1 DEF InitRadio, DriverCall
  <1>2. CASE CreateQueue
    <2>1. CASE receiverWasStarted
      BY <1>2, <2>1 DEF CreateQueue
    <2>2. CASE ~receiverWasStarted
      <3>1. allocated < HeapQueues
        BY <1>2, <2>2 DEF CreateQueue
      <3>. QED  BY <1>2, <2>2, <3>1 DEF CreateQueue
    <2>. QED  BY <2>1, <2>2
  <1>3. CASE RegisterCb
    BY <1>3 DEF RegisterCb, DriverCall
  <1>4. CASE ReceiveOne
    BY <1>4 DEF ReceiveOne
  <1>5. CASE ReceiveTimeout
    BY <1>5 DEF ReceiveTimeout
  <1>6. CASE OnDataRecv
    BY <1>6 DEF OnDataRecv
  <1>7. CASE QueueSend
    BY <1>7 DEF QueueSend
  <1>8. CASE QueueSendTimeout
    BY <1>8 DEF QueueSendTimeout
  <1>9. ASSUME NEW proto \in Protocols, Broadcast(proto)
        PROVE  (RadioControl /\ NoStrandedPacket)'
    BY <1>9 DEF Broadcast
  <1>10. CASE UNCHANGED radioVars
    BY <1>10 DEF radioVars
  <1>. QED
    BY <1>1, <1>2, <1>3, <1>4, <1>5, <1>6, <1>7, <1>8, <1>9, <1>10
       DEF Next, LoopTask, WifiTask, Air

\* No packet is ever left in a queue that receivePacket() no longer reads.
THEOREM NothingStranded == Spec => []NoStrandedPacket
  <1>1. RadioTypeOK /\ RadioControl /\ NoStrandedPacket /\ [Next]_radioVars
          => (RadioControl /\ NoStrandedPacket)'
    BY ControlStep
  <1>. QED  BY <1>1, ControlInit, RadioTypeCorrect, PTL DEF Spec

\* The unchecked xQueueCreate() is harmless as long as the heap has room for one
\* queue more than driver calls fail: radioQ is never used as NULL.
THEOREM QueueNeverNull == Spec => []NullQueueNeverUsed
  <1>1. RadioControl => NullQueueNeverUsed
    BY DEF RadioControl, NullQueueNeverUsed
  <1>2. RadioTypeOK /\ RadioControl /\ NoStrandedPacket /\ [Next]_radioVars
          => (RadioControl /\ NoStrandedPacket)'
    BY ControlStep
  <1>. QED  BY <1>1, <1>2, ControlInit, RadioTypeCorrect, PTL DEF Spec
-----------------------------------------------------------------------------
(* The order of the line air, inbox, callback, queue, reader.              *)

LEMMA OrderInit == Init => RadioOrder /\ InOrderOnce
  <1> SUFFICES ASSUME Init PROVE RadioOrder /\ InOrderOnce
    OBVIOUS
  <1>1. InFlight = {}
    BY RangeEmpty DEF Init, InFlight
  <1>. QED  BY <1>1, RangeEmpty DEF Init, RadioOrder, InOrderOnce, Increasing, Older

\* What xQueueReceive() takes is the oldest frame in flight.
LEMMA ReceiveTakesOldest ==
  ASSUME RadioTypeOK, NoStrandedPacket, RadioOrder, ReceiveOne
  PROVE  LET r == Head(queues[radioQ]) IN
           /\ r \in Frame
           /\ InFlight = InFlight' \union {r}
           /\ \A f \in InFlight' : r.seq < f.seq
  <1> DEFINE q == queues[radioQ]
             r == Head(q)
  <1>1. /\ queues \in [1..HeapQueues -> Seq(Frame)]
        /\ radioQ \in 1..HeapQueues /\ q \in Seq(Frame) /\ q # <<>>
    BY RadioAssumption DEF RadioTypeOK, ReceiveOne, NULL
  <1>2. /\ queues' = [queues EXCEPT ![radioQ] = Tail(q)]
        /\ UNCHANGED <<inbox, cbFrame, radioQ>>
    BY DEF ReceiveOne
  <1>3. /\ r \in Range(q) /\ r \in Frame
        /\ Range(q) = {r} \union Range(Tail(q))
        /\ \A g \in Range(Tail(q)) : r.seq < g.seq
    BY <1>1, RangeTail, HeadTailProperties, IncreasingTail DEF RadioOrder
  <1>4. queues'[radioQ] = Tail(q)
    BY <1>1, <1>2
  <1>5. \A h \in 1..HeapQueues : h # radioQ => queues'[h] = queues[h] /\ queues[h] = <<>>
    BY <1>1, <1>2 DEF NoStrandedPacket
  <1>6. /\ UNION {Range(queues[h]) : h \in 1..HeapQueues} = Range(q)
        /\ UNION {Range(queues'[h]) : h \in 1..HeapQueues} = Range(Tail(q))
    BY <1>1, <1>4, <1>5, RangeEmpty
  <1>7. /\ InFlight = Range(inbox) \union Range(cbFrame) \union Range(q)
        /\ InFlight' = Range(inbox) \union Range(cbFrame) \union Range(Tail(q))
    BY <1>2, <1>6 DEF InFlight
  <1>8. \A f \in Range(cbFrame) \union Range(inbox) : r.seq < f.seq
    BY <1>1, <1>3 DEF RadioOrder, Older
  <1>. QED  BY <1>3, <1>7, <1>8

LEMMA OrderStep ==
  ASSUME RadioTypeOK, RadioControl, NoStrandedPacket, RadioOrder, InOrderOnce,
         [Next]_radioVars
  PROVE  (RadioOrder /\ InOrderOnce)'
  <1>0. /\ inbox \in Seq(Frame) /\ cbFrame \in Seq(Frame) /\ Len(cbFrame) <= 1
        /\ got \in Seq(Nat) /\ onAir \in Nat
        /\ queues \in [1..HeapQueues -> Seq(Frame)]
        /\ radioQ # NULL => radioQ \in 1..HeapQueues
    BY RadioAssumption DEF RadioTypeOK, NULL
  <1>1. CASE UNCHANGED <<inbox, cbFrame, queues, got, onAir>>
    BY <1>1 DEF RadioOrder, InOrderOnce, InFlight
  <1>2. CASE ReceiveOne
    <2> DEFINE q == queues[radioQ]
    <2>1. radioQ \in 1..HeapQueues /\ q \in Seq(Frame) /\ q # <<>>
      BY <1>2, <1>0 DEF ReceiveOne
    <2>2. /\ Head(q) \in Range(q) /\ Head(q) \in Frame
          /\ Range(Tail(q)) \subseteq Range(q)
      BY <2>1, RangeTail, HeadTailProperties
    <2>3. /\ Increasing(Tail(q))
          /\ \A g \in Range(Tail(q)) : Head(q).seq < g.seq
      BY <2>1, IncreasingTail DEF RadioOrder
    <2>4. /\ queues' = [queues EXCEPT ![radioQ] = Tail(q)]
          /\ UNCHANGED <<inbox, cbFrame, onAir>>
          /\ got' = got \/ got' = Append(got, Head(q).seq)
      BY <1>2 DEF ReceiveOne
    <2>5. ASSUME NEW h \in 1..HeapQueues
          PROVE  /\ Range(queues'[h]) \subseteq Range(queues[h])
                 /\ Increasing(queues'[h])
      <3>1. CASE h = radioQ
        BY <3>1, <2>1, <2>2, <2>3, <2>4, <1>0
      <3>2. CASE h # radioQ
        BY <3>2, <2>4, <1>0 DEF RadioOrder
      <3>. QED  BY <3>1, <3>2
    <2>6. /\ InFlight' \subseteq InFlight /\ Head(q) \in InFlight
          /\ \A f \in InFlight' : Head(q).seq < f.seq
      BY <1>2, ReceiveTakesOldest
    <2>7. Head(q).seq \in Nat /\ Head(q) \in InFlight
      BY <2>2, <2>6 DEF Frame
    <2>9. \A i \in 1..Len(got) : got[i] < Head(q).seq
      BY <2>7 DEF RadioOrder
    <2>10. /\ \A i \in 1..Len(got') : got'[i] <= onAir
           /\ \A f \in InFlight', i \in 1..Len(got') : got'[i] < f.seq
           /\ \A i, j \in 1..Len(got') : i < j => got'[i] < got'[j]
      <3>1. CASE got' = got
        BY <3>1, <2>6 DEF RadioOrder, InOrderOnce
      <3>2. CASE got' = Append(got, Head(q).seq)
        <4>1. /\ Len(got') = Len(got) + 1 /\ Len(got) \in Nat
              /\ got'[Len(got) + 1] = Head(q).seq
              /\ \A i \in 1..Len(got) : got'[i] = got[i]
          BY <3>2, <2>7, <1>0, AppendProperties, LenProperties
        <4>2. Head(q).seq <= onAir
          BY <2>7 DEF RadioOrder
        <4>3. ASSUME NEW i \in 1..Len(got')
              PROVE  got'[i] <= onAir /\ \A f \in InFlight' : got'[i] < f.seq
          <5>1. CASE i = Len(got) + 1
            BY <5>1, <4>1, <4>2, <2>6
          <5>2. CASE i # Len(got) + 1
            BY <5>2, <4>1, <2>6 DEF RadioOrder
          <5>. QED  BY <5>1, <5>2
        <4>4. ASSUME NEW i \in 1..Len(got'), NEW j \in 1..Len(got'), i < j
              PROVE  got'[i] < got'[j]
          <5>1. i \in 1..Len(got) /\ got'[i] = got[i]
            BY <4>1, <4>4
          <5>2. CASE j = Len(got) + 1
            BY <5>1, <5>2, <4>1, <2>9
          <5>3. CASE j # Len(got) + 1
            BY <5>1, <5>3, <4>1, <4>4 DEF InOrderOnce
          <5>. QED  BY <5>2, <5>3
        <4>. QED  BY <4>3, <4>4
      <3>. QED  BY <2>4, <3>1, <3>2
    <2>11. \A f \in InFlight' : f.seq <= onAir
      BY <2>6 DEF RadioOrder
    <2>12. /\ \A h \in 1..HeapQueues : Older(Range(queues'[h]), Range(cbFrame') \union Range(inbox'))
           /\ Older(Range(cbFrame'), Range(inbox'))
           /\ Increasing(inbox')
      BY <2>4, <2>5 DEF RadioOrder, Older
    <2>. QED  BY <2>4, <2>5, <2>10, <2>11, <2>12 DEF RadioOrder, InOrderOnce
  <1>3. CASE OnDataRecv
    <2>1. /\ Head(inbox) \in Range(inbox) /\ Head(inbox) \in Frame
          /\ Range(Tail(inbox)) \subseteq Range(inbox)
          /\ Increasing(Tail(inbox))
          /\ \A g \in Range(Tail(inbox)) : Head(inbox).seq < g.seq
      BY <1>0, <1>3, RangeTail, IncreasingTail, HeadTailProperties DEF OnDataRecv, RadioOrder
    <2>2. /\ inbox' = Tail(inbox) /\ cbFrame' = <<Head(inbox)>>
          /\ UNCHANGED <<queues, got, onAir>>
      BY <1>3 DEF OnDataRecv
    <2>3. Range(cbFrame') = {Head(inbox)}
      BY <2>2 DEF Range
    <2>4. InFlight' \subseteq InFlight
      BY <2>1, <2>2, <2>3 DEF InFlight
    <2>5. \A h \in 1..HeapQueues : Older(Range(queues'[h]), Range(cbFrame') \union Range(inbox'))
      BY <2>1, <2>2, <2>3 DEF RadioOrder, Older
    <2>6. Older(Range(cbFrame'), Range(inbox'))
      BY <2>1, <2>2, <2>3 DEF Older
    <2>. QED  BY <2>1, <2>2, <2>4, <2>5, <2>6 DEF RadioOrder, InOrderOnce
  <1>4. CASE QueueSend
    <2> DEFINE q == queues[radioQ]
               c == Head(cbFrame)
    <2>1. radioQ \in 1..HeapQueues /\ q \in Seq(Frame)
      BY <1>0, <1>4 DEF QueueSend
    <2>2. Range(cbFrame) = {c} /\ c \in Frame
      BY <1>0, <1>4, RangeSingle DEF QueueSend
    <2>3. /\ queues' = [queues EXCEPT ![radioQ] = Append(q, c)]
          /\ cbFrame' = <<>> /\ UNCHANGED <<inbox, got, onAir>>
      BY <1>4 DEF QueueSend
    <2>4. \A g \in Range(q) : g.seq < c.seq
      BY <2>1, <2>2 DEF RadioOrder, Older
    <2>5. Range(Append(q, c)) = Range(q) \union {c} /\ Increasing(Append(q, c))
      <3> HIDE DEF q, c
      <3>1. Increasing(q)
        BY <2>1 DEF RadioOrder, q
      <3>. QED  BY <2>1, <2>2, <2>4, <3>1, RangeAppend, IncreasingAppend
    <2>6. ASSUME NEW h \in 1..HeapQueues
          PROVE  /\ Range(queues'[h]) \subseteq Range(queues[h]) \union {c}
                 /\ Increasing(queues'[h])
      <3>1. CASE h = radioQ
        BY <3>1, <2>1, <2>3, <2>5, <1>0
      <3>2. CASE h # radioQ
        BY <3>2, <2>3, <1>0 DEF RadioOrder
      <3>. QED  BY <3>1, <3>2
    <2>7. Range(cbFrame') = {}
      BY <2>3, RangeEmpty
    <2>8. InFlight' \subseteq InFlight
      BY <2>2, <2>3, <2>6, <2>7 DEF InFlight
    <2>9. /\ \A h \in 1..HeapQueues : Older(Range(queues'[h]), Range(cbFrame') \union Range(inbox'))
          /\ Older(Range(cbFrame'), Range(inbox'))
      BY <2>2, <2>3, <2>6, <2>7 DEF RadioOrder, Older
    <2>. QED  BY <2>3, <2>6, <2>8, <2>9 DEF RadioOrder, InOrderOnce
  <1>5. CASE QueueSendTimeout
    <2>1. cbFrame' = <<>> /\ UNCHANGED <<queues, inbox, got, onAir>>
      BY <1>5 DEF QueueSendTimeout
    <2>2. Range(cbFrame') = {} /\ InFlight' \subseteq InFlight
      BY <2>1, RangeEmpty DEF InFlight
    <2>. QED  BY <2>1, <2>2 DEF RadioOrder, InOrderOnce, Older
  <1>6. ASSUME NEW proto \in Protocols, Broadcast(proto)
        PROVE  (RadioOrder /\ InOrderOnce)'
    <2> DEFINE f == [seq |-> onAir + 1, proto |-> proto]
    <2>1. /\ inbox' = Append(inbox, f) \/ inbox' = inbox
          /\ onAir' = onAir + 1 /\ UNCHANGED <<queues, cbFrame, got>>
      BY <1>6 DEF Broadcast
    <2>2. f \in Frame /\ f.seq = onAir + 1
      BY <1>0 DEF Frame
    <2> HIDE DEF f
    <2>3. \A g \in InFlight : g.seq \in Nat /\ g.seq < f.seq
      <3>1. InFlight \subseteq Frame
        BY <1>0, RangeTyped DEF InFlight
      <3>. QED  BY <3>1, <2>2, <1>0 DEF RadioOrder, Frame
    <2>4. Range(inbox') \subseteq Range(inbox) \union {f} /\ Increasing(inbox')
      <3>1. CASE inbox' = inbox
        BY <3>1 DEF RadioOrder
      <3>2. CASE inbox' = Append(inbox, f)
        <4>1. Increasing(inbox) /\ \A g \in Range(inbox) : g.seq < f.seq
          BY <2>3 DEF RadioOrder, InFlight
        <4>. QED  BY <3>2, <4>1, <2>2, <1>0, RangeAppend, IncreasingAppend
      <3>. QED  BY <2>1, <3>1, <3>2
    <2>5. InFlight' \subseteq InFlight \union {f}
      BY <2>1, <2>4 DEF InFlight
    <2>6. \A i \in 1..Len(got) : got[i] \in Nat /\ got[i] <= onAir
      BY <1>0, ElementOfSeq DEF RadioOrder
    <2>7. /\ \A i \in 1..Len(got') : got'[i] <= onAir'
          /\ \A g \in InFlight' : g.seq <= onAir' /\ \A i \in 1..Len(got') : got'[i] < g.seq
      <3>1. \A i \in 1..Len(got') : got'[i] <= onAir' /\ got'[i] < f.seq
        BY <1>0, <2>1, <2>2, <2>6
      <3>2. \A g \in InFlight : g.seq <= onAir'
        BY <1>0, <2>1, <2>2, <2>3
      <3>3. \A g \in InFlight : \A i \in 1..Len(got') : got'[i] < g.seq
        BY <2>1 DEF RadioOrder
      <3>4. f.seq <= onAir'
        BY <1>0, <2>1, <2>2
      <3>. QED  BY <2>5, <3>1, <3>2, <3>3, <3>4
    <2>8. /\ \A h \in 1..HeapQueues : Older(Range(queues'[h]), Range(cbFrame') \union Range(inbox'))
          /\ Older(Range(cbFrame'), Range(inbox'))
      BY <2>1, <2>3, <2>4 DEF RadioOrder, Older, InFlight
    <2>. QED  BY <2>1, <2>4, <2>7, <2>8 DEF RadioOrder, InOrderOnce
  <1>. QED
    <2>1. \/ InitRadio \/ CreateQueue \/ RegisterCb \/ ReceiveTimeout \/ UNCHANGED radioVars
          => UNCHANGED <<inbox, cbFrame, queues, got, onAir>>
      BY DEF InitRadio, CreateQueue, RegisterCb, ReceiveTimeout, radioVars
    <2>. QED  BY <2>1, <1>1, <1>2, <1>3, <1>4, <1>5, <1>6 DEF Next, LoopTask, WifiTask, Air

LEMMA InvInit == Init => RadioInv
  BY TypeInit, ControlInit, OrderInit DEF RadioInv

LEMMA InvStep == RadioInv /\ [Next]_radioVars => RadioInv'
  BY TypeStep, ControlStep, OrderStep DEF RadioInv

\* The inductive invariant holds.
THEOREM RadioInvariant == Spec => []RadioInv
  BY InvInit, InvStep, PTL DEF Spec

\* receivePacket() hands out packets in the order of the air, none twice.
THEOREM ReceivedInOrderOnce == Spec => []InOrderOnce
  <1>1. RadioInv => InOrderOnce
    BY DEF RadioInv
  <1>. QED  BY <1>1, RadioInvariant, PTL
-----------------------------------------------------------------------------
(* The refinement: every step is a step of the lossy channel or a stutter. *)

Ours(F) == {f.seq : f \in {g \in F : g.proto = ESP_PROTOCOL_ID}}

\* The channel's step, with the refinement mapping filled in.
ChannelStep == [Fifo!FifoNext]_<<onAir, Ours(InFlight), got>>

LEMMA StepReceive ==
  ASSUME RadioInv, ReceiveOne
  PROVE  ChannelStep
  <1> DEFINE r == Head(queues[radioQ])
  <1>1. /\ r \in Frame /\ InFlight = InFlight' \union {r}
        /\ \A f \in InFlight' : r.seq < f.seq
    BY ReceiveTakesOldest DEF RadioInv
  <1>2. /\ onAir' = onAir
        /\ got' = IF r.proto = ESP_PROTOCOL_ID THEN Append(got, r.seq) ELSE got
    BY DEF ReceiveOne
  <1>3. r.seq \in Nat /\ \A f \in InFlight : f.seq \in Nat
    <2>1. InFlight \subseteq Frame
      BY RangeTyped DEF InFlight, RadioInv, RadioTypeOK
    <2>. QED  BY <1>1, <2>1 DEF Frame
  <1> HIDE DEF r
  <1>4. CASE r.proto = ESP_PROTOCOL_ID
    <2>1. r.seq \in Ours(InFlight) /\ \A m \in Ours(InFlight) : r.seq <= m
      BY <1>1, <1>3, <1>4 DEF Ours
    <2>2. Ours(InFlight') = Ours(InFlight) \ {r.seq}
      BY <1>1, <1>3, <1>4 DEF Ours
    <2>3. Fifo!Deliver
      BY <1>2, <1>4, <2>1, <2>2 DEF Fifo!Deliver, Ours
    <2>. QED  BY <2>3 DEF ChannelStep, Fifo!FifoNext
  <1>5. CASE r.proto # ESP_PROTOCOL_ID
    <2>1. Ours(InFlight') = Ours(InFlight)
      BY <1>1, <1>5 DEF Ours
    <2>. QED  BY <1>2, <1>5, <2>1 DEF ChannelStep, Ours
  <1>. QED  BY <1>4, <1>5

LEMMA StepSendTimeout ==
  ASSUME RadioInv, QueueSendTimeout
  PROVE  ChannelStep
  <1> DEFINE c == Head(cbFrame)
             rest == Range(inbox) \union UNION {Range(queues[h]) : h \in 1..HeapQueues}
  <1>1. Range(cbFrame) = {c} /\ c \in Frame
    BY RangeSingle DEF QueueSendTimeout, RadioInv, RadioTypeOK
  <1>2. /\ InFlight = rest \union {c} /\ InFlight' = rest
        /\ UNCHANGED <<onAir, got>>
    BY <1>1, RangeEmpty DEF QueueSendTimeout, InFlight
  <1>3. \A f \in rest : f.seq # c.seq
    <2>1. rest \subseteq Frame
      BY RangeTyped DEF RadioInv, RadioTypeOK
    <2>2. \A f \in rest : f.seq < c.seq \/ c.seq < f.seq
      BY <1>1 DEF RadioInv, RadioOrder, Older
    <2>. QED  BY <1>1, <2>1, <2>2 DEF Frame
  <1> HIDE DEF c, rest
  <1>4. CASE c.proto = ESP_PROTOCOL_ID
    <2>1. c.seq \in Ours(InFlight) /\ Ours(InFlight') = Ours(InFlight) \ {c.seq}
      BY <1>2, <1>3, <1>4 DEF Ours
    <2>2. Fifo!Lose
      BY <1>2, <2>1 DEF Fifo!Lose, Ours
    <2>. QED  BY <2>2 DEF ChannelStep, Fifo!FifoNext
  <1>5. CASE c.proto # ESP_PROTOCOL_ID
    <2>1. Ours(InFlight') = Ours(InFlight)
      BY <1>2, <1>5 DEF Ours
    <2>. QED  BY <1>2, <2>1 DEF ChannelStep, Ours
  <1>. QED  BY <1>4, <1>5

LEMMA StepBroadcast ==
  ASSUME RadioInv, NEW proto \in Protocols, Broadcast(proto)
  PROVE  ChannelStep
  <1> DEFINE f == [seq |-> onAir + 1, proto |-> proto]
  <1>1. /\ inbox' = Append(inbox, f) \/ inbox' = inbox
        /\ onAir' = onAir + 1 /\ UNCHANGED <<queues, cbFrame, got>>
    BY DEF Broadcast
  <1>2. f \in Frame /\ f.seq = onAir + 1
    BY DEF Frame, RadioInv, RadioTypeOK
  <1> HIDE DEF f
  <1>3. inbox \in Seq(Frame)
    BY DEF RadioInv, RadioTypeOK
  <1>4. InFlight' = InFlight \/ InFlight' = InFlight \union {f}
    <2>1. Range(Append(inbox, f)) = Range(inbox) \union {f}
      BY <1>2, <1>3, RangeAppend
    <2>2. CASE inbox' = inbox
      BY <1>1, <2>2 DEF InFlight
    <2>3. CASE inbox' = Append(inbox, f)
      BY <1>1, <2>1, <2>3 DEF InFlight
    <2>. QED  BY <1>1, <2>2, <2>3
  <1>5. Ours(InFlight') \in {Ours(InFlight), Ours(InFlight) \union {onAir + 1}}
    BY <1>2, <1>4 DEF Ours
  <1>6. Fifo!Emit
    BY <1>1, <1>5 DEF Fifo!Emit, Ours
  <1>. QED  BY <1>6 DEF ChannelStep, Fifo!FifoNext

LEMMA StepHandOver ==
  ASSUME RadioInv, OnDataRecv \/ QueueSend
  PROVE  ChannelStep
  <1>1. UNCHANGED <<onAir, got>>
    BY DEF OnDataRecv, QueueSend
  <1>2. CASE OnDataRecv
    <2>1. Range(inbox) = {Head(inbox)} \union Range(Tail(inbox)) /\ Range(cbFrame) = {}
      BY <1>2, RangeTail, RangeEmpty DEF OnDataRecv, RadioInv, RadioTypeOK
    <2>2. inbox' = Tail(inbox) /\ Range(cbFrame') = {Head(inbox)} /\ queues' = queues
      BY <1>2 DEF OnDataRecv, Range
    <2>3. InFlight' = InFlight
      BY <2>1, <2>2 DEF InFlight
    <2>. QED  BY <1>1, <2>3 DEF ChannelStep, Ours
  <1>3. CASE QueueSend
    <2> DEFINE q == queues[radioQ]
               c == Head(cbFrame)
    <2>1. /\ queues \in [1..HeapQueues -> Seq(Frame)]
          /\ radioQ \in 1..HeapQueues /\ q \in Seq(Frame)
      BY <1>3, RadioAssumption DEF QueueSend, RadioInv, RadioTypeOK, NULL
    <2>2. Range(cbFrame) = {c} /\ c \in Frame
      BY <1>3, RangeSingle DEF QueueSend, RadioInv, RadioTypeOK
    <2>3. /\ queues' = [queues EXCEPT ![radioQ] = Append(q, c)]
          /\ Range(cbFrame') = {} /\ inbox' = inbox
      BY <1>3, RangeEmpty DEF QueueSend
    <2>4. Range(Append(q, c)) = Range(q) \union {c}
      <3> HIDE DEF q, c
      <3>. QED  BY <2>1, <2>2, RangeAppend
    <2>5. UNION {Range(queues'[h]) : h \in 1..HeapQueues}
            = (UNION {Range(queues[h]) : h \in 1..HeapQueues}) \union {c}
      <3>1. /\ Range(queues'[radioQ]) = Range(queues[radioQ]) \union {c}
            /\ \A h \in 1..HeapQueues : h # radioQ => queues'[h] = queues[h]
        BY <2>1, <2>3, <2>4
      <3> HIDE DEF c
      <3>. QED  BY <2>1, <3>1
    <2>6. InFlight' = InFlight
      BY <2>2, <2>3, <2>5 DEF InFlight
    <2>. QED  BY <1>1, <2>6 DEF ChannelStep, Ours
  <1>. QED  BY <1>2, <1>3

\* receivePacket(), the callback and the air together implement the lossy
\* channel: packets may be lost, never repeated, invented or reordered.
THEOREM RadioRefinesLossyFifo == Spec => ImplementsLossyFifo
  <1>1. Init => Fifo!FifoInit
    <2> SUFFICES ASSUME Init PROVE Fifo!FifoInit
      OBVIOUS
    <2>1. InFlight = {}
      BY RangeEmpty DEF Init, InFlight
    <2>. QED  BY <2>1 DEF Init, Fifo!FifoInit
  <1>2. RadioInv /\ [Next]_radioVars => ChannelStep
    <2> SUFFICES ASSUME RadioInv, [Next]_radioVars PROVE ChannelStep
      OBVIOUS
    <2>1. CASE \/ InitRadio \/ CreateQueue \/ RegisterCb \/ ReceiveTimeout
               \/ UNCHANGED radioVars
      BY <2>1 DEF InitRadio, CreateQueue, RegisterCb, ReceiveTimeout, radioVars,
                  ChannelStep, Ours, InFlight
    <2>. QED
      BY <2>1, StepReceive, StepSendTimeout, StepBroadcast, StepHandOver
         DEF Next, LoopTask, WifiTask, Air
  <1>3. ChannelStep => [Fifo!FifoNext]_Fifo!fifoVars
    BY DEF ChannelStep, Fifo!fifoVars, Ours
  <1>. QED
    BY <1>1, <1>2, <1>3, RadioInvariant, PTL DEF Spec, ImplementsLossyFifo, Fifo!FifoSpec
=============================================================================
