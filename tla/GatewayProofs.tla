---------------------------- MODULE GatewayProofs ---------------------------
(***************************************************************************)
(* Proofs about Gateway, for every number of parameters and of packets,    *)
(* every length of the queue and every timing.                             *)
(***************************************************************************)
EXTENDS Gateway, SequenceTheorems, TLAPS

-----------------------------------------------------------------------------
(* Messages.                                                               *)

LEMMA Publishes ==
  ASSUME NEW p, NEW n
  PROVE  /\ Publish(p, n)[1] = "PUBLISH" /\ Publish(p, n)[2] = p /\ Publish(p, n)[3] = n
         /\ \A k \in STRING : Control(k)[1] = k /\ Control(k)[2] = 0 /\ Control(k)[3] = 0
         /\ Publish(p, n) # Control("CONNECT")
  BY DEF Publish, Control

LEMMA MessagesAre ==
  /\ Control("CONNECT") \in Messages /\ Control("PINGREQ") \in Messages
  /\ Publish(0, 0) \in Messages
  /\ \A p \in 1..PARAMS, n \in 1..MaxPackets : Publish(p, n) \in Messages
  BY DEF Messages

LEMMA AnswersAre ==
  /\ Control("CONNACK") \in Answers /\ Control("REFUSED") \in Answers
  /\ Control("PINGRESP") \in Answers
  BY DEF Answers

LEMMA MessageHas ==
  ASSUME NEW m \in Messages
  PROVE  \/ /\ m[2] = 0 /\ m[3] = 0
         \/ /\ m[2] \in 1..PARAMS /\ m[3] \in 1..MaxPackets
            /\ m = Publish(m[2], m[3])
  <1>1. CASE m = Control("CONNECT") \/ m = Control("PINGREQ") \/ m = Publish(0, 0)
    BY <1>1 DEF Control, Publish
  <1>2. ASSUME NEW p \in 1..PARAMS, NEW n \in 1..MaxPackets, m = Publish(p, n)
        PROVE  m[2] \in 1..PARAMS /\ m[3] \in 1..MaxPackets /\ m = Publish(m[2], m[3])
    BY <1>2, Publishes
  <1>. QED
    BY <1>1, <1>2 DEF Messages

LEMMA TailTyped ==
  ASSUME NEW S, NEW q \in Seq(S), q # <<>>
  PROVE  Tail(q) \in Seq(S) /\ Head(q) \in S
  BY HeadTailProperties

-----------------------------------------------------------------------------
(* Types.                                                                  *)

Typed == GatewayTypeOK /\ InForward

LEMMA BoundsTyped ==
  /\ PARAMS \in Nat \ {0} /\ ENOW_Q_LEN \in Nat \ {0} /\ TRIES \in Nat /\ ITER \in Nat
  /\ AGE_MAX \in Nat /\ MaxPackets \in Nat /\ MaxInFlight \in Nat /\ MaxFaults \in Nat
  BY GatewayAssumption

\* What a step may do with the ages, the connection and the fault count.
LEMMA ElapseTyped ==
  ASSUME Typed, NEW d \in Nat, Elapse(d)
  PROVE  {inAge', outAge', statusAge', deadFor'} \subseteq 0..AGE_MAX /\ away' \in BOOLEAN
  <1>1. /\ inAge \in 0..AGE_MAX /\ outAge \in 0..AGE_MAX /\ statusAge \in 0..AGE_MAX
        /\ deadFor \in 0..AGE_MAX
    BY DEF Typed, GatewayTypeOK
  <1>2. \A age \in 0..AGE_MAX : Later(age, d) \in 0..AGE_MAX
    BY BoundsTyped DEF Later
  <1>3. /\ inAge' \in 0..AGE_MAX /\ outAge' \in 0..AGE_MAX /\ statusAge' \in 0..AGE_MAX
        /\ deadFor' \in 0..AGE_MAX
    BY <1>1, <1>2 DEF Elapse
  <1>. QED
    BY <1>3 DEF Elapse, Typed, GatewayTypeOK

LinkTyped ==
  /\ state \in {"DISCONNECTED", "CONNECTED", "CONNECTION_TIMEOUT", "CONNECTION_LOST",
                "CONNECT_FAILED", "CONNECT_BAD"}
  /\ link \in {"none", "up", "dead", "reset"}
  /\ toBroker \in Seq(Messages) /\ old \in Seq(Messages) /\ toGateway \in Seq(Answers)
  /\ session \in {"new", "open", "refused"}

LEMMA LinkOfType == Typed => LinkTyped
  BY DEF Typed, GatewayTypeOK, LinkTyped

LEMMA NoMessages == <<>> \in Seq(Messages) /\ <<>> \in Seq(Answers)
  BY EmptySeq

LEMMA CloseTyped ==
  ASSUME Typed,
         NEW reason \in {"CONNECTION_TIMEOUT", "CONNECTION_LOST", "CONNECT_BAD"}, Close(reason)
  PROVE  LinkTyped'
  BY NoMessages, LinkOfType DEF Close, Stop, LinkTyped

LEMMA NoticeTyped ==
  ASSUME Typed, Notice
  PROVE  LinkTyped'
  <1>1. CASE state = "CONNECTED"
    BY <1>1, CloseTyped DEF Notice
  <1>2. CASE state # "CONNECTED"
    BY <1>2, LinkOfType DEF Notice, LinkTyped, linkVars
  <1>. QED
    BY <1>1, <1>2

LEMMA SendTyped ==
  ASSUME Typed, NEW m \in Messages, Send(m)
  PROVE  LinkTyped' /\ outAge' \in 0..AGE_MAX
  <1>1. CASE Connected /\ Write(m) /\ outAge' = 0 /\ UNCHANGED state
    <2>1. toBroker' \in Seq(Messages)
      BY <1>1, LinkOfType, AppendProperties DEF Write, LinkTyped
    <2>. QED
      BY <1>1, <2>1, LinkOfType, BoundsTyped DEF Write, LinkTyped
  <1>2. CASE ~Connected /\ Notice /\ UNCHANGED outAge
    BY <1>2, NoticeTyped DEF Typed, GatewayTypeOK
  <1>. QED
    BY <1>1, <1>2 DEF Send

LEMMA DeliverTyped ==
  ASSUME Typed, NEW m \in Messages, Deliver(m)
  PROVE  delivered' \in [1..PARAMS -> Seq(1..MaxPackets)]
  <1>1. delivered \in [1..PARAMS -> Seq(1..MaxPackets)]
    BY DEF Typed, GatewayTypeOK
  <1>2. CASE m[2] = 0
    BY <1>1, <1>2 DEF Deliver
  <1>3. CASE m[2] # 0
    <2>1. m[2] \in 1..PARAMS /\ m[3] \in 1..MaxPackets
      BY <1>3, MessageHas
    <2>2. Append(delivered[m[2]], m[3]) \in Seq(1..MaxPackets)
      BY <1>1, <2>1, AppendProperties
    <2>. QED
      BY <1>1, <1>3, <2>1, <2>2 DEF Deliver
  <1>. QED
    BY <1>2, <1>3

LEMMA FaultTyped == Typed /\ Fault => faults' \in 0..MaxFaults
  BY BoundsTyped DEF Typed, GatewayTypeOK, Fault

LEMMA TypedInit == Init => Typed
  <1> SUFFICES ASSUME Init PROVE Typed
    OBVIOUS
  <1>1. <<>> \in Seq(1..MaxPackets) /\ Len(<<>>) = 0
    BY EmptySeq
  <1>2. LinkTyped
    BY NoMessages DEF Init, LinkTyped
  <1>3. {inAge, outAge, statusAge, deadFor} \subseteq 0..AGE_MAX
    BY BoundsTyped DEF Init
  <1>4. /\ onAir \in 0..MaxPackets /\ packet \in 0..MaxPackets /\ param \in 1..(PARAMS + 1)
        /\ tries \in 0..TRIES /\ faults \in 0..MaxFaults
    BY BoundsTyped DEF Init
  <1>5. queue \in Seq(1..MaxPackets) /\ Len(queue) <= ENOW_Q_LEN
    BY <1>1, BoundsTyped DEF Init
  <1>6. delivered \in [1..PARAMS -> Seq(1..MaxPackets)]
    BY <1>1 DEF Init
  <1>7. /\ wifi \in BOOLEAN /\ pingOutstanding \in BOOLEAN /\ away \in BOOLEAN
        /\ violated \in BOOLEAN /\ pc = "initWiFi"
    BY DEF Init
  <1>. QED
    BY <1>2, <1>3, <1>4, <1>5, <1>6, <1>7 DEF LinkTyped, Typed, GatewayTypeOK, InForward

\* The steps of gwLoop().
LEMMA TypedLoop == Typed /\ GatewayLoop => Typed'
  <1> SUFFICES ASSUME Typed, GatewayLoop PROVE Typed'
    OBVIOUS
  <1> USE DEF wifiVars, ageVars, linkVars, radioVars, forwardVars, serverVars
  <1>1. ASSUME Delay PROVE Typed'
    <2>1. PICK d \in 1..ITER : Elapse(d)
      BY <1>1 DEF Delay
    <2>2. {inAge', outAge', statusAge', deadFor'} \subseteq 0..AGE_MAX /\ away' \in BOOLEAN
      BY <2>1, ElapseTyped, BoundsTyped
    <2>. QED
      BY <1>1, <2>2 DEF Delay, Typed, GatewayTypeOK, InForward
  <1>2. ASSUME Reconnect PROVE Typed'
    BY <1>2, BoundsTyped DEF Reconnect, Typed, GatewayTypeOK, InForward
  <1>3. ASSUME InitWait PROVE Typed'
    <2>1. /\ {inAge', outAge', statusAge', deadFor'} \subseteq 0..AGE_MAX /\ away' \in BOOLEAN
      <3>1. CASE UNCHANGED <<ageVars, away>>
        BY <3>1 DEF Typed, GatewayTypeOK
      <3>2. CASE Elapse(1)
        BY <3>2, ElapseTyped
      <3>. QED
        BY <1>3, <3>1, <3>2 DEF InitWait
    <2>. QED
      BY <1>3, <2>1 DEF InitWait, Typed, GatewayTypeOK, InForward
  <1>4. ASSUME InitTry PROVE Typed'
    <2>1. tries' \in 0..TRIES
      <3>1. tries \in 0..TRIES
        BY DEF Typed, GatewayTypeOK
      <3>2. (tries < TRIES /\ tries' = tries + 1) \/ tries' = 0
        BY <1>4 DEF InitTry
      <3>. QED
        BY <3>1, <3>2, BoundsTyped
    <2>2. wifi' \in BOOLEAN
      <3>1. wifi' = wifi \/ wifi' = FALSE
        BY <1>4 DEF InitTry
      <3>. QED
        BY <3>1 DEF Typed, GatewayTypeOK
    <2>. QED
      BY <1>4, <2>1, <2>2 DEF InitTry, Typed, GatewayTypeOK, InForward
  <1>5. ASSUME Session PROVE Typed'
    <2>1. LinkTyped'
      <3>1. CASE UNCHANGED <<state, linkVars>>
        BY <3>1, LinkOfType DEF LinkTyped
      <3>2. CASE Notice
        BY <3>2, NoticeTyped
      <3>. QED
        BY <1>5, <3>1, <3>2 DEF Session
    <2>. QED
      BY <1>5, <2>1 DEF Session, LinkTyped, Typed, GatewayTypeOK, InForward
  <1>6. ASSUME Connect PROVE Typed'
    <2>1. toBroker' \in Seq(Messages) /\ toGateway' \in Seq(Answers)
      <3>1. (IF Open THEN toBroker ELSE <<>>) \in Seq(Messages)
        BY NoMessages, LinkOfType DEF LinkTyped
      <3>2. Append(IF Open THEN toBroker ELSE <<>>, Control("CONNECT")) \in Seq(Messages)
        BY <3>1, MessagesAre, AppendProperties
      <3>. QED
        BY <1>6, <3>2, NoMessages, LinkOfType DEF Connect, LinkTyped
    <2>2. link' \in {"none", "up", "dead", "reset"} /\ session' \in {"new", "open", "refused"}
      BY <1>6 DEF Connect, Open, Typed, GatewayTypeOK
    <2>3. {inAge', outAge', deadFor', statusAge'} \subseteq 0..AGE_MAX
      BY <1>6, BoundsTyped DEF Connect, Typed, GatewayTypeOK
    <2>. QED
      BY <1>6, <2>1, <2>2, <2>3 DEF Connect, Typed, GatewayTypeOK, InForward
  <1>7. ASSUME ConnectFails PROVE Typed'
    <2>1. faults' \in 0..MaxFaults
      BY <1>7, FaultTyped DEF ConnectFails, Typed, GatewayTypeOK
    <2>. QED
      BY <1>7, <2>1 DEF ConnectFails, Typed, GatewayTypeOK, InForward
  <1>8. ASSUME AwaitConnack PROVE Typed'
    <2>1. CASE Elapse(1) /\ UNCHANGED <<pc, state, pingOutstanding, linkVars>>
      <3>1. {inAge', outAge', statusAge', deadFor'} \subseteq 0..AGE_MAX /\ away' \in BOOLEAN
        BY <2>1, ElapseTyped
      <3>. QED
        BY <1>8, <2>1, <3>1 DEF AwaitConnack, Typed, GatewayTypeOK, InForward
    <2>2. CASE /\ pc' = "delay"
               /\ Close("CONNECTION_TIMEOUT") \/ Close("CONNECT_BAD")
               /\ UNCHANGED <<pingOutstanding, ageVars, away>>
      <3>1. LinkTyped'
        BY <2>2, CloseTyped
      <3>. QED
        BY <1>8, <2>2, <3>1 DEF AwaitConnack, LinkTyped, Typed, GatewayTypeOK, InForward
    <2>3. CASE /\ toGateway # <<>> /\ toGateway' = Tail(toGateway)
               /\ Accepted /\ UNCHANGED <<link, toBroker, old, session>>
      <3>1. toGateway' \in Seq(Answers)
        BY <2>3, LinkOfType, TailTyped DEF LinkTyped
      <3>2. {inAge', outAge', statusAge', deadFor'} \subseteq 0..AGE_MAX
        BY <2>3, BoundsTyped DEF Accepted, Typed, GatewayTypeOK
      <3>. QED
        BY <1>8, <2>3, <3>1, <3>2
           DEF AwaitConnack, Accepted, Typed, GatewayTypeOK, InForward
    <2>. QED
      BY <1>8, <2>1, <2>2, <2>3 DEF AwaitConnack
  <1>9. ASSUME SendMac PROVE Typed'
    <2>1. LinkTyped' /\ outAge' \in 0..AGE_MAX
      BY <1>9, SendTyped, MessagesAre DEF SendMac
    <2>. QED
      BY <1>9, <2>1 DEF SendMac, LinkTyped, Typed, GatewayTypeOK, InForward
  <1>10. ASSUME SendStatus PROVE Typed'
    <2>1. LinkTyped' /\ outAge' \in 0..AGE_MAX
      <3>1. CASE Send(Publish(0, 0))
        BY <3>1, SendTyped, MessagesAre
      <3>2. CASE UNCHANGED <<state, linkVars, outAge>>
        BY <3>2, LinkOfType DEF LinkTyped, Typed, GatewayTypeOK
      <3>. QED
        BY <1>10, <3>1, <3>2 DEF SendStatus
    <2>2. statusAge' \in 0..AGE_MAX
      BY <1>10, BoundsTyped DEF SendStatus, Typed, GatewayTypeOK
    <2>. QED
      BY <1>10, <2>1, <2>2 DEF SendStatus, LinkTyped, Typed, GatewayTypeOK, InForward
  <1>11. ASSUME Receive PROVE Typed'
    <2>1. CASE /\ queue # <<>> /\ packet' = Head(queue) /\ queue' = Tail(queue) /\ param' = 1
      <3>1. queue \in Seq(1..MaxPackets) /\ Len(queue) <= ENOW_Q_LEN
        BY DEF Typed, GatewayTypeOK
      <3>2. /\ packet' \in 1..MaxPackets /\ queue' \in Seq(1..MaxPackets)
            /\ Len(queue') = Len(queue) - 1
        BY <2>1, <3>1, HeadTailProperties
      <3>3. Len(queue') <= ENOW_Q_LEN
        BY <3>1, <3>2, LenProperties, BoundsTyped
      <3>4. packet' \in 0..MaxPackets /\ packet' # 0 /\ param' \in 1..(PARAMS + 1) /\ param' <= PARAMS
        BY <2>1, <3>2, BoundsTyped
      <3>5. pc' \in {"forward", "loop"}
        BY <1>11 DEF Receive
      <3>. QED
        BY <1>11, <3>2, <3>3, <3>4, <3>5 DEF Receive, Typed, GatewayTypeOK, InForward
    <2>2. CASE pc' = "loop" /\ UNCHANGED <<packet, param, queue>>
      BY <1>11, <2>2 DEF Receive, Typed, GatewayTypeOK, InForward
    <2>. QED
      BY <1>11, <2>1, <2>2 DEF Receive
  <1>12. ASSUME Forward PROVE Typed'
    <2>1. /\ pc = "forward" /\ packet # 0 /\ param <= PARAMS
          /\ packet \in 0..MaxPackets /\ param \in 1..(PARAMS + 1)
      BY <1>12 DEF Forward, Typed, GatewayTypeOK, InForward
    <2>2. packet \in 1..MaxPackets /\ param \in 1..PARAMS
      BY <2>1, BoundsTyped
    <2>3. LinkTyped' /\ outAge' \in 0..AGE_MAX
      BY <1>12, <2>2, SendTyped, MessagesAre DEF Forward, NextParam
    <2>4. /\ param' \in 1..(PARAMS + 1) /\ pc' \in {"forward", "loop"}
          /\ pc' = "forward" => param' <= PARAMS
      BY <1>12, <2>2, BoundsTyped DEF Forward
    <2>. QED
      BY <1>12, <2>1, <2>3, <2>4 DEF Forward, LinkTyped, Typed, GatewayTypeOK, InForward
  <1>13. ASSUME Loop PROVE Typed'
    <2>1. pc' = "delay"
      BY <1>13 DEF Loop
    <2>2. ASSUME NEW age \in 0..AGE_MAX, NEW ping \in BOOLEAN, ReadOne(age, ping)
          PROVE  inAge' \in 0..AGE_MAX /\ pingOutstanding' \in BOOLEAN /\ toGateway' \in Seq(Answers)
      <3>1. CASE toGateway = <<>>
        BY <2>2, <3>1, LinkOfType DEF ReadOne, LinkTyped
      <3>2. CASE toGateway # <<>>
        <4>1. Tail(toGateway) \in Seq(Answers)
          BY <3>2, TailTyped, LinkOfType DEF LinkTyped
        <4>2. inAge' = 0 /\ toGateway' = Tail(toGateway)
              /\ pingOutstanding' = (ping /\ Head(toGateway) # Control("PINGRESP"))
          BY <2>2, <3>2 DEF ReadOne
        <4>. QED
          BY <4>1, <4>2, BoundsTyped
      <3>. QED
        BY <3>1, <3>2
    <2>3. /\ LinkTyped' /\ inAge' \in 0..AGE_MAX /\ outAge' \in 0..AGE_MAX
          /\ pingOutstanding' \in BOOLEAN /\ away' \in BOOLEAN
      <3>1. CASE Notice /\ UNCHANGED <<pingOutstanding, inAge, outAge, away>>
        BY <3>1, NoticeTyped DEF Typed, GatewayTypeOK
      <3>2. CASE Close("CONNECTION_TIMEOUT") /\ UNCHANGED <<pingOutstanding, inAge, outAge, away>>
        BY <3>2, CloseTyped DEF Typed, GatewayTypeOK
      <3>3. CASE /\ toBroker' = IF link = "up" THEN Append(toBroker, Control("PINGREQ")) ELSE toBroker
                 /\ outAge' = 0 /\ away' = FALSE
                 /\ ReadOne(0, TRUE)
                 /\ UNCHANGED <<state, link, old, session>>
        <4>1. toBroker' \in Seq(Messages)
          BY <3>3, MessagesAre, AppendProperties, LinkOfType DEF LinkTyped
        <4>2. 0 \in 0..AGE_MAX
          BY BoundsTyped
        <4>. QED
          BY <3>3, <2>2, <4>1, <4>2, LinkOfType DEF LinkTyped
      <3>4. CASE /\ ReadOne(inAge, pingOutstanding)
                 /\ UNCHANGED <<state, link, toBroker, old, session, outAge, away>>
        BY <3>4, <2>2, LinkOfType DEF LinkTyped, Typed, GatewayTypeOK
      <3>. QED
        BY <1>13, <3>1, <3>2, <3>3, <3>4 DEF Loop
    <2>. QED
      BY <1>13, <2>1, <2>3 DEF Loop, LinkTyped, Typed, GatewayTypeOK, InForward
  <1>. QED
    BY <1>1, <1>2, <1>3, <1>4, <1>5, <1>6, <1>7, <1>8, <1>9, <1>10, <1>11, <1>12, <1>13
       DEF GatewayLoop

\* The steps of everything around it.
LEMMA TypedEnvironment == Typed /\ Environment => Typed'
  <1> SUFFICES ASSUME Typed, Environment PROVE Typed'
    OBVIOUS
  <1> USE DEF wifiVars, ageVars, linkVars, radioVars, forwardVars, serverVars
  <1>1. ASSUME Arrive PROVE Typed'
    <2>1. queue \in Seq(1..MaxPackets) /\ Len(queue) <= ENOW_Q_LEN /\ onAir \in 0..MaxPackets
      BY DEF Typed, GatewayTypeOK
    <2>2. onAir' \in 0..MaxPackets /\ onAir + 1 \in 1..MaxPackets
      BY <1>1, <2>1, BoundsTyped DEF Arrive
    <2>3. queue' \in Seq(1..MaxPackets) /\ Len(queue') <= ENOW_Q_LEN
      <3>1. CASE Len(queue) < ENOW_Q_LEN /\ queue' = Append(queue, onAir + 1)
        <4>1. queue' \in Seq(1..MaxPackets) /\ Len(queue') = Len(queue) + 1
          BY <2>1, <2>2, <3>1, AppendProperties
        <4>2. Len(queue) \in Nat
          BY <2>1, LenProperties
        <4>. QED
          BY <3>1, <4>1, <4>2, BoundsTyped
      <3>2. CASE queue' = queue
        BY <2>1, <3>2
      <3>. QED
        BY <1>1, <3>1, <3>2 DEF Arrive
    <2>. QED
      BY <1>1, <2>2, <2>3 DEF Arrive, Typed, GatewayTypeOK, InForward
  <1>2. ASSUME Associate PROVE Typed'
    BY <1>2 DEF Associate, Typed, GatewayTypeOK, InForward
  <1>3. ASSUME LoseWiFi PROVE Typed'
    <2>1. faults' \in 0..MaxFaults
      BY <1>3, FaultTyped DEF LoseWiFi
    <2>. QED
      <3>1. wifi' \in BOOLEAN
        BY <1>3 DEF LoseWiFi
      <3>2. UNCHANGED <<pc, tries, state, pingOutstanding, ageVars, linkVars, radioVars,
                        forwardVars, serverVars, away>>
        BY <1>3 DEF LoseWiFi
      <3>. QED
        BY <2>1, <3>1, <3>2 DEF Typed, GatewayTypeOK, InForward
  <1>4. ASSUME Break PROVE Typed'
    <2>1. faults' \in 0..MaxFaults
      BY <1>4, FaultTyped DEF Break
    <2>2. LinkTyped'
      BY <1>4, NoMessages, LinkOfType DEF Break, LinkTyped
    <2>. QED
      BY <1>4, <2>1, <2>2 DEF Break, LinkTyped, Typed, GatewayTypeOK, InForward
  <1>5. ASSUME Discover PROVE Typed'
    BY <1>5, NoMessages DEF Discover, Typed, GatewayTypeOK, InForward
  <1>6. ASSUME Broker PROVE Typed'
    <2>1. Head(toBroker) \in Messages /\ toBroker' \in Seq(Messages)
      BY <1>6, TailTyped, LinkOfType DEF Broker, LinkTyped
    <2>2. toGateway' \in Seq(Answers)
      <3>1. toGateway \in Seq(Answers)
        BY LinkOfType DEF LinkTyped
      <3>2. \/ toGateway' = toGateway
            \/ \E a \in {Control("CONNACK"), Control("REFUSED"), Control("PINGRESP")} :
                 toGateway' = Append(toGateway, a)
        BY <1>6 DEF Broker
      <3>. QED
        BY <3>1, <3>2, AnswersAre, AppendProperties
    <2>3. delivered' \in [1..PARAMS -> Seq(1..MaxPackets)]
      <3>1. CASE UNCHANGED delivered
        BY <3>1 DEF Typed, GatewayTypeOK
      <3>2. CASE Deliver(Head(toBroker))
        BY <3>2, <2>1, DeliverTyped
      <3>. QED
        BY <1>6, <3>1, <3>2 DEF Broker
    <2>4. faults' \in 0..MaxFaults
      <3>1. CASE UNCHANGED faults
        BY <3>1 DEF Typed, GatewayTypeOK
      <3>. QED
        BY <1>6, <3>1, FaultTyped DEF Broker
    <2>5. /\ session' \in {"new", "open", "refused"} /\ old' \in Seq(Messages)
          /\ violated' \in BOOLEAN
      BY <1>6, NoMessages DEF Broker, Typed, GatewayTypeOK
    <2>. QED
      BY <1>6, <2>1, <2>2, <2>3, <2>4, <2>5 DEF Broker, Typed, GatewayTypeOK, InForward
  <1>7. ASSUME OldArrives PROVE Typed'
    <2>1. Head(old) \in Messages /\ Tail(old) \in Seq(Messages)
      BY <1>7, TailTyped, LinkOfType DEF OldArrives, LinkTyped
    <2>2. old' \in Seq(Messages)
      BY <1>7, <2>1, NoMessages DEF OldArrives
    <2>3. delivered' \in [1..PARAMS -> Seq(1..MaxPackets)]
      <3>1. CASE UNCHANGED delivered
        BY <3>1 DEF Typed, GatewayTypeOK
      <3>2. CASE Deliver(Head(old))
        BY <3>2, <2>1, DeliverTyped
      <3>. QED
        BY <1>7, <3>1, <3>2 DEF OldArrives
    <2>. QED
      BY <1>7, <2>2, <2>3 DEF OldArrives, Typed, GatewayTypeOK, InForward
  <1>. QED
    BY <1>1, <1>2, <1>3, <1>4, <1>5, <1>6, <1>7 DEF Environment

LEMMA TypedStep == Typed /\ [Next]_gatewayVars => Typed'
  <1>1. Typed /\ UNCHANGED gatewayVars => Typed'
    BY DEF gatewayVars, wifiVars, ageVars, linkVars, radioVars, forwardVars, serverVars,
           Typed, GatewayTypeOK, InForward
  <1>. QED
    BY <1>1, TypedLoop, TypedEnvironment DEF Next

\* Types: queues keep their length, ages their bound, and only whole packets are
\* forwarded.
THEOREM GatewayTypeCorrect == Spec => []GatewayTypeOK
  <1>1. Typed => GatewayTypeOK
    BY DEF Typed
  <1>. QED
    BY <1>1, TypedInit, TypedStep, PTL DEF Spec

-----------------------------------------------------------------------------
(* Sessions.                                                               *)

\* The steps that leave the connection alone.
LEMMA SessionKept ==
  ASSUME SessionOK, UNCHANGED <<state, linkVars, violated>>, pc # "connack",
         pc' \notin {"connect", "connack"}
  PROVE  SessionOK'
  BY DEF SessionOK, ConnectFirst, Open, linkVars

LEMMA SessionClosed ==
  ASSUME SessionOK, NEW reason, reason # "CONNECTED", Close(reason), UNCHANGED violated,
         pc' # "connack"
  PROVE  SessionOK'
  <1>1. link' = "none" /\ toBroker' = <<>> /\ state' = reason
    BY DEF Close, Stop
  <1>2. 1..Len(toBroker') = {}
    BY <1>1, EmptySeq
  <1>. QED
    BY <1>1, <1>2 DEF SessionOK, ConnectFirst, Open

LEMMA SessionNoticed ==
  ASSUME SessionOK, Notice, UNCHANGED violated, pc # "connack", pc' \notin {"connect", "connack"}
  PROVE  SessionOK'
  BY SessionKept, SessionClosed DEF Notice

LEMMA SessionWritten ==
  ASSUME Typed, SessionOK, state = "CONNECTED", UNCHANGED <<state, link, old, session, violated>>,
         NEW m \in Messages, m # Control("CONNECT"),
         toBroker' = IF link = "up" THEN Append(toBroker, m) ELSE toBroker,
         pc' \notin {"connect", "connack"}
  PROVE  SessionOK'
  <1>1. pc # "connack" /\ toBroker \in Seq(Messages)
    BY LinkOfType DEF SessionOK, LinkTyped
  <1>2. \A i \in 1..Len(toBroker') : toBroker'[i] # Control("CONNECT")
    <2>1. \A i \in 1..Len(toBroker) : toBroker[i] # Control("CONNECT")
      BY <1>1 DEF SessionOK
    <2>2. Len(toBroker) \in Nat
      BY <1>1, LenProperties
    <2>3. /\ Len(Append(toBroker, m)) = Len(toBroker) + 1
          /\ \A i \in 1..Len(toBroker) : Append(toBroker, m)[i] = toBroker[i]
          /\ Append(toBroker, m)[Len(toBroker) + 1] = m
      BY <1>1, AppendProperties
    <2>4. \A i \in 1..(Len(toBroker) + 1) : i \in 1..Len(toBroker) \/ i = Len(toBroker) + 1
      BY <2>2
    <2>. QED
      BY <2>1, <2>3, <2>4
  <1>. QED
    BY <1>1, <1>2 DEF SessionOK, ConnectFirst, Open

LEMMA SessionSent ==
  ASSUME Typed, SessionOK, NEW m \in Messages, m # Control("CONNECT"), Send(m),
         UNCHANGED violated, pc # "connack", pc' \notin {"connect", "connack"}
  PROVE  SessionOK'
  <1>1. CASE Connected /\ Write(m) /\ UNCHANGED state
    BY <1>1, SessionWritten DEF Connected, Write
  <1>2. CASE Notice
    BY <1>2, SessionNoticed
  <1>. QED
    BY <1>1, <1>2 DEF Send

LEMMA SessionConnack ==
  ASSUME Typed, SessionOK, AwaitConnack
  PROVE  SessionOK'
  <1>1. /\ pc = "connack" /\ UNCHANGED violated /\ state # "CONNECTED"
        /\ link # "up" => toBroker = <<>>
        /\ link = "up" => <<session, toBroker, toGateway>> \in
             {<<"new", <<Control("CONNECT")>>, <<>>>>,
              <<"open", <<>>, <<Control("CONNACK")>>>>,
              <<"refused", <<>>, <<Control("REFUSED")>>>>}
    BY DEF AwaitConnack, SessionOK, serverVars
  <1>2. CASE UNCHANGED <<pc, state, linkVars>>
    BY <1>1, <1>2 DEF SessionOK, ConnectFirst, linkVars
  <1>3. CASE /\ pc' = "delay"
             /\ Close("CONNECTION_TIMEOUT") \/ Close("CONNECT_BAD")
    BY <1>1, <1>3, SessionClosed
  <1>4. CASE /\ toGateway # <<>> /\ Head(toGateway) = Control("CONNACK")
             /\ Accepted /\ UNCHANGED <<link, toBroker, old, session>>
    <2>1. pc' = "mac" /\ state' = "CONNECTED"
      BY <1>4 DEF Accepted
    <2>2. link = "up" => session = "open" /\ toBroker = <<>>
      <3>1. Control("CONNACK") # Control("REFUSED")
        BY DEF Control
      <3>2. Head(<<Control("REFUSED")>>) = Control("REFUSED")
        BY DEF Control
      <3>. QED
        BY <1>1, <1>4, <3>1, <3>2
    <2>3. toBroker' = <<>>
      BY <1>1, <1>4, <2>2
    <2>4. 1..Len(toBroker') = {}
      BY <2>3, EmptySeq
    <2>. QED
      BY <1>1, <1>4, <2>1, <2>2, <2>3, <2>4 DEF SessionOK, ConnectFirst, Open
  <1>. QED
    BY <1>2, <1>3, <1>4 DEF AwaitConnack

LEMMA SessionLoop == Typed /\ SessionOK /\ GatewayLoop => SessionOK'
  <1> SUFFICES ASSUME Typed, SessionOK, GatewayLoop PROVE SessionOK'
    OBVIOUS
  <1>1. CASE Delay \/ Reconnect \/ InitWait \/ InitTry \/ Receive
    <2>1. /\ UNCHANGED <<state, linkVars, violated>> /\ pc # "connack"
          /\ pc' \notin {"connect", "connack"}
      BY <1>1 DEF Delay, Reconnect, InitWait, InitTry, Receive, serverVars, wifiVars
    <2>. QED
      BY <2>1, SessionKept
  <1>2. CASE Session
    <2>1. pc = "session" /\ UNCHANGED violated
      BY <1>2 DEF Session, serverVars
    <2>2. CASE pc' = "status" /\ UNCHANGED <<state, linkVars>>
      BY <2>1, <2>2, SessionKept
    <2>3. CASE ~Connected /\ pc' = "connect" /\ Notice
      <3>1. CASE state = "CONNECTED"
        BY <2>1, <2>3, <3>1, SessionClosed DEF Notice
      <3>2. CASE state # "CONNECTED"
        <4>1. UNCHANGED <<state, linkVars>> /\ ~Open
          BY <2>1, <2>3, <3>2 DEF Notice, SessionOK
        <4>. QED
          BY <2>1, <2>3, <3>2, <4>1 DEF SessionOK, ConnectFirst, Open, linkVars
      <3>. QED
        BY <3>1, <3>2
    <2>. QED
      BY <1>2, <2>2, <2>3 DEF Session
  <1>3. CASE Connect
    <2>1. /\ pc = "connect" /\ pc' = "connack" /\ ~Open /\ UNCHANGED <<state, violated, old>>
          /\ state # "CONNECTED"
      BY <1>3 DEF Connect, SessionOK, serverVars, Open
    <2>2. /\ link' = "up" /\ toGateway' = <<>> /\ session' = "new"
          /\ toBroker' = Append(<<>>, Control("CONNECT"))
      BY <1>3, <2>1 DEF Connect
    <2>3. toBroker' = <<Control("CONNECT")>>
      BY <2>2
    <2>. QED
      BY <2>1, <2>2, <2>3 DEF SessionOK, ConnectFirst
  <1>4. CASE ConnectFails
    <2>1. /\ pc = "connect" /\ pc' = "delay" /\ ~Open /\ state' = "CONNECT_FAILED"
          /\ UNCHANGED <<violated, linkVars>>
      BY <1>4 DEF ConnectFails, SessionOK, serverVars
    <2>. QED
      BY <2>1 DEF SessionOK, ConnectFirst, Open, linkVars
  <1>5. CASE AwaitConnack
    BY <1>5, SessionConnack
  <1>6. CASE SendMac
    <2>1. pc = "mac" /\ pc' = "status" /\ UNCHANGED violated /\ Send(Publish(0, 0))
      BY <1>6 DEF SendMac, serverVars
    <2>. QED
      BY <2>1, SessionSent, MessagesAre, Publishes
  <1>7. CASE SendStatus
    <2>1. /\ pc = "status" /\ pc' = "receive" /\ UNCHANGED violated
          /\ Send(Publish(0, 0)) \/ UNCHANGED <<state, linkVars>>
      BY <1>7 DEF SendStatus, serverVars
    <2>. QED
      BY <2>1, SessionKept, SessionSent, MessagesAre, Publishes
  <1>8. CASE Forward
    <2>1. /\ pc = "forward" /\ packet # 0 /\ param <= PARAMS
          /\ packet \in 0..MaxPackets /\ param \in 1..(PARAMS + 1)
      BY <1>8 DEF Forward, Typed, GatewayTypeOK, InForward
    <2>2. Publish(param, packet) \in Messages
      <3>1. packet \in 1..MaxPackets /\ param \in 1..PARAMS
        BY <2>1, BoundsTyped
      <3>. QED
        BY <3>1, MessagesAre
    <2>3. /\ pc' \notin {"connect", "connack"} /\ UNCHANGED violated
          /\ Send(Publish(param, packet))
      BY <1>8 DEF Forward, NextParam, serverVars
    <2>. QED
      BY <2>1, <2>2, <2>3, SessionSent, Publishes
  <1>9. CASE Loop
    <2>1. pc = "loop" /\ pc' = "delay" /\ UNCHANGED violated
      BY <1>9 DEF Loop, serverVars
    <2>2. CASE Notice
      BY <2>1, <2>2, SessionNoticed
    <2>3. CASE Close("CONNECTION_TIMEOUT")
      BY <2>1, <2>3, SessionClosed
    <2>4. CASE /\ Connected /\ UNCHANGED <<state, link, old, session>>
               /\ toBroker' = IF link = "up" THEN Append(toBroker, Control("PINGREQ"))
                              ELSE toBroker
      <3>1. Control("PINGREQ") # Control("CONNECT")
        BY DEF Control
      <3>. QED
        BY <2>1, <2>4, <3>1, SessionWritten, MessagesAre DEF Connected
    <2>5. CASE UNCHANGED <<state, link, toBroker, old, session>>
      BY <2>1, <2>5 DEF SessionOK, ConnectFirst, Open
    <2>. QED
      BY <1>9, <2>2, <2>3, <2>4, <2>5 DEF Loop
  <1>. QED
    BY <1>1, <1>2, <1>3, <1>4, <1>5, <1>6, <1>7, <1>8, <1>9 DEF GatewayLoop

LEMMA SessionBroker ==
  ASSUME Typed, SessionOK, Broker
  PROVE  SessionOK'
  <1>1. /\ link = "up" /\ toBroker # <<>> /\ toBroker' = Tail(toBroker)
        /\ UNCHANGED <<pc, state, link>>
    BY DEF Broker
  <1>2. toBroker \in Seq(Messages)
    BY LinkOfType DEF LinkTyped
  <1>3. CASE pc = "connack"
    <2>1. session = "new" /\ toBroker = <<Control("CONNECT")>> /\ toGateway = <<>>
      BY <1>1, <1>3 DEF SessionOK
    <2>2. Head(toBroker) = Control("CONNECT") /\ toBroker' = <<>>
      BY <1>1, <2>1
    <2>3. Control("CONNECT") # Control("PINGREQ") /\ Control("CONNECT")[1] # "PUBLISH"
      BY DEF Control
    <2>4. ~violated'
      <3>1. violated' = (violated \/ session # "new")
        BY <2>2, <2>3 DEF Broker
      <3>. QED
        BY <2>1, <3>1 DEF SessionOK, ConnectFirst
    <2>5. \/ session' = "open" /\ old' = <<>> /\ toGateway' = <<Control("CONNACK")>>
          \/ session' = "refused" /\ toGateway' = <<Control("REFUSED")>>
      BY <2>1, <2>2, <2>3 DEF Broker
    <2>. QED
      BY <1>1, <1>3, <2>2, <2>4, <2>5 DEF SessionOK, ConnectFirst, Open
  <1>4. CASE pc # "connack"
    <2>1. session = "open" /\ old = <<>>
      BY <1>1, <1>4 DEF SessionOK
    <2>2. Len(toBroker) \in Nat \ {0} /\ Head(toBroker) = toBroker[1]
      BY <1>1, <1>2, EmptySeq, LenProperties
    <2>3. \A i \in 1..Len(toBroker) : toBroker[i] # Control("CONNECT")
      BY <1>4 DEF SessionOK
    <2>4. Head(toBroker) # Control("CONNECT")
      BY <2>2, <2>3
    <2>5. UNCHANGED <<session, old>> /\ violated' = (violated \/ session # "open")
      BY <2>4 DEF Broker
    <2>6. ~violated'
      BY <2>1, <2>5 DEF SessionOK, ConnectFirst
    <2>7. \A i \in 1..Len(toBroker') : toBroker'[i] # Control("CONNECT")
      <3>1. /\ Len(toBroker') = Len(toBroker) - 1
            /\ \A i \in 1..Len(toBroker') : toBroker'[i] = toBroker[i + 1]
        BY <1>1, <1>2, HeadTailProperties
      <3>2. \A i \in 1..Len(toBroker') : i + 1 \in 1..Len(toBroker)
        BY <2>2, <3>1
      <3>. QED
        BY <2>3, <3>1, <3>2
    <2>. QED
      BY <1>1, <1>4, <2>1, <2>5, <2>6, <2>7 DEF SessionOK, ConnectFirst, Open
  <1>. QED
    BY <1>3, <1>4

LEMMA SessionEnvironment == Typed /\ SessionOK /\ Environment => SessionOK'
  <1> SUFFICES ASSUME Typed, SessionOK, Environment PROVE SessionOK'
    OBVIOUS
  <1> USE DEF linkVars, serverVars
  <1>1. CASE Arrive \/ Associate \/ LoseWiFi
    <2>1. UNCHANGED <<pc, state, linkVars, violated>>
      BY <1>1 DEF Arrive, Associate, LoseWiFi
    <2>. QED
      BY <2>1 DEF SessionOK, ConnectFirst, Open
  <1>2. CASE Break
    <2>1. /\ link = "up" /\ link' \in {"dead", "reset"} /\ toBroker' = <<>>
          /\ UNCHANGED <<pc, state, violated>>
      BY <1>2 DEF Break
    <2>2. 1..Len(toBroker') = {}
      BY <2>1, EmptySeq
    <2>. QED
      BY <2>1, <2>2 DEF SessionOK, ConnectFirst, Open
  <1>3. CASE Discover
    <2>1. /\ link = "dead" /\ link' = "reset"
          /\ UNCHANGED <<pc, state, violated, toBroker>>
      BY <1>3 DEF Discover
    <2>. QED
      BY <2>1 DEF SessionOK, ConnectFirst, Open
  <1>4. CASE Broker
    BY <1>4, SessionBroker
  <1>5. CASE OldArrives
    <2>1. old # <<>> /\ UNCHANGED <<pc, state, violated, link, toBroker, toGateway, session>>
      BY <1>5 DEF OldArrives
    <2>. QED
      BY <2>1 DEF SessionOK, ConnectFirst, Open
  <1>. QED
    BY <1>1, <1>2, <1>3, <1>4, <1>5 DEF Environment

LEMMA SessionInit == Init => SessionOK
  <1> SUFFICES ASSUME Init PROVE SessionOK
    OBVIOUS
  <1>1. 1..Len(toBroker) = {}
    BY EmptySeq DEF Init
  <1>. QED
    BY <1>1 DEF Init, SessionOK, ConnectFirst, Open

LEMMA SessionStep == Typed /\ SessionOK /\ [Next]_gatewayVars => SessionOK'
  <1>1. SessionOK /\ UNCHANGED gatewayVars => SessionOK'
    BY DEF gatewayVars, linkVars, serverVars, SessionOK, ConnectFirst, Open
  <1>. QED
    BY <1>1, SessionLoop, SessionEnvironment DEF Next

LEMMA SessionInvariant == Spec => [](Typed /\ SessionOK)
  BY TypedInit, TypedStep, SessionInit, SessionStep, PTL DEF Spec

\* The broker never sees a message before CONNECT or a second CONNECT, however the
\* connections end and whatever is still in the socket then.
THEOREM ConnectComesFirst == Spec => []ConnectFirst
  <1>1. SessionOK => ConnectFirst
    BY DEF SessionOK
  <1>. QED
    BY <1>1, SessionInvariant, PTL

-----------------------------------------------------------------------------
(* What reaches the server.                                                *)

Params == 1..PARAMS

LEMMA LineTyped == Typed => Line \in Seq(Messages) /\ Len(Line) \in Nat
  <1> SUFFICES ASSUME Typed PROVE Line \in Seq(Messages) /\ Len(Line) \in Nat
    OBVIOUS
  <1>1. Line \in Seq(Messages)
    BY LinkOfType DEF Line, LinkTyped
  <1>. QED
    BY <1>1, LenProperties

LEMMA LineHas ==
  ASSUME Typed, NEW i \in 1..Len(Line)
  PROVE  /\ i \in Nat /\ Line[i] \in Messages
         /\ Line[i][2] \in 0..PARAMS /\ Line[i][3] \in Nat
         /\ Line[i][2] = 0 => Line[i][3] = 0
  <1>1. Line[i] \in Messages /\ i \in Nat
    BY LineTyped, ElementOfSeq
  <1>. QED
    BY <1>1, MessageHas, BoundsTyped

LEMMA LastTyped == Typed => Last \in [Params -> Nat]
  <1> SUFFICES ASSUME Typed, NEW p \in Params
               PROVE  (IF delivered[p] = <<>> THEN 0 ELSE delivered[p][Len(delivered[p])]) \in Nat
    BY DEF Last, Params
  <1>1. delivered[p] \in Seq(1..MaxPackets)
    BY DEF Typed, GatewayTypeOK, Params
  <1>2. CASE delivered[p] # <<>>
    <2>1. Len(delivered[p]) \in 1..Len(delivered[p])
      BY <1>1, <1>2, EmptySeq, LenProperties
    <2>2. delivered[p][Len(delivered[p])] \in 1..MaxPackets
      BY <1>1, <2>1, ElementOfSeq
    <2>. QED
      BY <1>2, <2>2, BoundsTyped
  <1>. QED
    BY <1>2

\* The server has what it was given last.
LEMMA LastGiven ==
  ASSUME Typed, NEW m \in Messages, Deliver(m)
  PROVE  \A p \in Params : Last'[p] = IF p = m[2] THEN m[3] ELSE Last[p]
  <1> SUFFICES ASSUME NEW p \in Params
               PROVE  Last'[p] = IF p = m[2] THEN m[3] ELSE Last[p]
    OBVIOUS
  <1>1. delivered \in [Params -> Seq(1..MaxPackets)] /\ delivered[p] \in Seq(1..MaxPackets)
    BY DEF Typed, GatewayTypeOK, Params
  <1>2. p # 0
    BY DEF Params
  <1>3. CASE p = m[2]
    <2>1. m[2] # 0 /\ m[3] \in 1..MaxPackets
      BY <1>2, <1>3, MessageHas
    <2>2. delivered'[p] = Append(delivered[p], m[3])
      BY <1>1, <1>3, <2>1 DEF Deliver
    <2>3. delivered'[p] # <<>> /\ delivered'[p][Len(delivered'[p])] = m[3]
      BY <1>1, <2>1, <2>2, AppendProperties
    <2>. QED
      BY <1>3, <2>3 DEF Last, Params
  <1>4. CASE p # m[2]
    <2>1. delivered'[p] = delivered[p]
      BY <1>1, <1>4 DEF Deliver
    <2>. QED
      BY <1>4, <2>1 DEF Last, Params
  <1>. QED
    BY <1>3, <1>4

Leads == LineInOrder /\ SentSoFar /\ PacketsOK /\ NameLeads

\* Nothing is sent or taken.
LEMMA LineStays ==
  ASSUME Typed, Typed', LineInOrder, UNCHANGED <<Line, Last>>, packet <= packet'
  PROVE  LineInOrder'
  <1>1. \A i \in 1..Len(Line) : Line[i][2] # 0 => Line[i][3] <= packet'
    <2>1. packet \in Nat /\ packet' \in Nat
      BY BoundsTyped DEF Typed, GatewayTypeOK
    <2>2. \A i \in 1..Len(Line) : Line[i][3] \in Nat /\ (Line[i][2] # 0 => Line[i][3] <= packet)
      BY LineHas DEF LineInOrder
    <2>. QED
      BY <2>1, <2>2
  <1>. QED
    BY <1>1 DEF LineInOrder, IsAhead

\* A message is written.
LEMMA LineGrows ==
  ASSUME Typed, LineInOrder, UNCHANGED <<Last, packet>>,
         NEW m \in Messages, Line' = Append(Line, m),
         m[2] # 0 => /\ Last[m[2]] <= m[3] /\ m[3] = packet
                     /\ \A p \in 1..(m[2] - 1) : IsAhead(p, m[3], Len(Line) + 1)
  PROVE  /\ LineInOrder'
         /\ Len(Line') = Len(Line) + 1 /\ Line'[Len(Line) + 1] = m
         /\ \A p \in Params, n \in Nat :
              IsAhead(p, n, Len(Line) + 1) => IsAhead(p, n, Len(Line) + 1)'
  <1>1. /\ Line \in Seq(Messages) /\ Len(Line) \in Nat
    BY LineTyped
  <1>2. /\ Len(Line') = Len(Line) + 1 /\ Line'[Len(Line) + 1] = m
        /\ \A i \in 1..Len(Line) : Line'[i] = Line[i]
    BY <1>1, AppendProperties
  <1>3. \A i \in 1..Len(Line') : i \in 1..Len(Line) \/ i = Len(Line) + 1
    BY <1>1, <1>2
  <1>4. \A i \in 1..Len(Line) : /\ Line[i][2] \in 0..PARAMS /\ Line[i][3] \in Nat
                                /\ (Line[i][2] = 0 => Line[i][3] = 0)
    BY LineHas
  <1>5. m[2] \in 0..PARAMS /\ m[3] \in Nat /\ (m[2] = 0 => m[3] = 0)
    BY MessageHas, BoundsTyped
  <1>6. \A i \in 1..Len(Line') : Line'[i][2] # 0 =>
          Last'[Line'[i][2]] <= Line'[i][3] /\ Line'[i][3] <= packet'
    <2>1. CASE m[2] = 0
      BY <1>2, <1>3, <2>1 DEF LineInOrder
    <2>2. CASE m[2] # 0
      BY <1>2, <1>3, <1>5, <2>2 DEF LineInOrder
    <2>. QED
      BY <2>1, <2>2
  <1>7. ASSUME NEW i \in 1..Len(Line'), NEW j \in 1..Len(Line'), i < j, Line'[i][2] = Line'[j][2]
        PROVE  Line'[i][3] <= Line'[j][3]
    <2>1. i \in 1..Len(Line) /\ Line'[i] = Line[i]
      BY <1>1, <1>2, <1>7
    <2>2. CASE j \in 1..Len(Line)
      BY <1>2, <1>7, <2>1, <2>2 DEF LineInOrder
    <2>3. CASE j = Len(Line) + 1
      <3>1. Line'[j] = m /\ Line[i][2] = m[2]
        BY <1>2, <1>7, <2>1, <2>3
      <3>2. CASE m[2] = 0
        BY <1>4, <1>5, <2>1, <3>1, <3>2
      <3>3. CASE m[2] # 0
        BY <2>1, <3>1, <3>3 DEF LineInOrder
      <3>. QED
        BY <3>2, <3>3
    <2>. QED
      BY <1>3, <2>2, <2>3
  <1>8. ASSUME NEW i \in 1..(Len(Line) + 1), NEW p, NEW n, IsAhead(p, n, i)
        PROVE  IsAhead(p, n, i)'
    <2>1. \A j \in 1..(i - 1) : j \in 1..Len(Line)
      BY <1>1
    <2>. QED
      BY <1>2, <1>8, <2>1 DEF IsAhead
  <1>9. ASSUME NEW i \in 1..Len(Line'), NEW p \in 1..(Line'[i][2] - 1)
        PROVE  IsAhead(p, Line[i][3], i)'
    <2>1. CASE i \in 1..Len(Line)
      <3>1. Line'[i] = Line[i]
        BY <1>2, <2>1
      <3>2. IsAhead(p, Line[i][3], i)
        BY <2>1, <3>1 DEF LineInOrder
      <3>. QED
        BY <1>8, <1>2, <2>1, <3>1, <3>2 DEF IsAhead
    <2>2. CASE i = Len(Line) + 1
      <3>1. Line'[i] = m /\ m[2] # 0
        BY <1>2, <1>5, <2>2
      <3>2. IsAhead(p, m[3], i)
        BY <2>2, <3>1
      <3>. QED
        BY <1>8, <2>2, <3>1, <3>2 DEF IsAhead
    <2>. QED
      BY <1>3, <2>1, <2>2
  <1>10. \A p \in Params, n \in Nat :
           IsAhead(p, n, Len(Line) + 1) => IsAhead(p, n, Len(Line) + 1)'
    <2>1. \A j \in 1..((Len(Line) + 1) - 1) : j \in 1..((Len(Line') + 1) - 1) /\ Line'[j] = Line[j]
      BY <1>1, <1>2
    <2>. QED
      BY <2>1 DEF IsAhead
  <1>. QED
    BY <1>2, <1>6, <1>7, <1>9, <1>10 DEF LineInOrder

\* The oldest message is taken.
LEMMA LineTaken ==
  ASSUME Typed, LineInOrder, NameLeads, Line # <<>>, Line' = Tail(Line), UNCHANGED packet,
         Deliver(Head(Line))
  PROVE  /\ LineInOrder' /\ NameLeads'
         /\ \A p \in Params : Last[p] <= packet => Last'[p] <= packet
         /\ \A p \in Params, n \in Nat :
              IsAhead(p, n, Len(Line) + 1) => IsAhead(p, n, Len(Line) + 1)'
  <1>1. Line \in Seq(Messages) /\ Len(Line) \in Nat \ {0}
    BY LineTyped, EmptySeq
  <1>2. /\ Head(Line) \in Messages /\ Len(Line') = Len(Line) - 1
        /\ \A i \in 1..Len(Line') : Line'[i] = Line[i + 1]
    BY <1>1, HeadTailProperties
  <1>3. PICK h \in Messages : h = Head(Line) /\ h = Line[1]
    BY <1>1, <1>2
  <1>4. \A i \in 1..Len(Line') : i + 1 \in 1..Len(Line) /\ Line'[i] = Line[i + 1] /\ i \in Nat
    BY <1>1, <1>2
  <1>5. /\ \A p \in Params : /\ Last[p] \in Nat
                             /\ Last'[p] = IF p = h[2] THEN h[3] ELSE Last[p]
        /\ h[2] \in 0..PARAMS /\ h[3] \in Nat
    BY <1>3, LastTyped, LastGiven, MessageHas, BoundsTyped
  <1>6. 1 \in 1..Len(Line)
    BY <1>1
  <1>7. h[2] # 0 => Last[h[2]] <= h[3] /\ h[3] <= packet
    BY <1>3, <1>6 DEF LineInOrder
  <1>8. \A p \in Params : Last[p] <= Last'[p] /\ (Last[p] <= packet => Last'[p] <= packet)
    BY <1>5, <1>7 DEF Params
  <1>9. \A i \in 1..Len(Line) : Line[i][2] \in 0..PARAMS /\ Line[i][3] \in Nat
    BY LineHas
  <1>10. ASSUME NEW i \in 1..Len(Line'), Line'[i][2] # 0
         PROVE  Last'[Line'[i][2]] <= Line'[i][3] /\ Line'[i][3] <= packet'
    <2>1. /\ i + 1 \in 1..Len(Line) /\ Line'[i] = Line[i + 1]
          /\ Line[i + 1][2] \in Params /\ i + 1 > 1
      BY <1>4, <1>9, <1>10 DEF Params
    <2>2. Last[Line[i + 1][2]] <= Line[i + 1][3] /\ Line[i + 1][3] <= packet
      BY <1>10, <2>1 DEF LineInOrder
    <2>3. Line[1][2] = Line[i + 1][2] => Line[1][3] <= Line[i + 1][3]
      BY <1>6, <2>1 DEF LineInOrder
    <2>. QED
      BY <1>3, <1>5, <2>1, <2>2, <2>3
  <1>11. ASSUME NEW i \in 1..Len(Line'), NEW j \in 1..Len(Line'), i < j, Line'[i][2] = Line'[j][2]
         PROVE  Line'[i][3] <= Line'[j][3]
    <2>1. i + 1 < j + 1
      BY <1>4, <1>11
    <2>. QED
      BY <1>4, <1>11, <2>1 DEF LineInOrder
  \* One place further on.
  <1>12. ASSUME NEW p \in Params, NEW n \in Nat, NEW i \in 1..(Len(Line') + 1),
                Last[p] >= n \/ \E j \in 1..i : Line[j] = Publish(p, n)
         PROVE  Last'[p] >= n \/ \E j \in 1..(i - 1) : Line'[j] = Publish(p, n)
    <2>1. CASE Last[p] >= n
      BY <1>5, <1>8, <2>1
    <2>2. ASSUME NEW j \in 1..i, Line[j] = Publish(p, n)
          PROVE  Last'[p] >= n \/ \E k \in 1..(i - 1) : Line'[k] = Publish(p, n)
      <3>1. CASE j = 1
        <4>1. h[2] = p /\ h[3] = n
          BY <1>3, <2>2, <3>1, Publishes
        <4>. QED
          BY <1>5, <4>1
      <3>2. CASE j # 1
        <4>1. j - 1 \in 1..(i - 1) /\ j - 1 \in 1..Len(Line') /\ (j - 1) + 1 = j
          BY <1>1, <1>2, <3>2
        <4>2. Line'[j - 1] = Publish(p, n)
          BY <1>4, <2>2, <4>1
        <4>. QED
          BY <4>1, <4>2
      <3>. QED
        BY <3>1, <3>2
    <2>. QED
      BY <1>12, <2>1, <2>2
  <1>13. ASSUME NEW i \in 1..Len(Line'), NEW p \in 1..(Line'[i][2] - 1)
         PROVE  IsAhead(p, Line[i][3], i)'
    <2>1. /\ i + 1 \in 1..Len(Line) /\ Line'[i] = Line[i + 1]
          /\ p \in 1..(Line[i + 1][2] - 1) /\ p \in Params /\ Line[i + 1][3] \in Nat
      BY <1>4, <1>9, BoundsTyped DEF Params
    <2>2. PICK n \in Nat : n = Line[i + 1][3]
      BY <2>1
    <2>3. IsAhead(p, Line[i + 1][3], i + 1)
      BY <2>1 DEF LineInOrder
    <2>4. Last[p] >= n \/ \E j \in 1..i : Line[j] = Publish(p, n)
      <3>1. (i + 1) - 1 = i
        BY <1>4
      <3>. QED
        BY <2>2, <2>3, <3>1 DEF IsAhead
    <2>5. Last'[p] >= n \/ \E j \in 1..(i - 1) : Line'[j] = Publish(p, n)
      <3>1. i \in 1..(Len(Line') + 1)
        BY <1>1, <1>2
      <3>. QED
        BY <1>12, <2>1, <2>4, <3>1
    <2>. QED
      BY <2>1, <2>2, <2>5 DEF IsAhead
  <1>14. LineInOrder'
    BY <1>10, <1>11, <1>13 DEF LineInOrder
  <1>15. ASSUME NEW p \in Params, NEW q \in Params, p < q
         PROVE  Last'[p] >= Last'[q]
    <2>1. Last[p] >= Last[q]
      BY <1>15 DEF NameLeads, Params
    <2>2. CASE q = h[2]
      <3>1. p \in 1..(Line[1][2] - 1) /\ p # h[2]
        BY <1>3, <1>15, <2>2, BoundsTyped DEF Params
      <3>2. IsAhead(p, Line[1][3], 1)
        BY <1>6, <3>1 DEF LineInOrder
      <3>3. 1..(1 - 1) = {}
        OBVIOUS
      <3>4. Last[p] >= h[3]
        BY <1>3, <3>2, <3>3 DEF IsAhead
      <3>. QED
        BY <1>5, <2>2, <3>1, <3>4
    <2>3. CASE q # h[2]
      BY <1>5, <1>8, <2>1, <2>3
    <2>. QED
      BY <2>2, <2>3
  <1>16. NameLeads'
    BY <1>15 DEF NameLeads, Params
  <1>17. ASSUME NEW p \in Params, NEW n \in Nat, IsAhead(p, n, Len(Line) + 1)
         PROVE  IsAhead(p, n, Len(Line) + 1)'
    <2>1. Last[p] >= n \/ \E j \in 1..Len(Line) : Line[j] = Publish(p, n)
      <3>1. (Len(Line) + 1) - 1 = Len(Line)
        BY <1>1
      <3>. QED
        BY <1>17, <3>1 DEF IsAhead
    <2>2. Len(Line) = Len(Line') + 1 /\ Len(Line) \in 1..(Len(Line') + 1)
      BY <1>1, <1>2
    <2>3. Last'[p] >= n \/ \E j \in 1..(Len(Line) - 1) : Line'[j] = Publish(p, n)
      BY <1>12, <2>1, <2>2
    <2>4. Len(Line) - 1 = (Len(Line') + 1) - 1
      BY <2>2
    <2>. QED
      BY <2>3, <2>4 DEF IsAhead
  <1>. QED
    BY <1>8, <1>14, <1>16, <1>17

\* All messages are lost.
LEMMA LineLost ==
  ASSUME Line' = <<>>
  PROVE  LineInOrder'
  <1>1. 1..Len(Line') = {}
    BY EmptySeq
  <1>. QED
    BY <1>1 DEF LineInOrder

\* The end of a connection loses no message by itself.
LEMMA StopKeepsLine == Stop => UNCHANGED Line /\ link' = "none"
  BY DEF Stop, Line

LEMMA NoticeKeepsLine == Notice => UNCHANGED Line
  <1>1. UNCHANGED linkVars => UNCHANGED Line
    BY DEF linkVars, Line
  <1>. QED
    BY <1>1, StopKeepsLine DEF Notice, Close

LEMMA LastKept == UNCHANGED delivered => UNCHANGED Last
  BY DEF Last

\* The steps that neither send, take nor receive anything.
LEMMA LeadsQuiet ==
  ASSUME Typed, Typed', Leads, UNCHANGED <<Line, radioVars, forwardVars, delivered>>,
         pc' = "forward" /\ link' = "up" => pc = "forward" /\ link = "up"
  PROVE  Leads'
  <1>1. UNCHANGED <<Last, packet, param, onAir, queue>>
    BY LastKept DEF radioVars, forwardVars
  <1>2. LineInOrder'
    <2>1. packet <= packet'
      BY <1>1 DEF Typed, GatewayTypeOK
    <2>. QED
      BY <1>1, <2>1, LineStays DEF Leads
  <1>3. SentSoFar' /\ PacketsOK' /\ NameLeads'
    BY <1>1 DEF Leads, SentSoFar, IsAhead, PacketsOK, NameLeads
  <1>. QED
    BY <1>2, <1>3 DEF Leads

\* One message about the gateway itself is written.
LEMMA LeadsSent ==
  ASSUME Typed, Typed', Leads, NEW m \in Messages, m[2] = 0,
         UNCHANGED Line \/ Line' = Append(Line, m),
         UNCHANGED <<radioVars, forwardVars, delivered>>, pc' # "forward"
  PROVE  Leads'
  <1>1. CASE UNCHANGED Line
    BY <1>1, LeadsQuiet
  <1>2. CASE Line' = Append(Line, m)
    <2>1. UNCHANGED <<Last, packet, onAir, queue>>
      BY LastKept DEF radioVars, forwardVars
    <2>2. LineInOrder'
      BY <1>2, <2>1, LineGrows DEF Leads
    <2>3. SentSoFar' /\ PacketsOK' /\ NameLeads'
      BY <2>1 DEF Leads, SentSoFar, PacketsOK, NameLeads
    <2>. QED
      BY <2>2, <2>3 DEF Leads
  <1>. QED
    BY <1>1, <1>2

\* write() is a step of the line if the link is up, and none if it is dead.
LEMMA WriteGrows ==
  ASSUME SessionOK, state = "CONNECTED", Open, NEW m \in Messages,
         toBroker' = IF link = "up" THEN Append(toBroker, m) ELSE toBroker,
         UNCHANGED <<link, old, session>>
  PROVE  IF link = "up" THEN Line' = Append(Line, m) ELSE UNCHANGED Line
  <1>1. pc # "connack" /\ (link = "up" => session = "open")
    BY DEF SessionOK
  <1>. QED
    BY <1>1 DEF Line

LEMMA SendGrows ==
  ASSUME SessionOK, NEW m \in Messages, Send(m), pc # "connack"
  PROVE  \/ link = "up" /\ link' = "up" /\ Line' = Append(Line, m)
         \/ link' # "up" /\ UNCHANGED Line
  <1>1. CASE Connected /\ Write(m) /\ UNCHANGED state
    BY <1>1, WriteGrows DEF Connected, Write
  <1>2. CASE ~Connected /\ Notice
    <2>1. link' # "up"
      <3>1. CASE state = "CONNECTED"
        BY <1>2, <3>1, StopKeepsLine DEF Notice, Close
      <3>2. CASE state # "CONNECTED"
        BY <1>2, <3>2 DEF Notice, SessionOK, Open, linkVars
      <3>. QED
        BY <3>1, <3>2
    <2>. QED
      BY <1>2, <2>1, NoticeKeepsLine
  <1>. QED
    BY <1>1, <1>2 DEF Send

\* The next parameter follows the ones before it.
LEMMA LeadsForward ==
  ASSUME Typed, Typed', SessionOK, Leads, Forward
  PROVE  Leads'
  <1>1. /\ pc = "forward" /\ packet \in 1..MaxPackets /\ param \in Params
        /\ packet \in Nat /\ param' = param + 1
        /\ UNCHANGED <<packet, onAir, queue, delivered>>
        /\ Send(Publish(param, packet))
    <2>1. /\ pc = "forward" /\ packet # 0 /\ param <= PARAMS
          /\ packet \in 0..MaxPackets /\ param \in 1..(PARAMS + 1)
      BY DEF Forward, Typed, GatewayTypeOK, InForward
    <2>2. packet \in 1..MaxPackets /\ param \in Params /\ packet \in Nat
      BY <2>1, BoundsTyped DEF Params
    <2>. QED
      BY <2>1, <2>2 DEF Forward, NextParam, radioVars, serverVars
  <1>2. PICK m \in Messages : m = Publish(param, packet)
    BY <1>1, MessagesAre DEF Params
  <1>3. m[2] = param /\ m[3] = packet /\ m[2] # 0
    BY <1>1, <1>2, Publishes DEF Params
  <1>4. UNCHANGED Last
    BY <1>1, LastKept
  <1>5. PacketsOK' /\ NameLeads'
    BY <1>1, <1>4 DEF Leads, PacketsOK, NameLeads
  <1>6. CASE link' # "up" /\ UNCHANGED Line
    <2>1. LineInOrder'
      BY <1>1, <1>4, <1>6, LineStays DEF Leads
    <2>. QED
      BY <1>5, <1>6, <2>1 DEF Leads, SentSoFar
  <1>7. CASE link = "up" /\ Line' = Append(Line, m)
    <2>1. \A p \in 1..(param - 1) : IsAhead(p, packet, Len(Line) + 1)
      BY <1>1, <1>7 DEF Leads, SentSoFar
    <2>2. Last[param] <= packet
      BY <1>1 DEF Leads, PacketsOK, Params
    <2>3. /\ LineInOrder'
          /\ Len(Line') = Len(Line) + 1 /\ Line'[Len(Line) + 1] = m
          /\ \A p \in Params, n \in Nat :
               IsAhead(p, n, Len(Line) + 1) => IsAhead(p, n, Len(Line) + 1)'
      <3>1. \A p \in 1..(m[2] - 1) : IsAhead(p, m[3], Len(Line) + 1)
        BY <1>3, <2>1 DEF IsAhead
      <3>. QED
        BY <1>1, <1>3, <1>4, <1>7, <2>2, <3>1, LineGrows DEF Leads
    <2>4. ASSUME NEW p \in 1..(param' - 1)
          PROVE  IsAhead(p, packet, Len(Line) + 1)'
      <3>1. PICK n \in Nat : n = packet
        BY <1>1
      <3>2. p \in Params /\ (p = param \/ p \in 1..(param - 1))
        BY <1>1, BoundsTyped DEF Params
      <3>3. CASE p = param
        <4>1. Len(Line) \in Nat /\ Len(Line') = Len(Line) + 1
          BY <2>3, LineTyped
        <4>2. Len(Line) + 1 \in 1..((Len(Line') + 1) - 1)
          BY <4>1
        <4>. QED
          BY <1>1, <1>2, <2>3, <3>3, <4>2 DEF IsAhead
      <3>4. CASE p \in 1..(param - 1)
        <4>1. IsAhead(p, n, Len(Line) + 1)
          BY <2>1, <3>1, <3>4 DEF IsAhead
        <4>2. IsAhead(p, n, Len(Line) + 1)'
          BY <2>3, <3>2, <4>1
        <4>. QED
          BY <1>1, <3>1, <4>2 DEF IsAhead
      <3>. QED
        BY <3>2, <3>3, <3>4
    <2>. QED
      BY <1>5, <2>3, <2>4 DEF Leads, SentSoFar
  <1>. QED
    BY <1>1, <1>2, <1>6, <1>7, SendGrows

\* A packet is taken from the queue: it is newer than all before.
LEMMA LeadsReceive ==
  ASSUME Typed, Typed', Leads, Receive
  PROVE  Leads'
  <1>1. /\ UNCHANGED <<link, toBroker, old, session, delivered, onAir>>
        /\ pc' = "forward" => param' = 1
    BY DEF Receive, linkVars, serverVars
  <1>2. UNCHANGED <<Line, Last>>
    BY <1>1, LastKept DEF Line
  <1>3. /\ queue \in Seq(1..MaxPackets) /\ packet \in Nat /\ packet' \in Nat /\ onAir \in Nat
        /\ Last \in [Params -> Nat]
    <2>1. /\ queue \in Seq(1..MaxPackets) /\ packet \in 0..MaxPackets
          /\ packet' \in 0..MaxPackets /\ onAir \in 0..MaxPackets
      BY DEF Typed, GatewayTypeOK
    <2>. QED
      BY <2>1, LastTyped, BoundsTyped
  <1>4. \A i \in 1..Len(queue) : queue[i] \in Nat
    BY <1>3, ElementOfSeq, BoundsTyped
  <1>5. packet <= packet' /\ PacketsOK'
    <2>1. CASE queue = <<>> /\ UNCHANGED <<packet, queue>>
      BY <1>1, <1>2, <1>3, <2>1 DEF Leads, PacketsOK
    <2>2. CASE queue # <<>> /\ packet' = Head(queue) /\ queue' = Tail(queue)
      <3>1. /\ Len(queue) \in Nat \ {0} /\ packet' = queue[1] /\ Len(queue') = Len(queue) - 1
            /\ \A i \in 1..Len(queue') : queue'[i] = queue[i + 1]
        BY <1>3, <2>2, EmptySeq, LenProperties, HeadTailProperties
      <3>2. /\ \A i \in 1..Len(queue') : i + 1 \in 1..Len(queue) /\ 1 < i + 1 /\ i \in Nat
            /\ 1 \in 1..Len(queue)
        BY <3>1
      <3>3. packet <= packet' /\ packet' <= onAir
        <4>1. packet < packet' /\ packet' <= onAir
          BY <3>1, <3>2 DEF Leads, PacketsOK
        <4>. QED
          BY <1>3, <4>1
      <3>4. \A p \in Params : Last[p] <= packet'
        BY <1>3, <3>3 DEF Leads, PacketsOK, Params
      <3>5. \A i \in 1..Len(queue') : packet' < queue'[i] /\ queue'[i] <= onAir
        BY <3>1, <3>2 DEF Leads, PacketsOK
      <3>6. \A i, j \in 1..Len(queue') : i < j => queue'[i] < queue'[j]
        <4>1. \A i, j \in 1..Len(queue') : i < j => i + 1 < j + 1
          BY <3>2
        <4>. QED
          BY <3>1, <3>2, <4>1 DEF Leads, PacketsOK
      <3>. QED
        BY <1>1, <1>2, <3>3, <3>4, <3>5, <3>6 DEF PacketsOK, Params
    <2>. QED
      BY <2>1, <2>2 DEF Receive
  <1>6. LineInOrder'
    BY <1>2, <1>5, LineStays DEF Leads
  <1>7. SentSoFar'
    <2>1. 1..(1 - 1) = {}
      OBVIOUS
    <2>. QED
      BY <1>1, <2>1 DEF SentSoFar
  <1>. QED
    BY <1>2, <1>5, <1>6, <1>7 DEF Leads, NameLeads

LEMMA LeadsLoop ==
  ASSUME Typed, Typed', SessionOK, Leads, GatewayLoop
  PROVE  Leads'
  <1> USE DEF serverVars
  <1>1. CASE Delay \/ Reconnect \/ InitWait \/ InitTry \/ ConnectFails
    <2>1. UNCHANGED <<linkVars, radioVars, forwardVars, delivered>> /\ pc' # "forward"
      BY <1>1 DEF Delay, Reconnect, InitWait, InitTry, ConnectFails
    <2>. QED
      BY <2>1, LeadsQuiet DEF linkVars, Line
  <1>2. CASE Session
    <2>1. UNCHANGED <<radioVars, forwardVars, delivered>> /\ pc' # "forward"
      BY <1>2 DEF Session
    <2>2. UNCHANGED Line
      BY <1>2, NoticeKeepsLine DEF Session, linkVars, Line
    <2>. QED
      BY <2>1, <2>2, LeadsQuiet
  <1>3. CASE Connect
    <2>1. UNCHANGED <<radioVars, forwardVars, delivered>> /\ pc' # "forward"
      BY <1>3 DEF Connect
    <2>2. ~Open /\ session' = "new" /\ old' = old
      BY <1>3 DEF Connect, SessionOK
    <2>3. UNCHANGED Line
      BY <2>2 DEF Line, Open
    <2>. QED
      BY <2>1, <2>3, LeadsQuiet
  <1>4. CASE AwaitConnack
    <2>1. UNCHANGED <<radioVars, forwardVars, delivered>> /\ pc' # "forward"
      BY <1>4 DEF AwaitConnack, Accepted
    <2>2. \/ UNCHANGED <<link, toBroker, old, session>>
          \/ Stop
      BY <1>4 DEF AwaitConnack, Close, linkVars
    <2>3. UNCHANGED Line
      BY <2>2, StopKeepsLine DEF Line
    <2>. QED
      BY <2>1, <2>3, LeadsQuiet
  <1>5. CASE SendMac \/ SendStatus
    <2>1. /\ UNCHANGED <<radioVars, forwardVars, delivered>> /\ pc' # "forward"
          /\ pc # "connack"
          /\ Send(Publish(0, 0)) \/ UNCHANGED linkVars
      BY <1>5 DEF SendMac, SendStatus
    <2>2. UNCHANGED Line \/ Line' = Append(Line, Publish(0, 0))
      <3>1. CASE Send(Publish(0, 0))
        BY <2>1, <3>1, SendGrows, MessagesAre
      <3>2. CASE UNCHANGED linkVars
        BY <3>2 DEF linkVars, Line
      <3>. QED
        BY <2>1, <3>1, <3>2
    <2>. QED
      BY <2>1, <2>2, LeadsSent, MessagesAre, Publishes
  <1>6. CASE Receive
    BY <1>6, LeadsReceive
  <1>7. CASE Forward
    BY <1>7, LeadsForward
  <1>8. CASE Loop
    <2>1. UNCHANGED <<radioVars, forwardVars, delivered>> /\ pc' # "forward"
      BY <1>8 DEF Loop
    <2>2. UNCHANGED Line \/ Line' = Append(Line, Control("PINGREQ"))
      <3>1. CASE Notice
        BY <3>1, NoticeKeepsLine
      <3>2. CASE Close("CONNECTION_TIMEOUT")
        BY <3>2, StopKeepsLine DEF Close
      <3>3. CASE /\ Connected /\ UNCHANGED <<state, link, old, session>>
                 /\ toBroker' = IF link = "up" THEN Append(toBroker, Control("PINGREQ"))
                                ELSE toBroker
        BY <3>3, WriteGrows, MessagesAre DEF Connected
      <3>4. CASE UNCHANGED <<state, link, toBroker, old, session>>
        BY <3>4 DEF Line
      <3>. QED
        BY <1>8, <3>1, <3>2, <3>3, <3>4 DEF Loop
    <2>3. Control("PINGREQ")[2] = 0
      BY DEF Control
    <2>. QED
      BY <2>1, <2>2, <2>3, LeadsSent, MessagesAre
  <1>. QED
    BY <1>1, <1>2, <1>3, <1>4, <1>5, <1>6, <1>7, <1>8 DEF GatewayLoop

LEMMA LeadsArrive ==
  ASSUME Typed, Typed', Leads, Arrive
  PROVE  Leads'
  <1>1. /\ UNCHANGED <<pc, param, packet, link, toBroker, old, session, delivered>>
        /\ onAir' = onAir + 1
        /\ queue' = queue \/ queue' = Append(queue, onAir + 1)
    BY DEF Arrive, linkVars, forwardVars, serverVars
  <1>2. UNCHANGED <<Line, Last>>
    BY <1>1, LastKept DEF Line
  <1>3. LineInOrder' /\ SentSoFar' /\ NameLeads'
    BY <1>1, <1>2 DEF Leads, LineInOrder, SentSoFar, IsAhead, NameLeads
  <1>4. queue \in Seq(1..MaxPackets) /\ Len(queue) \in Nat /\ onAir \in Nat /\ packet \in Nat
    <2>1. /\ queue \in Seq(1..MaxPackets) /\ packet \in 0..MaxPackets /\ onAir \in 0..MaxPackets
      BY DEF Typed, GatewayTypeOK
    <2>. QED
      BY <2>1, LenProperties, BoundsTyped
  <1>5. \A i \in 1..Len(queue) : queue[i] \in Nat
    BY <1>4, ElementOfSeq, BoundsTyped
  <1>6. /\ packet < onAir' /\ packet <= onAir'
        /\ \A i \in 1..Len(queue) : queue[i] < onAir' /\ queue[i] <= onAir'
    <2>1. packet <= onAir /\ \A i \in 1..Len(queue) : queue[i] <= onAir
      BY DEF Leads, PacketsOK
    <2>. QED
      BY <1>1, <1>4, <1>5, <2>1
  <1>7. PacketsOK'
    <2>1. CASE queue' = queue
      BY <1>1, <1>2, <1>6, <2>1 DEF Leads, PacketsOK
    <2>2. CASE queue' = Append(queue, onAir + 1)
      <3>1. onAir + 1 \in 1..MaxPackets
        <4>1. onAir' \in 0..MaxPackets
          BY DEF Typed, GatewayTypeOK
        <4>. QED
          BY <1>1, <1>4, <4>1, BoundsTyped
      <3>2. /\ Len(queue') = Len(queue) + 1 /\ queue'[Len(queue) + 1] = onAir'
            /\ \A i \in 1..Len(queue) : queue'[i] = queue[i]
        BY <1>1, <1>4, <2>2, <3>1, AppendProperties
      <3>3. \A i \in 1..Len(queue') : i \in 1..Len(queue) \/ i = Len(queue) + 1
        BY <1>4, <3>2
      <3>4. \A i \in 1..Len(queue') : packet < queue'[i] /\ queue'[i] <= onAir'
        <4>1. onAir' <= onAir'
          BY <1>1, <1>4
        <4>. QED
          BY <1>6, <3>2, <3>3, <4>1 DEF Leads, PacketsOK
      <3>5. \A i, j \in 1..Len(queue') : i < j => queue'[i] < queue'[j]
        <4>1. \A i, j \in 1..Len(queue') : i < j => i \in 1..Len(queue)
          BY <1>4, <3>2
        <4>2. \A i, j \in 1..Len(queue) : i < j => queue[i] < queue[j]
          BY DEF Leads, PacketsOK
        <4>. QED
          BY <1>6, <3>2, <3>3, <4>1, <4>2
      <3>6. UNCHANGED packet /\ \A p \in Params : Last'[p] <= packet'
        BY <1>1, <1>2 DEF Leads, PacketsOK, Params
      <3>. QED
        BY <1>6, <3>4, <3>5, <3>6 DEF PacketsOK, Params
    <2>. QED
      BY <1>1, <2>1, <2>2
  <1>. QED
    BY <1>3, <1>7 DEF Leads

\* The server takes the oldest message there is.
LEMMA LeadsTaken ==
  ASSUME Typed, Leads, Line # <<>>, Line' = Tail(Line), Deliver(Head(Line)),
         UNCHANGED <<pc, link, radioVars, forwardVars>>
  PROVE  Leads'
  <1>1. /\ UNCHANGED <<packet, param, onAir, queue>>
        /\ LineInOrder /\ NameLeads /\ packet \in Nat
    BY BoundsTyped DEF radioVars, forwardVars, Leads, Typed, GatewayTypeOK
  <1>2. /\ LineInOrder' /\ NameLeads'
        /\ \A p \in Params : Last[p] <= packet => Last'[p] <= packet
        /\ \A p \in Params, n \in Nat :
             IsAhead(p, n, Len(Line) + 1) => IsAhead(p, n, Len(Line) + 1)'
    BY <1>1, LineTaken
  <1>3. PacketsOK'
    BY <1>1, <1>2 DEF Leads, PacketsOK, Params
  <1>4. SentSoFar'
    <2> SUFFICES ASSUME pc = "forward", link = "up", NEW p \in 1..(param - 1)
                 PROVE  IsAhead(p, packet, Len(Line) + 1)'
      BY <1>1 DEF SentSoFar
    <2>1. PICK n \in Nat : n = packet
      BY <1>1
    <2>2. p \in Params
      <3>1. param \in 1..(PARAMS + 1)
        BY DEF Typed, GatewayTypeOK
      <3>. QED
        BY <3>1, BoundsTyped DEF Params
    <2>3. IsAhead(p, n, Len(Line) + 1)
      BY <2>1 DEF Leads, SentSoFar, IsAhead
    <2>4. IsAhead(p, n, Len(Line) + 1)'
      BY <1>2, <2>2, <2>3
    <2>. QED
      BY <1>1, <2>1, <2>4 DEF IsAhead
  <1>. QED
    BY <1>2, <1>3, <1>4 DEF Leads

\* What was on its way is lost.
LEMMA LeadsLost ==
  ASSUME Leads, Line' = <<>>, UNCHANGED <<radioVars, forwardVars, delivered>>,
         ~(pc' = "forward" /\ link' = "up")
  PROVE  Leads'
  <1>1. UNCHANGED <<Last, packet, param, onAir, queue>>
    BY LastKept DEF radioVars, forwardVars
  <1>2. SentSoFar' /\ PacketsOK' /\ NameLeads'
    BY <1>1 DEF Leads, SentSoFar, PacketsOK, NameLeads
  <1>. QED
    BY <1>2, LineLost DEF Leads

LEMMA LeadsEnvironment ==
  ASSUME Typed, Typed', SessionOK, Leads, Environment
  PROVE  Leads'
  <1> USE DEF serverVars
  <1>1. CASE Arrive
    BY <1>1, LeadsArrive
  <1>2. CASE Associate \/ LoseWiFi
    <2>1. UNCHANGED <<pc, linkVars, radioVars, forwardVars, delivered>>
      BY <1>2 DEF Associate, LoseWiFi
    <2>. QED
      BY <2>1, LeadsQuiet DEF linkVars, Line
  <1>3. CASE Break
    <2>1. /\ UNCHANGED <<pc, old, radioVars, forwardVars, delivered>>
          /\ link = "up" /\ link' # "up"
      BY <1>3 DEF Break
    <2>2. CASE session = "open"
      <3>1. Line' = <<>>
        BY <2>1, <2>2 DEF Line, SessionOK
      <3>. QED
        BY <2>1, <3>1, LeadsLost
    <2>3. CASE session # "open"
      <3>1. UNCHANGED Line
        BY <2>1, <2>3 DEF Line
      <3>. QED
        BY <2>1, <3>1, LeadsQuiet
    <2>. QED
      BY <2>2, <2>3
  <1>4. CASE Discover
    <2>1. /\ UNCHANGED <<pc, old, radioVars, forwardVars, delivered>>
          /\ link = "dead" /\ link' = "reset"
      BY <1>4 DEF Discover
    <2>2. UNCHANGED Line
      BY <2>1 DEF Line
    <2>. QED
      BY <2>1, <2>2, LeadsQuiet
  <1>5. CASE Broker
    <2>1. /\ link = "up" /\ toBroker # <<>> /\ toBroker' = Tail(toBroker)
          /\ UNCHANGED <<pc, link, radioVars, forwardVars>>
      BY <1>5 DEF Broker
    <2>2. CASE pc = "connack"
      <3>1. session = "new" /\ Head(toBroker) = Control("CONNECT") /\ toBroker' = <<>>
        BY <2>1, <2>2 DEF SessionOK
      <3>2. Control("CONNECT") # Control("PINGREQ") /\ Control("CONNECT")[1] # "PUBLISH"
        BY DEF Control
      <3>3. /\ UNCHANGED delivered
            /\ \/ session' = "open"
               \/ session' = "refused" /\ old' = old
        BY <1>5, <3>1, <3>2 DEF Broker
      <3>4. CASE session' = "open"
        <4>1. Line' = <<>>
          BY <2>1, <3>1, <3>4 DEF Line
        <4>. QED
          BY <2>1, <2>2, <3>3, <4>1, LeadsLost
      <3>5. CASE session' = "refused" /\ old' = old
        <4>1. UNCHANGED Line
          BY <3>1, <3>5 DEF Line
        <4>. QED
          BY <2>1, <2>2, <3>3, <4>1, LeadsQuiet
      <3>. QED
        BY <3>3, <3>4, <3>5
    <2>3. CASE pc # "connack"
      <3>1. session = "open" /\ Line = toBroker
        BY <2>1, <2>3 DEF SessionOK, Line
      <3>2. Head(toBroker) # Control("CONNECT")
        <4>1. toBroker \in Seq(Messages)
          BY LinkOfType DEF LinkTyped
        <4>2. 1 \in 1..Len(toBroker) /\ Head(toBroker) = toBroker[1]
          BY <2>1, <4>1, EmptySeq, LenProperties
        <4>. QED
          BY <2>3, <4>2 DEF SessionOK
      <3>3. session' = "open" /\ Deliver(Head(toBroker))
        <4>1. Control("PINGREQ")[2] = 0
          BY DEF Control
        <4>. QED
          BY <1>5, <3>1, <3>2, <4>1 DEF Broker, Deliver
      <3>4. Line' = Tail(Line) /\ Line # <<>> /\ Deliver(Head(Line))
        <4>1. Line' = toBroker'
          BY <2>1, <3>3 DEF Line
        <4>. QED
          BY <2>1, <3>1, <3>3, <4>1
      <3>. QED
        BY <2>1, <3>4, LeadsTaken
    <2>. QED
      BY <2>2, <2>3
  <1>6. CASE OldArrives
    <2>1. /\ old # <<>> /\ UNCHANGED <<pc, link, session, radioVars, forwardVars>>
          /\ \/ old' = Tail(old) /\ Deliver(Head(old))
             \/ old' = <<>> /\ UNCHANGED delivered
      BY <1>6 DEF OldArrives
    <2>2. ~(link = "up" /\ session = "open")
      BY <2>1 DEF SessionOK
    <2>3. Line = old /\ Line' = old' /\ ~(pc = "forward" /\ link = "up")
      BY <2>1, <2>2 DEF Line, SessionOK
    <2>4. CASE old' = Tail(old) /\ Deliver(Head(old))
      BY <2>1, <2>3, <2>4, LeadsTaken
    <2>5. CASE old' = <<>> /\ UNCHANGED delivered
      BY <2>1, <2>3, <2>5, LeadsLost
    <2>. QED
      BY <2>1, <2>4, <2>5
  <1>. QED
    BY <1>1, <1>2, <1>3, <1>4, <1>5, <1>6 DEF Environment

LEMMA LeadsInit == Init => Leads
  <1> SUFFICES ASSUME Init PROVE Leads
    OBVIOUS
  <1>1. Line = <<>> /\ 1..Len(Line) = {} /\ 1..Len(queue) = {}
    BY EmptySeq DEF Init, Line
  <1>2. packet = 0 /\ onAir = 0 /\ pc # "forward" /\ \A p \in Params : Last[p] = 0
    BY DEF Init, Last, Params
  <1>. QED
    BY <1>1, <1>2 DEF Leads, LineInOrder, SentSoFar, PacketsOK, NameLeads, Params

LEMMA LeadsStep == Typed /\ Typed' /\ SessionOK /\ Leads /\ [Next]_gatewayVars => Leads'
  <1> SUFFICES ASSUME Typed, Typed', SessionOK, Leads, [Next]_gatewayVars PROVE Leads'
    OBVIOUS
  <1>1. CASE UNCHANGED gatewayVars
    <2>1. UNCHANGED <<pc, link, toBroker, old, session, radioVars, forwardVars, delivered>>
      BY <1>1 DEF gatewayVars, linkVars, serverVars
    <2>. QED
      BY <2>1, LeadsQuiet DEF Line
  <1>. QED
    BY <1>1, LeadsLoop, LeadsEnvironment DEF Next

-----------------------------------------------------------------------------
(* Silence.                                                                *)

Timely == AnswerInTime /\ SilenceCounts

LEMMA TimesTyped ==
  /\ KEEPALIVE \in Nat /\ SOCKET_TIMEOUT \in Nat /\ ANSWER \in Nat /\ ITER \in Nat \ {0}
  /\ AGE_MAX \in Nat /\ AGE_MAX > 2 * (KEEPALIVE + ITER) + ITER
  /\ SOCKET_TIMEOUT <= 2 * (KEEPALIVE + ITER) + ITER
  /\ ANSWER + ITER <= KEEPALIVE
  BY GatewayAssumption, AnswerAssumption

LEMMA AgesTyped ==
  Typed => /\ inAge \in 0..AGE_MAX /\ outAge \in 0..AGE_MAX /\ deadFor \in 0..AGE_MAX
           /\ pingOutstanding \in BOOLEAN /\ away \in BOOLEAN
  BY DEF Typed, GatewayTypeOK

LEMMA LateIs == Late \in {0, ITER} /\ (pc = "delay" => Late = 0) /\ (pc # "delay" => Late = ITER)
  BY DEF Late

LEMMA LaterIs ==
  ASSUME NEW age \in 0..AGE_MAX, NEW d \in Nat
  PROVE  /\ Later(age, d) \in 0..AGE_MAX
         /\ age <= Later(age, d) /\ Later(age, d) <= age + d
         /\ Later(age, d) = age + d \/ Later(age, d) = AGE_MAX
  BY TimesTyped DEF Later

\* What an answer in time, and a dead link, allow to happen to the ages.
LEMMA ElapseAges ==
  ASSUME Typed, NEW d \in Nat, Elapse(d)
  PROVE  /\ {inAge', outAge', deadFor'} \subseteq 0..AGE_MAX
         /\ inAge <= inAge' /\ inAge' <= inAge + d
         /\ inAge' = inAge + d \/ inAge' = AGE_MAX
         /\ outAge <= inAge => outAge' <= inAge'
         /\ deadFor' <= deadFor + d
         /\ link # "dead" \/ pc = "initWiFi" => deadFor' = deadFor
         /\ away => away'
         /\ ~wifi => away'
  <1>1. inAge \in 0..AGE_MAX /\ outAge \in 0..AGE_MAX /\ deadFor \in 0..AGE_MAX
    BY AgesTyped
  <1>2. /\ inAge' = Later(inAge, d) /\ outAge' = Later(outAge, d)
        /\ deadFor' = Later(deadFor, d) \/ deadFor' = deadFor
        /\ link # "dead" \/ pc = "initWiFi" => deadFor' = deadFor
        /\ away => away'
        /\ ~wifi => away'
    BY DEF Elapse
  <1>3. outAge <= inAge => outAge' <= inAge'
    BY <1>1, <1>2, TimesTyped DEF Later
  <1>4. deadFor' \in 0..AGE_MAX /\ deadFor' <= deadFor + d
    <2>1. /\ Later(deadFor, d) \in 0..AGE_MAX
          /\ deadFor <= Later(deadFor, d) /\ Later(deadFor, d) <= deadFor + d
      BY <1>1, LaterIs
    <2>. QED
      BY <1>1, <1>2, <2>1
  <1>. QED
    BY <1>1, <1>2, <1>3, <1>4, LaterIs

LEMMA PingsEmpty == toBroker = <<>> => Unasked
  BY EmptySeq DEF Unasked, Pings

\* A message that is no ping changes nothing; a ping is the only one.
LEMMA PingsAppend ==
  ASSUME Typed, NEW m \in Messages, toBroker' = Append(toBroker, m)
  PROVE  /\ m # Control("PINGREQ") => (Unasked => Unasked') /\ (AskedOnce => AskedOnce')
         /\ m = Control("PINGREQ") => (Unasked => AskedOnce')
  <1>1. toBroker \in Seq(Messages) /\ Len(toBroker) \in Nat
    BY LinkOfType, LenProperties DEF LinkTyped
  <1>2. /\ Len(toBroker') = Len(toBroker) + 1 /\ toBroker'[Len(toBroker) + 1] = m
        /\ \A i \in 1..Len(toBroker) : toBroker'[i] = toBroker[i]
    BY <1>1, AppendProperties
  <1>3. 1..Len(toBroker') = (1..Len(toBroker)) \union {Len(toBroker) + 1}
    BY <1>1, <1>2
  <1>4. m # Control("PINGREQ") => Pings' = Pings
    BY <1>2, <1>3 DEF Pings
  <1>5. m = Control("PINGREQ") => Pings' = Pings \union {Len(toBroker) + 1}
    BY <1>2, <1>3 DEF Pings
  <1>6. Len(toBroker) + 1 \in 1..Len(toBroker')
    BY <1>1, <1>2
  <1>7. \A i \in 1..Len(toBroker) : i \in 1..Len(toBroker')
    BY <1>3
  <1>. QED
    BY <1>4, <1>5, <1>6, <1>7 DEF Unasked, AskedOnce

\* The broker takes the first message.
LEMMA PingsTail ==
  ASSUME Typed, toBroker # <<>>, toBroker' = Tail(toBroker)
  PROVE  /\ Head(toBroker) = Control("PINGREQ") => ~Unasked /\ (AskedOnce => Unasked')
         /\ Head(toBroker) # Control("PINGREQ") =>
              (Unasked => Unasked') /\ (AskedOnce => AskedOnce')
  <1>1. toBroker \in Seq(Messages) /\ Len(toBroker) \in Nat \ {0}
    BY LinkOfType, LenProperties, EmptySeq DEF LinkTyped
  <1>2. /\ Len(toBroker') = Len(toBroker) - 1 /\ Head(toBroker) = toBroker[1]
        /\ \A i \in 1..Len(toBroker') : toBroker'[i] = toBroker[i + 1]
    BY <1>1, HeadTailProperties
  <1>3. /\ 1 \in 1..Len(toBroker)
        /\ \A i \in 1..Len(toBroker') : i + 1 \in 1..Len(toBroker) /\ i + 1 # 1
        /\ \A i \in 1..Len(toBroker) : i = 1 \/ i - 1 \in 1..Len(toBroker')
    BY <1>1, <1>2
  <1>4. \A i \in Pings' : i + 1 \in Pings /\ i + 1 # 1 /\ i \in Nat
    BY <1>2, <1>3 DEF Pings
  <1>5. CASE Head(toBroker) = Control("PINGREQ")
    <2>1. 1 \in Pings
      BY <1>2, <1>3, <1>5 DEF Pings
    <2>. QED
      BY <1>4, <1>5, <2>1 DEF Unasked, AskedOnce
  <1>6. CASE Head(toBroker) # Control("PINGREQ")
    <2>1. Unasked => Unasked'
      BY <1>4 DEF Unasked
    <2>2. ASSUME NEW i \in 1..Len(toBroker), Pings = {i} PROVE AskedOnce'
      <3>1. i # 1 /\ i \in Nat /\ i - 1 \in 1..Len(toBroker')
        BY <1>2, <1>3, <1>6, <2>2 DEF Pings
      <3>2. toBroker'[i - 1] = Control("PINGREQ")
        <4>1. toBroker'[i - 1] = toBroker[(i - 1) + 1] /\ (i - 1) + 1 = i
          BY <1>2, <3>1
        <4>. QED
          BY <4>1, <2>2 DEF Pings
      <3>3. i - 1 \in Pings'
        BY <3>1, <3>2 DEF Pings
      <3>4. \A j \in Pings' : j = i - 1
        <4>1. \A j \in Pings' : j \in Nat /\ j + 1 = i
          BY <1>4, <2>2
        <4>. QED
          BY <3>1, <4>1
      <3>5. Pings' = {i - 1}
        BY <3>3, <3>4
      <3>. QED
        BY <3>1, <3>5 DEF AskedOnce
    <2>. QED
      BY <1>6, <2>1, <2>2 DEF AskedOnce
  <1>. QED
    BY <1>5, <1>6

\* Arithmetic: from one bound on a dead link's age to the next.
LEMMA Older ==
  ASSUME NEW x \in Nat, NEW y \in Nat, NEW a \in Nat, NEW b \in Nat, NEW c \in Nat,
         NEW d \in Nat, NEW m \in Nat,
         y <= x + d, y <= m, b = a + d \/ b = m, x <= c + a
  PROVE  y <= c + b
  OBVIOUS

LEMMA OlderLate ==
  ASSUME NEW x \in Nat, NEW y \in Nat, NEW c \in Nat, NEW d \in Nat, NEW e \in Nat,
         y <= x + d, d <= e, x <= c + 0
  PROVE  y <= c + e
  OBVIOUS

LEMMA NatSum == \A c, x \in Nat : 0 <= x /\ 0 <= c + x
  OBVIOUS

LEMMA Wider ==
  ASSUME NEW x \in Nat, NEW c \in Nat, NEW a \in Nat, NEW b \in Nat, a <= b
  PROVE  x <= c + a => x <= c + b
  OBVIOUS

LEMMA SumsTyped ==
  /\ ITER + KEEPALIVE \in Nat /\ 2 * ITER + KEEPALIVE \in Nat
  /\ 2 * (ITER + KEEPALIVE) \in Nat
  /\ 2 * (KEEPALIVE + ITER) = 2 * (ITER + KEEPALIVE)
  /\ ITER + KEEPALIVE <= 2 * (ITER + KEEPALIVE)
  /\ 2 * ITER + KEEPALIVE <= 2 * (ITER + KEEPALIVE)
  /\ (2 * ITER + KEEPALIVE) + KEEPALIVE = 2 * (ITER + KEEPALIVE)
  BY TimesTyped

\* The steps in which no time passes and nothing is read.
LEMMA TimelyKept ==
  ASSUME Typed, Timely, pc' = "delay" => pc = "delay", pc' = "connack" => pc = "connack",
         UNCHANGED <<state, link, toGateway, pingOutstanding, inAge, deadFor, away>>,
         outAge' = outAge \/ outAge' = 0,
         Unasked => Unasked', AskedOnce => AskedOnce'
  PROVE  Timely'
  <1>1. (NoPing' <=> NoPing) /\ (PingOut' <=> PingOut) /\ (PingBack' <=> PingBack)
    BY DEF NoPing, PingOut, PingBack
  <1>2. Late <= Late' /\ Late \in Nat /\ Late' \in Nat
    BY TimesTyped DEF Late
  <1>3. /\ inAge \in 0..AGE_MAX /\ outAge \in 0..AGE_MAX /\ deadFor \in 0..AGE_MAX
        /\ outAge <= inAge => outAge' <= inAge'
    BY AgesTyped, TimesTyped
  <1>4. AnswerInTime'
    <2>1. inAge <= ANSWER + Late => inAge <= ANSWER + Late'
      <3>1. inAge \in Nat /\ ANSWER \in Nat
        BY <1>3, TimesTyped
      <3>. QED
        BY <1>2, <3>1, Wider
    <2>. QED
      BY <1>1, <1>3, <2>1 DEF Timely, AnswerInTime
  <1>5. SilenceCounts'
    <2>1. link = "up" => deadFor' = 0
      BY DEF Timely, SilenceCounts
    <2>2. state = "CONNECTED" /\ link = "dead" =>
            \/ /\ NoPing
               /\ deadFor <= ITER + inAge /\ deadFor <= ITER + KEEPALIVE + Late'
            \/ /\ PingOut
               /\ deadFor <= 2 * ITER + KEEPALIVE + inAge
               /\ deadFor <= 2 * (ITER + KEEPALIVE) + Late'
            \/ PingBack /\ deadFor <= Late'
      <3>1. \A c \in Nat : deadFor <= c + Late => deadFor <= c + Late'
        <4>1. deadFor \in Nat
          BY <1>3, TimesTyped
        <4>. QED
          BY <1>2, <4>1, Wider
      <3>2. deadFor <= Late => deadFor <= Late'
        BY <1>2, <1>3, TimesTyped
      <3>. QED
        BY <3>1, <3>2, SumsTyped DEF Timely, SilenceCounts
    <2>3. /\ pc' = "connack" => inAge <= SOCKET_TIMEOUT
          /\ pc' = "connack" /\ link = "dead" =>
               \/ toGateway = <<>> /\ deadFor <= inAge
               \/ toGateway \in {<<Control("CONNACK")>>, <<Control("REFUSED")>>} /\ deadFor = 0
      BY DEF Timely, SilenceCounts
    <2>4. DeadLinkNoticed'
      BY DEF Timely, SilenceCounts, DeadLinkNoticed
    <2>. QED
      BY <1>1, <2>1, <2>2, <2>3, <2>4 DEF SilenceCounts
  <1>. QED
    BY <1>4, <1>5 DEF Timely

\* The steps that end a session, or leave nothing open.
LEMMA TimelyClosed ==
  ASSUME Timely, link' \notin {"up", "dead"}, pc' # "connack", UNCHANGED deadFor
  PROVE  Timely'
  BY DEF Timely, AnswerInTime, SilenceCounts, DeadLinkNoticed

LEMMA TimelyNoticed ==
  ASSUME Typed, Timely, Notice, pc' \notin {"delay", "connack"}, pc # "connack",
         UNCHANGED <<pingOutstanding, inAge, outAge, deadFor, away>>
  PROVE  Timely'
  <1>1. CASE state = "CONNECTED"
    <2>1. link' = "none"
      BY <1>1 DEF Notice, Close, Stop
    <2>. QED
      BY <2>1, TimelyClosed
  <1>2. CASE state # "CONNECTED"
    <2>1. UNCHANGED <<state, linkVars>>
      BY <1>2 DEF Notice
    <2>. QED
      BY <2>1, TimelyKept DEF linkVars, Unasked, AskedOnce, Pings
  <1>. QED
    BY <1>1, <1>2

LEMMA TimelySent ==
  ASSUME Typed, Timely, NEW m \in Messages, m # Control("PINGREQ"), Send(m),
         pc' \notin {"delay", "connack"}, pc # "connack",
         UNCHANGED <<pingOutstanding, inAge, deadFor, away>>
  PROVE  Timely'
  <1>1. CASE Connected /\ Write(m) /\ outAge' = 0 /\ UNCHANGED state
    <2>1. (Unasked => Unasked') /\ (AskedOnce => AskedOnce')
      <3>1. CASE toBroker' = Append(toBroker, m)
        BY <3>1, PingsAppend
      <3>2. CASE toBroker' = toBroker
        BY <3>2 DEF Unasked, AskedOnce, Pings
      <3>. QED
        BY <1>1, <3>1, <3>2 DEF Write
    <2>. QED
      BY <1>1, <2>1, TimelyKept DEF Write
  <1>2. CASE ~Connected /\ Notice /\ UNCHANGED outAge
    BY <1>2, TimelyNoticed
  <1>. QED
    BY <1>1, <1>2 DEF Send

\* delay(): an unanswered ping has been out for no longer than ANSWER, and a dead link
\* is one iteration older.
LEMMA TimelyDelay ==
  ASSUME Typed, SessionOK, Timely, Delay
  PROVE  Timely'
  <1>1. PICK d \in 1..ITER : Elapse(d)
    BY DEF Delay
  <1>2. /\ pc = "delay" /\ pc' = "reconnect"
        /\ UNCHANGED <<wifi, state, pingOutstanding, linkVars>>
    BY DEF Delay, wifiVars
  <1>3. Late = 0 /\ Late' = ITER
    BY <1>2 DEF Late
  <1>4. (NoPing' <=> NoPing) /\ (PingOut' <=> PingOut) /\ (PingBack' <=> PingBack)
    BY <1>2 DEF NoPing, PingOut, PingBack, linkVars
  <1>5. (Unasked' <=> Unasked) /\ (AskedOnce' <=> AskedOnce)
    BY <1>2 DEF Unasked, AskedOnce, Pings, linkVars
  <1>6. d \in Nat /\ d <= ITER
    BY <1>1, TimesTyped
  <1>7. /\ inAge' \in 0..AGE_MAX /\ outAge' \in 0..AGE_MAX /\ deadFor' \in 0..AGE_MAX
        /\ inAge <= inAge' /\ inAge' <= inAge + d
        /\ inAge' = inAge + d \/ inAge' = AGE_MAX
        /\ outAge <= inAge => outAge' <= inAge'
        /\ deadFor' <= deadFor + d
        /\ link # "dead" => deadFor' = deadFor
        /\ away => away'
        /\ ~wifi => away'
    BY <1>1, <1>6, ElapseAges
  <1>8. inAge \in 0..AGE_MAX /\ outAge \in 0..AGE_MAX /\ deadFor \in 0..AGE_MAX
    BY AgesTyped
  <1>9. ASSUME link = "up", AskedOnce, wifi PROVE inAge' <= ANSWER
    <2>1. Asked
      BY <1>9 DEF AskedOnce, Pings, Asked
    <2>2. inAge + d <= ANSWER
      BY <1>1, <1>9, <2>1 DEF Elapse
    <2>. QED
      BY <2>2, <1>6, <1>7, <1>8, TimesTyped
  <1>10. AnswerInTime'
    <2>1. ASSUME PingBack, away \/ (outAge <= inAge /\ inAge <= ANSWER + Late)
          PROVE  away' \/ (outAge' <= inAge' /\ inAge' <= ANSWER + Late')
      BY <2>1, <1>3, <1>6, <1>7, <1>8, TimesTyped
    <2>2. ASSUME link = "up", AskedOnce, away \/ (outAge <= inAge /\ inAge <= ANSWER)
          PROVE  away' \/ (outAge' <= inAge' /\ inAge' <= ANSWER)
      BY <2>2, <1>7, <1>9
    <2>. QED
      BY <1>2, <1>4, <1>5, <2>1, <2>2 DEF Timely, AnswerInTime, linkVars
  <1>11. SilenceCounts'
    <2>1. link = "up" => deadFor' = 0
      BY <1>7 DEF Timely, SilenceCounts
    <2>2. state = "CONNECTED" /\ link = "dead" =>
            \/ /\ NoPing
               /\ deadFor' <= ITER + inAge' /\ deadFor' <= ITER + KEEPALIVE + Late'
            \/ /\ PingOut
               /\ deadFor' <= 2 * ITER + KEEPALIVE + inAge'
               /\ deadFor' <= 2 * (ITER + KEEPALIVE) + Late'
            \/ PingBack /\ deadFor' <= Late'
      <3> SUFFICES ASSUME state = "CONNECTED", link = "dead"
                   PROVE  \/ /\ NoPing
                             /\ deadFor' <= ITER + inAge' /\ deadFor' <= ITER + KEEPALIVE + Late'
                          \/ /\ PingOut
                             /\ deadFor' <= 2 * ITER + KEEPALIVE + inAge'
                             /\ deadFor' <= 2 * (ITER + KEEPALIVE) + Late'
                          \/ PingBack /\ deadFor' <= Late'
        OBVIOUS
      <3>1. ASSUME NoPing, deadFor <= ITER + inAge, deadFor <= ITER + KEEPALIVE + Late
            PROVE  deadFor' <= ITER + inAge' /\ deadFor' <= ITER + KEEPALIVE + Late'
        <4>1. /\ deadFor \in Nat /\ deadFor' \in Nat /\ inAge \in Nat /\ inAge' \in Nat
              /\ deadFor' <= AGE_MAX
          BY <1>7, <1>8, TimesTyped
        <4>2. deadFor' <= (ITER) + inAge'
          <5>1. deadFor <= (ITER) + inAge /\ ITER \in Nat /\ AGE_MAX \in Nat
            BY <3>1, SumsTyped, TimesTyped
          <5>2. deadFor' <= deadFor + d /\ (inAge' = inAge + d \/ inAge' = AGE_MAX)
            BY <1>7
          <5>. QED
            BY <1>6, <4>1, <5>1, <5>2, Older
        <4>3. deadFor' <= (ITER + KEEPALIVE) + Late'
          <5>1. deadFor <= (ITER + KEEPALIVE) + 0 /\ ITER + KEEPALIVE \in Nat /\ ITER \in Nat
            BY <3>1, <1>3, SumsTyped, TimesTyped
          <5>2. deadFor' <= deadFor + d
            BY <1>7
          <5>3. deadFor' <= (ITER + KEEPALIVE) + ITER
            BY <1>6, <4>1, <5>1, <5>2, OlderLate
          <5>. QED
            BY <5>3, <1>3
        <4>. QED
          BY <4>2, <4>3
      <3>2. ASSUME PingOut, deadFor <= 2 * ITER + KEEPALIVE + inAge,
                   deadFor <= 2 * (ITER + KEEPALIVE) + Late
            PROVE  /\ deadFor' <= 2 * ITER + KEEPALIVE + inAge'
                   /\ deadFor' <= 2 * (ITER + KEEPALIVE) + Late'
        <4>1. /\ deadFor \in Nat /\ deadFor' \in Nat /\ inAge \in Nat /\ inAge' \in Nat
              /\ deadFor' <= AGE_MAX
          BY <1>7, <1>8, TimesTyped
        <4>2. deadFor' <= (2 * ITER + KEEPALIVE) + inAge'
          <5>1. deadFor <= (2 * ITER + KEEPALIVE) + inAge /\ 2 * ITER + KEEPALIVE \in Nat /\ AGE_MAX \in Nat
            BY <3>2, SumsTyped, TimesTyped
          <5>2. deadFor' <= deadFor + d /\ (inAge' = inAge + d \/ inAge' = AGE_MAX)
            BY <1>7
          <5>. QED
            BY <1>6, <4>1, <5>1, <5>2, Older
        <4>3. deadFor' <= (2 * (ITER + KEEPALIVE)) + Late'
          <5>1. deadFor <= (2 * (ITER + KEEPALIVE)) + 0 /\ 2 * (ITER + KEEPALIVE) \in Nat /\ ITER \in Nat
            BY <3>2, <1>3, SumsTyped, TimesTyped
          <5>2. deadFor' <= deadFor + d
            BY <1>7
          <5>3. deadFor' <= (2 * (ITER + KEEPALIVE)) + ITER
            BY <1>6, <4>1, <5>1, <5>2, OlderLate
          <5>. QED
            BY <5>3, <1>3
        <4>. QED
          BY <4>2, <4>3
      <3>3. ASSUME PingBack, deadFor <= Late PROVE deadFor' <= Late'
        BY <3>3, <1>3, <1>6, <1>7, <1>8, TimesTyped
      <3>. QED
        BY <3>1, <3>2, <3>3 DEF Timely, SilenceCounts
    <2>3. DeadLinkNoticed'
      <3>1. CASE link = "dead"
        <4>1. state = "CONNECTED"
          BY <1>2, <3>1 DEF SessionOK, Open
        <4>2. \/ deadFor' <= (ITER + KEEPALIVE) + ITER
              \/ deadFor' <= 2 * (ITER + KEEPALIVE) + ITER
              \/ deadFor' <= ITER
          BY <2>2, <3>1, <4>1, <1>3
        <4>. QED
          BY <4>2, <1>7, SumsTyped, TimesTyped DEF DeadLinkNoticed
      <3>2. CASE link # "dead"
        BY <3>2, <1>7 DEF Timely, SilenceCounts, DeadLinkNoticed
      <3>. QED
        BY <3>1, <3>2
    <2>. QED
      BY <1>2, <1>4, <2>1, <2>2, <2>3 DEF SilenceCounts, linkVars
  <1>. QED
    BY <1>10, <1>11 DEF Timely

\* InitWiFi(): it waits only as long as the access point is away.
LEMMA TimelyWait ==
  ASSUME Typed, Timely, InitWait
  PROVE  Timely'
  <1>1. /\ pc = "initWiFi" /\ pc' \in {"session", "initTried"}
        /\ UNCHANGED <<wifi, state, pingOutstanding, linkVars>>
    BY DEF InitWait, wifiVars
  <1>2. CASE UNCHANGED <<ageVars, away>>
    BY <1>1, <1>2, TimelyKept DEF ageVars, linkVars, Unasked, AskedOnce, Pings
  <1>3. CASE ~wifi /\ Elapse(1)
    <2>1. Late' = Late /\ Late \in 0..ITER
      BY <1>1, TimesTyped DEF Late
    <2>2. (NoPing' <=> NoPing) /\ (PingOut' <=> PingOut) /\ (PingBack' <=> PingBack)
      BY <1>1 DEF NoPing, PingOut, PingBack, linkVars
    <2>3. (Unasked' <=> Unasked) /\ (AskedOnce' <=> AskedOnce)
      BY <1>1 DEF Unasked, AskedOnce, Pings, linkVars
    <2>4. /\ inAge' \in 0..AGE_MAX /\ inAge <= inAge' /\ deadFor' = deadFor /\ away'
          /\ inAge \in 0..AGE_MAX /\ deadFor \in 0..AGE_MAX
      BY <1>1, <1>3, ElapseAges, AgesTyped
    <2>5. AnswerInTime'
      BY <1>1, <2>2, <2>3, <2>4 DEF Timely, AnswerInTime, linkVars
    <2>6. state = "CONNECTED" /\ link = "dead" =>
            \/ /\ NoPing
               /\ deadFor' <= ITER + inAge' /\ deadFor' <= ITER + KEEPALIVE + Late'
            \/ /\ PingOut
               /\ deadFor' <= 2 * ITER + KEEPALIVE + inAge'
               /\ deadFor' <= 2 * (ITER + KEEPALIVE) + Late'
            \/ PingBack /\ deadFor' <= Late'
      <3>1. \A c \in Nat : deadFor <= c + inAge => deadFor <= c + inAge'
        <4>1. deadFor \in Nat /\ inAge \in Nat /\ inAge' \in Nat
          BY <2>4, TimesTyped
        <4>. QED
          BY <2>4, <4>1, Wider
      <3>. QED
        BY <2>1, <2>4, <3>1, SumsTyped, TimesTyped DEF Timely, SilenceCounts
    <2>7. DeadLinkNoticed' /\ (link = "up" => deadFor' = 0)
      BY <2>4 DEF Timely, SilenceCounts, DeadLinkNoticed
    <2>8. SilenceCounts'
      BY <1>1, <2>2, <2>6, <2>7 DEF SilenceCounts, linkVars
    <2>. QED
      BY <2>5, <2>8 DEF Timely
  <1>. QED
    BY <1>2, <1>3 DEF InitWait

\* The wait for CONNACK: a link that dies in it is not older than the wait.
LEMMA TimelyConnack ==
  ASSUME Typed, SessionOK, Timely, AwaitConnack
  PROVE  Timely'
  <1>1. /\ pc = "connack" /\ state # "CONNECTED"
        /\ inAge \in 0..AGE_MAX /\ deadFor \in 0..AGE_MAX
    BY AgesTyped DEF AwaitConnack, SessionOK
  <1>2. CASE /\ toGateway = <<>> /\ inAge < SOCKET_TIMEOUT /\ Elapse(1)
             /\ UNCHANGED <<pc, state, pingOutstanding, linkVars>>
    <2>1. /\ inAge' \in 0..AGE_MAX /\ inAge' <= inAge + 1 /\ deadFor' \in 0..AGE_MAX
          /\ inAge' = inAge + 1 \/ inAge' = AGE_MAX
          /\ deadFor' <= deadFor + 1 /\ (link # "dead" => deadFor' = deadFor)
      BY <1>2, ElapseAges
    <2>2. inAge' <= SOCKET_TIMEOUT
      BY <1>1, <1>2, <2>1, TimesTyped
    <2>3. link = "dead" => deadFor' <= inAge'
      <3> SUFFICES ASSUME link = "dead" PROVE deadFor' <= inAge'
        OBVIOUS
      <3>1. deadFor <= inAge
        <4>1. <<Control("CONNACK")>> # <<>> /\ <<Control("REFUSED")>> # <<>>
          OBVIOUS
        <4>. QED
          BY <1>1, <1>2, <4>1 DEF Timely, SilenceCounts
      <3>. QED
        BY <1>1, <2>1, <3>1, TimesTyped
    <2>4. link = "up" => deadFor' = 0
      BY <2>1 DEF Timely, SilenceCounts
    <2>5. DeadLinkNoticed'
      <3>1. CASE link = "dead"
        <4>1. deadFor' <= SOCKET_TIMEOUT
          BY <2>1, <2>2, <2>3, <3>1, TimesTyped
        <4>. QED
          BY <2>1, <4>1, TimesTyped, SumsTyped DEF DeadLinkNoticed
      <3>2. CASE link # "dead"
        BY <2>1, <3>2 DEF Timely, SilenceCounts, DeadLinkNoticed
      <3>. QED
        BY <3>1, <3>2
    <2>. QED
      BY <1>1, <1>2, <2>2, <2>3, <2>4, <2>5
         DEF Timely, AnswerInTime, SilenceCounts, linkVars
  <1>3. CASE /\ pc' = "delay"
             /\ Close("CONNECTION_TIMEOUT") \/ Close("CONNECT_BAD")
             /\ UNCHANGED <<pingOutstanding, ageVars, away>>
    <2>1. link' = "none" /\ UNCHANGED deadFor
      BY <1>3 DEF Close, Stop, ageVars
    <2>. QED
      BY <1>3, <2>1, TimelyClosed
  <1>4. CASE /\ toGateway # <<>> /\ Head(toGateway) = Control("CONNACK")
             /\ toGateway' = Tail(toGateway)
             /\ Accepted /\ UNCHANGED <<link, toBroker, old, session>>
    <2>1. /\ pc' = "mac" /\ inAge' = 0 /\ ~pingOutstanding' /\ UNCHANGED deadFor
      BY <1>4 DEF Accepted
    <2>2. Open => /\ link = "up" => toBroker = <<>>
                  /\ link = "dead" => deadFor = 0
                  /\ toGateway \in {<<Control("CONNACK")>>, <<Control("REFUSED")>>}
      <3>1. CASE link = "up"
        <4>1. Head(<<Control("REFUSED")>>) # Control("CONNACK")
          BY DEF Control
        <4>. QED
          BY <1>1, <1>4, <3>1, <4>1 DEF SessionOK
      <3>2. CASE link = "dead"
        BY <1>1, <1>4, <3>2 DEF Timely, SilenceCounts
      <3>. QED
        BY <3>1, <3>2 DEF Open
    <2>3. Open => NoPing'
      <3>1. Tail(<<Control("CONNACK")>>) = <<>> /\ Tail(<<Control("REFUSED")>>) = <<>>
        BY DEF Control
      <3>. QED
        BY <1>4, <2>1, <2>2, <3>1 DEF NoPing
    <2>4. link = "up" => Unasked'
      <3>1. link = "up" => 1..Len(toBroker') = {}
        BY <1>4, <2>2, EmptySeq DEF Open
      <3>. QED
        BY <3>1 DEF Unasked, Pings
    <2>5. link \in {"up", "dead"} => deadFor' = 0
      BY <2>1, <2>2 DEF Timely, SilenceCounts, Open
    <2>6. DeadLinkNoticed'
      BY <2>1 DEF Timely, SilenceCounts, DeadLinkNoticed
    <2>7. AnswerInTime'
      BY <1>4, <2>3, <2>4 DEF AnswerInTime, Open
    <2>8. SilenceCounts'
      <3>1. Late' = ITER
        BY <2>1 DEF Late
      <3>2. 0 <= ITER + 0 /\ 0 <= ITER + KEEPALIVE + ITER
        BY TimesTyped
      <3>. QED
        BY <1>4, <2>1, <2>3, <2>5, <2>6, <3>1, <3>2 DEF SilenceCounts, Open
    <2>. QED
      BY <2>7, <2>8 DEF Timely
  <1>. QED
    BY <1>2, <1>3, <1>4 DEF AwaitConnack

\* The broker answers a ping that is not older than ANSWER.
LEMMA TimelyBroker ==
  ASSUME Typed, SessionOK, Timely, Broker
  PROVE  Timely'
  <1>1. /\ link = "up" /\ toBroker # <<>> /\ toBroker' = Tail(toBroker)
        /\ UNCHANGED <<pc, state, pingOutstanding, ageVars, link, away>>
    BY DEF Broker
  <1>2. deadFor' = 0 /\ DeadLinkNoticed'
    BY <1>1 DEF Timely, SilenceCounts, DeadLinkNoticed, ageVars
  <1>3. SilenceCounts'
    <2>1. pc = "connack" => inAge <= SOCKET_TIMEOUT
      BY DEF Timely, SilenceCounts
    <2>. QED
      BY <1>1, <1>2, <2>1 DEF SilenceCounts, ageVars
  <1>4. AnswerInTime'
    <2> SUFFICES ASSUME state = "CONNECTED" PROVE AnswerInTime'
      BY <1>1 DEF AnswerInTime
    <2>1. Late' = Late /\ Late \in Nat /\ inAge \in Nat
      BY <1>1, TimesTyped, AgesTyped DEF Late
    <2>2. CASE Head(toBroker) = Control("PINGREQ")
      <3>1. toGateway' = Append(toGateway, Control("PINGRESP"))
        <4>1. Control("PINGREQ") # Control("CONNECT") /\ Control("PINGREQ")[1] # "PUBLISH"
          BY DEF Control
        <4>. QED
          BY <2>2, <4>1 DEF Broker
      <3>2. /\ PingOut /\ AskedOnce /\ Unasked'
            /\ away \/ (outAge <= inAge /\ inAge <= ANSWER)
        BY <1>1, <2>2, PingsTail DEF Timely, AnswerInTime
      <3>3. PingBack'
        <4>1. toGateway' = <<Control("PINGRESP")>>
          BY <3>1, <3>2 DEF PingOut
        <4>. QED
          BY <1>1, <3>2, <4>1 DEF PingOut, PingBack
      <3>4. inAge <= ANSWER => inAge <= ANSWER + Late
        BY <2>1, TimesTyped
      <3>. QED
        BY <1>1, <2>1, <3>2, <3>3, <3>4 DEF AnswerInTime, ageVars
    <2>3. CASE Head(toBroker) # Control("PINGREQ")
      <3>1. Head(toBroker) # Control("CONNECT")
        <4>1. Len(toBroker) \in Nat \ {0} /\ Head(toBroker) = toBroker[1]
          BY <1>1, LinkOfType, EmptySeq, LenProperties DEF LinkTyped
        <4>2. pc # "connack"
          BY DEF SessionOK
        <4>3. 1 \in 1..Len(toBroker)
          BY <4>1
        <4>. QED
          BY <4>1, <4>2, <4>3 DEF SessionOK
      <3>2. UNCHANGED toGateway
        BY <2>3, <3>1 DEF Broker
      <3>3. (NoPing' <=> NoPing) /\ (PingOut' <=> PingOut) /\ (PingBack' <=> PingBack)
        BY <1>1, <3>2 DEF NoPing, PingOut, PingBack
      <3>4. (Unasked => Unasked') /\ (AskedOnce => AskedOnce')
        BY <1>1, <2>3, PingsTail
      <3>. QED
        BY <1>1, <2>1, <3>3, <3>4 DEF Timely, AnswerInTime, ageVars
    <2>. QED
      BY <2>2, <2>3
  <1>. QED
    BY <1>3, <1>4 DEF Timely

\* loop(): an answer in the socket has been read before the keep-alive is over again.
LEMMA TimelyLoop ==
  ASSUME Typed, Timely, Loop
  PROVE  Timely'
  <1>1. pc = "loop" /\ pc' = "delay" /\ Late = ITER /\ Late' = 0 /\ UNCHANGED deadFor
    BY DEF Loop, Late
  <1>2. /\ inAge \in Nat /\ outAge \in Nat /\ deadFor \in Nat
        /\ pingOutstanding \in BOOLEAN
    BY AgesTyped, TimesTyped
  <1>3. DeadLinkNoticed'
    BY <1>1 DEF Timely, SilenceCounts, DeadLinkNoticed
  <1>4. link = "up" => deadFor' = 0
    BY <1>1 DEF Timely, SilenceCounts
  <1>5. CASE link \notin {"up", "dead"}
    <2>1. ~Connected
      BY <1>5 DEF Connected, Open
    <2>2. Notice
      BY <2>1 DEF Loop
    <2>3. link' \notin {"up", "dead"}
      BY <1>5, <2>2 DEF Notice, Close, Stop, linkVars
    <2>. QED
      BY <1>1, <2>3, TimelyClosed
  <1>6. CASE state # "CONNECTED"
    <2>1. ~Connected
      BY <1>6 DEF Connected
    <2>2. UNCHANGED <<state, linkVars>>
      BY <1>6, <2>1 DEF Loop, Notice
    <2>. QED
      BY <1>1, <1>3, <1>4, <1>6, <2>2 DEF Timely, AnswerInTime, SilenceCounts, linkVars
  <1>7. CASE Close("CONNECTION_TIMEOUT")
    <2>1. link' = "none"
      BY <1>7 DEF Close, Stop
    <2>. QED
      BY <1>1, <2>1, TimelyClosed
  <1>8. CASE /\ Connected /\ Silent /\ ~pingOutstanding
             /\ toBroker' = IF link = "up" THEN Append(toBroker, Control("PINGREQ")) ELSE toBroker
             /\ outAge' = 0 /\ away' = FALSE
             /\ ReadOne(0, TRUE)
             /\ UNCHANGED <<state, link, old, session>>
    <2>1. NoPing /\ (link = "up" => Unasked)
      <3>1. state = "CONNECTED" /\ link \in {"up", "dead"}
        BY <1>8 DEF Connected, Open
      <3>. QED
        BY <1>8, <3>1 DEF Timely, AnswerInTime, SilenceCounts, PingOut, PingBack
    <2>2. PingOut' /\ inAge' = 0
      BY <1>8, <2>1 DEF ReadOne, NoPing, PingOut
    <2>3. link = "up" => AskedOnce'
      BY <1>8, <2>1, PingsAppend, MessagesAre
    <2>4. AnswerInTime'
      <3>1. 0 <= 0 /\ 0 <= ANSWER
        BY TimesTyped
      <3>. QED
        BY <1>8, <2>2, <2>3, <3>1 DEF AnswerInTime
    <2>5. link = "dead" => /\ deadFor' <= 2 * ITER + KEEPALIVE + inAge'
                           /\ deadFor' <= 2 * (ITER + KEEPALIVE) + Late'
      <3> SUFFICES ASSUME link = "dead"
                   PROVE  /\ deadFor' <= 2 * ITER + KEEPALIVE + inAge'
                          /\ deadFor' <= 2 * (ITER + KEEPALIVE) + Late'
        OBVIOUS
      <3>1. deadFor <= ITER + KEEPALIVE + Late
        BY <1>8, <2>1 DEF Timely, SilenceCounts, NoPing, PingOut, PingBack, Connected
      <3>. QED
        BY <1>1, <1>2, <2>2, <3>1, TimesTyped
    <2>6. SilenceCounts'
      BY <1>1, <1>3, <1>4, <1>8, <2>2, <2>5 DEF SilenceCounts
    <2>. QED
      BY <2>4, <2>6 DEF Timely
  <1>9. CASE /\ Connected /\ ~Silent
             /\ ReadOne(inAge, pingOutstanding)
             /\ UNCHANGED <<state, link, toBroker, old, session, outAge, away>>
    <2>1. inAge <= KEEPALIVE
      BY <1>2, <1>9, TimesTyped DEF Silent
    <2>2. (Unasked' <=> Unasked) /\ (AskedOnce' <=> AskedOnce)
      BY <1>9 DEF Unasked, AskedOnce, Pings
    <2>3. CASE toGateway = <<>>
      <3>1. inAge' = inAge /\ pingOutstanding' = pingOutstanding /\ toGateway' = toGateway
        BY <1>9, <2>3 DEF ReadOne
      <3>2. ~PingBack /\ (NoPing' <=> NoPing) /\ (PingOut' <=> PingOut)
        BY <2>3, <3>1 DEF NoPing, PingOut, PingBack
      <3>3. AnswerInTime'
        BY <1>9, <2>2, <3>1, <3>2 DEF Timely, AnswerInTime
      <3>4. state = "CONNECTED" /\ link = "dead" =>
              \/ /\ NoPing
                 /\ deadFor <= ITER + inAge /\ deadFor <= ITER + KEEPALIVE + 0
              \/ /\ PingOut
                 /\ deadFor <= 2 * ITER + KEEPALIVE + inAge
                 /\ deadFor <= 2 * (ITER + KEEPALIVE) + 0
        <4>1. deadFor <= ITER + inAge => deadFor <= ITER + KEEPALIVE + 0
          BY <1>2, <2>1, TimesTyped
        <4>2. deadFor <= 2 * ITER + KEEPALIVE + inAge => deadFor <= 2 * (ITER + KEEPALIVE) + 0
          BY <1>2, <2>1, TimesTyped
        <4>. QED
          BY <3>2, <4>1, <4>2 DEF Timely, SilenceCounts
      <3>5. SilenceCounts'
        BY <1>1, <1>3, <1>4, <1>9, <3>1, <3>2, <3>4 DEF SilenceCounts
      <3>. QED
        BY <3>3, <3>5 DEF Timely
    <2>4. CASE toGateway # <<>>
      <3>1. state = "CONNECTED" /\ link \in {"up", "dead"}
        BY <1>9 DEF Connected, Open
      <3>2. PingBack /\ (link = "up" => Unasked) /\ (link = "dead" => deadFor <= Late)
        BY <2>4, <3>1 DEF Timely, AnswerInTime, SilenceCounts, NoPing, PingOut
      <3>3. inAge' = 0 /\ NoPing'
        <4>1. toGateway = <<Control("PINGRESP")>>
          BY <3>2 DEF PingBack
        <4>2. Head(toGateway) = Control("PINGRESP") /\ Tail(toGateway) = <<>>
          BY <4>1 DEF Control
        <4>. QED
          BY <1>9, <2>4, <4>2 DEF ReadOne, NoPing
      <3>4. AnswerInTime'
        BY <1>9, <2>2, <3>2, <3>3 DEF AnswerInTime
      <3>5. link = "dead" => deadFor <= ITER + 0 /\ deadFor <= ITER + KEEPALIVE + 0
        BY <1>1, <1>2, <3>2, TimesTyped
      <3>6. SilenceCounts'
        BY <1>1, <1>3, <1>4, <1>9, <3>3, <3>5 DEF SilenceCounts
      <3>. QED
        BY <3>4, <3>6 DEF Timely
    <2>. QED
      BY <2>3, <2>4
  <1>10. CASE ~Connected
    <2>1. state # "CONNECTED" \/ link \notin {"up", "dead"}
      BY <1>10 DEF Connected, Open
    <2>. QED
      BY <2>1, <1>5, <1>6
  <1>. QED
    BY <1>7, <1>8, <1>9, <1>10 DEF Loop

LEMMA TimelyInit == Init => Timely
  <1> SUFFICES ASSUME Init PROVE Timely
    OBVIOUS
  <1>1. deadFor = 0 /\ link = "none" /\ pc = "initWiFi" /\ state = "DISCONNECTED"
    BY DEF Init
  <1>2. DeadLinkNoticed
    BY <1>1, TimesTyped DEF DeadLinkNoticed
  <1>. QED
    BY <1>1, <1>2 DEF Timely, AnswerInTime, SilenceCounts

LEMMA TimelyGateway == Typed /\ SessionOK /\ Timely /\ GatewayLoop => Timely'
  <1> SUFFICES ASSUME Typed, SessionOK, Timely, GatewayLoop PROVE Timely'
    OBVIOUS
  <1> USE DEF ageVars, linkVars
  <1>1. CASE Reconnect \/ InitTry \/ Receive
    <2>1. /\ UNCHANGED <<state, pingOutstanding, linkVars, ageVars, away>>
          /\ pc' \notin {"delay", "connack"}
      BY <1>1 DEF Reconnect, InitTry, Receive
    <2>. QED
      BY <2>1, TimelyKept DEF Unasked, AskedOnce, Pings
  <1>2. CASE Session
    <2>1. /\ pc = "session" /\ pc' \in {"status", "connect"}
          /\ UNCHANGED <<pingOutstanding, ageVars, away>>
      BY <1>2 DEF Session
    <2>2. CASE UNCHANGED <<state, linkVars>>
      BY <2>1, <2>2, TimelyKept DEF Unasked, AskedOnce, Pings
    <2>3. CASE Notice
      BY <2>1, <2>3, TimelyNoticed
    <2>. QED
      BY <1>2, <2>2, <2>3 DEF Session
  <1>3. CASE Connect
    <2>1. /\ pc' = "connack" /\ state' # "CONNECTED" /\ link' = "up"
          /\ inAge' = 0 /\ deadFor' = 0
      BY <1>3 DEF Connect, SessionOK
    <2>2. 0 <= SOCKET_TIMEOUT /\ 0 <= 2 * (KEEPALIVE + ITER) + ITER
      BY TimesTyped
    <2>. QED
      BY <2>1, <2>2 DEF Timely, AnswerInTime, SilenceCounts, DeadLinkNoticed
  <1>4. CASE ConnectFails
    <2>1. link' \notin {"up", "dead"} /\ pc' = "delay" /\ UNCHANGED deadFor
      BY <1>4 DEF ConnectFails, SessionOK, Open
    <2>. QED
      BY <2>1, TimelyClosed
  <1>5. CASE SendMac \/ SendStatus
    <2>1. /\ pc \in {"mac", "status"} /\ pc' \in {"status", "receive"}
          /\ UNCHANGED <<pingOutstanding, inAge, deadFor, away>>
          /\ Send(Publish(0, 0)) \/ UNCHANGED <<state, linkVars, outAge>>
      BY <1>5 DEF SendMac, SendStatus
    <2>2. Publish(0, 0) # Control("PINGREQ")
      BY DEF Publish, Control
    <2>3. CASE Send(Publish(0, 0))
      BY <2>1, <2>2, <2>3, TimelySent, MessagesAre
    <2>4. CASE UNCHANGED <<state, linkVars, outAge>>
      BY <2>1, <2>4, TimelyKept DEF Unasked, AskedOnce, Pings
    <2>. QED
      BY <2>1, <2>3, <2>4
  <1>6. CASE Forward
    <2>1. /\ pc = "forward" /\ packet # 0 /\ param <= PARAMS
          /\ packet \in 0..MaxPackets /\ param \in 1..(PARAMS + 1)
      BY <1>6 DEF Forward, Typed, GatewayTypeOK, InForward
    <2>2. Publish(param, packet) \in Messages
      <3>1. packet \in 1..MaxPackets /\ param \in 1..PARAMS
        BY <2>1, BoundsTyped
      <3>. QED
        BY <3>1, MessagesAre
    <2>3. Publish(param, packet) # Control("PINGREQ")
      BY DEF Publish, Control
    <2>4. /\ pc' \notin {"delay", "connack"} /\ Send(Publish(param, packet))
          /\ UNCHANGED <<pingOutstanding, inAge, deadFor, away>>
      BY <1>6 DEF Forward, NextParam
    <2>. QED
      BY <2>1, <2>2, <2>3, <2>4, TimelySent
  <1>. QED
    BY <1>1, <1>2, <1>3, <1>4, <1>5, <1>6, TimelyDelay, TimelyWait, TimelyConnack, TimelyLoop
       DEF GatewayLoop

LEMMA TimelyEnvironment == Typed /\ SessionOK /\ Timely /\ Environment => Timely'
  <1> SUFFICES ASSUME Typed, SessionOK, Timely, Environment PROVE Timely'
    OBVIOUS
  <1> USE DEF ageVars, linkVars
  <1>1. CASE Arrive \/ Associate \/ LoseWiFi \/ OldArrives
    <2>1. UNCHANGED <<pc, state, pingOutstanding, link, toBroker, toGateway, ageVars, away>>
      BY <1>1 DEF Arrive, Associate, LoseWiFi, OldArrives
    <2>. QED
      BY <2>1, TimelyKept DEF Unasked, AskedOnce, Pings
  <1>2. CASE Break
    <2>1. /\ link = "up" /\ link' \in {"dead", "reset"}
          /\ toGateway' = toGateway \/ link' # "dead"
          /\ UNCHANGED <<pc, state, pingOutstanding, ageVars, away>>
      BY <1>2 DEF Break
    <2>2. deadFor' = 0 /\ DeadLinkNoticed' /\ inAge' = inAge
      BY <2>1 DEF Timely, SilenceCounts, DeadLinkNoticed
    <2>3. ASSUME link' = "dead", state = "CONNECTED"
          PROVE  NoPing' \/ PingOut' \/ PingBack'
      BY <2>1, <2>3 DEF Timely, AnswerInTime, NoPing, PingOut, PingBack
    <2>4. ASSUME pc = "connack"
          PROVE  toGateway \in {<<>>, <<Control("CONNACK")>>, <<Control("REFUSED")>>}
      BY <2>1, <2>4 DEF SessionOK
    <2>5. /\ 0 <= ITER + inAge /\ 0 <= ITER + KEEPALIVE + Late' /\ 0 <= inAge
          /\ 0 <= 2 * ITER + KEEPALIVE + inAge /\ 0 <= 2 * (ITER + KEEPALIVE) + Late'
          /\ 0 <= Late'
      <3>1. inAge \in Nat /\ Late' \in Nat
        BY AgesTyped, TimesTyped DEF Late
      <3>2. ITER + KEEPALIVE \in Nat /\ ITER \in Nat
        BY TimesTyped
      <3>3. 0 <= ITER + inAge /\ 0 <= 2 * ITER + KEEPALIVE + inAge
        BY <3>1, <3>2, SumsTyped, NatSum
      <3>4. 0 <= ITER + KEEPALIVE + Late' /\ 0 <= 2 * (ITER + KEEPALIVE) + Late'
        BY <3>1, <3>2, SumsTyped, NatSum
      <3>. QED
        BY <3>1, <3>3, <3>4, NatSum
    <2>6. pc = "connack" => inAge <= SOCKET_TIMEOUT
      BY DEF Timely, SilenceCounts
    <2>7. SilenceCounts'
      BY <2>1, <2>2, <2>3, <2>4, <2>5, <2>6 DEF SilenceCounts
    <2>. QED
      BY <2>1, <2>7 DEF Timely, AnswerInTime
  <1>3. CASE Discover
    <2>1. link' = "reset" /\ UNCHANGED <<pc, deadFor, inAge>>
      BY <1>3 DEF Discover
    <2>2. pc = "connack" => inAge <= SOCKET_TIMEOUT
      BY DEF Timely, SilenceCounts
    <2>. QED
      BY <2>1, <2>2 DEF Timely, AnswerInTime, SilenceCounts, DeadLinkNoticed
  <1>. QED
    BY <1>1, <1>2, <1>3, TimelyBroker DEF Environment

LEMMA TimelyStep == Typed /\ SessionOK /\ Timely /\ [Next]_gatewayVars => Timely'
  <1> SUFFICES ASSUME Typed, SessionOK, Timely, [Next]_gatewayVars PROVE Timely'
    OBVIOUS
  <1>1. CASE UNCHANGED gatewayVars
    <2>1. UNCHANGED <<pc, state, pingOutstanding, link, toBroker, toGateway, ageVars, away>>
      BY <1>1 DEF gatewayVars, linkVars
    <2>. QED
      BY <2>1, TimelyKept DEF ageVars, Unasked, AskedOnce, Pings
  <1>. QED
    BY <1>1, TimelyGateway, TimelyEnvironment DEF Next

\* A ping that a good link answers is read before the next test of the keep-alive.
LEMMA NotSilentYet ==
  ASSUME Typed, SessionOK, Timely, [Next]_gatewayVars,
         state = "CONNECTED", state' = "CONNECTION_TIMEOUT"
  PROVE  link # "up" \/ away
  <1>1. \/ Loop /\ Silent /\ pingOutstanding
        \/ AwaitConnack
    <2>1. Next
      BY DEF gatewayVars
    <2>2. CASE GatewayLoop
      BY <2>2 DEF GatewayLoop, Delay, Reconnect, InitWait, InitTry, Session, Connect,
           ConnectFails, SendMac, SendStatus, Receive, Forward, Loop, Send, Notice, Close
    <2>3. CASE Environment
      BY <2>3 DEF Environment, Arrive, Associate, LoseWiFi, Break, Discover, Broker, OldArrives
    <2>. QED
      BY <2>1, <2>2, <2>3 DEF Next
  <1>2. CASE AwaitConnack
    BY <1>2 DEF AwaitConnack, SessionOK
  <1>3. CASE Loop /\ Silent /\ pingOutstanding
    <2> SUFFICES ASSUME link = "up", ~away PROVE FALSE
      OBVIOUS
    <2>1. Late = ITER /\ inAge \in Nat /\ outAge \in Nat
      BY <1>3, AgesTyped, TimesTyped DEF Loop, Late
    <2>2. outAge <= inAge /\ (inAge <= ANSWER \/ inAge <= ANSWER + Late)
      BY <1>3 DEF Timely, AnswerInTime, NoPing
    <2>. QED
      BY <1>3, <2>1, <2>2, TimesTyped DEF Silent
  <1>. QED
    BY <1>1, <1>2, <1>3

LEMMA TimelyInvariant == Spec => []Timely
  BY SessionInvariant, TimelyInit, TimelyStep, PTL DEF Spec

\* A dead link that looks open is given up after two silent periods, though the
\* gateway goes on publishing into it.
THEOREM DeadLinkIsNoticed == Spec => []DeadLinkNoticed
  <1>1. Timely => DeadLinkNoticed
    BY DEF Timely, SilenceCounts
  <1>. QED
    BY <1>1, TimelyInvariant, PTL

\* PubSubClient tests the keep-alive before it reads, and all the same never gives up
\* a session whose broker answers in time.
THEOREM SilenceIsReal == Spec => NoFalseTimeout
  <1>1. Typed /\ SessionOK /\ Timely /\ [Next]_gatewayVars =>
          [state = "CONNECTED" /\ state' = "CONNECTION_TIMEOUT" => link # "up" \/ away]_gatewayVars
    BY NotSilentYet
  <1>. QED
    BY <1>1, SessionInvariant, TimelyInvariant, PTL DEF Spec, NoFalseTimeout

-----------------------------------------------------------------------------
(* From the air to the server: a lossy channel.                            *)

Kept == UNCHANGED <<packet, onAir, queue>> /\ Current' \subseteq Current

\* What a step does to what is on its way.
LineStep ==
  \/ Kept /\ UNCHANGED <<Line, delivered>>
  \/ Kept /\ UNCHANGED delivered /\ \E m \in Messages : m[2] # 1 /\ Line' = Append(Line, m)
  \/ /\ Kept /\ UNCHANGED delivered
     /\ packet \in 1..MaxPackets /\ Current = {packet} /\ Current' = {}
     /\ Line' = Append(Line, Publish(1, packet))
  \/ /\ Kept /\ UNCHANGED Current
     /\ Line # <<>> /\ Line' = Tail(Line) /\ Deliver(Head(Line))
  \/ Kept /\ Line' = <<>> /\ UNCHANGED delivered
  \/ Receive /\ queue # <<>> /\ UNCHANGED <<Line, delivered>>
  \/ Arrive /\ UNCHANGED <<Line, delivered>>

LEMMA KeptBy ==
  ASSUME UNCHANGED <<radioVars, forwardVars>>, pc' = "forward" => pc = "forward"
  PROVE  Kept
  BY DEF Kept, Current, radioVars, forwardVars

LEMMA LineForward ==
  ASSUME Typed, SessionOK, Forward
  PROVE  LineStep
  <1>1. /\ pc = "forward" /\ packet \in 1..MaxPackets /\ param \in 1..PARAMS
        /\ param' = param + 1
        /\ UNCHANGED <<packet, onAir, queue, delivered>>
        /\ Send(Publish(param, packet))
    <2>1. /\ pc = "forward" /\ packet # 0 /\ param <= PARAMS
          /\ packet \in 0..MaxPackets /\ param \in 1..(PARAMS + 1)
      BY DEF Forward, Typed, GatewayTypeOK, InForward
    <2>2. packet \in 1..MaxPackets /\ param \in 1..PARAMS
      BY <2>1, BoundsTyped
    <2>. QED
      BY <2>1, <2>2 DEF Forward, NextParam, radioVars, serverVars
  <1>2. param' # 1
    BY <1>1
  <1>3. Current' = {} /\ Kept
    BY <1>1, <1>2 DEF Kept, Current
  <1>4. PICK m \in Messages : m = Publish(param, packet)
    BY <1>1, MessagesAre
  <1>5. UNCHANGED Line \/ Line' = Append(Line, m)
    BY <1>1, <1>4, SendGrows
  <1>6. CASE UNCHANGED Line
    BY <1>1, <1>3, <1>6 DEF LineStep
  <1>7. CASE Line' = Append(Line, m) /\ param # 1
    <2>1. m[2] # 1
      BY <1>4, <1>7, Publishes
    <2>. QED
      BY <1>1, <1>3, <1>7, <2>1 DEF LineStep
  <1>8. CASE Line' = Append(Line, m) /\ param = 1
    <2>1. Current = {packet} /\ m = Publish(1, packet)
      BY <1>1, <1>4, <1>8 DEF Current
    <2>. QED
      BY <1>1, <1>3, <1>8, <2>1 DEF LineStep
  <1>. QED
    BY <1>5, <1>6, <1>7, <1>8

LEMMA LineGateway ==
  ASSUME Typed, SessionOK, GatewayLoop
  PROVE  LineStep
  <1> USE DEF serverVars
  <1>1. CASE Delay \/ Reconnect \/ InitWait \/ InitTry \/ ConnectFails
    <2>1. UNCHANGED <<linkVars, radioVars, forwardVars, delivered>> /\ pc' # "forward"
      BY <1>1 DEF Delay, Reconnect, InitWait, InitTry, ConnectFails
    <2>. QED
      BY <2>1, KeptBy DEF linkVars, Line, LineStep
  <1>2. CASE Session
    <2>1. UNCHANGED <<radioVars, forwardVars, delivered>> /\ pc' # "forward"
      BY <1>2 DEF Session
    <2>2. UNCHANGED Line
      BY <1>2, NoticeKeepsLine DEF Session, linkVars, Line
    <2>. QED
      BY <2>1, <2>2, KeptBy DEF LineStep
  <1>3. CASE Connect
    <2>1. UNCHANGED <<radioVars, forwardVars, delivered>> /\ pc' # "forward"
      BY <1>3 DEF Connect
    <2>2. ~Open /\ session' = "new" /\ old' = old
      BY <1>3 DEF Connect, SessionOK
    <2>3. UNCHANGED Line
      BY <2>2 DEF Line, Open
    <2>. QED
      BY <2>1, <2>3, KeptBy DEF LineStep
  <1>4. CASE AwaitConnack
    <2>1. UNCHANGED <<radioVars, forwardVars, delivered>> /\ pc' # "forward"
      BY <1>4 DEF AwaitConnack, Accepted
    <2>2. \/ UNCHANGED <<link, toBroker, old, session>>
          \/ Stop
      BY <1>4 DEF AwaitConnack, Close, linkVars
    <2>3. UNCHANGED Line
      BY <2>2, StopKeepsLine DEF Line
    <2>. QED
      BY <2>1, <2>3, KeptBy DEF LineStep
  <1>5. CASE SendMac \/ SendStatus
    <2>1. /\ UNCHANGED <<radioVars, forwardVars, delivered>> /\ pc' # "forward"
          /\ pc # "connack"
          /\ Send(Publish(0, 0)) \/ UNCHANGED linkVars
      BY <1>5 DEF SendMac, SendStatus
    <2>2. UNCHANGED Line \/ Line' = Append(Line, Publish(0, 0))
      <3>1. CASE Send(Publish(0, 0))
        BY <2>1, <3>1, SendGrows, MessagesAre
      <3>2. CASE UNCHANGED linkVars
        BY <3>2 DEF linkVars, Line
      <3>. QED
        BY <2>1, <3>1, <3>2
    <2>3. Publish(0, 0)[2] # 1 /\ Kept
      BY <2>1, Publishes, KeptBy
    <2>. QED
      BY <2>1, <2>2, <2>3, MessagesAre DEF LineStep
  <1>6. CASE Receive
    <2>1. UNCHANGED <<Line, delivered>>
      BY <1>6 DEF Receive, linkVars, Line
    <2>2. CASE queue = <<>>
      <3>1. UNCHANGED <<radioVars, forwardVars>> /\ pc' # "forward"
        BY <1>6, <2>2 DEF Receive, radioVars, forwardVars
      <3>. QED
        BY <2>1, <3>1, KeptBy DEF LineStep
    <2>. QED
      BY <1>6, <2>1, <2>2 DEF LineStep
  <1>7. CASE Forward
    BY <1>7, LineForward
  <1>8. CASE Loop
    <2>1. UNCHANGED <<radioVars, forwardVars, delivered>> /\ pc' # "forward"
      BY <1>8 DEF Loop
    <2>2. UNCHANGED Line \/ Line' = Append(Line, Control("PINGREQ"))
      <3>1. CASE Notice
        BY <3>1, NoticeKeepsLine
      <3>2. CASE Close("CONNECTION_TIMEOUT")
        BY <3>2, StopKeepsLine DEF Close
      <3>3. CASE /\ Connected /\ UNCHANGED <<state, link, old, session>>
                 /\ toBroker' = IF link = "up" THEN Append(toBroker, Control("PINGREQ"))
                                ELSE toBroker
        BY <3>3, WriteGrows, MessagesAre DEF Connected
      <3>4. CASE UNCHANGED <<state, link, toBroker, old, session>>
        BY <3>4 DEF Line
      <3>. QED
        BY <1>8, <3>1, <3>2, <3>3, <3>4 DEF Loop
    <2>3. Control("PINGREQ")[2] # 1 /\ Kept
      BY <2>1, KeptBy DEF Control
    <2>. QED
      BY <2>1, <2>2, <2>3, MessagesAre DEF LineStep
  <1>. QED
    BY <1>1, <1>2, <1>3, <1>4, <1>5, <1>6, <1>7, <1>8 DEF GatewayLoop

LEMMA LineEnvironment ==
  ASSUME Typed, SessionOK, Environment
  PROVE  LineStep
  <1> USE DEF serverVars
  <1>1. CASE Arrive
    BY <1>1 DEF Arrive, linkVars, Line, LineStep
  <1>2. CASE Associate \/ LoseWiFi
    <2>1. UNCHANGED <<pc, linkVars, radioVars, forwardVars, delivered>>
      BY <1>2 DEF Associate, LoseWiFi
    <2>. QED
      BY <2>1, KeptBy DEF linkVars, Line, LineStep
  <1>3. CASE Break
    <2>1. /\ UNCHANGED <<pc, old, radioVars, forwardVars, delivered>>
          /\ link = "up" /\ link' # "up"
      BY <1>3 DEF Break
    <2>2. UNCHANGED Line \/ Line' = <<>>
      BY <2>1 DEF Line, SessionOK
    <2>. QED
      BY <2>1, <2>2, KeptBy DEF LineStep
  <1>4. CASE Discover
    <2>1. /\ UNCHANGED <<pc, old, radioVars, forwardVars, delivered>>
          /\ link = "dead" /\ link' = "reset"
      BY <1>4 DEF Discover
    <2>. QED
      BY <2>1, KeptBy DEF Line, LineStep
  <1>5. CASE Broker
    <2>1. /\ link = "up" /\ toBroker # <<>> /\ toBroker' = Tail(toBroker)
          /\ UNCHANGED <<pc, link, radioVars, forwardVars>> /\ Kept /\ UNCHANGED Current
      BY <1>5, KeptBy DEF Broker, Current, forwardVars
    <2>2. CASE pc = "connack"
      <3>1. session = "new" /\ Head(toBroker) = Control("CONNECT") /\ toBroker' = <<>>
        BY <2>1, <2>2 DEF SessionOK
      <3>2. Control("CONNECT") # Control("PINGREQ") /\ Control("CONNECT")[1] # "PUBLISH"
        BY DEF Control
      <3>3. /\ UNCHANGED delivered
            /\ \/ session' = "open"
               \/ session' = "refused" /\ old' = old
        BY <1>5, <3>1, <3>2 DEF Broker
      <3>4. UNCHANGED Line \/ Line' = <<>>
        BY <2>1, <3>1, <3>3 DEF Line
      <3>. QED
        BY <2>1, <3>3, <3>4 DEF LineStep
    <2>3. CASE pc # "connack"
      <3>1. session = "open" /\ Line = toBroker
        BY <2>1, <2>3 DEF SessionOK, Line
      <3>2. Head(toBroker) # Control("CONNECT")
        <4>1. toBroker \in Seq(Messages)
          BY LinkOfType DEF LinkTyped
        <4>2. 1 \in 1..Len(toBroker) /\ Head(toBroker) = toBroker[1]
          BY <2>1, <4>1, EmptySeq, LenProperties
        <4>. QED
          BY <2>3, <4>2 DEF SessionOK
      <3>3. session' = "open" /\ Deliver(Head(toBroker))
        <4>1. Control("PINGREQ")[2] = 0
          BY DEF Control
        <4>. QED
          BY <1>5, <3>1, <3>2, <4>1 DEF Broker, Deliver
      <3>4. Line' = toBroker'
        BY <2>1, <3>3 DEF Line
      <3>. QED
        BY <2>1, <3>1, <3>3, <3>4 DEF LineStep
    <2>. QED
      BY <2>2, <2>3
  <1>6. CASE OldArrives
    <2>1. /\ old # <<>> /\ UNCHANGED <<pc, link, session, radioVars, forwardVars>> /\ Kept
          /\ UNCHANGED Current
          /\ \/ old' = Tail(old) /\ Deliver(Head(old))
             \/ old' = <<>> /\ UNCHANGED delivered
      BY <1>6, KeptBy DEF OldArrives, Current, forwardVars
    <2>2. Line = old /\ Line' = old'
      BY <2>1 DEF Line, SessionOK
    <2>. QED
      BY <2>1, <2>2 DEF LineStep
  <1>. QED
    BY <1>1, <1>2, <1>3, <1>4, <1>5, <1>6 DEF Environment

\* The packets whose deviceName is under way.
LineNames == {Line[i][3] : i \in {j \in 1..Len(Line) : Line[j][2] = 1}}
Pending   == LineNames \union Queued \union Current

ChannelStep ==
  \/ /\ onAir' = onAir + 1 /\ Pending' \in {Pending, Pending \union {onAir + 1}}
     /\ UNCHANGED delivered
  \/ Pending' \subseteq Pending /\ UNCHANGED onAir /\ delivered'[1] = delivered[1]
  \/ \E n \in Pending :
       /\ \A m \in Pending : n <= m
       /\ Pending' = Pending \ {n}
       /\ UNCHANGED onAir /\ delivered'[1] = Append(delivered[1], n)

LEMMA NamesOf ==
  ASSUME NEW s \in Seq(Messages)
  PROVE  Names(s) = {s[i][3] : i \in {j \in 1..Len(s) : s[j][2] = 1}}
  <1>1. \A j \in 1..Len(s) : s[j][2] = 1 => s[j][1] = "PUBLISH"
    <2> SUFFICES ASSUME NEW j \in 1..Len(s), s[j][2] = 1 PROVE s[j][1] = "PUBLISH"
      OBVIOUS
    <2>1. s[j] \in Messages
      BY ElementOfSeq
    <2>2. s[j] = Publish(s[j][2], s[j][3])
      BY <2>1, MessageHas
    <2>. QED
      BY <2>2, Publishes
  <1>. QED
    BY <1>1 DEF Names

LEMMA PendingIs ==
  ASSUME Typed, SessionOK
  PROVE  Names(toBroker) \union Names(old) \union Queued \union Current = Pending
  <1>1. toBroker \in Seq(Messages) /\ old \in Seq(Messages)
    BY LinkOfType DEF LinkTyped
  <1>2. \A s \in Seq(Messages) : s = <<>> => Names(s) = {}
    <2> SUFFICES ASSUME NEW s \in Seq(Messages), s = <<>> PROVE Names(s) = {}
      OBVIOUS
    <2>1. 1..Len(s) = {}
      BY EmptySeq
    <2>. QED
      BY <2>1, NamesOf
  <1>3. CASE link = "up" /\ session = "open"
    <2>1. Names(old) = {}
      BY <1>1, <1>2, <1>3 DEF SessionOK
    <2>2. Names(toBroker) = LineNames
      BY <1>1, <1>3, NamesOf DEF Line, LineNames
    <2>. QED
      BY <2>1, <2>2 DEF Pending
  <1>4. CASE ~(link = "up" /\ session = "open")
    <2>1. Names(toBroker) = {}
      <3>1. CASE toBroker = <<>>
        BY <1>1, <1>2, <3>1
      <3>2. CASE toBroker = <<Control("CONNECT")>>
        <4>1. Len(toBroker) = 1 /\ toBroker[1] = Control("CONNECT")
          BY <3>2
        <4>2. Control("CONNECT")[2] # 1
          BY DEF Control
        <4>3. \A j \in 1..Len(toBroker) : toBroker[j][2] # 1
          BY <4>1, <4>2
        <4>. QED
          BY <1>1, <4>3, NamesOf
      <3>. QED
        BY <1>4, <3>1, <3>2 DEF SessionOK
    <2>2. Names(old) = LineNames
      BY <1>1, <1>4, NamesOf DEF Line, LineNames
    <2>. QED
      BY <2>1, <2>2 DEF Pending
  <1>. QED
    BY <1>3, <1>4

LEMMA QueuedKept == Kept => UNCHANGED <<onAir, Queued>>
  BY DEF Kept, Queued

\* Names are neither added nor taken.
LEMMA OrderQuiet ==
  ASSUME NameOnce, Kept, Line' = Line \/ Line' = <<>>, UNCHANGED delivered
  PROVE  NameOnce' /\ ChannelStep
  <1>1. UNCHANGED <<onAir, Queued>> /\ Current' \subseteq Current
    BY QueuedKept DEF Kept
  <1>2. CASE Line' = Line
    BY <1>1, <1>2 DEF NameOnce, ChannelStep, Pending, LineNames
  <1>3. CASE Line' = <<>>
    <2>1. 1..Len(Line') = {}
      BY <1>3, EmptySeq
    <2>2. LineNames' = {}
      BY <2>1 DEF LineNames
    <2>. QED
      BY <1>1, <2>1, <2>2 DEF NameOnce, ChannelStep, Pending
  <1>. QED
    BY <1>2, <1>3

\* A message is sent: a deviceName only of the packet whose turn it is.
LEMMA OrderSent ==
  ASSUME Typed, NameOnce, Kept, UNCHANGED delivered, NEW m \in Messages,
         Line' = Append(Line, m),
         m[2] # 1 \/ (m[2] = 1 /\ Current = {m[3]} /\ Current' = {})
  PROVE  NameOnce' /\ ChannelStep
  <1>1. UNCHANGED <<onAir, Queued>> /\ Current' \subseteq Current
    BY QueuedKept DEF Kept
  <1>2. /\ Len(Line) \in Nat /\ Len(Line') = Len(Line) + 1 /\ Line'[Len(Line) + 1] = m
        /\ \A i \in 1..Len(Line) : Line'[i] = Line[i]
    BY LineTyped, AppendProperties
  <1>3. \A i \in 1..Len(Line') : i \in 1..Len(Line) \/ i = Len(Line) + 1
    BY <1>2
  <1>4. \A i, j \in 1..Len(Line') : i < j => i \in 1..Len(Line)
    BY <1>2
  <1>5. CASE m[2] # 1
    <2>1. \A i \in 1..Len(Line') : Line'[i][2] = 1 => i \in 1..Len(Line) /\ Line'[i] = Line[i]
      BY <1>2, <1>3, <1>5
    <2>2. NameOnce'
      BY <1>1, <2>1 DEF NameOnce
    <2>3. LineNames' \subseteq LineNames
      BY <2>1 DEF LineNames
    <2>. QED
      BY <1>1, <2>2, <2>3 DEF ChannelStep, Pending
  <1>6. CASE m[2] = 1 /\ Current = {m[3]} /\ Current' = {}
    <2>1. \A i, j \in 1..Len(Line') :
            i < j /\ Line'[i][2] = 1 /\ Line'[j][2] = 1 => Line'[i][3] < Line'[j][3]
      BY <1>2, <1>3, <1>4, <1>6 DEF NameOnce
    <2>2. NameOnce'
      BY <1>6, <2>1 DEF NameOnce
    <2>3. LineNames' \subseteq LineNames \union {m[3]}
      BY <1>2, <1>3 DEF LineNames
    <2>. QED
      BY <1>1, <1>6, <2>2, <2>3 DEF ChannelStep, Pending
  <1>. QED
    BY <1>5, <1>6

\* The broker takes the oldest: no other packet under way is as old.
LEMMA OrderTaken ==
  ASSUME Typed, Leads, NameOnce, Kept, UNCHANGED Current, Line # <<>>, Line' = Tail(Line), Deliver(Head(Line))
  PROVE  NameOnce' /\ ChannelStep
  <1>1. UNCHANGED <<onAir, Queued, Current>>
    BY QueuedKept
  <1>2. /\ Line \in Seq(Messages) /\ Len(Line) \in Nat \ {0}
        /\ Head(Line) = Line[1] /\ Head(Line) \in Messages /\ Len(Line') = Len(Line) - 1
        /\ \A i \in 1..Len(Line') : Line'[i] = Line[i + 1]
    BY LineTyped, EmptySeq, HeadTailProperties
  <1>3. PICK h \in Messages : h = Head(Line) /\ h = Line[1]
    BY <1>2
  <1>4. /\ \A i \in 1..Len(Line') : /\ i \in Nat /\ i + 1 \in 1..Len(Line) /\ 1 < i + 1
                                    /\ Line'[i] = Line[i + 1]
        /\ \A i \in 1..Len(Line) : i = 1 \/ (i - 1 \in 1..Len(Line') /\ (i - 1) + 1 = i /\ 1 < i)
        /\ 1 \in 1..Len(Line)
    BY <1>2
  <1>5. NameOnce'
    <2>1. \A i, j \in 1..Len(Line') : i < j => i + 1 < j + 1
      BY <1>4
    <2>. QED
      BY <1>1, <1>4, <2>1 DEF NameOnce
  <1>6. delivered \in [1..PARAMS -> Seq(1..MaxPackets)] /\ 1 \in 1..PARAMS
    BY BoundsTyped DEF Typed, GatewayTypeOK
  <1>7. CASE h[2] # 1
    <2>1. delivered'[1] = delivered[1]
      BY <1>3, <1>6, <1>7 DEF Deliver
    <2>2. LineNames' \subseteq LineNames
      BY <1>4 DEF LineNames
    <2>. QED
      BY <1>1, <1>5, <2>1, <2>2 DEF ChannelStep, Pending
  <1>8. CASE h[2] = 1
    <2>1. delivered'[1] = Append(delivered[1], h[3])
      BY <1>3, <1>6, <1>8 DEF Deliver
    <2>2. h[3] \in Nat /\ packet \in Nat /\ h[3] <= packet
      <3>1. packet \in Nat
        BY BoundsTyped DEF Typed, GatewayTypeOK
      <3>2. h[3] <= packet
        BY <1>3, <1>4, <1>8 DEF Leads, LineInOrder
      <3>. QED
        BY <3>1, <3>2, MessageHas, BoundsTyped
    <2>3. \A i \in 1..Len(Line) : i # 1 /\ Line[i][2] = 1 => h[3] < Line[i][3]
      BY <1>3, <1>4, <1>8 DEF NameOnce
    <2>4. \A n \in Queued : n \in Nat /\ h[3] < n
      <3>1. queue \in Seq(1..MaxPackets)
        BY DEF Typed, GatewayTypeOK
      <3>2. \A i \in 1..Len(queue) : queue[i] \in Nat /\ packet < queue[i]
        BY <3>1, ElementOfSeq, BoundsTyped DEF Leads, PacketsOK
      <3>3. \A i \in 1..Len(queue) : queue[i] \in Nat /\ h[3] < queue[i]
        BY <2>2, <3>2
      <3>. QED
        BY <3>3 DEF Queued
    <2>5. \A n \in Current : n \in Nat /\ h[3] < n
      <3>1. \A n \in Current : n = packet
        BY DEF Current
      <3>. QED
        BY <1>3, <1>4, <1>8, <2>2, <3>1 DEF NameOnce
    <2>6. h[3] \in LineNames /\ \A n \in LineNames : n \in Nat /\ (n = h[3] \/ h[3] < n)
      <3>1. \A i \in 1..Len(Line) : Line[i][3] \in Nat
        BY LineHas
      <3>. QED
        BY <1>3, <1>4, <1>8, <2>3, <3>1 DEF LineNames
    <2>7. h[3] \in Pending /\ \A n \in Pending : h[3] <= n
      BY <2>2, <2>4, <2>5, <2>6 DEF Pending
    <2>8. \A n \in LineNames' : n \in LineNames /\ h[3] < n /\ n \in Nat
      <3>1. \A i \in 1..Len(Line') : /\ i + 1 \in 1..Len(Line) /\ i + 1 # 1
                                     /\ Line'[i] = Line[i + 1]
        BY <1>4
      <3>2. \A i \in 1..Len(Line) : Line[i][3] \in Nat
        BY LineHas
      <3>. QED
        BY <2>3, <3>1, <3>2 DEF LineNames
    <2>9. LineNames \ {h[3]} \subseteq LineNames'
      <3>1. \A i \in 1..Len(Line) : i # 1 => i - 1 \in 1..Len(Line') /\ Line'[i - 1] = Line[i]
        BY <1>4
      <3>. QED
        BY <1>3, <3>1 DEF LineNames
    <2>10. LineNames' = LineNames \ {h[3]}
      BY <2>2, <2>8, <2>9
    <2>11. h[3] \notin Queued /\ h[3] \notin Current
      BY <2>2, <2>4, <2>5
    <2>12. Pending' = Pending \ {h[3]}
      BY <1>1, <2>10, <2>11 DEF Pending
    <2>. QED
      BY <1>1, <1>5, <2>1, <2>7, <2>12 DEF ChannelStep
  <1>. QED
    BY <1>7, <1>8

\* A packet is taken from the queue, and is the one whose turn it is.
LEMMA OrderReceive ==
  ASSUME Typed, Leads, NameOnce, Receive, queue # <<>>, UNCHANGED <<Line, delivered>>
  PROVE  NameOnce' /\ ChannelStep
  <1>1. /\ pc = "receive" /\ pc' = "forward" /\ param' = 1 /\ UNCHANGED onAir
        /\ packet' = Head(queue) /\ queue' = Tail(queue)
    BY DEF Receive
  <1>2. Current' = {packet'} /\ Current = {}
    BY <1>1 DEF Current
  <1>3. queue \in Seq(1..MaxPackets) /\ packet \in Nat /\ packet' \in Nat
    <2>1. queue \in Seq(1..MaxPackets) /\ packet \in 0..MaxPackets
      BY DEF Typed, GatewayTypeOK
    <2>. QED
      BY <1>1, <2>1, TailTyped, BoundsTyped
  <1>4. /\ 1 \in 1..Len(queue) /\ packet' = queue[1]
        /\ \A i \in 1..Len(queue') : i + 1 \in 1..Len(queue) /\ queue'[i] = queue[i + 1]
    <2>1. Len(queue) \in Nat \ {0} /\ Head(queue) = queue[1]
      BY <1>3, EmptySeq, LenProperties
    <2>2. /\ Len(queue') = Len(queue) - 1
          /\ \A i \in 1..Len(queue') : queue'[i] = queue[i + 1]
      BY <1>1, <1>3, HeadTailProperties
    <2>. QED
      BY <1>1, <2>1, <2>2
  <1>5. NameOnce'
    <2>1. packet < packet'
      BY <1>4 DEF Leads, PacketsOK
    <2>2. \A i \in 1..Len(Line) : Line[i][2] = 1 => Line[i][3] < packet'
      <3>1. \A i \in 1..Len(Line) : Line[i][3] \in Nat
        BY LineHas
      <3>2. \A i \in 1..Len(Line) : Line[i][2] = 1 => Line[i][3] <= packet
        BY DEF Leads, LineInOrder
      <3>. QED
        BY <1>3, <2>1, <3>1, <3>2
    <2>. QED
      BY <1>2, <2>2 DEF NameOnce
  <1>6. Queued' \subseteq Queued /\ Current' \subseteq Queued
    BY <1>2, <1>4 DEF Queued
  <1>7. LineNames' = LineNames
    BY DEF LineNames
  <1>. QED
    BY <1>1, <1>5, <1>6, <1>7 DEF ChannelStep, Pending

\* A packet comes from the air.
LEMMA OrderArrive ==
  ASSUME Typed, Typed', NameOnce, Arrive, UNCHANGED <<Line, delivered>>
  PROVE  NameOnce' /\ ChannelStep
  <1>1. /\ onAir' = onAir + 1 /\ UNCHANGED <<pc, packet, param>>
        /\ queue' = queue \/ queue' = Append(queue, onAir + 1)
    BY DEF Arrive, forwardVars
  <1>2. UNCHANGED <<Current, LineNames>>
    BY <1>1 DEF Current, LineNames
  <1>3. Queued' = Queued \/ Queued' = Queued \union {onAir + 1}
    <2>1. CASE queue' = Append(queue, onAir + 1)
      <3>1. queue \in Seq(1..MaxPackets) /\ onAir + 1 \in 1..MaxPackets
        <4>1. onAir \in 0..MaxPackets /\ onAir' \in 0..MaxPackets
          BY DEF Typed, GatewayTypeOK
        <4>2. queue \in Seq(1..MaxPackets)
          BY DEF Typed, GatewayTypeOK
        <4>. QED
          BY <1>1, <4>1, <4>2, BoundsTyped
      <3>2. /\ Len(queue) \in Nat /\ Len(queue') = Len(queue) + 1
            /\ queue'[Len(queue) + 1] = onAir + 1
            /\ \A i \in 1..Len(queue) : queue'[i] = queue[i]
        BY <2>1, <3>1, AppendProperties, LenProperties
      <3>3. 1..Len(queue') = (1..Len(queue)) \union {Len(queue) + 1}
        BY <3>2
      <3>. QED
        BY <3>2, <3>3 DEF Queued
    <2>2. CASE queue' = queue
      BY <2>2 DEF Queued
    <2>. QED
      BY <1>1, <2>1, <2>2
  <1>4. NameOnce'
    BY <1>2 DEF NameOnce
  <1>5. Pending' = Pending \/ Pending' = Pending \union {onAir + 1}
    BY <1>2, <1>3 DEF Pending
  <1>. QED
    BY <1>1, <1>4, <1>5 DEF ChannelStep

LEMMA OrderStep ==
  Typed /\ Typed' /\ SessionOK /\ Leads /\ NameOnce /\ [Next]_gatewayVars
    => NameOnce' /\ ChannelStep
  <1> SUFFICES ASSUME Typed, Typed', SessionOK, Leads, NameOnce, [Next]_gatewayVars
               PROVE  NameOnce' /\ ChannelStep
    OBVIOUS
  <1>1. CASE UNCHANGED gatewayVars
    <2>1. /\ UNCHANGED <<pc, link, toBroker, old, session, radioVars, forwardVars, delivered>>
          /\ UNCHANGED Line
      BY <1>1 DEF gatewayVars, linkVars, serverVars, Line
    <2>. QED
      BY <2>1, KeptBy, OrderQuiet
  <1>2. CASE Next
    <2>1. LineStep
      BY <1>2, LineGateway, LineEnvironment DEF Next
    <2>2. ASSUME packet \in 1..MaxPackets, Kept, UNCHANGED delivered, Current = {packet},
                 Current' = {}, Line' = Append(Line, Publish(1, packet))
          PROVE  NameOnce' /\ ChannelStep
      <3>1. Publish(1, packet) \in Messages
        BY <2>2, MessagesAre, BoundsTyped
      <3>2. Publish(1, packet)[2] = 1 /\ Publish(1, packet)[3] = packet
        BY Publishes
      <3>. QED
        BY <2>2, <3>1, <3>2, OrderSent
    <2>. QED
      BY <2>1, <2>2, OrderQuiet, OrderSent, OrderTaken, OrderReceive, OrderArrive DEF LineStep
  <1>. QED
    BY <1>1, <1>2

LEMMA OrderInit == Init => NameOnce /\ Pending = {} /\ onAir = 0 /\ delivered[1] = <<>>
  <1> SUFFICES ASSUME Init
               PROVE  NameOnce /\ Pending = {} /\ onAir = 0 /\ delivered[1] = <<>>
    OBVIOUS
  <1>1. 1..Len(Line) = {} /\ 1..Len(queue) = {} /\ Current = {}
    BY EmptySeq DEF Init, Line, Current
  <1>2. 1 \in 1..PARAMS
    BY BoundsTyped
  <1>. QED
    BY <1>1, <1>2 DEF Init, NameOnce, Pending, LineNames, Queued

LEMMA LeadsInvariant == Spec => []Leads
  BY SessionInvariant, LeadsInit, LeadsStep, PTL DEF Spec

LEMMA OrderInvariant == Spec => []NameOnce
  <1>1. Typed /\ Typed' /\ SessionOK /\ Leads /\ NameOnce /\ [Next]_gatewayVars => NameOnce'
    BY OrderStep
  <1>2. Init => NameOnce
    BY OrderInit
  <1>. QED
    BY <1>1, <1>2, SessionInvariant, LeadsInvariant, PTL DEF Spec

\* Across all sessions the server gets the packets in the order of the air, each at
\* most once: the gateway is a channel that loses, and does nothing worse.
THEOREM GatewayRefinesLossyFifo == Spec => NamesAreFifo
  <1>1. Typed /\ SessionOK /\ Init => Fifo!FifoInit
    BY OrderInit, PendingIs DEF Fifo!FifoInit
  <1>2. Typed /\ Typed' /\ SessionOK /\ SessionOK' /\ Leads /\ NameOnce /\ [Next]_gatewayVars
          => [Fifo!FifoNext]_Fifo!fifoVars
    <2> SUFFICES ASSUME Typed, Typed', SessionOK, SessionOK', Leads, NameOnce,
                        [Next]_gatewayVars
                 PROVE  Fifo!FifoNext
      OBVIOUS
    <2>1. ChannelStep
      BY OrderStep
    <2>2. Names(toBroker) \union Names(old) \union Queued \union Current = Pending
      BY PendingIs
    <2>3. (Names(toBroker) \union Names(old) \union Queued \union Current = Pending)'
      BY PendingIs, PTL
    <2>. QED
      BY <2>1, <2>2, <2>3 DEF ChannelStep, Fifo!FifoNext, Fifo!Emit, Fifo!Lose, Fifo!Deliver
  <1>. QED
    BY <1>1, <1>2, TypedInit, SessionInit, SessionInvariant, LeadsInvariant, OrderInvariant,
       PTL DEF Spec, NamesAreFifo, Fifo!FifoSpec

-----------------------------------------------------------------------------
\* What is on its way to the server brings newer values only, in the order of their
\* packets, and nothing before its deviceName.
THEOREM GatewayInvariant == Spec => []GatewayInv
  <1>1. Typed /\ SessionOK /\ Leads /\ NameOnce /\ Timely => GatewayInv
    BY DEF Typed, Leads, Timely, GatewayInv
  <1>. QED
    BY <1>1, SessionInvariant, LeadsInvariant, OrderInvariant, TimelyInvariant, PTL

\* The server's deviceName is never older than another of its values, though the
\* parameters are sent one by one and no result is asked for.
THEOREM NameStaysAhead == Spec => []NameLeads
  <1>1. GatewayInv => NameLeads
    BY DEF GatewayInv
  <1>. QED
    BY <1>1, GatewayInvariant, PTL
=============================================================================
