------------------------------ MODULE Gateway ------------------------------
(***************************************************************************)
(* The gateway, gwLoop() of src/gw_main.cpp, over the MQTT session of      *)
(* lib/PubSubClient: packets that the radio has queued are forwarded to    *)
(* the server, one attribute for each of their parameters.                 *)
(*                                                                         *)
(* Time passes in delay(), in InitWiFi() and in the wait for CONNACK; the  *)
(* ages are differences of millis(), which unsigned subtraction keeps true *)
(* for 49 days, and they stop at AGE_MAX.  Messages come whole.  The five  *)
(* attributes about the gateway itself, and its MAC address, are one.      *)
(***************************************************************************)
EXTENDS Integers, Sequences

CONSTANTS
  PARAMS,           \* parameters of a packet; 1 is deviceName
  ENOW_Q_LEN,       \* length of radioQ
  KEEPALIVE, SOCKET_TIMEOUT,   \* of PubSubClient
  STATUS_INTERVAL,  \* telemetrySendInterval
  TRIES,            \* waits for the access point before WiFi.begin() again
  ITER,             \* longest iteration of gwLoop(), waits for WiFi and CONNACK apart
  ANSWER,           \* the broker answers within it, if the link is good
  AGE_MAX,          \* bound: ages are counted no further
  MaxPackets,       \* bound: packets on the air
  MaxInFlight,      \* bound: messages on their way to the broker
  MaxFaults         \* bound: lost links, refused connections, lost access points

ASSUME GatewayAssumption ==
  /\ PARAMS \in Nat \ {0} /\ ENOW_Q_LEN \in Nat \ {0}
  /\ KEEPALIVE \in Nat /\ SOCKET_TIMEOUT \in Nat /\ STATUS_INTERVAL \in Nat
  /\ TRIES \in Nat /\ ITER \in Nat \ {0} /\ ANSWER \in Nat
  /\ AGE_MAX \in Nat /\ AGE_MAX > 2 * (KEEPALIVE + ITER) + ITER
  /\ SOCKET_TIMEOUT <= 2 * (KEEPALIVE + ITER) + ITER /\ AGE_MAX > STATUS_INTERVAL
  /\ MaxPackets \in Nat /\ MaxInFlight \in Nat \ {0} /\ MaxFaults \in Nat

\* A good broker's answer is there in time, and read an iteration later.
ASSUME AnswerAssumption == ANSWER + ITER <= KEEPALIVE /\ ANSWER < SOCKET_TIMEOUT

VARIABLES
  pc,                        \* where gwLoop() is
  wifi, tries,               \* WiFi.status() is WL_CONNECTED; cntr of InitWiFi()
  state, pingOutstanding,    \* of PubSubClient
  inAge, outAge, statusAge,  \* since lastInActivity, lastOutActivity, previousDataSend
  link,                      \* the TCP connection: none, up, dead (and nobody knows), reset
  toBroker, toGateway,       \* messages on their way; the latter are in the socket
  old,                       \* publishes of the last connection, which may still arrive
  session,                   \* the broker's view of the connection
  onAir, queue,              \* packets broadcast so far; radioQ
  packet, param,             \* packet being forwarded, and its parameter that comes next
  delivered,                 \* of each parameter: the packets it reached the server from
  away,                      \* history: time passed without WiFi since the last ping
  deadFor,                   \* history: how long the link has been dead, InitWiFi() apart
  violated,                  \* history: the broker saw a message it must not see
  faults

wifiVars    == <<wifi, tries>>
ageVars     == <<inAge, outAge, statusAge, deadFor>>
linkVars    == <<link, toBroker, toGateway, old, session>>
radioVars   == <<onAir, queue>>
forwardVars == <<packet, param>>
serverVars  == <<delivered, violated>>
gatewayVars == <<pc, wifiVars, state, pingOutstanding, ageVars, linkVars, radioVars,
                 forwardVars, serverVars, away, faults>>

Control(kind) == <<kind, 0, 0>>
Publish(p, n) == <<"PUBLISH", p, n>>

Init ==
  /\ pc = "initWiFi" /\ wifi = FALSE /\ tries = 0
  /\ state = "DISCONNECTED" /\ pingOutstanding = FALSE
  /\ inAge = 0 /\ outAge = 0 /\ statusAge = 0
  /\ link = "none" /\ toBroker = <<>> /\ toGateway = <<>> /\ old = <<>> /\ session = "new"
  /\ onAir = 0 /\ queue = <<>> /\ packet = 0 /\ param = 1
  /\ delivered = [p \in 1..PARAMS |-> <<>>]
  /\ away = FALSE /\ deadFor = 0 /\ violated = FALSE /\ faults = 0

Fault == faults < MaxFaults /\ faults' = faults + 1

-----------------------------------------------------------------------------
(* Time.                                                                   *)

Later(age, d) == IF age + d > AGE_MAX THEN AGE_MAX ELSE age + d

Asked == \E i \in 1..Len(toBroker) : toBroker[i] \in {Control("CONNECT"), Control("PINGREQ")}

\* d units pass.  Over a good link the broker answers in time.
Elapse(d) ==
  /\ wifi /\ link = "up" /\ Asked => inAge + d <= ANSWER
  /\ inAge' = Later(inAge, d) /\ outAge' = Later(outAge, d)
  /\ statusAge' = Later(statusAge, d)
  /\ deadFor' = IF link = "dead" /\ pc # "initWiFi" THEN Later(deadFor, d) ELSE deadFor
  /\ away' = (away \/ ~wifi)

-----------------------------------------------------------------------------
(* PubSubClient.                                                           *)

Open      == link \in {"up", "dead"}
Connected == state = "CONNECTED" /\ Open

\* WiFiClient::stop(): what was written may still arrive, if it was after CONNACK.
Stop ==
  /\ link' = "none" /\ toBroker' = <<>> /\ toGateway' = <<>> /\ session' = "new"
  /\ old' = IF link = "up" /\ session = "open" THEN toBroker ELSE old

\* Mutant of Close: the connection is left open.
CloseOnlyState(reason) == state' = reason /\ UNCHANGED linkVars

Close(reason) == state' = reason /\ Stop

\* What connected() does when it is false.
Notice ==
  IF state = "CONNECTED" THEN Close("CONNECTION_LOST") ELSE UNCHANGED <<state, linkVars>>

\* write(): over a dead link it seems to succeed as well.
Write(m) ==
  /\ Len(toBroker) < MaxInFlight
  /\ toBroker' = IF link = "up" THEN Append(toBroker, m) ELSE toBroker
  /\ UNCHANGED <<link, toGateway, old, session>>

\* publish().
Send(m) ==
  \/ Connected /\ Write(m) /\ outAge' = 0 /\ UNCHANGED state
  \/ ~Connected /\ Notice /\ UNCHANGED outAge

-----------------------------------------------------------------------------
(* gwLoop().                                                               *)

\* delay(10) and whatever else the iteration takes.
Delay ==
  /\ pc = "delay" /\ pc' = "reconnect"
  /\ \E d \in 1..ITER : Elapse(d)
  /\ UNCHANGED <<wifiVars, state, pingOutstanding, linkVars, radioVars, forwardVars,
                 serverVars, faults>>

\* reconnect(), up to the loop of InitWiFi().
Reconnect ==
  /\ pc = "reconnect" /\ pc' = IF wifi THEN "session" ELSE "initWiFi"
  /\ tries' = 0
  /\ UNCHANGED <<wifi, state, pingOutstanding, ageVars, linkVars, radioVars, forwardVars,
                 serverVars, away, faults>>

\* InitWiFi(): delay(500), unless the access point has answered.
InitWait ==
  /\ pc = "initWiFi"
  /\ \/ wifi /\ pc' = "session" /\ UNCHANGED <<ageVars, away>>
     \/ ~wifi /\ pc' = "initTried" /\ Elapse(1)
  /\ UNCHANGED <<wifiVars, state, pingOutstanding, linkVars, radioVars, forwardVars,
                 serverVars, faults>>

\* Mutant of InitTry: cntr goes on.
InitTryOn ==
  /\ pc = "initTried" /\ pc' = "initWiFi"
  /\ tries' = tries + 1 /\ wifi' = (wifi /\ tries < TRIES)
  /\ UNCHANGED <<state, pingOutstanding, ageVars, linkVars, radioVars, forwardVars,
                 serverVars, away, faults>>

\* InitWiFi(): after so many tries WiFi.begin() again, which drops an association
\* that came in the last one.
InitTry ==
  /\ pc = "initTried" /\ pc' = "initWiFi"
  /\ IF tries < TRIES THEN tries' = tries + 1 /\ UNCHANGED wifi
                      ELSE tries' = 0 /\ wifi' = FALSE
  /\ UNCHANGED <<state, pingOutstanding, ageVars, linkVars, radioVars, forwardVars,
                 serverVars, away, faults>>

\* if (!tb.connected())
Session ==
  /\ pc = "session"
  /\ \/ Connected /\ pc' = "status" /\ UNCHANGED <<state, linkVars>>
     \/ ~Connected /\ pc' = "connect" /\ Notice
  /\ UNCHANGED <<wifiVars, pingOutstanding, ageVars, radioVars, forwardVars, serverVars,
                 away, faults>>

\* connect() up to CONNECT, over a new connection unless one is open.
Connect ==
  /\ pc = "connect" /\ wifi /\ pc' = "connack"
  /\ link' = IF Open THEN link ELSE "up"
  /\ toBroker' = Append(IF Open THEN toBroker ELSE <<>>, Control("CONNECT"))
  /\ toGateway' = IF Open THEN toGateway ELSE <<>>
  /\ session' = IF Open THEN session ELSE "new"
  /\ inAge' = 0 /\ outAge' = 0 /\ deadFor' = IF Open THEN deadFor ELSE 0
  /\ UNCHANGED <<wifiVars, state, pingOutstanding, statusAge, old, radioVars, forwardVars,
                 serverVars, away, faults>>

\* The TCP connection does not come about.
ConnectFails ==
  /\ pc = "connect" /\ pc' = "delay" /\ state' = "CONNECT_FAILED"
  /\ \/ ~wifi /\ UNCHANGED faults
     \/ Fault
  /\ UNCHANGED <<wifiVars, pingOutstanding, ageVars, linkVars, radioVars, forwardVars,
                 serverVars, away>>

\* Mutant of Accepted: a ping of the last session counts for the new one.
AcceptedPinged ==
  /\ pc' = "mac" /\ state' = "CONNECTED"
  /\ inAge' = 0 /\ away' = FALSE
  /\ UNCHANGED <<pingOutstanding, outAge, statusAge, deadFor>>

\* connect(): CONNACK with return code 0.
Accepted ==
  /\ pc' = "mac" /\ state' = "CONNECTED"
  /\ inAge' = 0 /\ pingOutstanding' = FALSE /\ away' = FALSE
  /\ UNCHANGED <<outAge, statusAge, deadFor>>

\* connect(): the wait for CONNACK.
AwaitConnack ==
  /\ pc = "connack"
  /\ \/ /\ toGateway = <<>> /\ inAge < SOCKET_TIMEOUT
        /\ Elapse(1)
        /\ UNCHANGED <<pc, state, pingOutstanding, linkVars>>
     \/ /\ toGateway = <<>> /\ inAge >= SOCKET_TIMEOUT
        /\ pc' = "delay" /\ Close("CONNECTION_TIMEOUT")
        /\ UNCHANGED <<pingOutstanding, ageVars, away>>
     \/ /\ toGateway # <<>> /\ Head(toGateway) = Control("CONNACK")
        /\ toGateway' = Tail(toGateway)
        /\ Accepted
        /\ UNCHANGED <<link, toBroker, old, session>>
     \/ /\ toGateway # <<>> /\ Head(toGateway) # Control("CONNACK")
        /\ pc' = "delay" /\ Close("CONNECT_BAD")
        /\ UNCHANGED <<pingOutstanding, ageVars, away>>
  /\ UNCHANGED <<wifiVars, radioVars, forwardVars, serverVars, faults>>

\* sendAttributeData("macAddress").
SendMac ==
  /\ pc = "mac" /\ pc' = "status"
  /\ Send(Publish(0, 0))
  /\ UNCHANGED <<wifiVars, pingOutstanding, inAge, statusAge, deadFor, radioVars,
                 forwardVars, serverVars, away, faults>>

StatusDue == statusAge > STATUS_INTERVAL

\* The attributes about the gateway itself.
SendStatus ==
  /\ pc = "status" /\ pc' = "receive"
  /\ \/ StatusDue /\ Send(Publish(0, 0)) /\ statusAge' = 0
     \/ ~StatusDue /\ UNCHANGED <<state, linkVars, outAge, statusAge>>
  /\ UNCHANGED <<wifiVars, pingOutstanding, inAge, deadFor, radioVars, forwardVars,
                 serverVars, away, faults>>

\* Mutant of Receive: the packet stays in the queue.
ReceivePeeks ==
  /\ pc = "receive"
  /\ \/ queue # <<>> /\ pc' = "forward" /\ packet' = Head(queue) /\ param' = 1
     \/ queue = <<>> /\ pc' = "loop" /\ UNCHANGED <<packet, param>>
  /\ UNCHANGED <<wifiVars, state, pingOutstanding, ageVars, linkVars, radioVars, serverVars,
                 away, faults>>

\* receivePacket().
Receive ==
  /\ pc = "receive"
  /\ \/ /\ queue # <<>> /\ pc' = "forward"
        /\ packet' = Head(queue) /\ queue' = Tail(queue) /\ param' = 1
     \/ queue = <<>> /\ pc' = "loop" /\ UNCHANGED <<packet, param, queue>>
  /\ UNCHANGED <<wifiVars, state, pingOutstanding, ageVars, linkVars, onAir, serverVars,
                 away, faults>>

\* Mutant of NextParam: from the last parameter to the first.
NextParamBackwards == PARAMS + 1 - param

NextParam == param

\* Mutant of Forward: until the parameter has been sent.
ForwardUntilSent ==
  /\ pc = "forward" /\ pc' = IF param = PARAMS /\ Connected THEN "loop" ELSE "forward"
  /\ param' = IF Connected THEN param + 1 ELSE param
  /\ Send(Publish(NextParam, packet))
  /\ UNCHANGED <<wifiVars, pingOutstanding, inAge, statusAge, deadFor, radioVars, packet,
                 serverVars, away, faults>>

\* The parameters of the packet, one by one; whether one was sent is not asked.
Forward ==
  /\ pc = "forward" /\ pc' = IF param = PARAMS THEN "loop" ELSE "forward"
  /\ param' = param + 1
  /\ Send(Publish(NextParam, packet))
  /\ UNCHANGED <<wifiVars, pingOutstanding, inAge, statusAge, deadFor, radioVars, packet,
                 serverVars, away, faults>>

\* Mutant of Silent: only when nothing went out either.
SilentBoth == inAge > KEEPALIVE /\ outAge > KEEPALIVE

\* Mutant of Silent: nothing is ever asked.
SilentNever == FALSE

\* loop(): the test of the keep-alive, made before what has arrived is read.
Silent == inAge > KEEPALIVE \/ outAge > KEEPALIVE

\* One message from the socket, if there is one; ping says whether one is out.
ReadOne(age, ping) ==
  IF toGateway = <<>>
  THEN inAge' = age /\ pingOutstanding' = ping /\ UNCHANGED toGateway
  ELSE /\ inAge' = 0
       /\ pingOutstanding' = (ping /\ Head(toGateway) # Control("PINGRESP"))
       /\ toGateway' = Tail(toGateway)

\* loop() of PubSubClient.
Loop ==
  /\ pc = "loop" /\ pc' = "delay"
  /\ \/ ~Connected /\ Notice /\ UNCHANGED <<pingOutstanding, inAge, outAge, away>>
     \/ /\ Connected /\ Silent /\ pingOutstanding
        /\ Close("CONNECTION_TIMEOUT")
        /\ UNCHANGED <<pingOutstanding, inAge, outAge, away>>
     \/ /\ Connected /\ Silent /\ ~pingOutstanding
        /\ Len(toBroker) < MaxInFlight
        /\ toBroker' = IF link = "up" THEN Append(toBroker, Control("PINGREQ")) ELSE toBroker
        /\ outAge' = 0 /\ away' = FALSE
        /\ ReadOne(0, TRUE)
        /\ UNCHANGED <<state, link, old, session>>
     \/ /\ Connected /\ ~Silent
        /\ ReadOne(inAge, pingOutstanding)
        /\ UNCHANGED <<state, link, toBroker, old, session, outAge, away>>
  /\ UNCHANGED <<wifiVars, statusAge, deadFor, radioVars, forwardVars, serverVars, faults>>

GatewayLoop ==
  Delay \/ Reconnect \/ InitWait \/ InitTry \/ Session \/ Connect \/ ConnectFails
    \/ AwaitConnack \/ SendMac \/ SendStatus \/ Receive \/ Forward \/ Loop

-----------------------------------------------------------------------------
(* The radio, the access point, the network and the broker.                *)

\* OnDataRecv(): a packet is queued, or lost when radioQ stays full.
Arrive ==
  /\ onAir < MaxPackets /\ onAir' = onAir + 1
  /\ queue' = IF Len(queue) < ENOW_Q_LEN THEN Append(queue, onAir + 1) ELSE queue
  /\ UNCHANGED <<pc, wifiVars, state, pingOutstanding, ageVars, linkVars, forwardVars,
                 serverVars, away, faults>>

Associate ==
  /\ ~wifi /\ wifi' = TRUE
  /\ UNCHANGED <<pc, tries, state, pingOutstanding, ageVars, linkVars, radioVars,
                 forwardVars, serverVars, away, faults>>

LoseWiFi ==
  /\ wifi /\ wifi' = FALSE /\ Fault
  /\ UNCHANGED <<pc, tries, state, pingOutstanding, ageVars, linkVars, radioVars,
                 forwardVars, serverVars, away>>

\* The connection breaks, with all that is on its way.  The client sees it at
\* once, or keeps what is in the socket and sees nothing.
Break ==
  /\ link = "up" /\ Fault
  /\ link' \in {"dead", "reset"}
  /\ toBroker' = <<>> /\ toGateway' = IF link' = "dead" THEN toGateway ELSE <<>>
  /\ session' = "new"
  /\ UNCHANGED <<pc, wifiVars, state, pingOutstanding, ageVars, old, radioVars,
                 forwardVars, serverVars, away>>

\* TCP finds out by itself.
Discover ==
  /\ link = "dead" /\ link' = "reset" /\ toGateway' = <<>>
  /\ UNCHANGED <<pc, wifiVars, state, pingOutstanding, ageVars, toBroker, old, session,
                 radioVars, forwardVars, serverVars, away, faults>>

Deliver(m) ==
  delivered' = IF m[2] = 0 THEN delivered
               ELSE [delivered EXCEPT ![m[2]] = Append(@, m[3])]

\* The broker takes a message.  A session of the same client id ends the older
\* one; a message before CONNECT, or a second CONNECT, is against the protocol.
Broker ==
  /\ wifi /\ link = "up" /\ toBroker # <<>>
  /\ toBroker' = Tail(toBroker)
  /\ LET m == Head(toBroker) IN
     \/ /\ m = Control("CONNECT")
        /\ \/ /\ session' = "open" /\ old' = <<>>
              /\ toGateway' = Append(toGateway, Control("CONNACK"))
              /\ UNCHANGED faults
           \/ /\ session' = "refused" /\ Fault
              /\ toGateway' = Append(toGateway, Control("REFUSED"))
              /\ UNCHANGED old
        /\ violated' = (violated \/ session # "new")
        /\ UNCHANGED delivered
     \/ /\ m = Control("PINGREQ")
        /\ toGateway' = Append(toGateway, Control("PINGRESP"))
        /\ violated' = (violated \/ session # "open")
        /\ UNCHANGED <<delivered, session, old, faults>>
     \/ /\ m[1] = "PUBLISH" /\ Deliver(m)
        /\ violated' = (violated \/ session # "open")
        /\ UNCHANGED <<toGateway, session, old, faults>>
  /\ UNCHANGED <<pc, wifiVars, state, pingOutstanding, ageVars, link, radioVars,
                 forwardVars, away>>

\* What was written to the last connection arrives after its end, or never.
OldArrives ==
  /\ old # <<>>
  /\ \/ wifi /\ old' = Tail(old) /\ Deliver(Head(old))
     \/ old' = <<>> /\ UNCHANGED delivered
  /\ UNCHANGED <<pc, wifiVars, state, pingOutstanding, ageVars, link, toBroker, toGateway,
                 session, radioVars, forwardVars, violated, away, faults>>

Environment == Arrive \/ Associate \/ LoseWiFi \/ Break \/ Discover \/ Broker \/ OldArrives

Next == GatewayLoop \/ Environment

Spec == Init /\ [][Next]_gatewayVars

\* The loop goes on and the broker reads; the access point is there, and does not
\* answer in the very last moment of every attempt of InitWiFi().
FairSpec ==
  /\ Spec /\ WF_gatewayVars(GatewayLoop) /\ WF_gatewayVars(Broker)
  /\ SF_gatewayVars(Associate /\ pc # "initTried")

-----------------------------------------------------------------------------
(* Properties.                                                             *)

Messages == {Control(k) : k \in {"CONNECT", "PINGREQ"}} \union {Publish(0, 0)}
              \union {Publish(p, n) : p \in 1..PARAMS, n \in 1..MaxPackets}
Answers  == {Control(k) : k \in {"CONNACK", "REFUSED", "PINGRESP"}}

GatewayTypeOK ==
  /\ pc \in {"delay", "reconnect", "initWiFi", "initTried", "session", "connect", "connack",
             "mac", "status", "receive", "forward", "loop"}
  /\ wifi \in BOOLEAN /\ tries \in 0..TRIES
  /\ state \in {"DISCONNECTED", "CONNECTED", "CONNECTION_TIMEOUT", "CONNECTION_LOST",
                "CONNECT_FAILED", "CONNECT_BAD"}
  /\ pingOutstanding \in BOOLEAN
  /\ {inAge, outAge, statusAge, deadFor} \subseteq 0..AGE_MAX
  /\ link \in {"none", "up", "dead", "reset"}
  /\ toBroker \in Seq(Messages) /\ old \in Seq(Messages) /\ toGateway \in Seq(Answers)
  /\ session \in {"new", "open", "refused"}
  /\ onAir \in 0..MaxPackets /\ queue \in Seq(1..MaxPackets) /\ Len(queue) <= ENOW_Q_LEN
  /\ packet \in 0..MaxPackets /\ param \in 1..(PARAMS + 1)
  /\ delivered \in [1..PARAMS -> Seq(1..MaxPackets)]
  /\ away \in BOOLEAN /\ violated \in BOOLEAN /\ faults \in 0..MaxFaults

\* On every connection the broker sees one CONNECT, first, and nothing else before
\* it has accepted it, however the last connection ended.
ConnectFirst == ~violated

\* The packet that the server has each parameter from.
Last == [p \in 1..PARAMS |->
           IF delivered[p] = <<>> THEN 0 ELSE delivered[p][Len(delivered[p])]]

\* The server never has a value of a newer packet than its deviceName: a publish
\* that fails is followed by no other of the same packet, though nobody asks.
NameLeads == \A p, q \in 1..PARAMS : p < q => Last[p] >= Last[q]

\* A link that is dead while it looks open is given up after two silent periods,
\* an iteration more for each, and one to read the answer left in the socket.
DeadLinkNoticed == deadFor <= 2 * (KEEPALIVE + ITER) + ITER

\* The session is given up for silence only if the link is dead, or if the access
\* point was away since the ping, though the answer is read after the test.
NoFalseTimeout ==
  [][state = "CONNECTED" /\ state' = "CONNECTION_TIMEOUT" => link # "up" \/ away]_gatewayVars

\* After the last fault there is a session, and it stays.
SessionIsRebuilt == <>[](state = "CONNECTED" /\ link = "up")

\* Packets do not wait for ever.
QueueIsServed == queue # <<>> ~> queue = <<>>

-----------------------------------------------------------------------------
(* From the air to the server the gateway is a lossy channel that keeps the *)
(* order, across sessions that end and are rebuilt.                         *)

Names(s) == {s[i][3] : i \in {j \in 1..Len(s) : s[j][1] = "PUBLISH" /\ s[j][2] = 1}}

Queued   == {queue[i] : i \in 1..Len(queue)}
Current  == IF pc = "forward" /\ param = 1 THEN {packet} ELSE {}

Fifo == INSTANCE LossyFifo WITH
          sent      <- onAir,
          pending   <- Names(toBroker) \union Names(old) \union Queued \union Current,
          delivered <- delivered[1]

NamesAreFifo == Fifo!FifoSpec

-----------------------------------------------------------------------------
(* The inductive invariants.                                               *)

\* What the two ends know of a connection: connect() is called over a closed one
\* only, and goes on when the broker has said so.
SessionOK ==
  /\ ConnectFirst
  /\ link # "up" => toBroker = <<>>
  /\ link = "up" /\ session = "open" => old = <<>>
  /\ pc = "connect" => ~Open /\ state # "CONNECTED"
  /\ pc = "connack" =>
       /\ state # "CONNECTED"
       /\ link = "up" => <<session, toBroker, toGateway>> \in
            {<<"new", <<Control("CONNECT")>>, <<>>>>,
             <<"open", <<>>, <<Control("CONNACK")>>>>,
             <<"refused", <<>>, <<Control("REFUSED")>>>>}
  /\ pc # "connack" =>
       /\ Open => state = "CONNECTED"
       /\ link = "up" => session = "open"
       /\ \A i \in 1..Len(toBroker) : toBroker[i] # Control("CONNECT")

\* What may still reach the server, in this order.
Line == IF link = "up" /\ session = "open" THEN toBroker ELSE old

\* Parameter p of packet n, or of a newer one, is there, or comes before place i.
IsAhead(p, n, i) == Last[p] >= n \/ \E j \in 1..(i - 1) : Line[j] = Publish(p, n)

\* It brings newer values only, and nothing before its deviceName.
LineInOrder ==
  /\ \A i \in 1..Len(Line) : Line[i][2] # 0 =>
       Last[Line[i][2]] <= Line[i][3] /\ Line[i][3] <= packet
  /\ \A i, j \in 1..Len(Line) : i < j /\ Line[i][2] = Line[j][2] => Line[i][3] <= Line[j][3]
  /\ \A i \in 1..Len(Line) : \A p \in 1..(Line[i][2] - 1) : IsAhead(p, Line[i][3], i)

\* As long as the link is up, nothing was left out of the packet being forwarded.
SentSoFar == pc = "forward" /\ link = "up" =>
               \A p \in 1..(param - 1) : IsAhead(p, packet, Len(Line) + 1)

InForward == pc = "forward" => packet # 0 /\ param <= PARAMS

\* Packets come from the radio in the order of the air.
PacketsOK ==
  /\ packet <= onAir
  /\ \A p \in 1..PARAMS : Last[p] <= packet
  /\ \A i \in 1..Len(queue) : packet < queue[i] /\ queue[i] <= onAir
  /\ \A i, j \in 1..Len(queue) : i < j => queue[i] < queue[j]

\* No deviceName is sent twice.
NameOnce ==
  /\ \A i \in 1..Len(Line), n \in Current : Line[i][2] = 1 => Line[i][3] < n
  /\ \A i, j \in 1..Len(Line) :
       i < j /\ Line[i][2] = 1 /\ Line[j][2] = 1 => Line[i][3] < Line[j][3]

\* The ping of a session: none, one without its answer, or one whose answer is in
\* the socket.
NoPing   == ~pingOutstanding /\ toGateway = <<>>
PingOut  == pingOutstanding /\ toGateway = <<>>
PingBack == pingOutstanding /\ toGateway = <<Control("PINGRESP")>>

Pings == {i \in 1..Len(toBroker) : toBroker[i] = Control("PINGREQ")}
Unasked   == Pings = {}
AskedOnce == \E i \in 1..Len(toBroker) : Pings = {i}

\* The part of the iteration in which time passes is still to come, or over.
Late == IF pc = "delay" THEN 0 ELSE ITER

\* Over a good link the answer is read in time.
AnswerInTime ==
  state = "CONNECTED" /\ link = "up" =>
    \/ NoPing /\ Unasked
    \/ /\ PingOut /\ AskedOnce
       /\ away \/ (outAge <= inAge /\ inAge <= ANSWER)
    \/ /\ PingBack /\ Unasked
       /\ away \/ (outAge <= inAge /\ inAge <= ANSWER + Late)

\* Over a dead one there are at most an answer to read, a time to ask in, and one to
\* wait in.
SilenceCounts ==
  /\ link = "up" => deadFor = 0
  /\ state = "CONNECTED" /\ link = "dead" =>
       \/ /\ NoPing
          /\ deadFor <= ITER + inAge /\ deadFor <= ITER + KEEPALIVE + Late
       \/ /\ PingOut
          /\ deadFor <= 2 * ITER + KEEPALIVE + inAge
          /\ deadFor <= 2 * (ITER + KEEPALIVE) + Late
       \/ PingBack /\ deadFor <= Late
  /\ pc = "connack" => inAge <= SOCKET_TIMEOUT
  /\ pc = "connack" /\ link = "dead" =>
       \/ toGateway = <<>> /\ deadFor <= inAge
       \/ toGateway \in {<<Control("CONNACK")>>, <<Control("REFUSED")>>} /\ deadFor = 0
  /\ DeadLinkNoticed

GatewayInv == GatewayTypeOK /\ InForward /\ SessionOK /\ LineInOrder /\ SentSoFar
                /\ PacketsOK /\ NameOnce /\ NameLeads /\ AnswerInTime /\ SilenceCounts
=============================================================================
