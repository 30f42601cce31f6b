------------------------------ MODULE TbClient ------------------------------
(***************************************************************************)
(* Requests and subscriptions of the ThingsBoard client, ThingsBoard.h: a  *)
(* request for attributes or to the server's RPC registers a callback,     *)
(* subscribes the topic of the answers and is called once; shared          *)
(* attributes and the server's own RPC have callbacks that stay.  All of   *)
(* it runs in one task; a callback may make requests itself.               *)
(*                                                                         *)
(* What a message says is left out, and so is provisioning.  A session is  *)
(* clean: the broker forgets its subscriptions with it.                    *)
(***************************************************************************)
EXTENDS Integers, Sequences, FiniteSets, SequencesExt

CONSTANTS
  CAPACITY,      \* callbacks a vector has room for
  MaxRequests,   \* bound: requests with a number of their own
  MaxCallbacks,  \* bound: callbacks for each kind of update
  MaxFaults,     \* bound: lost connections and failed sends
  MaxInFlight    \* bound: messages on their way to the server

ASSUME TbAssumption == {CAPACITY, MaxRequests, MaxCallbacks, MaxFaults, MaxInFlight} \subseteq Nat

Requests == {"attributes", "rpc"}          \* answered once
Updates  == {"sharedAttributes", "serverRpc"}

VARIABLES
  waiting,      \* m_attribute_request_callbacks, m_rpc_request_callbacks: their request ids
  registered,   \* m_shared_attribute_update_callbacks, m_rpc_callbacks: how many
  m_request_id,
  running,      \* the callback that runs: <<kind, its index>>, or <<>>
  connected, toServer, toClient,
  subs,         \* of the broker: topics subscribed in this session
  asked,        \* of the server: <<kind, id>> not answered yet
  called,       \* history: ids whose callback was called
  lost,         \* history: ids whose request or answer was lost
  faults

callbackVars == <<waiting, registered, m_request_id, running>>
serverVars   == <<subs, asked>>
tbVars       == <<callbackVars, connected, toServer, toClient, serverVars, called, lost, faults>>

Init ==
  /\ waiting = [k \in Requests |-> <<>>] /\ registered = [u \in Updates |-> 0]
  /\ m_request_id = 0 /\ running = <<>>
  /\ connected = TRUE /\ toServer = <<>> /\ toClient = <<>>
  /\ subs = {} /\ asked = {}
  /\ called = {} /\ lost = {} /\ faults = 0

Fault == faults < MaxFaults /\ faults' = faults + 1

Subscribe(topic)   == <<"SUBSCRIBE", topic, 0>>
Unsubscribe(topic) == <<"UNSUBSCRIBE", topic, 0>>
Request(k, id)     == <<"REQUEST", k, id>>

\* subscribe(), unsubscribe() and publish() of the MQTT client.
Send(messages) ==
  /\ Len(toServer) + Len(messages) <= MaxInFlight
  /\ toServer' = IF connected THEN toServer \o messages ELSE toServer

-----------------------------------------------------------------------------
(* The client.                                                             *)

\* Attributes_Request() and RPC_Request(), by the application or by a callback:
\* the callback is registered, and stays so when the request cannot be sent.
\* Without a connection, or with CAPACITY callbacks waiting, nothing is done.
MakeRequest(k) ==
  /\ connected /\ Len(waiting[k]) < CAPACITY /\ m_request_id < MaxRequests
  /\ m_request_id' = m_request_id + 1
  /\ waiting' = [waiting EXCEPT ![k] = Append(@, m_request_id + 1)]
  /\ \/ /\ Send(<<Subscribe(k), Request(k, m_request_id + 1)>>)
        /\ UNCHANGED <<lost, faults>>
     \/ /\ Send(<<Subscribe(k)>>) /\ Fault
        /\ lost' = lost \union {m_request_id + 1}
  /\ UNCHANGED <<registered, running, connected, toClient, serverVars, called>>

\* RPC_Subscribe() and Shared_Attributes_Subscribe(), of one callback.
AddCallback(u) ==
  /\ connected /\ registered[u] < CAPACITY /\ registered[u] < MaxCallbacks
  /\ Send(<<Subscribe(u)>>)
  /\ registered' = [registered EXCEPT ![u] = @ + 1]
  /\ UNCHANGED <<waiting, m_request_id, running, connected, toClient, serverVars, called,
                 lost, faults>>

\* RPC_Unsubscribe() and Shared_Attributes_Unsubscribe().
DropCallbacks(u) ==
  /\ Send(<<Unsubscribe(u)>>)
  /\ registered' = [registered EXCEPT ![u] = 0]
  /\ UNCHANGED <<waiting, m_request_id, running, connected, toClient, serverVars, called,
                 lost, faults>>

\* A callback makes requests only, so that it is not kept running for ever.
Application ==
  \/ \E k \in Requests : MakeRequest(k)
  \/ running = <<>> /\ \E u \in Updates : AddCallback(u) \/ DropCallbacks(u)

\* Mutant of Asker: the oldest callback.
AskerOldest(k, id) == 1

\* The first callback with the id of the answer.
Asker(k, id) == CHOOSE i \in 1..Len(waiting[k]) :
                  waiting[k][i] = id /\ \A j \in 1..(i - 1) : waiting[k][j] # id

\* Mutant of LastOne: after every answer.
LastOneAlways(callbacks) == TRUE

\* The topic is unsubscribed with the last callback.
LastOne(callbacks) == callbacks = <<>>

\* process_attribute_request_message() and process_rpc_request_message(): the
\* callback of the answer is called.
OnMessage ==
  /\ running = <<>> /\ toClient # <<>>
  /\ toClient' = Tail(toClient)
  /\ LET k == Head(toClient)[1]  id == Head(toClient)[2] IN
       IF id \in Range(waiting[k])
       THEN /\ running' = <<k, Asker(k, id)>>
            /\ called' = called \union {id}
            /\ UNCHANGED toServer
       ELSE /\ IF LastOne(waiting[k]) THEN Send(<<Unsubscribe(k)>>) ELSE UNCHANGED toServer
            /\ UNCHANGED <<running, called>>
  /\ UNCHANGED <<waiting, registered, m_request_id, connected, serverVars, lost, faults>>

\* The callback has returned, and is removed.
Returned ==
  /\ running # <<>> /\ running' = <<>>
  /\ LET k == running[1]  rest == RemoveAt(waiting[k], running[2]) IN
       /\ waiting' = [waiting EXCEPT ![k] = rest]
       /\ IF LastOne(rest) THEN Send(<<Unsubscribe(k)>>) ELSE UNCHANGED toServer
  /\ UNCHANGED <<registered, m_request_id, connected, toClient, serverVars, called, lost,
                 faults>>

\* Mutant of Resubscribed: shared attributes are forgotten.
ResubscribedRpcOnly == {u \in {"serverRpc"} : registered[u] > 0}

\* Resubscribe_Topics(): not the topics of the answers.
Resubscribed == {u \in Updates : registered[u] > 0}

Connect ==
  /\ ~connected /\ running = <<>>
  /\ connected' = TRUE
  /\ toServer' = SetToSeq({Subscribe(u) : u \in Resubscribed})
  /\ UNCHANGED <<callbackVars, toClient, serverVars, called, lost, faults>>

-----------------------------------------------------------------------------
(* The connection, the broker and the server.                              *)

InFlight(k) ==
  {id \in 1..m_request_id : \/ Request(k, id) \in Range(toServer)
                            \/ <<k, id>> \in asked \/ <<k, id>> \in Range(toClient)}

Drop ==
  /\ connected /\ connected' = FALSE /\ Fault
  /\ toServer' = <<>> /\ toClient' = <<>> /\ subs' = {} /\ asked' = {}
  /\ lost' = lost \union UNION {InFlight(k) : k \in Requests}
  /\ UNCHANGED <<callbackVars, called>>

Broker ==
  /\ toServer # <<>> /\ toServer' = Tail(toServer)
  /\ LET m == Head(toServer) IN
       /\ subs' = CASE m[1] = "SUBSCRIBE"   -> subs \union {m[2]}
                    [] m[1] = "UNSUBSCRIBE" -> subs \ {m[2]}
                    [] m[1] = "REQUEST"     -> subs
       /\ asked' = IF m[1] = "REQUEST" THEN asked \union {<<m[2], m[3]>>} ELSE asked
  /\ UNCHANGED <<callbackVars, connected, toClient, called, lost, faults>>

\* The server answers in any order; who is not subscribed does not hear it.
Answer ==
  /\ \E a \in asked :
       /\ asked' = asked \ {a}
       /\ toClient' = IF a[1] \in subs THEN Append(toClient, a) ELSE toClient
  /\ UNCHANGED <<callbackVars, connected, toServer, subs, called, lost, faults>>

Next == Application \/ OnMessage \/ Returned \/ Connect \/ Drop \/ Broker \/ Answer

Spec == Init /\ [][Next]_tbVars

\* loop() is called again and again, callbacks return, the server answers.
FairSpec == Spec /\ WF_tbVars(OnMessage) /\ WF_tbVars(Returned) /\ WF_tbVars(Broker)
                 /\ WF_tbVars(Answer)

-----------------------------------------------------------------------------
(* Properties.                                                             *)

\* The topic is subscribed once the broker has read n of the messages to it.
SubscribedAfter(n, topic) ==
  \/ topic \in subs /\ \A i \in 1..n : toServer[i] # Unsubscribe(topic)
  \/ \E i \in 1..n : /\ toServer[i] = Subscribe(topic)
                     /\ \A j \in (i + 1)..n : toServer[j] # Unsubscribe(topic)

Heard(topic) == SubscribedAfter(Len(toServer), topic)

\* Whatever a callback waits for is subscribed in this session: the unsubscribing
\* with one answer does not cut off the next, and permanent subscriptions outlive a
\* lost connection.
AwaitedIsHeard ==
  connected => /\ \A k \in Requests : InFlight(k) # {} => Heard(k)
               /\ \A u \in Updates : registered[u] > 0 => Heard(u)

\* The callbacks that wait are those whose request or answer is on its way, the one
\* that runs, and those that a loss has left waiting for ever.
WaitingIsInFlight ==
  \A k \in Requests :
    Range(waiting[k]) \ lost =
      (InFlight(k) \union (IF running # <<>> /\ running[1] = k
                           THEN {waiting[k][running[2]]} ELSE {})) \ lost

\* The callback of every request is called, unless the request or its answer is lost,
\* although answers overtake each other and callbacks make new requests.
AnswersArrive ==
  \A id \in 1..MaxRequests : id <= m_request_id ~> id \in called \union lost

-----------------------------------------------------------------------------
(* The inductive invariant behind them.                                    *)

Topics   == Requests \union Updates
Ids      == Nat \ {0}
Messages == ({"SUBSCRIBE", "UNSUBSCRIBE"} \X Topics \X {0}) \union ({"REQUEST"} \X Requests \X Ids)

TbTypeOK ==
  /\ waiting \in [Requests -> Seq(Ids)] /\ registered \in [Updates -> Nat]
  /\ m_request_id \in Nat
  /\ running # <<>> => /\ running \in Requests \X Ids
                       /\ running[2] <= Len(waiting[running[1]])
  /\ connected \in BOOLEAN
  /\ toServer \in Seq(Messages) /\ toClient \in Seq(Requests \X Ids)
  /\ subs \subseteq Topics /\ asked \subseteq Requests \X Ids
  /\ lost \subseteq 1..m_request_id

\* Where a request may be: with its callback, on one of the ways, at the server,
\* or with the callback that runs.
Waits(k, id)    == \E i \in 1..Len(waiting[k]) : waiting[k][i] = id
Sent(k, id)     == \E i \in 1..Len(toServer) : toServer[i] = Request(k, id)
Asked(k, id)    == <<k, id>> \in asked
Answered(k, id) == \E i \in 1..Len(toClient) : toClient[i] = <<k, id>>
Runs(k, id)     == running # <<>> /\ running[1] = k /\ waiting[k][running[2]] = id

\* The number of a request is its own: no two callbacks, messages or places share it.
CallbacksHaveIds ==
  /\ \A k \in Requests : \A i \in 1..Len(waiting[k]) : waiting[k][i] <= m_request_id
  /\ \A k, l \in Requests : \A i \in 1..Len(waiting[k]), j \in 1..Len(waiting[l]) :
       waiting[k][i] = waiting[l][j] => k = l /\ i = j

MessagesGoOnce ==
  /\ \A i, j \in 1..Len(toServer) :
       toServer[i][1] = "REQUEST" /\ toServer[i] = toServer[j] => i = j
  /\ \A i, j \in 1..Len(toClient) : toClient[i] = toClient[j] => i = j

OnePlace ==
  \A k \in Requests, id \in Ids :
    /\ ~(Sent(k, id) /\ (Asked(k, id) \/ Answered(k, id) \/ Runs(k, id)))
    /\ ~(Asked(k, id) /\ (Answered(k, id) \/ Runs(k, id)))
    /\ ~(Answered(k, id) /\ Runs(k, id))

\* Exactly the callbacks that wait, and are not lost, have their request somewhere.
WaitingIsSomewhere ==
  \A k \in Requests, id \in Ids :
    Waits(k, id) /\ id \notin lost <=>
      Sent(k, id) \/ Asked(k, id) \/ Answered(k, id) \/ Runs(k, id)

\* From the request to its answer the topic stays subscribed, whatever the broker
\* has read of what is on its way.
StaysSubscribed ==
  \A k \in Requests, id \in Ids :
    /\ \A i \in 1..Len(toServer) : toServer[i] = Request(k, id) =>
         \A n \in i..Len(toServer) : SubscribedAfter(n, k)
    /\ Asked(k, id) \/ Answered(k, id) =>
         \A n \in 0..Len(toServer) : SubscribedAfter(n, k)

UpdatesAreHeard ==
  /\ connected => \A u \in Updates : registered[u] > 0 => Heard(u)
  /\ ~connected => toServer = <<>> /\ toClient = <<>> /\ asked = {}

TbInv == /\ TbTypeOK /\ CallbacksHaveIds /\ MessagesGoOnce /\ OnePlace
         /\ WaitingIsSomewhere /\ StaysSubscribed /\ UpdatesAreHeard


\* The history is part of it: what was called is neither lost nor on its way again.
CalledAreDone ==
  /\ called \subseteq 1..m_request_id /\ called \intersect lost = {}
  /\ \A k \in Requests : InFlight(k) \intersect called = {}

-----------------------------------------------------------------------------
(* The client implements requests that are answered once.                  *)

Once == INSTANCE OnceAnswered WITH made <- m_request_id

\* No callback is called twice, for a request that nobody made, or after its loss,
\* whatever order the answers come in and wherever the connection breaks.
ImplementsOnceAnswered == Once!OnceSpec
=============================================================================
