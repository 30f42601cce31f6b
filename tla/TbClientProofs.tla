--------------------------- MODULE TbClientProofs ---------------------------
(***************************************************************************)
(* Proofs about TbClient, for every capacity and every bound: any number   *)
(* of requests, lost connections, failed sends and messages on their way.  *)
(***************************************************************************)
EXTENDS TbClient, SequenceTheorems, FiniteSetTheorems, TLAPS

-----------------------------------------------------------------------------
(* Sequences.                                                              *)

LEMMA HeadAndTail ==
  ASSUME NEW S, NEW s \in Seq(S), s # <<>>
  PROVE  /\ Len(s) \in Nat \ {0} /\ Head(s) = s[1] /\ s[1] \in S
         /\ Tail(s) \in Seq(S) /\ Len(Tail(s)) = Len(s) - 1
         /\ \A i \in 1..(Len(s) - 1) : Tail(s)[i] = s[i + 1]
  <1>1. Len(s) \in Nat \ {0}
    BY EmptySeq
  <1>2. Tail(s) \in Seq(S) /\ Len(Tail(s)) = Len(s) - 1
    BY HeadTailProperties
  <1>. QED
    BY <1>1, <1>2

\* What is in a sequence without its head, and in two sequences together.
LEMMA InTail ==
  ASSUME NEW S, NEW s \in Seq(S), s # <<>>, NEW x
  PROVE  (\E i \in 1..Len(s) : s[i] = x)
           <=> s[1] = x \/ \E i \in 1..Len(Tail(s)) : Tail(s)[i] = x
  <1>1. ASSUME NEW i \in 1..Len(s), s[i] = x, i # 1
        PROVE  \E j \in 1..Len(Tail(s)) : Tail(s)[j] = x
    <2>1. i - 1 \in 1..Len(Tail(s)) /\ Tail(s)[i - 1] = x
      BY <1>1, HeadAndTail
    <2>. QED
      BY <2>1
  <1>2. ASSUME NEW i \in 1..Len(Tail(s)), Tail(s)[i] = x
        PROVE  i + 1 \in 1..Len(s) /\ s[i + 1] = x
    BY <1>2, HeadAndTail
  <1>3. 1 \in 1..Len(s)
    BY HeadAndTail
  <1>. QED
    BY <1>1, <1>2, <1>3

LEMMA OnceInTail ==
  ASSUME NEW S, NEW s \in Seq(S), s # <<>>,
         \A i \in 1..Len(s) : s[i] = s[1] => i = 1
  PROVE  \A i \in 1..Len(Tail(s)) : Tail(s)[i] # s[1]
  BY HeadAndTail

LEMMA InAppend ==
  ASSUME NEW S, NEW s \in Seq(S), NEW e \in S
  PROVE  /\ Append(s, e) \in Seq(S) /\ Len(Append(s, e)) = Len(s) + 1
         /\ \A i \in 1..Len(s) : Append(s, e)[i] = s[i]
         /\ Append(s, e)[Len(s) + 1] = e
         /\ \A x : (\E i \in 1..Len(Append(s, e)) : Append(s, e)[i] = x)
                     <=> x = e \/ \E i \in 1..Len(s) : s[i] = x
  <1>1. /\ Append(s, e) \in Seq(S) /\ Len(Append(s, e)) = Len(s) + 1 /\ Len(s) \in Nat
        /\ \A i \in 1..Len(s) : Append(s, e)[i] = s[i]
        /\ Append(s, e)[Len(s) + 1] = e
    BY AppendProperties
  <1>. QED
    BY <1>1

LEMMA Removed ==
  ASSUME NEW S, NEW s \in Seq(S), NEW i \in 1..Len(s)
  PROVE  /\ RemoveAt(s, i) \in Seq(S) /\ Len(RemoveAt(s, i)) = Len(s) - 1
         /\ \A j \in 1..(Len(s) - 1) : RemoveAt(s, i)[j] = IF j < i THEN s[j] ELSE s[j + 1]
  <1>1. Len(s) \in Nat /\ \A j \in 1..Len(s) : s[j] \in S
    OBVIOUS
  <1>2. /\ SubSeq(s, 1, i - 1) \in Seq(S) /\ Len(SubSeq(s, 1, i - 1)) = i - 1
        /\ \A j \in 1..(i - 1) : SubSeq(s, 1, i - 1)[j] = s[j]
    BY <1>1, SubSeqProperties
  <1>3. /\ SubSeq(s, i + 1, Len(s)) \in Seq(S) /\ Len(SubSeq(s, i + 1, Len(s))) = Len(s) - i
        /\ \A j \in 1..(Len(s) - i) : SubSeq(s, i + 1, Len(s))[j] = s[i + j]
    BY <1>1, SubSeqProperties
  <1>4. /\ RemoveAt(s, i) \in Seq(S) /\ Len(RemoveAt(s, i)) = Len(s) - 1
        /\ \A j \in 1..(Len(s) - 1) : RemoveAt(s, i)[j] =
             IF j <= i - 1 THEN SubSeq(s, 1, i - 1)[j]
                           ELSE SubSeq(s, i + 1, Len(s))[j - (i - 1)]
    <2> DEFINE a == SubSeq(s, 1, i - 1)
               b == SubSeq(s, i + 1, Len(s))
    <2>1. /\ a \o b \in Seq(S) /\ Len(a \o b) = Len(a) + Len(b)
          /\ \A j \in 1..(Len(a) + Len(b)) : (a \o b)[j] = IF j <= Len(a) THEN a[j] ELSE b[j - Len(a)]
      BY <1>2, <1>3, ConcatProperties
    <2>2. Len(a) = i - 1 /\ Len(b) = Len(s) - i
      BY <1>2, <1>3
    <2>3. RemoveAt(s, i) = a \o b
      BY DEF RemoveAt
    <2> HIDE DEF a, b
    <2>4. Len(a) + Len(b) = Len(s) - 1
      BY <1>1, <2>2
    <2>5. \A j \in 1..(Len(s) - 1) :
             (a \o b)[j] = IF j <= i - 1 THEN a[j] ELSE b[j - (i - 1)]
      BY <2>1, <2>2, <2>4
    <2>. QED
      BY <2>1, <2>3, <2>4, <2>5 DEF a, b
  <1>5. ASSUME NEW j \in 1..(Len(s) - 1)
        PROVE  RemoveAt(s, i)[j] = IF j < i THEN s[j] ELSE s[j + 1]
    <2>1. CASE j < i
      BY <1>1, <1>2, <1>4, <2>1
    <2>2. CASE j >= i
      <3>1. j - (i - 1) \in 1..(Len(s) - i) /\ i + (j - (i - 1)) = j + 1 /\ ~(j <= i - 1)
        BY <1>1, <2>2
      <3>2. SubSeq(s, i + 1, Len(s))[j - (i - 1)] = s[i + (j - (i - 1))]
        BY <1>3, <3>1
      <3>3. RemoveAt(s, i)[j] = s[j + 1]
        BY <1>4, <3>1, <3>2
      <3>. QED
        BY <2>2, <3>3
    <2>. QED
      BY <2>1, <2>2
  <1>. QED
    BY <1>4, <1>5

\* A finite set and its elements in some order.
LEMMA SetInOrder ==
  ASSUME NEW S, IsFiniteSet(S)
  PROVE  /\ SetToSeq(S) \in Seq(S)
         /\ \A x \in S : \E i \in 1..Len(SetToSeq(S)) : SetToSeq(S)[i] = x
  <1> DEFINE n == Cardinality(S)
  <1>1. n \in Nat /\ ExistsBijection(1..n, S)
    BY FS_CardinalityType
  <1>2. \E f \in [1..n -> S] : IsInjective(f)
    BY <1>1 DEF ExistsBijection, Bijection, Injection
  <1>3. SetToSeq(S) \in [1..n -> S] /\ IsInjective(SetToSeq(S))
    BY <1>2 DEF SetToSeq
  <1>4. SetToSeq(S) \in Injection(1..n, S)
    BY <1>3 DEF Injection
  <1>5. IsFiniteSet(1..n) /\ Cardinality(1..n) = n
    BY <1>1, FS_Interval
  <1>6. SetToSeq(S) \in Surjection(1..n, S)
    BY <1>4, <1>5, FS_Injection
  <1>7. SetToSeq(S) \in Seq(S) /\ Len(SetToSeq(S)) = n
    BY <1>1, <1>3
  <1>. QED
    BY <1>6, <1>7 DEF Surjection

-----------------------------------------------------------------------------
(* Messages.                                                               *)

LEMMA MessagesTyped ==
  /\ \A t \in Topics : Subscribe(t) \in Messages /\ Unsubscribe(t) \in Messages
  /\ \A k \in Requests, id \in Ids : Request(k, id) \in Messages
  BY DEF Messages, Subscribe, Unsubscribe, Request

LEMMA MessageKinds ==
  ASSUME NEW m \in Messages
  PROVE  \/ m[1] = "SUBSCRIBE" /\ m[2] \in Topics /\ m = Subscribe(m[2])
         \/ m[1] = "UNSUBSCRIBE" /\ m[2] \in Topics /\ m = Unsubscribe(m[2])
         \/ m[1] = "REQUEST" /\ m[2] \in Requests /\ m[3] \in Ids /\ m = Request(m[2], m[3])
  BY DEF Messages, Subscribe, Unsubscribe, Request

LEMMA MessagesDiffer ==
  /\ \A s, t : Subscribe(s) # Unsubscribe(t)
  /\ \A s, t : Unsubscribe(s) = Unsubscribe(t) => s = t
  /\ \A k, id, t : Request(k, id) # Subscribe(t) /\ Request(k, id) # Unsubscribe(t)
  /\ \A k, id, l, x : Request(k, id) = Request(l, x) => k = l /\ id = x
  /\ \A k, id : Request(k, id)[1] = "REQUEST"
  BY DEF Subscribe, Unsubscribe, Request

LEMMA TopicsDiffer == /\ Requests \subseteq Topics /\ Updates \subseteq Topics
                      /\ \A k \in Requests, u \in Updates : k # u
  BY DEF Requests, Updates, Topics

-----------------------------------------------------------------------------
(* What the broker will have read.                                         *)

\* The broker reads one message.
LEMMA ReadKeeps ==
  ASSUME TbTypeOK, Broker, NEW topic \in Topics, NEW n \in 1..Len(toServer),
         SubscribedAfter(n, topic)
  PROVE  SubscribedAfter(n - 1, topic)'
  <1> DEFINE m == toServer[1]
  <1>1. /\ Len(toServer) \in Nat \ {0} /\ Head(toServer) = m /\ m \in Messages
        /\ toServer' = Tail(toServer)
        /\ \A i \in 1..(Len(toServer) - 1) : toServer'[i] = toServer[i + 1]
    BY HeadAndTail DEF TbTypeOK, Broker
  <1>2. /\ m = Subscribe(m[2]) => subs' = subs \union {m[2]}
        /\ m = Unsubscribe(m[2]) => subs' = subs \ {m[2]}
        /\ m[1] = "REQUEST" => subs' = subs
    BY <1>1 DEF Broker, Subscribe, Unsubscribe
  <1>3. m # Unsubscribe(topic) /\ topic \in subs => topic \in subs'
    BY <1>1, <1>2, MessageKinds
  <1>4. m = Subscribe(topic) => topic \in subs'
    BY <1>1, <1>2 DEF Subscribe
  <1>5. ASSUME NEW i \in 2..n
        PROVE  i - 1 \in 1..(n - 1) /\ toServer'[i - 1] = toServer[i]
    BY <1>1
  <1>6. ASSUME NEW i \in 1..(n - 1)
        PROVE  i + 1 \in 2..n /\ toServer'[i] = toServer[i + 1]
    BY <1>1
  <1>7. CASE topic \in subs /\ \A i \in 1..n : toServer[i] # Unsubscribe(topic)
    <2>1. topic \in subs'
      BY <1>1, <1>3, <1>7
    <2>2. \A i \in 1..(n - 1) : toServer'[i] # Unsubscribe(topic)
      BY <1>6, <1>7
    <2>. QED
      BY <2>1, <2>2 DEF SubscribedAfter, Unsubscribe
  <1>8. ASSUME NEW i \in 1..n, toServer[i] = Subscribe(topic),
               \A j \in (i + 1)..n : toServer[j] # Unsubscribe(topic)
        PROVE  SubscribedAfter(n - 1, topic)'
    <2>1. CASE i = 1
      <3>1. \A j \in 1..(n - 1) : toServer'[j] # Unsubscribe(topic)
        BY <1>6, <1>8, <2>1
      <3>. QED
        BY <1>4, <1>8, <2>1, <3>1 DEF SubscribedAfter, Unsubscribe
    <2>2. CASE i # 1
      <3>1. i - 1 \in 1..(n - 1) /\ toServer'[i - 1] = Subscribe(topic)
        BY <1>5, <1>8, <2>2
      <3>2. \A j \in ((i - 1) + 1)..(n - 1) : toServer'[j] # Unsubscribe(topic)
        BY <1>6, <1>8, <2>2
      <3>. QED
        BY <3>1, <3>2 DEF SubscribedAfter, Subscribe, Unsubscribe
    <2>. QED
      BY <2>1, <2>2
  <1>. QED
    BY <1>7, <1>8 DEF SubscribedAfter

\* Messages are sent: what the broker reads before them is as it was, and behind
\* them the topic is subscribed if they do not unsubscribe it.
LEMMA SendKeeps ==
  ASSUME NEW topic, NEW n \in Nat, n <= Len(toServer), SubscribedAfter(n, topic),
         toServer \in Seq(Messages), NEW messages \in Seq(Messages),
         toServer' = toServer \o messages, subs' = subs
  PROVE  SubscribedAfter(n, topic)'
  <1>1. \A i \in 1..n : toServer'[i] = toServer[i]
    BY ConcatProperties
  <1>2. CASE topic \in subs /\ \A i \in 1..n : toServer[i] # Unsubscribe(topic)
    <2>1. topic \in subs' /\ \A i \in 1..n : toServer'[i] # Unsubscribe(topic)
      BY <1>1, <1>2
    <2>. QED
      BY <2>1 DEF SubscribedAfter, Unsubscribe
  <1>3. ASSUME NEW i \in 1..n, toServer[i] = Subscribe(topic),
               \A j \in (i + 1)..n : toServer[j] # Unsubscribe(topic)
        PROVE  SubscribedAfter(n, topic)'
    <2>1. /\ toServer'[i] = Subscribe(topic)
          /\ \A j \in (i + 1)..n : toServer'[j] # Unsubscribe(topic)
      BY <1>1, <1>3
    <2>. QED
      BY <2>1 DEF SubscribedAfter, Subscribe, Unsubscribe
  <1>. QED
    BY <1>2, <1>3 DEF SubscribedAfter

LEMMA SendExtends ==
  ASSUME NEW topic, SubscribedAfter(Len(toServer), topic),
         toServer \in Seq(Messages), NEW messages \in Seq(Messages),
         toServer' = toServer \o messages, subs' = subs,
         \A i \in 1..Len(messages) : messages[i] # Unsubscribe(topic),
         NEW n \in Len(toServer)..Len(toServer')
  PROVE  SubscribedAfter(n, topic)'
  <1>1. /\ Len(toServer) \in Nat /\ n \in Nat
        /\ \A i \in 1..Len(toServer) : toServer'[i] = toServer[i]
        /\ \A i \in 1..n : i > Len(toServer) => toServer'[i] # Unsubscribe(topic)
    BY ConcatProperties
  <1>2. CASE topic \in subs /\ \A i \in 1..Len(toServer) : toServer[i] # Unsubscribe(topic)
    <2>1. topic \in subs' /\ \A i \in 1..n : toServer'[i] # Unsubscribe(topic)
      BY <1>1, <1>2
    <2>. QED
      BY <2>1 DEF SubscribedAfter, Unsubscribe
  <1>3. ASSUME NEW i \in 1..Len(toServer), toServer[i] = Subscribe(topic),
               \A j \in (i + 1)..Len(toServer) : toServer[j] # Unsubscribe(topic)
        PROVE  SubscribedAfter(n, topic)'
    <2>1. /\ i \in 1..n /\ toServer'[i] = Subscribe(topic)
          /\ \A j \in (i + 1)..n : toServer'[j] # Unsubscribe(topic)
      BY <1>1, <1>3
    <2>. QED
      BY <2>1 DEF SubscribedAfter, Subscribe, Unsubscribe
  <1>. QED
    BY <1>2, <1>3 DEF SubscribedAfter

LEMMA SendSubscribes ==
  ASSUME NEW topic,
         toServer \in Seq(Messages), NEW messages \in Seq(Messages),
         toServer' = toServer \o messages,
         messages # <<>>, messages[1] = Subscribe(topic),
         \A i \in 1..Len(messages) : messages[i] # Unsubscribe(topic),
         NEW n \in (Len(toServer) + 1)..Len(toServer')
  PROVE  SubscribedAfter(n, topic)'
  <1>1. /\ Len(toServer) \in Nat /\ n \in Nat /\ Len(messages) \in Nat \ {0}
        /\ toServer'[Len(toServer) + 1] = Subscribe(topic)
        /\ \A i \in 1..n : i > Len(toServer) => toServer'[i] # Unsubscribe(topic)
    BY ConcatProperties, EmptySeq
  <1> DEFINE first == Len(toServer) + 1
  <1>2. /\ first \in 1..n /\ toServer'[first] = Subscribe(topic)
        /\ \A j \in (first + 1)..n : toServer'[j] # Unsubscribe(topic)
    BY <1>1
  <1>. QED
    BY <1>2 DEF SubscribedAfter, Subscribe, Unsubscribe


-----------------------------------------------------------------------------
(* Types.                                                                  *)

LEMMA TbTypeInit == Init => TbTypeOK
  <1> SUFFICES ASSUME Init PROVE TbTypeOK
    OBVIOUS
  <1>1. /\ <<>> \in Seq(Ids) /\ <<>> \in Seq(Messages) /\ <<>> \in Seq(Requests \X Ids)
    BY EmptySeq
  <1>. QED
    BY <1>1 DEF Init, TbTypeOK

\* The client sends, or does not because it is not connected.
LEMMA SendTyped ==
  ASSUME toServer \in Seq(Messages), NEW messages \in Seq(Messages), Send(messages)
  PROVE  toServer' \in Seq(Messages)
  BY ConcatProperties DEF Send

LEMMA OneMessage ==
  ASSUME NEW m \in Messages
  PROVE  /\ <<m>> \in Seq(Messages) /\ Len(<<m>>) = 1 /\ <<m>>[1] = m /\ <<m>> # <<>>
  OBVIOUS

LEMMA TwoMessages ==
  ASSUME NEW m \in Messages, NEW n \in Messages
  PROVE  /\ <<m, n>> \in Seq(Messages) /\ Len(<<m, n>>) = 2
         /\ <<m, n>>[1] = m /\ <<m, n>>[2] = n /\ <<m, n>> # <<>>
  OBVIOUS

\* The callback that is called is one that waits for the answer.
LEMMA AskerFound ==
  ASSUME TbTypeOK, CallbacksHaveIds, NEW k \in Requests, NEW id, id \in Range(waiting[k])
  PROVE  Asker(k, id) \in 1..Len(waiting[k]) /\ waiting[k][Asker(k, id)] = id
  <1>1. waiting[k] \in Seq(Ids)
    BY DEF TbTypeOK
  <1>2. PICK i \in 1..Len(waiting[k]) : waiting[k][i] = id
    BY <1>1, RangeEquality
  <1>3. \A j \in 1..(i - 1) : waiting[k][j] # id
    <2> SUFFICES ASSUME NEW j \in 1..(i - 1), waiting[k][j] = id PROVE FALSE
      OBVIOUS
    <2>1. j \in 1..Len(waiting[k]) /\ j # i
      BY <1>1
    <2>. QED
      BY <1>2, <2>1 DEF CallbacksHaveIds
  <1>. QED
    BY <1>2, <1>3 DEF Asker

\* A new session starts with a message for every topic of an update.
LEMMA ResubscribedInOrder ==
  LET again == SetToSeq({Subscribe(u) : u \in Resubscribed}) IN
  /\ again \in Seq(Messages)
  /\ \A i \in 1..Len(again) : \E u \in Updates : again[i] = Subscribe(u)
  /\ \A u \in Updates : registered[u] > 0 => \E i \in 1..Len(again) : again[i] = Subscribe(u)
  <1> DEFINE S == {Subscribe(u) : u \in Resubscribed}
  <1>1. IsFiniteSet(S)
    <2>1. S \subseteq {Subscribe("sharedAttributes"), Subscribe("serverRpc")}
      BY DEF Resubscribed, Updates
    <2>2. IsFiniteSet({Subscribe("sharedAttributes"), Subscribe("serverRpc")})
      <3>1. IsFiniteSet({Subscribe("sharedAttributes")})
        BY FS_Singleton
      <3>2. IsFiniteSet({Subscribe("sharedAttributes")} \cup {Subscribe("serverRpc")})
        BY <3>1, FS_AddElement
      <3>. QED
        BY <3>2
    <2>. QED
      BY <2>1, <2>2, FS_Subset
  <1> DEFINE again == SetToSeq(S)
  <1>2. again \in Seq(S) /\ \A x \in S : \E i \in 1..Len(again) : again[i] = x
    BY <1>1, SetInOrder
  <1>3. S \subseteq Messages
    BY MessagesTyped, TopicsDiffer DEF Resubscribed
  <1>4. \A i \in 1..Len(again) : again[i] \in S
    <2> HIDE DEF again, S
    <2>. QED
      BY <1>2
  <1>5. again \in Seq(Messages)
    BY <1>2, <1>3, SeqMonotonic
  <1>. QED
    BY <1>2, <1>4, <1>5 DEF Resubscribed

LEMMA RunningTyped ==
  ASSUME TbTypeOK, running # <<>>
  PROVE  /\ running[1] \in Requests /\ running[2] \in 1..Len(waiting[running[1]])
         /\ waiting[running[1]] \in Seq(Ids) /\ waiting[running[1]][running[2]] \in Ids
  <1>1. running[1] \in Requests /\ running[2] \in Ids
    BY DEF TbTypeOK
  <1>2. waiting[running[1]] \in Seq(Ids)
    BY <1>1 DEF TbTypeOK
  <1>3. running[2] \in 1..Len(waiting[running[1]])
    BY <1>1, <1>2 DEF TbTypeOK, Ids
  <1>. QED
    BY <1>1, <1>2, <1>3

LEMMA TbTypeStep == TbTypeOK /\ CallbacksHaveIds /\ [Next]_tbVars => TbTypeOK'
  <1> SUFFICES ASSUME TbTypeOK, CallbacksHaveIds, [Next]_tbVars PROVE TbTypeOK'
    OBVIOUS
  <1> USE DEF callbackVars, serverVars
  <1>1. ASSUME NEW k \in Requests, MakeRequest(k) PROVE TbTypeOK'
    <2>1. m_request_id + 1 \in Ids /\ m_request_id \in Nat /\ waiting[k] \in Seq(Ids)
      BY DEF TbTypeOK, Ids
    <2>2. /\ waiting' \in [Requests -> Seq(Ids)]
          /\ \A l \in Requests : Len(waiting'[l]) >= Len(waiting[l])
      <3>1. Append(waiting[k], m_request_id + 1) \in Seq(Ids)
            /\ Len(Append(waiting[k], m_request_id + 1)) = Len(waiting[k]) + 1
        BY <2>1, InAppend
      <3>2. \A l \in Requests : Len(waiting[l]) \in Nat
        BY DEF TbTypeOK
      <3>3. waiting' = [waiting EXCEPT ![k] = Append(waiting[k], m_request_id + 1)]
        BY <1>1 DEF MakeRequest
      <3>. QED
        BY <3>1, <3>2, <3>3 DEF TbTypeOK
    <2>3. toServer' \in Seq(Messages)
      <3>1. Subscribe(k) \in Messages /\ Request(k, m_request_id + 1) \in Messages
        BY <2>1, MessagesTyped, TopicsDiffer
      <3>2. <<Subscribe(k)>> \in Seq(Messages)
            /\ <<Subscribe(k), Request(k, m_request_id + 1)>> \in Seq(Messages)
        BY <3>1
      <3>. QED
        BY <1>1, <3>2, SendTyped DEF MakeRequest, TbTypeOK
    <2>4. lost' \subseteq 1..m_request_id'
      <3>1. /\ lost' \subseteq lost \union {m_request_id + 1}
            /\ m_request_id' = m_request_id + 1 /\ lost \subseteq 1..m_request_id
        BY <1>1 DEF MakeRequest, TbTypeOK
      <3>. QED
        BY <2>1, <3>1
    <2>5. running # <<>> => /\ running \in Requests \X Ids
                            /\ running[2] <= Len(waiting'[running[1]])
      <3> SUFFICES ASSUME running # <<>> PROVE running[2] <= Len(waiting'[running[1]])
        BY DEF TbTypeOK
      <3>1. running[1] \in Requests /\ running[2] \in Nat /\ running[2] <= Len(waiting[running[1]])
        BY DEF TbTypeOK, Ids
      <3>2. Len(waiting[running[1]]) \in Nat /\ Len(waiting'[running[1]]) \in Nat
        BY <2>2, <3>1 DEF TbTypeOK
      <3>. QED
        BY <2>2, <3>1, <3>2
    <2>. QED
      BY <1>1, <2>1, <2>2, <2>3, <2>4, <2>5 DEF MakeRequest, TbTypeOK
  <1>2. ASSUME NEW u \in Updates, AddCallback(u) \/ DropCallbacks(u) PROVE TbTypeOK'
    <2>1. <<Subscribe(u)>> \in Seq(Messages) /\ <<Unsubscribe(u)>> \in Seq(Messages)
      BY MessagesTyped, TopicsDiffer
    <2>2. toServer' \in Seq(Messages)
      BY <1>2, <2>1, SendTyped DEF AddCallback, DropCallbacks, TbTypeOK
    <2>3. registered' \in [Updates -> Nat]
      <3>1. registered \in [Updates -> Nat] /\ registered[u] + 1 \in Nat
        BY DEF TbTypeOK
      <3>2. \/ registered' = [registered EXCEPT ![u] = registered[u] + 1]
            \/ registered' = [registered EXCEPT ![u] = 0]
        BY <1>2 DEF AddCallback, DropCallbacks
      <3>. QED
        BY <3>1, <3>2
    <2>. QED
      BY <1>2, <2>2, <2>3 DEF AddCallback, DropCallbacks, TbTypeOK
  <1>3. CASE OnMessage
    <2> DEFINE k == Head(toClient)[1]
               id == Head(toClient)[2]
    <2>1. /\ k \in Requests /\ id \in Ids /\ toClient' \in Seq(Requests \X Ids)
      BY <1>3, HeadTailProperties DEF OnMessage, TbTypeOK
    <2>2. toServer' \in Seq(Messages)
      <3>1. <<Unsubscribe(k)>> \in Seq(Messages)
        BY <2>1, MessagesTyped, TopicsDiffer
      <3>. QED
        BY <1>3, <3>1, SendTyped DEF OnMessage, TbTypeOK
    <2>3. running' # <<>> => /\ running' \in Requests \X Ids
                             /\ running'[2] <= Len(waiting[running'[1]])
      <3>1. CASE id \in Range(waiting[k])
        <4>1. Asker(k, id) \in 1..Len(waiting[k]) /\ running' = <<k, Asker(k, id)>>
          BY <1>3, <2>1, <3>1, AskerFound DEF OnMessage
        <4>2. Asker(k, id) \in Ids /\ Asker(k, id) <= Len(waiting[k])
          BY <4>1 DEF Ids
        <4>. QED
          BY <2>1, <4>1, <4>2
      <3>2. CASE id \notin Range(waiting[k])
        BY <1>3, <3>2 DEF OnMessage
      <3>. QED
        BY <3>1, <3>2
    <2>. QED
      BY <1>3, <2>1, <2>2, <2>3 DEF OnMessage, TbTypeOK
  <1>4. CASE Returned
    <2>1. /\ running[1] \in Requests /\ running[2] \in 1..Len(waiting[running[1]])
          /\ waiting[running[1]] \in Seq(Ids)
      BY <1>4, RunningTyped DEF Returned
    <2>2. waiting' \in [Requests -> Seq(Ids)]
      <3>1. RemoveAt(waiting[running[1]], running[2]) \in Seq(Ids)
        BY <2>1, Removed
      <3>. QED
        BY <1>4, <3>1 DEF Returned, TbTypeOK
    <2>3. toServer' \in Seq(Messages)
      <3>1. <<Unsubscribe(running[1])>> \in Seq(Messages)
        BY <2>1, MessagesTyped, TopicsDiffer
      <3>. QED
        BY <1>4, <3>1, SendTyped DEF Returned, TbTypeOK
    <2>. QED
      BY <1>4, <2>2, <2>3 DEF Returned, TbTypeOK
  <1>5. CASE Connect
    <2>1. toServer' \in Seq(Messages)
      BY <1>5, ResubscribedInOrder DEF Connect
    <2>. QED
      BY <1>5, <2>1 DEF Connect, TbTypeOK
  <1>6. CASE Drop
    <2>1. lost' \subseteq 1..m_request_id
      BY <1>6 DEF Drop, InFlight, TbTypeOK
    <2>2. toServer' \in Seq(Messages) /\ toClient' \in Seq(Requests \X Ids)
          /\ subs' = {} /\ asked' = {} /\ connected' = FALSE
      BY <1>6, EmptySeq DEF Drop
    <2>. QED
      BY <1>6, <2>1, <2>2 DEF Drop, TbTypeOK
  <1>7. CASE Broker
    <2>1. /\ Head(toServer) \in Messages /\ toServer' \in Seq(Messages)
      BY <1>7, HeadTailProperties DEF Broker, TbTypeOK
    <2>2. subs' \subseteq Topics /\ asked' \subseteq Requests \X Ids
      <3> DEFINE m == Head(toServer)
      <3>1. CASE m[1] = "SUBSCRIBE"
        BY <1>7, <2>1, <3>1, MessageKinds DEF Broker, TbTypeOK, Messages
      <3>2. CASE m[1] = "UNSUBSCRIBE"
        BY <1>7, <2>1, <3>2, MessageKinds DEF Broker, TbTypeOK, Messages
      <3>3. CASE m[1] = "REQUEST"
        BY <1>7, <2>1, <3>3, MessageKinds DEF Broker, TbTypeOK, Messages
      <3>. QED
        BY <2>1, <3>1, <3>2, <3>3, MessageKinds
    <2>. QED
      BY <1>7, <2>1, <2>2 DEF Broker, TbTypeOK
  <1>8. CASE Answer
    <2>1. PICK a \in asked : /\ asked' = asked \ {a}
                             /\ toClient' = IF a[1] \in subs THEN Append(toClient, a) ELSE toClient
      BY <1>8 DEF Answer
    <2>2. toClient' \in Seq(Requests \X Ids)
      BY <2>1, InAppend DEF TbTypeOK
    <2>. QED
      BY <1>8, <2>1, <2>2 DEF Answer, TbTypeOK
  <1>9. CASE UNCHANGED tbVars
    BY <1>9 DEF tbVars, TbTypeOK
  <1>. QED
    BY <1>1, <1>2, <1>3, <1>4, <1>5, <1>6, <1>7, <1>8, <1>9 DEF Next, Application


-----------------------------------------------------------------------------
(* Sending.                                                                *)

\* What is sent is appended, or nothing is while there is no connection.
LEMMA SendAppends ==
  ASSUME TbTypeOK, NEW messages \in Seq(Messages), Send(messages)
  PROVE  \E ms \in {messages, <<>>} : toServer' = toServer \o ms /\ (connected => ms = messages)
  <1>1. CASE connected
    BY <1>1 DEF Send
  <1>2. CASE ~connected
    <2>1. toServer' = toServer \o <<>>
      BY <1>2, ConcatEmptySeq DEF Send, TbTypeOK
    <2>. QED
      BY <1>2, <2>1
  <1>. QED
    BY <1>1, <1>2

LEMMA SentGrows ==
  ASSUME TbTypeOK, NEW messages \in Seq(Messages), toServer' = toServer \o messages
  PROVE  \A k, id : Sent(k, id)' <=>
            Sent(k, id) \/ \E i \in 1..Len(messages) : messages[i] = Request(k, id)
  <1> SUFFICES ASSUME NEW k, NEW id
               PROVE  Sent(k, id)' <=>
                 Sent(k, id) \/ \E i \in 1..Len(messages) : messages[i] = Request(k, id)
    OBVIOUS
  <1>1. toServer \in Seq(Messages) /\ toServer' \in Seq(Messages)
    BY ConcatProperties DEF TbTypeOK
  <1>2. ASSUME NEW i \in 1..Len(toServer)
        PROVE  i \in 1..Len(toServer') /\ toServer'[i] = toServer[i]
    BY <1>1, ConcatProperties
  <1>3. ASSUME NEW i \in 1..Len(messages)
        PROVE  Len(toServer) + i \in 1..Len(toServer') /\ toServer'[Len(toServer) + i] = messages[i]
    BY <1>1, ConcatProperties
  <1>4. ASSUME NEW i \in 1..Len(toServer')
        PROVE  \/ i \in 1..Len(toServer) /\ toServer'[i] = toServer[i]
               \/ i - Len(toServer) \in 1..Len(messages)
                    /\ toServer'[i] = messages[i - Len(toServer)]
    BY <1>1, ConcatProperties
  <1>5. ASSUME Sent(k, id)'
        PROVE  Sent(k, id) \/ \E i \in 1..Len(messages) : messages[i] = Request(k, id)
    <2>1. PICK i \in 1..Len(toServer') : toServer'[i] = Request(k, id)
      BY <1>5 DEF Sent, Request
    <2>. QED
      BY <1>4, <2>1 DEF Sent
  <1>6. ASSUME Sent(k, id) \/ \E i \in 1..Len(messages) : messages[i] = Request(k, id)
        PROVE  Sent(k, id)'
    <2>1. \E i \in 1..Len(toServer') : toServer'[i] = Request(k, id)
      <3>1. CASE Sent(k, id)
        <4>1. PICK i \in 1..Len(toServer) : toServer[i] = Request(k, id)
          BY <3>1 DEF Sent
        <4>. QED
          BY <1>2, <4>1
      <3>2. CASE \E i \in 1..Len(messages) : messages[i] = Request(k, id)
        <4>1. PICK i \in 1..Len(messages) : messages[i] = Request(k, id)
          BY <3>2
        <4>. QED
          BY <1>3, <4>1
      <3>. QED
        BY <1>6, <3>1, <3>2
    <2>. QED
      BY <2>1 DEF Sent, Request
  <1>. QED
    BY <1>5, <1>6

\* Requests that are new and differ keep the messages apart.
LEMMA SendingOnce ==
  ASSUME TbTypeOK, MessagesGoOnce, NEW messages \in Seq(Messages),
         toServer' = toServer \o messages,
         \A i, j \in 1..Len(messages) :
            messages[i][1] = "REQUEST" /\ messages[i] = messages[j] => i = j,
         \A i \in 1..Len(messages), j \in 1..Len(toServer) :
            messages[i][1] = "REQUEST" => messages[i] # toServer[j]
  PROVE  \A i, j \in 1..Len(toServer') :
            toServer'[i][1] = "REQUEST" /\ toServer'[i] = toServer'[j] => i = j
  <1>1. /\ Len(toServer) \in Nat /\ Len(messages) \in Nat
        /\ Len(toServer') = Len(toServer) + Len(messages)
        /\ \A i \in 1..Len(toServer) : toServer'[i] = toServer[i]
        /\ \A i \in 1..Len(toServer') : i > Len(toServer) =>
             /\ toServer'[i] = messages[i - Len(toServer)]
             /\ i - Len(toServer) \in 1..Len(messages)
    BY ConcatProperties DEF TbTypeOK
  <1> SUFFICES ASSUME NEW i \in 1..Len(toServer'), NEW j \in 1..Len(toServer'),
                      toServer'[i][1] = "REQUEST", toServer'[i] = toServer'[j]
               PROVE  i = j
    OBVIOUS
  <1>2. CASE i <= Len(toServer) /\ j <= Len(toServer)
    <2>1. i \in 1..Len(toServer) /\ j \in 1..Len(toServer)
      BY <1>1, <1>2
    <2>. QED
      BY <1>1, <2>1 DEF MessagesGoOnce
  <1>3. CASE i > Len(toServer) /\ j > Len(toServer)
    <2>1. i - Len(toServer) = j - Len(toServer)
      BY <1>1, <1>3
    <2>. QED
      BY <1>1, <2>1
  <1>4. CASE i > Len(toServer) /\ j <= Len(toServer)
    BY <1>1, <1>4
  <1>5. CASE i <= Len(toServer) /\ j > Len(toServer)
    BY <1>1, <1>5
  <1>. QED
    BY <1>1, <1>2, <1>3, <1>4, <1>5

\* Sending keeps every topic subscribed that a request in flight needs, if no message
\* unsubscribes it and a new request comes behind its subscription.
LEMMA SendingKeeps ==
  ASSUME TbInv, NEW messages \in Seq(Messages), toServer' = toServer \o messages, subs' = subs,
         \A k \in Requests, id \in Ids :
           /\ Asked(k, id)' \/ Answered(k, id)' => Asked(k, id) \/ Answered(k, id)
           /\ Sent(k, id)' \/ Asked(k, id)' \/ Answered(k, id)' =>
                \A i \in 1..Len(messages) : messages[i] # Unsubscribe(k)
           /\ \A i \in 1..Len(messages) : messages[i] = Request(k, id) =>
                i > 1 /\ messages[1] = Subscribe(k)
  PROVE  StaysSubscribed'
  <1>1. /\ Len(toServer) \in Nat /\ Len(messages) \in Nat
        /\ Len(toServer') = Len(toServer) + Len(messages)
        /\ \A i \in 1..Len(toServer) : toServer'[i] = toServer[i]
        /\ \A i \in 1..Len(toServer') : i > Len(toServer) =>
             /\ toServer'[i] = messages[i - Len(toServer)]
             /\ i - Len(toServer) \in 1..Len(messages)
        /\ toServer \in Seq(Messages)
    BY ConcatProperties DEF TbInv, TbTypeOK
  <1>2. ASSUME NEW k \in Requests, NEW id \in Ids, NEW i \in 1..Len(toServer'),
               toServer'[i] = Request(k, id), NEW n \in i..Len(toServer')
        PROVE  SubscribedAfter(n, k)'
    <2>1. Sent(k, id)'
      BY <1>2 DEF Sent, Request
    <2>2. \A j \in 1..Len(messages) : messages[j] # Unsubscribe(k)
      BY <2>1
    <2>3. CASE i <= Len(toServer)
      <3>1. i \in 1..Len(toServer) /\ toServer[i] = Request(k, id)
        BY <1>1, <1>2, <2>3
      <3>2. \A m \in i..Len(toServer) : SubscribedAfter(m, k)
        BY <3>1 DEF TbInv, StaysSubscribed
      <3>3. CASE n <= Len(toServer)
        <4>1. n \in Nat /\ SubscribedAfter(n, k)
          BY <1>1, <3>2, <3>3
        <4>. QED
          BY <1>1, <3>3, <4>1, SendKeeps
      <3>4. CASE n > Len(toServer)
        <4>1. SubscribedAfter(Len(toServer), k) /\ n \in Len(toServer)..Len(toServer')
          BY <1>1, <3>1, <3>2, <3>4
        <4>. QED
          BY <1>1, <2>2, <4>1, SendExtends
      <3>. QED
        BY <1>1, <3>3, <3>4
    <2>4. CASE i > Len(toServer)
      <3>1. /\ i - Len(toServer) \in 1..Len(messages)
            /\ messages[i - Len(toServer)] = Request(k, id)
        BY <1>1, <1>2, <2>4
      <3>2. i - Len(toServer) > 1 /\ messages[1] = Subscribe(k) /\ messages # <<>>
        BY <3>1, EmptySeq
      <3>3. n \in (Len(toServer) + 1)..Len(toServer')
        BY <1>1, <2>4
      <3>. QED
        BY <1>1, <2>2, <3>2, <3>3, SendSubscribes
    <2>. QED
      BY <1>1, <2>3, <2>4
  <1>3. ASSUME NEW k \in Requests, NEW id \in Ids, Asked(k, id)' \/ Answered(k, id)',
               NEW n \in 0..Len(toServer')
        PROVE  SubscribedAfter(n, k)'
    <2>1. \A j \in 1..Len(messages) : messages[j] # Unsubscribe(k)
      BY <1>3
    <2>2. \A m \in 0..Len(toServer) : SubscribedAfter(m, k)
      BY <1>3 DEF TbInv, StaysSubscribed
    <2>3. CASE n <= Len(toServer)
      <3>1. n \in Nat /\ SubscribedAfter(n, k)
        BY <1>1, <2>2, <2>3
      <3>. QED
        BY <1>1, <2>3, <3>1, SendKeeps
    <2>4. CASE n > Len(toServer)
      <3>1. SubscribedAfter(Len(toServer), k) /\ n \in Len(toServer)..Len(toServer')
        BY <1>1, <2>2, <2>4
      <3>. QED
        BY <1>1, <2>1, <3>1, SendExtends
    <2>. QED
      BY <1>1, <2>3, <2>4
  <1>. QED
    BY <1>2, <1>3 DEF StaysSubscribed, Request

\* And every topic of an update that keeps a callback.
LEMMA SendingIsHeard ==
  ASSUME TbInv, NEW messages \in Seq(Messages), toServer' = toServer \o messages, subs' = subs,
         connected, connected' = connected,
         \A u \in Updates : registered'[u] > 0 =>
           /\ \A i \in 1..Len(messages) : messages[i] # Unsubscribe(u)
           /\ registered[u] > 0 \/ (messages # <<>> /\ messages[1] = Subscribe(u))
  PROVE  UpdatesAreHeard'
  <1>1. /\ Len(toServer) \in Nat /\ Len(messages) \in Nat
        /\ Len(toServer') = Len(toServer) + Len(messages)
        /\ toServer \in Seq(Messages)
    BY ConcatProperties DEF TbInv, TbTypeOK
  <1>2. ASSUME NEW u \in Updates, registered'[u] > 0, NEW n \in Nat, n = Len(toServer')
        PROVE  SubscribedAfter(n, u)'
    <2>1. CASE registered[u] > 0
      <3>1. SubscribedAfter(Len(toServer), u)
        BY <2>1 DEF TbInv, UpdatesAreHeard, Heard
      <3>2. n \in Len(toServer)..Len(toServer')
        BY <1>1, <1>2
      <3>. QED
        BY <1>1, <1>2, <3>1, <3>2, SendExtends
    <2>2. CASE messages # <<>> /\ messages[1] = Subscribe(u)
      <3>1. n \in (Len(toServer) + 1)..Len(toServer')
        BY <1>1, <1>2, <2>2, EmptySeq
      <3>. QED
        BY <1>1, <1>2, <2>2, <3>1, SendSubscribes
    <2>. QED
      BY <1>2, <2>1, <2>2
  <1>3. ASSUME NEW u \in Updates, registered'[u] > 0 PROVE Heard(u)'
    <2>1. PICK n \in Nat : n = Len(toServer')
      BY <1>1
    <2>2. SubscribedAfter(n, u)'
      BY <1>3, <2>1, <1>2
    <2>. QED
      BY <2>1, <2>2 DEF Heard, SubscribedAfter
  <1>. QED
    BY <1>3 DEF UpdatesAreHeard


-----------------------------------------------------------------------------
(* Steps of the client.                                                    *)

\* Where a request is, is untouched by a step that leaves the messages' numbers alone.
LEMMA SamePlaces ==
  ASSUME CallbacksHaveIds, OnePlace, WaitingIsSomewhere,
         UNCHANGED <<waiting, running, asked, toClient, lost, m_request_id>>,
         \A k \in Requests, id \in Ids : Sent(k, id)' <=> Sent(k, id)
  PROVE  CallbacksHaveIds' /\ OnePlace' /\ WaitingIsSomewhere'
  <1>1. CallbacksHaveIds'
    BY DEF CallbacksHaveIds
  <1>2. ASSUME NEW k \in Requests, NEW id \in Ids
        PROVE  /\ Waits(k, id)' <=> Waits(k, id)
               /\ Asked(k, id)' <=> Asked(k, id)
               /\ Answered(k, id)' <=> Answered(k, id)
               /\ Runs(k, id)' <=> Runs(k, id)
    BY DEF Waits, Asked, Answered, Runs
  <1>3. OnePlace'
    BY <1>2 DEF OnePlace
  <1>4. WaitingIsSomewhere'
    BY <1>2 DEF WaitingIsSomewhere
  <1>. QED
    BY <1>1, <1>3, <1>4

LEMMA MakeRequestStep ==
  ASSUME TbInv, NEW k \in Requests, MakeRequest(k), TbTypeOK'
  PROVE  TbInv'
  <1> DEFINE new == m_request_id + 1
  <1>0. /\ m_request_id \in Nat /\ new \in Ids /\ m_request_id' = new
        /\ \A l \in Requests : waiting[l] \in Seq(Ids) /\ Len(waiting[l]) \in Nat
        /\ toServer \in Seq(Messages) /\ lost \subseteq 1..m_request_id
        /\ waiting' = [waiting EXCEPT ![k] = Append(waiting[k], new)]
        /\ waiting \in [Requests -> Seq(Ids)]
        /\ connected /\ connected' = connected
        /\ UNCHANGED <<registered, running, toClient, subs, asked>>
    BY DEF MakeRequest, TbInv, TbTypeOK, Ids, serverVars
  <1>1. /\ \A l \in Requests : l # k => waiting'[l] = waiting[l]
        /\ waiting'[k] = Append(waiting[k], new)
    BY <1>0
  <1>2. /\ Len(waiting'[k]) = Len(waiting[k]) + 1
        /\ \A i \in 1..Len(waiting[k]) : waiting'[k][i] = waiting[k][i]
        /\ waiting'[k][Len(waiting[k]) + 1] = new
        /\ \A x : (\E i \in 1..Len(waiting'[k]) : waiting'[k][i] = x)
                    <=> x = new \/ \E i \in 1..Len(waiting[k]) : waiting[k][i] = x
    BY <1>0, <1>1, InAppend
  <1>3. \A l \in Requests, id \in Ids :
          Waits(l, id)' <=> Waits(l, id) \/ (l = k /\ id = new)
    <2> SUFFICES ASSUME NEW l \in Requests, NEW id \in Ids
                 PROVE  Waits(l, id)' <=> Waits(l, id) \/ (l = k /\ id = new)
      OBVIOUS
    <2>1. CASE l = k
      BY <1>2, <2>1 DEF Waits
    <2>2. CASE l # k
      BY <1>1, <2>2 DEF Waits
    <2>. QED
      BY <2>1, <2>2
  <1> HIDE DEF new
  <1>4. \A l \in Requests : ~Waits(l, new) /\ ~Sent(l, new) /\ ~Asked(l, new)
                              /\ ~Answered(l, new) /\ ~Runs(l, new)
    <2>1. \A l \in Requests : ~Waits(l, new)
      BY <1>0 DEF TbInv, CallbacksHaveIds, Waits, new
    <2>. QED
      BY <1>0, <2>1 DEF TbInv, WaitingIsSomewhere
  <1>5. new \notin lost
    BY <1>0 DEF new
  <1>6. PICK ms \in {<<Subscribe(k), Request(k, new)>>, <<Subscribe(k)>>} :
          /\ toServer' = toServer \o ms
          /\ \/ ms = <<Subscribe(k), Request(k, new)>> /\ lost' = lost
             \/ ms = <<Subscribe(k)>> /\ lost' = lost \union {new}
    <2>1. \/ Send(<<Subscribe(k), Request(k, new)>>) /\ lost' = lost
          \/ Send(<<Subscribe(k)>>) /\ lost' = lost \union {new}
      BY DEF MakeRequest, new
    <2>2. CASE Send(<<Subscribe(k), Request(k, new)>>) /\ lost' = lost
      <3>1. toServer' = toServer \o <<Subscribe(k), Request(k, new)>>
        BY <1>0, <2>2 DEF Send
      <3>. QED
        BY <2>2, <3>1
    <2>3. CASE Send(<<Subscribe(k)>>) /\ lost' = lost \union {new}
      <3>1. toServer' = toServer \o <<Subscribe(k)>>
        BY <1>0, <2>3 DEF Send
      <3>. QED
        BY <2>3, <3>1
    <2>. QED
      BY <2>1, <2>2, <2>3
  <1>7. /\ ms \in Seq(Messages) /\ ms # <<>> /\ ms[1] = Subscribe(k)
        /\ \A i \in 1..Len(ms) : i = 1 \/ (i = 2 /\ ms[i] = Request(k, new))
        /\ (\E i \in 1..Len(ms) : ms[i] = Request(k, new)) <=> lost' = lost
    <2>1. Subscribe(k) \in Messages /\ Request(k, new) \in Messages
      BY <1>0, MessagesTyped, TopicsDiffer
    <2>2. CASE ms = <<Subscribe(k), Request(k, new)>> /\ lost' = lost
      BY <2>1, <2>2
    <2>3. CASE ms = <<Subscribe(k)>> /\ lost' = lost \union {new}
      <3>1. lost' # lost
        BY <1>5, <2>3
      <3>2. Subscribe(k) # Request(k, new)
        BY MessagesDiffer
      <3>. QED
        BY <2>1, <2>3, <3>1, <3>2
    <2>. QED
      BY <1>6, <2>2, <2>3
  <1>8. \A l \in Requests, id \in Ids :
          Sent(l, id)' <=> Sent(l, id) \/ (lost' = lost /\ l = k /\ id = new)
    <2> SUFFICES ASSUME NEW l \in Requests, NEW id \in Ids
                 PROVE  (\E i \in 1..Len(ms) : ms[i] = Request(l, id))
                          <=> lost' = lost /\ l = k /\ id = new
      BY <1>6, <1>7, SentGrows DEF TbInv
    <2>1. ASSUME NEW i \in 1..Len(ms), ms[i] = Request(l, id)
          PROVE  l = k /\ id = new
      <3>1. i = 2 /\ Request(k, new) = Request(l, id)
        BY <1>7, <2>1, MessagesDiffer
      <3>. QED
        BY <3>1, MessagesDiffer
    <2>. QED
      BY <1>7, <2>1
  <1>9. \A l \in Requests, id \in Ids : /\ Asked(l, id)' <=> Asked(l, id)
                                        /\ Answered(l, id)' <=> Answered(l, id)
                                        /\ Runs(l, id)' <=> Runs(l, id)
    <2> SUFFICES ASSUME NEW l \in Requests, NEW id \in Ids, running # <<>>, running[1] = l
                 PROVE  waiting'[l][running[2]] = waiting[l][running[2]]
      BY <1>0 DEF Asked, Answered, Runs
    <2>1. running[2] \in 1..Len(waiting[l])
      BY RunningTyped DEF TbInv
    <2>. QED
      BY <1>1, <1>2, <2>1
  <1>10. CallbacksHaveIds'
    <2>1. ASSUME NEW l \in Requests, NEW i \in 1..Len(waiting'[l])
          PROVE  /\ waiting'[l][i] <= new
                 /\ waiting'[l][i] = new => l = k /\ i = Len(waiting[k]) + 1
                 /\ waiting'[l][i] # new => i \in 1..Len(waiting[l]) /\ waiting'[l][i] = waiting[l][i]
      <3>1. i \in 1..Len(waiting[l]) => waiting[l][i] \in Ids /\ waiting[l][i] <= m_request_id
        BY <1>0 DEF TbInv, CallbacksHaveIds
      <3>2. CASE l = k /\ i = Len(waiting[k]) + 1
        BY <1>0, <1>2, <3>2 DEF Ids
      <3>3. CASE ~(l = k /\ i = Len(waiting[k]) + 1)
        <4>1. i \in 1..Len(waiting[l]) /\ waiting'[l][i] = waiting[l][i]
          BY <1>0, <1>1, <1>2, <3>3
        <4>. QED
          BY <1>0, <3>1, <4>1 DEF Ids, new
      <3>. QED
        BY <3>2, <3>3
    <2>. QED
      BY <1>0, <2>1 DEF TbInv, CallbacksHaveIds
  <1>11. MessagesGoOnce'
    <2>1. \A i, j \in 1..Len(ms) : ms[i][1] = "REQUEST" /\ ms[i] = ms[j] => i = j
      BY <1>7, MessagesDiffer DEF Subscribe
    <2>2. ASSUME NEW i \in 1..Len(ms), NEW j \in 1..Len(toServer), ms[i][1] = "REQUEST"
          PROVE  ms[i] # toServer[j]
      <3>1. ms[i] = Request(k, new)
        BY <1>7, <2>2 DEF Subscribe
      <3>. QED
        BY <1>4, <3>1 DEF Sent
    <2>3. \A i, j \in 1..Len(toServer') :
            toServer'[i][1] = "REQUEST" /\ toServer'[i] = toServer'[j] => i = j
      BY <1>6, <1>7, <2>1, <2>2, SendingOnce DEF TbInv
    <2>. QED
      BY <1>0, <2>3 DEF TbInv, MessagesGoOnce
  <1>12. OnePlace' /\ WaitingIsSomewhere'
    <2>1. OnePlace'
      BY <1>4, <1>8, <1>9 DEF TbInv, OnePlace
    <2>2. ASSUME NEW l \in Requests, NEW id \in Ids
          PROVE  (Waits(l, id)' /\ id \notin lost') <=>
                   (Sent(l, id)' \/ Asked(l, id)' \/ Answered(l, id)' \/ Runs(l, id)')
      <3>1. Waits(l, id) /\ id \notin lost <=>
              Sent(l, id) \/ Asked(l, id) \/ Answered(l, id) \/ Runs(l, id)
        BY DEF TbInv, WaitingIsSomewhere
      <3>2. CASE lost' = lost
        BY <1>3, <1>5, <1>8, <1>9, <3>1, <3>2
      <3>3. CASE lost' = lost \union {new}
        BY <1>3, <1>4, <1>5, <1>8, <1>9, <3>1, <3>3
      <3>. QED
        BY <1>6, <3>2, <3>3
    <2>. QED
      BY <2>1, <2>2 DEF WaitingIsSomewhere
  <1>13. \A t, i : i \in 1..Len(ms) => ms[i] # Unsubscribe(t)
    BY <1>7, MessagesDiffer
  <1>14. StaysSubscribed'
    <2>1. \A l \in Requests, id \in Ids : \A i \in 1..Len(ms) : ms[i] = Request(l, id) =>
             i > 1 /\ ms[1] = Subscribe(l)
      BY <1>7, MessagesDiffer
    <2>. QED
      BY <1>0, <1>6, <1>7, <1>9, <1>13, <2>1, SendingKeeps
  <1>15. UpdatesAreHeard'
    BY <1>0, <1>6, <1>7, <1>13, SendingIsHeard
  <1>. QED
    BY <1>10, <1>11, <1>12, <1>14, <1>15 DEF TbInv


\* A message that is no request changes no place and needs no number.
LEMMA TopicSent ==
  ASSUME TbInv, NEW t \in Topics,
         NEW ms \in {<<Subscribe(t)>>, <<Unsubscribe(t)>>, <<>>}, toServer' = toServer \o ms
  PROVE  /\ ms \in Seq(Messages)
         /\ \A i \in 1..Len(ms) : ms[i] = Subscribe(t) \/ ms[i] = Unsubscribe(t)
         /\ \A k \in Requests, id \in Ids : Sent(k, id)' <=> Sent(k, id)
         /\ \A i, j \in 1..Len(toServer') :
              toServer'[i][1] = "REQUEST" /\ toServer'[i] = toServer'[j] => i = j
  <1>1. /\ ms \in Seq(Messages)
        /\ \A i \in 1..Len(ms) : ms[i] = Subscribe(t) \/ ms[i] = Unsubscribe(t)
    <2>1. Subscribe(t) \in Messages /\ Unsubscribe(t) \in Messages
      BY MessagesTyped
    <2>2. CASE ms = <<>>
      BY <2>2, EmptySeq
    <2>3. CASE ms = <<Subscribe(t)>>
      BY <2>1, <2>3, OneMessage
    <2>4. CASE ms = <<Unsubscribe(t)>>
      BY <2>1, <2>4, OneMessage
    <2>. QED
      BY <2>2, <2>3, <2>4
  <1>2. \A i \in 1..Len(ms) : \A k, id : ms[i] # Request(k, id)
    BY <1>1, MessagesDiffer
  <1>3. \A i \in 1..Len(ms) : ms[i][1] # "REQUEST"
    BY <1>1 DEF Subscribe, Unsubscribe
  <1>4. \A k \in Requests, id \in Ids : Sent(k, id)' <=> Sent(k, id)
    BY <1>1, <1>2, SentGrows DEF TbInv
  <1>5. \A i, j \in 1..Len(toServer') :
          toServer'[i][1] = "REQUEST" /\ toServer'[i] = toServer'[j] => i = j
    BY <1>1, <1>3, SendingOnce DEF TbInv
  <1>. QED
    BY <1>1, <1>4, <1>5

LEMMA UpdateStep ==
  ASSUME TbInv, NEW u \in Updates, AddCallback(u) \/ DropCallbacks(u), TbTypeOK'
  PROVE  TbInv'
  <1>0. /\ UNCHANGED <<waiting, running, asked, toClient, lost, m_request_id, subs, connected>>
        /\ registered \in [Updates -> Nat] /\ TbTypeOK
    BY DEF AddCallback, DropCallbacks, serverVars, TbInv, TbTypeOK
  <1>1. PICK ms \in {<<Subscribe(u)>>, <<Unsubscribe(u)>>, <<>>} :
          /\ toServer' = toServer \o ms
          /\ connected => \/ /\ ms = <<Subscribe(u)>>
                             /\ registered' = [registered EXCEPT ![u] = @ + 1]
                          \/ /\ ms = <<Unsubscribe(u)>>
                             /\ registered' = [registered EXCEPT ![u] = 0]
          /\ ~connected => toServer' = toServer
    <2>0. <<Subscribe(u)>> \in Seq(Messages) /\ <<Unsubscribe(u)>> \in Seq(Messages)
      BY MessagesTyped, TopicsDiffer
    <2>1. CASE AddCallback(u)
      <3>1. Send(<<Subscribe(u)>>) /\ connected /\ registered' = [registered EXCEPT ![u] = @ + 1]
        BY <2>1 DEF AddCallback
      <3>. QED
        BY <3>1 DEF Send
    <2>2. CASE DropCallbacks(u)
      <3>1. Send(<<Unsubscribe(u)>>) /\ registered' = [registered EXCEPT ![u] = 0]
        BY <2>2 DEF DropCallbacks
      <3>2. \E ms \in {<<Unsubscribe(u)>>, <<>>} :
               toServer' = toServer \o ms /\ (connected => ms = <<Unsubscribe(u)>>)
        BY <1>0, <2>0, <3>1, SendAppends
      <3>3. ~connected => toServer' = toServer
        BY <3>1 DEF Send
      <3>. QED
        BY <3>1, <3>2, <3>3
    <2>. QED
      BY <2>1, <2>2
  <1>2. u \in Topics
    BY TopicsDiffer
  <1>3. /\ ms \in Seq(Messages)
        /\ \A i \in 1..Len(ms) : ms[i] = Subscribe(u) \/ ms[i] = Unsubscribe(u)
        /\ \A k \in Requests, id \in Ids : Sent(k, id)' <=> Sent(k, id)
        /\ \A i, j \in 1..Len(toServer') :
             toServer'[i][1] = "REQUEST" /\ toServer'[i] = toServer'[j] => i = j
    BY <1>1, <1>2, TopicSent
  <1>4. CallbacksHaveIds' /\ OnePlace' /\ WaitingIsSomewhere'
    BY <1>0, <1>3, SamePlaces DEF TbInv
  <1>5. MessagesGoOnce'
    BY <1>0, <1>3 DEF TbInv, MessagesGoOnce
  <1>6. StaysSubscribed'
    <2>1. ASSUME NEW k \in Requests, NEW id \in Ids
          PROVE  /\ Asked(k, id)' \/ Answered(k, id)' => Asked(k, id) \/ Answered(k, id)
                 /\ \A i \in 1..Len(ms) : ms[i] # Unsubscribe(k) /\ ms[i] # Request(k, id)
      BY <1>0, <1>3, MessagesDiffer, TopicsDiffer DEF Asked, Answered
    <2>2. subs' = subs /\ toServer' = toServer \o ms /\ ms \in Seq(Messages)
      BY <1>0, <1>1, <1>3
    <2>. QED
      BY <2>1, <2>2, SendingKeeps
  <1>7. UpdatesAreHeard'
    <2>1. CASE connected
      <3>1. ASSUME NEW v \in Updates, registered'[v] > 0
            PROVE  /\ \A i \in 1..Len(ms) : ms[i] # Unsubscribe(v)
                   /\ registered[v] > 0 \/ (ms # <<>> /\ ms[1] = Subscribe(v))
        <4>1. CASE v = u
          <5>1. ms = <<Subscribe(u)>>
            BY <1>0, <1>1, <2>1, <3>1, <4>1
          <5>2. Len(ms) = 1 /\ ms[1] = Subscribe(u) /\ ms # <<>>
            BY <5>1
          <5>. QED
            BY <4>1, <5>2, MessagesDiffer
        <4>2. CASE v # u
          <5>1. registered'[v] = registered[v]
            BY <1>0, <1>1, <2>1, <4>2
          <5>. QED
            BY <1>3, <3>1, <4>2, <5>1, MessagesDiffer
        <4>. QED
          BY <4>1, <4>2
      <3>. QED
        BY <1>0, <1>1, <1>3, <2>1, <3>1, SendingIsHeard
    <2>2. CASE ~connected
      BY <1>0, <1>1, <2>2 DEF TbInv, UpdatesAreHeard
    <2>. QED
      BY <2>1, <2>2
  <1>. QED
    BY <1>4, <1>5, <1>6, <1>7 DEF TbInv

\* An answer has a callback that waits, which runs next.
LEMMA OnMessageStep ==
  ASSUME TbInv, OnMessage, TbTypeOK'
  PROVE  TbInv'
  <1> DEFINE k  == toClient[1][1]
             id == toClient[1][2]
  <1>0. /\ UNCHANGED <<waiting, asked, lost, m_request_id, subs, connected, registered>>
        /\ running = <<>> /\ toClient # <<>> /\ toClient' = Tail(toClient)
        /\ toClient \in Seq(Requests \X Ids) /\ toServer \in Seq(Messages)
        /\ \A l \in Requests : waiting[l] \in Seq(Ids)
    BY DEF OnMessage, serverVars, TbInv, TbTypeOK
  <1>1. /\ Head(toClient) = toClient[1] /\ toClient[1] \in Requests \X Ids
        /\ Len(toClient) \in Nat \ {0} /\ Len(toClient') = Len(toClient) - 1
        /\ \A i \in 1..(Len(toClient) - 1) : toClient'[i] = toClient[i + 1]
    BY <1>0, HeadAndTail
  <1>2. k \in Requests /\ id \in Ids /\ toClient[1] = <<k, id>> /\ Answered(k, id)
    BY <1>1 DEF Answered
  <1> HIDE DEF k, id
  <1>3. Waits(k, id) /\ id \notin lost
    BY <1>2 DEF TbInv, WaitingIsSomewhere
  <1>4. id \in Range(waiting[k])
    BY <1>0, <1>2, <1>3, RangeEquality DEF Waits
  <1>5. running' = <<k, Asker(k, id)>> /\ toServer' = toServer
    BY <1>1, <1>4 DEF OnMessage, k, id
  <1>6. Asker(k, id) \in 1..Len(waiting[k]) /\ waiting[k][Asker(k, id)] = id
    BY <1>2, <1>4, AskerFound DEF TbInv
  <1>7. \A l \in Requests, x \in Ids : Answered(l, x)' <=> Answered(l, x) /\ ~(l = k /\ x = id)
    <2> SUFFICES ASSUME NEW l \in Requests, NEW x \in Ids
                 PROVE  Answered(l, x)' <=> Answered(l, x) /\ ~(l = k /\ x = id)
      OBVIOUS
    <2>1. ASSUME NEW i \in 1..Len(toClient), toClient[i] = <<l, x>>, i # 1
          PROVE  i - 1 \in 1..Len(toClient') /\ toClient'[i - 1] = <<l, x>>
      BY <1>1, <2>1
    <2>3. ASSUME NEW i \in 1..Len(toClient'), toClient'[i] = <<l, x>>
          PROVE  i + 1 \in 1..Len(toClient) /\ toClient[i + 1] = <<l, x>>
      BY <1>1, <2>3
    <2>2. \A i \in 1..Len(toClient') : toClient'[i] # toClient[1]
      BY <1>0, OnceInTail DEF TbInv, MessagesGoOnce
    <2>4. ASSUME Answered(l, x), ~(l = k /\ x = id) PROVE Answered(l, x)'
      <3>1. PICK i \in 1..Len(toClient) : toClient[i] = <<l, x>>
        BY <2>4 DEF Answered
      <3>2. i # 1
        BY <1>2, <2>4, <3>1
      <3>. QED
        BY <2>1, <3>1, <3>2 DEF Answered
    <2>5. ASSUME Answered(l, x)' PROVE Answered(l, x) /\ ~(l = k /\ x = id)
      <3>1. PICK i \in 1..Len(toClient') : toClient'[i] = <<l, x>>
        BY <2>5 DEF Answered
      <3>. QED
        BY <1>2, <2>2, <2>3, <3>1 DEF Answered
    <2>. QED
      BY <2>4, <2>5
  <1>8. \A l \in Requests, x \in Ids :
          /\ Runs(l, x)' <=> (l = k /\ x = id)
          /\ ~Runs(l, x)
          /\ Sent(l, x)' <=> Sent(l, x)
          /\ Asked(l, x)' <=> Asked(l, x)
          /\ Waits(l, x)' <=> Waits(l, x)
    BY <1>0, <1>2, <1>5, <1>6 DEF Runs, Sent, Asked, Waits, Request
  <1>9. CallbacksHaveIds'
    BY <1>0 DEF TbInv, CallbacksHaveIds
  <1>10. MessagesGoOnce'
    <2>1. \A i, j \in 1..Len(toClient') : toClient'[i] = toClient'[j] => i = j
      <3> SUFFICES ASSUME NEW i \in 1..Len(toClient'), NEW j \in 1..Len(toClient'),
                          toClient'[i] = toClient'[j]
                   PROVE  i = j
        OBVIOUS
      <3>1. i + 1 \in 1..Len(toClient) /\ j + 1 \in 1..Len(toClient)
            /\ toClient[i + 1] = toClient[j + 1]
        BY <1>1
      <3>2. i + 1 = j + 1
        BY <3>1 DEF TbInv, MessagesGoOnce
      <3>. QED
        BY <3>2
    <2>. QED
      BY <1>5, <2>1 DEF TbInv, MessagesGoOnce
  <1>11. OnePlace'
    BY <1>2, <1>7, <1>8 DEF TbInv, OnePlace
  <1>12. WaitingIsSomewhere'
    BY <1>0, <1>2, <1>3, <1>7, <1>8 DEF TbInv, WaitingIsSomewhere
  <1> DEFINE none == <<>>
  <1>13. /\ toServer' = toServer \o none /\ none \in Seq(Messages)
         /\ \A i \in 1..Len(none) : FALSE
    BY <1>0, <1>5, ConcatEmptySeq, EmptySeq
  <1> HIDE DEF none
  <1>14. StaysSubscribed'
    <2>1. ASSUME NEW l \in Requests, NEW x \in Ids
          PROVE  Asked(l, x)' \/ Answered(l, x)' => Asked(l, x) \/ Answered(l, x)
      BY <1>7, <1>8
    <2>2. subs' = subs
      BY <1>0
    <2>. QED
      BY <1>13, <2>1, <2>2, SendingKeeps
  <1>15. UpdatesAreHeard'
    <2>1. connected
      BY <1>0 DEF TbInv, UpdatesAreHeard
    <2>. QED
      BY <1>0, <1>13, <2>1, SendingIsHeard
  <1>. QED
    BY <1>9, <1>10, <1>11, <1>12, <1>14, <1>15 DEF TbInv

\* The callback that has returned is removed; the topic goes with the last one, when
\* nothing of its kind is in flight.
LEMMA ReturnedStep ==
  ASSUME TbInv, Returned, TbTypeOK'
  PROVE  TbInv'
  <1>0. /\ UNCHANGED <<asked, toClient, lost, m_request_id, subs, connected, registered>>
        /\ running # <<>> /\ running' = <<>>
        /\ waiting \in [Requests -> Seq(Ids)]
        /\ toServer \in Seq(Messages)
    BY DEF Returned, serverVars, TbInv, TbTypeOK
  <1>1. PICK k \in Requests, n \in 1..Len(waiting[running[1]]) : k = running[1] /\ n = running[2]
    BY <1>0, RunningTyped DEF TbInv
  <1>2. PICK id \in Ids, rest \in Seq(Ids) : id = waiting[k][n] /\ rest = RemoveAt(waiting[k], n)
    <2>1. waiting[k][n] \in Ids /\ waiting[k] \in Seq(Ids) /\ n \in 1..Len(waiting[k])
      BY <1>0, <1>1, RunningTyped DEF TbInv
    <2>. QED
      BY <2>1, Removed
  <1>3. /\ n \in 1..Len(waiting[k]) /\ Len(waiting[k]) \in Nat
        /\ waiting'[k] = rest /\ Len(rest) = Len(waiting[k]) - 1
        /\ \A j \in 1..(Len(waiting[k]) - 1) :
             rest[j] = IF j < n THEN waiting[k][j] ELSE waiting[k][j + 1]
        /\ \A l \in Requests : l # k => waiting'[l] = waiting[l]
    <2>1. n \in 1..Len(waiting[k]) /\ waiting[k] \in Seq(Ids)
      BY <1>0, <1>1
    <2>2. waiting' = [waiting EXCEPT ![k] = rest]
      BY <1>1, <1>2 DEF Returned
    <2>3. /\ Len(rest) = Len(waiting[k]) - 1
          /\ \A j \in 1..(Len(waiting[k]) - 1) :
               rest[j] = IF j < n THEN waiting[k][j] ELSE waiting[k][j + 1]
      BY <1>2, <2>1, Removed
    <2>. QED
      BY <1>0, <2>1, <2>2, <2>3
  <1>4. IF LastOne(rest) THEN Send(<<Unsubscribe(k)>>) ELSE UNCHANGED toServer
    BY <1>1, <1>2 DEF Returned
  <1>5. \A l \in Requests, x \in Ids : Waits(l, x)' <=> Waits(l, x) /\ ~(l = k /\ x = id)
    <2> SUFFICES ASSUME NEW l \in Requests, NEW x \in Ids
                 PROVE  Waits(l, x)' <=> Waits(l, x) /\ ~(l = k /\ x = id)
      OBVIOUS
    <2>1. CASE l # k
      BY <1>3, <2>1 DEF Waits
    <2>2. CASE l = k
      <3>1. ASSUME NEW j \in 1..Len(rest)
            PROVE  /\ j < n => j \in 1..Len(waiting[k]) /\ j # n /\ rest[j] = waiting[k][j]
                   /\ ~(j < n) => /\ j + 1 \in 1..Len(waiting[k]) /\ j + 1 # n
                                  /\ rest[j] = waiting[k][j + 1]
        BY <1>3
      <3>2. ASSUME NEW j \in 1..Len(waiting[k]), waiting[k][j] # id
            PROVE  \E i \in 1..Len(rest) : rest[i] = waiting[k][j]
        <4>1. j # n
          BY <1>2, <3>2
        <4>2. CASE j < n
          <5>1. j \in 1..Len(rest) /\ rest[j] = waiting[k][j]
            BY <1>3, <4>2
          <5>. QED
            BY <5>1
        <4>3. CASE j > n
          <5>1. j - 1 \in 1..Len(rest) /\ rest[j - 1] = waiting[k][j]
            BY <1>3, <4>3
          <5>. QED
            BY <5>1
        <4>. QED
          BY <1>3, <4>1, <4>2, <4>3
      <3>3. \A j \in 1..Len(waiting[k]) : waiting[k][j] = id => j = n
        BY <1>2, <1>3 DEF TbInv, CallbacksHaveIds
      <3>4. ASSUME NEW j \in 1..Len(rest)
            PROVE  rest[j] # id /\ \E i \in 1..Len(waiting[k]) : rest[j] = waiting[k][i]
        BY <3>1, <3>3
      <3>5. ASSUME Waits(k, x)' PROVE Waits(k, x) /\ x # id
        BY <1>3, <3>4, <3>5 DEF Waits
      <3>6. ASSUME Waits(k, x), x # id PROVE Waits(k, x)'
        BY <1>3, <3>2, <3>6 DEF Waits
      <3>. QED
        BY <2>2, <3>5, <3>6
    <2>. QED
      BY <2>1, <2>2
  <1>6. \A l \in Requests, x \in Ids : Runs(l, x) <=> l = k /\ x = id
    BY <1>0, <1>1, <1>2 DEF Runs
  <1>7. PICK ms \in {<<Subscribe(k)>>, <<Unsubscribe(k)>>, <<>>} :
          /\ toServer' = toServer \o ms
          /\ ms # <<>> => rest = <<>> /\ connected
    <2>1. <<Unsubscribe(k)>> \in Seq(Messages)
      BY <1>1, MessagesTyped, TopicsDiffer
    <2>2. toServer \o <<>> = toServer
      BY <1>0, ConcatEmptySeq
    <2>3. CASE rest = <<>>
      <3>1. Send(<<Unsubscribe(k)>>)
        BY <1>4, <2>3 DEF LastOne
      <3>2. CASE connected
        BY <2>3, <3>1, <3>2 DEF Send
      <3>3. CASE ~connected
        BY <2>2, <3>1, <3>3 DEF Send
      <3>. QED
        BY <3>2, <3>3
    <2>4. CASE rest # <<>>
      BY <1>4, <2>2, <2>4 DEF LastOne
    <2>. QED
      BY <2>3, <2>4
  <1>8. k \in Topics
    BY <1>1, TopicsDiffer
  <1>9. /\ ms \in Seq(Messages)
        /\ \A i \in 1..Len(ms) : ms[i] = Subscribe(k) \/ ms[i] = Unsubscribe(k)
        /\ \A l \in Requests, x \in Ids : Sent(l, x)' <=> Sent(l, x)
        /\ \A i, j \in 1..Len(toServer') :
             toServer'[i][1] = "REQUEST" /\ toServer'[i] = toServer'[j] => i = j
    BY <1>7, <1>8, TopicSent
  <1>10. \A l \in Requests, x \in Ids : /\ ~Runs(l, x)'
                                        /\ Asked(l, x)' <=> Asked(l, x)
                                        /\ Answered(l, x)' <=> Answered(l, x)
    BY <1>0 DEF Runs, Asked, Answered
  <1>11. CallbacksHaveIds'
    <2>1. ASSUME NEW l \in Requests, NEW i \in 1..Len(waiting'[l])
          PROVE  \E j \in 1..Len(waiting[l]) :
                   /\ waiting'[l][i] = waiting[l][j]
                   /\ j = IF l = k /\ i >= n THEN i + 1 ELSE i
      <3>1. CASE l = k
        BY <1>3, <3>1
      <3>2. CASE l # k
        <4>1. waiting'[l] = waiting[l] /\ waiting[l] \in Seq(Ids)
          BY <1>0, <1>3, <3>2
        <4>. QED
          BY <3>2, <4>1
      <3>. QED
        BY <3>1, <3>2
    <2>2. ASSUME NEW l \in Requests, NEW m \in Requests,
                 NEW i \in 1..Len(waiting'[l]), NEW j \in 1..Len(waiting'[m]),
                 waiting'[l][i] = waiting'[m][j]
          PROVE  l = m /\ i = j
      <3>1. PICK p \in 1..Len(waiting[l]) :
              waiting'[l][i] = waiting[l][p] /\ p = IF l = k /\ i >= n THEN i + 1 ELSE i
        BY <2>1
      <3>2. PICK q \in 1..Len(waiting[m]) :
              waiting'[m][j] = waiting[m][q] /\ q = IF m = k /\ j >= n THEN j + 1 ELSE j
        BY <2>1
      <3>3. l = m /\ p = q
        <4>1. waiting[l][p] = waiting[m][q]
          BY <2>2, <3>1, <3>2
        <4>. QED
          BY <4>1 DEF TbInv, CallbacksHaveIds
      <3>4. i \in Int /\ j \in Int /\ n \in Int
        BY <1>3
      <3>. QED
        BY <3>1, <3>2, <3>3, <3>4
    <2>3. ASSUME NEW l \in Requests, NEW i \in 1..Len(waiting'[l])
          PROVE  waiting'[l][i] <= m_request_id
      <3>1. PICK j \in 1..Len(waiting[l]) : waiting'[l][i] = waiting[l][j]
        BY <2>1
      <3>. QED
        BY <3>1 DEF TbInv, CallbacksHaveIds
    <2>. QED
      BY <1>0, <2>2, <2>3 DEF CallbacksHaveIds
  <1>12. MessagesGoOnce'
    BY <1>0, <1>9 DEF TbInv, MessagesGoOnce
  <1>13. OnePlace'
    BY <1>9, <1>10 DEF TbInv, OnePlace
  <1>14. WaitingIsSomewhere'
    <2>1. ASSUME NEW l \in Requests, NEW x \in Ids
          PROVE  Waits(l, x)' /\ x \notin lost' <=>
                   Sent(l, x)' \/ Asked(l, x)' \/ Answered(l, x)' \/ Runs(l, x)'
      <3>1. Waits(l, x) /\ x \notin lost <=>
              Sent(l, x) \/ Asked(l, x) \/ Answered(l, x) \/ Runs(l, x)
        BY DEF TbInv, WaitingIsSomewhere
      <3>2. Runs(l, x) => ~(Sent(l, x) \/ Asked(l, x) \/ Answered(l, x))
        BY DEF TbInv, OnePlace
      <3>. QED
        BY <1>0, <1>6, <1>5, <1>9, <1>10, <3>1, <3>2
    <2>. QED
      BY <2>1 DEF WaitingIsSomewhere
  <1>15. StaysSubscribed'
    <2>1. ASSUME NEW l \in Requests, NEW x \in Ids
          PROVE  /\ Asked(l, x)' \/ Answered(l, x)' => Asked(l, x) \/ Answered(l, x)
                 /\ Sent(l, x)' \/ Asked(l, x)' \/ Answered(l, x)' =>
                      \A i \in 1..Len(ms) : ms[i] # Unsubscribe(l)
                 /\ \A i \in 1..Len(ms) : ms[i] # Request(l, x)
      <3>1. \A i \in 1..Len(ms) : ms[i] # Request(l, x)
        BY <1>9, MessagesDiffer
      <3>2. ASSUME Sent(l, x)' \/ Asked(l, x)' \/ Answered(l, x)', NEW i \in 1..Len(ms)
            PROVE  ms[i] # Unsubscribe(l)
        <4>1. CASE l = k
          <5>1. Waits(k, x)'
            BY <1>14, <3>2, <4>1 DEF WaitingIsSomewhere
          <5>2. Len(rest) > 0
            BY <1>3, <5>1 DEF Waits
          <5>3. Len(<<>>) = 0 /\ ms = <<>>
            BY <1>7, <5>2
          <5>. QED
            BY <3>2, <5>3
        <4>2. CASE l # k
          BY <1>9, <4>2, MessagesDiffer
        <4>. QED
          BY <4>1, <4>2
      <3>. QED
        BY <1>10, <3>1, <3>2
    <2>2. subs' = subs /\ toServer' = toServer \o ms /\ ms \in Seq(Messages)
      BY <1>0, <1>7, <1>9
    <2>. QED
      BY <2>1, <2>2, SendingKeeps
  <1>16. UpdatesAreHeard'
    <2>1. CASE connected
      <3>1. \A u \in Updates : \A i \in 1..Len(ms) : ms[i] # Unsubscribe(u)
        BY <1>1, <1>9, MessagesDiffer, TopicsDiffer
      <3>2. subs' = subs /\ toServer' = toServer \o ms /\ ms \in Seq(Messages)
            /\ registered' = registered /\ connected' = connected
        BY <1>0, <1>7, <1>9
      <3>. QED
        BY <2>1, <3>1, <3>2, SendingIsHeard
    <2>2. CASE ~connected
      <3>1. toServer = <<>> /\ toClient = <<>> /\ asked = {}
        BY <2>2 DEF TbInv, UpdatesAreHeard
      <3>2. toServer' = <<>>
        BY <1>0, <1>7, <2>2, <3>1, ConcatEmptySeq
      <3>. QED
        BY <1>0, <2>2, <3>1, <3>2 DEF UpdatesAreHeard
    <2>. QED
      BY <2>1, <2>2
  <1>. QED
    BY <1>11, <1>12, <1>13, <1>14, <1>15, <1>16 DEF TbInv


-----------------------------------------------------------------------------
(* What is in flight.                                                      *)

\* InFlight(), by places.
LEMMA FlightIsSomewhere ==
  ASSUME TbInv, NEW k \in Requests, NEW id \in Ids
  PROVE  /\ id \in InFlight(k) <=> Sent(k, id) \/ Asked(k, id) \/ Answered(k, id)
         /\ Waits(k, id) => id \in 1..m_request_id
  <1>1. Waits(k, id) => id \in 1..m_request_id
    BY DEF TbInv, CallbacksHaveIds, Waits, TbTypeOK, Ids
  <1>2. toServer \in Seq(Messages) /\ toClient \in Seq(Requests \X Ids)
    BY DEF TbInv, TbTypeOK
  <1>3. Request(k, id) \in Range(toServer) <=> Sent(k, id)
    BY <1>2, RangeEquality DEF Sent
  <1>4. <<k, id>> \in Range(toClient) <=> Answered(k, id)
    BY <1>2, RangeEquality DEF Answered
  <1>5. Sent(k, id) \/ Asked(k, id) \/ Answered(k, id) => Waits(k, id)
    BY DEF TbInv, WaitingIsSomewhere
  <1>. QED
    BY <1>1, <1>3, <1>4, <1>5 DEF InFlight, Asked

-----------------------------------------------------------------------------
(* Steps of the connection, the broker and the server.                     *)

LEMMA ConnectStep ==
  ASSUME TbInv, Connect, TbTypeOK'
  PROVE  TbInv'
  <1>0. /\ ~connected /\ connected' = TRUE
        /\ UNCHANGED <<waiting, running, asked, toClient, lost, m_request_id, registered>>
        /\ toServer' = SetToSeq({Subscribe(u) : u \in Resubscribed})
    BY DEF Connect, callbackVars, serverVars
  <1>1. toServer = <<>> /\ toClient = <<>> /\ asked = {}
    BY <1>0 DEF TbInv, UpdatesAreHeard
  <1>2. /\ toServer' \in Seq(Messages)
        /\ \A i \in 1..Len(toServer') : \E u \in Updates : toServer'[i] = Subscribe(u)
        /\ \A u \in Updates : registered[u] > 0 =>
             \E i \in 1..Len(toServer') : toServer'[i] = Subscribe(u)
    BY <1>0, ResubscribedInOrder
  <1>3. \A i \in 1..Len(toServer') : /\ \A k, id : toServer'[i] # Request(k, id)
                                     /\ toServer'[i][1] # "REQUEST"
                                     /\ \A t : toServer'[i] # Unsubscribe(t)
    <2> SUFFICES ASSUME NEW i \in 1..Len(toServer')
                 PROVE  /\ \A k, id : toServer'[i] # Request(k, id)
                        /\ toServer'[i][1] # "REQUEST"
                        /\ \A t : toServer'[i] # Unsubscribe(t)
      OBVIOUS
    <2>1. PICK u \in Updates : toServer'[i] = Subscribe(u)
      BY <1>2
    <2>2. Subscribe(u)[1] # "REQUEST"
      BY DEF Subscribe
    <2>. QED
      BY <2>1, <2>2, MessagesDiffer
  <1>4. \A k \in Requests, id \in Ids :
          /\ ~Sent(k, id) /\ ~Sent(k, id)'
          /\ ~Asked(k, id) /\ ~Asked(k, id)'
          /\ ~Answered(k, id) /\ ~Answered(k, id)'
    <2>1. \A i : i \notin 1..Len(<<>>)
      OBVIOUS
    <2>. QED
      BY <1>0, <1>1, <1>3, <2>1 DEF Sent, Asked, Answered, Request
  <1>5. CallbacksHaveIds' /\ OnePlace' /\ WaitingIsSomewhere'
    BY <1>0, <1>4, SamePlaces DEF TbInv
  <1>6. MessagesGoOnce'
    BY <1>0, <1>3 DEF TbInv, MessagesGoOnce
  <1>7. StaysSubscribed'
    BY <1>3, <1>4 DEF StaysSubscribed, Request
  <1>8. UpdatesAreHeard'
    <2>1. ASSUME NEW u \in Updates, registered[u] > 0 PROVE Heard(u)'
      <3>1. PICK i \in 1..Len(toServer') : toServer'[i] = Subscribe(u)
        BY <1>2, <2>1
      <3>2. Len(toServer') \in Nat
        BY <1>2
      <3>3. \A j \in (i + 1)..Len(toServer') : toServer'[j] # Unsubscribe(u)
        BY <1>3, <3>2
      <3>. QED
        BY <3>1, <3>3 DEF Heard, SubscribedAfter, Subscribe, Unsubscribe
    <2>. QED
      BY <1>0, <2>1 DEF UpdatesAreHeard
  <1>. QED
    BY <1>5, <1>6, <1>7, <1>8 DEF TbInv

\* Whatever is in flight is lost; the callback that runs is not.
LEMMA DropStep ==
  ASSUME TbInv, Drop, TbTypeOK'
  PROVE  TbInv'
  <1>0. /\ connected' = FALSE /\ toServer' = <<>> /\ toClient' = <<>> /\ asked' = {}
        /\ lost' = lost \union UNION {InFlight(k) : k \in Requests}
        /\ UNCHANGED <<waiting, running, m_request_id, registered>>
        /\ m_request_id \in Nat
    BY DEF Drop, callbackVars, TbInv, TbTypeOK
  <1>1. \A k \in Requests, id \in Ids :
          /\ ~Sent(k, id)' /\ ~Asked(k, id)' /\ ~Answered(k, id)'
          /\ Runs(k, id)' <=> Runs(k, id)
          /\ Waits(k, id)' <=> Waits(k, id)
    <2>1. \A i : i \notin 1..Len(<<>>)
      OBVIOUS
    <2>. QED
      BY <1>0, <2>1 DEF Sent, Asked, Answered, Runs, Waits
  <1>2. \A k \in Requests, id \in Ids :
          id \in InFlight(k) <=> Sent(k, id) \/ Asked(k, id) \/ Answered(k, id)
    BY FlightIsSomewhere
  <1>3. \A k, l \in Requests, id \in Ids : Waits(k, id) /\ Waits(l, id) => k = l
    BY DEF TbInv, CallbacksHaveIds, Waits
  <1>4. ASSUME NEW k \in Requests, NEW id \in Ids
        PROVE  Waits(k, id) /\ id \notin lost' <=> Runs(k, id)
    <2>1. \A l \in Requests : Waits(l, id) /\ id \notin lost <=>
            Sent(l, id) \/ Asked(l, id) \/ Answered(l, id) \/ Runs(l, id)
      BY DEF TbInv, WaitingIsSomewhere
    <2>2. Runs(k, id) => ~(Sent(k, id) \/ Asked(k, id) \/ Answered(k, id))
      BY DEF TbInv, OnePlace
    <2>3. id \notin lost' <=> id \notin lost /\ \A l \in Requests : id \notin InFlight(l)
      BY <1>0
    <2>. QED
      BY <1>2, <1>3, <2>1, <2>2, <2>3
  <1>5. CallbacksHaveIds'
    BY <1>0 DEF TbInv, CallbacksHaveIds
  <1>6. MessagesGoOnce'
    <2>1. \A i : i \notin 1..Len(<<>>)
      OBVIOUS
    <2>. QED
      BY <1>0, <2>1 DEF MessagesGoOnce
  <1>7. OnePlace'
    BY <1>1 DEF OnePlace
  <1>8. WaitingIsSomewhere'
    BY <1>1, <1>4 DEF WaitingIsSomewhere
  <1>9. StaysSubscribed'
    <2>1. \A i : i \notin 1..Len(<<>>)
      OBVIOUS
    <2>. QED
      BY <1>0, <1>1, <2>1 DEF StaysSubscribed
  <1>10. UpdatesAreHeard'
    BY <1>0 DEF UpdatesAreHeard
  <1>. QED
    BY <1>5, <1>6, <1>7, <1>8, <1>9, <1>10 DEF TbInv

LEMMA BrokerStep ==
  ASSUME TbInv, Broker, TbTypeOK'
  PROVE  TbInv'
  <1>0. /\ UNCHANGED <<waiting, running, toClient, lost, m_request_id, registered, connected>>
        /\ toServer # <<>> /\ toServer' = Tail(toServer)
        /\ toServer \in Seq(Messages) /\ TbTypeOK
    BY DEF Broker, callbackVars, TbInv, TbTypeOK
  <1>1. PICK m \in Messages :
          /\ m = toServer[1] /\ Head(toServer) = m
          /\ Len(toServer) \in Nat \ {0} /\ Len(toServer') = Len(toServer) - 1
          /\ \A i \in 1..(Len(toServer) - 1) : toServer'[i] = toServer[i + 1]
    BY <1>0, HeadAndTail
  <1>2. \A k \in Requests, id \in Ids :
          Asked(k, id)' <=> Asked(k, id) \/ m = Request(k, id)
    <2> SUFFICES ASSUME NEW k \in Requests, NEW id \in Ids
                 PROVE  Asked(k, id)' <=> Asked(k, id) \/ m = Request(k, id)
      OBVIOUS
    <2>1. asked' = IF m[1] = "REQUEST" THEN asked \union {<<m[2], m[3]>>} ELSE asked
      BY <1>1 DEF Broker
    <2>2. CASE m[1] = "REQUEST"
      <3>1. m = Request(m[2], m[3])
        BY <2>2, MessageKinds DEF Subscribe, Unsubscribe
      <3>2. m = Request(k, id) <=> <<m[2], m[3]>> = <<k, id>>
        BY <3>1, MessagesDiffer
      <3>. QED
        BY <2>1, <2>2, <3>2 DEF Asked
    <2>3. CASE m[1] # "REQUEST"
      BY <2>1, <2>3, MessagesDiffer DEF Asked
    <2>. QED
      BY <2>2, <2>3
  <1>3. \A k \in Requests, id \in Ids :
          Sent(k, id)' <=> Sent(k, id) /\ m # Request(k, id)
    <2> SUFFICES ASSUME NEW k \in Requests, NEW id \in Ids
                 PROVE  Sent(k, id)' <=> Sent(k, id) /\ m # Request(k, id)
      OBVIOUS
    <2>1. ASSUME Sent(k, id), m # Request(k, id) PROVE Sent(k, id)'
      <3>1. PICK i \in 1..Len(toServer) : toServer[i] = Request(k, id)
        BY <2>1 DEF Sent
      <3>2. i - 1 \in 1..Len(toServer') /\ toServer'[i - 1] = Request(k, id)
        BY <1>1, <2>1, <3>1
      <3>. QED
        BY <3>2 DEF Sent, Request
    <2>2. ASSUME Sent(k, id)' PROVE Sent(k, id) /\ m # Request(k, id)
      <3>1. PICK i \in 1..Len(toServer') : toServer'[i] = Request(k, id)
        BY <2>2 DEF Sent, Request
      <3>2. i + 1 \in 1..Len(toServer) /\ toServer[i + 1] = Request(k, id)
            /\ 1 \in 1..Len(toServer) /\ i + 1 # 1
        BY <1>1, <3>1
      <3>3. m # toServer[i + 1]
        BY <1>1, <3>2, MessagesDiffer DEF TbInv, MessagesGoOnce
      <3>. QED
        BY <3>2, <3>3 DEF Sent
    <2>. QED
      BY <2>1, <2>2
  <1>4. \A k \in Requests, id \in Ids : /\ m = Request(k, id) => Sent(k, id)
                                        /\ Answered(k, id)' <=> Answered(k, id)
                                        /\ Runs(k, id)' <=> Runs(k, id)
                                        /\ Waits(k, id)' <=> Waits(k, id)
    BY <1>0, <1>1 DEF Sent, Answered, Runs, Waits
  <1>5. CallbacksHaveIds'
    BY <1>0 DEF TbInv, CallbacksHaveIds
  <1>6. MessagesGoOnce'
    <2>1. ASSUME NEW i \in 1..Len(toServer'), NEW j \in 1..Len(toServer'),
                 toServer'[i][1] = "REQUEST", toServer'[i] = toServer'[j]
          PROVE  i = j
      <3>1. /\ i + 1 \in 1..Len(toServer) /\ j + 1 \in 1..Len(toServer)
            /\ toServer[i + 1][1] = "REQUEST" /\ toServer[i + 1] = toServer[j + 1]
        BY <1>1, <2>1
      <3>2. i + 1 = j + 1
        BY <3>1 DEF TbInv, MessagesGoOnce
      <3>. QED
        BY <3>2
    <2>. QED
      BY <1>0, <2>1 DEF TbInv, MessagesGoOnce
  <1>7. OnePlace'
    BY <1>2, <1>3, <1>4 DEF TbInv, OnePlace
  <1>8. WaitingIsSomewhere'
    BY <1>0, <1>2, <1>3, <1>4 DEF TbInv, WaitingIsSomewhere
  <1>9. ASSUME NEW t \in Topics, NEW n \in 0..Len(toServer'), SubscribedAfter(n + 1, t)
        PROVE  SubscribedAfter(n, t)'
    <2>1. n + 1 \in 1..Len(toServer) /\ (n + 1) - 1 = n
      BY <1>1
    <2>2. PICK p \in 1..Len(toServer) : p = n + 1
      BY <2>1
    <2>3. SubscribedAfter(p - 1, t)'
      BY <1>0, <1>9, <2>2, ReadKeeps
    <2>4. p - 1 = n
      BY <2>1, <2>2
    <2>. QED
      BY <2>3, <2>4
  <1>10. StaysSubscribed'
    <2>1. ASSUME NEW k \in Requests, NEW id \in Ids, NEW i \in 1..Len(toServer'),
                 toServer'[i] = Request(k, id), NEW n \in i..Len(toServer')
          PROVE  SubscribedAfter(n, k)'
      <3>1. /\ i + 1 \in 1..Len(toServer) /\ toServer[i + 1] = Request(k, id)
            /\ n + 1 \in (i + 1)..Len(toServer) /\ n \in 0..Len(toServer')
        BY <1>1, <2>1
      <3>2. SubscribedAfter(n + 1, k)
        BY <3>1 DEF TbInv, StaysSubscribed
      <3>. QED
        BY <1>9, <3>1, <3>2, TopicsDiffer
    <2>2. ASSUME NEW k \in Requests, NEW id \in Ids, Asked(k, id)' \/ Answered(k, id)',
                 NEW n \in 0..Len(toServer')
          PROVE  SubscribedAfter(n, k)'
      <3>1. n + 1 \in 1..Len(toServer)
        BY <1>1
      <3>2. SubscribedAfter(n + 1, k)
        <4>1. CASE Asked(k, id) \/ Answered(k, id)
          <5>1. n + 1 \in 0..Len(toServer)
            BY <3>1
          <5>. QED
            BY <4>1, <5>1 DEF TbInv, StaysSubscribed
        <4>2. CASE m = Request(k, id)
          <5>1. 1 \in 1..Len(toServer) /\ toServer[1] = Request(k, id)
            BY <1>1, <4>2
          <5>. QED
            BY <3>1, <5>1 DEF TbInv, StaysSubscribed
        <4>. QED
          BY <1>2, <1>4, <2>2, <4>1, <4>2
      <3>. QED
        BY <1>9, <3>2, TopicsDiffer
    <2>. QED
      BY <2>1, <2>2 DEF StaysSubscribed, Request
  <1>11. UpdatesAreHeard'
    <2>1. ASSUME NEW u \in Updates, registered[u] > 0 PROVE Heard(u)'
      <3>1. connected
        BY <1>0 DEF TbInv, UpdatesAreHeard
      <3>2. SubscribedAfter(Len(toServer), u)
        BY <2>1, <3>1 DEF TbInv, UpdatesAreHeard, Heard
      <3>3. PICK n \in 0..Len(toServer') : n = Len(toServer') /\ n + 1 = Len(toServer)
        BY <1>1
      <3>4. SubscribedAfter(n, u)'
        BY <1>9, <3>2, <3>3, TopicsDiffer
      <3>. QED
        BY <3>3, <3>4 DEF Heard, SubscribedAfter
    <2>2. connected' /\ registered' = registered
      BY <1>0 DEF TbInv, UpdatesAreHeard
    <2>. QED
      BY <2>1, <2>2 DEF UpdatesAreHeard
  <1>. QED
    BY <1>5, <1>6, <1>7, <1>8, <1>10, <1>11 DEF TbInv

\* The server answers: its answer is heard, because the topic is subscribed.
LEMMA AnswerStep ==
  ASSUME TbInv, Answer, TbTypeOK'
  PROVE  TbInv'
  <1>0. /\ UNCHANGED <<waiting, running, toServer, subs, lost, m_request_id, registered,
                       connected>>
        /\ toServer \in Seq(Messages) /\ toClient \in Seq(Requests \X Ids)
        /\ asked \subseteq Requests \X Ids
    BY DEF Answer, callbackVars, TbInv, TbTypeOK
  <1>1. PICK k \in Requests, id \in Ids :
          /\ <<k, id>> \in asked /\ asked' = asked \ {<<k, id>>}
          /\ toClient' = IF k \in subs THEN Append(toClient, <<k, id>>) ELSE toClient
    BY <1>0 DEF Answer
  <1>2. Asked(k, id) /\ ~Answered(k, id)
    BY <1>1 DEF TbInv, OnePlace, Asked
  <1>3. k \in subs
    <2>1. 0 \in 0..Len(toServer)
      BY <1>0
    <2>2. SubscribedAfter(0, k)
      BY <1>2, <2>1 DEF TbInv, StaysSubscribed
    <2>. QED
      BY <2>2 DEF SubscribedAfter
  <1>4. /\ Len(toClient) \in Nat /\ Len(toClient') = Len(toClient) + 1
        /\ \A i \in 1..Len(toClient) : toClient'[i] = toClient[i]
        /\ toClient'[Len(toClient) + 1] = <<k, id>>
        /\ \A a : (\E i \in 1..Len(toClient') : toClient'[i] = a)
                    <=> a = <<k, id>> \/ \E i \in 1..Len(toClient) : toClient[i] = a
    BY <1>0, <1>1, <1>3, InAppend
  <1>5. \A l \in Requests, x \in Ids :
          /\ Asked(l, x)' <=> Asked(l, x) /\ ~(l = k /\ x = id)
          /\ Answered(l, x)' <=> Answered(l, x) \/ (l = k /\ x = id)
          /\ Sent(l, x)' <=> Sent(l, x)
          /\ Runs(l, x)' <=> Runs(l, x)
          /\ Waits(l, x)' <=> Waits(l, x)
    BY <1>0, <1>1, <1>4 DEF Asked, Answered, Sent, Runs, Waits, Request
  <1>6. CallbacksHaveIds'
    BY <1>0 DEF TbInv, CallbacksHaveIds
  <1>7. MessagesGoOnce'
    <2>1. \A i \in 1..Len(toClient) : toClient[i] # <<k, id>>
      BY <1>2 DEF Answered
    <2>2. \A i, j \in 1..Len(toClient') : toClient'[i] = toClient'[j] => i = j
      BY <1>4, <2>1 DEF TbInv, MessagesGoOnce
    <2>. QED
      BY <1>0, <2>2 DEF TbInv, MessagesGoOnce
  <1>8. OnePlace'
    BY <1>2, <1>5 DEF TbInv, OnePlace
  <1>9. WaitingIsSomewhere'
    BY <1>0, <1>2, <1>5 DEF TbInv, WaitingIsSomewhere
  <1> DEFINE none == <<>>
  <1>10. /\ toServer' = toServer \o none /\ none \in Seq(Messages)
         /\ \A i \in 1..Len(none) : FALSE
    BY <1>0, ConcatEmptySeq, EmptySeq
  <1> HIDE DEF none
  <1>11. StaysSubscribed'
    <2>1. ASSUME NEW l \in Requests, NEW x \in Ids
          PROVE  Asked(l, x)' \/ Answered(l, x)' => Asked(l, x) \/ Answered(l, x)
      BY <1>2, <1>5
    <2>2. subs' = subs
      BY <1>0
    <2>. QED
      BY <1>10, <2>1, <2>2, SendingKeeps
  <1>12. UpdatesAreHeard'
    <2>1. connected /\ connected' = connected /\ subs' = subs /\ registered' = registered
      BY <1>0, <1>1 DEF TbInv, UpdatesAreHeard
    <2>. QED
      BY <1>10, <2>1, SendingIsHeard
  <1>. QED
    BY <1>6, <1>7, <1>8, <1>9, <1>11, <1>12 DEF TbInv


-----------------------------------------------------------------------------
(* The invariant.                                                          *)

LEMMA TbInit == Init => TbInv
  <1> SUFFICES ASSUME Init PROVE TbInv
    OBVIOUS
  <1>1. \A i : i \notin 1..Len(<<>>)
    OBVIOUS
  <1>2. TbTypeOK
    BY TbTypeInit
  <1>3. CallbacksHaveIds /\ MessagesGoOnce
    BY <1>1 DEF Init, CallbacksHaveIds, MessagesGoOnce
  <1>4. \A k \in Requests, id \in Ids :
          ~Waits(k, id) /\ ~Sent(k, id) /\ ~Asked(k, id) /\ ~Answered(k, id) /\ ~Runs(k, id)
    BY <1>1 DEF Init, Waits, Sent, Asked, Answered, Runs
  <1>5. OnePlace /\ WaitingIsSomewhere
    BY <1>4 DEF OnePlace, WaitingIsSomewhere
  <1>6. StaysSubscribed
    BY <1>1, <1>4 DEF Init, StaysSubscribed
  <1>7. UpdatesAreHeard
    BY DEF Init, UpdatesAreHeard
  <1>. QED
    BY <1>2, <1>3, <1>5, <1>6, <1>7 DEF TbInv

LEMMA TbStep == TbInv /\ [Next]_tbVars => TbInv'
  <1> SUFFICES ASSUME TbInv, [Next]_tbVars PROVE TbInv'
    OBVIOUS
  <1>1. TbTypeOK'
    BY TbTypeStep DEF TbInv
  <1>2. ASSUME NEW k \in Requests, MakeRequest(k) PROVE TbInv'
    BY <1>1, <1>2, MakeRequestStep
  <1>3. ASSUME NEW u \in Updates, AddCallback(u) \/ DropCallbacks(u) PROVE TbInv'
    BY <1>1, <1>3, UpdateStep
  <1>4. CASE OnMessage
    BY <1>1, <1>4, OnMessageStep
  <1>5. CASE Returned
    BY <1>1, <1>5, ReturnedStep
  <1>6. CASE Connect
    BY <1>1, <1>6, ConnectStep
  <1>7. CASE Drop
    BY <1>1, <1>7, DropStep
  <1>8. CASE Broker
    BY <1>1, <1>8, BrokerStep
  <1>9. CASE Answer
    BY <1>1, <1>9, AnswerStep
  <1>10. CASE UNCHANGED tbVars
    <2>1. /\ UNCHANGED <<waiting, registered, m_request_id, running, connected, toServer,
                         toClient, subs, asked, lost>>
      BY <1>10 DEF tbVars, callbackVars, serverVars
    <2>2. CallbacksHaveIds' /\ MessagesGoOnce' /\ OnePlace' /\ WaitingIsSomewhere'
      <3>1. \A k \in Requests, id \in Ids : Sent(k, id)' <=> Sent(k, id)
        BY <2>1 DEF Sent, Request
      <3>2. MessagesGoOnce'
        BY <2>1 DEF TbInv, MessagesGoOnce
      <3>. QED
        BY <2>1, <3>1, <3>2, SamePlaces DEF TbInv
    <2>3. UpdatesAreHeard'
      <3>1. \A u \in Updates : Heard(u)' <=> Heard(u)
        BY <2>1 DEF Heard, SubscribedAfter, Subscribe, Unsubscribe
      <3>. QED
        BY <2>1, <3>1 DEF TbInv, UpdatesAreHeard
    <2>4. StaysSubscribed'
      BY <2>1 DEF TbInv, StaysSubscribed, Asked, Answered, Request,
                  SubscribedAfter, Subscribe, Unsubscribe
    <2>. QED
      BY <1>1, <2>2, <2>3, <2>4 DEF TbInv
  <1>. QED
    BY <1>2, <1>3, <1>4, <1>5, <1>6, <1>7, <1>8, <1>9, <1>10 DEF Next, Application

\* The numbers of requests are unique in every place, exactly the callbacks that wait
\* have a request somewhere, and its topic stays subscribed until the answer is read.
THEOREM TbInvariant == Spec => []TbInv
  BY TbInit, TbStep, PTL DEF Spec

\* Whatever a callback waits for is subscribed: unsubscribing with the last callback
\* never cuts off an answer, with any number of requests and losses, and the
\* subscriptions that stay outlive every lost connection.
THEOREM AwaitedStaysHeard == Spec => []AwaitedIsHeard
  <1>1. TbInv => AwaitedIsHeard
    <2> SUFFICES ASSUME TbInv, connected PROVE AwaitedIsHeard
      BY DEF AwaitedIsHeard
    <2>1. ASSUME NEW k \in Requests, InFlight(k) # {} PROVE Heard(k)
      <3>1. PICK id \in InFlight(k) : id \in Ids
        <4>1. InFlight(k) \subseteq 1..m_request_id /\ m_request_id \in Nat
          BY DEF InFlight, TbInv, TbTypeOK
        <4>. QED
          BY <2>1, <4>1 DEF Ids
      <3>2. Sent(k, id) \/ Asked(k, id) \/ Answered(k, id)
        BY <3>1, FlightIsSomewhere
      <3>3. Len(toServer) \in Nat
        BY DEF TbInv, TbTypeOK
      <3>4. CASE Sent(k, id)
        <4>1. PICK i \in 1..Len(toServer) : toServer[i] = Request(k, id)
          BY <3>4 DEF Sent
        <4>2. Len(toServer) \in i..Len(toServer)
          BY <3>3
        <4>. QED
          BY <3>1, <4>1, <4>2 DEF TbInv, StaysSubscribed, Heard
      <3>5. CASE Asked(k, id) \/ Answered(k, id)
        <4>1. Len(toServer) \in 0..Len(toServer)
          BY <3>3
        <4>. QED
          BY <3>1, <3>5, <4>1 DEF TbInv, StaysSubscribed, Heard
      <3>. QED
        BY <3>2, <3>4, <3>5
    <2>2. \A u \in Updates : registered[u] > 0 => Heard(u)
      BY DEF TbInv, UpdatesAreHeard
    <2>. QED
      BY <2>1, <2>2 DEF AwaitedIsHeard
  <1>. QED
    BY <1>1, TbInvariant, PTL

\* No callback waits for nothing, and no answer comes to a callback that is gone: what
\* waits is what is in flight, runs or was lost, for every number of requests.
THEOREM WaitingStaysInFlight == Spec => []WaitingIsInFlight
  <1>1. ASSUME TbInv, NEW k \in Requests
        PROVE  Range(waiting[k]) \ lost =
                 (InFlight(k) \union (IF running # <<>> /\ running[1] = k
                                      THEN {waiting[k][running[2]]} ELSE {})) \ lost
    <2> DEFINE runs == IF running # <<>> /\ running[1] = k THEN {waiting[k][running[2]]} ELSE {}
    <2>1. waiting[k] \in Seq(Ids)
      BY <1>1 DEF TbInv, TbTypeOK
    <2>2. Range(waiting[k]) \subseteq Ids /\ \A id : id \in Range(waiting[k]) <=> Waits(k, id)
      BY <2>1, RangeEquality DEF Waits
    <2>3. runs \subseteq Ids /\ \A id : id \in runs <=> Runs(k, id)
      BY <1>1, RunningTyped DEF TbInv, Runs
    <2>4. InFlight(k) \subseteq Ids
      BY <1>1 DEF InFlight, Ids, TbInv, TbTypeOK
    <2>5. ASSUME NEW id \in Ids
          PROVE  id \in Range(waiting[k]) \ lost <=> id \in (InFlight(k) \union runs) \ lost
      <3>1. id \in InFlight(k) <=> Sent(k, id) \/ Asked(k, id) \/ Answered(k, id)
        BY <1>1, FlightIsSomewhere
      <3>2. Waits(k, id) /\ id \notin lost <=>
              Sent(k, id) \/ Asked(k, id) \/ Answered(k, id) \/ Runs(k, id)
        BY <1>1 DEF TbInv, WaitingIsSomewhere
      <3> HIDE DEF runs
      <3>. QED
        BY <2>2, <2>3, <3>1, <3>2
    <2> HIDE DEF runs
    <2>6. Range(waiting[k]) \ lost = (InFlight(k) \union runs) \ lost
      BY <2>2, <2>3, <2>4, <2>5
    <2>. QED
      BY <2>6 DEF runs
  <1>2. TbInv => WaitingIsInFlight
    BY <1>1 DEF WaitingIsInFlight
  <1>. QED
    BY <1>2, TbInvariant, PTL

-----------------------------------------------------------------------------
(* Every request is answered once.                                         *)

LEMMA FlightAnywhere ==
  TbInv => \A k \in Requests, id \in Ids :
             id \in InFlight(k) => Sent(k, id) \/ Asked(k, id) \/ Answered(k, id)
  BY FlightIsSomewhere

LEMMA FlightAfterwards ==
  (TbInv => \A k \in Requests, id \in Ids :
              id \in InFlight(k) => Sent(k, id) \/ Asked(k, id) \/ Answered(k, id))'
  BY FlightAnywhere, PTL

\* Only a new request comes to be on its way: what is there after a step and is not
\* new was there before.
LEMMA NothingReturns ==
  ASSUME TbInv, TbInv', [Next]_tbVars, NEW k \in Requests, NEW id \in 1..m_request_id,
         id \in InFlight(k)'
  PROVE  id \in InFlight(k)
  <1>0. id \in Ids /\ m_request_id \in Nat
    BY DEF Ids, TbInv, TbTypeOK
  <1>1. Sent(k, id)' \/ Asked(k, id)' \/ Answered(k, id)'
    BY <1>0, FlightAfterwards
  <1>2. Waits(k, id)' /\ id \notin lost' /\ ~Runs(k, id)'
    BY <1>0, <1>1 DEF TbInv, WaitingIsSomewhere, OnePlace
  <1>3. ASSUME Waits(k, id), id \notin lost, Runs(k, id) => Runs(k, id)'
        PROVE  id \in InFlight(k)
    <2>1. Sent(k, id) \/ Asked(k, id) \/ Answered(k, id) \/ Runs(k, id)
      BY <1>0, <1>3 DEF TbInv, WaitingIsSomewhere
    <2>. QED
      BY <1>0, <1>2, <1>3, <2>1, FlightIsSomewhere
  <1>4. CASE OnMessage \/ Connect \/ Drop \/ Broker \/ Answer \/ UNCHANGED tbVars
             \/ \E u \in Updates : AddCallback(u) \/ DropCallbacks(u)
    <2>1. waiting' = waiting /\ lost \subseteq lost'
      BY <1>4 DEF OnMessage, Connect, Drop, Broker, Answer, AddCallback, DropCallbacks,
                  callbackVars, serverVars, tbVars
    <2>2. running' = running \/ running = <<>>
      BY <1>4 DEF OnMessage, Connect, Drop, Broker, Answer, AddCallback, DropCallbacks,
                  callbackVars, serverVars, tbVars
    <2>3. Waits(k, id) /\ id \notin lost
      BY <1>2, <2>1 DEF Waits
    <2>4. Runs(k, id) => Runs(k, id)'
      BY <2>1, <2>2 DEF Runs
    <2>. QED
      BY <1>3, <2>3, <2>4
  <1>5. ASSUME NEW l \in Requests, MakeRequest(l) PROVE id \in InFlight(k)
    <2>1. /\ waiting' = [waiting EXCEPT ![l] = Append(waiting[l], m_request_id + 1)]
          /\ running' = running /\ lost \subseteq lost'
          /\ waiting \in [Requests -> Seq(Ids)] /\ m_request_id + 1 \in Ids
      BY <1>0, <1>5 DEF MakeRequest, TbInv, TbTypeOK, Ids
    <2>2. /\ \A j \in Requests : j # l => waiting'[j] = waiting[j]
          /\ waiting'[l] = Append(waiting[l], m_request_id + 1)
          /\ waiting[l] \in Seq(Ids)
      BY <2>1
    <2>3. /\ \A i \in 1..Len(waiting[l]) : waiting'[l][i] = waiting[l][i]
          /\ (\E i \in 1..Len(waiting'[l]) : waiting'[l][i] = id)
               <=> id = m_request_id + 1 \/ \E i \in 1..Len(waiting[l]) : waiting[l][i] = id
      BY <2>1, <2>2, InAppend
    <2>4. id # m_request_id + 1
      BY <1>0
    <2>5. Waits(k, id) /\ id \notin lost
      BY <1>2, <2>1, <2>2, <2>3, <2>4 DEF Waits
    <2>6. Runs(k, id) => Runs(k, id)'
      <3> SUFFICES ASSUME Runs(k, id) PROVE Runs(k, id)'
        OBVIOUS
      <3>1. running # <<>> /\ running[1] = k /\ waiting[k][running[2]] = id
        BY DEF Runs
      <3>2. running[2] \in 1..Len(waiting[k])
        BY <3>1, RunningTyped DEF TbInv
      <3>3. waiting'[k][running[2]] = id
        BY <2>2, <2>3, <3>1, <3>2
      <3>. QED
        BY <2>1, <3>1, <3>3 DEF Runs
    <2>. QED
      BY <1>3, <2>5, <2>6
  <1>6. CASE Returned
    <2>1. /\ asked' = asked /\ toClient' = toClient /\ connected' = connected
          /\ running # <<>> /\ running[1] \in Requests /\ toServer \in Seq(Messages)
      BY <1>6, RunningTyped DEF Returned, serverVars, TbInv, TbTypeOK
    <2>2. PICK ms \in {<<Unsubscribe(running[1])>>, <<>>} : toServer' = toServer \o ms
      <3>1. <<Unsubscribe(running[1])>> \in Seq(Messages)
        BY <2>1, MessagesTyped, TopicsDiffer
      <3>2. toServer' = toServer \/ Send(<<Unsubscribe(running[1])>>)
        BY <1>6 DEF Returned
      <3>3. toServer = toServer \o <<>>
        BY <2>1, ConcatEmptySeq
      <3>. QED
        BY <3>1, <3>2, <3>3, SendAppends DEF TbInv
    <2>3. Sent(k, id)' <=> Sent(k, id)
      BY <1>0, <2>1, <2>2, TopicSent, TopicsDiffer
    <2>4. Sent(k, id) \/ Asked(k, id) \/ Answered(k, id)
      BY <1>1, <2>1, <2>3 DEF Asked, Answered
    <2>. QED
      BY <1>0, <2>4, FlightIsSomewhere
  <1>. QED
    BY <1>4, <1>5, <1>6 DEF Next, Application

\* What a step does to the history: it makes a request, calls the callback of one that
\* is neither called nor lost, or loses some that are not called.
Answering ==
  \/ m_request_id' = m_request_id + 1 /\ called' = called
     /\ lost' \in {lost, lost \union {m_request_id + 1}}
  \/ \E id \in (1..m_request_id) \ (called \union lost) :
       called' = called \union {id} /\ UNCHANGED <<m_request_id, lost>>
  \/ \E ids \in SUBSET ((1..m_request_id) \ called) :
       lost' = lost \union ids /\ UNCHANGED <<m_request_id, called>>
  \/ UNCHANGED <<m_request_id, called, lost>>

\* The callback that is called waits for its answer, which was on its way.
LEMMA CallingStep ==
  ASSUME TbInv, CalledAreDone, OnMessage
  PROVE  \E k \in Requests : \E id \in InFlight(k) :
           /\ id \notin called \union lost /\ running' = <<k, Asker(k, id)>>
           /\ called' = called \union {id} /\ waiting[k][Asker(k, id)] = id
  <1>1. /\ toClient \in Seq(Requests \X Ids) /\ toClient # <<>>
        /\ \A k \in Requests : waiting[k] \in Seq(Ids)
    BY DEF OnMessage, TbInv, TbTypeOK
  <1>2. Head(toClient) = toClient[1] /\ toClient[1] \in Requests \X Ids /\ 1 \in 1..Len(toClient)
    BY <1>1, HeadAndTail
  <1>3. PICK k \in Requests, id \in Ids : Head(toClient) = <<k, id>> /\ Answered(k, id)
    BY <1>2 DEF Answered
  <1>4. Waits(k, id) /\ id \notin lost
    BY <1>3 DEF TbInv, WaitingIsSomewhere
  <1>5. id \in InFlight(k) /\ id \notin called
    BY <1>3, FlightIsSomewhere DEF CalledAreDone
  <1>6. id \in Range(waiting[k])
    BY <1>1, <1>4, RangeEquality DEF Waits
  <1>7. running' = <<k, Asker(k, id)>> /\ called' = called \union {id}
    BY <1>3, <1>6 DEF OnMessage
  <1>8. waiting[k][Asker(k, id)] = id
    BY <1>6, AskerFound DEF TbInv
  <1>. QED
    BY <1>4, <1>5, <1>7, <1>8

LEMMA AnsweringStep ==
  ASSUME TbInv, CalledAreDone, [Next]_tbVars
  PROVE  Answering
  <1>1. CASE OnMessage
    <2>1. UNCHANGED <<m_request_id, lost>>
      BY <1>1 DEF OnMessage
    <2>2. \A k : InFlight(k) \subseteq 1..m_request_id
      BY DEF InFlight
    <2>. QED
      BY <1>1, <2>1, <2>2, CallingStep DEF Answering
  <1>2. CASE \E k \in Requests : MakeRequest(k)
    BY <1>2 DEF MakeRequest, Answering
  <1>3. CASE Drop
    <2>1. UNION {InFlight(k) : k \in Requests} \in SUBSET ((1..m_request_id) \ called)
      <3>1. \A k \in Requests : InFlight(k) \subseteq (1..m_request_id) \ called
        BY DEF InFlight, CalledAreDone
      <3>. QED
        BY <3>1
    <2>2. /\ lost' = lost \union UNION {InFlight(k) : k \in Requests}
          /\ UNCHANGED <<m_request_id, called>>
      BY <1>3 DEF Drop, callbackVars
    <2>. QED
      BY <2>1, <2>2 DEF Answering
  <1>4. CASE Returned \/ Connect \/ Broker \/ Answer \/ UNCHANGED tbVars
             \/ \E u \in Updates : AddCallback(u) \/ DropCallbacks(u)
    <2>1. UNCHANGED <<m_request_id, called, lost>>
      BY <1>4 DEF Returned, Connect, Broker, Answer, AddCallback, DropCallbacks,
                  callbackVars, serverVars, tbVars
    <2>. QED
      BY <2>1 DEF Answering
  <1>. QED
    BY <1>1, <1>2, <1>3, <1>4 DEF Next, Application

LEMMA CalledStep ==
  ASSUME TbInv, TbInv', CalledAreDone, [Next]_tbVars
  PROVE  CalledAreDone'
  <1>1. Answering
    BY AnsweringStep
  <1>2. m_request_id \in Nat /\ m_request_id' \in Nat /\ lost \subseteq 1..m_request_id
    BY DEF TbInv, TbTypeOK
  <1>3. m_request_id' \in {m_request_id, m_request_id + 1}
    BY <1>1 DEF Answering
  <1>4. called' \subseteq 1..m_request_id' /\ called' \intersect lost' = {}
    <2>1. called \subseteq 1..m_request_id /\ called \intersect lost = {}
      BY DEF CalledAreDone
    <2>2. (1..m_request_id) \subseteq (1..m_request_id') /\ m_request_id + 1 \notin called
      BY <1>2, <1>3, <2>1
    <2>. QED
      BY <1>1, <2>1, <2>2 DEF Answering
  <1>5. called' \subseteq 1..m_request_id
    <2>1. m_request_id' # m_request_id => called' = called
      BY <1>1 DEF Answering
    <2>. QED
      BY <1>4, <2>1 DEF CalledAreDone
  <1>6. ASSUME NEW k \in Requests, NEW id \in called' PROVE id \notin InFlight(k)'
    <2> SUFFICES ASSUME id \in InFlight(k)' PROVE FALSE
      OBVIOUS
    <2>1. id \in InFlight(k)
      BY <1>5, <1>6, NothingReturns
    <2>2. id \notin called
      BY <2>1 DEF CalledAreDone
    <2>3. OnMessage
      BY <1>6, <2>2 DEF Next, Application, OnMessage, Returned, Connect, Drop, Broker, Answer,
                        AddCallback, DropCallbacks, MakeRequest, tbVars
    <2>4. PICK l \in Requests : \E x \in InFlight(l) :
             /\ running' = <<l, Asker(l, x)>> /\ called' = called \union {x}
             /\ waiting[l][Asker(l, x)] = x
      BY <2>3, CallingStep
    <2>5. id \in InFlight(l) /\ running' = <<l, Asker(l, id)>> /\ waiting[l][Asker(l, id)] = id
      BY <1>6, <2>2, <2>4
    <2>6. id \in Ids
      BY <1>2, <1>5 DEF Ids
    <2>7. k = l
      <3>1. Waits(k, id) /\ Waits(l, id)
        BY <2>1, <2>5, <2>6, FlightIsSomewhere DEF TbInv, WaitingIsSomewhere
      <3>. QED
        BY <3>1 DEF Waits, TbInv, CallbacksHaveIds
    <2>8. Runs(k, id)'
      <3>1. waiting' = waiting /\ <<l, Asker(l, id)>> # <<>>
        BY <2>3 DEF OnMessage
      <3>. QED
        BY <2>5, <2>7, <3>1 DEF Runs
    <2>9. Sent(k, id)' \/ Asked(k, id)' \/ Answered(k, id)'
      BY <2>6, FlightAfterwards
    <2>. QED
      BY <2>6, <2>8, <2>9 DEF TbInv, OnePlace
  <1>. QED
    BY <1>4, <1>6 DEF CalledAreDone

\* A callback is called at most once, only for a request that was made, and never for
\* one that was lost: with any number of requests, each order of the answers and a
\* connection that breaks anywhere.  CalledAreDone is what makes the step of the call
\* a step of OnceAnswered: what was called has nothing on its way.
THEOREM ClientAnswersOnce == Spec => ImplementsOnceAnswered
  <1>1. Init => CalledAreDone
    <2> SUFFICES ASSUME Init PROVE CalledAreDone
      OBVIOUS
    <2>. QED
      BY DEF Init, CalledAreDone
  <1>2. Init => Once!OnceInit
    BY DEF Init, Once!OnceInit
  <1>3. TbInv /\ TbInv' /\ CalledAreDone /\ [Next]_tbVars => CalledAreDone'
    BY CalledStep
  <1>4. TbInv /\ CalledAreDone /\ [Next]_tbVars => [Once!OnceNext]_Once!onceVars
    <2> SUFFICES ASSUME TbInv, CalledAreDone, [Next]_tbVars
                 PROVE  [Once!OnceNext]_Once!onceVars
      OBVIOUS
    <2>1. Answering
      BY AnsweringStep
    <2>. QED
      BY <2>1 DEF Answering, Once!OnceNext, Once!Make, Once!Call, Once!LoseSome, Once!onceVars
  <1>. QED
    BY <1>1, <1>2, <1>3, <1>4, TbInvariant, PTL
       DEF Spec, ImplementsOnceAnswered, Once!OnceSpec
=============================================================================
