------------------------------ MODULE HubProofs ------------------------------
(***************************************************************************)
(* Hub's type invariant and its registry invariant, for any sets of        *)
(* topics, subscribers, streams and messages and any channel capacity.     *)
(***************************************************************************)
EXTENDS Hub, TLAPS

(* Every variable of the hub keeps its type, and no channel ever holds more
   than its capacity. *)
THEOREM HubTypeCorrect == Spec => []TypeOK
<1> USE CapAssumption, NoStreamAssumption, AddressAssumption
       DEF Keys, StreamStates, CallStates
<1>1. Init => TypeOK
  BY DEF Init, TypeOK
<1>2. TypeOK /\ [Next]_hubVars => TypeOK'
  <2> SUFFICES ASSUME TypeOK, [Next]_hubVars PROVE TypeOK'
    OBVIOUS
  <2>1. ASSUME NEW c \in Streams, Subscribe(c) PROVE TypeOK'
    BY <2>1 DEF TypeOK, Subscribe, CloseEntry
  <2>2. ASSUME NEW c \in Streams, Unsubscribe(c) PROVE TypeOK'
    BY <2>2 DEF TypeOK, Unsubscribe, DropEntry, CloseEntry
  <2>3. ASSUME NEW c \in Streams, Cut(c) PROVE TypeOK'
    BY <2>3 DEF TypeOK, Cut
  <2>4. ASSUME NEW c \in Streams, Receive(c) PROVE TypeOK'
    <3>1. /\ buf[c] \in Seq(Msgs) /\ Len(buf[c]) <= Cap /\ buf[c] # <<>>
          /\ got[c] \in Seq(Msgs)
      BY <2>4 DEF TypeOK, Receive
    <3>2. /\ Tail(buf[c]) \in Seq(Msgs) /\ Len(Tail(buf[c])) <= Cap
          /\ Append(got[c], Head(buf[c])) \in Seq(Msgs)
      BY <3>1
    <3>3. QED
      BY <2>4, <3>2 DEF TypeOK, Receive
  <2>5. ASSUME NEW c \in Streams, SeeClosed(c) PROVE TypeOK'
    BY <2>5 DEF TypeOK, SeeClosed, Drained
  <2>6. ASSUME NEW c \in Streams, SeeDone(c) PROVE TypeOK'
    BY <2>6 DEF TypeOK, SeeDone
  <2>7. ASSUME NEW m \in Msgs, Notify(m) PROVE TypeOK'
    <3>1. Listeners(TopicOf[m]) \subseteq Streams
      <4>1. \A s \in Subs : <<TopicOf[m], s>> \in Keys
        OBVIOUS
      <4>2. \A k \in Keys : mp[k] \in Streams \cup {NoStream}
        BY DEF TypeOK
      <4>3. QED
        BY <4>1, <4>2 DEF Listeners
    <3>2. QED
      BY <2>7, <3>1 DEF TypeOK, Notify
  <2>8. ASSUME NEW m \in Msgs, NEW c \in Streams, Send(m, c) PROVE TypeOK'
    <3>1. buf[c] \in Seq(Msgs) /\ Len(buf[c]) <= Cap
      BY DEF TypeOK
    <3>2. /\ Append(buf[c], m) \in Seq(Msgs)
          /\ Len(buf[c]) < Cap => Len(Append(buf[c], m)) <= Cap
      BY <3>1
    <3>3. QED
      BY <2>8, <3>2 DEF TypeOK, Send, HasRoom
  <2>9. ASSUME NEW m \in Msgs, NEW c \in Streams, SendPanics(m, c) PROVE TypeOK'
    BY <2>9 DEF TypeOK, SendPanics
  <2>10. CASE Restart
    BY <2>10 DEF TypeOK, Restart
  <2>11. CASE UNCHANGED hubVars
    BY <2>11 DEF TypeOK, hubVars
  <2>12. QED
    BY <2>1, <2>2, <2>3, <2>4, <2>5, <2>6, <2>7, <2>8, <2>9, <2>10, <2>11
       DEF Next, Handler
<1>3. QED
  BY <1>1, <1>2, PTL DEF Spec

(* The two halves of the registry's invariant need each other: a stream's entry
   is only taken over by closing its channel.  A stream that has not subscribed
   yet has no closed channel. *)
RegistryInv ==
    /\ RegistryHoldsOpen
    /\ OpenIsRegistered
    /\ \A c \in closed : stream[c] # "idle"

(* The channels the registry holds are exactly the open channels of live
   streams.  So no channel is closed twice, whatever the interleaving of
   subscribers, deferred unsubscribes and restarts, and every open stream can
   be found by Notify. *)
THEOREM HubRegistryCorrect == Spec => [](RegistryHoldsOpen /\ OpenIsRegistered)
<1> USE NoStreamAssumption, AddressAssumption DEF Keys
<1>1. Init => RegistryInv
  BY DEF Init, RegistryInv, RegistryHoldsOpen, OpenIsRegistered, Live
<1>2. TypeOK /\ TypeOK' /\ RegistryInv /\ [Next]_hubVars => RegistryInv'
  <2> SUFFICES ASSUME TypeOK, TypeOK', RegistryInv, [Next]_hubVars PROVE RegistryInv'
    OBVIOUS
  <2> USE DEF RegistryInv, RegistryHoldsOpen, OpenIsRegistered, Live
  <2>1. ASSUME NEW c \in Streams, Subscribe(c) PROVE RegistryInv'
    <3>1. KeyOf[c] \in Keys /\ c \notin closed /\ \A k \in Keys : mp[k] # c
      BY <2>1 DEF Subscribe, TypeOK
    <3>2. QED
      BY <2>1, <3>1 DEF Subscribe, CloseEntry, TypeOK
  <2>2. ASSUME NEW c \in Streams, Unsubscribe(c) PROVE RegistryInv'
    BY <2>2 DEF Unsubscribe, DropEntry, CloseEntry, TypeOK
  <2>3. ASSUME NEW c \in Streams, SeeClosed(c) \/ SeeDone(c) PROVE RegistryInv'
    <3>1. /\ stream[c] = "serving" /\ stream' = [stream EXCEPT ![c] = "leaving"]
          /\ UNCHANGED <<mp, closed>>
      BY <2>3 DEF SeeClosed, Drained, SeeDone
    <3>2. \A d \in Streams :
            (Live(d)' <=> Live(d)) /\ (stream'[d] = "idle" <=> stream[d] = "idle")
      BY <3>1 DEF TypeOK
    <3>3. closed \subseteq Streams /\ mp \in [Keys -> Streams \cup {NoStream}]
      BY DEF TypeOK
    <3>4. RegistryHoldsOpen'
      BY <3>1, <3>2, <3>3
    <3>5. OpenIsRegistered'
      BY <3>1, <3>2
    <3>6. QED
      BY <3>1, <3>2, <3>3, <3>4, <3>5
  <2>4. ASSUME NEW c \in Streams, Cut(c) \/ Receive(c) PROVE RegistryInv'
    BY <2>4 DEF Cut, Receive
  <2>5. ASSUME NEW m \in Msgs, Notify(m) PROVE RegistryInv'
    BY <2>5 DEF Notify
  <2>6. ASSUME NEW m \in Msgs, NEW c \in Streams, Send(m, c) \/ SendPanics(m, c)
        PROVE RegistryInv'
    BY <2>6 DEF Send, HasRoom, SendPanics
  <2>7. CASE Restart
    BY <2>7 DEF Restart, TypeOK
  <2>8. CASE UNCHANGED hubVars
    BY <2>8 DEF hubVars
  <2>9. QED
    BY <2>1, <2>2, <2>3, <2>4, <2>5, <2>6, <2>7, <2>8 DEF Next, Handler
<1>3. QED
  BY <1>1, <1>2, HubTypeCorrect, PTL DEF Spec, RegistryInv

(* Every live stream whose channel is open is the one its address leads to, so
   that Notify finds it. *)
THEOREM HubOpenRegistered == Spec => []OpenIsRegistered
<1>1. RegistryHoldsOpen /\ OpenIsRegistered => OpenIsRegistered
  OBVIOUS
<1>2. QED
  BY <1>1, HubRegistryCorrect, PTL

(* Notify only finds channels of live streams that are open, each under the
   topic of its stream. *)
LEMMA ListenersAreOpen ==
    ASSUME TypeOK, RegistryHoldsOpen, NEW m \in Msgs, NEW c \in Listeners(TopicOf[m])
    PROVE  c \in Streams /\ c \notin closed /\ Live(c) /\ TopicOf[m] = KeyOf[c][1]
<1>1. PICK s \in Subs : c = mp[<<TopicOf[m], s>>] /\ c # NoStream
  BY DEF Listeners
<1>2. <<TopicOf[m], s>> \in Keys
  BY AddressAssumption DEF Keys
<1>3. c \in Streams
  BY <1>1, <1>2 DEF TypeOK
<1>4. c \notin closed /\ KeyOf[c] = <<TopicOf[m], s>> /\ Live(c)
  BY <1>1, <1>2 DEF RegistryHoldsOpen
<1>5. QED
  BY <1>3, <1>4

(* Nothing is in the channel of c and nothing can be added: it is closed, or its
   stream is gone, as after a restart, and no call of Notify has it before it. *)
Finished(c) ==
    /\ buf[c] = <<>>
    /\ c \in closed \/ (stream[c] = "gone" /\ \A m \in Msgs : c \notin todo[m])

QueueInv ==
    \A c \in Streams : stream[c] \in {"leaving", "gone"} /\ c \notin cut => Finished(c)

LEMMA QueueStep ==
    ASSUME TypeOK, RegistryHoldsOpen, QueueInv, [Next]_hubVars
    PROVE  QueueInv'
<1> SUFFICES ASSUME NEW c \in Streams, stream'[c] \in {"leaving", "gone"}, c \notin cut'
             PROVE  Finished(c)'
  BY DEF QueueInv
<1>1. ASSUME NEW d \in Streams, Subscribe(d) PROVE Finished(c)'
  BY <1>1 DEF QueueInv, Finished, Subscribe, CloseEntry, TypeOK
<1>2. ASSUME NEW d \in Streams, Unsubscribe(d) PROVE Finished(c)'
  BY <1>2 DEF QueueInv, Finished, Unsubscribe, CloseEntry, DropEntry, TypeOK
<1>3. ASSUME NEW d \in Streams, Cut(d) PROVE Finished(c)'
  BY <1>3 DEF QueueInv, Finished, Cut
<1>4. ASSUME NEW d \in Streams, Receive(d) PROVE Finished(c)'
  BY <1>4 DEF QueueInv, Finished, Receive, TypeOK
<1>5. ASSUME NEW d \in Streams, SeeClosed(d) PROVE Finished(c)'
  BY <1>5 DEF QueueInv, Finished, SeeClosed, Drained, TypeOK
<1>6. ASSUME NEW d \in Streams, SeeDone(d) PROVE Finished(c)'
  BY <1>6 DEF QueueInv, Finished, SeeDone, TypeOK
<1>7. ASSUME NEW m \in Msgs, Notify(m) PROVE Finished(c)'
  <2>1. Finished(c) /\ stream[c] \in {"leaving", "gone"}
    BY <1>7 DEF QueueInv, Notify
  <2>2. c \in closed \/ c \notin Listeners(TopicOf[m])
    BY <2>1, ListenersAreOpen DEF Finished, Live
  <2>3. QED
    BY <1>7, <2>1, <2>2 DEF Finished, Notify, TypeOK
<1>8. ASSUME NEW m \in Msgs, NEW d \in Streams, Send(m, d) PROVE Finished(c)'
  <2>1. Finished(c)
    BY <1>8 DEF QueueInv, Send
  <2>2. c # d
    BY <1>8, <2>1 DEF Finished, Send
  <2>3. QED
    BY <1>8, <2>1, <2>2 DEF Finished, Send, HasRoom, TypeOK
<1>9. ASSUME NEW m \in Msgs, NEW d \in Streams, SendPanics(m, d) PROVE Finished(c)'
  BY <1>9 DEF QueueInv, Finished, SendPanics, TypeOK
<1>10. CASE Restart
  BY <1>10 DEF Finished, Restart, TypeOK
<1>11. CASE UNCHANGED hubVars
  BY <1>11 DEF QueueInv, Finished, hubVars
<1>12. QED
  BY <1>1, <1>2, <1>3, <1>4, <1>5, <1>6, <1>7, <1>8, <1>9, <1>10, <1>11 DEF Next, Handler

(* A handler that leaves its loop because its channel was closed has written
   everything the channel held, for any capacity and any number of senders. *)
THEOREM HubNothingLeft == Spec => []NothingLeftBehind
<1>1. Init => QueueInv
  BY DEF Init, QueueInv
<1>2. TypeOK /\ RegistryHoldsOpen /\ QueueInv /\ [Next]_hubVars => QueueInv'
  BY QueueStep
<1>3. QueueInv => NothingLeftBehind
  BY DEF QueueInv, Finished, NothingLeftBehind
<1>4. QED
  BY <1>1, <1>2, <1>3, HubTypeCorrect, HubRegistryCorrect, PTL DEF Spec

-----------------------------------------------------------------------------
(* A message that has reached c's channel is of c's topic, and the call of
   Notify it belongs to does not have c before it any more. *)
Reached(c, m) ==
    TopicOf[m] = KeyOf[c][1] /\ call[m] # "idle" /\ c \notin todo[m]

Distinct(s) == \A i, j \in DOMAIN s : s[i] = s[j] => i = j
Apart(s, t) == \A i \in DOMAIN s, j \in DOMAIN t : s[i] # t[j]

(* What a channel holds and what its peer got are different messages of the
   topic, and what is to be sent is neither. *)
DeliveryInv ==
    /\ \A m \in Msgs : \A c \in todo[m] : call[m] # "idle" /\ TopicOf[m] = KeyOf[c][1]
    /\ \A c \in Streams :
        /\ \A i \in DOMAIN buf[c] : Reached(c, buf[c][i])
        /\ \A i \in DOMAIN got[c] : Reached(c, got[c][i])
        /\ Distinct(buf[c]) /\ Distinct(got[c]) /\ Apart(buf[c], got[c])

LEMMA AppendNew ==
    ASSUME NEW S, NEW s \in Seq(S), NEW x \in S, Distinct(s), \A i \in DOMAIN s : s[i] # x
    PROVE  Distinct(Append(s, x))
BY DEF Distinct

LEMMA TailDistinct ==
    ASSUME NEW S, NEW s \in Seq(S), s # <<>>, Distinct(s)
    PROVE  /\ Distinct(Tail(s))
           /\ \A i \in DOMAIN Tail(s) : Tail(s)[i] # Head(s) /\ i + 1 \in DOMAIN s
                                        /\ Tail(s)[i] = s[i + 1]
           /\ 1 \in DOMAIN s /\ Head(s) = s[1]
BY DEF Distinct

LEMMA DeliveryStep ==
    ASSUME TypeOK, RegistryHoldsOpen, DeliveryInv, [Next]_hubVars
    PROVE  DeliveryInv'
<1> USE DEF DeliveryInv, Reached
<1>1. ASSUME NEW d \in Streams, Subscribe(d) PROVE DeliveryInv'
  BY <1>1 DEF Subscribe
<1>2. ASSUME NEW d \in Streams, Unsubscribe(d) PROVE DeliveryInv'
  BY <1>2 DEF Unsubscribe
<1>3. ASSUME NEW d \in Streams, Cut(d) PROVE DeliveryInv'
  BY <1>3 DEF Cut
<1>4. ASSUME NEW d \in Streams, Receive(d) PROVE DeliveryInv'
  <2>1. /\ buf[d] \in Seq(Msgs) /\ got[d] \in Seq(Msgs) /\ buf[d] # <<>>
        /\ Distinct(buf[d]) /\ Distinct(got[d]) /\ Apart(buf[d], got[d])
    BY <1>4 DEF Receive, TypeOK
  <2>2. /\ Distinct(Tail(buf[d]))
        /\ \A i \in DOMAIN Tail(buf[d]) : Tail(buf[d])[i] # Head(buf[d])
              /\ i + 1 \in DOMAIN buf[d] /\ Tail(buf[d])[i] = buf[d][i + 1]
        /\ 1 \in DOMAIN buf[d] /\ Head(buf[d]) = buf[d][1]
    BY <2>1, TailDistinct
  <2> DEFINE more == Append(got[d], Head(buf[d]))
  <2>3. /\ Head(buf[d]) \in Msgs
        /\ DOMAIN more = 1 .. Len(got[d]) + 1
        /\ \A i \in DOMAIN more : IF i = Len(got[d]) + 1 THEN more[i] = Head(buf[d])
                                  ELSE i \in DOMAIN got[d] /\ more[i] = got[d][i]
    BY <2>1
  <2>4. Distinct(more)
    BY <2>1, <2>2, <2>3, AppendNew DEF Apart
  <2>5. Apart(Tail(buf[d]), got[d]) /\ Apart(Tail(buf[d]), more)
    BY <2>1, <2>2, <2>3 DEF Apart
  <2>6. /\ \A i \in DOMAIN Tail(buf[d]) : Reached(d, Tail(buf[d])[i])
        /\ \A i \in DOMAIN more : Reached(d, more[i])
    BY <2>2, <2>3
  <2>7. /\ buf' = [buf EXCEPT ![d] = Tail(buf[d])]
        /\ got' = got \/ got' = [got EXCEPT ![d] = more]
        /\ UNCHANGED <<call, todo>>
    BY <1>4 DEF Receive
  <2> HIDE DEF more
  <2>8. QED
    BY <2>2, <2>4, <2>5, <2>6, <2>7 DEF TypeOK
<1>5. ASSUME NEW d \in Streams, SeeClosed(d) \/ SeeDone(d) PROVE DeliveryInv'
  BY <1>5 DEF SeeClosed, SeeDone
<1>6. ASSUME NEW m \in Msgs, Notify(m) PROVE DeliveryInv'
  <2>1. \A c \in Listeners(TopicOf[m]) : TopicOf[m] = KeyOf[c][1]
    BY ListenersAreOpen
  <2>2. \A c \in Streams :
          /\ \A i \in DOMAIN buf[c] : buf[c][i] # m
          /\ \A i \in DOMAIN got[c] : got[c][i] # m
    BY <1>6 DEF Notify
  <2>3. \A n \in Msgs : n # m => call'[n] = call[n] /\ todo'[n] = todo[n]
    BY <1>6 DEF Notify, TypeOK
  <2>4. todo'[m] = Listeners(TopicOf[m]) /\ call'[m] # "idle" /\ UNCHANGED <<buf, got>>
    BY <1>6 DEF Notify, TypeOK
  <2>5. \A c \in Streams :
          /\ \A i \in DOMAIN buf[c] : buf[c][i] \in Msgs
          /\ \A i \in DOMAIN got[c] : got[c][i] \in Msgs
    BY DEF TypeOK
  <2>6. QED
    BY <2>1, <2>2, <2>3, <2>4, <2>5
<1>7. ASSUME NEW m \in Msgs, NEW d \in Streams, Send(m, d) PROVE DeliveryInv'
  <2>1. /\ buf[d] \in Seq(Msgs) /\ d \in todo[m] /\ call[m] = "sending"
        /\ Distinct(buf[d]) /\ Distinct(got[d]) /\ Apart(buf[d], got[d])
    BY <1>7 DEF Send, TypeOK
  <2>2. /\ \A i \in DOMAIN buf[d] : buf[d][i] # m
        /\ \A i \in DOMAIN got[d] : got[d][i] # m
    BY <2>1
  <2> DEFINE more == Append(buf[d], m)
  <2>3. /\ DOMAIN more = 1 .. Len(buf[d]) + 1
        /\ \A i \in DOMAIN more : IF i = Len(buf[d]) + 1 THEN more[i] = m
                                  ELSE i \in DOMAIN buf[d] /\ more[i] = buf[d][i]
    BY <2>1
  <2>4. Distinct(more) /\ Apart(more, got[d])
    BY <2>1, <2>2, <2>3, AppendNew DEF Apart
  <2>5. /\ todo' = [todo EXCEPT ![m] = todo[m] \ {d}] /\ got' = got
        /\ \A n \in Msgs : call'[n] # "idle" <=> call[n] # "idle"
        /\ buf' = buf \/ buf' = [buf EXCEPT ![d] = more]
    BY <1>7 DEF Send, TypeOK
  <2>6. \A n \in Msgs : todo'[n] \subseteq todo[n] /\ (n = m => d \notin todo'[n])
    BY <2>5 DEF TypeOK
  <2>7. /\ Reached(d, m)'
        /\ \A c \in Streams, n \in Msgs : Reached(c, n) => Reached(c, n)'
    BY <2>1, <2>5, <2>6
  <2>8. \A n \in Msgs : \A c \in todo'[n] : call'[n] # "idle" /\ TopicOf[n] = KeyOf[c][1]
    BY <2>5, <2>6
  <2> HIDE DEF more, Reached
  <2>9. \A c \in Streams :
          /\ \A i \in DOMAIN buf[c] : buf[c][i] \in Msgs /\ Reached(c, buf[c][i])
          /\ \A i \in DOMAIN got[c] : got[c][i] \in Msgs /\ Reached(c, got[c][i])
    BY DEF TypeOK
  <2>10. ASSUME NEW c \in Streams
         PROVE  /\ (\A i \in DOMAIN buf[c] : Reached(c, buf[c][i]))'
                /\ (\A i \in DOMAIN got[c] : Reached(c, got[c][i]))'
                /\ Distinct(buf'[c]) /\ Distinct(got'[c]) /\ Apart(buf'[c], got'[c])
    <3>1. CASE c = d /\ buf' = [buf EXCEPT ![d] = more]
      <4>1. buf'[c] = more /\ got'[c] = got[c]
        BY <2>5, <3>1 DEF TypeOK
      <4>2. \A i \in DOMAIN more : more[i] = m \/ (i \in DOMAIN buf[c] /\ more[i] = buf[c][i])
        BY <2>3, <3>1
      <4>3. QED
        BY <2>1, <2>4, <2>7, <2>9, <3>1, <4>1, <4>2
    <3>2. CASE c # d \/ buf' = buf
      <4>1. buf'[c] = buf[c] /\ got'[c] = got[c]
        BY <2>5, <3>2 DEF TypeOK
      <4>2. QED
        BY <2>7, <2>9, <4>1
    <3>3. QED
      BY <2>5, <3>1, <3>2
  <2>11. QED
    BY <2>8, <2>10
<1>8. ASSUME NEW m \in Msgs, NEW d \in Streams, SendPanics(m, d) PROVE DeliveryInv'
  <2>1. \A n \in Msgs : todo'[n] \subseteq todo[n] /\ (call'[n] # "idle" <=> call[n] # "idle")
    BY <1>8 DEF SendPanics, TypeOK
  <2>2. \A c \in Streams :
          /\ \A i \in DOMAIN buf[c] : buf[c][i] \in Msgs
          /\ \A i \in DOMAIN got[c] : got[c][i] \in Msgs
    BY DEF TypeOK
  <2>3. QED
    BY <1>8, <2>1, <2>2 DEF SendPanics
<1>9. CASE Restart
  <2>1. /\ \A n \in Msgs : todo'[n] = {} /\ (call'[n] # "idle" <=> call[n] # "idle")
        /\ \A c \in Streams : buf'[c] = <<>> /\ got'[c] = got[c]
    BY <1>9 DEF Restart, TypeOK
  <2>2. \A c \in Streams : \A i \in DOMAIN got[c] : got[c][i] \in Msgs
    BY DEF TypeOK
  <2>3. QED
    BY <2>1, <2>2 DEF Distinct, Apart
<1>10. CASE UNCHANGED hubVars
  BY <1>10 DEF hubVars
<1>11. QED
  BY <1>1, <1>2, <1>3, <1>4, <1>5, <1>6, <1>7, <1>8, <1>9, <1>10 DEF Next, Handler

(* A peer gets each message at most once and only messages of the topic it
   subscribed to, although the sends of a call run outside the lock and one by
   one, while streams are replaced, closed and cut. *)
THEOREM HubOnTopicOnce == Spec => []OnTopicOnce
<1>1. Init => DeliveryInv
  BY DEF Init, DeliveryInv, Distinct, Apart
<1>2. TypeOK /\ RegistryHoldsOpen /\ DeliveryInv /\ [Next]_hubVars => DeliveryInv'
  BY DeliveryStep
<1>3. DeliveryInv => OnTopicOnce
  BY DEF DeliveryInv, Reached, Distinct, OnTopicOnce
<1>4. QED
  BY <1>1, <1>2, <1>3, HubTypeCorrect, HubRegistryCorrect, PTL DEF Spec

-----------------------------------------------------------------------------
(* Superseded streams: all of SupersededStreamsEnd but the fairness that   *)
(* drives it.                                                              *)

(* The registry never holds any but the newest stream of an address. *)
RegistryHoldsNewest == \A k \in Keys : mp[k] \in {NoStream, latest[k]}

LEMMA NewestStep ==
    ASSUME TypeOK, RegistryHoldsNewest, [Next]_hubVars
    PROVE  RegistryHoldsNewest'
<1> USE DEF RegistryHoldsNewest
<1>1. ASSUME NEW c \in Streams, Subscribe(c) PROVE RegistryHoldsNewest'
  BY <1>1, AddressAssumption DEF Subscribe, TypeOK
<1>2. ASSUME NEW c \in Streams, Unsubscribe(c) PROVE RegistryHoldsNewest'
  BY <1>2 DEF Unsubscribe, DropEntry, TypeOK
<1>3. CASE Restart
  BY <1>3 DEF Restart
<1>4. CASE UNCHANGED <<mp, latest>>
  BY <1>4
<1>5. QED
  BY <1>1, <1>2, <1>3, <1>4
  DEF Next, Handler, hubVars, Receive, SeeClosed, SeeDone, Cut, Notify, Send, SendPanics

SupersededIsClosed == \A c \in Streams : Superseded(c) => c \in closed

LEMMA NewestIsOpen ==
    ASSUME TypeOK, OpenIsRegistered, RegistryHoldsNewest
    PROVE  SupersededIsClosed
<1> SUFFICES ASSUME NEW c \in Streams, Superseded(c), c \notin closed PROVE FALSE
  BY DEF SupersededIsClosed
<1>1. mp[KeyOf[c]] = c
  BY DEF Superseded, OpenIsRegistered, Live
<1>2. KeyOf[c] \in Keys /\ c # NoStream
  BY AddressAssumption, NoStreamAssumption
<1>3. QED
  BY <1>1, <1>2 DEF Superseded, RegistryHoldsNewest

(* A handler that has been replaced serves a channel which is closed: however
   subscribers, deferred unsubscribes and restarts interleave, nobody forgets to
   close the old one, and so no old goroutine waits on it for ever. *)
THEOREM HubSupersededIsClosed == Spec => []SupersededIsClosed
<1>1. Init => RegistryHoldsNewest
  BY DEF Init, RegistryHoldsNewest
<1>2. TypeOK /\ RegistryHoldsNewest /\ [Next]_hubVars => RegistryHoldsNewest'
  BY NewestStep
<1>3. TypeOK /\ RegistryHoldsOpen /\ OpenIsRegistered /\ RegistryHoldsNewest
      => SupersededIsClosed
  BY NewestIsOpen
<1>4. QED
  BY <1>1, <1>2, <1>3, HubTypeCorrect, HubRegistryCorrect, PTL DEF Spec

(* While it serves, a superseded stream stays superseded, nothing is added to
   what its channel holds, and each step of its handler takes something out. *)
Drains ==
    \A c \in Streams : Superseded(c) /\ stream'[c] = "serving" =>
        /\ Superseded(c)'
        /\ Len(buf'[c]) <= Len(buf[c])
        /\ Handler(c) => Len(buf'[c]) < Len(buf[c])

LEMMA TailShorter ==
    ASSUME NEW s \in Seq(Msgs), s # <<>>
    PROVE  Len(Tail(s)) < Len(s)
OBVIOUS

LEMMA DrainsStep ==
    ASSUME TypeOK, TypeOK', SupersededIsClosed, [Next]_hubVars
    PROVE  Drains
<1> SUFFICES ASSUME NEW c \in Streams, Superseded(c), stream'[c] = "serving"
             PROVE  /\ Superseded(c)'
                    /\ Len(buf'[c]) <= Len(buf[c])
                    /\ Handler(c) => Len(buf'[c]) < Len(buf[c])
  BY DEF Drains
<1>1. stream[c] = "serving" /\ latest[KeyOf[c]] # c /\ c \in closed
  BY DEF Superseded, SupersededIsClosed
<1>2. buf[c] \in Seq(Msgs) /\ buf'[c] \in Seq(Msgs)
  BY DEF TypeOK
<1>3. Superseded(c)'
  <2>1. ASSUME NEW d \in Streams, Subscribe(d) PROVE latest'[KeyOf[c]] # c
    BY <1>1, <2>1, AddressAssumption DEF Subscribe, TypeOK
  <2>2. ASSUME UNCHANGED latest PROVE latest'[KeyOf[c]] # c
    BY <1>1, <2>2
  <2>3. UNCHANGED latest \/ \E d \in Streams : Subscribe(d)
    BY DEF Next, Handler, hubVars, Receive, SeeClosed, SeeDone, Unsubscribe, Cut, Notify,
           Send, SendPanics, Restart
  <2>4. QED
    BY <2>1, <2>2, <2>3 DEF Superseded
<1>4. ASSUME NEW d \in Streams, Receive(d)
      PROVE  buf'[c] = IF c = d THEN Tail(buf[c]) ELSE buf[c]
  BY <1>4 DEF Receive, TypeOK
<1>5. ASSUME Receive(c) PROVE Len(buf'[c]) < Len(buf[c])
  <2>1. buf'[c] = Tail(buf[c]) /\ buf[c] # <<>>
    BY <1>4, <1>5 DEF Receive
  <2>2. QED
    BY <1>2, <2>1, TailShorter
<1>6. ~SeeClosed(c) /\ ~SeeDone(c) /\ ~Unsubscribe(c)
  BY DEF SeeClosed, SeeDone, Unsubscribe, TypeOK
<1>7. ~Restart
  BY <1>1 DEF Restart
<1>8. ASSUME NEW m \in Msgs, NEW d \in Streams, Send(m, d) PROVE buf'[c] = buf[c]
  BY <1>1, <1>8 DEF Send, TypeOK
<1>9. Len(buf'[c]) <= Len(buf[c])
  <2>1. ASSUME NEW d \in Streams, Receive(d) PROVE Len(buf'[c]) <= Len(buf[c])
    BY <1>2, <1>4, <1>5, <2>1
  <2>2. CASE buf'[c] = buf[c]
    BY <1>2, <2>2
  <2>3. QED
    BY <1>7, <1>8, <2>1, <2>2
    DEF Next, Handler, hubVars, Subscribe, SeeClosed, SeeDone, Unsubscribe, Cut, Notify,
        SendPanics
<1>10. QED
  BY <1>3, <1>5, <1>6, <1>9 DEF Handler

(* A replaced handler cannot be kept busy: its channel only shrinks, with every step
   of its own until it leaves the loop.  What SupersededStreamsEnd needs besides is
   that the handler takes its steps. *)
THEOREM HubSupersededDrains == Spec => [][Drains]_hubVars
<1>1. TypeOK /\ TypeOK' /\ SupersededIsClosed /\ [Next]_hubVars => [Drains]_hubVars
  BY DrainsStep
<1>2. QED
  BY <1>1, HubTypeCorrect, HubSupersededIsClosed, PTL DEF Spec
=============================================================================
