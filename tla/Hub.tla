--------------------------------- MODULE Hub ---------------------------------
(***************************************************************************)
(* The server-sent-events hub of the backend (internal/events/hub.go) and  *)
(* the goroutines around it: the two Events handlers that serve a stream   *)
(* (orders and picker), and the handlers that call Notify.                 *)
(*                                                                         *)
(* A stream owns exactly one Go channel, the one its Subscribe made, so a  *)
(* channel is named by its stream.  A call of Notify is named by its       *)
(* message.  The bodies of Subscribe and Unsubscribe and the snapshot of   *)
(* Notify run under the hub's mutex and block on nothing else: each is one *)
(* step.  The sends of Notify run after the lock is released, one by one.  *)
(***************************************************************************)
EXTENDS Naturals, Sequences, FiniteSets

CONSTANTS
    Topics,       \* user ids (customer streams) and store ids (picker streams)
    Subs,         \* subscriber ids: always user ids
    Streams,      \* activations of an Events handler, each used once
    Msgs,         \* calls of Notify, each with a message of its own
    KeyOf,        \* the topic and subscriber a stream passes to Subscribe
    TopicOf,      \* the topic a call of Notify is about
    Cap,          \* capacity of a stream's channel (10 in the code)
    NoStream      \* "no entry" in the registry

Keys == Topics \X Subs

ASSUME CapAssumption == Cap \in Nat \ {0}
ASSUME NoStreamAssumption == NoStream \notin Streams
ASSUME AddressAssumption == KeyOf \in [Streams -> Keys] /\ TopicOf \in [Msgs -> Topics]

VARIABLES
    mp,        \* the registry: topic and subscriber -> stream
    latest,    \* history: the stream that subscribed last, per topic and subscriber
    stream,    \* where each Events handler is
    cut,       \* streams whose request context is done
    closed,    \* streams whose channel is closed
    buf,       \* what each channel holds
    got,       \* history: what each stream wrote to a peer that still listened
    call,      \* where each call of Notify is
    todo       \* the channels a call of Notify has snapshot and not yet tried

hubVars == <<mp, latest, stream, cut, closed, buf, got, call, todo>>

StreamStates == {"idle", "serving", "leaving", "gone"}
CallStates == {"idle", "sending", "done", "panicked", "lost"}

TypeOK ==
    /\ mp \in [Keys -> Streams \cup {NoStream}]
    /\ latest \in [Keys -> Streams \cup {NoStream}]
    /\ stream \in [Streams -> StreamStates]
    /\ cut \subseteq Streams
    /\ closed \subseteq Streams
    /\ buf \in [Streams -> Seq(Msgs)]
    /\ \A c \in Streams : Len(buf[c]) <= Cap
    /\ got \in [Streams -> Seq(Msgs)]
    /\ call \in [Msgs -> CallStates]
    /\ todo \in [Msgs -> SUBSET Streams]

Init ==
    /\ mp = [k \in Keys |-> NoStream]
    /\ latest = [k \in Keys |-> NoStream]
    /\ stream = [c \in Streams |-> "idle"]
    /\ cut = {}
    /\ closed = {}
    /\ buf = [c \in Streams |-> <<>>]
    /\ got = [c \in Streams |-> <<>>]
    /\ call = [m \in Msgs |-> "idle"]
    /\ todo = [m \in Msgs |-> {}]

-----------------------------------------------------------------------------
(* The hub's three methods. *)

\* Fault: the old channel stays open.
CloseNothing(k) == UNCHANGED closed

\* close(old): the registry's entry for k, when there is one, joins the closed.
CloseEntry(k) == closed' = closed \cup ({mp[k]} \ {NoStream})

Subscribe(c) ==
    /\ stream[c] = "idle"
    /\ stream' = [stream EXCEPT ![c] = "serving"]
    /\ CloseEntry(KeyOf[c])
    /\ mp' = [mp EXCEPT ![KeyOf[c]] = c]
    /\ latest' = [latest EXCEPT ![KeyOf[c]] = c]
    /\ UNCHANGED <<cut, buf, got, call, todo>>

\* Fault: the entry of a closed channel is left behind.
KeepEntry(k) == UNCHANGED mp

\* delete(h.mp[...], ...)
DropEntry(k) == mp' = [mp EXCEPT ![k] = NoStream]

\* The deferred Unsubscribe of a handler that has left its loop.  It looks the
\* channel up by topic and subscriber: whoever is registered there is closed.
Unsubscribe(c) ==
    /\ stream[c] = "leaving"
    /\ stream' = [stream EXCEPT ![c] = "gone"]
    /\ CloseEntry(KeyOf[c])
    /\ DropEntry(KeyOf[c])
    /\ UNCHANGED <<latest, cut, buf, got, call, todo>>

\* Fault: the subscriber alone picks the channels, whatever their topic.
ListenersOfAnyTopic(t) == {mp[k] : k \in Keys} \ {NoStream}

Listeners(t) == {mp[<<t, s>>] : s \in Subs} \ {NoStream}

Notify(m) ==
    /\ call[m] = "idle"
    /\ todo' = [todo EXCEPT ![m] = Listeners(TopicOf[m])]
    /\ call' = [call EXCEPT ![m] = IF Listeners(TopicOf[m]) = {} THEN "done" ELSE "sending"]
    /\ UNCHANGED <<mp, latest, stream, cut, closed, buf, got>>

\* Fault: a full channel takes one more.
AlwaysRoom(c) == TRUE

HasRoom(c) == Len(buf[c]) < Cap

\* Go's select with a default branch: a full channel drops the message.
Send(m, c) ==
    /\ call[m] = "sending"
    /\ c \in todo[m]
    /\ c \notin closed
    /\ buf' = IF HasRoom(c) THEN [buf EXCEPT ![c] = Append(@, m)] ELSE buf
    /\ todo' = [todo EXCEPT ![m] = @ \ {c}]
    /\ call' = [call EXCEPT ![m] = IF todo[m] = {c} THEN "done" ELSE @]
    /\ UNCHANGED <<mp, latest, stream, cut, closed, got>>

\* A send on a closed channel panics: RecoveryMiddleware ends the request, and
\* the channels the loop had not reached get nothing.
SendPanics(m, c) ==
    /\ call[m] = "sending"
    /\ c \in todo[m]
    /\ c \in closed
    /\ call' = [call EXCEPT ![m] = "panicked"]
    /\ todo' = [todo EXCEPT ![m] = {}]
    /\ UNCHANGED <<mp, latest, stream, cut, closed, buf, got>>

-----------------------------------------------------------------------------
(* The loop of an Events handler, and what happens to its connection. *)

\* A closed channel still yields what it holds; what is written after the
\* request context is done reaches nobody.
Receive(c) ==
    /\ stream[c] = "serving"
    /\ buf[c] # <<>>
    /\ buf' = [buf EXCEPT ![c] = Tail(@)]
    /\ got' = IF c \in cut THEN got ELSE [got EXCEPT ![c] = Append(@, Head(buf[c]))]
    /\ UNCHANGED <<mp, latest, stream, cut, closed, call, todo>>

\* Fault: a closed channel is taken for an empty one.
DrainedAlways(c) == TRUE

\* Receiving from a closed channel fails only when nothing is left in it.
Drained(c) == buf[c] = <<>>

SeeClosed(c) ==
    /\ stream[c] = "serving"
    /\ c \in closed
    /\ Drained(c)
    /\ stream' = [stream EXCEPT ![c] = "leaving"]
    /\ UNCHANGED <<mp, latest, cut, closed, buf, got, call, todo>>

SeeDone(c) ==
    /\ stream[c] = "serving"
    /\ c \in cut
    /\ stream' = [stream EXCEPT ![c] = "leaving"]
    /\ UNCHANGED <<mp, latest, cut, closed, buf, got, call, todo>>

\* The peer goes away, or the server's write timeout fails its first late write.
Cut(c) ==
    /\ stream[c] = "serving"
    /\ c \notin cut
    /\ cut' = cut \cup {c}
    /\ UNCHANGED <<mp, latest, stream, closed, buf, got, call, todo>>

\* The process stops and starts again: the hub is memory only.
Restart ==
    /\ \E c \in Streams : stream[c] \in {"serving", "leaving"}
    /\ mp' = [k \in Keys |-> NoStream]
    /\ stream' = [c \in Streams |-> IF stream[c] = "idle" THEN "idle" ELSE "gone"]
    /\ buf' = [c \in Streams |-> <<>>]
    /\ call' = [m \in Msgs |-> IF call[m] = "sending" THEN "lost" ELSE call[m]]
    /\ todo' = [m \in Msgs |-> {}]
    /\ UNCHANGED <<latest, cut, closed, got>>

-----------------------------------------------------------------------------
Handler(c) ==
    \/ Receive(c)
    \/ SeeClosed(c)
    \/ SeeDone(c)
    \/ Unsubscribe(c)

Next ==
    \/ \E c \in Streams : Subscribe(c) \/ Cut(c) \/ Handler(c)
    \/ \E m \in Msgs : \/ Notify(m)
                       \/ \E c \in Streams : Send(m, c) \/ SendPanics(m, c)
    \/ Restart

Spec == Init /\ [][Next]_hubVars

\* A goroutine that can run is run.  A write that stalls is ended by the
\* server's write timeout, so a handler is never stuck inside its loop.
FairSpec == Spec /\ \A c \in Streams : WF_hubVars(Handler(c))

-----------------------------------------------------------------------------
(* Correctness. *)

Live(c) == stream[c] \in {"serving", "leaving"}

\* What the registry holds is a live stream's open channel, under its own
\* address.  Subscribe and Unsubscribe close what they find there and closing a
\* closed channel panics inside the lock, so this is why neither ever panics.
RegistryHoldsOpen ==
    \A k \in Keys : mp[k] # NoStream =>
        mp[k] \notin closed /\ KeyOf[mp[k]] = k /\ Live(mp[k])

\* A live stream with an open channel is in the registry: no stream sits on a
\* channel that no Notify can find, whatever was superseded or cut meanwhile.
OpenIsRegistered ==
    \A c \in Streams : Live(c) /\ c \notin closed => mp[KeyOf[c]] = c

\* A peer gets a message at most once, and only messages of the topic its
\* stream subscribed to, although the sends run outside the lock.
OnTopicOnce ==
    \A c \in Streams : \A i, j \in DOMAIN got[c] :
        /\ TopicOf[got[c][i]] = KeyOf[c][1]
        /\ got[c][i] = got[c][j] => i = j

\* A handler that returns because its channel was closed has written all the
\* channel held: being superseded loses nothing that was already queued.
NothingLeftBehind ==
    \A c \in Streams :
        stream[c] \in {"leaving", "gone"} /\ c \notin cut => buf[c] = <<>>

Superseded(c) == stream[c] = "serving" /\ latest[KeyOf[c]] # c

\* The comment of Subscribe: the old channel is closed "so that the old
\* goroutine does not hang".  A handler another stream replaced returns.
SupersededStreamsEnd ==
    \A c \in Streams : Superseded(c) ~> stream[c] = "gone"

\* hub.go:19, "Thread-safe: Subscribe/Unsubscribe/Notify may be called from
\* different goroutines": no call of Notify ends in a panic.
NotifyNeverPanics == \A m \in Msgs : call[m] # "panicked"

\* hub.go:38 and :54: a reconnect closes the old channel, and Unsubscribe
\* closes "its" channel.  So the newest stream of an address stays open while
\* its own connection lasts.
NewestStreamStaysOpen ==
    \A k \in Keys : \A c \in Streams :
        latest[k] = c /\ stream[c] = "serving" /\ c \in closed => c \in cut
=============================================================================
