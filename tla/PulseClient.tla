----------------------------- MODULE PulseClient -----------------------------
(***************************************************************************)
(* The clients of the Python package, on top of the subscriber's thread:   *)
(*   "multi"    IsiMotorClient: every packet type, decoded, stored and     *)
(*              dispatched to its listeners, with a command publisher;     *)
(*   "raw"      RawSinglePacketClient: the bytes of one type;              *)
(*   "decoded"  DomainSinglePacketClient: a decoder over a raw client;     *)
(*   "parsed"   DtoSinglePacketClient: the roots of messages, over the     *)
(*              same.                                                      *)
(*                                                                         *)
(* Two threads use a client: the application's, and the listener's within  *)
(* the callbacks it makes.  Both may subscribe, unsubscribe and send.      *)
(* Left to ZmqSubscriber: calls of stop in a callback, and a start while   *)
(* the thread of an earlier start is still in a callback.                  *)
(***************************************************************************)
EXTENDS ZmqPublisher, Decoders, Sequences, SequencesExt

CONSTANTS
    App, Listener,   \* the two threads
    Callbacks,       \* callbacks the application subscribes
    Hook,            \* the callback in the on_<kind> attribute
    OnPacket,        \* the callback in the on_packet attribute
    Rosters,         \* listeners, in order, there may be from the beginning;
                     \* the same callback may be among them more than once
    Stream,          \* messages the plugin may send
    MaxMessages,     \* messages received in a behaviour
    MaxUses          \* calls of the application's code in a behaviour

ASSUME ClientAssumption ==
    /\ Threads = {App, Listener} /\ App # Listener
    /\ Callbacks \cap {Hook, OnPacket} = {} /\ Hook # OnPacket
    /\ Rosters \subseteq Seq(Callbacks)
    /\ Stream \subseteq Messages
    /\ MaxMessages \in Nat /\ MaxUses \in Nat

VARIABLES
    facade,      \* which client this is
    running,     \* ZmqSubscriber._running
    thread,      \* does the subscriber still hold its thread?
    listener,    \* where the listener's thread stands
    app,         \* where the application stands in stop
    store,       \* latest message and count of the client's own store
    rawStore,    \* the same of the raw client under a layered one
    hooks,       \* attributes that are set
    subscribed,  \* _listeners, by kind
    packet,      \* the message being handled, and its number
    progress,    \* how far its dispatch got
    received,    \* messages so far
    uses,        \* calls of the application's code so far
    steady,      \* history: attributes set since the dispatch began
    called,      \* history: callbacks the dispatch called, in order
    left,        \* history: how many left places its loop had passed
    overrun,     \* history: has a stop given up waiting for a callback?
    damaged      \* history: has a message come that does not decode?

stores == <<store, rawStore>>
dispatch == <<packet, progress>>
roster == <<hooks, subscribed>>
watched == <<steady, called, left>>
service == <<running, thread, listener, app>>
counters == <<received, uses>>
clientVars == <<facade, service, stores, roster, dispatch, counters, watched,
                overrun, damaged>>
vars == <<pubVars, clientVars>>

KindsUsed == {m.kind : m \in Stream}

NoMessage == [kind |-> "none", size |-> "empty", garbled |-> {}, absent |-> {}]

NoPacket == [message |-> NoMessage, number |-> 0]

NoProgress == [stage |-> "over", hook |-> FALSE, next |-> 1]

Facades == {"multi", "raw", "decoded", "parsed"}

(* The clients that are a raw client's user.                                 *)
Layered == {"decoded", "parsed"}

ClientTypeOK ==
    /\ facade \in Facades
    /\ running \in BOOLEAN /\ thread \in BOOLEAN
    /\ listener \in {"off", "waiting", "stored", "dispatching", "callback",
                     "dead"}
    /\ app \in {"ready", "joining", "closing", "closed"}
    /\ store \in [latest : [KindsUsed -> 0 .. MaxMessages],
                  count : 0 .. MaxMessages]
    /\ rawStore \in [latest : [KindsUsed -> 0 .. MaxMessages],
                     count : 0 .. MaxMessages]
    /\ hooks \subseteq {Hook, OnPacket}
    /\ \A k \in KindsUsed : subscribed[k] \in Seq(Callbacks)
    /\ progress.stage \in {"on_packet", "hook", "listeners", "over"}
    /\ packet.number \in 0 .. received
    /\ received \in 0 .. MaxMessages
    /\ uses \in 0 .. MaxUses
    /\ steady \subseteq hooks
    /\ called \in Seq(Callbacks \cup {Hook, OnPacket})
    /\ left \in Nat /\ overrun \in BOOLEAN /\ damaged \in BOOLEAN

TypeOK == PublisherTypeOK /\ ClientTypeOK

Alive == listener \notin {"off", "dead"}

(* Threads within application code, not within a call of the client's.       *)
Free(t) ==
    /\ pc[t] = "idle"
    /\ t = App => app = "ready"
    /\ t = Listener => listener = "callback"

-----------------------------------------------------------------------------
(* A message arrives.                                                        *)

\* Variant: the packet is counted but not kept.
UpdateCount(m) == store' = [store EXCEPT !.count = @ + 1]

\* Variant: every packet is counted twice.
UpdateTwice(m) == store' = [latest |-> [store.latest EXCEPT ![m.kind] = received'],
                            count |-> store.count + 2]

(* update_<kind>: the latest packet of its kind, and the count of all kinds. *)
Update(m) == store' = [latest |-> [store.latest EXCEPT ![m.kind] = received'],
                       count |-> store.count + 1]

(* The dispatch of a packet: the attribute callback is the one that is set   *)
(* now, whatever happens to the attribute until its turn comes.              *)
BeginDispatch(m) ==
    /\ listener' = "dispatching"
    /\ packet' = [message |-> m, number |-> received']
    /\ progress' = [stage |-> "on_packet",
                    hook |-> facade = "multi" /\ Hook \in hooks,
                    next |-> 1]
    /\ steady' = (IF facade = "multi" THEN hooks ELSE hooks \cap {OnPacket})
    /\ called' = <<>>
    /\ left' = 0

Ignore(place) ==
    /\ listener' = place
    /\ packet' = NoPacket
    /\ progress' = NoProgress
    /\ UNCHANGED <<store, watched>>

(* IsiMotorClient: the packet is decoded and stored, then dispatched.        *)
(* Nothing catches what the decoder raises: the listener's thread ends.      *)
Handle(m) ==
    \/ Decoded(m) = "packet" /\ Update(m) /\ BeginDispatch(m)
    \/ Decoded(m) = "None" /\ Ignore("waiting")
    \/ Decoded(m) = "raises" /\ Ignore("dead")

Arrive(m) ==
    /\ listener = "waiting"
    /\ running \/ app = "joining"
    /\ received < MaxMessages
    /\ received' = received + 1
    /\ damaged' = (damaged \/ Decoded(m) = "raises")
    /\ UNCHANGED <<pubVars, facade, running, thread, app, roster, uses,
                   overrun>>

ReceiveMulti(m) ==
    facade = "multi" /\ Arrive(m) /\ Handle(m) /\ UNCHANGED rawStore

(* RawSinglePacketClient: the bytes are stored, then handed on.              *)
ReceiveRaw(m) ==
    /\ facade = "raw"
    /\ Arrive(m)
    /\ Update(m)
    /\ BeginDispatch(m)
    /\ UNCHANGED rawStore

(* Under a layered client: the raw client's store comes first.               *)
ReceiveUnder(m) ==
    /\ facade \in Layered
    /\ Arrive(m)
    /\ rawStore' = [latest |-> [rawStore.latest EXCEPT ![m.kind] = received'],
                    count |-> rawStore.count + 1]
    /\ listener' = "stored"
    /\ packet' = [message |-> m, number |-> received']
    /\ UNCHANGED <<store, progress, watched>>

\* Variant: an exception of the decoder is not caught.
DecodeRawUncaught ==
    /\ listener = "stored"
    /\ UNCHANGED <<pubVars, facade, running, thread, app, rawStore, roster,
                   counters, overrun, damaged>>
    /\ Handle(packet.message)

(* What a layered client makes of the bytes.                                 *)
Layer(m) == IF facade = "parsed" THEN Parsed(m) ELSE Decoded(m)

(* _on_raw_packet: what the decoder raises is caught by the raw client.      *)
DecodeRaw ==
    /\ listener = "stored"
    /\ UNCHANGED <<pubVars, facade, running, thread, app, rawStore, roster,
                   counters, overrun, damaged>>
    /\ LET m == packet.message IN
        \/ Layer(m) = "packet" /\ Update(m) /\ BeginDispatch(m)
        \/ Layer(m) # "packet" /\ Ignore("waiting")

-----------------------------------------------------------------------------
(* _dispatch: on_packet, then the attribute's callback, then the listeners   *)
(* of the packet's kind, one after the other.                                *)

CallIf(set, cb, stage) ==
    /\ progress' = [progress EXCEPT !.stage = stage]
    /\ listener' = IF set THEN "callback" ELSE listener
    /\ called' = IF set THEN Append(called, cb) ELSE called
    /\ UNCHANGED <<pubVars, facade, running, thread, app, stores, roster,
                   packet, counters, steady, left, overrun, damaged>>

CallOnPacket ==
    /\ listener = "dispatching"
    /\ progress.stage = "on_packet"
    /\ CallIf(OnPacket \in hooks, OnPacket,
              IF facade = "multi" THEN "hook" ELSE "over")

CallHook ==
    /\ listener = "dispatching"
    /\ progress.stage = "hook"
    /\ CallIf(progress.hook, Hook, "listeners")

\* Variant: every call looks at the list from its second listener on.
CallListenerLate ==
    /\ listener = "dispatching"
    /\ progress.stage = "listeners"
    /\ LET list == subscribed[packet.message.kind]
           more == progress.next < Len(list)
       IN  /\ progress' = [progress EXCEPT
                  !.stage = IF more THEN "listeners" ELSE "over",
                  !.next = IF more THEN @ + 1 ELSE @]
           /\ listener' = IF more THEN "callback" ELSE listener
           /\ called' = IF more THEN Append(called, list[progress.next + 1])
                      ELSE called
    /\ UNCHANGED <<pubVars, facade, running, thread, app, stores, roster,
                   packet, counters, steady, left, overrun, damaged>>

(* The loop goes over the list itself, by position, not over a copy of it.   *)
CallListener ==
    /\ listener = "dispatching"
    /\ progress.stage = "listeners"
    /\ LET list == subscribed[packet.message.kind]
           more == progress.next <= Len(list)
       IN  /\ progress' = [progress EXCEPT
                  !.stage = IF more THEN "listeners" ELSE "over",
                  !.next = IF more THEN @ + 1 ELSE @]
           /\ listener' = IF more THEN "callback" ELSE listener
           /\ called' = IF more THEN Append(called, list[progress.next]) ELSE called
    /\ UNCHANGED <<pubVars, facade, running, thread, app, stores, roster,
                   packet, counters, steady, left, overrun, damaged>>

(* A callback returns, or raises what _dispatch swallows.                    *)
CallbackEnds ==
    /\ Free(Listener)
    /\ listener' = "dispatching"
    /\ UNCHANGED <<pubVars, facade, running, thread, app, stores, roster,
                   dispatch, counters, watched, overrun, damaged>>

DispatchEnds ==
    /\ listener = "dispatching"
    /\ progress.stage = "over"
    /\ listener' = "waiting"
    /\ packet' = NoPacket
    /\ progress' = NoProgress
    /\ steady' = {} /\ called' = <<>> /\ left' = 0
    /\ UNCHANGED <<pubVars, facade, running, thread, app, stores, roster,
                   counters, overrun, damaged>>

-----------------------------------------------------------------------------
(* What application code does, on its own thread or in a callback.           *)

Use(t) ==
    /\ Free(t)
    /\ uses < MaxUses
    /\ uses' = uses + 1

(* Appended whether or not it is in the list already.                        *)
Subscribe(t, k, cb) ==
    /\ facade = "multi"
    /\ Use(t)
    /\ subscribed' = [subscribed EXCEPT ![k] = Append(@, cb)]
    /\ UNCHANGED <<pubVars, facade, service, stores, hooks, dispatch, received,
                   watched, overrun, damaged>>

(* Is the first place of cb in the list one the loop of the dispatch under   *)
(* way has passed?                                                           *)
Passed(k, cb) ==
    /\ listener \in {"dispatching", "callback"}
    /\ k = packet.message.kind
    /\ \E i \in 1 .. progress.next - 1 :
           i <= Len(subscribed[k]) /\ subscribed[k][i] = cb

(* list.remove: the first place the callback has in the list.                *)
Unsubscribe(t, k, cb) ==
    /\ facade = "multi"
    /\ Use(t)
    /\ cb \in Range(subscribed[k])
    /\ subscribed' = [subscribed EXCEPT ![k] = RemoveFirst(@, cb)]
    /\ left' = IF Passed(k, cb) THEN left + 1 ELSE left
    /\ UNCHANGED <<pubVars, facade, service, stores, hooks, dispatch, received,
                   steady, called, overrun, damaged>>

(* The on_<kind> and on_packet properties.                                   *)
SetHooks(t, set) ==
    /\ Use(t)
    /\ set # hooks
    /\ hooks' = set
    /\ steady' = steady \cap set
    /\ UNCHANGED <<pubVars, facade, service, stores, subscribed, dispatch,
                   received, called, left, overrun, damaged>>

SendCommand(t, e) ==
    /\ facade = "multi"
    /\ Use(t)
    /\ Begin(t, e)
    /\ UNCHANGED <<facade, service, stores, roster, dispatch, received,
                   watched, overrun, damaged>>

-----------------------------------------------------------------------------
(* start and stop.                                                           *)

(* A running client is not started again, be its thread dead.                *)
Start ==
    /\ Free(App)
    /\ ~running /\ ~Alive
    /\ running' = TRUE
    /\ thread' = TRUE
    /\ listener' = "waiting"
    /\ UNCHANGED <<pubVars, facade, app, stores, roster, dispatch, counters,
                   watched, overrun, damaged>>

StopBegin ==
    /\ Free(App)
    /\ running' = FALSE
    /\ app' = IF thread /\ Alive THEN "joining" ELSE "closing"
    /\ UNCHANGED <<pubVars, facade, thread, listener, stores, roster, dispatch,
                   counters, watched, overrun, damaged>>

ListenerEnds ==
    /\ listener = "waiting"
    /\ ~running
    /\ listener' = "off"
    /\ UNCHANGED <<pubVars, facade, running, thread, app, stores, roster,
                   dispatch, counters, watched, overrun, damaged>>

JoinEnds ==
    /\ app = "joining"
    /\ ~Alive
    /\ thread' = FALSE
    /\ app' = "closing"
    /\ UNCHANGED <<pubVars, facade, running, listener, stores, roster, dispatch,
                   counters, watched, overrun, damaged>>

JoinTimesOut ==
    /\ app = "joining"
    /\ listener = "callback"
    /\ thread' = FALSE
    /\ app' = "closing"
    /\ overrun' = TRUE
    /\ UNCHANGED <<pubVars, facade, running, listener, stores, roster, dispatch,
                   counters, watched, damaged>>

\* Variant: the publisher is not closed.
ClosePublisherNot ==
    /\ app = "closing"
    /\ app' = "closed"
    /\ UNCHANGED <<pubVars, facade, running, thread, listener, stores, roster,
                   dispatch, counters, watched, overrun, damaged>>

(* The publisher is closed after the receiver; only IsiMotorClient has one.  *)
ClosePublisher ==
    /\ app = "closing"
    /\ \/ facade = "multi" /\ CloseSocket(App)
       \/ facade # "multi" /\ UNCHANGED pubVars
    /\ app' = "closed"
    /\ UNCHANGED <<facade, running, thread, listener, stores, roster, dispatch,
                   counters, watched, overrun, damaged>>

StopEnds ==
    /\ app = "closed"
    /\ pc[App] = "idle"
    /\ app' = "ready"
    /\ UNCHANGED <<pubVars, facade, running, thread, listener, stores, roster,
                   dispatch, counters, watched, overrun, damaged>>

-----------------------------------------------------------------------------

Receiving ==
    \E m \in Stream : ReceiveMulti(m) \/ ReceiveRaw(m) \/ ReceiveUnder(m)

Dispatching ==
    DecodeRaw \/ CallOnPacket \/ CallHook \/ CallListener \/ DispatchEnds

Publishing(t) ==
    (Reconnecting(t) \/ Transmit(t) \/ CloseGoesOn(t)) /\ UNCHANGED clientVars

Joined == Join /\ UNCHANGED clientVars

UsedBy(t) ==
    \/ \E k \in KindsUsed, cb \in Callbacks :
        Subscribe(t, k, cb) \/ Unsubscribe(t, k, cb)
    \/ \E set \in SUBSET {Hook, OnPacket} : SetHooks(t, set)
    \/ \E e \in Endpoints : SendCommand(t, e)

Stopping == JoinEnds \/ JoinTimesOut \/ ClosePublisher \/ StopEnds

Next ==
    \/ Receiving
    \/ Dispatching
    \/ CallbackEnds
    \/ \E t \in Threads : Publishing(t) \/ UsedBy(t)
    \/ Joined
    \/ Start
    \/ StopBegin
    \/ ListenerEnds
    \/ Stopping

Nothing == [latest |-> [k \in KindsUsed |-> 0], count |-> 0]

Init ==
    /\ PublisherInit
    /\ facade \in Facades
    /\ running = FALSE /\ thread = FALSE
    /\ listener = "off"
    /\ app = "ready"
    /\ store = Nothing /\ rawStore = Nothing
    /\ hooks \in {{}, {Hook, OnPacket}}
    /\ subscribed \in [KindsUsed -> Rosters]
    /\ packet = NoPacket
    /\ progress = NoProgress
    /\ received = 0 /\ uses = 0
    /\ steady = {} /\ called = <<>> /\ left = 0
    /\ overrun = FALSE
    /\ damaged = FALSE

Spec == Init /\ [][Next]_vars

(* Threads run: a dispatch, a command and a stop that began go on, and the   *)
(* plugin's subscription arrives.  Nothing is assumed of callbacks.          *)
Fairness ==
    /\ WF_vars(Dispatching)
    /\ WF_vars(ListenerEnds)
    /\ WF_vars(Stopping)
    /\ WF_vars(Joined)
    /\ \A t \in Threads : WF_vars(Publishing(t))

FairSpec == Spec /\ Fairness

-----------------------------------------------------------------------------
(* Properties, besides those of the publisher.                               *)

(* When a callback hears of a packet the stores already hold it: what a      *)
(* callback gets with get_latest is never older than what it was called      *)
(* with, and with the application's own thread it shares the same latest.    *)
HearsOfStored ==
    listener = "callback" =>
        /\ store.latest[packet.message.kind] = packet.number
        /\ facade \in Layered =>
            rawStore.latest[packet.message.kind] = packet.number

(* The listeners a dispatch is for.                                          *)
Audience ==
    IF facade = "multi" THEN subscribed[packet.message.kind] ELSE <<>>

(* A dispatch calls the attributes that are set all the while, and then the  *)
(* listeners of its packet in the order of the list, each as often as it is  *)
(* in it, those that were subscribed meanwhile included, whoever unsubscribed *)
(* before its turn -- unless someone left a place the loop had passed.  Each *)
(* who did costs at most one other listener its call.                        *)
NobodySkipped ==
    [][progress.stage # "over" /\ progress'.stage = "over" =>
        /\ left = 0 =>
            \E attributes \in {<<>>, <<OnPacket>>, <<Hook>>, <<OnPacket, Hook>>} :
                /\ called' = attributes \o Audience
                /\ steady \subseteq Range(attributes)
        /\ Cardinality(Range(Audience) \ Range(called')) <= left]_vars

(* The listener's thread ends while its client is running only in            *)
(* IsiMotorClient and only over a message that does not decode; is_running   *)
(* goes on saying True.                                                      *)
DiesOfDamageOnly ==
    /\ listener = "dead" => facade = "multi" /\ damaged
    /\ running => listener # "off"

(* stop returns with no socket and no context left, whatever the listener    *)
(* was sending when stop was called, and also when it gave up waiting for a  *)
(* callback -- unless that callback is in a command, or has opened a socket, *)
(* behind the publisher's close: term may wait for that socket for ever.     *)
StopReleases ==
    app # "ready" ~>
        \/ app = "ready" /\ socket.state = "none" /\ context = "none"
        \/ overrun /\ app = "closed" /\ (pc[Listener] # "idle" \/ socket.state # "none")

=============================================================================
