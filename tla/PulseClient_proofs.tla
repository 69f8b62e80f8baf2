------------------------- MODULE PulseClient_proofs -------------------------
(***************************************************************************)
(* Proofs about PulseClient and the publisher it extends, for any number   *)
(* of threads and endpoints.                                               *)
(*                                                                         *)
(* First ZmqPublisher by itself: its types, the lock, that no socket       *)
(* outlives its context, and that an uncrossed command that was accepted   *)
(* went where it was meant to go.  Then the client: that every client uses *)
(* the publisher as the publisher's own module allows, so that what is     *)
(* proved there holds here; that callbacks hear of packets that are        *)
(* stored; that only damage ends a listener; which listeners a dispatch    *)
(* may skip; and the types.                                                *)
(***************************************************************************)
EXTENDS PulseClient, SequenceTheorems, FiniteSetTheorems, WellFoundedInduction,
        TLAPS

-----------------------------------------------------------------------------
(* The publisher.                                                            *)

(* What the holder of the lock has reached so far, whatever close does to    *)
(* the socket meanwhile.                                                     *)
HolderInv ==
    \A t \in Threads :
        /\ pc[t] = "opening" => socket.state # "open"
        /\ pc[t] = "connecting" => socket.to = Nowhere
        /\ pc[t] \in {"recording", "settling"} /\ socket.state = "open" =>
            socket.to = want[t]
        /\ pc[t] = "settling" => ~failed /\ connected \in {want[t], Nowhere}

(* With the lock free, no failure pending and an endpoint on record, the     *)
(* socket is connected there and listened to.                                *)
FreeInv ==
    /\ lock = Nowhere
    /\ ~failed
    /\ socket.state = "open"
    /\ connected # Nowhere
    => socket.to = connected /\ socket.joined

(* Nobody holds the lock while an uncrossed command is about to be sent, and *)
(* its socket is the right one.                                              *)
SendingInv ==
    \A t \in Threads :
        pc[t] = "sending" /\ t \notin disturbed =>
            /\ lock = Nowhere
            /\ ~failed /\ socket.state = "open" =>
                socket.to = want[t] /\ socket.joined

(* A thread with a command under way has its endpoint.                       *)
WantInv ==
    \A t \in Threads :
        pc[t] \in Holding \cup {"locking", "sending"} => want[t] \in Endpoints

Inv == /\ PublisherTypeOK /\ OneReconnects /\ SocketNeedsContext
       /\ WantInv /\ HolderInv /\ FreeInv /\ SendingInv

-----------------------------------------------------------------------------

LEMMA Initially == PublisherInit => Inv
    <1> SUFFICES ASSUME PublisherInit PROVE Inv
        OBVIOUS
    <1> USE PublisherAssumption DEF PublisherInit, NoSocket, Holding
    <1>1. PublisherTypeOK
        BY DEF PublisherTypeOK
    <1>2. OneReconnects /\ SocketNeedsContext
        BY DEF OneReconnects, SocketNeedsContext
    <1>3. WantInv /\ HolderInv /\ FreeInv /\ SendingInv
        BY DEF WantInv, HolderInv, FreeInv, SendingInv
    <1> QED BY <1>1, <1>2, <1>3 DEF Inv

(* One lemma per action: each preserves the whole invariant.                 *)
LEMMA BeginPreserves ==
    ASSUME Inv, NEW t \in Threads, NEW e \in Endpoints, Begin(t, e)
    PROVE  Inv'
    <1> USE DEF Inv, PublisherTypeOK, OneReconnects, SocketNeedsContext, WantInv, HolderInv,
            FreeInv, SendingInv, Holding, Closing
    <1>1. PublisherTypeOK' /\ OneReconnects' /\ SocketNeedsContext'
        BY DEF Begin, NeedsConnect, Step, connection
    <1>2. WantInv' /\ HolderInv' /\ FreeInv'
        BY DEF Begin, NeedsConnect, Step, connection
    <1>3. SendingInv'
        BY PublisherAssumption DEF Begin, NeedsConnect, Step, connection
    <1> QED BY <1>1, <1>2, <1>3

LEMMA JoinPreserves ==
    ASSUME Inv, Join
    PROVE  Inv'
    <1> USE DEF Join, Inv, PublisherTypeOK, OneReconnects, SocketNeedsContext,
            WantInv, HolderInv, FreeInv, SendingInv, pubHistory
    <1>1. PublisherTypeOK' /\ OneReconnects' /\ SocketNeedsContext'
        OBVIOUS
    <1>2. WantInv' /\ HolderInv'
        OBVIOUS
    <1>3. FreeInv' /\ SendingInv'
        OBVIOUS
    <1> QED BY <1>1, <1>2, <1>3

LEMMA AcquirePreserves ==
    ASSUME Inv, NEW t \in Threads, Acquire(t)
    PROVE  Inv'
    <1> USE PublisherAssumption DEF Acquire, Step, pubHistory, Others,
            Inv, PublisherTypeOK, OneReconnects, SocketNeedsContext, WantInv, HolderInv,
            FreeInv, SendingInv, Holding, Closing
    <1>1. PublisherTypeOK' /\ OneReconnects' /\ SocketNeedsContext'
        OBVIOUS
    <1>2. WantInv' /\ HolderInv'
        OBVIOUS
    <1>3. FreeInv'
        OBVIOUS
    <1>4. SendingInv'
        OBVIOUS
    <1> QED BY <1>1, <1>2, <1>3, <1>4

LEMMA OpenSocketPreserves ==
    ASSUME Inv, NEW t \in Threads, OpenSocket(t)
    PROVE  Inv'
    <1> USE PublisherAssumption DEF OpenSocket, Step, pubHistory, NewSocket,
            Inv, PublisherTypeOK, OneReconnects, SocketNeedsContext, WantInv, HolderInv,
            FreeInv, SendingInv, Holding, Closing
    <1>1. PublisherTypeOK' /\ OneReconnects' /\ SocketNeedsContext'
        OBVIOUS
    <1>2. WantInv' /\ HolderInv'
        OBVIOUS
    <1>3. FreeInv'
        OBVIOUS
    <1>4. SendingInv'
        OBVIOUS
    <1> QED BY <1>1, <1>2, <1>3, <1>4

LEMMA OpenFailsPreserves ==
    ASSUME Inv, NEW t \in Threads, OpenFails(t)
    PROVE  Inv'
    <1> USE PublisherAssumption DEF OpenFails, Step, pubHistory, Fail, Done,
            Inv, PublisherTypeOK, OneReconnects, SocketNeedsContext, WantInv, HolderInv,
            FreeInv, SendingInv, Holding, Closing
    <1>1. PublisherTypeOK' /\ OneReconnects' /\ SocketNeedsContext'
        OBVIOUS
    <1>2. WantInv' /\ HolderInv'
        OBVIOUS
    <1>3. FreeInv'
        OBVIOUS
    <1>4. SendingInv'
        OBVIOUS
    <1> QED BY <1>1, <1>2, <1>3, <1>4

LEMMA ConnectPreserves ==
    ASSUME Inv, NEW t \in Threads, Connect(t)
    PROVE  Inv'
    <1> USE PublisherAssumption DEF Connect, Step, pubHistory, Connectable,
            Inv, PublisherTypeOK, OneReconnects, SocketNeedsContext, WantInv, HolderInv,
            FreeInv, SendingInv, Holding, Closing
    <1>1. PublisherTypeOK' /\ OneReconnects' /\ SocketNeedsContext'
        OBVIOUS
    <1>2. WantInv' /\ HolderInv'
        OBVIOUS
    <1>3. FreeInv'
        OBVIOUS
    <1>4. SendingInv'
        OBVIOUS
    <1> QED BY <1>1, <1>2, <1>3, <1>4

LEMMA ConnectFailsPreserves ==
    ASSUME Inv, NEW t \in Threads, ConnectFails(t)
    PROVE  Inv'
    <1> USE PublisherAssumption DEF ConnectFails, Step, pubHistory, Fail, Done, Connectable,
            Inv, PublisherTypeOK, OneReconnects, SocketNeedsContext, WantInv, HolderInv,
            FreeInv, SendingInv, Holding, Closing
    <1>1. PublisherTypeOK' /\ OneReconnects' /\ SocketNeedsContext'
        OBVIOUS
    <1>2. WantInv' /\ HolderInv'
        OBVIOUS
    <1>3. FreeInv'
        OBVIOUS
    <1>4. SendingInv'
        OBVIOUS
    <1> QED BY <1>1, <1>2, <1>3, <1>4

LEMMA RecordPreserves ==
    ASSUME Inv, NEW t \in Threads, Record(t)
    PROVE  Inv'
    <1> USE PublisherAssumption DEF Record, Step, pubHistory,
            Inv, PublisherTypeOK, OneReconnects, SocketNeedsContext, WantInv, HolderInv,
            FreeInv, SendingInv, Holding, Closing
    <1>1. PublisherTypeOK' /\ OneReconnects' /\ SocketNeedsContext'
        OBVIOUS
    <1>2. WantInv' /\ HolderInv'
        OBVIOUS
    <1>3. FreeInv'
        OBVIOUS
    <1>4. SendingInv'
        OBVIOUS
    <1> QED BY <1>1, <1>2, <1>3, <1>4

LEMMA SettlePreserves ==
    ASSUME Inv, NEW t \in Threads, Settle(t)
    PROVE  Inv'
    <1> USE PublisherAssumption DEF Settle, Step, pubHistory,
            Inv, PublisherTypeOK, OneReconnects, SocketNeedsContext, WantInv, HolderInv,
            FreeInv, SendingInv, Holding, Closing
    <1>1. PublisherTypeOK' /\ OneReconnects' /\ SocketNeedsContext'
        OBVIOUS
    <1>2. WantInv' /\ HolderInv'
        OBVIOUS
    <1>3. FreeInv'
        OBVIOUS
    <1>4. SendingInv'
        OBVIOUS
    <1> QED BY <1>1, <1>2, <1>3, <1>4

LEMMA TransmitPreserves ==
    ASSUME Inv, NEW t \in Threads, Transmit(t)
    PROVE  Inv'
    <1> USE PublisherAssumption DEF Transmit, Step, pubHistory, Done, connection,
            Inv, PublisherTypeOK, OneReconnects, SocketNeedsContext, WantInv, HolderInv,
            FreeInv, SendingInv, Holding, Closing
    <1>1. PublisherTypeOK' /\ OneReconnects' /\ SocketNeedsContext'
        OBVIOUS
    <1>2. WantInv' /\ HolderInv'
        OBVIOUS
    <1>3. FreeInv'
        OBVIOUS
    <1>4. SendingInv'
        OBVIOUS
    <1> QED BY <1>1, <1>2, <1>3, <1>4

LEMMA CloseSocketPreserves ==
    ASSUME Inv, NEW t \in Threads, CloseSocket(t)
    PROVE  Inv'
    <1> USE PublisherAssumption DEF CloseSocket, Step, pubHistory, Others, NoSocket,
            Inv, PublisherTypeOK, OneReconnects, SocketNeedsContext, WantInv, HolderInv,
            FreeInv, SendingInv, Holding, Closing
    <1>1. PublisherTypeOK' /\ OneReconnects' /\ SocketNeedsContext'
        OBVIOUS
    <1>2. WantInv' /\ HolderInv'
        OBVIOUS
    <1>3. FreeInv'
        OBVIOUS
    <1>4. SendingInv'
        OBVIOUS
    <1> QED BY <1>1, <1>2, <1>3, <1>4

LEMMA CloseForgetPreserves ==
    ASSUME Inv, NEW t \in Threads, CloseForget(t)
    PROVE  Inv'
    <1> USE PublisherAssumption DEF CloseForget, Step, pubHistory,
            Inv, PublisherTypeOK, OneReconnects, SocketNeedsContext, WantInv, HolderInv,
            FreeInv, SendingInv, Holding, Closing
    <1>1. PublisherTypeOK' /\ OneReconnects' /\ SocketNeedsContext'
        OBVIOUS
    <1>2. WantInv' /\ HolderInv'
        OBVIOUS
    <1>3. FreeInv'
        OBVIOUS
    <1>4. SendingInv'
        OBVIOUS
    <1> QED BY <1>1, <1>2, <1>3, <1>4

LEMMA TermBeginPreserves ==
    ASSUME Inv, NEW t \in Threads, TermBegin(t)
    PROVE  Inv'
    <1> USE PublisherAssumption DEF TermBegin, Step, pubHistory,
            Inv, PublisherTypeOK, OneReconnects, SocketNeedsContext, WantInv, HolderInv,
            FreeInv, SendingInv, Holding, Closing
    <1>1. PublisherTypeOK' /\ OneReconnects' /\ SocketNeedsContext'
        OBVIOUS
    <1>2. WantInv' /\ HolderInv'
        OBVIOUS
    <1>3. FreeInv'
        OBVIOUS
    <1>4. SendingInv'
        OBVIOUS
    <1> QED BY <1>1, <1>2, <1>3, <1>4

LEMMA TermEndsPreserves ==
    ASSUME Inv, NEW t \in Threads, TermEnds(t)
    PROVE  Inv'
    <1> USE PublisherAssumption DEF TermEnds, Step, pubHistory,
            Inv, PublisherTypeOK, OneReconnects, SocketNeedsContext, WantInv, HolderInv,
            FreeInv, SendingInv, Holding, Closing
    <1>1. PublisherTypeOK' /\ OneReconnects' /\ SocketNeedsContext'
        OBVIOUS
    <1>2. WantInv' /\ HolderInv'
        OBVIOUS
    <1>3. FreeInv'
        OBVIOUS
    <1>4. SendingInv'
        OBVIOUS
    <1> QED BY <1>1, <1>2, <1>3, <1>4

LEMMA NextPreserves == Inv /\ [PublisherNext]_pubVars => Inv'
    <1> SUFFICES ASSUME Inv, [PublisherNext]_pubVars PROVE Inv'
        OBVIOUS
    <1>1. CASE Join
        BY <1>1, JoinPreserves
    <1>2. ASSUME NEW t \in Threads, NEW e \in Endpoints, Begin(t, e) PROVE Inv'
        BY <1>2, BeginPreserves
    <1>3. ASSUME NEW t \in Threads, Reconnecting(t) PROVE Inv'
        BY <1>3, AcquirePreserves, OpenSocketPreserves, OpenFailsPreserves,
           ConnectPreserves, ConnectFailsPreserves, RecordPreserves,
           SettlePreserves DEF Reconnecting
    <1>4. ASSUME NEW t \in Threads, Transmit(t) \/ CloseSocket(t) PROVE Inv'
        BY <1>4, TransmitPreserves, CloseSocketPreserves
    <1>5. ASSUME NEW t \in Threads, CloseGoesOn(t) PROVE Inv'
        BY <1>5, CloseForgetPreserves, TermBeginPreserves, TermEndsPreserves
        DEF CloseGoesOn
    <1>6. CASE UNCHANGED pubVars
        BY <1>6 DEF pubVars, connection, pubHistory, Inv, PublisherTypeOK,
            OneReconnects, SocketNeedsContext, WantInv, HolderInv, FreeInv,
            SendingInv
    <1> QED BY <1>1, <1>2, <1>3, <1>4, <1>5, <1>6 DEF PublisherNext

-----------------------------------------------------------------------------

THEOREM InvariantHolds == PublisherSpec => []Inv
    BY Initially, NextPreserves, PTL DEF PublisherSpec

(* The publisher's variables keep their types.                               *)
THEOREM TypeCorrect == PublisherSpec => []PublisherTypeOK
    BY InvariantHolds, PTL DEF Inv

(* One thread at a time replaces the socket: the lock of _ensure_connected.  *)
THEOREM MutualExclusion == PublisherSpec => []OneReconnects
    BY InvariantHolds, PTL DEF Inv

(* close never lets go of a context that still has a socket.                 *)
THEOREM ContextOutlivesSocket == PublisherSpec => []SocketNeedsContext
    BY InvariantHolds, PTL DEF Inv

(* An accepted command that nobody crossed, with no failed reconnection      *)
(* before it, is sent to its endpoint with the plugin listening.             *)
THEOREM CommandsArrive == PublisherSpec => SentWhereMeant
    <1> DEFINE A == \A t \in Threads :
            pc[t] = "sending" /\ pc'[t] = "idle" /\ Accepted
            /\ t \notin disturbed /\ ~failed
            => socket.to = want[t] /\ socket.joined
    <1>1. Inv => A
        BY DEF Inv, SendingInv, Accepted
    <1>2. Inv => [A]_pubVars
        BY <1>1
    <1> QED BY <1>2, InvariantHolds, PTL DEF SentWhereMeant

-----------------------------------------------------------------------------
(* The client.                                                               *)

(* What a step of the client may do to its publisher.                        *)
LEMMA StepsOfThePublisher ==
    ASSUME [Next]_vars
    PROVE  [PublisherNext]_pubVars
    <1> USE ClientAssumption
    <1>1. CASE Receiving
        BY <1>1 DEF Receiving, ReceiveMulti, ReceiveRaw, ReceiveUnder,
            Arrive
    <1>2. CASE Dispatching
        BY <1>2 DEF Dispatching, DecodeRaw, CallOnPacket, CallHook, CallIf,
            CallListener, DispatchEnds
    <1>3. CASE CallbackEnds \/ Start \/ StopBegin \/ ListenerEnds
        BY <1>3 DEF CallbackEnds, Start, StopBegin, ListenerEnds
    <1>4. ASSUME NEW t \in Threads, Publishing(t)
          PROVE  PublisherNext
        BY <1>4 DEF Publishing, PublisherNext
    <1>5. ASSUME NEW t \in Threads, UsedBy(t)
          PROVE  [PublisherNext]_pubVars
        BY <1>5 DEF UsedBy, Subscribe, Unsubscribe, SetHooks, SendCommand,
            PublisherNext
    <1>6. CASE Joined
        BY <1>6 DEF Joined, PublisherNext
    <1>7. CASE Stopping
        BY <1>7 DEF Stopping, JoinEnds, JoinTimesOut, ClosePublisher, StopEnds,
            PublisherNext
    <1>8. CASE UNCHANGED vars
        BY <1>8 DEF vars
    <1> QED BY <1>1, <1>2, <1>3, <1>4, <1>5, <1>6, <1>7, <1>8 DEF Next

(* Both threads of a client together drive its publisher only in ways that   *)
(* ZmqPublisher describes.                                                   *)
THEOREM ClientUsesPublisher == Spec => PublisherSpec
    <1>1. Init => PublisherInit
        BY DEF Init
    <1>2. [Next]_vars => [PublisherNext]_pubVars
        BY StepsOfThePublisher
    <1> QED BY <1>1, <1>2, PTL DEF Spec, PublisherSpec

(* A client that is stopped while its callbacks send keeps every socket's    *)
(* context until the socket is closed.                                       *)
THEOREM ClientContexts == Spec => []SocketNeedsContext
    BY ClientUsesPublisher, ContextOutlivesSocket, PTL

(* A command the application or a callback sends through the client, neither *)
(* crossed nor after a failed reconnection, arrives where it was meant to.   *)
THEOREM ClientCommandsArrive == Spec => SentWhereMeant
    BY ClientUsesPublisher, CommandsArrive, PTL

-----------------------------------------------------------------------------

StoreType == /\ DOMAIN store.latest = KindsUsed
             /\ DOMAIN rawStore.latest = KindsUsed

(* From the store on, through all of the dispatch, the packet at hand is the *)
(* latest of its kind in every store that has been given it.                 *)
StoredInv ==
    /\ StoreType
    /\ listener \in {"off", "waiting", "stored", "dispatching", "callback",
                     "dead"}
    /\ listener \in {"stored", "dispatching", "callback"} =>
        /\ packet.message.kind \in KindsUsed
        /\ facade \in Layered =>
            rawStore.latest[packet.message.kind] = received
    /\ listener = "stored" => facade \in Layered
    /\ listener \in {"dispatching", "callback"} =>
        /\ packet.number = received
        /\ store.latest[packet.message.kind] = received

LEMMA StoredPreserved ==
    ASSUME StoredInv, [Next]_vars
    PROVE  StoredInv'
    <1> USE DEF StoredInv, StoreType, Layered, watched, dispatch
    <1>1. ASSUME NEW m \in Stream,
                 ReceiveMulti(m) \/ ReceiveRaw(m) \/ ReceiveUnder(m)
          PROVE  StoredInv'
        <2>1. m.kind \in KindsUsed
            BY DEF KindsUsed
        <2>2. CASE ReceiveMulti(m)
            <3>1. CASE Update(m) /\ BeginDispatch(m)
                BY <2>1, <2>2, <3>1 DEF ReceiveMulti, Arrive, Update,
                    BeginDispatch
            <3>2. CASE Ignore("waiting") \/ Ignore("dead")
                BY <2>2, <3>2 DEF ReceiveMulti, Arrive, Ignore
            <3> QED BY <2>2, <3>1, <3>2 DEF ReceiveMulti, Handle
        <2>3. CASE ReceiveRaw(m)
            BY <2>1, <2>3 DEF ReceiveRaw, Arrive, Update, BeginDispatch
        <2>4. CASE ReceiveUnder(m)
            BY <2>1, <2>4 DEF ReceiveUnder, Arrive
        <2> QED BY <1>1, <2>2, <2>3, <2>4
    <1>2. CASE DecodeRaw
        BY <1>2 DEF DecodeRaw, Update, BeginDispatch, Ignore, counters
    <1>3. CASE CallOnPacket \/ CallHook
        BY <1>3 DEF CallOnPacket, CallHook, CallIf, stores, counters
    <1>4. CASE CallListener
        BY <1>4 DEF CallListener, stores, counters
    <1>5. CASE DispatchEnds \/ CallbackEnds
        BY <1>5 DEF DispatchEnds, CallbackEnds, Free, stores, counters
    <1>6. ASSUME NEW t \in Threads, Publishing(t) \/ UsedBy(t)
          PROVE  StoredInv'
        BY <1>6 DEF Publishing, UsedBy, Subscribe, Unsubscribe, SetHooks,
            SendCommand, clientVars, service, stores, counters
    <1>7. CASE Joined
        BY <1>7 DEF Joined, clientVars, service, stores, counters
    <1>8. CASE Start \/ StopBegin \/ ListenerEnds
        BY <1>8 DEF Start, Alive, StopBegin, ListenerEnds, stores, counters
    <1>9. CASE Stopping
        BY <1>9 DEF Stopping, JoinEnds, JoinTimesOut, ClosePublisher, StopEnds,
            stores, counters
    <1>10. CASE UNCHANGED vars
        BY <1>10 DEF vars, clientVars, service, stores, counters
    <1> QED BY <1>1, <1>2, <1>3, <1>4, <1>5, <1>6, <1>7, <1>8, <1>9, <1>10
            DEF Next, Receiving, Dispatching

(* What a callback reads with get_latest is the packet it was called with.   *)
THEOREM CallbacksHearOfStored == Spec => []HearsOfStored
    <1>1. Init => StoredInv
        BY DEF Init, Nothing, StoredInv, StoreType
    <1>2. StoredInv /\ [Next]_vars => StoredInv'
        BY StoredPreserved
    <1>3. StoredInv => HearsOfStored
        BY DEF StoredInv, HearsOfStored
    <1> QED BY <1>1, <1>2, <1>3, PTL DEF Spec

-----------------------------------------------------------------------------

(* Only an exception that nothing catches ends the thread of a running       *)
(* client; a single-packet client catches them all.                          *)
THEOREM OnlyDamageKills == Spec => []DiesOfDamageOnly
    <1> USE DEF DiesOfDamageOnly
    <1>1. Init => DiesOfDamageOnly
        BY DEF Init
    <1>2. ASSUME DiesOfDamageOnly, [Next]_vars PROVE DiesOfDamageOnly'
        <2>1. CASE Receiving
            BY <1>2, <2>1 DEF Receiving, ReceiveMulti, ReceiveRaw,
                ReceiveUnder, Arrive, Handle, BeginDispatch, Ignore
        <2>2. CASE Dispatching \/ CallbackEnds
            BY <1>2, <2>2 DEF Dispatching, DecodeRaw, BeginDispatch, Ignore,
                CallOnPacket, CallHook, CallIf, CallListener, DispatchEnds,
                CallbackEnds
        <2>3. ASSUME NEW t \in Threads, Publishing(t) \/ UsedBy(t)
              PROVE  DiesOfDamageOnly'
            BY <1>2, <2>3 DEF Publishing, UsedBy, Subscribe, Unsubscribe,
                SetHooks, SendCommand, clientVars, service
        <2>4. CASE Joined \/ UNCHANGED vars
            BY <1>2, <2>4 DEF Joined, vars, clientVars, service
        <2>5. CASE Start \/ StopBegin \/ ListenerEnds
            BY <1>2, <2>5 DEF Start, StopBegin, ListenerEnds
        <2>6. CASE Stopping
            BY <1>2, <2>6 DEF Stopping, JoinEnds, JoinTimesOut, ClosePublisher,
                StopEnds
        <2> QED BY <1>2, <2>1, <2>2, <2>3, <2>4, <2>5, <2>6 DEF Next
    <1> QED BY <1>1, <1>2, PTL DEF Spec

(* The smallest of a set of numbers.                                         *)
LEMMA SmallestOf ==
    ASSUME NEW I, I \subseteq Nat, I # {}
    PROVE  Min(I) \in I /\ \A y \in I : Min(I) <= y
    <1>1. IsWellFoundedOn(OpToRel(<, Nat), Nat)
        BY NatLessThanWellFounded
    <1>2. \E x \in I : \A y \in I : <<y, x>> \notin OpToRel(<, Nat)
        BY <1>1, WFMin
    <1>3. \A x, y \in Nat : y < x => <<y, x>> \in OpToRel(<, Nat)
        BY DEF OpToRel
    <1>4. \E x \in I : \A y \in I : x <= y
        <2>1. PICK x \in I : \A y \in I : <<y, x>> \notin OpToRel(<, Nat)
            BY <1>2
        <2>2. \A y \in I : ~(y < x) /\ x \in Nat /\ y \in Nat
            BY <1>3, <2>1
        <2>3. \A y \in I : x <= y
            BY <2>2
        <2> QED BY <2>3
    <1> QED BY <1>4 DEF Min

LEMMA WithoutFirst ==
    ASSUME NEW S, NEW s \in Seq(S), NEW e
    PROVE  RemoveFirst(s, e) \in Seq(S)
    <1> DEFINE I == {i \in 1 .. Len(s) : s[i] = e}
    <1>1. CASE I = {}
        <2>1. RemoveFirst(s, e) = s
            BY <1>1 DEF RemoveFirst
        <2> QED BY <2>1
    <1>2. CASE I # {}
        <2>1. Min(I) \in I
            <3>1. I \subseteq Nat
                BY LenProperties
            <3> HIDE DEF I
            <3> QED BY <1>2, <3>1, SmallestOf
        <2>2. RemoveFirst(s, e) = SubSeq(s, 1, Min(I) - 1) \o SubSeq(s, Min(I) + 1, Len(s))
            BY <1>2 DEF RemoveFirst, RemoveAt, SelectInSeq
        <2> DEFINE m == Min(I)
        <2>3. m \in 1 .. Len(s) /\ Len(s) \in Nat
            BY <2>1, LenProperties
        <2> HIDE DEF m, I
        <2>4. SubSeq(s, 1, m - 1) \in Seq(S) /\ SubSeq(s, m + 1, Len(s)) \in Seq(S)
            <3>1. /\ m - 1 \in Int /\ m + 1 \in Int /\ 1 \in Int /\ Len(s) \in Int
                  /\ \A i \in 1 .. m - 1 : s[i] \in S
                  /\ \A i \in m + 1 .. Len(s) : s[i] \in S
                BY <2>3, LenProperties
            <3> QED BY <3>1, SubSeqProperties
        <2> QED BY <2>2, <2>4, ConcatProperties DEF m
    <1> QED BY <1>1, <1>2

(* The place a listener leaves, and the list without it.                     *)
LEMMA FirstRemoved ==
    ASSUME NEW S, NEW s \in Seq(S), NEW e \in Range(s)
    PROVE  \E m \in 1 .. Len(s) :
                /\ s[m] = e
                /\ \A i \in 1 .. m - 1 : s[i] # e
                /\ Len(RemoveFirst(s, e)) = Len(s) - 1
                /\ \A j \in 1 .. Len(s) - 1 :
                    RemoveFirst(s, e)[j] = IF j < m THEN s[j] ELSE s[j + 1]
    <1> DEFINE I == {i \in 1 .. Len(s) : s[i] = e}
               m == Min(I)
    <1>1. Len(s) \in Nat /\ DOMAIN s = 1 .. Len(s)
        BY LenProperties
    <1>2. I # {} /\ I \subseteq Nat
        BY <1>1 DEF Range
    <1>3. RemoveFirst(s, e) = SubSeq(s, 1, m - 1) \o SubSeq(s, m + 1, Len(s))
        BY <1>2 DEF RemoveFirst, RemoveAt, SelectInSeq
    <1>4. m \in I /\ \A y \in I : m <= y
        <2> HIDE DEF I
        <2> QED BY <1>2, SmallestOf
    <1>5. m \in 1 .. Len(s) /\ s[m] = e
        BY <1>4
    <1>6. \A i \in 1 .. m - 1 : s[i] # e
        BY <1>1, <1>4, <1>5
    <1> HIDE DEF m, I
    <1>7. /\ SubSeq(s, 1, m - 1) \in Seq(S) /\ Len(SubSeq(s, 1, m - 1)) = m - 1
          /\ \A j \in 1 .. m - 1 : SubSeq(s, 1, m - 1)[j] = s[j]
        <2>1. /\ m - 1 \in Int /\ 1 \in Int
              /\ \A i \in 1 .. m - 1 : s[i] \in S
            BY <1>1, <1>5, LenProperties
        <2> QED BY <1>1, <1>5, <2>1, SubSeqProperties
    <1>8. /\ SubSeq(s, m + 1, Len(s)) \in Seq(S)
          /\ Len(SubSeq(s, m + 1, Len(s))) = Len(s) - m
          /\ \A j \in 1 .. Len(s) - m : SubSeq(s, m + 1, Len(s))[j] = s[m + j]
        <2>1. /\ m + 1 \in Int /\ Len(s) \in Int
              /\ \A i \in m + 1 .. Len(s) : s[i] \in S
            BY <1>1, <1>5, LenProperties
        <2>2. /\ SubSeq(s, m + 1, Len(s)) \in Seq(S)
              /\ Len(SubSeq(s, m + 1, Len(s))) =
                    IF m + 1 <= Len(s) THEN Len(s) - (m + 1) + 1 ELSE 0
              /\ \A j \in 1 .. Len(s) - (m + 1) + 1 :
                    SubSeq(s, m + 1, Len(s))[j] = s[(m + 1) + j - 1]
            BY <2>1, SubSeqProperties
        <2>3. \A j \in 1 .. Len(s) - m : (m + 1) + j - 1 = m + j
            BY <1>1, <1>5
        <2>4. Len(s) - (m + 1) + 1 = Len(s) - m
            BY <1>1, <1>5
        <2>5. ~(m + 1 <= Len(s)) => Len(s) - m = 0
            <3>1. m \in Int /\ Len(s) \in Int /\ m <= Len(s)
                BY <1>1, <1>5
            <3> QED BY <3>1
        <2> QED BY <2>2, <2>3, <2>4, <2>5
    <1>9. /\ Len(RemoveFirst(s, e)) = Len(s) - 1
          /\ \A j \in 1 .. Len(s) - 1 :
                RemoveFirst(s, e)[j] = IF j < m THEN s[j] ELSE s[j + 1]
        <2> DEFINE before == SubSeq(s, 1, m - 1)
                   after == SubSeq(s, m + 1, Len(s))
        <2>1. /\ RemoveFirst(s, e) = before \o after
              /\ before \in Seq(S) /\ Len(before) = m - 1
              /\ \A j \in 1 .. m - 1 : before[j] = s[j]
              /\ after \in Seq(S) /\ Len(after) = Len(s) - m
              /\ \A j \in 1 .. Len(s) - m : after[j] = s[m + j]
            BY <1>3, <1>7, <1>8
        <2> HIDE DEF before, after
        <2>2. /\ Len(before \o after) = Len(s) - 1
              /\ \A j \in 1 .. Len(s) - 1 :
                    (before \o after)[j] = IF j <= m - 1 THEN before[j]
                                                         ELSE after[j - (m - 1)]
            <3>1. (m - 1) + (Len(s) - m) = Len(s) - 1
                BY <1>1, <1>5
            <3> QED BY <2>1, <3>1, ConcatProperties
        <2> SUFFICES ASSUME NEW j \in 1 .. Len(s) - 1
                     PROVE  (before \o after)[j] = IF j < m THEN s[j] ELSE s[j + 1]
            BY <2>1, <2>2
        <2>3. CASE j < m
            <3>1. j \in 1 .. m - 1 /\ j <= m - 1
                BY <1>1, <1>5, <2>3
            <3> QED BY <2>1, <2>2, <2>3, <3>1
        <2>4. CASE ~(j < m)
            <3>1. /\ ~(j <= m - 1) /\ j - (m - 1) \in 1 .. Len(s) - m
                  /\ m + (j - (m - 1)) = j + 1
                BY <1>1, <1>5, <2>4
            <3>2. after[j - (m - 1)] = s[m + (j - (m - 1))]
                BY <2>1, <3>1
            <3> QED BY <2>2, <2>4, <3>1, <3>2
        <2> QED BY <2>3, <2>4
    <1> QED BY <1>5, <1>6, <1>9

-----------------------------------------------------------------------------
(* The types of a client.                                                    *)

Attributes == {Hook, OnPacket}

SwitchInv ==
    /\ facade \in Facades
    /\ running \in BOOLEAN /\ thread \in BOOLEAN
    /\ app \in {"ready", "joining", "closing", "closed"}
    /\ received \in 0 .. MaxMessages /\ uses \in 0 .. MaxUses
    /\ left \in Nat /\ overrun \in BOOLEAN /\ damaged \in BOOLEAN
    /\ hooks \subseteq Attributes
    /\ steady \subseteq hooks
    /\ subscribed \in [KindsUsed -> Seq(Callbacks)]

(* The stores never count a packet that was not received; while a layered    *)
(* client has bytes it has not decoded, its own store lags behind.           *)
StoreInv ==
    /\ store \in [latest : [KindsUsed -> 0 .. MaxMessages], count : 0 .. MaxMessages]
    /\ rawStore \in [latest : [KindsUsed -> 0 .. MaxMessages], count : 0 .. MaxMessages]
    /\ store.count <= received /\ rawStore.count <= received
    /\ listener = "stored" => store.count < received
    /\ packet.number \in 0 .. received

LEMMA SwitchStep ==
    ASSUME SwitchInv, StoredInv, [Next]_vars
    PROVE  SwitchInv'
    <1> USE ClientAssumption DEF SwitchInv, Attributes
    <1>1. CASE Receiving
        <2> SUFFICES ASSUME NEW m \in Stream,
                            ReceiveMulti(m) \/ ReceiveRaw(m) \/ ReceiveUnder(m)
                     PROVE  SwitchInv'
            BY <1>1 DEF Receiving
        <2>1. /\ UNCHANGED <<facade, running, thread, app, roster, uses, overrun>>
              /\ received < MaxMessages /\ received' = received + 1
              /\ damaged' \in BOOLEAN
            BY DEF ReceiveMulti, ReceiveRaw, ReceiveUnder, Arrive
        <2>2. steady' \subseteq hooks /\ left' \in Nat
            BY DEF ReceiveMulti, ReceiveRaw, ReceiveUnder, Handle, BeginDispatch,
                Ignore, watched
        <2> QED BY <2>1, <2>2 DEF roster
    <1>2. CASE DecodeRaw
        BY <1>2 DEF DecodeRaw, BeginDispatch, Ignore, watched, roster, counters
    <1>3. CASE CallOnPacket \/ CallHook \/ CallListener
        BY <1>3 DEF CallOnPacket, CallHook, CallIf, CallListener, roster, counters
    <1>4. CASE DispatchEnds \/ CallbackEnds
        BY <1>4 DEF DispatchEnds, CallbackEnds, roster, counters, watched
    <1>5. ASSUME NEW t \in Threads, NEW k \in KindsUsed, NEW cb \in Callbacks,
                 Subscribe(t, k, cb) \/ Unsubscribe(t, k, cb)
          PROVE  SwitchInv'
        <2>1. /\ Append(subscribed[k], cb) \in Seq(Callbacks)
              /\ RemoveFirst(subscribed[k], cb) \in Seq(Callbacks)
            BY WithoutFirst, AppendProperties
        <2>2. subscribed' \in [KindsUsed -> Seq(Callbacks)]
            BY <1>5, <2>1 DEF Subscribe, Unsubscribe
        <2>3. left' \in Nat
            BY <1>5 DEF Subscribe, Unsubscribe, watched
        <2>4. UNCHANGED <<facade, service, hooks, steady, received, overrun, damaged>>
              /\ uses' \in 0 .. MaxUses
            BY <1>5 DEF Subscribe, Unsubscribe, watched, Use
        <2> QED BY <2>2, <2>3, <2>4 DEF service
    <1>6. ASSUME NEW t \in Threads, NEW set \in SUBSET {Hook, OnPacket}, SetHooks(t, set)
          PROVE  SwitchInv'
        BY <1>6 DEF SetHooks, Use, service
    <1>7. ASSUME NEW t \in Threads, NEW e \in Endpoints, SendCommand(t, e)
          PROVE  SwitchInv'
        BY <1>7 DEF SendCommand, Use, service, roster, watched
    <1>8. CASE \E t \in Threads : Publishing(t)
        BY <1>8 DEF Publishing, clientVars, service, roster, counters, watched
    <1>9. CASE Joined \/ UNCHANGED vars
        BY <1>9 DEF Joined, vars, clientVars, service, roster, counters, watched
    <1>10. CASE Start \/ StopBegin \/ ListenerEnds
        BY <1>10 DEF Start, StopBegin, ListenerEnds, roster, counters, watched
    <1>11. CASE Stopping
        BY <1>11 DEF Stopping, JoinEnds, JoinTimesOut, ClosePublisher, StopEnds,
            roster, counters, watched
    <1> QED BY <1>1, <1>2, <1>3, <1>4, <1>5, <1>6, <1>7, <1>8, <1>9, <1>10, <1>11
            DEF Next, Dispatching, UsedBy

LEMMA StoreStep ==
    ASSUME SwitchInv, StoreInv, StoredInv, [Next]_vars
    PROVE  StoreInv'
    <1> USE ClientAssumption DEF StoreInv
    <1>1. CASE Receiving
        <2> SUFFICES ASSUME NEW m \in Stream,
                            ReceiveMulti(m) \/ ReceiveRaw(m) \/ ReceiveUnder(m)
                     PROVE  StoreInv'
            BY <1>1 DEF Receiving
        <2>1. /\ received \in Nat /\ received < MaxMessages /\ received' = received + 1
              /\ m.kind \in KindsUsed
            BY DEF ReceiveMulti, ReceiveRaw, ReceiveUnder, Arrive, KindsUsed, SwitchInv
        <2>2. CASE Update(m) /\ BeginDispatch(m) /\ UNCHANGED rawStore
            BY <2>1, <2>2 DEF Update, BeginDispatch
        <2>3. CASE (Ignore("waiting") \/ Ignore("dead")) /\ UNCHANGED rawStore
            BY <2>1, <2>3 DEF Ignore, NoPacket
        <2>4. CASE ReceiveUnder(m)
            BY <2>1, <2>4 DEF ReceiveUnder
        <2> QED BY <2>2, <2>3, <2>4 DEF ReceiveMulti, ReceiveRaw, Handle
    <1>2. CASE DecodeRaw
        <2>1. /\ packet.message.kind \in KindsUsed /\ store.count < received
              /\ received' = received /\ received \in 0 .. MaxMessages
              /\ UNCHANGED rawStore
            BY <1>2 DEF DecodeRaw, StoredInv, counters, SwitchInv
        <2> DEFINE m == packet.message
        <2>2. CASE Update(m) /\ BeginDispatch(m)
            BY <2>1, <2>2 DEF Update, BeginDispatch
        <2>3. CASE Ignore("waiting")
            BY <2>1, <2>3 DEF Ignore, NoPacket
        <2> QED BY <1>2, <2>2, <2>3 DEF DecodeRaw
    <1>3. CASE CallOnPacket \/ CallHook \/ CallListener
        BY <1>3 DEF CallOnPacket, CallHook, CallIf, CallListener, stores, counters
    <1>4. CASE DispatchEnds \/ CallbackEnds
        BY <1>4 DEF DispatchEnds, CallbackEnds, NoPacket, stores, counters, dispatch,
            SwitchInv
    <1>5. CASE \E t \in Threads : Publishing(t) \/ UsedBy(t)
        BY <1>5 DEF Publishing, UsedBy, Subscribe, Unsubscribe, SetHooks, SendCommand,
            clientVars, service, stores, dispatch, counters
    <1>6. CASE Joined \/ UNCHANGED vars
        BY <1>6 DEF Joined, vars, clientVars, service, stores, dispatch, counters
    <1>7. CASE Start \/ StopBegin \/ ListenerEnds
        BY <1>7 DEF Start, StopBegin, ListenerEnds, stores, dispatch, counters
    <1>8. CASE Stopping
        BY <1>8 DEF Stopping, JoinEnds, JoinTimesOut, ClosePublisher, StopEnds,
            stores, dispatch, counters
    <1> QED BY <1>1, <1>2, <1>3, <1>4, <1>5, <1>6, <1>7, <1>8 DEF Next, Dispatching

-----------------------------------------------------------------------------
(* The calls of a dispatch.                                                  *)

Stages == {"on_packet", "hook", "listeners", "over"}

(* The attributes a dispatch may call before the listeners.                  *)
AttributeCalls == {<<>>, <<OnPacket>>, <<Hook>>, <<OnPacket, Hook>>}

List == subscribed[packet.message.kind]

(* It has called some attributes and the listeners before the one at its     *)
(* place in the list.                                                        *)
CalledSoFar(attributes) ==
    /\ steady \subseteq Range(attributes)
    /\ Len(called) = Len(attributes) + progress.next - 1
    /\ \A i \in 1 .. Len(attributes) : called[i] = attributes[i]
    /\ \A i \in 1 .. progress.next - 1 : called[Len(attributes) + i] = List[i]

DispatchInv ==
    /\ progress \in [stage : Stages, hook : BOOLEAN, next : Nat \ {0}]
    /\ called \in Seq(Callbacks \cup Attributes)
    /\ progress.stage # "over" => listener \in {"dispatching", "callback"}
    /\ progress.stage \in {"hook", "listeners"} => facade = "multi"
    /\ facade # "multi" => steady \subseteq {OnPacket}
    /\ progress.stage \in {"on_packet", "hook"} => progress.next = 1
    /\ left = 0 =>
        /\ progress.stage = "on_packet" =>
            called = <<>> /\ progress.next = 1 /\ (Hook \in steady => progress.hook)
        /\ progress.stage = "hook" =>
            /\ called = <<OnPacket>> \/ (called = <<>> /\ OnPacket \notin steady)
            /\ progress.next = 1 /\ (Hook \in steady => progress.hook)
        /\ progress.stage = "listeners" =>
            /\ progress.next - 1 <= Len(List)
            /\ \E attributes \in AttributeCalls : CalledSoFar(attributes)

LEMMA AttributeLists ==
    /\ \A a \in AttributeCalls : a \in Seq(Attributes) /\ Len(a) \in Nat
    /\ Range(<<>>) = {}
    /\ Range(<<OnPacket>>) = {OnPacket}
    /\ Range(<<Hook>>) = {Hook}
    /\ Range(<<OnPacket, Hook>>) = {OnPacket, Hook}
    BY DEF AttributeCalls, Attributes, Range

LEMMA HookAppended ==
    /\ Append(<<>>, Hook) = <<Hook>>
    /\ Append(<<OnPacket>>, Hook) = <<OnPacket, Hook>>
    <1>1. /\ Append(<<OnPacket>>, Hook) \in Seq({OnPacket, Hook})
          /\ <<OnPacket, Hook>> \in Seq({OnPacket, Hook})
        OBVIOUS
    <1>2. Len(Append(<<OnPacket>>, Hook)) = 2 /\ Len(<<OnPacket, Hook>>) = 2
        OBVIOUS
    <1>3. /\ Append(<<OnPacket>>, Hook)[1] = OnPacket
          /\ Append(<<OnPacket>>, Hook)[2] = Hook
        OBVIOUS
    <1>4. <<OnPacket, Hook>>[1] = OnPacket /\ <<OnPacket, Hook>>[2] = Hook
        OBVIOUS
    <1>5. \A i \in 1 .. 2 : Append(<<OnPacket>>, Hook)[i] = <<OnPacket, Hook>>[i]
        BY <1>3, <1>4
    <1>6. Append(<<>>, Hook) = <<Hook>>
        OBVIOUS
    <1> QED BY <1>1, <1>2, <1>5, <1>6, SeqEqual

(* A dispatch that begins.                                                   *)
LEMMA BeginDispatchInv ==
    ASSUME SwitchInv, NEW m, BeginDispatch(m), UNCHANGED <<facade, hooks>>
    PROVE  DispatchInv'
    <1>1. /\ progress' \in [stage : Stages, hook : BOOLEAN, next : Nat \ {0}]
          /\ progress'.stage = "on_packet" /\ progress'.next = 1
          /\ progress'.hook = (facade = "multi" /\ Hook \in hooks)
        BY DEF BeginDispatch, Stages
    <1>2. called' = <<>> /\ <<>> \in Seq(Callbacks \cup Attributes)
        BY DEF BeginDispatch
    <1>3. steady' = IF facade = "multi" THEN hooks ELSE hooks \cap {OnPacket}
        BY DEF BeginDispatch
    <1>4. listener' = "dispatching" /\ ClientAssumption
        BY ClientAssumption DEF BeginDispatch
    <1> QED BY <1>1, <1>2, <1>3, <1>4 DEF DispatchInv, ClientAssumption

LEMMA IdleDispatchInv ==
    ASSUME DispatchInv, NEW place, Ignore(place), progress.stage = "over",
           UNCHANGED facade
    PROVE  DispatchInv'
    BY DEF Ignore, NoProgress, watched, DispatchInv, Stages

LEMMA CallOnPacketInv ==
    ASSUME SwitchInv, DispatchInv, CallOnPacket
    PROVE  DispatchInv'
    <1> DEFINE set == OnPacket \in hooks
    <1>1. /\ progress.stage = "on_packet" /\ listener = "dispatching"
          /\ progress' = [progress EXCEPT !.stage = IF facade = "multi" THEN "hook" ELSE "over"]
          /\ listener' \in {"dispatching", "callback"}
          /\ called' = IF set THEN Append(called, OnPacket) ELSE called
          /\ UNCHANGED <<facade, steady, left, subscribed, packet, hooks>>
        BY DEF CallOnPacket, CallIf, roster
    <1>2. /\ progress' \in [stage : Stages, hook : BOOLEAN, next : Nat \ {0}]
          /\ progress'.stage = IF facade = "multi" THEN "hook" ELSE "over"
          /\ progress'.hook = progress.hook /\ progress'.next = progress.next
        BY <1>1 DEF DispatchInv, Stages
    <1>3. called' \in Seq(Callbacks \cup Attributes)
        BY <1>1, AppendProperties DEF DispatchInv, Attributes
    <1>4. left = 0 => called' = <<OnPacket>> \/ (called' = <<>> /\ OnPacket \notin steady)
        BY <1>1 DEF DispatchInv, SwitchInv
    <1> QED BY <1>1, <1>2, <1>3, <1>4 DEF DispatchInv

LEMMA CallHookInv ==
    ASSUME SwitchInv, DispatchInv, CallHook
    PROVE  DispatchInv'
    <1>1. /\ progress.stage = "hook" /\ listener = "dispatching"
          /\ progress' = [progress EXCEPT !.stage = "listeners"]
          /\ listener' \in {"dispatching", "callback"}
          /\ called' = IF progress.hook THEN Append(called, Hook) ELSE called
          /\ UNCHANGED <<facade, steady, left, subscribed, packet, hooks>>
        BY DEF CallHook, CallIf, roster
    <1>2. /\ progress' \in [stage : Stages, hook : BOOLEAN, next : Nat \ {0}]
          /\ progress'.stage = "listeners" /\ progress'.next = progress.next
        BY <1>1 DEF DispatchInv, Stages
    <1>3. called' \in Seq(Callbacks \cup Attributes)
        BY <1>1, AppendProperties DEF DispatchInv, Attributes
    <1>4. ASSUME left = 0
          PROVE  \E a \in AttributeCalls : called' = a /\ steady \subseteq Range(a)
        <2>1. called' \in {<<>>, <<OnPacket>>, <<Hook>>, <<OnPacket, Hook>>}
            <3>2. called = <<>> \/ called = <<OnPacket>>
                BY <1>1, <1>4 DEF DispatchInv
            <3>3. called' = called \/ called' = Append(called, Hook)
                BY <1>1
            <3> QED BY <3>2, <3>3, HookAppended
        <2>2. /\ OnPacket \in steady => called = <<OnPacket>>
              /\ Hook \in steady => progress.hook
              /\ steady \subseteq {OnPacket, Hook}
            BY <1>1, <1>4 DEF DispatchInv, SwitchInv, Attributes
        <2>3. steady \subseteq Range(called')
            <3>2. CASE progress.hook /\ called = <<OnPacket>>
                <4>1. called' = <<OnPacket, Hook>>
                    BY <1>1, <3>2, HookAppended
                <4> QED BY <2>2, <4>1, AttributeLists
            <3>3. CASE ~progress.hook /\ called = <<OnPacket>>
                <4>1. called' = <<OnPacket>> /\ Hook \notin steady
                    BY <1>1, <2>2, <3>3
                <4> QED BY <2>2, <4>1, AttributeLists
            <3>4. CASE progress.hook /\ called = <<>> /\ OnPacket \notin steady
                <4>1. called' = <<Hook>>
                    BY <1>1, <3>4, HookAppended
                <4> QED BY <2>2, <3>4, <4>1, AttributeLists
            <3>5. CASE ~progress.hook /\ called = <<>> /\ OnPacket \notin steady
                <4>1. called' = <<>> /\ Hook \notin steady
                    BY <1>1, <2>2, <3>5
                <4> QED BY <2>2, <3>5, <4>1, AttributeLists
            <3> QED BY <1>1, <1>4, <3>2, <3>3, <3>4, <3>5 DEF DispatchInv
        <2> QED BY <2>1, <2>3 DEF AttributeCalls
    <1>5. ASSUME left = 0
          PROVE  /\ progress'.next - 1 <= Len(List)'
                 /\ \E a \in AttributeCalls : CalledSoFar(a)'
        <2>1. progress'.next = 1
            BY <1>1, <1>2, <1>5 DEF DispatchInv
        <2>2. PICK a \in AttributeCalls : called' = a /\ steady \subseteq Range(a)
            BY <1>4, <1>5
        <2>3. CalledSoFar(a)'
            BY <1>1, <2>1, <2>2, AttributeLists DEF CalledSoFar
        <2> QED BY <2>1, <2>3
    <1> QED BY <1>1, <1>2, <1>3, <1>5 DEF DispatchInv

(* The loop over the listeners calls the one at its place and goes on.       *)
LEMMA CallListenerInv ==
    ASSUME SwitchInv, StoredInv, DispatchInv, CallListener
    PROVE  DispatchInv'
    <1> DEFINE n == progress.next
    <1>1. /\ progress.stage = "listeners" /\ listener = "dispatching"
          /\ facade = "multi"
          /\ UNCHANGED <<facade, steady, left, subscribed, packet>>
          /\ List \in Seq(Callbacks) /\ Len(List) \in Nat
          /\ n \in Nat \ {0}
        BY LenProperties DEF CallListener, roster, DispatchInv, SwitchInv, StoredInv, List
    <1>2. CASE n <= Len(List)
        <2>1. /\ progress' = [progress EXCEPT !.stage = "listeners", !.next = n + 1]
              /\ listener' = "callback"
              /\ called' = Append(called, List[n])
            BY <1>2 DEF CallListener, List
        <2>2. /\ progress' \in [stage : Stages, hook : BOOLEAN, next : Nat \ {0}]
              /\ progress'.stage = "listeners" /\ progress'.next = n + 1
            <3>1. progress \in [stage : Stages, hook : BOOLEAN, next : Nat \ {0}]
                BY DEF DispatchInv
            <3>2. n + 1 \in Nat \ {0} /\ "listeners" \in Stages
                BY <1>1 DEF Stages
            <3> HIDE DEF n
            <3> QED BY <2>1, <3>1, <3>2
        <2>3. List[n] \in Callbacks
            BY <1>1, <1>2, ElementOfSeq
        <2>4. called \in Seq(Callbacks \cup Attributes)
            BY DEF DispatchInv
        <2>5. /\ called' \in Seq(Callbacks \cup Attributes)
              /\ Len(called') = Len(called) + 1 /\ Len(called) \in Nat
              /\ \A i \in 1 .. Len(called) : called'[i] = called[i]
              /\ called'[Len(called) + 1] = List[n]
            BY <2>1, <2>3, <2>4, AppendProperties, LenProperties
        <2>6. ASSUME left = 0
              PROVE  \E a \in AttributeCalls : CalledSoFar(a)'
            <3>1. PICK a \in AttributeCalls : CalledSoFar(a)
                BY <1>1, <2>6 DEF DispatchInv
            <3>2. Len(a) \in Nat /\ Len(called) = Len(a) + n - 1
                BY <3>1, AttributeLists DEF CalledSoFar
            <3>3. \A i \in 1 .. Len(a) : called'[i] = a[i]
                BY <1>1, <2>5, <3>1, <3>2 DEF CalledSoFar
            <3>4. \A i \in 1 .. n : called'[Len(a) + i] = List[i]
                <4> SUFFICES ASSUME NEW i \in 1 .. n
                             PROVE  called'[Len(a) + i] = List[i]
                    OBVIOUS
                <4>1. CASE i = n
                    <5>1. Len(a) + i = Len(called) + 1
                        BY <1>1, <3>2, <4>1
                    <5> QED BY <2>5, <4>1, <5>1
                <4>2. CASE i # n
                    <5>1. i \in 1 .. n - 1 /\ Len(a) + i \in 1 .. Len(called)
                        BY <1>1, <3>2, <4>2
                    <5> QED BY <2>5, <3>1, <5>1 DEF CalledSoFar
                <4> QED BY <4>1, <4>2
            <3>5. Len(called') = Len(a) + (n + 1) - 1 /\ (n + 1) - 1 = n
                BY <1>1, <2>5, <3>2
            <3>6. List' = List /\ steady' \subseteq Range(a)
                BY <1>1, <3>1 DEF CalledSoFar, List
            <3>7. CalledSoFar(a)'
                BY <2>2, <3>3, <3>4, <3>5, <3>6 DEF CalledSoFar
            <3> QED BY <3>7
        <2>7. progress'.next - 1 <= Len(List)'
            <3>1. List' = List
                BY <1>1 DEF List
            <3> QED BY <1>1, <1>2, <2>2, <3>1
        <2> QED BY <1>1, <2>1, <2>2, <2>5, <2>6, <2>7 DEF DispatchInv
    <1>3. CASE ~(n <= Len(List))
        <2>1. /\ progress' = [progress EXCEPT !.stage = "over", !.next = @]
              /\ called' = called
            BY <1>3 DEF CallListener, List
        <2>2. /\ progress' \in [stage : Stages, hook : BOOLEAN, next : Nat \ {0}]
              /\ progress'.stage = "over"
            BY <1>1, <2>1 DEF DispatchInv, Stages
        <2> QED BY <1>1, <2>1, <2>2 DEF DispatchInv
    <1> QED BY <1>2, <1>3

(* Who subscribes during a dispatch comes after those already called.        *)
LEMMA SubscribeInv ==
    ASSUME SwitchInv, StoredInv, DispatchInv,
           NEW t, NEW k \in KindsUsed, NEW cb \in Callbacks, Subscribe(t, k, cb)
    PROVE  DispatchInv'
    <1>1. /\ UNCHANGED <<facade, listener, steady, left, packet, progress, called>>
          /\ subscribed' = [subscribed EXCEPT ![k] = Append(@, cb)]
        BY DEF Subscribe, service, dispatch, watched
    <1>2. ASSUME progress.stage = "listeners", left = 0
          PROVE  /\ progress'.next - 1 <= Len(List)'
                 /\ \E a \in AttributeCalls : CalledSoFar(a)'
        <2>1. packet.message.kind \in KindsUsed
            BY <1>2 DEF DispatchInv, StoredInv
        <2>2. List \in Seq(Callbacks) /\ Len(List) \in Nat
            BY <2>1, LenProperties DEF SwitchInv, List
        <2>3. List' = List \/ List' = Append(List, cb)
            BY <1>1, <2>1 DEF SwitchInv, List
        <2>4. Len(List)' >= Len(List) /\ \A i \in 1 .. Len(List) : List'[i] = List[i]
            <3>1. CASE List' = List
                BY <2>2, <3>1
            <3>2. CASE List' = Append(List, cb)
                <4>1. /\ Len(Append(List, cb)) = Len(List) + 1
                      /\ \A i \in 1 .. Len(List) : Append(List, cb)[i] = List[i]
                    BY <2>2, AppendProperties
                <4> QED BY <2>2, <3>2, <4>1
            <3> QED BY <2>3, <3>1, <3>2
        <2>5. progress.next \in Nat /\ progress.next - 1 <= Len(List)
            BY <1>2 DEF DispatchInv
        <2>6. progress'.next - 1 <= Len(List)'
            <3>1. Len(List)' \in Nat
                BY <2>2, <2>3, AppendProperties
            <3> QED BY <1>1, <2>2, <2>4, <2>5, <3>1
        <2>7. PICK a \in AttributeCalls : CalledSoFar(a)
            BY <1>2 DEF DispatchInv
        <2>8. CalledSoFar(a)'
            <3>1. \A i \in 1 .. progress.next - 1 : List'[i] = List[i]
                BY <2>2, <2>4, <2>5
            <3> HIDE DEF List
            <3> QED BY <1>1, <2>7, <3>1 DEF CalledSoFar
        <2> QED BY <2>6, <2>8
    <1> QED BY <1>1, <1>2 DEF DispatchInv

(* Who leaves a place the loop has not reached leaves those called as they   *)
(* are.                                                                      *)
LEMMA UnsubscribeInv ==
    ASSUME SwitchInv, StoredInv, DispatchInv,
           NEW t, NEW k \in KindsUsed, NEW cb \in Callbacks, Unsubscribe(t, k, cb)
    PROVE  DispatchInv'
    <1>1. /\ UNCHANGED <<facade, listener, steady, packet, progress, called>>
          /\ subscribed' = [subscribed EXCEPT ![k] = RemoveFirst(@, cb)]
          /\ left' = IF Passed(k, cb) THEN left + 1 ELSE left
          /\ cb \in Range(subscribed[k])
          /\ left \in Nat
        BY DEF Unsubscribe, service, dispatch, SwitchInv
    <1>2. ASSUME left' = 0, progress.stage = "listeners"
          PROVE  /\ progress'.next - 1 <= Len(List)'
                 /\ \E a \in AttributeCalls : CalledSoFar(a)'
        <2>1. left = 0 /\ ~Passed(k, cb)
            BY <1>1, <1>2
        <2>2. /\ listener \in {"dispatching", "callback"}
              /\ progress.next \in Nat /\ progress.next - 1 <= Len(List)
            BY <1>2, <2>1 DEF DispatchInv
        <2>3. packet.message.kind \in KindsUsed /\ List \in Seq(Callbacks)
              /\ Len(List) \in Nat
            BY <2>2, LenProperties DEF StoredInv, SwitchInv, List
        <2>4. PICK a \in AttributeCalls : CalledSoFar(a)
            BY <1>2, <2>1 DEF DispatchInv
        <2>5. /\ progress.next - 1 <= Len(List')
              /\ \A i \in 1 .. progress.next - 1 : List'[i] = List[i]
            <3>1. CASE k # packet.message.kind
                <4>1. List' = List
                    BY <1>1, <2>3, <3>1 DEF SwitchInv, List
                <4> QED BY <2>2, <4>1
            <3>2. CASE k = packet.message.kind
                <4>1. List' = RemoveFirst(List, cb) /\ cb \in Range(List)
                    BY <1>1, <2>3, <3>2 DEF SwitchInv, List
                <4>2. PICK m \in 1 .. Len(List) :
                        /\ List[m] = cb
                        /\ Len(RemoveFirst(List, cb)) = Len(List) - 1
                        /\ \A j \in 1 .. Len(List) - 1 :
                            RemoveFirst(List, cb)[j] = IF j < m THEN List[j]
                                                                ELSE List[j + 1]
                    BY <2>3, <4>1, FirstRemoved
                <4>3. ~(m \in 1 .. progress.next - 1)
                    BY <2>1, <2>2, <3>2, <4>2 DEF Passed, List
                <4> HIDE DEF List
                <4>4. progress.next <= m /\ m <= Len(List)
                    BY <2>2, <2>3, <4>2, <4>3
                <4>5. progress.next - 1 <= Len(List) - 1
                    BY <2>2, <2>3, <4>4
                <4>6. \A i \in 1 .. progress.next - 1 :
                        i \in 1 .. Len(List) - 1 /\ i < m
                    BY <2>2, <2>3, <4>2, <4>4
                <4> QED BY <4>1, <4>2, <4>5, <4>6
            <3> QED BY <3>1, <3>2
        <2> HIDE DEF List
        <2>6. CalledSoFar(a)'
            BY <1>1, <2>4, <2>5 DEF CalledSoFar
        <2> QED BY <1>1, <2>5, <2>6
    <1>3. left' = 0 => left = 0
        BY <1>1
    <1> QED BY <1>1, <1>2, <1>3 DEF DispatchInv

LEMMA SetHooksInv ==
    ASSUME SwitchInv, DispatchInv, NEW t, NEW set, SetHooks(t, set)
    PROVE  DispatchInv'
    <1>1. /\ UNCHANGED <<facade, listener, left, packet, progress, called, subscribed>>
          /\ steady' = steady \cap set
        BY DEF SetHooks, service, dispatch
    <1>2. \A a : CalledSoFar(a) => CalledSoFar(a)'
        BY <1>1 DEF CalledSoFar, List
    <1> QED BY <1>1, <1>2 DEF DispatchInv, List

(* Steps that leave the dispatch alone.                                      *)
LEMMA OtherStepsInv ==
    ASSUME DispatchInv,
           UNCHANGED <<facade, steady, left, packet, progress, called, subscribed>>,
           listener \in {"dispatching", "callback"}
               => listener' \in {"dispatching", "callback"}
    PROVE  DispatchInv'
    <1>1. \A a : CalledSoFar(a) => CalledSoFar(a)'
        BY DEF CalledSoFar, List
    <1> QED BY <1>1 DEF DispatchInv, List

LEMMA DispatchStep ==
    ASSUME SwitchInv, StoredInv, DispatchInv, [Next]_vars
    PROVE  DispatchInv'
    <1>1. CASE Receiving
        <2> SUFFICES ASSUME NEW m \in Stream,
                            ReceiveMulti(m) \/ ReceiveRaw(m) \/ ReceiveUnder(m)
                     PROVE  DispatchInv'
            BY <1>1 DEF Receiving
        <2>1. /\ listener = "waiting" /\ progress.stage = "over"
              /\ UNCHANGED <<facade, hooks, subscribed>>
            BY DEF ReceiveMulti, ReceiveRaw, ReceiveUnder, Arrive, DispatchInv, roster
        <2>2. CASE BeginDispatch(m)
            BY <2>1, <2>2, BeginDispatchInv
        <2>3. CASE Ignore("waiting") \/ Ignore("dead")
            BY <2>1, <2>3, IdleDispatchInv
        <2>4. CASE ReceiveUnder(m)
            BY <2>1, <2>4 DEF ReceiveUnder, watched, DispatchInv
        <2> QED BY <2>2, <2>3, <2>4 DEF ReceiveMulti, ReceiveRaw, Handle
    <1>2. CASE DecodeRaw
        <2>1. progress.stage = "over" /\ UNCHANGED <<facade, hooks>>
            BY <1>2 DEF DecodeRaw, DispatchInv, roster
        <2>2. CASE BeginDispatch(packet.message)
            BY <2>1, <2>2, BeginDispatchInv
        <2>3. CASE Ignore("waiting")
            BY <2>1, <2>3, IdleDispatchInv
        <2> QED BY <1>2, <2>2, <2>3 DEF DecodeRaw
    <1>3. CASE DispatchEnds
        BY <1>3 DEF DispatchEnds, NoProgress, DispatchInv, Stages
    <1>4. CASE CallbackEnds
        BY <1>4, OtherStepsInv DEF CallbackEnds, dispatch, watched, roster
    <1>5. ASSUME NEW t \in Threads, UsedBy(t) PROVE DispatchInv'
        <2>1. CASE \E e \in Endpoints : SendCommand(t, e)
            BY <2>1, OtherStepsInv DEF SendCommand, dispatch, watched, roster, service
        <2> QED BY <1>5, <2>1, SubscribeInv, UnsubscribeInv, SetHooksInv DEF UsedBy
    <1>6. CASE \E t \in Threads : Publishing(t)
        BY <1>6, OtherStepsInv
           DEF Publishing, clientVars, dispatch, watched, roster, service
    <1>7. CASE Joined \/ UNCHANGED vars
        BY <1>7, OtherStepsInv
           DEF Joined, vars, clientVars, dispatch, watched, roster, service
    <1>8. CASE Start \/ StopBegin \/ ListenerEnds
        BY <1>8, OtherStepsInv
           DEF Start, Alive, StopBegin, ListenerEnds, dispatch, watched, roster
    <1>9. CASE Stopping
        BY <1>9, OtherStepsInv
           DEF Stopping, JoinEnds, JoinTimesOut, ClosePublisher, StopEnds, dispatch,
               watched, roster
    <1> QED BY <1>1, <1>2, <1>3, <1>4, <1>5, <1>6, <1>7, <1>8, <1>9,
               CallOnPacketInv, CallHookInv, CallListenerInv DEF Next, Dispatching

(* A dispatch comes to its end.                                              *)
LEMMA OnlyCallsEnd ==
    ASSUME DispatchInv, [Next]_vars, progress.stage # "over",
           progress'.stage = "over"
    PROVE  CallOnPacket \/ CallHook \/ CallListener
    <1> listener \in {"dispatching", "callback"}
        BY DEF DispatchInv
    <1>1. ~Receiving /\ ~DecodeRaw /\ ~DispatchEnds
        BY DEF Receiving, ReceiveMulti, ReceiveRaw, ReceiveUnder, Arrive,
            DecodeRaw, DispatchEnds
    <1>2. ~UNCHANGED progress
        OBVIOUS
    <1>3. ~CallbackEnds /\ ~Joined /\ ~Start /\ ~StopBegin /\ ~ListenerEnds /\ ~Stopping
        BY <1>2 DEF CallbackEnds, Joined, Start, StopBegin, ListenerEnds, Stopping,
            JoinEnds, JoinTimesOut, ClosePublisher, StopEnds, clientVars, dispatch
    <1>4. ASSUME NEW t \in Threads PROVE ~Publishing(t) /\ ~UsedBy(t)
        BY <1>2 DEF Publishing, UsedBy, Subscribe, Unsubscribe, SetHooks,
            SendCommand, clientVars, dispatch
    <1>5. ~UNCHANGED vars
        BY <1>2 DEF vars, clientVars, dispatch
    <1> QED BY <1>1, <1>3, <1>4, <1>5 DEF Next, Dispatching

LEMMA EndOfDispatch ==
    ASSUME SwitchInv, StoredInv, DispatchInv, [Next]_vars,
           progress.stage # "over", progress'.stage = "over", left = 0
    PROVE  \E attributes \in AttributeCalls :
                /\ called' = attributes \o Audience
                /\ steady \subseteq Range(attributes)
    <1>1. listener \in {"dispatching", "callback"}
        BY DEF DispatchInv
    <1>2. CallOnPacket \/ CallHook \/ CallListener
        BY OnlyCallsEnd
    <1>3. CASE CallHook
        BY <1>3 DEF CallHook, CallIf, DispatchInv
    <1>4. CASE CallOnPacket
        <2>1. facade # "multi" /\ progress.stage = "on_packet"
              /\ called' = IF OnPacket \in hooks THEN Append(called, OnPacket) ELSE called
            BY <1>4 DEF CallOnPacket, CallIf, DispatchInv
        <2>2. called = <<>> /\ steady \subseteq {OnPacket} \cap hooks
            BY <2>1 DEF DispatchInv, SwitchInv
        <2>3. CASE OnPacket \in hooks
            <3>1. called' = <<OnPacket>> /\ Audience = <<>>
                BY <2>1, <2>2, <2>3 DEF Audience
            <3>2. <<OnPacket>> \o <<>> = <<OnPacket>>
                BY ConcatEmptySeq, AttributeLists DEF AttributeCalls
            <3> QED BY <2>2, <3>1, <3>2, AttributeLists DEF AttributeCalls
        <2>4. CASE OnPacket \notin hooks
            <3>1. called' = <<>> /\ Audience = <<>>
                BY <2>1, <2>2, <2>4 DEF Audience
            <3>2. <<>> \o <<>> = <<>>
                BY ConcatEmptySeq, AttributeLists DEF AttributeCalls
            <3> QED BY <2>2, <2>4, <3>1, <3>2, AttributeLists DEF AttributeCalls
        <2> QED BY <2>3, <2>4
    <1>5. CASE CallListener
        <2> DEFINE All == Callbacks \cup Attributes
        <2>1. /\ progress.stage = "listeners" /\ facade = "multi"
              /\ Audience = List /\ List \in Seq(Callbacks)
              /\ progress.next \in Nat /\ Len(List) \in Nat
            BY <1>5, LenProperties
               DEF CallListener, DispatchInv, StoredInv, SwitchInv, Audience, List
        <2>2. called' = called /\ ~(progress.next <= Len(List))
            BY <1>5 DEF CallListener, List, DispatchInv
        <2>3. progress.next - 1 = Len(List)
            BY <2>1, <2>2 DEF DispatchInv
        <2>4. PICK a \in AttributeCalls : CalledSoFar(a)
            BY <2>1 DEF DispatchInv
        <2>5. /\ a \in Seq(All) /\ List \in Seq(All) /\ called \in Seq(All)
              /\ Len(a) \in Nat
            BY <2>1, <2>4, AttributeLists, SeqMonotonic DEF DispatchInv
        <2> HIDE DEF All, List
        <2>6. /\ a \o List \in Seq(All) /\ Len(a \o List) = Len(a) + Len(List)
              /\ \A i \in 1 .. Len(a) + Len(List) :
                    (a \o List)[i] = IF i <= Len(a) THEN a[i] ELSE List[i - Len(a)]
            BY <2>5, ConcatProperties
        <2>7. /\ Len(called) = Len(a) + Len(List)
              /\ \A i \in 1 .. Len(a) : called[i] = a[i]
              /\ \A i \in 1 .. Len(List) : called[Len(a) + i] = List[i]
            BY <2>1, <2>3, <2>4, <2>5 DEF CalledSoFar
        <2>8. \A i \in 1 .. Len(called) : called[i] = (a \o List)[i]
            <3> SUFFICES ASSUME NEW i \in 1 .. Len(a) + Len(List)
                         PROVE  called[i] = (a \o List)[i]
                BY <2>7
            <3>1. CASE i <= Len(a)
                BY <2>1, <2>5, <2>6, <2>7, <3>1
            <3>2. CASE ~(i <= Len(a))
                <4>1. i - Len(a) \in 1 .. Len(List) /\ Len(a) + (i - Len(a)) = i
                    BY <2>1, <2>5, <3>2
                <4> QED BY <2>6, <2>7, <3>2, <4>1
            <3> QED BY <3>1, <3>2
        <2>9. called = a \o List
            BY <2>5, <2>6, <2>7, <2>8, SeqEqual
        <2> QED BY <2>1, <2>2, <2>4, <2>9 DEF CalledSoFar
    <1> QED BY <1>2, <1>3, <1>4, <1>5

-----------------------------------------------------------------------------
(* Who is missed.                                                            *)

(* Listeners in places the loop has passed that it has not called.           *)
Missed == {cb \in Callbacks :
             /\ \E i \in 1 .. progress.next - 1 : i <= Len(List) /\ List[i] = cb
             /\ cb \notin Range(called)}

(* Places the loop has passed that the list no longer has: whoever subscribes *)
(* next gets one of them and is missed, too.                                 *)
Vacant == IF progress.next - 1 > Len(List) THEN progress.next - 1 - Len(List) ELSE 0

MissedInv ==
    progress.stage # "over" =>
        IsFiniteSet(Missed) /\ Cardinality(Missed) + Vacant <= left

LEMMA NoMore ==
    ASSUME NEW S, IsFiniteSet(S), NEW T \in SUBSET S
    PROVE  /\ IsFiniteSet(T)
           /\ Cardinality(T) <= Cardinality(S)
           /\ Cardinality(T) \in Nat /\ Cardinality(S) \in Nat
    BY FS_Subset, FS_CardinalityType

LEMMA OneMore ==
    ASSUME NEW S, IsFiniteSet(S), NEW x, NEW T \in SUBSET (S \cup {x})
    PROVE  /\ IsFiniteSet(T)
           /\ Cardinality(T) <= Cardinality(S) + 1
           /\ Cardinality(T) \in Nat /\ Cardinality(S) \in Nat
    <1>1. /\ IsFiniteSet(S \cup {x})
          /\ Cardinality(S \cup {x}) <= Cardinality(S) + 1
          /\ Cardinality(S) \in Nat
        BY FS_AddElement, FS_CardinalityType
    <1>2. /\ IsFiniteSet(T)
          /\ Cardinality(T) <= Cardinality(S \cup {x})
          /\ Cardinality(T) \in Nat /\ Cardinality(S \cup {x}) \in Nat
        BY <1>1, NoMore
    <1> QED BY <1>1, <1>2

(* During a dispatch the list is one of callbacks, and places are numbers.   *)
LEMMA DuringDispatch ==
    ASSUME SwitchInv, StoredInv, DispatchInv, progress.stage # "over"
    PROVE  /\ packet.message.kind \in KindsUsed
           /\ List \in Seq(Callbacks) /\ Len(List) \in Nat
           /\ \A i \in 1 .. Len(List) : List[i] \in Callbacks
           /\ progress.next \in Nat \ {0} /\ left \in Nat
           /\ called \in Seq(Callbacks \cup Attributes)
           /\ listener \in {"dispatching", "callback"}
    <1>1. /\ listener \in {"dispatching", "callback"}
          /\ progress.next \in Nat \ {0} /\ left \in Nat
          /\ called \in Seq(Callbacks \cup Attributes)
        BY DEF DispatchInv, SwitchInv
    <1>2. packet.message.kind \in KindsUsed
        BY <1>1 DEF StoredInv
    <1>3. List \in Seq(Callbacks)
        BY <1>2 DEF SwitchInv, List
    <1> QED BY <1>1, <1>2, <1>3, LenProperties, ElementOfSeq

(* At its first place a loop has passed nobody.                              *)
LEMMA NobodyMissedYet ==
    ASSUME SwitchInv', StoredInv', DispatchInv', progress'.next = 1
    PROVE  MissedInv'
    <1> SUFFICES ASSUME progress'.stage # "over"
                 PROVE  IsFiniteSet(Missed') /\ Cardinality(Missed') + Vacant' <= left'
        BY DEF MissedInv
    <1>1. packet'.message.kind \in KindsUsed /\ left' \in Nat
        BY DEF DispatchInv, StoredInv, SwitchInv
    <1>2. List' \in Seq(Callbacks) /\ Len(List') \in Nat
        BY <1>1, LenProperties DEF SwitchInv, List
    <1>3. Missed' = {} /\ Vacant' = 0
        BY <1>2 DEF Missed, Vacant
    <1> QED BY <1>1, <1>3, FS_EmptySet

LEMMA MissedByCall ==
    ASSUME SwitchInv, StoredInv, DispatchInv, MissedInv, CallListener
    PROVE  MissedInv'
    <1> DEFINE n == progress.next
    <1>1. /\ progress.stage = "listeners"
          /\ UNCHANGED <<left, subscribed, packet>>
        BY DEF CallListener, roster
    <1>2. SUFFICES ASSUME progress'.stage # "over"
                   PROVE  IsFiniteSet(Missed') /\ Cardinality(Missed') + Vacant' <= left'
        BY DEF MissedInv
    <1>3. /\ n <= Len(List)
          /\ progress' = [progress EXCEPT !.stage = "listeners", !.next = n + 1]
          /\ called' = Append(called, List[n])
        BY <1>2 DEF CallListener, List, DispatchInv
    <1>4. n \in Nat \ {0} /\ Len(List) \in Nat /\ left \in Nat
          /\ List[n] \in Callbacks /\ called \in Seq(Callbacks \cup Attributes)
        BY <1>1, <1>3, DuringDispatch
    <1>5. progress'.next = n + 1 /\ List' = List
        BY <1>1, <1>3 DEF DispatchInv, List
    <1>6. Range(called') = Range(called) \cup {List[n]}
        <2>1. /\ Append(called, List[n]) \in Seq(Callbacks \cup Attributes)
              /\ Len(Append(called, List[n])) = Len(called) + 1
              /\ \A i \in 1 .. Len(called) : Append(called, List[n])[i] = called[i]
              /\ Append(called, List[n])[Len(called) + 1] = List[n]
              /\ Len(called) \in Nat /\ DOMAIN called = 1 .. Len(called)
            BY <1>4, AppendProperties, LenProperties
        <2>2. DOMAIN Append(called, List[n]) = 1 .. Len(called) + 1
            BY <2>1, LenProperties
        <2> QED BY <1>3, <2>1, <2>2 DEF Range
    <1> HIDE DEF List
    <1>7. Missed' \in SUBSET Missed
        <2> SUFFICES ASSUME NEW cb \in Missed' PROVE cb \in Missed
            OBVIOUS
        <2>1. PICK i \in 1 .. n : i <= Len(List) /\ List[i] = cb
            BY <1>4, <1>5 DEF Missed
        <2>2. cb \notin Range(called) /\ cb # List[n] /\ cb \in Callbacks
            BY <1>6 DEF Missed
        <2>3. i \in 1 .. n - 1
            BY <1>4, <2>1, <2>2
        <2> QED BY <2>1, <2>2, <2>3 DEF Missed
    <1>8. Vacant = 0 /\ Vacant' = 0
        BY <1>3, <1>4, <1>5 DEF Vacant
    <1>9. IsFiniteSet(Missed) /\ Cardinality(Missed) + Vacant <= left
        BY <1>1 DEF MissedInv
    <1> QED BY <1>1, <1>4, <1>7, <1>8, <1>9, NoMore

LEMMA MissedBySubscribing ==
    ASSUME SwitchInv, StoredInv, DispatchInv, MissedInv,
           NEW t, NEW k \in KindsUsed, NEW cb \in Callbacks, Subscribe(t, k, cb)
    PROVE  MissedInv'
    <1> DEFINE n == progress.next
    <1>1. /\ UNCHANGED <<left, packet, progress, called>>
          /\ subscribed' = [subscribed EXCEPT ![k] = Append(@, cb)]
        BY DEF Subscribe, dispatch, watched
    <1>2. SUFFICES ASSUME progress.stage # "over"
                   PROVE  IsFiniteSet(Missed') /\ Cardinality(Missed') + Vacant' <= left'
        BY <1>1 DEF MissedInv
    <1>3. /\ n \in Nat \ {0} /\ left \in Nat
          /\ List \in Seq(Callbacks) /\ Len(List) \in Nat
          /\ packet.message.kind \in KindsUsed
        BY <1>2, DuringDispatch
    <1>4. IsFiniteSet(Missed) /\ Cardinality(Missed) + Vacant <= left
          /\ Cardinality(Missed) \in Nat
        BY <1>2, FS_CardinalityType DEF MissedInv
    <1>5. CASE k # packet.message.kind
        <2>1. List' = List
            BY <1>1, <1>3, <1>5 DEF SwitchInv, List
        <2> HIDE DEF List
        <2>2. Missed' = Missed /\ Vacant' = Vacant
            BY <1>1, <2>1 DEF Missed, Vacant
        <2> QED BY <1>1, <1>4, <2>2
    <1>6. CASE k = packet.message.kind
        <2>1. List' = Append(List, cb)
            BY <1>1, <1>3, <1>6 DEF SwitchInv, List
        <2>2. /\ Len(List') = Len(List) + 1
              /\ \A i \in 1 .. Len(List) : List'[i] = List[i]
              /\ List'[Len(List) + 1] = cb
            BY <1>3, <2>1, AppendProperties
        <2> HIDE DEF List
        <2>3. CASE n - 1 > Len(List)
            <3>1. Missed' \in SUBSET (Missed \cup {cb})
                <4> SUFFICES ASSUME NEW x \in Missed', x # cb PROVE x \in Missed
                    OBVIOUS
                <4>1. PICK i \in 1 .. n - 1 : i <= Len(List') /\ List'[i] = x
                    BY <1>1 DEF Missed
                <4>2. i <= Len(List) /\ List[i] = x
                    BY <1>3, <2>2, <4>1
                <4> QED BY <1>1, <4>1, <4>2 DEF Missed
            <3>2. Vacant' = Vacant - 1 /\ Vacant \in Nat
                BY <1>1, <1>3, <2>2, <2>3 DEF Vacant
            <3>3. /\ IsFiniteSet(Missed') /\ Cardinality(Missed') \in Nat
                  /\ Cardinality(Missed') <= Cardinality(Missed) + 1
                <4> HIDE DEF Missed
                <4> QED BY <1>4, <3>1, OneMore
            <3> QED BY <1>1, <1>3, <1>4, <3>2, <3>3
        <2>4. CASE ~(n - 1 > Len(List))
            <3>1. Missed' \in SUBSET Missed
                <4> SUFFICES ASSUME NEW x \in Missed' PROVE x \in Missed
                    OBVIOUS
                <4>1. PICK i \in 1 .. n - 1 : i <= Len(List') /\ List'[i] = x
                    BY <1>1 DEF Missed
                <4>2. i <= Len(List) /\ List[i] = x
                    BY <1>3, <2>2, <2>4, <4>1
                <4> QED BY <1>1, <4>1, <4>2 DEF Missed
            <3>2. Vacant' = 0 /\ Vacant = 0
                BY <1>1, <1>3, <2>2, <2>4 DEF Vacant
            <3> QED BY <1>1, <1>3, <1>4, <3>1, <3>2, NoMore
        <2> QED BY <2>3, <2>4
    <1> QED BY <1>5, <1>6

(* Who leaves a passed place moves the one at the loop's place before it, or *)
(* leaves a vacant place.                                                    *)
LEMMA MissedByUnsubscribing ==
    ASSUME SwitchInv, StoredInv, DispatchInv, MissedInv,
           NEW t, NEW k \in KindsUsed, NEW cb \in Callbacks, Unsubscribe(t, k, cb)
    PROVE  MissedInv'
    <1> DEFINE n == progress.next
    <1>1. /\ UNCHANGED <<packet, progress, called, listener>>
          /\ subscribed' = [subscribed EXCEPT ![k] = RemoveFirst(@, cb)]
          /\ left' = IF Passed(k, cb) THEN left + 1 ELSE left
          /\ cb \in Range(subscribed[k])
        BY DEF Unsubscribe, dispatch, service
    <1>2. SUFFICES ASSUME progress.stage # "over"
                   PROVE  IsFiniteSet(Missed') /\ Cardinality(Missed') + Vacant' <= left'
        BY <1>1 DEF MissedInv
    <1>3. /\ n \in Nat \ {0} /\ left \in Nat
          /\ List \in Seq(Callbacks) /\ Len(List) \in Nat
          /\ packet.message.kind \in KindsUsed
          /\ listener \in {"dispatching", "callback"}
        BY <1>2, DuringDispatch
    <1>4. IsFiniteSet(Missed) /\ Cardinality(Missed) + Vacant <= left
          /\ Cardinality(Missed) \in Nat
        BY <1>2, FS_CardinalityType DEF MissedInv
    <1>5. CASE k # packet.message.kind
        <2>1. List' = List /\ ~Passed(k, cb)
            BY <1>1, <1>3, <1>5 DEF SwitchInv, List, Passed
        <2> HIDE DEF List
        <2>2. Missed' = Missed /\ Vacant' = Vacant
            BY <1>1, <2>1 DEF Missed, Vacant
        <2> QED BY <1>1, <1>4, <2>1, <2>2
    <1>6. CASE k = packet.message.kind
        <2>1. List' = RemoveFirst(List, cb) /\ cb \in Range(List)
            BY <1>1, <1>3, <1>6 DEF SwitchInv, List
        <2>2. Passed(k, cb) <=> \E i \in 1 .. n - 1 : i <= Len(List) /\ List[i] = cb
            BY <1>3, <1>6 DEF Passed, List
        <2> HIDE DEF List
        <2>3. PICK m \in 1 .. Len(List) :
                /\ List[m] = cb
                /\ \A i \in 1 .. m - 1 : List[i] # cb
                /\ Len(List') = Len(List) - 1
                /\ \A j \in 1 .. Len(List) - 1 :
                    List'[j] = IF j < m THEN List[j] ELSE List[j + 1]
            BY <1>3, <2>1, FirstRemoved
        <2>4. Passed(k, cb) <=> m < n
            <3>1. CASE m < n
                <4>1. m \in 1 .. n - 1 /\ m <= Len(List)
                    BY <1>3, <2>3, <3>1
                <4> QED BY <2>2, <2>3, <3>1, <4>1
            <3>2. CASE ~(m < n)
                <4>1. \A i \in 1 .. n - 1 : i \in 1 .. m - 1
                    BY <1>3, <2>3, <3>2
                <4> QED BY <2>2, <2>3, <3>2, <4>1
            <3> QED BY <3>1, <3>2
        <2>5. ASSUME NEW x \in Missed'
              PROVE  x \in Missed \/ (m < n /\ n <= Len(List) /\ x = List[n])
            <3>1. PICK i \in 1 .. n - 1 : i <= Len(List') /\ List'[i] = x
                BY <1>1 DEF Missed
            <3>2. x \notin Range(called) /\ x \in Callbacks
                BY <1>1 DEF Missed
            <3>3. i \in 1 .. Len(List) - 1
                BY <1>3, <2>3, <3>1
            <3>4. CASE i < m
                <4>1. List[i] = x /\ i <= Len(List)
                    BY <1>3, <2>3, <3>1, <3>3, <3>4
                <4> QED BY <3>1, <3>2, <4>1 DEF Missed
            <3>5. CASE ~(i < m) /\ i + 1 \in 1 .. n - 1
                <4>1. List[i + 1] = x /\ i + 1 <= Len(List)
                    BY <1>3, <2>3, <3>1, <3>3, <3>5
                <4> QED BY <3>2, <3>5, <4>1 DEF Missed
            <3>6. CASE ~(i < m) /\ ~(i + 1 \in 1 .. n - 1)
                <4>1. i + 1 = n /\ n <= Len(List) /\ m < n
                    BY <1>3, <2>3, <3>1, <3>3, <3>6
                <4>2. List[n] = x
                    BY <2>3, <3>1, <3>3, <3>6, <4>1
                <4> QED BY <4>1, <4>2
            <3> QED BY <3>4, <3>5, <3>6
        <2>6. CASE m < n /\ n <= Len(List)
            <3>1. Missed' \in SUBSET (Missed \cup {List[n]})
                BY <2>5
            <3>2. /\ IsFiniteSet(Missed') /\ Cardinality(Missed') \in Nat
                  /\ Cardinality(Missed') <= Cardinality(Missed) + 1
                <4> HIDE DEF Missed
                <4> QED BY <1>4, <3>1, OneMore
            <3>3. Vacant = 0 /\ Vacant' = 0
                BY <1>1, <1>3, <2>3, <2>6 DEF Vacant
            <3> QED BY <1>1, <1>3, <1>4, <2>4, <2>6, <3>2, <3>3
        <2>7. CASE ~(m < n /\ n <= Len(List))
            <3>1. Missed' \in SUBSET Missed
                BY <2>5, <2>7
            <3>2. /\ IsFiniteSet(Missed') /\ Cardinality(Missed') \in Nat
                  /\ Cardinality(Missed') <= Cardinality(Missed)
                <4> HIDE DEF Missed
                <4> QED BY <1>4, <3>1, NoMore
            <3>3. CASE m < n
                <4>1. Vacant' = Vacant + 1 /\ Vacant \in Nat
                    BY <1>1, <1>3, <2>3, <2>7, <3>3 DEF Vacant
                <4> QED BY <1>1, <1>3, <1>4, <2>4, <3>2, <3>3, <4>1
            <3>4. CASE ~(m < n)
                <4>1. Vacant' = 0 /\ Vacant = 0
                    BY <1>1, <1>3, <2>3, <3>4 DEF Vacant
                <4> QED BY <1>1, <1>3, <1>4, <2>4, <3>2, <3>4, <4>1
            <3> QED BY <3>3, <3>4
        <2> QED BY <2>6, <2>7
    <1> QED BY <1>5, <1>6

LEMMA MissedByNoOther ==
    ASSUME MissedInv, UNCHANGED <<packet, progress, called, left, subscribed>>
    PROVE  MissedInv'
    BY DEF MissedInv, Missed, Vacant, List

LEMMA MissedStep ==
    ASSUME SwitchInv, StoredInv, DispatchInv, MissedInv, [Next]_vars,
           SwitchInv', StoredInv', DispatchInv'
    PROVE  MissedInv'
    <1>1. CASE Receiving \/ DecodeRaw
        <2>1. progress.stage = "over"
            BY <1>1 DEF Receiving, ReceiveMulti, ReceiveRaw, ReceiveUnder, Arrive,
                DecodeRaw, DispatchInv
        <2>2. \/ progress'.next = 1
              \/ UNCHANGED progress
            BY <1>1 DEF Receiving, ReceiveMulti, ReceiveRaw, ReceiveUnder, Handle,
                BeginDispatch, Ignore, NoProgress, DecodeRaw
        <2>3. CASE progress'.next = 1
            BY <2>3, NobodyMissedYet
        <2> QED BY <2>1, <2>2, <2>3 DEF MissedInv
    <1>2. CASE CallOnPacket \/ CallHook
        <2>1. progress' = [progress EXCEPT !.stage = progress'.stage]
              /\ progress.next = 1
            BY <1>2 DEF CallOnPacket, CallHook, CallIf, DispatchInv
        <2>2. progress'.next = 1
            BY <2>1 DEF DispatchInv
        <2> QED BY <2>2, NobodyMissedYet
    <1>3. CASE DispatchEnds
        BY <1>3 DEF DispatchEnds, NoProgress, MissedInv
    <1>4. CASE CallbackEnds
        BY <1>4, MissedByNoOther DEF CallbackEnds, dispatch, watched, roster
    <1>5. ASSUME NEW t \in Threads, UsedBy(t) PROVE MissedInv'
        <2>1. CASE \E e \in Endpoints : SendCommand(t, e)
            BY <2>1, MissedByNoOther DEF SendCommand, dispatch, watched, roster
        <2>2. CASE \E set \in SUBSET {Hook, OnPacket} : SetHooks(t, set)
            BY <2>2, MissedByNoOther DEF SetHooks, dispatch
        <2> QED BY <1>5, <2>1, <2>2, MissedBySubscribing, MissedByUnsubscribing
                DEF UsedBy
    <1>6. CASE \E t \in Threads : Publishing(t)
        BY <1>6, MissedByNoOther DEF Publishing, clientVars, dispatch, watched, roster
    <1>7. CASE Joined \/ UNCHANGED vars
        BY <1>7, MissedByNoOther
           DEF Joined, vars, clientVars, dispatch, watched, roster
    <1>8. CASE Start \/ StopBegin \/ ListenerEnds
        BY <1>8, MissedByNoOther
           DEF Start, StopBegin, ListenerEnds, dispatch, watched, roster
    <1>9. CASE Stopping
        BY <1>9, MissedByNoOther
           DEF Stopping, JoinEnds, JoinTimesOut, ClosePublisher, StopEnds, dispatch,
               watched, roster
    <1> QED BY <1>1, <1>2, <1>3, <1>4, <1>5, <1>6, <1>7, <1>8, <1>9, MissedByCall
            DEF Next, Dispatching

LEMMA InitialClient ==
    Init => StoredInv /\ SwitchInv /\ StoreInv /\ DispatchInv
    <1> SUFFICES ASSUME Init PROVE StoredInv /\ SwitchInv /\ StoreInv /\ DispatchInv
        OBVIOUS
    <1>1. StoredInv
        BY DEF Init, Nothing, StoredInv, StoreType
    <1>2. SwitchInv
        <2>1. subscribed \in [KindsUsed -> Seq(Callbacks)]
            <3> SUFFICES ASSUME subscribed \in [KindsUsed -> Rosters],
                                Rosters \subseteq Seq(Callbacks)
                         PROVE  subscribed \in [KindsUsed -> Seq(Callbacks)]
                BY ClientAssumption DEF Init
            <3> QED OBVIOUS
        <2>2. hooks \subseteq Attributes /\ steady \subseteq hooks
            BY DEF Init, Attributes
        <2>3. 0 \in 0 .. MaxMessages /\ 0 \in 0 .. MaxUses
            BY ClientAssumption
        <2> QED BY <2>1, <2>2, <2>3 DEF Init, SwitchInv
    <1>3. StoreInv
        BY ClientAssumption DEF Init, StoreInv, Nothing, NoPacket
    <1>4. DispatchInv
        BY DEF Init, DispatchInv, NoProgress, Stages
    <1> QED BY <1>1, <1>2, <1>3, <1>4

LEMMA ClientInvariants ==
    Spec => [](StoredInv /\ SwitchInv /\ StoreInv /\ DispatchInv /\ MissedInv)
    <1>1. StoredInv /\ SwitchInv /\ StoreInv /\ DispatchInv /\ MissedInv /\ [Next]_vars
            => (StoredInv /\ SwitchInv /\ StoreInv /\ DispatchInv /\ MissedInv)'
        BY StoredPreserved, SwitchStep, StoreStep, DispatchStep, MissedStep
    <1>2. Init => MissedInv
        BY DEF Init, NoProgress, MissedInv
    <1> QED BY <1>1, <1>2, InitialClient, PTL DEF Spec

(* Whom a dispatch does not call when its loop is over, it has missed.       *)
LEMMA OnlyMissedAreSkipped ==
    ASSUME SwitchInv, StoredInv, DispatchInv, MissedInv, [Next]_vars,
           progress.stage # "over", progress'.stage = "over"
    PROVE  Cardinality(Range(Audience) \ Range(called')) <= left
    <1>1. CallOnPacket \/ CallHook \/ CallListener
        BY OnlyCallsEnd
    <1>2. /\ List \in Seq(Callbacks) /\ Len(List) \in Nat /\ left \in Nat
          /\ \A i \in 1 .. Len(List) : List[i] \in Callbacks
          /\ progress.next \in Nat \ {0}
        BY DuringDispatch
    <1>3. CASE CallOnPacket
        <2>1. facade # "multi"
            BY <1>3 DEF CallOnPacket, CallIf, DispatchInv
        <2>2. Range(Audience) = {}
            BY <2>1, AttributeLists DEF Audience
        <2>3. Range(Audience) \ Range(called') = {}
            BY <2>2
        <2>4. Cardinality(Range(Audience) \ Range(called')) = 0
            BY <2>3, FS_EmptySet
        <2>5. 0 <= left
            BY <1>2
        <2> QED BY <2>4, <2>5
    <1>4. CASE CallHook
        BY <1>4 DEF CallHook, CallIf, DispatchInv
    <1>5. CASE CallListener
        <2>1. /\ facade = "multi" /\ Audience = List
              /\ called' = called /\ ~(progress.next <= Len(List))
            BY <1>5 DEF CallListener, DispatchInv, Audience, List
        <2>2. DOMAIN List = 1 .. Len(List)
            BY <1>2, LenProperties
        <2> HIDE DEF List
        <2>3. Range(Audience) \ Range(called') \in SUBSET Missed
            <3> SUFFICES ASSUME NEW x \in Range(List), x \notin Range(called)
                         PROVE  x \in Missed
                BY <2>1
            <3>1. PICK i \in 1 .. Len(List) : List[i] = x
                BY <2>2 DEF Range
            <3>2. i \in 1 .. progress.next - 1 /\ i <= Len(List) /\ x \in Callbacks
                BY <1>2, <2>1, <3>1
            <3> QED BY <3>1, <3>2 DEF Missed
        <2>4. /\ IsFiniteSet(Missed) /\ Cardinality(Missed) + Vacant <= left
              /\ Vacant \in Nat
            BY <1>2 DEF MissedInv, Vacant
        <2>5. /\ Cardinality(Range(Audience) \ Range(called')) <= Cardinality(Missed)
              /\ Cardinality(Range(Audience) \ Range(called')) \in Nat
              /\ Cardinality(Missed) \in Nat
            BY <2>3, <2>4, NoMore
        <2> QED BY <1>2, <2>4, <2>5
    <1> QED BY <1>1, <1>3, <1>4, <1>5

(* Whatever callbacks and the application's thread subscribe and             *)
(* unsubscribe, however they set and clear attributes and however often a    *)
(* callback is in the list: a dispatch whose loop nobody leaves behind its   *)
(* place calls the attributes that are set all the while, and then every     *)
(* listener, in the list's order; otherwise it skips no more listeners than  *)
(* have left.                                                                *)
THEOREM NoListenerIsSkipped == Spec => NobodySkipped
    <1>1. StoredInv /\ SwitchInv /\ DispatchInv /\ MissedInv /\ [Next]_vars =>
            [progress.stage # "over" /\ progress'.stage = "over" =>
                /\ left = 0 =>
                    \E attributes \in {<<>>, <<OnPacket>>, <<Hook>>, <<OnPacket, Hook>>} :
                        /\ called' = attributes \o Audience
                        /\ steady \subseteq Range(attributes)
                /\ Cardinality(Range(Audience) \ Range(called')) <= left]_vars
        BY EndOfDispatch, OnlyMissedAreSkipped DEF AttributeCalls
    <1> QED BY <1>1, ClientInvariants, PTL DEF Spec, NobodySkipped

(* The types of a client and its publisher: no store counts a packet that    *)
(* was not received.                                                         *)
THEOREM ClientTypes == Spec => []TypeOK
    <1>1. StoredInv /\ SwitchInv /\ StoreInv /\ DispatchInv => ClientTypeOK
        BY DEF StoredInv, SwitchInv, StoreInv, DispatchInv, ClientTypeOK, Stages, Attributes
    <1>2. Spec => []PublisherTypeOK
        BY ClientUsesPublisher, TypeCorrect, PTL
    <1> QED BY <1>1, <1>2, ClientInvariants, PTL DEF TypeOK

=============================================================================
