------------------------ MODULE ZmqSubscriber_proofs ------------------------
(***************************************************************************)
(* Proofs about ZmqSubscriber: its types, that no two listeners share the  *)
(* object, that a stopped subscriber holds no socket and that it calls     *)
(* nobody back.  They hold for any number of starts.                       *)
(***************************************************************************)
EXTENDS ZmqSubscriber, TLAPS

Starting == caller \in {"opening", "launching"}

Stopped == ~running /\ caller # "joining"

(* A start in progress has raised the flag and has its generation.           *)
StartInv == Starting => running /\ starts \in Generations

(* Past the join, and until a start has its thread, every live listener is   *)
(* one that was given up on.  Without this a start could add a thread to one *)
(* that is still the object's.                                               *)
LeftBehind ==
    Stopped \/ Starting =>
        \A t \in Generations : Alive(t) => t \in overrun \cup selfStopped

(* Open sockets are those of the object's list, and there are none past the  *)
(* close and until a start opens its own.  One that is in no list was made   *)
(* from the object's context, so there is none past the context's end.       *)
OpenInv ==
    selfStopped = {} =>
        /\ open \subseteq {sockets}
        /\ stray \subseteq {context}
        /\ ~running /\ caller = "idle" => open = {} /\ stray = {}
        /\ caller \in {"opening", "clearing"} => open = {} /\ stray = {}
        /\ caller = "terminating" => open = {}

Inv == TypeOK /\ StartInv /\ OneListener /\ LeftBehind /\ OpenInv

-----------------------------------------------------------------------------
(* What a step of a listener may do: move on, but never come to life.        *)
ListenerStep(t) ==
    /\ t \in Generations
    /\ Alive(t)
    /\ \E place \in {"top", "polling", "reading", "receiving", "callback",
                     "dead"} : Go(t, place)
    /\ list' \in [Generations -> 0 .. MaxStarts]
    /\ UNCHANGED <<object, caller, history>>

LEMMA ListenersOnlyMoveOn ==
    ASSUME TypeOK, NEW t \in Generations,
           Listening(t) \/ CallbackReturns(t) \/ CallbackRaises(t)
    PROVE  ListenerStep(t)
    <1> USE DEF TypeOK, ListenerStep, Alive
    <1>1. CASE Loop(t)
        BY <1>1 DEF Loop
    <1>2. CASE Poll(t)
        <2>1. list' \in [Generations -> 0 .. MaxStarts]
            BY <1>2 DEF Poll
        <2>2. \E place \in {"top", "reading", "dead"} : Go(t, place)
            BY <1>2 DEF Poll, ZmqError
        <2> QED BY <1>2, <2>1, <2>2 DEF Poll
    <1>3. CASE Read(t)
        BY <1>3 DEF Read
    <1>4. CASE Receive(t)
        BY <1>4 DEF Receive, ZmqError
    <1>5. CASE CallbackReturns(t)
        BY <1>5 DEF CallbackReturns
    <1>6. CASE CallbackRaises(t)
        BY <1>6 DEF CallbackRaises
    <1> QED BY <1>1, <1>2, <1>3, <1>4, <1>5, <1>6 DEF Listening

(* No step but StartThread brings a listener to life.                        *)
LEMMA NoneRevives ==
    ASSUME TypeOK, NEW t \in Generations, ListenerStep(t)
    PROVE  \A u \in Generations : Alive(u)' => Alive(u)
    BY DEF TypeOK, ListenerStep, Alive, Go

-----------------------------------------------------------------------------

LEMMA NoGeneration == 0 \in 0 .. MaxStarts
    BY ConstantsAssumption

LEMMA Initially == Init => Inv
    <1> SUFFICES ASSUME Init PROVE Inv
        OBVIOUS
    <1>1. TypeOK
        BY NoGeneration DEF Init, TypeOK
    <1>2. StartInv /\ OneListener /\ LeftBehind /\ OpenInv
        BY DEF Init, StartInv, Starting, OneListener, LeftBehind, OpenInv, Alive
    <1> QED BY <1>1, <1>2 DEF Inv

LEMMA ListenerStepKeepsInv ==
    ASSUME Inv, NEW t \in Generations, ListenerStep(t)
    PROVE  Inv'
    <1>1. \A u \in Generations : Alive(u)' => Alive(u)
        BY NoneRevives DEF Inv
    <1>2. UNCHANGED <<running, context, sockets, poller, thread, starts, open,
                      stray, caller, overrun, selfStopped>>
        BY DEF ListenerStep, object, resources, history
    <1>3. TypeOK'
        BY <1>2 DEF Inv, TypeOK, ListenerStep, Go
    <1>4. StartInv'
        BY <1>2 DEF Inv, StartInv, Starting
    <1>5. OneListener'
        BY <1>1, <1>2 DEF Inv, OneListener
    <1>6. LeftBehind'
        BY <1>1, <1>2 DEF Inv, LeftBehind, Stopped, Starting
    <1>7. OpenInv'
        BY <1>2 DEF Inv, OpenInv
    <1> QED BY <1>3, <1>4, <1>5, <1>6, <1>7 DEF Inv

LEMMA StartKeepsInv ==
    ASSUME Inv, StartCall
    PROVE  Inv'
    <1> USE DEF Inv
    <1>1. CASE StartBegin
        <2> USE <1>1 DEF StartBegin, resources, listeners, history
        <2>1. TypeOK' /\ StartInv'
            BY ConstantsAssumption DEF TypeOK, StartInv, Starting, Generations
        <2>2. OneListener'
            BY DEF OneListener, Alive
        <2>3. LeftBehind'
            BY DEF LeftBehind, Stopped, Starting, Alive
        <2>4. OpenInv'
            BY DEF OpenInv
        <2> QED BY <2>1, <2>2, <2>3, <2>4
    <1>2. CASE StartOpen \/ StartRaises
        <2> USE <1>2 DEF StartOpen, StartRaises, listeners, history
        <2>0. starts \in Generations /\ running
            BY DEF StartInv, Starting
        <2>1. TypeOK'
            BY <2>0, NoGeneration DEF TypeOK, Generations
        <2>2. StartInv'
            BY <2>0 DEF StartInv, Starting
        <2>3. OneListener'
            BY DEF OneListener, Alive
        <2>4. LeftBehind'
            BY <2>0 DEF LeftBehind, Stopped, Starting, Alive
        <2>5. OpenInv'
            BY <2>0 DEF OpenInv
        <2> QED BY <2>1, <2>2, <2>3, <2>4, <2>5
    <1>3. CASE StartThread
        <2> USE <1>3 DEF StartThread, resources, history
        <2>0. starts \in Generations /\ running
            BY DEF StartInv, Starting
        <2>1. TypeOK'
            BY <2>0 DEF TypeOK, Go, Generations
        <2>2. StartInv' /\ LeftBehind'
            BY <2>0 DEF StartInv, LeftBehind, Stopped, Starting
        <2>3. \A t \in Generations : Alive(t)' => t = starts \/ Alive(t)
            BY <2>0 DEF TypeOK, Alive, Go
        <2>4. \A t \in Generations : Alive(t) => t \in overrun \cup selfStopped
            BY DEF LeftBehind, Starting
        <2>5. OneListener'
            BY <2>3, <2>4 DEF OneListener
        <2>6. OpenInv'
            BY <2>0 DEF OpenInv
        <2> QED BY <2>1, <2>2, <2>5, <2>6
    <1> QED BY <1>1, <1>2, <1>3 DEF StartCall

LEMMA StopKeepsInv ==
    ASSUME Inv, StopCall
    PROVE  Inv'
    <1> USE DEF Inv
    <1>1. CASE StopBegin
        <2> USE <1>1 DEF StopBegin, resources, listeners, history
        <2>1. TypeOK'
            BY DEF TypeOK
        <2>2. StartInv'
            BY DEF StartInv, Starting
        <2>3. OneListener'
            BY DEF OneListener, Alive
        <2>4. LeftBehind'
            BY DEF LeftBehind, OneListener, Stopped, Starting, Alive, Generations
        <2>5. OpenInv'
            BY DEF OpenInv
        <2> QED BY <2>1, <2>2, <2>3, <2>4, <2>5
    <1>2. CASE JoinEnds
        <2> USE <1>2 DEF JoinEnds, resources, listeners, history
        <2>1. TypeOK'
            BY NoGeneration DEF TypeOK
        <2>2. StartInv'
            BY DEF StartInv, Starting
        <2>3. \A t \in Generations : Alive(t) => t \in overrun \cup selfStopped
            BY DEF OneListener
        <2>4. OneListener' /\ LeftBehind'
            BY <2>3 DEF OneListener, LeftBehind, Alive
        <2>5. OpenInv'
            BY DEF OpenInv
        <2> QED BY <2>1, <2>2, <2>4, <2>5
    <1>3. CASE JoinTimesOut
        <2> USE <1>3 DEF JoinTimesOut, resources, listeners
        <2>1. TypeOK'
            BY NoGeneration DEF TypeOK, Generations
        <2>2. StartInv'
            BY DEF StartInv, Starting
        <2>3. \A t \in Generations : Alive(t) => t \in overrun' \cup selfStopped
            BY DEF OneListener
        <2>4. OneListener' /\ LeftBehind'
            BY <2>3 DEF OneListener, LeftBehind, Alive
        <2>5. OpenInv'
            BY DEF OpenInv
        <2> QED BY <2>1, <2>2, <2>4, <2>5
    <1>4. CASE StopClose
        <2> USE <1>4 DEF StopClose, listeners, history
        <2>1. TypeOK'
            BY NoGeneration DEF TypeOK
        <2>2. StartInv'
            BY DEF StartInv, Starting
        <2>3. OneListener'
            BY DEF OneListener, Alive
        <2>4. LeftBehind'
            BY DEF LeftBehind, Stopped, Starting, Alive
        <2>5. OpenInv'
            BY DEF OpenInv
        <2> QED BY <2>1, <2>2, <2>3, <2>4, <2>5
    <1>5. CASE StopTerm
        <2> USE <1>5 DEF StopTerm, listeners, history
        <2>1. TypeOK'
            BY NoGeneration DEF TypeOK
        <2>2. StartInv'
            BY DEF StartInv, Starting
        <2>3. OneListener'
            BY DEF OneListener, Alive
        <2>4. LeftBehind'
            BY DEF LeftBehind, Stopped, Starting, Alive
        <2>5. OpenInv'
            BY DEF OpenInv
        <2> QED BY <2>1, <2>2, <2>3, <2>4, <2>5
    <1>6. CASE StopClear
        <2> USE <1>6 DEF StopClear, listeners, history
        <2>1. TypeOK'
            BY NoGeneration DEF TypeOK
        <2>2. StartInv'
            BY DEF StartInv, Starting
        <2>3. OneListener'
            BY DEF OneListener, Alive
        <2>4. LeftBehind'
            BY DEF LeftBehind, Stopped, Starting, Alive
        <2>5. OpenInv'
            BY DEF OpenInv
        <2> QED BY <2>1, <2>2, <2>3, <2>4, <2>5
    <1> QED BY <1>1, <1>2, <1>3, <1>4, <1>5, <1>6 DEF StopCall

LEMMA ExceptionDroppedKeepsInv ==
    ASSUME Inv, NEW g \in Generations, ExceptionDropped(g)
    PROVE  Inv'
    <1> USE DEF Inv, ExceptionDropped, listeners, history
    <1>1. TypeOK' /\ StartInv'
        BY DEF TypeOK, StartInv, Starting
    <1>2. OneListener' /\ LeftBehind'
        BY DEF OneListener, LeftBehind, Stopped, Starting, Alive
    <1>3. OpenInv'
        BY DEF OpenInv
    <1> QED BY <1>1, <1>2, <1>3

LEMMA StopInCallbackKeepsInv ==
    ASSUME Inv, NEW t \in Generations, StopInCallback(t)
    PROVE  Inv'
    <1> USE DEF Inv, StopInCallback, resources, listeners
    <1>1. TypeOK' /\ StartInv'
        BY DEF TypeOK, StartInv, Starting
    <1>2. OneListener' /\ LeftBehind'
        BY DEF OneListener, LeftBehind, Alive
    <1>3. OpenInv'
        BY DEF OpenInv
    <1> QED BY <1>1, <1>2, <1>3

LEMMA InvIsInductive == Inv /\ [Next]_vars => Inv'
    <1> SUFFICES ASSUME Inv, [Next]_vars PROVE Inv'
        OBVIOUS
    <1>1. CASE StartCall
        BY <1>1, StartKeepsInv
    <1>2. CASE StopCall
        BY <1>2, StopKeepsInv
    <1>3. ASSUME NEW t \in Generations,
                 Listening(t) \/ CallbackReturns(t) \/ CallbackRaises(t)
          PROVE  Inv'
        BY <1>3, ListenersOnlyMoveOn, ListenerStepKeepsInv DEF Inv
    <1>4. ASSUME NEW t \in Generations, StopInCallback(t)
          PROVE  Inv'
        BY <1>4, StopInCallbackKeepsInv
    <1>5. ASSUME NEW g \in Generations, ExceptionDropped(g)
          PROVE  Inv'
        BY <1>5, ExceptionDroppedKeepsInv
    <1>6. CASE UNCHANGED vars
        BY <1>6 DEF vars, object, resources, listeners, history, Inv, TypeOK,
            StartInv, Starting, OneListener, LeftBehind, Stopped, OpenInv, Alive
    <1> QED BY <1>1, <1>2, <1>3, <1>4, <1>5, <1>6 DEF Next

-----------------------------------------------------------------------------

(* The subscriber keeps its types, however its threads and callers are       *)
(* interleaved.                                                              *)
THEOREM SubscriberTypes == Spec => []TypeOK
    <1>1. Inv => TypeOK
        BY DEF Inv
    <1> QED BY <1>1, Initially, InvIsInductive, PTL DEF Spec

(* A listener besides the object's own is one that a stop gave up on or      *)
(* whose own callback called stop: start adds none to a live one.            *)
THEOREM ListenersDoNotPileUp == Spec => []OneListener
    <1>1. Inv => OneListener
        BY DEF Inv
    <1> QED BY <1>1, Initially, InvIsInductive, PTL DEF Spec

(* However its thread ended, and also if start raised before there was one,  *)
(* no socket of a stopped subscriber is open: not the listed ones, nor the   *)
(* one whose connect raised, for term has waited for that.                   *)
THEOREM StopReleasesSockets == Spec => []SocketsReleased
    <1>1. Inv => SocketsReleased
        BY DEF Inv, OpenInv, SocketsReleased
    <1> QED BY <1>1, Initially, InvIsInductive, PTL DEF Spec

(* The only way into a callback is a message from an open socket.            *)
LEMMA CallbacksNeedSockets ==
    ASSUME TypeOK, [Next]_vars, NEW t \in Generations,
           pc[t] # "callback", pc'[t] = "callback"
    PROVE  open # {}
    <1>1. CASE StartCall
        BY <1>1 DEF StartCall, StartBegin, StartOpen, StartRaises, StartThread,
            Go, TypeOK, listeners
    <1>2. CASE StopCall
        BY <1>2 DEF StopCall, StopBegin, JoinEnds, JoinTimesOut, StopClose,
            StopTerm, StopClear, listeners
    <1>3. ASSUME NEW u \in Generations,
                 Loop(u) \/ Poll(u) \/ Read(u) \/ CallbackReturns(u)
                     \/ CallbackRaises(u) \/ StopInCallback(u)
          PROVE  FALSE
        <2>1. CASE StopInCallback(u)
            BY <2>1 DEF StopInCallback, listeners
        <2>2. CASE ~StopInCallback(u)
            <3>1. \E place \in {"top", "polling", "reading", "receiving",
                                "dead"} : Go(u, place)
                BY <1>3, <2>2 DEF Loop, Poll, Read, CallbackReturns,
                    CallbackRaises, ZmqError
            <3> QED BY <3>1 DEF Go, TypeOK
        <2> QED BY <2>1, <2>2
    <1>4. ASSUME NEW u \in Generations, Receive(u)
          PROVE  open # {}
        BY <1>4 DEF Receive, ZmqError, Go, TypeOK
    <1>5. CASE UNCHANGED vars \/ \E g \in Generations : ExceptionDropped(g)
        BY <1>5 DEF vars, listeners, ExceptionDropped
    <1> QED BY <1>1, <1>2, <1>3, <1>4, <1>5 DEF Next, Listening

(* Between a stop and the next start nobody is called back, for the sockets  *)
(* are closed by then, whatever threads are left.                            *)
THEOREM NoCallbackOnceStopped == Spec => QuietAfterStop
    <1>1. Inv /\ [Next]_vars =>
            [\A t \in Generations :
                selfStopped = {} /\ pc[t] # "callback" /\ pc'[t] = "callback"
                    => running \/ caller # "idle"]_vars
        BY CallbacksNeedSockets DEF Inv, OpenInv
    <1> QED BY <1>1, Initially, InvIsInductive, PTL DEF Spec, QuietAfterStop

=============================================================================
