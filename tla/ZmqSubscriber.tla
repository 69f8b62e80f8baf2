--------------------------- MODULE ZmqSubscriber ---------------------------
(***************************************************************************)
(* The receiving side of the Python client (zmq_subscriber.py): start      *)
(* opens one SUB socket per packet type and a listener thread, stop waits  *)
(* for the thread for at most a second and closes the sockets.  The thread *)
(* calls the application back for every message.                           *)
(*                                                                         *)
(* The application calls start and stop one after the other, or stop from  *)
(* within a callback.  The listener reads the object's attributes as they  *)
(* are when it reaches them: a thread that a stop gave up waiting for may  *)
(* meet those of a later start.  Each start is a generation; it numbers    *)
(* its sockets and its thread.                                             *)
(***************************************************************************)
EXTENDS Naturals

CONSTANTS
    MaxStarts,          \* starts the model goes through
    CallbackMayRaise    \* does on_data_received let exceptions through?

ASSUME ConstantsAssumption ==
    /\ MaxStarts \in Nat \ {0}
    /\ CallbackMayRaise \in BOOLEAN

VARIABLES
    running,     \* _running
    context,     \* generation of _context, 0 for None
    sockets,     \* generation of _sockets, 0 for the empty list
    poller,      \* generation of _poller, 0 for None
    thread,      \* _thread, 0 for None
    starts,      \* generations so far
    open,        \* generations whose listed sockets are open
    stray,       \* generations with an open socket that is in no list
    pc,          \* where each listener thread stands
    list,        \* the list each thread's loop over the sockets goes through
    caller,      \* where the application stands in start or stop
    overrun,     \* history: threads whose join timed out
    selfStopped  \* history: threads whose own callback called stop

resources == <<context, sockets, poller, open, stray>>
object == <<running, thread, starts, resources>>
listeners == <<pc, list>>
history == <<overrun, selfStopped>>

vars == <<object, listeners, caller, history>>

Generations == 1 .. MaxStarts

TypeOK ==
    /\ running \in BOOLEAN
    /\ context \in 0 .. MaxStarts
    /\ sockets \in 0 .. MaxStarts
    /\ poller \in 0 .. MaxStarts
    /\ thread \in 0 .. MaxStarts
    /\ starts \in 0 .. MaxStarts
    /\ open \subseteq Generations
    /\ stray \subseteq Generations
    /\ pc \in [Generations -> {"none", "top", "polling", "reading",
                               "receiving", "callback", "dead"}]
    /\ list \in [Generations -> 0 .. MaxStarts]
    /\ caller \in {"idle", "opening", "launching", "joining", "closing",
                   "terminating", "clearing"}
    /\ caller = "joining" => thread # 0
    /\ overrun \subseteq Generations
    /\ selfStopped \subseteq Generations

Alive(t) == pc[t] \notin {"none", "dead"}

Go(t, place) == pc' = [pc EXCEPT ![t] = place]

-----------------------------------------------------------------------------
(* start.                                                                    *)

(* The flag is up before there is anything to listen to.                     *)
StartBegin ==
    /\ caller = "idle"
    /\ ~running
    /\ starts < MaxStarts
    /\ running' = TRUE
    /\ starts' = starts + 1
    /\ caller' = "opening"
    /\ UNCHANGED <<thread, resources, listeners, history>>

(* A new context, poller and list of connected sockets replace whatever the  *)
(* object held.                                                              *)
StartOpen ==
    /\ caller = "opening"
    /\ context' = starts
    /\ poller' = starts
    /\ sockets' = starts
    /\ open' = open \cup {starts}
    /\ caller' = "launching"
    /\ UNCHANGED <<running, thread, starts, stray, listeners, history>>

(* Making or connecting a socket may raise, and start with it.  The list has *)
(* the sockets that were connected before, if any.  The one whose connect    *)
(* raised is in no list: it lives as long as the frame of start, which the   *)
(* exception holds.                                                          *)
StartRaises ==
    /\ caller = "opening"
    /\ context' = starts
    /\ poller' = starts
    /\ \/ sockets' = 0 /\ UNCHANGED open
       \/ sockets' = starts /\ open' = open \cup {starts}
    /\ stray' \in {stray, stray \cup {starts}}
    /\ caller' = "idle"
    /\ UNCHANGED <<running, thread, starts, listeners, history>>

(* Whoever caught the exception of a start lets go of it, and the            *)
(* interpreter closes the socket.                                            *)
ExceptionDropped(g) ==
    /\ g \in stray
    /\ stray' = stray \ {g}
    /\ UNCHANGED <<running, context, sockets, poller, thread, starts, open,
                   listeners, caller, history>>

StartThread ==
    /\ caller = "launching"
    /\ thread' = starts
    /\ Go(starts, "top")
    /\ caller' = "idle"
    /\ UNCHANGED <<running, starts, resources, list, history>>

-----------------------------------------------------------------------------
(* stop.                                                                     *)

\* Variant: the thread is not waited for.
StopBeginNoJoin ==
    /\ caller = "idle"
    /\ running' = FALSE
    /\ caller' = "closing"
    /\ UNCHANGED <<thread, starts, resources, listeners, history>>

\* Variant: there is always a thread to wait for.
StopBeginAlwaysJoin ==
    /\ caller = "idle"
    /\ running' = FALSE
    /\ caller' = "joining"
    /\ UNCHANGED <<thread, starts, resources, listeners, history>>

\* Variant: without a live thread there is nothing to stop.
StopBeginEarly ==
    /\ caller = "idle"
    /\ running' = FALSE
    /\ caller' = IF thread # 0 /\ Alive(thread) THEN "joining" ELSE "idle"
    /\ UNCHANGED <<thread, starts, resources, listeners, history>>

StopBegin ==
    /\ caller = "idle"
    /\ running' = FALSE
    /\ caller' = IF thread # 0 /\ Alive(thread) THEN "joining" ELSE "closing"
    /\ UNCHANGED <<thread, starts, resources, listeners, history>>

JoinEnds ==
    /\ caller = "joining"
    /\ ~Alive(thread)
    /\ thread' = 0
    /\ caller' = "closing"
    /\ UNCHANGED <<running, starts, resources, listeners, history>>

\* Variant: join without a time limit.
JoinForever == caller = "joining" /\ ~Alive(thread) /\ UNCHANGED vars

(* join(timeout=1.0) gives up.  Everything else a listener does is over long *)
(* before; only a callback may take that long.                               *)
JoinTimesOut ==
    /\ caller = "joining"
    /\ pc[thread] = "callback"
    /\ overrun' = overrun \cup {thread}
    /\ thread' = 0
    /\ caller' = "closing"
    /\ UNCHANGED <<running, starts, resources, listeners, selfStopped>>

\* Variant: list and context are dropped, their sockets left to themselves.
StopCloseForgets ==
    /\ caller = "closing"
    /\ sockets' = 0
    /\ context' = 0
    /\ caller' = "clearing"
    /\ UNCHANGED <<running, poller, thread, starts, open, stray, listeners,
                   history>>

(* The sockets of the list are closed, ...                                   *)
StopClose ==
    /\ caller = "closing"
    /\ open' = open \ {sockets}
    /\ sockets' = 0
    /\ caller' = "terminating"
    /\ UNCHANGED <<running, context, poller, thread, starts, stray, listeners,
                   history>>

(* ... the context is terminated, which waits for every socket made from it, *)
(* ...                                                                       *)
StopTerm ==
    /\ caller = "terminating"
    /\ context \notin open \cup stray
    /\ context' = 0
    /\ caller' = "clearing"
    /\ UNCHANGED <<running, sockets, poller, thread, starts, open, stray,
                   listeners, history>>

(* ... and the poller is dropped.                                            *)
StopClear ==
    /\ caller = "clearing"
    /\ poller' = 0
    /\ caller' = "idle"
    /\ UNCHANGED <<running, context, sockets, thread, starts, open, stray,
                   listeners, history>>

(* stop in a callback of the very thread: join raises, "cannot join current  *)
(* thread", and nothing after it is done.                                    *)
StopInCallback(t) ==
    /\ caller = "idle"
    /\ t = thread
    /\ pc[t] = "callback"
    /\ running' = FALSE
    /\ selfStopped' = selfStopped \cup {t}
    /\ UNCHANGED <<thread, starts, resources, listeners, caller, overrun>>

-----------------------------------------------------------------------------
(* _listen_loop of thread t.                                                 *)

\* Variant: the loop of the thread does not look at the flag.
LoopUnchecked(t) ==
    /\ pc[t] = "top"
    /\ sockets # 0 /\ poller # 0
    /\ Go(t, "polling")
    /\ UNCHANGED <<object, list, caller, history>>

(* With nothing to poll it sleeps and looks again.                           *)
Loop(t) ==
    /\ pc[t] = "top"
    /\ \/ ~running /\ Go(t, "dead")
       \/ running /\ sockets # 0 /\ poller # 0 /\ Go(t, "polling")
    /\ UNCHANGED <<object, list, caller, history>>

(* What an exception does: a ZMQError sends the thread back to the loop or,  *)
(* when stopped, ends it; any other ends it.                                 *)
ZmqError(t) == Go(t, IF running THEN "top" ELSE "dead")

(* The poll, and the start of the loop over the sockets.  By now the poller  *)
(* may be gone (an AttributeError), its sockets closed, or it may be a new   *)
(* one that finds nothing to poll and with it no list to go through.         *)
Poll(t) ==
    /\ pc[t] = "polling"
    /\ \/ /\ poller = 0
          /\ Go(t, "dead")
          /\ UNCHANGED list
       \/ /\ poller # 0 /\ poller \notin open
          /\ \/ ZmqError(t)
             \/ sockets = 0 /\ Go(t, "top")
          /\ UNCHANGED list
       \/ /\ poller \in open
          /\ Go(t, IF sockets = 0 THEN "top" ELSE "reading")
          /\ list' = [list EXCEPT ![t] = sockets]
    /\ UNCHANGED <<object, caller, history>>

(* The inner loop: it ends when stopped, and returns to the poll when no     *)
(* message is left.                                                          *)
Read(t) ==
    /\ pc[t] = "reading"
    /\ \/ Go(t, "top")
       \/ running /\ Go(t, "receiving")
    /\ UNCHANGED <<object, list, caller, history>>

Receive(t) ==
    /\ pc[t] = "receiving"
    /\ \/ list[t] \in open /\ Go(t, "callback")
       \/ list[t] \notin open /\ ZmqError(t)
    /\ UNCHANGED <<object, list, caller, history>>

CallbackReturns(t) ==
    /\ pc[t] = "callback"
    /\ Go(t, "reading")
    /\ UNCHANGED <<object, list, caller, history>>

CallbackRaises(t) ==
    /\ CallbackMayRaise
    /\ pc[t] = "callback"
    /\ Go(t, "dead")
    /\ UNCHANGED <<object, list, caller, history>>

-----------------------------------------------------------------------------

Listening(t) == Loop(t) \/ Poll(t) \/ Read(t) \/ Receive(t)

StartCall ==
    \/ StartBegin
    \/ StartOpen
    \/ StartRaises
    \/ StartThread

StopCall ==
    \/ StopBegin
    \/ JoinEnds
    \/ JoinTimesOut
    \/ StopClose
    \/ StopTerm
    \/ StopClear

Next ==
    \/ StartCall
    \/ StopCall
    \/ \E t \in Generations :
        \/ Listening(t)
        \/ CallbackReturns(t)
        \/ CallbackRaises(t)
        \/ StopInCallback(t)
        \/ ExceptionDropped(t)

Init ==
    /\ running = FALSE
    /\ context = 0
    /\ sockets = 0
    /\ poller = 0
    /\ thread = 0
    /\ starts = 0
    /\ open = {}
    /\ stray = {}
    /\ pc = [t \in Generations |-> "none"]
    /\ list = [t \in Generations |-> 0]
    /\ caller = "idle"
    /\ overrun = {}
    /\ selfStopped = {}

Spec == Init /\ [][Next]_vars

(* Threads run, and a call of stop or start that began goes on.  Nothing is  *)
(* assumed of callbacks: one may never return; nor of an exception's holder. *)
Fairness ==
    /\ \A t \in Generations : WF_vars(Listening(t))
    /\ WF_vars(JoinEnds)
    /\ WF_vars(JoinTimesOut)
    /\ WF_vars(StopClose \/ StopTerm \/ StopClear)

FairSpec == Spec /\ Fairness

-----------------------------------------------------------------------------
(* Properties.                                                               *)

(* Sockets are not for two threads: a listener besides the object's own one  *)
(* is one that a stop gave up on, or whose own callback called stop.         *)
OneListener ==
    \A t \in Generations :
        Alive(t) => t = thread \/ t \in overrun \cup selfStopped

(* Once stop has returned no callback begins until the next start, although  *)
(* a thread that stop gave up on may still be about, even at its receive.    *)
(* Excepted are behaviours in which a callback called stop: that call ends   *)
(* in an exception with the thread on its way and the sockets open.          *)
QuietAfterStop ==
    [][\A t \in Generations :
            selfStopped = {} /\ pc[t] # "callback" /\ pc'[t] = "callback" =>
                running \/ caller # "idle"]_vars

(* Once stop has returned no socket is open, in the list or out of it,       *)
(* whether the thread ended, died of an exception, was given up on or was    *)
(* never started because connect raised -- again unless a callback called    *)
(* stop.                                                                     *)
SocketsReleased ==
    ~running /\ caller = "idle" /\ selfStopped = {} => open = {} /\ stray = {}

Stopping == caller \in {"joining", "closing", "terminating", "clearing"}

(* stop returns, also when a callback never does -- provided the exception   *)
(* of a start that raised is not held for ever.                              *)
StopReturns == []<>(stray = {}) => (Stopping ~> caller = "idle")

(* Threads given up on end by themselves if the subscriber stays stopped and *)
(* their callbacks return.                                                   *)
LeftoversEnd ==
    /\ <>[]~running
    /\ \A t \in Generations : []<>(pc[t] # "callback")
    => <>[](\A t \in Generations : ~Alive(t))

=============================================================================
