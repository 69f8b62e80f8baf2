---------------------------- MODULE ZmqPublisher ----------------------------
(***************************************************************************)
(* The sending side of the Python client (zmq_publisher.py).  A command    *)
(* goes out on one PUB socket that is created when first needed and        *)
(* created anew whenever a command is for another endpoint.  Any thread    *)
(* may send; the lock covers the reconnection only, neither the test       *)
(* before it nor the send after it, and close takes no lock at all.        *)
(*                                                                         *)
(* A PUB socket drops what it sends before the plugin's subscription has   *)
(* arrived, and reports no error.                                          *)
(***************************************************************************)
EXTENDS Naturals

CONSTANTS
    Threads,       \* threads that send commands
    Endpoints,     \* endpoints commands are sent to
    BadEndpoints,  \* those that connect refuses, a malformed host
    Nowhere        \* None, no endpoint

ASSUME PublisherAssumption ==
    /\ BadEndpoints \subseteq Endpoints
    /\ Nowhere \notin Endpoints \cup Threads

VARIABLES
    lock,        \* the thread that holds _lock, Nowhere when it is free
    context,     \* _context: none, live, or terminating
    socket,      \* _socket: its state, where it is connected, and whether
                 \* the plugin's subscription has arrived there
    connected,   \* _connected_endpoint
    pc,          \* where each thread stands
    want,        \* endpoint of the command each thread is sending
    disturbed,   \* history: threads that another one crossed
    failed       \* history: has a reconnection failed since the last one
                 \* that did not?

connection == <<lock, context, socket, connected>>
pubHistory == <<disturbed, failed>>
pubVars == <<connection, pc, want, pubHistory>>

NoSocket == [state |-> "none", to |-> Nowhere, joined |-> FALSE]
NewSocket == [state |-> "open", to |-> Nowhere, joined |-> FALSE]

PublisherTypeOK ==
    /\ lock \in Threads \cup {Nowhere}
    /\ context \in {"none", "live", "terminating"}
    /\ socket \in [state : {"none", "open", "closed"},
                   to : Endpoints \cup {Nowhere},
                   joined : BOOLEAN]
    /\ connected \in Endpoints \cup {Nowhere}
    /\ pc \in [Threads -> {"idle", "locking", "opening", "connecting",
                           "recording", "settling", "sending",
                           "forgetting", "terminating", "terminated"}]
    /\ want \in [Threads -> Endpoints \cup {Nowhere}]
    /\ disturbed \subseteq Threads
    /\ failed \in BOOLEAN

Holding == {"opening", "connecting", "recording", "settling"}
Closing == {"forgetting", "terminating", "terminated"}

Step(t, from, to) == pc[t] = from /\ pc' = [pc EXCEPT ![t] = to]

(* Threads with a command under way, other than t.                           *)
Others(t) == {u \in Threads \ {t} : pc[u] \notin {"idle"} \cup Closing}

Done(t) ==
    /\ want' = [want EXCEPT ![t] = Nowhere]
    /\ disturbed' = disturbed \ {t}

-----------------------------------------------------------------------------
(* Sending: _transmit and _ensure_connected.                                 *)

\* Variant: any open socket will do.
NeedsConnectAny(e) == socket.state = "none"

NeedsConnect(e) == socket.state = "none" \/ connected # e

(* A command for e: the test before the lock.  The history notes whether     *)
(* another thread is in the middle of changing the connection.               *)
Begin(t, e) ==
    /\ Step(t, "idle", IF NeedsConnect(e) THEN "locking" ELSE "sending")
    /\ want' = [want EXCEPT ![t] = e]
    /\ disturbed' = IF \E u \in Threads : pc[u] \in Holding \cup Closing
                    THEN disturbed \cup {t} ELSE disturbed \ {t}
    /\ UNCHANGED <<connection, failed>>

(* The lock is taken, the context created and the old socket closed.         *)
Acquire(t) ==
    /\ lock = Nowhere
    /\ Step(t, "locking", "opening")
    /\ lock' = t
    /\ context' = IF context = "none" THEN "live" ELSE context
    /\ socket' = IF socket.state = "open"
                 THEN [socket EXCEPT !.state = "closed"] ELSE socket
    /\ disturbed' = disturbed \cup Others(t)
    /\ UNCHANGED <<connected, want, failed>>

OpenSocket(t) ==
    /\ context = "live"
    /\ Step(t, "opening", "connecting")
    /\ socket' = NewSocket
    /\ UNCHANGED <<lock, context, connected, want, pubHistory>>

(* An exception under the lock: _transmit answers False.                     *)
Fail(t) ==
    /\ Done(t)
    /\ pc' = [pc EXCEPT ![t] = "idle"]
    /\ lock' = Nowhere
    /\ failed' = TRUE
    /\ UNCHANGED <<context, socket, connected>>

(* close took the context meanwhile.                                         *)
OpenFails(t) ==
    /\ pc[t] = "opening"
    /\ context # "live"
    /\ Fail(t)

Connectable(e) ==
    e \notin BadEndpoints /\ socket.state = "open" /\ context = "live"

Connect(t) ==
    /\ Connectable(want[t])
    /\ Step(t, "connecting", "recording")
    /\ socket' = [socket EXCEPT !.to = want[t]]
    /\ UNCHANGED <<lock, context, connected, want, pubHistory>>

(* The endpoint is refused, or close took the socket or the context.  The    *)
(* new socket stays, connected to nothing, under the old endpoint's name.    *)
ConnectFails(t) ==
    /\ pc[t] = "connecting"
    /\ ~Connectable(want[t])
    /\ Fail(t)

Record(t) ==
    /\ Step(t, "recording", "settling")
    /\ connected' = want[t]
    /\ failed' = FALSE
    /\ UNCHANGED <<lock, context, socket, want, disturbed>>

(* The plugin's subscription arrives.                                        *)
Join ==
    /\ socket.state = "open" /\ socket.to # Nowhere /\ ~socket.joined
    /\ socket' = [socket EXCEPT !.joined = TRUE]
    /\ UNCHANGED <<lock, context, connected, pc, want, pubHistory>>

(* A tenth of a second, taken as enough for the subscription of a plugin     *)
(* that runs.                                                                *)
Settle(t) ==
    /\ socket.joined \/ socket.state # "open"
    /\ Step(t, "settling", "sending")
    /\ lock' = Nowhere
    /\ UNCHANGED <<context, socket, connected, want, pubHistory>>

(* What _transmit answers.                                                   *)
Accepted == socket.state = "open" /\ context = "live"

Transmit(t) ==
    /\ Step(t, "sending", "idle")
    /\ Done(t)
    /\ UNCHANGED <<connection, failed>>

-----------------------------------------------------------------------------
(* close.  One thread closes at a time.                                      *)

CloseSocket(t) ==
    /\ \A u \in Threads : pc[u] \notin Closing
    /\ Step(t, "idle", "forgetting")
    /\ socket' = NoSocket
    /\ disturbed' = disturbed \cup Others(t)
    /\ UNCHANGED <<lock, context, connected, want, failed>>

CloseForget(t) ==
    /\ Step(t, "forgetting", "terminating")
    /\ connected' = Nowhere
    /\ UNCHANGED <<lock, context, socket, want, pubHistory>>

(* term waits for every socket of the context to be closed.                  *)
TermBegin(t) ==
    /\ Step(t, "terminating", IF context = "none" THEN "idle"
                                                  ELSE "terminated")
    /\ context' = IF context = "none" THEN "none" ELSE "terminating"
    /\ UNCHANGED <<lock, socket, connected, want, pubHistory>>

\* Variant: term does not wait.
TermEndsAnyway(t) ==
    /\ Step(t, "terminated", "idle")
    /\ context' = "none"
    /\ UNCHANGED <<lock, socket, connected, want, pubHistory>>

TermEnds(t) ==
    /\ socket.state # "open"
    /\ Step(t, "terminated", "idle")
    /\ context' = "none"
    /\ UNCHANGED <<lock, socket, connected, want, pubHistory>>

-----------------------------------------------------------------------------

Reconnecting(t) ==
    \/ Acquire(t)
    \/ OpenSocket(t) \/ OpenFails(t)
    \/ Connect(t) \/ ConnectFails(t)
    \/ Record(t)
    \/ Settle(t)

CloseGoesOn(t) == CloseForget(t) \/ TermBegin(t) \/ TermEnds(t)

PublisherNext ==
    \/ Join
    \/ \E t \in Threads :
        \/ \E e \in Endpoints : Begin(t, e)
        \/ Reconnecting(t)
        \/ Transmit(t)
        \/ CloseSocket(t)
        \/ CloseGoesOn(t)

PublisherInit ==
    /\ lock = Nowhere
    /\ context = "none"
    /\ socket = NoSocket
    /\ connected = Nowhere
    /\ pc = [t \in Threads |-> "idle"]
    /\ want = [t \in Threads |-> Nowhere]
    /\ disturbed = {}
    /\ failed = FALSE

PublisherSpec == PublisherInit /\ [][PublisherNext]_pubVars

-----------------------------------------------------------------------------
(* Properties.                                                               *)

(* The socket is replaced by one thread at a time: a thread between its      *)
(* acquisition and its release of the lock is the lock's only holder.        *)
OneReconnects == \A t \in Threads : pc[t] \in Holding <=> lock = t

(* No socket outlives its context, although close takes neither the lock nor *)
(* waits for a reconnection: term returns only when the socket is closed.    *)
SocketNeedsContext == socket.state = "open" => context # "none"

(* Between reconnections the endpoint on record is the one the socket is     *)
(* connected to, unless the socket is connected to nothing.                  *)
RecordMatches ==
    /\ lock = Nowhere
    /\ socket.state = "open"
    /\ {socket.to, connected} \subseteq Endpoints
    => connected = socket.to

(* A command whose sending was reported successful was sent to the endpoint  *)
(* it was for, with the plugin listening -- if no other thread changed the   *)
(* connection meanwhile and the last reconnection did not fail.              *)
SentWhereMeant ==
    [][\A t \in Threads :
            pc[t] = "sending" /\ pc'[t] = "idle" /\ Accepted
            /\ t \notin disturbed /\ ~failed
            => socket.to = want[t] /\ socket.joined]_pubVars

=============================================================================
