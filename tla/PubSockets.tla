----------------------------- MODULE PubSockets -----------------------------
(***************************************************************************)
(* The plugin's ZeroMQ sockets (main.cpp): one PUB socket per outbound     *)
(* packet type, bound on TcpBasePort + type, and one SUB socket for        *)
(* inbound commands.  Startup binds them, a hot reload that changes TcpHost *)
(* or TcpBasePort moves the PUB sockets one after the other, Shutdown      *)
(* closes them.                                                            *)
(*                                                                         *)
(* Around the plugin: other programs take and free endpoints, and          *)
(* ZeroMQ's I/O thread closes a listener some time after unbind or close   *)
(* returned; until then its endpoint cannot be bound.                      *)
(***************************************************************************)
EXTENDS Naturals, FiniteSets

CONSTANTS
    Types,       \* kOutboundPacketTypes
    Configs,     \* network settings the file may hold:
                 \*   [host, base, inHost, inPort, inOn]
    LocalHosts,  \* hosts that name an interface of this machine
    Wildcard,    \* the host that stands for every interface (0.0.0.0)
    Contested,   \* endpoints other programs may take
    PromptClose  \* is a listener closed by the time unbind or close returns?

ASSUME ConstantsAssumption ==
    /\ Types \subseteq Nat
    /\ \A c \in Configs :
            /\ DOMAIN c = {"host", "base", "inHost", "inPort", "inOn"}
            /\ c.base \in Nat
            /\ c.inPort \in Nat
            /\ c.inOn \in BOOLEAN
    /\ PromptClose \in BOOLEAN

VARIABLES
    initialized,
    config,      \* the network part of PluginConfig
    pubBound,    \* the flag the plugin keeps for each PUB socket
    at,          \* what each PUB socket is really bound to: a set of endpoints
    inboundBound,
    inAt,        \* what the inbound socket is bound to
    phase,       \* between callbacks, or within Startup or a reload
    todo,        \* packet types the loop of that phase has still to visit
    prev,        \* prevHost and prevBasePort of the reload under way
    taken,       \* endpoints held by other programs
    lingering,   \* listeners the I/O thread has not closed yet
    hindered     \* history: PUB sockets something else kept from moving since
                 \*   they were opened

vars == <<initialized, config, pubBound, at, inboundBound, inAt, phase, todo,
          prev, taken, lingering, hindered>>

-----------------------------------------------------------------------------

Endpoint(host, port) == [host |-> host, port |-> port]

(* BuildTcpEndpoint(tcpHost, tcpBasePort + packetType)                       *)
PubEndpoint(c, t) == Endpoint(c.host, c.base + t)

(* BuildTcpEndpoint(inboundTcpHost, inboundTcpPort)                          *)
InboundEndpoint(c) == Endpoint(c.inHost, c.inPort)

PubEndpoints == {PubEndpoint(c, t) : c \in Configs, t \in Types}

Endpoints == PubEndpoints \cup {InboundEndpoint(c) : c \in Configs}

(* Two listeners cannot share a port of an interface.                        *)
Clash(e, f) ==
    /\ e.port = f.port
    /\ e.host = f.host \/ Wildcard \in {e.host, f.host}

(* What zmq bind needs, given the endpoints in use.                          *)
Bindable(e, inUse) ==
    /\ e.host \in LocalHosts
    /\ \A f \in inUse : ~Clash(e, f)

(* Endpoints in use when the PUB sockets are bound to places.                *)
InUse(places) ==
    (UNION {places[t] : t \in Types}) \cup inAt \cup taken

(* The listeners of es that may outlive the call that closes them.           *)
Left(es) == IF PromptClose THEN {} ELSE es

TypeOK ==
    /\ initialized \in BOOLEAN
    /\ config \in Configs
    /\ pubBound \in [Types -> BOOLEAN]
    /\ at \in [Types -> SUBSET PubEndpoints]
    /\ inboundBound \in BOOLEAN
    /\ inAt \in SUBSET Endpoints
    /\ phase \in {"idle", "binding", "rebinding"}
    /\ todo \in SUBSET Types
    /\ prev \in Configs
    /\ taken \in SUBSET Contested
    /\ lingering \in SUBSET Endpoints
    /\ hindered \in SUBSET Types

-----------------------------------------------------------------------------
(* Startup.                                                                  *)

Startup(c) ==
    /\ phase = "idle"
    /\ ~initialized
    /\ config' = c
    /\ phase' = "binding"
    /\ todo' = Types
    /\ hindered' = {}
    /\ UNCHANGED <<initialized, pubBound, at, inboundBound, inAt, prev, taken,
                   lingering>>

(* With Enabled off in the file, Startup has read it and that is all.        *)
StartupDisabled(c) ==
    /\ phase = "idle"
    /\ ~initialized
    /\ config' = c
    /\ UNCHANGED <<initialized, pubBound, at, inboundBound, inAt, phase, todo,
                   prev, taken, lingering, hindered>>

(* The loops visit kOutboundPacketTypes in ascending order.                  *)
IsNext(t) == t \in todo /\ \A u \in todo : t <= u

\* Variant: the first type is bound one above TcpBasePort + 1.
BindPubShifted(t) ==
    /\ phase = "binding"
    /\ IsNext(t)
    /\ at' = [at EXCEPT ![t] = {Endpoint(config.host, config.base + t + 1)}]
    /\ pubBound' = [pubBound EXCEPT ![t] = TRUE]
    /\ todo' = todo \ {t}
    /\ UNCHANGED <<initialized, config, inboundBound, inAt, phase, prev,
                   taken, lingering, hindered>>

(* One round of the loop: a fresh socket, bound or not.                      *)
BindPub(t) ==
    /\ phase = "binding"
    /\ IsNext(t)
    /\ LET e == PubEndpoint(config, t)
           ok == Bindable(e, InUse(at) \cup lingering)
       IN /\ at' = [at EXCEPT ![t] = IF ok THEN {e} ELSE {}]
          /\ pubBound' = [pubBound EXCEPT ![t] = ok]
    /\ todo' = todo \ {t}
    /\ UNCHANGED <<initialized, config, inboundBound, inAt, phase, prev,
                   taken, lingering, hindered>>

(* The inbound socket, only with InboundControl; then initialized is set.    *)
BindInbound ==
    /\ phase = "binding"
    /\ todo = {}
    /\ LET e == InboundEndpoint(config)
           ok == Bindable(e, InUse(at) \cup lingering)
       IN IF config.inOn
          THEN /\ inAt' = IF ok THEN {e} ELSE {}
               /\ inboundBound' = ok
          ELSE UNCHANGED <<inAt, inboundBound>>
    /\ initialized' = TRUE
    /\ phase' = "idle"
    /\ UNCHANGED <<config, pubBound, at, todo, prev, taken, lingering, hindered>>

-----------------------------------------------------------------------------
(* Hot reload, within UpdateScoring.                                         *)

\* Variant: a move needs host and port to differ.
EndpointChangedBoth(c, d) == c.host # d.host /\ c.base # d.base

EndpointChanged(c, d) == c.host # d.host \/ c.base # d.base

(* LoadConfigFile fills config; the inbound socket stays where it is, and a  *)
(* PUB socket whose flag is off is passed over.                              *)
Reload(c) ==
    /\ phase = "idle"
    /\ initialized
    /\ config' = c
    /\ prev' = config
    /\ IF EndpointChanged(config, c)
       THEN /\ phase' = "rebinding"
            /\ todo' = {t \in Types : pubBound[t]}
       ELSE UNCHANGED <<phase, todo>>
    /\ UNCHANGED <<initialized, pubBound, at, inboundBound, inAt, taken,
                   lingering, hindered>>

\* Variant: bind(new) without unbind(old).
RebindPubOnly(t) ==
    /\ phase = "rebinding"
    /\ IsNext(t)
    /\ LET new == PubEndpoint(config, t)
       IN at' = IF Bindable(new, InUse(at) \cup lingering)
                THEN [at EXCEPT ![t] = @ \cup {new}]
                ELSE at
    /\ todo' = todo \ {t}
    /\ UNCHANGED <<initialized, config, pubBound, inboundBound, inAt, phase,
                   prev, taken, lingering, hindered>>

(* Do endpoints of a move from c to d overlap, so that a PUB socket finds    *)
(* another in its way that has not moved yet?                                *)
Crowded(c, d) ==
    \E t, u \in Types : t # u /\ Clash(PubEndpoint(d, t), PubEndpoint(c, u))

(* Is there nothing in the way of the socket but perhaps itself?             *)
Unhindered(t, open) ==
    /\ ~Crowded(prev, config)
    /\ Bindable(PubEndpoint(config, t), inAt \cup taken \cup open)

(* One round of the loop: unbind(old) and then bind(new) in one try block.   *)
(* unbind throws when the socket is not bound to old, and then bind is not   *)
(* reached; when bind throws, the socket is left bound to nothing and its    *)
(* flag as it was.  The old listener may or may not be closed by the time    *)
(* bind runs.                                                                *)
RebindPub(t) ==
    /\ phase = "rebinding"
    /\ IsNext(t)
    /\ LET old == PubEndpoint(prev, t)
           new == PubEndpoint(config, t)
           rest == [at EXCEPT ![t] = @ \ {old}]
       IN IF old \in at[t]
          THEN \E open \in {lingering, lingering \cup Left({old})} :
                 /\ at' = IF Bindable(new, InUse(rest) \cup open)
                          THEN [rest EXCEPT ![t] = @ \cup {new}]
                          ELSE rest
                 /\ lingering' = open
                 /\ hindered' = IF Unhindered(t, open) THEN hindered
                                ELSE hindered \cup {t}
          ELSE UNCHANGED <<at, lingering, hindered>>
    /\ todo' = todo \ {t}
    /\ UNCHANGED <<initialized, config, pubBound, inboundBound, inAt, phase,
                   prev, taken>>

RebindDone ==
    /\ phase = "rebinding"
    /\ todo = {}
    /\ phase' = "idle"
    /\ UNCHANGED <<initialized, config, pubBound, at, inboundBound, inAt,
                   todo, prev, taken, lingering, hindered>>

-----------------------------------------------------------------------------

\* Variant: the inbound socket is forgotten.
ShutdownPubOnly ==
    /\ phase = "idle"
    /\ initialized
    /\ at' = [t \in Types |-> IF pubBound[t] THEN {} ELSE at[t]]
    /\ lingering' = lingering \cup
                        Left(UNION {at[t] : t \in {u \in Types : pubBound[u]}})
    /\ pubBound' = [t \in Types |-> FALSE]
    /\ initialized' = FALSE
    /\ UNCHANGED <<config, inboundBound, inAt, phase, todo, prev, taken, hindered>>

(* Shutdown closes the sockets whose flag is on; the listeners linger.       *)
Shutdown ==
    /\ phase = "idle"
    /\ initialized
    /\ LET closing == {t \in Types : pubBound[t]}
           inClosing == IF inboundBound THEN inAt ELSE {}
       IN /\ at' = [t \in Types |-> IF t \in closing THEN {} ELSE at[t]]
          /\ inAt' = inAt \ inClosing
          /\ lingering' = lingering \cup
                 Left(inClosing \cup UNION {at[t] : t \in closing})
    /\ pubBound' = [t \in Types |-> FALSE]
    /\ inboundBound' = FALSE
    /\ initialized' = FALSE
    /\ UNCHANGED <<config, phase, todo, prev, taken, hindered>>

(* ZeroMQ's I/O thread closes a listener.                                    *)
ListenerClosed(e) ==
    /\ e \in lingering
    /\ lingering' = lingering \ {e}
    /\ UNCHANGED <<initialized, config, pubBound, at, inboundBound, inAt,
                   phase, todo, prev, taken, hindered>>

(* Other programs of the machine.                                            *)
OtherTakes(e) ==
    /\ e \in Contested
    /\ \A f \in InUse(at) \cup lingering : ~Clash(e, f)
    /\ taken' = taken \cup {e}
    /\ UNCHANGED <<initialized, config, pubBound, at, inboundBound, inAt,
                   phase, todo, prev, lingering, hindered>>

OtherFrees(e) ==
    /\ e \in taken
    /\ taken' = taken \ {e}
    /\ UNCHANGED <<initialized, config, pubBound, at, inboundBound, inAt,
                   phase, todo, prev, lingering, hindered>>

Environment ==
    \/ \E e \in lingering : ListenerClosed(e)
    \/ \E e \in Contested : OtherTakes(e) \/ OtherFrees(e)

Next ==
    \/ \E c \in Configs : Startup(c) \/ StartupDisabled(c) \/ Reload(c)
    \/ \E t \in Types : BindPub(t) \/ RebindPub(t)
    \/ BindInbound
    \/ RebindDone
    \/ Shutdown
    \/ Environment

Init ==
    /\ initialized = FALSE
    /\ config \in Configs
    /\ pubBound = [t \in Types |-> FALSE]
    /\ at = [t \in Types |-> {}]
    /\ inboundBound = FALSE
    /\ inAt = {}
    /\ phase = "idle"
    /\ todo = {}
    /\ prev = config
    /\ taken = {}
    /\ lingering = {}
    /\ hindered = {}

Spec == Init /\ [][Next]_vars

-----------------------------------------------------------------------------
(* Properties.                                                               *)

(* The configuration a socket answers for: during a reload, the previous one *)
(* until the loop has reached the socket.                                    *)
Governing(t) == IF phase = "rebinding" /\ t \in todo THEN prev ELSE config

(* No PUB socket is ever served on an endpoint its governing configuration   *)
(* does not name: subscribers of an old endpoint are not fed beside those of *)
(* the new one, whatever binds failed in the reloads before.                 *)
NoStaleEndpoint ==
    \A t \in Types : at[t] \subseteq {PubEndpoint(Governing(t), t)}

(* A stopped plugin holds no endpoint, although failed rebinds left sockets  *)
(* whose flag and real binding disagree.                                     *)
StoppedHoldsNothing ==
    ~initialized /\ phase = "idle" =>
        /\ \A t \in Types : at[t] = {}
        /\ inAt = {}

(* Between callbacks every PUB socket the plugin sends on is bound where the *)
(* configuration says.                                                       *)
MovesComplete ==
    initialized /\ phase = "idle" =>
        \A t \in Types : pubBound[t] => at[t] = {PubEndpoint(config, t)}

(* The same, but for sockets that could not move: something else was on the  *)
(* new endpoint, or the old and the new endpoints overlap.                   *)
MovesUnlessHindered ==
    initialized /\ phase = "idle" =>
        \A t \in Types :
            pubBound[t] /\ t \notin hindered => at[t] = {PubEndpoint(config, t)}

=============================================================================
