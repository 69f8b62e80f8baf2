------------------------- MODULE PubSockets_proofs --------------------------
(***************************************************************************)
(* Proofs about PubSockets, for every set of packet types, configurations  *)
(* and contested endpoints, and for prompt and late closing of listeners.  *)
(*                                                                         *)
(* NoStaleEndpoint needs to know that a socket a reload passes over (its   *)
(* flag is off) is bound to nothing: FlagInv.  That a flag is off only     *)
(* for unbound sockets holds although a failed rebind leaves the flag on.  *)
(***************************************************************************)
EXTENDS PubSockets, TLAPS

(* The flags err on one side only: what is bound is flagged.                 *)
FlagInv ==
    /\ \A t \in Types : at[t] # {} => pubBound[t]
    /\ inAt # {} => inboundBound

(* Where the plugin stands in its life cycle, and what is bound by then.     *)
PhaseInv ==
    /\ phase = "binding" => /\ ~initialized
                            /\ \A t \in todo : at[t] = {}
                            /\ inAt = {}
    /\ phase = "rebinding" => initialized

IInv == TypeOK /\ FlagInv /\ PhaseInv /\ NoStaleEndpoint /\ StoppedHoldsNothing

-----------------------------------------------------------------------------

LEMMA PubEndpointType ==
    ASSUME NEW c \in Configs, NEW t \in Types
    PROVE  PubEndpoint(c, t) \in PubEndpoints /\ PubEndpoint(c, t) \in Endpoints
  BY DEF PubEndpoints, Endpoints

LEMMA InboundEndpointType ==
    ASSUME NEW c \in Configs
    PROVE  InboundEndpoint(c) \in Endpoints
  BY DEF Endpoints

(* Configurations that agree on host and base name the same endpoints.       *)
LEMMA SameEndpoint ==
    ASSUME NEW c, NEW d, ~EndpointChanged(c, d), NEW t
    PROVE  PubEndpoint(c, t) = PubEndpoint(d, t)
  BY DEF EndpointChanged, PubEndpoint

(* What one round of the rebinding loop does to the sockets.                 *)
LEMMA RebindEffect ==
    ASSUME TypeOK, NEW t \in Types, RebindPub(t)
    PROVE  /\ at' \in [Types -> SUBSET PubEndpoints]
           /\ at'[t] \subseteq (at[t] \ {PubEndpoint(prev, t)})
                                  \cup {PubEndpoint(config, t)}
           /\ at[t] = {} => at'[t] = {}
           /\ \A u \in Types \ {t} : at'[u] = at[u]
           /\ lingering' \subseteq lingering \cup {PubEndpoint(prev, t)}
<1> DEFINE old == PubEndpoint(prev, t)
           new == PubEndpoint(config, t)
           rest == [at EXCEPT ![t] = @ \ {old}]
<1>1. new \in PubEndpoints
  BY PubEndpointType DEF TypeOK
<1>2. CASE old \in at[t]
  <2>1. at' \in {[rest EXCEPT ![t] = @ \cup {new}], rest}
    BY <1>2 DEF RebindPub
  <2>2. lingering' \subseteq lingering \cup {old}
    BY <1>2 DEF RebindPub, Left
  <2>. QED  BY <1>1, <1>2, <2>1, <2>2 DEF TypeOK
<1>3. CASE old \notin at[t]
  <2>1. at' = at /\ lingering' = lingering
    BY <1>3 DEF RebindPub
  <2>. QED  BY <1>3, <2>1 DEF TypeOK
<1>. QED  BY <1>2, <1>3

-----------------------------------------------------------------------------

LEMMA InvInit == Init => IInv
<1> SUFFICES ASSUME Init PROVE IInv
  OBVIOUS
<1>1. TypeOK
  BY DEF Init, TypeOK
<1>2. FlagInv /\ PhaseInv
  BY DEF Init, FlagInv, PhaseInv
<1>3. NoStaleEndpoint /\ StoppedHoldsNothing
  BY DEF Init, NoStaleEndpoint, StoppedHoldsNothing
<1>. QED  BY <1>1, <1>2, <1>3 DEF IInv

LEMMA TypeNext == TypeOK /\ [Next]_vars => TypeOK'
<1> SUFFICES ASSUME TypeOK, [Next]_vars PROVE TypeOK'
  OBVIOUS
<1> USE DEF TypeOK
<1>1. ASSUME NEW c \in Configs, Startup(c) \/ StartupDisabled(c)
      PROVE TypeOK'
  BY <1>1 DEF Startup, StartupDisabled
<1>2. ASSUME NEW c \in Configs, Reload(c) PROVE TypeOK'
  BY <1>2 DEF Reload
<1>3. ASSUME NEW t \in Types, BindPub(t) PROVE TypeOK'
  <2>1. PubEndpoint(config, t) \in PubEndpoints
    BY PubEndpointType
  <2>2. Bindable(PubEndpoint(config, t), InUse(at) \cup lingering) \in BOOLEAN
    BY DEF Bindable
  <2>. QED  BY <1>3, <2>1, <2>2 DEF BindPub
<1>4. ASSUME NEW t \in Types, RebindPub(t) PROVE TypeOK'
  <2>1. lingering' \in SUBSET Endpoints
    BY <1>4, RebindEffect, PubEndpointType
  <2>. QED  BY <1>4, <2>1, RebindEffect DEF RebindPub
<1>5. CASE BindInbound
  <2>1. InboundEndpoint(config) \in Endpoints
    BY InboundEndpointType
  <2>2. Bindable(InboundEndpoint(config), InUse(at) \cup lingering) \in BOOLEAN
    BY DEF Bindable
  <2>. QED  BY <1>5, <2>1, <2>2 DEF BindInbound
<1>6. CASE RebindDone
  BY <1>6 DEF RebindDone
<1>7. CASE Shutdown
  <2>1. \A t \in Types : at[t] \subseteq Endpoints
    BY DEF Endpoints
  <2>2. lingering' \subseteq Endpoints
    BY <1>7, <2>1 DEF Shutdown, Left
  <2>. QED  BY <1>7, <2>2 DEF Shutdown
<1>8. CASE Environment
  BY <1>8 DEF Environment, ListenerClosed, OtherTakes, OtherFrees
<1>9. CASE UNCHANGED vars
  BY <1>9 DEF vars
<1>. QED
  BY <1>1, <1>2, <1>3, <1>4, <1>5, <1>6, <1>7, <1>8, <1>9 DEF Next

LEMMA FlagNext == TypeOK /\ FlagInv /\ PhaseInv /\ [Next]_vars => FlagInv'
<1> SUFFICES ASSUME TypeOK, FlagInv, PhaseInv, [Next]_vars PROVE FlagInv'
  OBVIOUS
<1> USE DEF FlagInv
<1>1. ASSUME NEW c \in Configs, Startup(c) \/ StartupDisabled(c) \/ Reload(c) PROVE FlagInv'
  BY <1>1 DEF Startup, StartupDisabled, Reload
<1>2. ASSUME NEW t \in Types, BindPub(t) PROVE FlagInv'
  BY <1>2 DEF BindPub, TypeOK
<1>3. ASSUME NEW t \in Types, RebindPub(t) PROVE FlagInv'
  BY <1>3, RebindEffect DEF RebindPub
<1>4. CASE BindInbound
  BY <1>4 DEF BindInbound
<1>5. CASE RebindDone
  BY <1>5 DEF RebindDone
<1>6. CASE Shutdown
  BY <1>6 DEF Shutdown
<1>7. CASE Environment
  BY <1>7 DEF Environment, ListenerClosed, OtherTakes, OtherFrees
<1>8. CASE UNCHANGED vars
  BY <1>8 DEF vars
<1>. QED
  BY <1>1, <1>2, <1>3, <1>4, <1>5, <1>6, <1>7, <1>8 DEF Next

LEMMA PhaseNext ==
    TypeOK /\ StoppedHoldsNothing /\ PhaseInv /\ [Next]_vars => PhaseInv'
<1> SUFFICES ASSUME TypeOK, StoppedHoldsNothing, PhaseInv, [Next]_vars
             PROVE  PhaseInv'
  OBVIOUS
<1> USE DEF PhaseInv
<1>1. ASSUME NEW c \in Configs, Startup(c) \/ StartupDisabled(c)
      PROVE PhaseInv'
  BY <1>1 DEF Startup, StartupDisabled, StoppedHoldsNothing
<1>2. ASSUME NEW c \in Configs, Reload(c) PROVE PhaseInv'
  BY <1>2 DEF Reload
<1>3. ASSUME NEW t \in Types, BindPub(t) PROVE PhaseInv'
  BY <1>3 DEF BindPub, TypeOK
<1>4. ASSUME NEW t \in Types, RebindPub(t) PROVE PhaseInv'
  BY <1>4 DEF RebindPub
<1>5. CASE BindInbound \/ RebindDone \/ Shutdown
  BY <1>5 DEF BindInbound, RebindDone, Shutdown
<1>6. CASE Environment
  BY <1>6 DEF Environment, ListenerClosed, OtherTakes, OtherFrees
<1>7. CASE UNCHANGED vars
  BY <1>7 DEF vars
<1>. QED
  BY <1>1, <1>2, <1>3, <1>4, <1>5, <1>6, <1>7 DEF Next

LEMMA StaleNext == IInv /\ [Next]_vars => NoStaleEndpoint'
<1> SUFFICES ASSUME TypeOK, FlagInv, PhaseInv, NoStaleEndpoint,
                    StoppedHoldsNothing, [Next]_vars,
                    NEW s \in Types
             PROVE  at'[s] \subseteq {PubEndpoint(Governing(s)', s)}
  BY DEF IInv, NoStaleEndpoint, Governing, PubEndpoint, Endpoint
<1>0. at[s] \subseteq {PubEndpoint(Governing(s), s)}
  BY DEF NoStaleEndpoint
<1>1. ASSUME NEW c \in Configs, Startup(c) \/ StartupDisabled(c)
      PROVE  at'[s] \subseteq {PubEndpoint(Governing(s)', s)}
  BY <1>1 DEF Startup, StartupDisabled, StoppedHoldsNothing
<1>2. ASSUME NEW c \in Configs, Reload(c)
      PROVE  at'[s] \subseteq {PubEndpoint(Governing(s)', s)}
  <2>1. at' = at /\ at[s] \subseteq {PubEndpoint(config, s)}
    BY <1>0, <1>2 DEF Reload, Governing
  <2>2. CASE EndpointChanged(config, c)
    \* A socket the loop will visit is governed by prev; one it passes over
    \* has its flag off, so it is bound to nothing.
    <3>1. CASE pubBound[s]
      BY <1>2, <2>1, <2>2, <3>1 DEF Reload, Governing
    <3>2. CASE ~pubBound[s]
      BY <2>1, <3>2 DEF FlagInv
    <3>. QED  BY <3>1, <3>2
  <2>3. CASE ~EndpointChanged(config, c)
    BY <1>2, <2>1, <2>3, SameEndpoint DEF Reload, Governing
  <2>. QED  BY <2>2, <2>3
<1>3. ASSUME NEW t \in Types, BindPub(t)
      PROVE  at'[s] \subseteq {PubEndpoint(Governing(s)', s)}
  BY <1>0, <1>3 DEF BindPub, Governing, TypeOK
<1>4. ASSUME NEW t \in Types, RebindPub(t)
      PROVE  at'[s] \subseteq {PubEndpoint(Governing(s)', s)}
  <2>1. /\ phase = "rebinding" /\ phase' = phase
        /\ config' = config /\ prev' = prev
        /\ t \in todo /\ todo' = todo \ {t}
    BY <1>4 DEF RebindPub, IsNext
  <2>2. CASE s = t
    BY <1>0, <1>4, <2>1, <2>2, RebindEffect DEF Governing
  <2>3. CASE s # t
    BY <1>0, <1>4, <2>1, <2>3, RebindEffect DEF Governing
  <2>. QED  BY <2>2, <2>3
<1>5. CASE BindInbound
  BY <1>0, <1>5 DEF BindInbound, Governing
<1>6. CASE RebindDone
  BY <1>0, <1>6 DEF RebindDone, Governing
<1>7. CASE Shutdown
  BY <1>7 DEF Shutdown, FlagInv
<1>8. CASE Environment
  BY <1>0, <1>8
  DEF Environment, ListenerClosed, OtherTakes, OtherFrees, Governing
<1>9. CASE UNCHANGED vars
  BY <1>0, <1>9 DEF vars, Governing
<1>. QED
  BY <1>1, <1>2, <1>3, <1>4, <1>5, <1>6, <1>7, <1>8, <1>9 DEF Next

LEMMA StoppedNext == IInv /\ [Next]_vars => StoppedHoldsNothing'
<1> SUFFICES ASSUME TypeOK, FlagInv, PhaseInv, StoppedHoldsNothing,
                    [Next]_vars
             PROVE  StoppedHoldsNothing'
  BY DEF IInv
<1> USE DEF StoppedHoldsNothing
<1>1. ASSUME NEW c \in Configs, Startup(c) \/ StartupDisabled(c) \/ Reload(c)
      PROVE  StoppedHoldsNothing'
  BY <1>1 DEF Startup, StartupDisabled, Reload
<1>2. ASSUME NEW t \in Types, BindPub(t) \/ RebindPub(t)
      PROVE  StoppedHoldsNothing'
  BY <1>2 DEF BindPub, RebindPub
<1>3. CASE BindInbound \/ RebindDone
  BY <1>3 DEF BindInbound, RebindDone, PhaseInv
<1>4. CASE Shutdown
  BY <1>4 DEF Shutdown, FlagInv
<1>5. CASE Environment
  BY <1>5 DEF Environment, ListenerClosed, OtherTakes, OtherFrees
<1>6. CASE UNCHANGED vars
  BY <1>6 DEF vars
<1>. QED
  BY <1>1, <1>2, <1>3, <1>4, <1>5, <1>6 DEF Next

LEMMA InvNext == IInv /\ [Next]_vars => IInv'
  BY TypeNext, FlagNext, PhaseNext, StaleNext, StoppedNext DEF IInv

LEMMA Invariance == Spec => []IInv
  BY InvInit, InvNext, PTL DEF Spec

-----------------------------------------------------------------------------
(* Moves.                                                                    *)

(* What is flagged and was never hindered is bound where its governing       *)
(* configuration says, also in the middle of a reload.                       *)
Standing ==
    \A t \in Types :
        pubBound[t] /\ t \notin hindered => at[t] = {PubEndpoint(Governing(t), t)}

(* No flag is on before its socket has been bound.                           *)
Unflagged ==
    /\ ~initialized /\ phase = "idle" => \A t \in Types : ~pubBound[t]
    /\ phase = "binding" => \A t \in todo : ~pubBound[t]

MoveInv == Standing /\ Unflagged

(* An unhindered socket finds its new endpoint free: the others are bound to *)
(* old endpoints, which the move does not overlap, or to new ones, which     *)
(* have other ports.                                                         *)
LEMMA NewEndpointIsFree ==
    ASSUME IInv, NEW t \in Types, phase = "rebinding", NEW open,
           at[t] = {PubEndpoint(prev, t)}, Unhindered(t, open)
    PROVE  Bindable(PubEndpoint(config, t),
                    InUse([at EXCEPT ![t] = @ \ {PubEndpoint(prev, t)}]) \cup open)
<1> DEFINE new == PubEndpoint(config, t)
           rest == [at EXCEPT ![t] = @ \ {PubEndpoint(prev, t)}]
<1>1. new.host \in LocalHosts /\ \A f \in inAt \cup taken \cup open : ~Clash(new, f)
  BY DEF Unhindered, Bindable
<1>2. ASSUME NEW u \in Types, NEW f \in rest[u] PROVE ~Clash(new, f)
  <2>1. u # t /\ f \in at[u]
    BY <1>2 DEF IInv, TypeOK
  <2>2. f \in {PubEndpoint(prev, u), PubEndpoint(config, u)}
    BY <2>1 DEF IInv, NoStaleEndpoint, Governing
  <2>3. CASE f = PubEndpoint(prev, u)
    BY <2>1, <2>3 DEF Unhindered, Crowded
  <2>4. CASE f = PubEndpoint(config, u)
    <3>1. new.port = config.base + t /\ f.port = config.base + u
      BY <2>4 DEF PubEndpoint, Endpoint
    <3>2. config.base \in Nat /\ t \in Nat /\ u \in Nat
      BY ConstantsAssumption DEF IInv, TypeOK
    <3>. QED  BY <2>1, <3>1, <3>2 DEF Clash
  <2>. QED  BY <2>2, <2>3, <2>4
<1>3. ASSUME NEW f \in InUse(rest) \cup open PROVE ~Clash(new, f)
  <2>1. \/ \E u \in Types : f \in rest[u]
        \/ f \in inAt \cup taken \cup open
    BY <1>3 DEF InUse
  <2>. QED  BY <1>1, <1>2, <2>1
<1>. QED  BY <1>1, <1>3 DEF Bindable

LEMMA UnflaggedNext ==
    TypeOK /\ PhaseInv /\ Unflagged /\ [Next]_vars => Unflagged'
<1> SUFFICES ASSUME TypeOK, PhaseInv, Unflagged, [Next]_vars PROVE Unflagged'
  OBVIOUS
<1> USE DEF Unflagged
<1>1. ASSUME NEW c \in Configs, Startup(c) \/ StartupDisabled(c) \/ Reload(c)
      PROVE  Unflagged'
  BY <1>1 DEF Startup, StartupDisabled, Reload
<1>2. ASSUME NEW t \in Types, BindPub(t) PROVE Unflagged'
  BY <1>2 DEF BindPub, TypeOK
<1>3. ASSUME NEW t \in Types, RebindPub(t) PROVE Unflagged'
  BY <1>3 DEF RebindPub
<1>4. CASE BindInbound
  BY <1>4 DEF BindInbound
<1>5. CASE RebindDone
  BY <1>5 DEF RebindDone, PhaseInv
<1>6. CASE Shutdown
  BY <1>6 DEF Shutdown
<1>7. CASE Environment
  BY <1>7 DEF Environment, ListenerClosed, OtherTakes, OtherFrees
<1>8. CASE UNCHANGED vars
  BY <1>8 DEF vars
<1>. QED
  BY <1>1, <1>2, <1>3, <1>4, <1>5, <1>6, <1>7, <1>8 DEF Next

LEMMA StandingNext == IInv /\ MoveInv /\ [Next]_vars => Standing'
<1> SUFFICES ASSUME IInv, MoveInv, [Next]_vars,
                    NEW s \in Types, pubBound'[s], s \notin hindered'
             PROVE  at'[s] = {PubEndpoint(Governing(s)', s)}
  BY DEF Standing, Governing, PubEndpoint, Endpoint
<1>0. pubBound[s] /\ s \notin hindered => at[s] = {PubEndpoint(Governing(s), s)}
  BY DEF MoveInv, Standing
<1>1. ASSUME NEW c \in Configs, Startup(c) \/ StartupDisabled(c)
      PROVE  at'[s] = {PubEndpoint(Governing(s)', s)}
  BY <1>1 DEF Startup, StartupDisabled, MoveInv, Unflagged
<1>2. ASSUME NEW c \in Configs, Reload(c)
      PROVE  at'[s] = {PubEndpoint(Governing(s)', s)}
  <2>1. at' = at /\ at[s] = {PubEndpoint(config, s)} /\ pubBound[s]
    BY <1>0, <1>2 DEF Reload, Governing
  <2>2. CASE EndpointChanged(config, c)
    BY <1>2, <2>1, <2>2 DEF Reload, Governing
  <2>3. CASE ~EndpointChanged(config, c)
    BY <1>2, <2>1, <2>3, SameEndpoint DEF Reload, Governing
  <2>. QED  BY <2>2, <2>3
<1>3. ASSUME NEW t \in Types, BindPub(t)
      PROVE  at'[s] = {PubEndpoint(Governing(s)', s)}
  BY <1>0, <1>3 DEF BindPub, Governing, IInv, TypeOK
<1>4. ASSUME NEW t \in Types, RebindPub(t)
      PROVE  at'[s] = {PubEndpoint(Governing(s)', s)}
  <2>1. /\ phase = "rebinding" /\ phase' = phase
        /\ config' = config /\ prev' = prev /\ pubBound' = pubBound
        /\ t \in todo /\ todo' = todo \ {t}
    BY <1>4 DEF RebindPub, IsNext
  <2>2. TypeOK
    BY DEF IInv
  <2>3. CASE s = t
    <3>1. s \notin hindered
      BY <1>4, <2>3 DEF RebindPub
    <3>2. at[t] = {PubEndpoint(prev, t)}
      BY <1>0, <2>1, <2>3, <3>1 DEF Governing
    <3> DEFINE old == PubEndpoint(prev, t)
               new == PubEndpoint(config, t)
               rest == [at EXCEPT ![t] = @ \ {old}]
    <3>3. PICK open \in {lingering, lingering \cup Left({old})} :
              /\ at' = IF Bindable(new, InUse(rest) \cup open)
                       THEN [rest EXCEPT ![t] = @ \cup {new}]
                       ELSE rest
              /\ hindered' = IF Unhindered(t, open) THEN hindered
                             ELSE hindered \cup {t}
      BY <1>4, <3>2 DEF RebindPub
    <3>4. Unhindered(t, open)
      BY <2>3, <3>3
    <3>5. Bindable(new, InUse(rest) \cup open)
      BY <2>1, <3>2, <3>4, NewEndpointIsFree
    <3>6. at'[t] = {new}
      BY <2>2, <3>2, <3>3, <3>5 DEF TypeOK
    <3>. QED  BY <2>1, <2>3, <3>6 DEF Governing
  <2>4. CASE s # t
    <3>1. at'[s] = at[s] /\ s \notin hindered
      BY <1>4, <2>2, <2>4, RebindEffect DEF RebindPub
    <3>. QED  BY <1>0, <2>1, <2>4, <3>1 DEF Governing
  <2>. QED  BY <2>3, <2>4
<1>5. CASE BindInbound
  BY <1>0, <1>5 DEF BindInbound, Governing
<1>6. CASE RebindDone
  BY <1>0, <1>6 DEF RebindDone, Governing
<1>7. CASE Shutdown
  BY <1>7 DEF Shutdown
<1>8. CASE Environment
  BY <1>0, <1>8
  DEF Environment, ListenerClosed, OtherTakes, OtherFrees, Governing
<1>9. CASE UNCHANGED vars
  BY <1>0, <1>9 DEF vars, Governing
<1>. QED
  BY <1>1, <1>2, <1>3, <1>4, <1>5, <1>6, <1>7, <1>8, <1>9 DEF Next

LEMMA MoveInvariance == Spec => []MoveInv
<1>1. Init => MoveInv
  BY DEF Init, MoveInv, Standing, Unflagged
<1>2. IInv /\ MoveInv /\ [Next]_vars => MoveInv'
  BY StandingNext, UnflaggedNext DEF MoveInv, IInv
<1>. QED  BY <1>1, <1>2, Invariance, PTL DEF Spec

-----------------------------------------------------------------------------

(* The variables keep their types.                                           *)
THEOREM SocketTypes == Spec => []TypeOK
<1>1. IInv => TypeOK
  BY DEF IInv
<1>. QED  BY <1>1, Invariance, PTL

(* No reload, however its binds fail and whatever failed before it, leaves a *)
(* PUB socket serving an endpoint its configuration does not name.           *)
THEOREM NoSocketServesAnOldEndpoint == Spec => []NoStaleEndpoint
<1>1. IInv => NoStaleEndpoint
  BY DEF IInv
<1>. QED  BY <1>1, Invariance, PTL

(* A stopped plugin has let go of every endpoint, although Shutdown goes by  *)
(* flags that failed rebinds have made wrong.                                *)
THEOREM ShutdownReleasesAll == Spec => []StoppedHoldsNothing
<1>1. IInv => StoppedHoldsNothing
  BY DEF IInv
<1>. QED  BY <1>1, Invariance, PTL

(* After every reload, every flagged PUB socket that nothing else stood in   *)
(* the way of is where the configuration says, however far the move went.    *)
THEOREM UnhinderedSocketsMove == Spec => []MovesUnlessHindered
<1>1. MoveInv => MovesUnlessHindered
  BY DEF MoveInv, Standing, MovesUnlessHindered, Governing
<1>. QED  BY <1>1, MoveInvariance, PTL

=============================================================================
