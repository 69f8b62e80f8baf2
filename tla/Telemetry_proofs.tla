-------------------------- MODULE Telemetry_proofs --------------------------
(***************************************************************************)
(* Proofs about Telemetry: its types, and that the damage the plugin       *)
(* reports is the player's and of this session.                            *)
(***************************************************************************)
EXTENDS Telemetry, TLAPS

LEMMA Zeros ==
    /\ 0 \in 0 .. DamageBound
    /\ 0 \in 0 .. Interval
    /\ Interval \in 0 .. Interval
    /\ 0 \in Impacts
    BY ConstantsAssumption DEF Impacts

LEMMA PlusIsBounded ==
    ASSUME NEW a \in 0 .. DamageBound, NEW b \in Impacts
    PROVE  /\ Plus(a, b) \in 0 .. DamageBound
           /\ Plus(a, b) >= b
           /\ Plus(a, b) >= a
    BY ConstantsAssumption DEF Plus, Impacts

LEMMA PackedIsAMessage ==
    ASSUME TypeOK
    PROVE  Packed \in Message
    BY DEF TypeOK, Packed, Message

(* Sending leaves a message of the right shape behind.                       *)
LEMMA SentIsAMessage ==
    ASSUME TypeOK, NEW m \in Message, SendExtendedState(m)
    PROVE  shown' \in Message \cup {NoMessage}
    BY DEF SendExtendedState, TypeOK

LEMMA CallKeepsWaits ==
    ASSUME NEW w \in [Limiters -> 0 .. Interval], NEW l
    PROVE  AfterCall(w, l) \in [Limiters -> 0 .. Interval]
    <1>1. [w EXCEPT ![l] = Interval] \in [Limiters -> 0 .. Interval]
        BY Zeros
    <1> QED BY <1>1 DEF AfterCall

LEMMA SetRatesAreWaits == SetRates \in [Limiters -> 0 .. Interval]
    BY ConstantsAssumption DEF SetRates

LEMMA NewSessionTypes ==
    ASSUME TypeOK, NewSession
    PROVE  /\ lastImpact' \in [CarIds -> Impacts]
           /\ hits' \subseteq Magnitudes
           /\ damage' \in 0 .. DamageBound
    BY Zeros DEF NewSession, TypeOK

LEMMA InitTypes == Init => TypeOK
    <1> SUFFICES ASSUME Init PROVE TypeOK
        OBVIOUS
    <1> QED
        BY SetRatesAreWaits, Zeros DEF Init, TypeOK

LEMMA TransitionTypes ==
    ASSUME TypeOK, Transitions
    PROVE  TypeOK'
    <1> USE PackedIsAMessage DEF TypeOK, plugin, state, impacts, game
    <1>1. CASE EnterRealtime
        <2>1. [Packed EXCEPT !.inRealtimeFC = TRUE] \in Message
            BY DEF Message
        <2> QED BY <1>1, <2>1, SentIsAMessage DEF EnterRealtime
    <1>2. CASE ExitRealtime
        <2>1. [Packed EXCEPT !.inRealtimeFC = FALSE] \in Message
            BY DEF Message
        <2> QED BY <1>2, <2>1, SentIsAMessage DEF ExitRealtime
    <1>3. CASE StartSession
        <2>1. [Packed EXCEPT !.sessionStarted = TRUE, !.max = 0,
                             !.accumulated = 0] \in Message
            BY Zeros DEF Message
        <2> QED BY <1>3, <2>1, SentIsAMessage, NewSessionTypes, Zeros DEF StartSession
    <1>4. CASE EndSession
        <2>1. [Packed EXCEPT !.sessionStarted = FALSE] \in Message
            BY DEF Message
        <2> QED BY <1>4, <2>1, SentIsAMessage DEF EndSession
    <1>5. ASSUME NEW p \in Physics, SetPhysicsOptions(p) PROVE TypeOK'
        <2>1. [Packed EXCEPT !.physics = p] \in Message
            BY DEF Message
        <2> QED BY <1>5, <2>1, SentIsAMessage DEF SetPhysicsOptions
    <1> QED BY <1>1, <1>2, <1>3, <1>4, <1>5 DEF Transitions

LEMMA LifecycleTypes ==
    ASSUME TypeOK, Lifecycle
    PROVE  TypeOK'
    <1> USE SetRatesAreWaits DEF TypeOK, plugin, state, impacts, game
    <1>1. ASSUME NEW c \in Configs, NEW b \in Bindings, Startup(c, b)
          PROVE  TypeOK'
        BY <1>1, NewSessionTypes, Zeros, ConstantsAssumption DEF Startup
    <1>2. CASE Shutdown
        BY <1>2 DEF Shutdown
    <1>3. ASSUME NEW c \in Configs, StartupDisabled(c) \/ Reload(c)
          PROVE  TypeOK'
        BY <1>3 DEF StartupDisabled, Reload
    <1> QED BY <1>1, <1>2, <1>3 DEF Lifecycle

LEMMA TelemetryTypes ==
    ASSUME TypeOK, NEW c \in CarIds, UpdateTelemetry(c)
    PROVE  TypeOK'
    <1> USE DEF TypeOK, plugin, state, game
    <1>1. shown' \in Message \cup {NoMessage}
        BY SentIsAMessage, PackedIsAMessage
           DEF UpdateTelemetry, SendPeriodicState
    <1>2. /\ maxImpactMagnitude' \in Impacts
          /\ accumulatedImpactMagnitude' \in 0 .. DamageBound
        <2>1. lastImpact[c] \in Impacts
            OBVIOUS
        <2> QED BY <2>1, PlusIsBounded
                DEF UpdateTelemetry, RecordImpact, impacts
    <1>3. wait' \in [Limiters -> 0 .. Interval]
        BY CallKeepsWaits DEF UpdateTelemetry
    <1>4. stale' \subseteq CarIds
        BY DEF UpdateTelemetry
    <1> QED BY <1>1, <1>2, <1>3, <1>4 DEF UpdateTelemetry

LEMMA NextTypes ==
    ASSUME TypeOK, [Next]_vars
    PROVE  TypeOK'
    <1>1. ASSUME NEW c \in CarIds, NEW m \in Magnitudes, Impact(c, m)
          PROVE  TypeOK'
        <2>1. m \in Impacts
            BY DEF Impacts
        <2> QED BY <1>1, <2>1, PlusIsBounded
                DEF Impact, TypeOK, plugin, state, impacts
    <1>2. CASE Tick
        <2>1. wait' \in [Limiters -> 0 .. Interval]
            BY <1>2, ConstantsAssumption DEF Tick, TypeOK
        <2> QED BY <1>2, <2>1 DEF Tick, TypeOK, plugin, state, impacts, game
    <1>3. CASE UNCHANGED vars
        BY <1>3 DEF vars, TypeOK, plugin, state, impacts, game
    <1> QED BY <1>1, <1>2, <1>3, TransitionTypes, LifecycleTypes,
               TelemetryTypes DEF Next, Collisions

(* Type correctness of the telemetry model, for any cars, rates and number   *)
(* of limiter slots.                                                         *)
THEOREM TelemetryTypesHold == Spec => []TypeOK
    <1>1. Init => TypeOK
        BY InitTypes
    <1>2. TypeOK /\ [Next]_vars => TypeOK'
        BY NextTypes
    <1> QED BY <1>1, <1>2, PTL DEF Spec

-----------------------------------------------------------------------------
(* The inductive invariant adds that the impact the game still reports for   *)
(* the player is one of this session's.                                      *)
DamageInv == DamageIsThePlayers /\ lastImpact[PlayerId] \in hits \cup {0}

LEMMA ImpactsKeepDamage ==
    ASSUME TypeOK, DamageInv, NEW m \in hits \cup {0}, RecordImpact(m),
           hits' = hits
    PROVE  DamageIsThePlayers'
    <1>1. m \in Impacts
        BY DEF TypeOK, Impacts
    <1>2. /\ maxImpactMagnitude \in Nat
          /\ accumulatedImpactMagnitude \in 0 .. DamageBound
          /\ m \in Nat
        BY <1>1, ConstantsAssumption DEF TypeOK, Impacts
    <1>3. /\ Plus(accumulatedImpactMagnitude, m) >= m
          /\ Plus(accumulatedImpactMagnitude, m) >= accumulatedImpactMagnitude
        BY <1>1, <1>2, PlusIsBounded
    <1>4. maxImpactMagnitude' \in hits \cup {0}
        BY DEF RecordImpact, DamageInv, DamageIsThePlayers
    <1>5. maxImpactMagnitude' <= accumulatedImpactMagnitude'
        BY <1>2, <1>3, PlusIsBounded, <1>1
           DEF RecordImpact, DamageInv, DamageIsThePlayers
    <1>6. maxImpactMagnitude' = 0 => accumulatedImpactMagnitude' = 0
        BY <1>2, ConstantsAssumption
           DEF RecordImpact, Plus, DamageInv, DamageIsThePlayers
    <1> QED BY <1>4, <1>5, <1>6 DEF DamageIsThePlayers

LEMMA NextDamage ==
    ASSUME TypeOK, DamageInv, [Next]_vars, WholeCars,
           \A c \in CarIds : IsPlayer(c) <=> c = PlayerId
    PROVE  DamageInv'
    <1> USE DEF DamageInv
    <1>1. CASE EnterRealtime \/ ExitRealtime \/ EndSession
               \/ \E p \in Physics : SetPhysicsOptions(p)
        BY <1>1 DEF EnterRealtime, ExitRealtime, EndSession,
                    SetPhysicsOptions, impacts, game, DamageIsThePlayers
    <1>2. CASE StartSession
        BY <1>2, ConstantsAssumption
           DEF StartSession, NewSession, DamageIsThePlayers
    <1>3. CASE \E c \in Configs, b \in Bindings : Startup(c, b)
        BY <1>3, ConstantsAssumption
           DEF Startup, NewSession, DamageIsThePlayers
    <1>4. CASE Shutdown \/ \E c \in Configs : StartupDisabled(c) \/ Reload(c)
        BY <1>4 DEF Shutdown, StartupDisabled, Reload, impacts, game, DamageIsThePlayers
    <1>5. ASSUME NEW c \in CarIds, NEW m \in Magnitudes, Impact(c, m)
          PROVE  DamageInv'
        <2>1. DamageIsThePlayers'
            BY <1>5 DEF Impact, impacts, DamageIsThePlayers
        <2>2. lastImpact'[PlayerId] \in hits' \cup {0}
            BY <1>5, ConstantsAssumption DEF Impact, TypeOK
        <2> QED BY <2>1, <2>2
    <1>6. ASSUME NEW c \in CarIds, UpdateTelemetry(c) PROVE DamageInv'
        <2>1. UNCHANGED game
            BY <1>6 DEF UpdateTelemetry
        <2>2. CASE IsPlayer(c)
            BY <1>6, <2>1, <2>2, ImpactsKeepDamage DEF UpdateTelemetry, game
        <2>3. CASE ~IsPlayer(c)
            BY <1>6, <2>1, <2>3
               DEF UpdateTelemetry, game, impacts, DamageIsThePlayers
        <2> QED BY <2>2, <2>3
    <1>7. CASE Tick \/ UNCHANGED vars
        BY <1>7 DEF Tick, vars, impacts, game, DamageIsThePlayers
    <1> QED BY <1>1, <1>2, <1>3, <1>4, <1>5, <1>6, <1>7
            DEF Next, Transitions, Lifecycle, Collisions

(* Where IsPlayer tells the player's car from the others and the game starts *)
(* its sessions with whole cars -- neither of which main.cpp can see to --   *)
(* the damage shown is the player's and of this session, whatever the order  *)
(* of frames, impacts, sessions, reloads and restarts.                       *)
THEOREM DamageBelongsToThePlayer ==
    ASSUME WholeCars,
           \A c \in CarIds : IsPlayer(c) <=> c = PlayerId
    PROVE  Spec => []DamageIsThePlayers
    <1>1. Init => DamageInv
        BY ConstantsAssumption DEF Init, DamageInv, DamageIsThePlayers
    <1>2. TypeOK /\ DamageInv /\ [Next]_vars => DamageInv'
        BY NextDamage
    <1>3. DamageInv => DamageIsThePlayers
        BY DEF DamageInv
    <1> QED BY <1>1, <1>2, <1>3, TelemetryTypesHold, PTL DEF Spec

=============================================================================
