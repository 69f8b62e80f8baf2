----------------------------- MODULE Telemetry -----------------------------
(***************************************************************************)
(* The telemetry and extended-state streams of the plugin (main.cpp): the  *)
(* game reports every car, every frame, to UpdateTelemetry, which sends    *)
(* what the rate limiters let through, tracks the damage of the player and *)
(* carries the periodic ExtendedState message.  Session and cockpit        *)
(* transitions send an ExtendedState message of their own.                 *)
(*                                                                         *)
(* All callbacks run on the simulator's thread; their order, and the time  *)
(* between them, are the game's.  Of the extended state, whose messages     *)
(* say everything on a socket that keeps one, only the last matters.       *)
(***************************************************************************)
EXTENDS Integers

CONSTANTS
    CarIds,          \* mID of the cars on the track
    PlayerId,        \* the player's
    Magnitudes,      \* of impacts
    Physics,         \* driving aids the game may set
    NoPhysics,       \* cachedPhysics filled with zeros
    Configs,         \* [ext, player, opponents, masked]
    Bindings,        \* sets of packet types Startup manages to bind
    Interval,        \* ticks between two sends of a limited stream
    OpponentSlots,   \* 128
    DamageBound,     \* where the model stops adding damage up
    NoMessage,
    WholeCars        \* the game starts a session with cars that hit nothing

Rates == {"off", "limited", "unlimited"}

ASSUME ConstantsAssumption ==
    /\ CarIds \subseteq Int
    /\ PlayerId \in CarIds
    /\ Magnitudes \subseteq Nat \ {0}
    /\ Configs \subseteq [ext : Rates, player : Rates, opponents : Rates,
                          masked : BOOLEAN]
    /\ Bindings \subseteq SUBSET {1, 8}
    /\ Interval \in Nat
    /\ OpponentSlots \in Nat \ {0}
    /\ DamageBound \in Nat
    /\ WholeCars \in BOOLEAN
    /\ NoMessage \notin CarIds
    /\ \A m \in Magnitudes : m <= DamageBound

VARIABLES
    initialized,
    config,
    bound,           \* pubBound of types 1 (telemetry) and 8 (extended state)
    wait,            \* ticks until a limiter lets the next message through
    inRealtimeFC,
    sessionStarted,
    cachedPhysics,
    maxImpactMagnitude,
    accumulatedImpactMagnitude,
    lastImpact,      \* the game: magnitude of each car's last impact
    stale,           \* cars that moved since they were last published
    shown,           \* the last ExtendedState message
    hits,            \* history: the player's impacts in this session
    damage           \* history: their sum, up to DamageBound

plugin == <<initialized, config, bound>>
state == <<inRealtimeFC, sessionStarted, cachedPhysics>>
impacts == <<maxImpactMagnitude, accumulatedImpactMagnitude>>
game == <<lastImpact, hits, damage>>

vars == <<plugin, wait, state, impacts, game, stale, shown>>

Slots == 0 .. OpponentSlots - 1
Ext == <<"ext", 0>>
Player == <<"player", 0>>
Opponent(slot) == <<"opponent", slot>>
Limiters == {Ext, Player} \cup {Opponent(slot) : slot \in Slots}

Impacts == Magnitudes \cup {0}

Message == [inRealtimeFC : BOOLEAN, sessionStarted : BOOLEAN,
            physics : Physics \cup {NoPhysics},
            max : Impacts, accumulated : 0 .. DamageBound]

TypeOK ==
    /\ initialized \in BOOLEAN
    /\ config \in Configs
    /\ bound \subseteq {1, 8}
    /\ wait \in [Limiters -> 0 .. Interval]
    /\ inRealtimeFC \in BOOLEAN
    /\ sessionStarted \in BOOLEAN
    /\ cachedPhysics \in Physics \cup {NoPhysics}
    /\ maxImpactMagnitude \in Impacts
    /\ accumulatedImpactMagnitude \in 0 .. DamageBound
    /\ lastImpact \in [CarIds -> Impacts]
    /\ stale \subseteq CarIds
    /\ shown \in Message \cup {NoMessage}
    /\ hits \subseteq Magnitudes
    /\ damage \in 0 .. DamageBound

Plus(a, b) == IF a + b < DamageBound THEN a + b ELSE DamageBound

-----------------------------------------------------------------------------
(* RateLimiter.                                                              *)

Rate(l) == CASE l = Ext    -> config.ext
             [] l = Player -> config.player
             [] OTHER      -> config.opponents

(* The first call after SetRate passes, then one per interval.               *)
ShouldSend(l) ==
    \/ Rate(l) = "unlimited"
    \/ Rate(l) = "limited" /\ wait[l] = 0

\* Variant: lastTime is set by every call, not only by those that pass.
AfterCallAlways(w, l) ==
    IF Rate(l) = "limited" THEN [w EXCEPT ![l] = Interval] ELSE w

(* w after a call of ShouldSend on limiter l.                                *)
AfterCall(w, l) ==
    IF Rate(l) = "limited" /\ wait[l] = 0 THEN [w EXCEPT ![l] = Interval] ELSE w

SetRates == [l \in Limiters |-> 0]

Tick ==
    /\ \/ stale # CarIds
       \/ \E l \in Limiters : wait[l] > 0
    /\ wait' = [l \in Limiters |-> IF wait[l] > 0 THEN wait[l] - 1 ELSE 0]
    /\ stale' = CarIds
    /\ UNCHANGED <<plugin, state, impacts, game, shown>>

-----------------------------------------------------------------------------
(* SendExtendedState.                                                        *)

CanSendExtendedState == initialized /\ 8 \in bound /\ config.ext # "off"

(* The members packed, with changes a callback has just made to some.        *)
Packed ==
    [inRealtimeFC |-> inRealtimeFC, sessionStarted |-> sessionStarted,
     physics |-> cachedPhysics, max |-> maxImpactMagnitude,
     accumulated |-> accumulatedImpactMagnitude]

SendExtendedState(message) ==
    shown' = IF CanSendExtendedState THEN message ELSE shown

EnterRealtime ==
    /\ inRealtimeFC' = TRUE
    /\ SendExtendedState([Packed EXCEPT !.inRealtimeFC = TRUE])
    /\ UNCHANGED <<plugin, wait, sessionStarted, cachedPhysics, impacts, game,
                   stale>>

ExitRealtime ==
    /\ inRealtimeFC' = FALSE
    /\ SendExtendedState([Packed EXCEPT !.inRealtimeFC = FALSE])
    /\ UNCHANGED <<plugin, wait, sessionStarted, cachedPhysics, impacts, game,
                   stale>>

(* What the game does about the last impacts at the start of a session is    *)
(* its own affair; the plugin counts on whole cars.                          *)
NewSession ==
    /\ lastImpact' = [c \in CarIds |-> IF WholeCars THEN 0 ELSE lastImpact[c]]
    /\ hits' = {}
    /\ damage' = 0

StartSession ==
    /\ sessionStarted' = TRUE
    /\ maxImpactMagnitude' = 0
    /\ accumulatedImpactMagnitude' = 0
    /\ NewSession
    /\ SendExtendedState([Packed EXCEPT !.sessionStarted = TRUE, !.max = 0,
                                    !.accumulated = 0])
    /\ UNCHANGED <<plugin, wait, inRealtimeFC, cachedPhysics, stale>>

EndSession ==
    /\ sessionStarted' = FALSE
    /\ SendExtendedState([Packed EXCEPT !.sessionStarted = FALSE])
    /\ UNCHANGED <<plugin, wait, inRealtimeFC, cachedPhysics, impacts, game,
                   stale>>

SetPhysicsOptions(p) ==
    /\ cachedPhysics' = p
    /\ SendExtendedState([Packed EXCEPT !.physics = p])
    /\ UNCHANGED <<plugin, wait, inRealtimeFC, sessionStarted, impacts, game,
                   stale>>

-----------------------------------------------------------------------------
(* UpdateTelemetry.                                                          *)

WantsTelemetryUpdates ==
    CASE config.masked              -> 0
      [] config.opponents # "off"   -> 2
      [] config.player # "off"      -> 1
      [] OTHER                      -> 0

(* Cars the game reports: all, the player's, or none.                        *)
Reported(c) ==
    \/ WantsTelemetryUpdates = 2
    \/ WantsTelemetryUpdates = 1 /\ c = PlayerId

\* Variant: every car's impacts are taken for the player's.
IsPlayerAll(c) == TRUE

IsPlayer(c) == c <= 0

LimiterOf(c) == IF IsPlayer(c) THEN Player ELSE Opponent(c % OpponentSlots)

\* Variant: the maximum is a sum, too.
RecordImpactSums(m) ==
    /\ maxImpactMagnitude' = maxImpactMagnitude + m
    /\ accumulatedImpactMagnitude' = Plus(accumulatedImpactMagnitude, m)

(* mLastImpactMagnitude of a player's frame enters the maximum and the sum.  *)
RecordImpact(m) ==
    /\ maxImpactMagnitude' =
           IF m > maxImpactMagnitude THEN m ELSE maxImpactMagnitude
    /\ accumulatedImpactMagnitude' = Plus(accumulatedImpactMagnitude, m)

(* The periodic message goes first and carries the impacts of earlier frames *)
(* only.                                                                     *)
SendPeriodicState ==
    IF ShouldSend(Ext) THEN SendExtendedState(Packed) ELSE UNCHANGED shown

UpdateTelemetry(c) ==
    /\ initialized
    /\ Reported(c)
    /\ SendPeriodicState
    /\ \/ IsPlayer(c) /\ RecordImpact(lastImpact[c])
       \/ ~IsPlayer(c) /\ UNCHANGED impacts
    /\ wait' = AfterCall(AfterCall(wait, Ext), LimiterOf(c))
    /\ \/ ShouldSend(LimiterOf(c)) /\ 1 \in bound /\ stale' = stale \ {c}
       \/ ~(ShouldSend(LimiterOf(c)) /\ 1 \in bound) /\ UNCHANGED stale
    /\ UNCHANGED <<plugin, state, game>>

-----------------------------------------------------------------------------
(* Lifecycle and the game.                                                   *)

(* Startup zeroes what is tracked and sends nothing.                         *)
Startup(c, b) ==
    /\ ~initialized
    /\ initialized' = TRUE
    /\ config' = c
    /\ bound' = b
    /\ wait' = SetRates
    /\ inRealtimeFC' = FALSE
    /\ sessionStarted' = FALSE
    /\ cachedPhysics' = NoPhysics
    /\ maxImpactMagnitude' = 0
    /\ accumulatedImpactMagnitude' = 0
    /\ NewSession
    /\ UNCHANGED <<stale, shown>>

(* With Enabled off in the file, Startup has read it and that is all.        *)
StartupDisabled(c) ==
    /\ ~initialized
    /\ config' = c
    /\ wait' = SetRates
    /\ UNCHANGED <<initialized, bound, state, impacts, game, stale, shown>>

Shutdown ==
    /\ initialized
    /\ initialized' = FALSE
    /\ bound' = {}
    /\ UNCHANGED <<config, wait, state, impacts, game, stale, shown>>

(* A hot reload, in UpdateScoring: LoadConfigFile sets every rate anew.      *)
Reload(c) ==
    /\ initialized
    /\ config' = c
    /\ wait' = SetRates
    /\ UNCHANGED <<initialized, bound, state, impacts, game, stale, shown>>

(* A collision of car c.                                                     *)
Impact(c, m) ==
    /\ lastImpact' = [lastImpact EXCEPT ![c] = m]
    /\ hits' = IF c = PlayerId THEN hits \cup {m} ELSE hits
    /\ damage' = IF c = PlayerId THEN Plus(damage, m) ELSE damage
    /\ UNCHANGED <<plugin, wait, state, impacts, stale, shown>>

-----------------------------------------------------------------------------

Transitions ==
    \/ EnterRealtime
    \/ ExitRealtime
    \/ StartSession
    \/ EndSession
    \/ \E p \in Physics : SetPhysicsOptions(p)

Lifecycle ==
    \/ \E c \in Configs, b \in Bindings : Startup(c, b)
    \/ Shutdown
    \/ \E c \in Configs : StartupDisabled(c) \/ Reload(c)

Collisions == \E c \in CarIds, m \in Magnitudes : Impact(c, m)

Next ==
    \/ Transitions
    \/ Lifecycle
    \/ Collisions
    \/ \E c \in CarIds : UpdateTelemetry(c)
    \/ Tick

Init ==
    /\ initialized = FALSE
    /\ config \in Configs
    /\ bound = {}
    /\ wait = SetRates
    /\ inRealtimeFC = FALSE
    /\ sessionStarted = FALSE
    /\ cachedPhysics = NoPhysics
    /\ maxImpactMagnitude = 0
    /\ accumulatedImpactMagnitude = 0
    /\ lastImpact = [c \in CarIds |-> 0]
    /\ stale = {}
    /\ shown = NoMessage
    /\ hits = {}
    /\ damage = 0

Spec == Init /\ [][Next]_vars

(* Time passes, and the game reports every car it was asked for again and    *)
(* again.                                                                    *)
Fairness == WF_vars(Tick) /\ \A c \in CarIds : WF_vars(UpdateTelemetry(c))

FairSpec == Spec /\ Fairness

-----------------------------------------------------------------------------
(* Properties.                                                               *)

(* The damage reported as the player's is the player's, of this session: the *)
(* maximum is one of the player's impacts since StartSession (whatever other *)
(* cars, late frames and reloads come between), and the two figures tell of  *)
(* damage together or not at all.                                            *)
DamageIsThePlayers ==
    /\ maxImpactMagnitude \in hits \cup {0}
    /\ maxImpactMagnitude <= accumulatedImpactMagnitude
    /\ maxImpactMagnitude = 0 => accumulatedImpactMagnitude = 0

(* extended_state.fbs: the sum is the cumulative damage, so never more than  *)
(* the impacts add up to.                                                    *)
DamageCountedOnce == accumulatedImpactMagnitude <= damage

Quiet == <>[][~(Transitions \/ Lifecycle \/ Collisions)]_vars

PlayerReported == config.opponents # "off" \/ config.player # "off"

(* Once the game is quiet, the last message shows the plugin's state and no  *)
(* impact is missing from it, even after a restart that announced nothing or *)
(* transitions with the stream off -- provided some telemetry stream is on,  *)
(* whose callback carries the periodic message.                              *)
SettledStateIsShown ==
    Quiet /\ <>[](CanSendExtendedState /\ ~config.masked /\ PlayerReported) =>
        <>[](/\ shown # NoMessage
             /\ shown.inRealtimeFC = inRealtimeFC
             /\ shown.sessionStarted = sessionStarted
             /\ shown.physics = cachedPhysics
             /\ shown.max = maxImpactMagnitude
             /\ shown.max >= lastImpact[PlayerId])

(* Opponents with the same mID % 128 have one limiter between them.          *)
SameSlot(c, d) ==
    \/ c = d
    \/ PlayerId \notin {c, d} /\ c % OpponentSlots = d % OpponentSlots

(* Every car whose stream is on is published again and again -- of opponents *)
(* that share a slot, at least one is; the code keeps no order among them.   *)
(* A car uses up no other slot's share of the rate, and a reload that        *)
(* restarts the limiters holds nobody back.                                  *)
EveryCarIsFollowed ==
    \A c \in CarIds :
        <>[](/\ initialized /\ 1 \in bound /\ ~config.masked
             /\ IF c = PlayerId THEN config.player # "off"
                                ELSE config.opponents # "off")
            => []<>(\E d \in CarIds : SameSlot(c, d) /\ d \notin stale)

=============================================================================
