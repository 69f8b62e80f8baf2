--------------------------- MODULE InboundControl ---------------------------
(***************************************************************************)
(* Inbound commands in the plugin (main.cpp): clients publish hardware     *)
(* controls and weather overrides, ZeroMQ queues them on the SUB socket,   *)
(* UpdateHardware drains the queue into a table of pulses and wears the    *)
(* pulses down, CheckHWControl answers the game from the table, and        *)
(* AccessWeather hands a pending override to the game.                     *)
(*                                                                         *)
(* Clients and the simulator's thread interleave: a command may arrive     *)
(* between any two receives of one drain.  A hot reload may switch inbound *)
(* control or the weather stream on or off between two callbacks.          *)
(***************************************************************************)
EXTENDS Naturals, Sequences

CONSTANTS
    Names,           \* control names clients send
    GameNames,       \* control names the game asks for
    Clean,           \* a game's name without its leading underscore
    Truncated,       \* a client's name cut to controlName[32]
    Values,
    Durations,       \* durationMs of the commands, 0 for none
    DefaultHold,     \* the 50 ms of a command without a duration
    FrameTimes,      \* fDT: game time between two UpdateHardware calls
    Weathers,
    Commands,        \* messages clients may publish
    Configs,         \* what the file may say: [inbound, masked, weatherOn]
    MaxSlots,        \* MAX_ACTIVE_HW_CONTROLS
    QueueBound,      \* messages the socket holds (its high-water mark)
    RecvMayFail,     \* may recv throw while messages are pending?
    Inactive,        \* an activeControls entry with active = false
    NoOverride,      \* weatherOverride.active = false
    NoValue

HWControls == [kind : {"hw"}, name : Names, value : Values,
               duration : Durations]
WeatherControls == [kind : {"weather"}, data : Weathers]
(* A buffer that does not verify, or a control without a name.               *)
Ignored == [kind : {"ignored"}]

Pulses == [name : Names, value : Values, left : Nat \ {0}]

ASSUME ConstantsAssumption ==
    /\ Clean \in [GameNames -> GameNames]
    /\ Truncated \in [Names -> Names]
    /\ \A n \in Names : Truncated[Truncated[n]] = Truncated[n]
    /\ Durations \subseteq Nat
    /\ DefaultHold \in Nat \ {0}
    /\ FrameTimes \subseteq Nat \ {0}
    /\ Commands \subseteq HWControls \cup WeatherControls \cup Ignored
    /\ Configs \subseteq [inbound : BOOLEAN, masked : BOOLEAN,
                          weatherOn : BOOLEAN]
    /\ MaxSlots \in Nat \ {0}
    /\ QueueBound \in Nat
    /\ Inactive \notin Pulses \cup [value : Values, left : Nat \ {0}]
    /\ NoOverride \notin Weathers
    /\ NoValue \notin Values

VARIABLES
    initialized,
    config,
    inboundBound,
    queue,           \* what the SUB socket has received
    phase,           \* "polling" within UpdateHardware, else "idle"
    activeControls,
    weatherOverride,
    pressed          \* history: the last value the drain under way gave to
                     \* each control it found a slot for

vars == <<initialized, config, inboundBound, queue, phase, activeControls,
          weatherOverride, pressed>>

Slots == 1 .. MaxSlots

TypeOK ==
    /\ initialized \in BOOLEAN
    /\ config \in Configs
    /\ inboundBound \in BOOLEAN
    /\ queue \in Seq(Commands)
    /\ phase \in {"idle", "polling"}
    /\ activeControls \in [Slots -> Pulses \cup {Inactive}]
    /\ weatherOverride \in Weathers \cup {NoOverride}
    /\ pressed \in [Names -> Values \cup {NoValue}]

NothingPressed == [n \in Names |-> NoValue]

-----------------------------------------------------------------------------
(* Clients.                                                                  *)

(* A message reaches the SUB socket; one that finds it full is dropped.      *)
Deliver(cmd) ==
    /\ inboundBound
    /\ Len(queue) < QueueBound
    /\ queue' = Append(queue, cmd)
    /\ UNCHANGED <<initialized, config, inboundBound, phase, activeControls,
                   weatherOverride, pressed>>

-----------------------------------------------------------------------------
(* Lifecycle.                                                                *)

(* Startup clears the table and the override; the SUB socket is bound only   *)
(* with InboundControl on, and the bind may fail.                            *)
Startup(c, binds) ==
    /\ phase = "idle"
    /\ ~initialized
    /\ initialized' = TRUE
    /\ config' = c
    /\ inboundBound' = (c.inbound /\ binds)
    /\ activeControls' = [i \in Slots |-> Inactive]
    /\ weatherOverride' = NoOverride
    /\ UNCHANGED <<queue, phase, pressed>>

(* With Enabled off in the file, Startup has read it and that is all.        *)
StartupDisabled(c) ==
    /\ phase = "idle"
    /\ ~initialized
    /\ config' = c
    /\ UNCHANGED <<initialized, inboundBound, queue, phase, activeControls,
                   weatherOverride, pressed>>

(* A reload, in UpdateScoring, sets flags and touches neither the socket nor *)
(* what is held.                                                             *)
Reload(c) ==
    /\ phase = "idle"
    /\ initialized
    /\ config' = c
    /\ UNCHANGED <<initialized, inboundBound, queue, phase, activeControls,
                   weatherOverride, pressed>>

(* Shutdown closes the socket, with what it holds.                           *)
Shutdown ==
    /\ phase = "idle"
    /\ initialized
    /\ initialized' = FALSE
    /\ inboundBound' = FALSE
    /\ queue' = <<>>
    /\ UNCHANGED <<config, phase, activeControls, weatherOverride, pressed>>

-----------------------------------------------------------------------------
(* UpdateHardware.                                                           *)

Holding(n) ==
    {i \in Slots : activeControls[i] # Inactive /\ activeControls[i].name = n}

Free == {i \in Slots : activeControls[i] = Inactive}

(* The loops over activeControls stop at the first entry that fits.          *)
First(S) == CHOOSE i \in S : \A j \in S : i <= j

HoldTime(duration) == IF duration > 0 THEN duration ELSE DefaultHold

HoldTimes == {HoldTime(d) : d \in Durations}

Write(i, n, v, d) ==
    /\ activeControls' = [activeControls EXCEPT ![i] =
                              [name |-> Truncated[n], value |-> v,
                               left |-> HoldTime(d)]]
    /\ pressed' = [pressed EXCEPT ![n] = v]

\* Variant: the search for a pulse of that name is gone.
ApplyHWControlAnew(n, v, d) ==
    \/ Free # {} /\ Write(First(Free), n, v, d)
    \/ Free = {} /\ UNCHANGED <<activeControls, pressed>>

(* A name is compared whole and stored truncated, so only an entry of the    *)
(* very name is written again.  Without a free entry the press is dropped.   *)
ApplyHWControl(n, v, d) ==
    \/ Holding(n) # {} /\ Write(First(Holding(n)), n, v, d)
    \/ Holding(n) = {} /\ Free # {} /\ Write(First(Free), n, v, d)
    \/ Holding(n) = {} /\ Free = {} /\ UNCHANGED <<activeControls, pressed>>

\* Variant: UpdateHardware returns early when no message is pending.
BeginUpdateIfPending ==
    /\ phase = "idle"
    /\ initialized
    /\ config.inbound
    /\ queue # <<>>
    /\ phase' = "polling"
    /\ pressed' = NothingPressed
    /\ UNCHANGED <<initialized, config, inboundBound, queue, activeControls,
                   weatherOverride>>

BeginUpdate ==
    /\ phase = "idle"
    /\ initialized
    /\ config.inbound
    /\ phase' = "polling"
    /\ pressed' = NothingPressed
    /\ UNCHANGED <<initialized, config, inboundBound, queue, activeControls,
                   weatherOverride>>

(* One round of PollInboundCommands' loop.                                   *)
Receive ==
    /\ phase = "polling"
    /\ inboundBound
    /\ queue # <<>>
    /\ queue' = Tail(queue)
    /\ LET cmd == Head(queue) IN
        \/ /\ cmd.kind = "hw"
           /\ ApplyHWControl(cmd.name, cmd.value, cmd.duration)
           /\ UNCHANGED weatherOverride
        \/ /\ cmd.kind = "weather"
           /\ weatherOverride' = cmd.data
           /\ UNCHANGED <<activeControls, pressed>>
        \/ /\ cmd.kind = "ignored"
           /\ UNCHANGED <<activeControls, weatherOverride, pressed>>
    /\ UNCHANGED <<initialized, config, inboundBound, phase>>

\* Variant: a pulse whose time has just run out keeps its slot.
WornDownLate(p, dt) ==
    IF p = Inactive \/ p.left < dt
    THEN Inactive
    ELSE [p EXCEPT !.left = @ - dt]

WornDown(p, dt) ==
    IF p = Inactive \/ p.left <= dt
    THEN Inactive
    ELSE [p EXCEPT !.left = @ - dt]

\* Variant: the timers of the first entry only are decremented.
FinishUpdateFirst(dt) ==
    /\ phase = "polling"
    /\ queue = <<>> \/ RecvMayFail
    /\ activeControls' = [activeControls EXCEPT ![1] = WornDown(@, dt)]
    /\ phase' = "idle"
    /\ UNCHANGED <<initialized, config, inboundBound, queue, weatherOverride,
                   pressed>>

(* The loop ends when no message is pending (or recv throws); the time since *)
(* the last frame is taken off every pulse, those just written included.     *)
FinishUpdate(dt) ==
    /\ phase = "polling"
    /\ queue = <<>> \/ RecvMayFail
    /\ activeControls' = [i \in Slots |-> WornDown(activeControls[i], dt)]
    /\ phase' = "idle"
    /\ UNCHANGED <<initialized, config, inboundBound, queue, weatherOverride,
                   pressed>>

(* What CheckHWControl returns for the game's control g: an entry matches by *)
(* g itself or by g without its underscore.                                  *)
CheckHWControl(g) ==
    LET matching == {i \in Slots : /\ activeControls[i] # Inactive
                                   /\ activeControls[i].name \in {g, Clean[g]}}
    IN  IF initialized /\ config.inbound /\ matching # {}
        THEN activeControls[First(matching)].value
        ELSE NoValue

-----------------------------------------------------------------------------
(* The weather override.                                                     *)

\* Variant: only the weather stream asks for access.
WantsWeatherAccessForStream == ~config.masked /\ config.weatherOn

WantsWeatherAccess ==
    /\ ~config.masked
    /\ config.weatherOn \/ (config.inbound /\ weatherOverride # NoOverride)

(* The game calls AccessWeather when the plugin wants it; an active override *)
(* is written into the game's weather once.                                  *)
AccessWeather ==
    /\ phase = "idle"
    /\ initialized
    /\ WantsWeatherAccess
    /\ config.inbound
    /\ weatherOverride # NoOverride
    /\ weatherOverride' = NoOverride
    /\ UNCHANGED <<initialized, config, inboundBound, queue, phase,
                   activeControls, pressed>>

-----------------------------------------------------------------------------

Deliveries == \E cmd \in Commands : Deliver(cmd)

Next ==
    \/ Deliveries
    \/ \E c \in Configs, binds \in BOOLEAN : Startup(c, binds)
    \/ \E c \in Configs : StartupDisabled(c) \/ Reload(c)
    \/ Shutdown
    \/ BeginUpdate
    \/ Receive
    \/ \E dt \in FrameTimes : FinishUpdate(dt)
    \/ AccessWeather

Init ==
    /\ initialized = FALSE
    /\ config \in Configs
    /\ inboundBound = FALSE
    /\ queue = <<>>
    /\ phase = "idle"
    /\ activeControls = [i \in Slots |-> Inactive]
    /\ weatherOverride = NoOverride
    /\ pressed = NothingPressed

Spec == Init /\ [][Next]_vars

(* The game's loop calls UpdateHardware every frame and AccessWeather as     *)
(* long as the plugin wants it (never within UpdateHardware, hence the       *)
(* strong fairness), and a callback that began goes on.  Nothing is assumed  *)
(* of clients, reloads or the plugin's start and stop.                       *)
Fairness ==
    /\ WF_vars(BeginUpdate)
    /\ WF_vars(Receive \/ \E dt \in FrameTimes : FinishUpdate(dt))
    /\ SF_vars(AccessWeather)

FairSpec == Spec /\ Fairness

-----------------------------------------------------------------------------
(* Properties.                                                               *)

(* Names that survive truncation and that no longer name is truncated to.    *)
PlainNames ==
    {n \in Names : \A m \in Names : Truncated[m] = n <=> m = n}

(* A control never occupies two slots, however presses, expiries and reloads *)
(* free and fill the table: a release of one could otherwise leave the other *)
(* pressed.  Names that are a longer name's truncation are excepted.         *)
OneSlotPerName ==
    \A i, j \in Slots :
        /\ activeControls[i] # Inactive
        /\ activeControls[j] # Inactive
        /\ activeControls[i].name = activeControls[j].name
        /\ activeControls[i].name \in PlainNames
        => i = j

(* The table, seen as a board of at most one pulse per plain name.           *)
BoardOf(n) ==
    IF Holding(n) = {}
    THEN Inactive
    ELSE LET p == activeControls[First(Holding(n))]
         IN  [value |-> p.value, left |-> p.left]

HeldNow == [n \in PlainNames |-> BoardOf(n)]

Board == INSTANCE PulseBoard WITH
    Controls <- PlainNames, Released <- Inactive, held <- HeldNow

(* The table implements the board: a press gives the control the last value  *)
(* and the full time, whichever slot it takes; only game time wears a pulse  *)
(* down, every pulse at once; only Startup clears the board.                 *)
IsABoard == Board!Spec

(* Names the game may ask for a client's control by, without ambiguity.      *)
Unambiguous(g) == Clean[g] \in PlainNames /\ (g = Clean[g] \/ g \notin Names)

(* When UpdateHardware returns, the game reads of every control a drained    *)
(* command found a slot for the value it was last given: no press is over    *)
(* before the game could see it.                                             *)
PressReachesTheGame ==
    [][\A dt \in FrameTimes : FinishUpdate(dt) =>
            \A g \in GameNames :
                Unambiguous(g) /\ pressed[Clean[g]] # NoValue =>
                    CheckHWControl(g)' = pressed[Clean[g]]]_vars

(* Once clients are silent and inbound control stays on, every control is    *)
(* released: nothing is left pressed by a lost release.                      *)
PulsesEnd ==
    <>[][~Deliveries]_vars /\ <>[](initialized /\ config.inbound) =>
        <>[](\A i \in Slots : activeControls[i] = Inactive)

(* A pending override reaches the game, the weather stream on or off, unless *)
(* inbound control is off or weather access is masked.  (Clients that never  *)
(* pause can hold UpdateHardware in its drain and so keep AccessWeather from *)
(* being called; here they pause in the end.)                                *)
OverrideReachesTheGame ==
    <>[][~Deliveries]_vars =>
        [](weatherOverride # NoOverride =>
               <>(\/ weatherOverride = NoOverride
                  \/ config.masked
                  \/ ~config.inbound
                  \/ ~initialized))

=============================================================================
