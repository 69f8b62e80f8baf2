------------------------ MODULE InboundControl_proofs ------------------------
(***************************************************************************)
(* Proofs about InboundControl, for every table size, queue and set of     *)
(* names, truncated ones included.                                         *)
(*                                                                         *)
(* OneSlotPerName needs to know what the table stores: names as truncation *)
(* leaves them (StoredNames).  With it a name's slots are one at most, so  *)
(* the board the table stands for is read off any slot of the name, and    *)
(* every step is a step of PulseBoard or leaves the board alone.           *)
(***************************************************************************)
EXTENDS InboundControl, WellFoundedInduction, TLAPS

StoredNames ==
    \A i \in Slots :
        activeControls[i] # Inactive =>
            Truncated[activeControls[i].name] = activeControls[i].name

IInv == TypeOK /\ StoredNames /\ OneSlotPerName

-----------------------------------------------------------------------------
(* Operators of the table.                                                   *)

(* A loop that stops at the first entry of a non-empty set finds one of it.  *)
LEMMA FirstIn ==
    ASSUME NEW S \in SUBSET Slots, S # {}
    PROVE  First(S) \in S
<1>1. PICK i \in S : \A j \in S : ~(<<j, i>> \in OpToRel(<, Nat))
  <2>1. IsWellFoundedOn(OpToRel(<, Nat), Nat)
    BY NatLessThanWellFounded
  <2>2. S \subseteq Nat
    BY ConstantsAssumption DEF Slots
  <2>. QED  BY <2>1, <2>2, WFMin, Zenon
<1>2. ASSUME NEW j \in S PROVE i <= j
  <2>1. ~(<<j, i>> \in OpToRel(<, Nat))
    BY <1>1
  <2>2. ~(j < i)
    BY <2>1, ConstantsAssumption DEF OpToRel, Slots
  <2>. QED  BY <2>2, ConstantsAssumption DEF Slots
<1>. QED  BY <1>2 DEF First

LEMMA HoldTimeType ==
    ASSUME NEW d \in Durations
    PROVE  /\ HoldTime(d) \in HoldTimes
           /\ HoldTime(d) \in Nat \ {0}
  BY ConstantsAssumption DEF HoldTime, HoldTimes

LEMMA WornDownType ==
    ASSUME NEW p \in Pulses \cup {Inactive}, NEW dt \in FrameTimes
    PROVE  /\ WornDown(p, dt) \in Pulses \cup {Inactive}
           /\ WornDown(p, dt) # Inactive =>
                  /\ p # Inactive
                  /\ WornDown(p, dt).name = p.name
<1>1. CASE p = Inactive \/ p.left <= dt
  BY <1>1 DEF WornDown
<1>2. CASE ~(p = Inactive \/ p.left <= dt)
  <2>1. p \in Pulses /\ p.left - dt \in Nat \ {0}
    BY <1>2, ConstantsAssumption DEF Pulses
  <2>. QED  BY <1>2, <2>1 DEF WornDown, Pulses
<1>. QED  BY <1>1, <1>2

(* What a received hardware control is.                                      *)
LEMMA HeadIsCommand ==
    ASSUME TypeOK, queue # <<>>
    PROVE  /\ Head(queue) \in Commands
           /\ Tail(queue) \in Seq(Commands)
           /\ Head(queue).kind = "hw" => Head(queue) \in HWControls
           /\ Head(queue).kind = "weather" => Head(queue).data \in Weathers
<1>1. Head(queue) \in Commands /\ Tail(queue) \in Seq(Commands)
  BY DEF TypeOK
<1>2. Head(queue) \in HWControls \cup WeatherControls \cup Ignored
  BY <1>1, ConstantsAssumption
<1>. QED  BY <1>1, <1>2 DEF HWControls, WeatherControls, Ignored

(* The ways a press can go, each with the slot it writes.                    *)
LEMMA Applied ==
    ASSUME TypeOK, NEW n, NEW v, NEW d, ApplyHWControl(n, v, d)
    PROVE  \/ \E i \in Holding(n) : Write(i, n, v, d)
           \/ Holding(n) = {} /\ \E i \in Free : Write(i, n, v, d)
           \/ UNCHANGED <<activeControls, pressed>>
<1>1. Holding(n) # {} => First(Holding(n)) \in Holding(n)
  BY FirstIn DEF Holding
<1>2. Free # {} => First(Free) \in Free
  BY FirstIn DEF Free
<1>. QED  BY <1>1, <1>2 DEF ApplyHWControl

LEMMA WriteType ==
    ASSUME TypeOK, NEW i \in Slots, NEW n \in Names, NEW v \in Values,
           NEW d \in Durations, Write(i, n, v, d)
    PROVE  /\ activeControls' \in [Slots -> Pulses \cup {Inactive}]
           /\ pressed' \in [Names -> Values \cup {NoValue}]
           /\ activeControls'[i] = [name |-> Truncated[n], value |-> v,
                                    left |-> HoldTime(d)]
           /\ activeControls'[i] # Inactive
           /\ \A j \in Slots \ {i} : activeControls'[j] = activeControls[j]
<1>1. [name |-> Truncated[n], value |-> v, left |-> HoldTime(d)] \in Pulses
  BY HoldTimeType, ConstantsAssumption DEF Pulses
<1>. QED  BY <1>1, ConstantsAssumption DEF Write, TypeOK

-----------------------------------------------------------------------------
(* The invariant.                                                            *)

LEMMA EmptyQueue == <<>> \in Seq(Commands)
  OBVIOUS

LEMMA InvInit == Init => IInv
<1> SUFFICES ASSUME Init PROVE IInv
  OBVIOUS
<1>1. TypeOK
  BY EmptyQueue DEF Init, TypeOK, NothingPressed
<1>2. \A i \in Slots : activeControls[i] = Inactive
  BY DEF Init
<1>. QED  BY <1>1, <1>2 DEF IInv, StoredNames, OneSlotPerName

LEMMA TypeNext == TypeOK /\ [Next]_vars => TypeOK'
<1> SUFFICES ASSUME TypeOK, [Next]_vars PROVE TypeOK'
  OBVIOUS
<1> USE DEF TypeOK
<1>1. CASE Deliveries
  BY <1>1 DEF Deliveries, Deliver
<1>2. ASSUME NEW c \in Configs, NEW binds \in BOOLEAN, Startup(c, binds)
      PROVE  TypeOK'
  BY <1>2, ConstantsAssumption DEF Startup
<1>3. ASSUME NEW c \in Configs, StartupDisabled(c) \/ Reload(c)
      PROVE  TypeOK'
  BY <1>3 DEF StartupDisabled, Reload
<1>4. CASE Shutdown
  BY <1>4, EmptyQueue DEF Shutdown
<1>5. CASE BeginUpdate
  BY <1>5 DEF BeginUpdate, NothingPressed
<1>6. CASE Receive
  <2> DEFINE cmd == Head(queue)
  <2>1. /\ activeControls' \in [Slots -> Pulses \cup {Inactive}]
        /\ pressed' \in [Names -> Values \cup {NoValue}]
        /\ weatherOverride' \in Weathers \cup {NoOverride}
    <3>1. CASE cmd.kind = "hw" /\ ApplyHWControl(cmd.name, cmd.value,
                                                 cmd.duration)
                 /\ UNCHANGED weatherOverride
      <4>1. /\ cmd.name \in Names
            /\ cmd.value \in Values
            /\ cmd.duration \in Durations
        BY <1>6, <3>1, HeadIsCommand DEF Receive, HWControls
      <4>. HIDE DEF cmd
      <4>2. \/ \E i \in Slots : Write(i, cmd.name, cmd.value, cmd.duration)
            \/ UNCHANGED <<activeControls, pressed>>
        BY <3>1, Applied DEF Holding, Free
      <4>. QED  BY <3>1, <4>1, <4>2, WriteType
    <3>2. CASE cmd.kind = "weather" /\ weatherOverride' = cmd.data
                 /\ UNCHANGED <<activeControls, pressed>>
      BY <1>6, <3>2, HeadIsCommand DEF Receive
    <3>3. CASE UNCHANGED <<activeControls, weatherOverride, pressed>>
      BY <3>3
    <3>. QED  BY <1>6, <3>1, <3>2, <3>3 DEF Receive
  <2>. QED  BY <1>6, <2>1, HeadIsCommand DEF Receive
<1>7. ASSUME NEW dt \in FrameTimes, FinishUpdate(dt)
      PROVE  TypeOK'
  BY <1>7, WornDownType DEF FinishUpdate
<1>8. CASE AccessWeather
  BY <1>8 DEF AccessWeather
<1>9. CASE UNCHANGED vars
  BY <1>9 DEF vars
<1>. QED
  BY <1>1, <1>2, <1>3, <1>4, <1>5, <1>6, <1>7, <1>8, <1>9 DEF Next

(* The steps that touch the table.                                           *)
LEMMA TableStep ==
    ASSUME TypeOK, [Next]_vars
    PROVE  \/ UNCHANGED activeControls
           \/ activeControls' = [i \in Slots |-> Inactive]
           \/ \E dt \in FrameTimes :
                activeControls' =
                    [i \in Slots |-> WornDown(activeControls[i], dt)]
           \/ \E n \in Names, v \in Values, d \in Durations :
                \/ \E i \in Holding(n) : Write(i, n, v, d)
                \/ Holding(n) = {} /\ \E i \in Free : Write(i, n, v, d)
<1>1. CASE Receive
  <2> DEFINE cmd == Head(queue)
  <2>1. CASE cmd.kind = "hw" /\ ApplyHWControl(cmd.name, cmd.value,
                                               cmd.duration)
    <3>1. /\ cmd.name \in Names
          /\ cmd.value \in Values
          /\ cmd.duration \in Durations
      BY <1>1, <2>1, HeadIsCommand DEF Receive, HWControls
    <3>. HIDE DEF cmd
    <3>. QED  BY <2>1, <3>1, Applied
  <2>2. CASE UNCHANGED activeControls
    BY <2>2
  <2>. QED  BY <1>1, <2>1, <2>2 DEF Receive
<1>2. CASE ~Receive
  BY <1>2 DEF Next, Deliveries, Deliver, Startup, StartupDisabled, Reload, Shutdown,
              BeginUpdate, FinishUpdate, AccessWeather, vars
<1>. QED  BY <1>1, <1>2

(* Writing a slot keeps the names as truncation leaves them, and a plain     *)
(* name in one slot: an entry is only rewritten under its own name, and a    *)
(* free one is taken only by a name that has none.                           *)
LEMMA WriteInv ==
    ASSUME IInv, NEW n \in Names, NEW v \in Values, NEW d \in Durations,
           NEW i \in Slots, Write(i, n, v, d),
           i \in Holding(n) \/ (Holding(n) = {} /\ i \in Free)
    PROVE  StoredNames' /\ OneSlotPerName'
<1>1. /\ activeControls'[i].name = Truncated[n]
      /\ \A j \in Slots \ {i} : activeControls'[j] = activeControls[j]
  <2>1. /\ activeControls'[i] = [name |-> Truncated[n], value |-> v,
                                 left |-> HoldTime(d)]
        /\ \A j \in Slots \ {i} : activeControls'[j] = activeControls[j]
    BY WriteType DEF IInv
  <2>. QED  BY <2>1
<1>2. StoredNames'
  BY <1>1, ConstantsAssumption DEF IInv, StoredNames, Slots
<1>3. Truncated[n] \in PlainNames => n = Truncated[n]
  BY DEF PlainNames
<1>4. ASSUME NEW j \in Slots, j # i, activeControls[j] # Inactive,
             activeControls[j].name = Truncated[n],
             Truncated[n] \in PlainNames
      PROVE  FALSE
  <2>1. j \in Holding(n)
    BY <1>3, <1>4 DEF Holding
  <2>2. i \in Holding(n)
    BY <2>1
  <2>3. activeControls[i] # Inactive /\ activeControls[i].name = n
    BY <2>2 DEF Holding
  <2>. QED  BY <1>3, <1>4, <2>3 DEF IInv, OneSlotPerName
<1>5. OneSlotPerName'
  <2> SUFFICES ASSUME NEW j \in Slots, NEW k \in Slots,
                      activeControls'[j] # Inactive,
                      activeControls'[k] # Inactive,
                      activeControls'[j].name = activeControls'[k].name,
                      activeControls'[j].name \in PlainNames
               PROVE  j = k
    BY DEF OneSlotPerName, Slots, PlainNames
  <2>1. CASE j = i /\ k # i
    BY <2>1, <1>1, <1>4
  <2>2. CASE k = i /\ j # i
    BY <2>2, <1>1, <1>4
  <2>3. CASE j # i /\ k # i
    BY <2>3, <1>1 DEF IInv, OneSlotPerName
  <2>. QED  BY <2>1, <2>2, <2>3
<1>. QED  BY <1>2, <1>5

LEMMA InvNext == IInv /\ [Next]_vars => IInv'
<1> SUFFICES ASSUME IInv, [Next]_vars PROVE IInv'
  OBVIOUS
<1>1. TypeOK /\ TypeOK'
  BY TypeNext DEF IInv
<1>2. StoredNames' /\ OneSlotPerName'
  <2>1. CASE UNCHANGED activeControls
    BY <2>1 DEF IInv, StoredNames, OneSlotPerName, Slots
  <2>2. CASE activeControls' = [i \in Slots |-> Inactive]
    BY <2>2 DEF StoredNames, OneSlotPerName, Slots
  <2>3. ASSUME NEW dt \in FrameTimes,
               activeControls' =
                   [i \in Slots |-> WornDown(activeControls[i], dt)]
        PROVE  StoredNames' /\ OneSlotPerName'
    <3>1. \A i \in Slots :
            activeControls'[i] # Inactive =>
                /\ activeControls[i] # Inactive
                /\ activeControls'[i].name = activeControls[i].name
      BY <1>1, <2>3, WornDownType DEF TypeOK
    <3>2. StoredNames'
      BY <3>1 DEF IInv, StoredNames, Slots
    <3>3. OneSlotPerName'
      BY <3>1 DEF IInv, OneSlotPerName, Slots, PlainNames
    <3>. QED  BY <3>2, <3>3
  <2>4. ASSUME NEW n \in Names, NEW v \in Values, NEW d \in Durations,
               \/ \E i \in Holding(n) : Write(i, n, v, d)
               \/ Holding(n) = {} /\ \E i \in Free : Write(i, n, v, d)
        PROVE  StoredNames' /\ OneSlotPerName'
    BY <2>4, WriteInv DEF Holding, Free
  <2>. QED  BY <1>1, <2>1, <2>2, <2>3, <2>4, TableStep
<1>. QED  BY <1>1, <1>2 DEF IInv

LEMMA Invariance == Spec => []IInv
  BY InvInit, InvNext, PTL DEF Spec

-----------------------------------------------------------------------------

(* The variables keep their types: no timer of an active pulse runs out, and *)
(* the queue holds commands only.                                            *)
THEOREM InboundTypes == Spec => []TypeOK
<1>1. IInv => TypeOK
  BY DEF IInv
<1>. QED  BY <1>1, Invariance, PTL

(* A plain name never occupies two slots of the table, whatever its size.    *)
THEOREM NoControlHeldTwice == Spec => []OneSlotPerName
<1>1. IInv => OneSlotPerName
  BY DEF IInv
<1>. QED  BY <1>1, Invariance, PTL

-----------------------------------------------------------------------------
(* What the game reads.                                                      *)

(* No frame takes as long as the shortest press.                             *)
ShortFrames == \A dt \in FrameTimes, h \in HoldTimes : dt < h

(* While commands are drained, each plain name that was given a value has a  *)
(* slot with that value and the whole of a hold time left.                   *)
PressedInv ==
    phase = "polling" =>
        /\ initialized /\ config.inbound
        /\ \A n \in PlainNames :
              pressed[n] # NoValue =>
                  \E i \in Slots : /\ activeControls[i] # Inactive
                                   /\ activeControls[i].name = n
                                   /\ activeControls[i].value = pressed[n]
                                   /\ activeControls[i].left \in HoldTimes

(* A write leaves the slots of the other plain names alone.                  *)
LEMMA WritePressed ==
    ASSUME IInv, PressedInv, phase = "polling",
           NEW n \in Names, NEW v \in Values, NEW d \in Durations,
           NEW i \in Slots, Write(i, n, v, d),
           i \in Holding(n) \/ (Holding(n) = {} /\ i \in Free),
           UNCHANGED <<phase, initialized, config>>
    PROVE  PressedInv'
<1>1. /\ activeControls'[i] = [name |-> Truncated[n], value |-> v,
                               left |-> HoldTime(d)]
      /\ activeControls'[i] # Inactive
      /\ \A j \in Slots \ {i} : activeControls'[j] = activeControls[j]
  BY WriteType DEF IInv
<1>2. pressed' = [pressed EXCEPT ![n] = v] /\ pressed \in [Names -> Values \cup {NoValue}]
  BY DEF Write, IInv, TypeOK
<1>3. SUFFICES ASSUME NEW m \in PlainNames, pressed'[m] # NoValue
               PROVE  \E j \in Slots : /\ activeControls'[j] # Inactive
                                       /\ activeControls'[j].name = m
                                       /\ activeControls'[j].value = pressed'[m]
                                       /\ activeControls'[j].left \in HoldTimes
  BY DEF PressedInv, Slots, PlainNames, HoldTimes, HoldTime
<1>4. CASE m = n
  <2>1. Truncated[n] = n /\ HoldTime(d) \in HoldTimes /\ pressed'[n] = v
    BY <1>2, <1>4, HoldTimeType DEF PlainNames
  <2>. QED  BY <1>1, <1>4, <2>1
<1>5. CASE m # n
  <2>1. m \in Names /\ pressed'[m] = pressed[m]
    BY <1>2, <1>5 DEF PlainNames
  <2>2. PICK j \in Slots : /\ activeControls[j] # Inactive
                           /\ activeControls[j].name = m
                           /\ activeControls[j].value = pressed[m]
                           /\ activeControls[j].left \in HoldTimes
    BY <1>3, <2>1 DEF PressedInv
  <2>3. j # i
    BY <1>5, <2>2 DEF Holding, Free
  <2>. QED  BY <1>1, <2>1, <2>2, <2>3
<1>. QED  BY <1>4, <1>5

LEMMA PressedNext == IInv /\ PressedInv /\ [Next]_vars => PressedInv'
<1> SUFFICES ASSUME IInv, PressedInv, [Next]_vars PROVE PressedInv'
  OBVIOUS
<1>1. CASE UNCHANGED <<initialized, config, phase, activeControls, pressed>>
  BY <1>1 DEF PressedInv, Slots, PlainNames, HoldTimes, HoldTime
<1>2. CASE phase' = "idle"
  BY <1>2 DEF PressedInv
<1>3. CASE BeginUpdate
  <2>1. \A n \in PlainNames : pressed'[n] = NoValue
    BY <1>3 DEF BeginUpdate, NothingPressed, PlainNames
  <2>. QED  BY <1>3, <2>1 DEF BeginUpdate, PressedInv, PlainNames
<1>4. CASE Receive
  <2> DEFINE cmd == Head(queue)
  <2>1. CASE cmd.kind = "hw" /\ ApplyHWControl(cmd.name, cmd.value,
                                               cmd.duration)
    <3>1. /\ cmd.name \in Names
          /\ cmd.value \in Values
          /\ cmd.duration \in Durations
      BY <1>4, <2>1, HeadIsCommand DEF Receive, HWControls, IInv
    <3>2. phase = "polling" /\ UNCHANGED <<phase, initialized, config>>
      BY <1>4 DEF Receive
    <3>. HIDE DEF cmd
    <3>3. CASE UNCHANGED <<activeControls, pressed>>
      BY <1>1, <3>2, <3>3
    <3>4. CASE ~UNCHANGED <<activeControls, pressed>>
      <4>1. PICK i \in Slots :
              /\ Write(i, cmd.name, cmd.value, cmd.duration)
              /\ \/ i \in Holding(cmd.name)
                 \/ Holding(cmd.name) = {} /\ i \in Free
        BY <2>1, <3>4, Applied DEF IInv, Holding, Free
      <4>. QED  BY <3>1, <3>2, <4>1, WritePressed
    <3>. QED  BY <3>3, <3>4
  <2>2. CASE UNCHANGED <<activeControls, pressed>>
    BY <1>1, <1>4, <2>2 DEF Receive
  <2>. QED  BY <1>4, <2>1, <2>2 DEF Receive
<1>5. CASE ~BeginUpdate /\ ~Receive
  BY <1>1, <1>2, <1>5 DEF Next, Deliveries, Deliver, Startup, StartupDisabled,
      Reload, Shutdown, FinishUpdate, AccessWeather, vars
<1>. QED  BY <1>3, <1>4, <1>5

(* One frame's wear leaves the game's reading of a name given a value.       *)
LEMMA PressIsRead ==
    ASSUME IInv, IInv', PressedInv, ShortFrames, NEW dt \in FrameTimes,
           FinishUpdate(dt), NEW g \in GameNames, Unambiguous(g),
           pressed[Clean[g]] # NoValue
    PROVE  CheckHWControl(g)' = pressed[Clean[g]]
<1> DEFINE n == Clean[g]
<1>1. n \in PlainNames /\ n \in Names
  BY DEF Unambiguous, PlainNames
<1>2. PICK i \in Slots : /\ activeControls[i] # Inactive
                         /\ activeControls[i].name = n
                         /\ activeControls[i].value = pressed[n]
                         /\ activeControls[i].left \in HoldTimes
  BY <1>1 DEF FinishUpdate, PressedInv
<1>3. activeControls[i] \in Pulses /\ ~(activeControls[i].left <= dt)
  <2>1. activeControls[i] \in Pulses /\ activeControls[i].left \in Nat /\ dt \in Nat
    BY <1>2, ConstantsAssumption DEF IInv, TypeOK, Pulses
  <2>2. dt < activeControls[i].left
    BY <1>2 DEF ShortFrames
  <2>. QED  BY <2>1, <2>2
<1>4. activeControls'[i] = [activeControls[i] EXCEPT !.left = @ - dt]
  BY <1>2, <1>3 DEF FinishUpdate, WornDown
<1>5. /\ activeControls'[i].name = n
      /\ activeControls'[i].value = pressed[n]
  BY <1>2, <1>3, <1>4 DEF Pulses
<1>6. activeControls'[i] # Inactive
  BY <1>2, <1>3, <1>4, ConstantsAssumption DEF Pulses
<1> DEFINE matching == {j \in Slots : /\ activeControls'[j] # Inactive
                                      /\ activeControls'[j].name \in {g, n}}
<1>7. matching = {i}
  <2>1. ASSUME NEW j \in matching PROVE j = i
    <3>1. activeControls'[j] \in Pulses
      BY <2>1 DEF IInv, TypeOK, Slots
    <3>2. activeControls'[j].name = n
      BY <2>1, <3>1 DEF Pulses, Unambiguous
    <3>. QED  BY <1>1, <1>5, <1>6, <2>1, <3>2
              DEF IInv, OneSlotPerName, Slots, PlainNames
  <2>. QED  BY <1>5, <1>6, <2>1
<1>8. First({i}) = i
  BY FirstIn
<1>9. initialized' /\ config'.inbound
  BY DEF FinishUpdate, PressedInv
<1>10. CheckHWControl(g)' = activeControls'[First(matching)].value
  BY <1>7, <1>9 DEF CheckHWControl, Slots, First
<1>. QED  BY <1>5, <1>7, <1>8, <1>10

(* Where no frame outlasts the shortest press, the game reads every press    *)
(* the drain found a slot for, however full the table, whatever names and    *)
(* reloads.  (A run shows the press lost where a frame does outlast it.)     *)
THEOREM PressesAreRead ==
    ASSUME ShortFrames
    PROVE  Spec => PressReachesTheGame
<1>1. Init => PressedInv
  BY DEF Init, PressedInv
<1>2. Spec => [](IInv /\ PressedInv)
  BY <1>1, InvInit, InvNext, PressedNext, PTL DEF Spec
<1>3. IInv /\ IInv' /\ PressedInv /\ [Next]_vars =>
        [\A dt \in FrameTimes : FinishUpdate(dt) =>
            \A g \in GameNames :
                Unambiguous(g) /\ pressed[Clean[g]] # NoValue =>
                    CheckHWControl(g)' = pressed[Clean[g]]]_vars
  BY PressIsRead
<1>. QED  BY <1>2, <1>3, PTL DEF Spec, PressReachesTheGame

-----------------------------------------------------------------------------
(* The table implements a PulseBoard.                                        *)

Holds(i, n) == activeControls[i] # Inactive /\ activeControls[i].name = n

(* What the board shows for n is what any slot of n holds.                   *)
BoardFact ==
    \A n \in PlainNames :
        /\ \A i \in Slots :
              Holds(i, n) =>
                  BoardOf(n) = [value |-> activeControls[i].value,
                                left |-> activeControls[i].left]
        /\ (\A i \in Slots : ~Holds(i, n)) => BoardOf(n) = Inactive

LEMMA BoardRead == IInv => BoardFact
<1> SUFFICES ASSUME IInv, NEW n \in PlainNames
             PROVE  /\ \A i \in Slots :
                          Holds(i, n) =>
                              BoardOf(n) =
                                  [value |-> activeControls[i].value,
                                   left |-> activeControls[i].left]
                    /\ (\A i \in Slots : ~Holds(i, n)) =>
                          BoardOf(n) = Inactive
  BY DEF BoardFact
<1>1. ASSUME NEW i \in Slots, Holds(i, n)
      PROVE  BoardOf(n) = [value |-> activeControls[i].value,
                           left |-> activeControls[i].left]
  <2>1. Holding(n) = {i}
    BY <1>1 DEF Holding, Holds, IInv, OneSlotPerName
  <2>2. First({i}) = i
    BY FirstIn
  <2>. QED  BY <2>1, <2>2 DEF BoardOf
<1>2. (\A i \in Slots : ~Holds(i, n)) => BoardOf(n) = Inactive
  BY DEF Holding, Holds, BoardOf
<1>. QED  BY <1>1, <1>2

LEMMA BoardReadNext == IInv' => BoardFact'
  BY BoardRead, PTL

LEMMA BoardInit == Init => Board!Init
<1> SUFFICES ASSUME Init PROVE Board!Init
  OBVIOUS
<1>1. ASSUME NEW n \in PlainNames PROVE BoardOf(n) = Inactive
  BY DEF Init, BoardOf, Holding
<1>. QED  BY <1>1 DEF Board!Init, HeldNow

(* Plain names whose slots a step leaves alone keep their pulse.             *)
LEMMA SamePulse ==
    ASSUME IInv, IInv', NEW m \in PlainNames,
           \A j \in Slots : Holds(j, m) <=> Holds(j, m)',
           \A j \in Slots :
                Holds(j, m) => activeControls'[j] = activeControls[j]
    PROVE  BoardOf(m)' = BoardOf(m)
<1>1. BoardFact /\ BoardFact'
  BY BoardRead, BoardReadNext
<1>2. CASE \E j \in Slots : Holds(j, m)
  <2>1. PICK j \in Slots : Holds(j, m)
    BY <1>2
  <2>2. BoardOf(m) = [value |-> activeControls[j].value,
                      left |-> activeControls[j].left]
    BY <1>1, <2>1 DEF BoardFact
  <2>3. BoardOf(m)' = [value |-> activeControls'[j].value,
                       left |-> activeControls'[j].left]
    BY <1>1, <2>1 DEF BoardFact, PlainNames, Slots
  <2>. QED  BY <2>1, <2>2, <2>3
<1>3. CASE \A j \in Slots : ~Holds(j, m)
  <2>1. BoardOf(m) = Inactive
    BY <1>1, <1>3 DEF BoardFact
  <2>2. BoardOf(m)' = Inactive
    BY <1>1, <1>3 DEF BoardFact, PlainNames, Slots
  <2>. QED  BY <2>1, <2>2
<1>. QED  BY <1>2, <1>3

(* Wearing every slot down is time passing on the board.                     *)
LEMMA WearIsPass ==
    ASSUME IInv, IInv', NEW dt \in FrameTimes,
           activeControls' =
               [i \in Slots |-> WornDown(activeControls[i], dt)]
    PROVE  Board!Pass(dt)
<1>1. BoardFact /\ BoardFact'
  BY BoardRead, BoardReadNext
<1>2. ASSUME NEW j \in Slots
      PROVE  /\ activeControls[j] \in Pulses \cup {Inactive}
             /\ activeControls'[j] = WornDown(activeControls[j], dt)
  BY <1>2 DEF IInv, TypeOK
<1>3. ASSUME NEW n \in PlainNames
      PROVE  BoardOf(n)' = Board!WornDown(BoardOf(n), dt)
  <2>1. CASE \A j \in Slots : ~Holds(j, n)
    <3>1. \A j \in Slots : ~Holds(j, n)'
      BY <2>1, <1>2, WornDownType DEF Holds
    <3>2. BoardOf(n) = Inactive
      BY <1>1, <2>1 DEF BoardFact
    <3>3. BoardOf(n)' = Inactive
      BY <1>1, <3>1 DEF BoardFact, PlainNames, Slots
    <3>. QED  BY <3>2, <3>3 DEF Board!WornDown
  <2>2. ASSUME NEW i \in Slots, Holds(i, n)
        PROVE  BoardOf(n)' = Board!WornDown(BoardOf(n), dt)
    <3> DEFINE p == activeControls[i]
    <3>1. p \in Pulses /\ p.name = n /\ p # Inactive
      BY <1>2, <2>2 DEF Holds
    <3>2. BoardOf(n) = [value |-> p.value, left |-> p.left]
      BY <1>1, <2>2 DEF BoardFact
    <3>3. BoardOf(n) # Inactive
      <4>1. [value |-> p.value, left |-> p.left]
                \in [value : Values, left : Nat \ {0}]
        BY <3>1 DEF Pulses
      <4>. QED  BY <3>2, <4>1, ConstantsAssumption
    <3>4. CASE p.left <= dt
      <4>1. \A j \in Slots : ~Holds(j, n)'
        <5>1. \A j \in Slots : Holds(j, n) => j = i
          BY <2>2 DEF Holds, IInv, OneSlotPerName
        <5>2. activeControls'[i] = Inactive
          BY <1>2, <3>4 DEF WornDown
        <5>. QED  BY <5>1, <5>2, <1>2, WornDownType DEF Holds
      <4>2. BoardOf(n)' = Inactive
        BY <1>1, <4>1 DEF BoardFact, PlainNames, Slots
      <4>. QED  BY <3>2, <3>4, <4>2 DEF Board!WornDown
    <3>5. CASE ~(p.left <= dt)
      <4>1. activeControls'[i] = [p EXCEPT !.left = @ - dt]
        BY <1>2, <3>1, <3>5 DEF WornDown
      <4>2. /\ activeControls'[i].name = n
            /\ activeControls'[i].value = p.value
            /\ activeControls'[i].left = p.left - dt
        BY <3>1, <4>1 DEF Pulses
      <4>3. activeControls'[i] # Inactive
        <5>1. p.left - dt \in Nat \ {0}
          BY <3>1, <3>5, ConstantsAssumption DEF Pulses
        <5>2. activeControls'[i] \in Pulses
          BY <3>1, <4>1, <5>1 DEF Pulses
        <5>. QED  BY <5>2, ConstantsAssumption
      <4>4. BoardOf(n)' = [value |-> p.value, left |-> p.left - dt]
        BY <1>1, <4>2, <4>3 DEF BoardFact, PlainNames, Slots, Holds
      <4>. QED  BY <3>2, <3>3, <3>5, <4>4 DEF Board!WornDown
    <3>. QED  BY <3>4, <3>5
  <2>. QED  BY <2>1, <2>2
<1>. QED  BY <1>3 DEF Board!Pass, HeldNow, PlainNames

(* Writing a slot is a press of its name, or nothing to plain names.         *)
LEMMA WriteIsPress ==
    ASSUME IInv, IInv', NEW n \in Names, NEW v \in Values,
           NEW d \in Durations, NEW i \in Slots, Write(i, n, v, d),
           i \in Holding(n) \/ (Holding(n) = {} /\ i \in Free)
    PROVE  \/ n \in PlainNames /\ Board!Press(n, v, HoldTime(d))
           \/ UNCHANGED HeldNow
<1>1. BoardFact'
  BY BoardReadNext
<1>2. /\ activeControls'[i] = [name |-> Truncated[n], value |-> v,
                               left |-> HoldTime(d)]
      /\ activeControls'[i] # Inactive
      /\ \A j \in Slots \ {i} : activeControls'[j] = activeControls[j]
  BY WriteType DEF IInv
<1>3. Truncated[n] \in PlainNames => n = Truncated[n]
  BY DEF PlainNames
<1>4. ASSUME NEW m \in PlainNames, m # n
      PROVE  BoardOf(m)' = BoardOf(m)
  <2>1. ~Holds(i, m)
    BY <1>4 DEF Holding, Free, Holds
  <2>2. ~Holds(i, m)'
    BY <1>2, <1>3, <1>4 DEF Holds
  <2>. QED  BY <2>1, <2>2, <1>2, SamePulse DEF Holds
<1>5. CASE n \in PlainNames
  <2>1. Truncated[n] = n
    BY <1>5 DEF PlainNames
  <2>2. BoardOf(n)' = [value |-> v, left |-> HoldTime(d)]
    <3>1. Holds(i, n)'
      BY <1>2, <2>1 DEF Holds
    <3>2. BoardOf(n)' = [value |-> activeControls'[i].value,
                         left |-> activeControls'[i].left]
      BY <1>1, <1>5, <3>1 DEF BoardFact, PlainNames, Slots
    <3>. QED  BY <1>2, <3>2
  <2>3. HeldNow' = [HeldNow EXCEPT ![n] = [value |-> v,
                                           left |-> HoldTime(d)]]
    BY <1>4, <1>5, <2>2 DEF HeldNow, PlainNames
  <2>. QED  BY <1>5, <2>3 DEF Board!Press
<1>6. CASE n \notin PlainNames
  BY <1>4, <1>6 DEF HeldNow, PlainNames
<1>. QED  BY <1>5, <1>6

LEMMA BoardStep == IInv /\ IInv' /\ [Next]_vars => [Board!Next]_HeldNow
<1> SUFFICES ASSUME IInv, IInv', [Next]_vars PROVE [Board!Next]_HeldNow
  OBVIOUS
<1>1. CASE UNCHANGED activeControls
  BY <1>1 DEF HeldNow, BoardOf, Holding, First, Slots, PlainNames
<1>2. CASE activeControls' = [i \in Slots |-> Inactive]
  <2>1. \A n \in PlainNames : BoardOf(n)' = Inactive
    BY <1>2 DEF BoardOf, Holding, Slots
  <2>. QED  BY <2>1 DEF HeldNow, PlainNames, Board!Next, Board!Clear
<1>3. ASSUME NEW dt \in FrameTimes,
             activeControls' =
                 [i \in Slots |-> WornDown(activeControls[i], dt)]
      PROVE  [Board!Next]_HeldNow
  BY <1>3, WearIsPass DEF Board!Next
<1>4. ASSUME NEW n \in Names, NEW v \in Values, NEW d \in Durations,
             \/ \E i \in Holding(n) : Write(i, n, v, d)
             \/ Holding(n) = {} /\ \E i \in Free : Write(i, n, v, d)
      PROVE  [Board!Next]_HeldNow
  <2>1. PICK i \in Slots :
          /\ Write(i, n, v, d)
          /\ i \in Holding(n) \/ (Holding(n) = {} /\ i \in Free)
    BY <1>4 DEF Holding, Free
  <2>2. \/ n \in PlainNames /\ Board!Press(n, v, HoldTime(d))
        \/ UNCHANGED HeldNow
    BY <2>1, WriteIsPress
  <2>. QED  BY <2>2, HoldTimeType DEF Board!Next
<1>. QED  BY <1>1, <1>2, <1>3, <1>4, TableStep DEF IInv

(* The 32 slots behave as one pulse per control: the plugin's table          *)
(* implements PulseBoard, whatever its size and whatever names are sent.     *)
THEOREM TableImplementsBoard == Spec => IsABoard
<1>1. Init => Board!Init
  BY BoardInit
<1>2. IInv /\ IInv' /\ [Next]_vars => [Board!Next]_HeldNow
  BY BoardStep
<1>. QED  BY <1>1, <1>2, Invariance, PTL DEF Spec, IsABoard, Board!Spec

=============================================================================
