------------------------ MODULE PulseManager_proofs ------------------------
(***************************************************************************)
(* Proofs about the manager: that the application uses its engine as       *)
(* TelemetryEngine allows, that packets are processed in the order they    *)
(* were received although no lock guards the pending list, which of them   *)
(* can be lost, and that the screen shows what the engine holds.           *)
(*                                                                         *)
(* The reason is the packet in the subscriber's hands.  It is the newest   *)
(* one, and there is only one: whatever list it is put into, everything    *)
(* in the lists and everything processed is older.  And once poll has      *)
(* taken the list it was meant for, nothing is put into the new list until *)
(* that packet has been put down.                                          *)
(***************************************************************************)
EXTENDS PulseManager, SequenceTheorems, FiniteSetTheorems, TLAPS

-----------------------------------------------------------------------------
(* The application and its engine.                                           *)

AppInv ==
    /\ app = "new" => received = 0 /\ grip = "none" /\ ~polling
    /\ app \in {"failed", "stopping"} => ~reading

LEMMA AppInvPreserved ==
    ASSUME AppInv, [Next]_vars
    PROVE  AppInv'
    <1> USE DEF AppInv
    <1>1. CASE Mount
        BY <1>1 DEF Mount
    <1>2. CASE \/ \E n \in Navs : SelectNav(n)
               \/ \E t \in Visited : PickTab(t) \/ SelectTab(t)
               \/ ActivateTab \/ ActivateNav
               \/ \E q \in Queries : Search(q)
               \/ \E published \in BOOLEAN : SendCommand(published)
        BY <1>2 DEF SelectNav, PickTab, SelectTab, ActivateTab, ActivateNav,
            Search, SendCommand, Idle, engineVars, lists, callback
    <1>3. CASE ResetStatistics
        BY <1>3 DEF ResetStatistics, ResetStats, Idle, lists, callback
    <1>4. CASE UpdateBegin \/ Updating
        BY <1>4 DEF UpdateBegin, Updating, UpdatePacket, UpdateRaises, UpdateEnd,
            Idle, ProcessPacket, PollRaises, uiVars
    <1>5. CASE Unmount \/ Stopped
        BY <1>5 DEF Unmount, Stopped, Idle, EngineStop, engineVars, lists,
            callback
    <1>6. CASE Subscribing
        BY <1>6 DEF Subscribing, PutDown, Take, uiVars, lists
    <1>7. CASE UNCHANGED vars
        BY <1>7 DEF vars, engineVars, uiVars, lists, callback
    <1> QED BY <1>1, <1>2, <1>3, <1>4, <1>5, <1>6, <1>7 DEF Next

(* What a step of the application may do to its engine.                      *)
LEMMA StepsOfTheEngine ==
    ASSUME AppInv, [Next]_vars
    PROVE  [EngineNext]_engineVars
    <1> USE DEF AppInv, EngineNext
    <1>1. CASE Mount
        BY <1>1 DEF Mount
    <1>2. CASE \/ \E n \in Navs : SelectNav(n)
               \/ \E t \in Visited : PickTab(t) \/ SelectTab(t)
               \/ ActivateTab \/ ActivateNav
               \/ \E q \in Queries : Search(q)
               \/ \E published \in BOOLEAN : SendCommand(published)
        BY <1>2 DEF SelectNav, PickTab, SelectTab, ActivateTab, ActivateNav,
            Search, SendCommand
    <1>3. CASE ResetStatistics
        BY <1>3 DEF ResetStatistics, Idle
    <1>4. CASE UpdateBegin \/ Updating
        BY <1>4 DEF UpdateBegin, Updating, UpdatePacket, UpdateRaises, UpdateEnd
    <1>5. CASE Unmount \/ Stopped
        BY <1>5 DEF Unmount, Stopped
    <1>6. CASE Subscribing
        BY <1>6 DEF Subscribing
    <1>7. CASE UNCHANGED vars
        BY <1>7 DEF vars
    <1> QED BY <1>1, <1>2, <1>3, <1>4, <1>5, <1>6, <1>7 DEF Next

(* However the user moves through the application, and however it ends, its  *)
(* engine is started, polled, reset and stopped only as TelemetryEngine      *)
(* describes: never stopped within a poll, nor while a packet is put down.   *)
THEOREM ManagerUsesEngine == Spec => EngineSpec
    <1>1. Init => EngineInit /\ AppInv
        BY DEF Init, EngineInit, AppInv
    <1>2. AppInv /\ [Next]_vars => AppInv'
        BY AppInvPreserved
    <1>3. AppInv /\ [Next]_vars => [EngineNext]_engineVars
        BY StepsOfTheEngine
    <1> QED BY <1>1, <1>2, <1>3, PTL DEF Spec, EngineSpec


-----------------------------------------------------------------------------
(* Lists of packets, the older before the newer.                             *)

Items == {Numbered(m, n) : m \in Feed, n \in Nat}

Sorted(list) ==
    \A i, j \in DOMAIN list : i < j => list[i].number < list[j].number

(* Every packet of the list was received after all of the set.               *)
NewerThan(list, old) ==
    \A i \in DOMAIN list : list[i].number \in Nat /\ \A n \in old : n < list[i].number

AllBelow(list, n) == \A i \in DOMAIN list : list[i].number < n

(* The packet in the subscriber's hands.                                     *)
InHand ==
    /\ grip \in {"none", "inbox", "batch", "orphan"}
    /\ grip = "none" => carried = <<>>
    /\ grip # "none" =>
        /\ Len(carried) = 1
        /\ carried[1].number = received
        /\ AllBelow(inbox, received) /\ AllBelow(batch, received)
        /\ \A n \in processed : n < received
    /\ grip \in {"batch", "orphan"} => inbox = <<>>

QueueInv ==
    /\ received \in Nat
    /\ processed \in SUBSET Nat
    /\ \A n \in processed : n <= received
    /\ inbox \in Seq(Items) /\ batch \in Seq(Items) /\ carried \in Seq(Items)
    /\ Sorted(inbox) /\ Sorted(batch)
    /\ NewerThan(inbox, processed) /\ NewerThan(batch, processed)
    /\ AllBelow(inbox, received + 1) /\ AllBelow(batch, received + 1)
    /\ \A i \in DOMAIN batch, j \in DOMAIN inbox : batch[i].number < inbox[j].number
    /\ InHand
    /\ DOMAIN latest = Kinds /\ latest = [k \in Kinds |-> latest[k]]
    /\ \A k \in Kinds : latest[k].number \in processed \cup {0}

(* A newer packet at the end of a list.                                      *)
LEMMA PutAtTheEnd ==
    ASSUME NEW s \in Seq(Items), NEW c \in Seq(Items), Len(c) = 1
    PROVE  /\ s \o c \in Seq(Items)
           /\ DOMAIN (s \o c) = 1 .. (Len(s) + 1)
           /\ \A i \in DOMAIN s : (s \o c)[i] = s[i]
           /\ (s \o c)[Len(s) + 1] = c[1]
           /\ DOMAIN s = 1 .. Len(s) /\ Len(s) \in Nat
    <1>1. /\ Len(s \o c) = Len(s) + 1
          /\ s \o c \in Seq(Items)
          /\ \A i \in 1 .. Len(s) + 1 :
                (s \o c)[i] = IF i <= Len(s) THEN s[i] ELSE c[i - Len(s)]
          /\ DOMAIN s = 1 .. Len(s) /\ Len(s) \in Nat
        BY ConcatProperties
    <1>2. DOMAIN (s \o c) = 1 .. Len(s) + 1
        BY <1>1
    <1>3. (s \o c)[Len(s) + 1] = c[1]
        <2>1. Len(s) + 1 \in 1 .. Len(s) + 1 /\ ~(Len(s) + 1 <= Len(s))
              /\ Len(s) + 1 - Len(s) = 1
            BY <1>1
        <2> QED BY <1>1, <2>1
    <1> QED BY <1>1, <1>2, <1>3

(* The rest of a list after its oldest packet.                               *)
LEMMA TakeTheFirst ==
    ASSUME NEW s \in Seq(Items), s # <<>>
    PROVE  /\ Tail(s) \in Seq(Items)
           /\ 1 \in DOMAIN s /\ Head(s) = s[1]
           /\ \A i \in DOMAIN Tail(s) :
                i \in Nat /\ i + 1 \in DOMAIN s /\ Tail(s)[i] = s[i + 1] /\ i >= 1
    <1>1. /\ Len(s) \in Nat /\ Len(s) # 0 /\ DOMAIN s = 1 .. Len(s)
          /\ Tail(s) \in Seq(Items)
          /\ Len(Tail(s)) = Len(s) - 1
          /\ \A i \in 1 .. Len(Tail(s)) : Tail(s)[i] = s[i + 1]
          /\ Head(s) = s[1]
        BY HeadTailProperties, EmptySeq
    <1> QED BY <1>1


-----------------------------------------------------------------------------
(* QueueInv is inductive.                                                    *)

LEMMA TakeQueue ==
    ASSUME QueueInv, NEW m \in Feed, Take(m)
    PROVE  QueueInv'
    <1> USE DEF QueueInv, Take, lists, models, histories
    <1> DEFINE c == Numbered(m, received + 1)
    <1>1. c \in Items /\ c.number = received + 1
        <2>1. received + 1 \in Nat
            OBVIOUS
        <2>2. c \in Items
            BY <2>1 DEF Items
        <2> QED BY <2>2 DEF Numbered
    <1>2. carried' \in Seq(Items) /\ Len(carried') = 1 /\ carried'[1] = c
        BY <1>1
    <1>3. AllBelow(inbox, received + 1)' /\ AllBelow(batch, received + 1)'
        BY DEF AllBelow, NewerThan
    <1>4. InHand'
        <2>1. inbox' = inbox /\ batch' = batch /\ processed' = processed
              /\ received' = received + 1 /\ grip' = "inbox"
            OBVIOUS
        <2>2. \A n \in processed : n < received + 1
            OBVIOUS
        <2> QED BY <1>1, <1>2, <2>1, <2>2 DEF InHand, AllBelow
    <1>5. /\ Sorted(inbox)' /\ Sorted(batch)'
          /\ NewerThan(inbox, processed)' /\ NewerThan(batch, processed)'
        BY DEF Sorted, NewerThan
    <1> QED BY <1>2, <1>3, <1>4, <1>5

(* What it means to put the packet in hand at the end of a list.             *)
LEMMA NewestAtTheEnd ==
    ASSUME QueueInv, grip # "none", NEW s \in Seq(Items),
           Sorted(s), NewerThan(s, processed), AllBelow(s, received)
    PROVE  /\ s \o carried \in Seq(Items)
           /\ Sorted(s \o carried)
           /\ NewerThan(s \o carried, processed)
           /\ AllBelow(s \o carried, received + 1)
    <1> USE DEF QueueInv, InHand
    <1> DEFINE t == s \o carried
    <1>1. /\ t \in Seq(Items)
          /\ DOMAIN t = 1 .. (Len(s) + 1)
          /\ \A i \in DOMAIN s : t[i] = s[i]
          /\ t[Len(s) + 1] = carried[1]
          /\ DOMAIN s = 1 .. Len(s) /\ Len(s) \in Nat
        BY PutAtTheEnd
    <1> HIDE DEF t
    <1>2. t[Len(s) + 1].number = received /\ received \in Nat
        BY <1>1
    <1>3. \A i \in DOMAIN s : t[i].number = s[i].number /\ s[i].number < received
                              /\ s[i].number \in Nat
        BY <1>1 DEF AllBelow, NewerThan
    <1>4. \A i \in DOMAIN t : i \in DOMAIN s \/ i = Len(s) + 1
        BY <1>1
    <1>5. Sorted(t)
        BY <1>1, <1>2, <1>3, <1>4 DEF Sorted
    <1>6. NewerThan(t, processed)
        BY <1>2, <1>3, <1>4 DEF NewerThan
    <1>7. AllBelow(t, received + 1)
        BY <1>2, <1>3, <1>4 DEF AllBelow
    <1> QED BY <1>1, <1>5, <1>6, <1>7 DEF t

LEMMA PutDownQueue ==
    ASSUME QueueInv, PutDown
    PROVE  QueueInv'
    <1> USE DEF PutDown, models
    <1>1. InHand'
        BY DEF InHand, QueueInv
    <1>2. carried' \in Seq(Items)
        BY DEF QueueInv
    <1>3. CASE grip = "orphan"
        BY <1>1, <1>2, <1>3 DEF QueueInv, Sorted, NewerThan, AllBelow
    <1>4. CASE grip = "batch"
        <2>1. /\ batch' \in Seq(Items)
              /\ Sorted(batch') /\ NewerThan(batch', processed)
              /\ AllBelow(batch', received + 1)
            BY <1>4, NewestAtTheEnd DEF QueueInv, InHand
        <2>2. inbox = <<>> /\ inbox' = inbox
            BY <1>4 DEF QueueInv, InHand
        <2> QED BY <1>1, <1>2, <2>1, <2>2 DEF QueueInv, Sorted, NewerThan, AllBelow
    <1>5. CASE grip = "inbox"
        <2>1. /\ inbox' \in Seq(Items)
              /\ Sorted(inbox') /\ NewerThan(inbox', processed)
              /\ AllBelow(inbox', received + 1)
            BY <1>5, NewestAtTheEnd DEF QueueInv, InHand
        <2>2. batch' = batch /\ inbox' = inbox \o carried
            BY <1>5
        <2>3. \A i \in DOMAIN batch, j \in DOMAIN inbox' :
                batch[i].number < inbox'[j].number
            <3>1. /\ DOMAIN inbox' = 1 .. (Len(inbox) + 1)
                  /\ \A i \in DOMAIN inbox : inbox'[i] = inbox[i]
                  /\ inbox'[Len(inbox) + 1] = carried[1]
                  /\ DOMAIN inbox = 1 .. Len(inbox) /\ Len(inbox) \in Nat
                BY <1>5, <2>2, PutAtTheEnd DEF QueueInv, InHand
            <3>2. \A j \in DOMAIN inbox' : j \in DOMAIN inbox \/ j = Len(inbox) + 1
                BY <3>1
            <3>3. carried[1].number = received /\ AllBelow(batch, received)
                BY <1>5 DEF QueueInv, InHand
            <3> QED BY <3>1, <3>2, <3>3 DEF QueueInv, AllBelow
        <2> QED BY <1>1, <1>2, <2>1, <2>2, <2>3
                DEF QueueInv, Sorted, NewerThan, AllBelow
    <1> QED BY <1>3, <1>4, <1>5 DEF QueueInv, InHand

LEMMA PollBeginQueue ==
    ASSUME QueueInv, PollBegin
    PROVE  QueueInv'
    <1> USE DEF PollBegin, models, histories
    <1>1. inbox' = <<>> /\ <<>> \in Seq(Items) /\ DOMAIN inbox' = {}
        OBVIOUS
    <1>2. InHand'
        BY <1>1 DEF InHand, QueueInv, AllBelow
    <1> QED BY <1>1, <1>2 DEF QueueInv, Sorted, NewerThan, AllBelow

LEMMA PollLeavesQueue ==
    ASSUME QueueInv, PollRaises \/ PollEnd
    PROVE  QueueInv'
    <1> USE DEF PollRaises, PollEnd, models, histories
    <1>1. batch' = <<>> /\ <<>> \in Seq(Items) /\ DOMAIN batch' = {}
        OBVIOUS
    <1>2. InHand'
        BY <1>1 DEF InHand, QueueInv, AllBelow
    <1> QED BY <1>1, <1>2 DEF QueueInv, Sorted, NewerThan, AllBelow

LEMMA EngineStartQueue ==
    ASSUME QueueInv, received = 0, EngineStart
    PROVE  QueueInv'
    <1> USE DEF EngineStart, callback, models, histories
    <1>1. inbox' = <<>> /\ <<>> \in Seq(Items) /\ DOMAIN inbox' = {}
        OBVIOUS
    <1>2. InHand'
        BY <1>1 DEF InHand, QueueInv, AllBelow
    <1> QED BY <1>1, <1>2 DEF QueueInv, Sorted, NewerThan, AllBelow

(* The oldest packet of the list is processed: newer than all processed      *)
(* before, older than all that remain.                                       *)
LEMMA ProcessPacketQueue ==
    ASSUME QueueInv, ProcessPacket
    PROVE  /\ QueueInv'
           /\ \A n \in processed' \ processed : \A old \in processed : old < n
           /\ \A k \in Kinds : latest'[k].number >= latest[k].number
    <1> DEFINE p == Head(batch)
    <1>1. /\ batch' = Tail(batch) /\ processed' = processed \cup {p.number}
          /\ latest' = latest \/ latest' = [latest EXCEPT ![p.kind] = p]
          /\ UNCHANGED <<inbox, grip, carried, received>>
        BY DEF ProcessPacket, callback
    <1>2. /\ batch' \in Seq(Items)
          /\ 1 \in DOMAIN batch /\ p = batch[1]
          /\ \A i \in DOMAIN batch' :
                i \in Nat /\ i + 1 \in DOMAIN batch /\ batch'[i] = batch[i + 1] /\ i >= 1
        BY <1>1, TakeTheFirst DEF QueueInv, ProcessPacket
    <1> HIDE DEF p
    <1>3. /\ p.number \in Nat /\ p.number <= received
          /\ \A old \in processed : old < p.number
        BY <1>2 DEF QueueInv, NewerThan, AllBelow
    <1>4. \A i \in DOMAIN batch' : batch'[i].number \in Nat /\ p.number < batch'[i].number
        BY <1>2 DEF QueueInv, Sorted, NewerThan
    <1>5. \A j \in DOMAIN inbox : p.number < inbox[j].number
        BY <1>2 DEF QueueInv
    <1>6. Sorted(batch')
        <2> SUFFICES ASSUME NEW i \in DOMAIN batch', NEW j \in DOMAIN batch', i < j
                     PROVE  batch'[i].number < batch'[j].number
            BY DEF Sorted
        <2>1. i + 1 \in DOMAIN batch /\ j + 1 \in DOMAIN batch /\ i + 1 < j + 1
            BY <1>2
        <2> QED BY <1>2, <2>1 DEF QueueInv, Sorted
    <1>7. NewerThan(batch', processed')
        BY <1>1, <1>2, <1>4 DEF QueueInv, NewerThan
    <1>8. NewerThan(inbox', processed')
        BY <1>1, <1>5 DEF QueueInv, NewerThan
    <1>9. AllBelow(batch', received' + 1)
        BY <1>1, <1>2 DEF QueueInv, AllBelow
    <1>10. InHand'
        <2>1. grip # "none" => AllBelow(batch', received) /\ p.number < received
            BY <1>1, <1>2 DEF QueueInv, InHand, AllBelow
        <2> QED BY <1>1, <2>1 DEF QueueInv, InHand
    <1>11. \A i \in DOMAIN batch', j \in DOMAIN inbox' :
                batch'[i].number < inbox'[j].number
        BY <1>1, <1>2 DEF QueueInv
    <1>12. /\ DOMAIN latest' = Kinds /\ latest' = [k \in Kinds |-> latest'[k]]
           /\ \A k \in Kinds : latest'[k] \in {latest[k], p}
        BY <1>1 DEF QueueInv
    <1>13. \A k \in Kinds :
                /\ latest'[k].number \in processed' \cup {0}
                /\ latest'[k].number >= latest[k].number
        BY <1>1, <1>3, <1>12 DEF QueueInv
    <1>14. QueueInv'
        BY <1>1, <1>2, <1>3, <1>6, <1>7, <1>8, <1>9, <1>10, <1>11, <1>12, <1>13
           DEF QueueInv, Sorted, AllBelow
    <1> QED BY <1>1, <1>3, <1>13, <1>14

LEMMA InitialQueue == EngineInit => QueueInv
    BY DEF EngineInit, QueueInv, InHand, Sorted, NewerThan, AllBelow, Undecoded

(* What InOrder says of a step.                                              *)
Newer ==
    /\ \A n \in processed' \ processed : \A old \in processed : old < n
    /\ \A k \in Kinds : latest'[k].number >= latest[k].number

LEMMA QueueStep ==
    ASSUME QueueInv, [EngineNext]_engineVars
    PROVE  QueueInv' /\ Newer
    <1> DEFINE Kept == processed' = processed /\ latest' = latest
    <1>1. Kept => Newer
        BY DEF QueueInv, Newer
    <1>2. ASSUME NEW m \in Feed, Take(m) PROVE QueueInv' /\ Kept
        BY <1>2, TakeQueue DEF Take, models, histories
    <1>3. CASE PutDown
        BY <1>1, <1>3, PutDownQueue DEF PutDown, models
    <1>4. CASE PollBegin
        BY <1>1, <1>4, PollBeginQueue DEF PollBegin, models, histories
    <1>5. CASE ProcessPacket
        BY <1>5, ProcessPacketQueue DEF Newer
    <1>6. CASE PollRaises \/ PollEnd
        BY <1>1, <1>6, PollLeavesQueue DEF PollRaises, PollEnd, models, histories
    <1>7. CASE received = 0 /\ EngineStart
        BY <1>1, <1>7, EngineStartQueue DEF EngineStart, models, histories
    <1>8. CASE EngineStop \/ ResetStats \/ UNCHANGED engineVars
        <2>1. UNCHANGED <<inbox, batch, grip, carried, received, latest, processed>>
            BY <1>8 DEF EngineStop, ResetStats, engineVars, lists, callback,
                        models, histories
        <2> QED BY <1>1, <2>1 DEF QueueInv, InHand, Sorted, NewerThan, AllBelow
    <1> HIDE DEF Kept
    <1> QED BY <1>1, <1>2, <1>3, <1>4, <1>5, <1>6, <1>7, <1>8 DEF EngineNext

(* A packet processed is newer than all that were processed before, and the  *)
(* latest packet of a kind is never replaced by an older one: the appending  *)
(* callback and the poll share the pending list without a lock, and still    *)
(* no packet overtakes another.                                              *)
THEOREM ProcessedInOrder == Spec => InOrder
    <1>1. QueueInv /\ [EngineNext]_engineVars => QueueInv' /\ Newer
        BY QueueStep
    <1>2. EngineSpec => [][Newer]_engineVars
        BY <1>1, InitialQueue, PTL DEF EngineSpec
    <1>3. [][Newer]_engineVars => InOrder
        BY PTL DEF Newer, InOrder
    <1> QED BY <1>2, <1>3, ManagerUsesEngine, PTL

-----------------------------------------------------------------------------
(* No packet is lost but those known to be.                                  *)

Gone == processed \cup late \cup dropped

(* Every packet is gone or in one of the lists, and what is gone is older    *)
(* than what is in a list.  A packet can only come too late when nothing     *)
(* else is in any list.                                                      *)
LossInv ==
    /\ reading \in BOOLEAN
    /\ ~reading => batch = <<>>
    /\ grip = "batch" => reading
    /\ grip = "orphan" => batch = <<>>
    /\ \A n \in Gone : n \in Nat /\ n <= received
    /\ grip # "none" => \A n \in Gone : n < received
    /\ NewerThan(inbox, Gone) /\ NewerThan(batch, Gone)
    /\ late \cap (processed \cup dropped) = {}
    /\ Gone \cup Numbers(inbox) \cup Numbers(batch) \cup Numbers(carried)
         = 1 .. received

LEMMA NumbersOfAppended ==
    ASSUME NEW s \in Seq(Items), NEW c \in Seq(Items), Len(c) = 1
    PROVE  Numbers(s \o c) = Numbers(s) \cup Numbers(c)
    <1> DEFINE t == s \o c
    <1>1. /\ DOMAIN t = 1 .. (Len(s) + 1)
          /\ \A i \in DOMAIN s : t[i] = s[i]
          /\ t[Len(s) + 1] = c[1]
          /\ DOMAIN s = 1 .. Len(s) /\ Len(s) \in Nat
        BY PutAtTheEnd
    <1> HIDE DEF t
    <1>2. DOMAIN c = {1}
        BY LenProperties
    <1>3. DOMAIN t = DOMAIN s \cup {Len(s) + 1}
        BY <1>1
    <1>4. Numbers(t) = Numbers(s) \cup Numbers(c)
        BY <1>1, <1>2, <1>3 DEF Numbers
    <1> QED BY <1>4 DEF t

LEMMA NumbersOfRest ==
    ASSUME NEW s \in Seq(Items), s # <<>>
    PROVE  Numbers(s) = {Head(s).number} \cup Numbers(Tail(s))
    <1>1. /\ Len(s) \in Nat /\ Len(s) # 0 /\ DOMAIN s = 1 .. Len(s)
          /\ DOMAIN Tail(s) = 1 .. (Len(s) - 1)
          /\ \A i \in DOMAIN Tail(s) : Tail(s)[i] = s[i + 1]
          /\ Head(s) = s[1]
        BY HeadTailProperties, EmptySeq, LenProperties
    <1>2. ASSUME NEW i \in DOMAIN s
          PROVE  s[i].number \in {Head(s).number} \cup Numbers(Tail(s))
        <2>1. CASE i = 1
            BY <1>1, <2>1
        <2>2. CASE i # 1
            <3>1. i - 1 \in DOMAIN Tail(s) /\ (i - 1) + 1 = i
                BY <1>1, <2>2
            <3> QED BY <1>1, <3>1 DEF Numbers
        <2> QED BY <2>1, <2>2
    <1>3. ASSUME NEW i \in DOMAIN Tail(s)
          PROVE  Tail(s)[i].number \in Numbers(s)
        <2>1. i + 1 \in DOMAIN s
            BY <1>1
        <2> QED BY <1>1, <2>1 DEF Numbers
    <1>4. Head(s).number \in Numbers(s)
        <2>1. 1 \in DOMAIN s
            BY <1>1
        <2> QED BY <1>1, <2>1 DEF Numbers
    <1> QED BY <1>2, <1>3, <1>4 DEF Numbers

(* A sorted list has as many numbers as packets.                             *)
LEMMA NumbersOfSorted ==
    ASSUME NEW s \in Seq(Items), Sorted(s), NewerThan(s, {})
    PROVE  /\ IsFiniteSet(Numbers(s))
           /\ Cardinality(Numbers(s)) = Len(s)
    <1> DEFINE f == [i \in 1 .. Len(s) |-> s[i].number]
    <1>1. DOMAIN s = 1 .. Len(s) /\ Len(s) \in Nat
        BY LenProperties
    <1>2. f \in Surjection(1 .. Len(s), Numbers(s))
        BY <1>1 DEF Surjection, Numbers
    <1>3. f \in Injection(1 .. Len(s), Numbers(s))
        <2>1. ASSUME NEW i \in 1 .. Len(s), NEW j \in 1 .. Len(s), i # j
              PROVE  f[i] # f[j]
            <3>1. i < j \/ j < i
                BY <1>1, <2>1
            <3>2. s[i].number \in Nat /\ s[j].number \in Nat
                BY <1>1 DEF NewerThan
            <3> QED BY <1>1, <3>1, <3>2 DEF Sorted
        <2> QED BY <1>2, <2>1 DEF Surjection, Injection, IsInjective
    <1>4. IsFiniteSet(1 .. Len(s)) /\ Cardinality(1 .. Len(s)) = Len(s)
        BY <1>1, FS_Interval
    <1> QED BY <1>2, <1>3, <1>4, FS_Surjection

LEMMA TakeLoses ==
    ASSUME QueueInv, LossInv, NEW m \in Feed, Take(m)
    PROVE  LossInv'
    <1> USE DEF Take, lists, models, histories
    <1>1. UNCHANGED <<reading, inbox, batch, processed, late, dropped>>
          /\ received' = received + 1 /\ grip' = "inbox" /\ grip = "none"
        OBVIOUS
    <1>2. Numbers(carried') = {received + 1} /\ Numbers(carried) = {}
        <2>1. carried' = <<Numbered(m, received + 1)>> /\ carried = <<>>
            BY DEF QueueInv, InHand
        <2> QED BY <2>1 DEF Numbers, Numbered
    <1>3. 1 .. (received + 1) = (1 .. received) \cup {received + 1}
        BY DEF QueueInv
    <1>4. Gone' = Gone /\ Numbers(inbox)' = Numbers(inbox)
          /\ Numbers(batch)' = Numbers(batch)
        BY <1>1 DEF Gone, Numbers
    <1>5. \A n \in Gone : n \in Nat /\ n < received + 1
        BY DEF LossInv, QueueInv
    <1>6. (Gone \cup Numbers(inbox) \cup Numbers(batch) \cup Numbers(carried)
            = 1 .. received)'
        BY <1>1, <1>2, <1>3, <1>4 DEF LossInv
    <1>7. NewerThan(inbox, Gone)' /\ NewerThan(batch, Gone)'
        BY <1>1, <1>4 DEF LossInv, NewerThan
    <1> QED BY <1>1, <1>4, <1>5, <1>6, <1>7 DEF LossInv, QueueInv

LEMMA PutDownLoses ==
    ASSUME QueueInv, QueueInv', LossInv, PutDown
    PROVE  LossInv'
    <1> USE DEF PutDown, models
    <1>1. /\ grip # "none" /\ grip' = "none"
          /\ Len(carried) = 1 /\ carried \in Seq(Items)
          /\ UNCHANGED <<received, reading, processed, dropped>>
          /\ Numbers(carried') = {}
        BY DEF QueueInv, InHand, Numbers
    <1>2. Numbers(carried) = {received}
        <2>1. DOMAIN carried = {1} /\ carried[1].number = received
            BY <1>1, LenProperties DEF QueueInv, InHand
        <2> QED BY <2>1 DEF Numbers
    <1>3. \A n \in Gone : n \in Nat /\ n < received /\ received \in Nat
        BY <1>1 DEF LossInv, QueueInv
    <1>4. CASE grip = "orphan"
        <2>1. UNCHANGED <<inbox, batch>> /\ late' = late \cup {received}
            BY <1>2, <1>4
        <2>2. Gone' = Gone \cup {received}
            BY <1>1, <2>1 DEF Gone
        <2>3. inbox = <<>> /\ batch = <<>>
            BY <1>4 DEF LossInv, QueueInv, InHand
        <2>4. late' \cap (processed' \cup dropped') = {}
            BY <1>1, <1>3, <2>1 DEF LossInv, Gone
        <2>5. (Gone \cup Numbers(inbox) \cup Numbers(batch) \cup Numbers(carried)
                = 1 .. received)'
            <3>1. Numbers(inbox)' = Numbers(inbox) /\ Numbers(batch)' = Numbers(batch)
                BY <2>1 DEF Numbers
            <3> QED BY <1>1, <1>2, <2>2, <3>1 DEF LossInv
        <2>6. \A n \in Gone' : n \in Nat /\ n <= received'
            BY <1>1, <1>3, <2>2 DEF QueueInv
        <2> QED BY <1>1, <2>1, <2>3, <2>4, <2>5, <2>6 DEF LossInv, NewerThan
    <1>5. ASSUME NEW s \in Seq(Items), NewerThan(s, Gone)
          PROVE  NewerThan(s \o carried, Gone) /\ Numbers(s \o carried) = Numbers(s) \cup {received}
        <2> DEFINE r == s \o carried
        <2>1. /\ DOMAIN r = 1 .. (Len(s) + 1)
              /\ \A i \in DOMAIN s : r[i] = s[i]
              /\ r[Len(s) + 1] = carried[1]
              /\ DOMAIN s = 1 .. Len(s) /\ Len(s) \in Nat
            BY <1>1, PutAtTheEnd
        <2>2. Numbers(r) = Numbers(s) \cup {received}
            BY <1>1, <1>2, NumbersOfAppended
        <2> HIDE DEF r
        <2>3. carried[1].number = received
            BY <1>1 DEF QueueInv, InHand
        <2>4. \A i \in DOMAIN r : i \in DOMAIN s \/ i = Len(s) + 1
            BY <2>1
        <2>5. NewerThan(r, Gone)
            BY <1>3, <1>5, <2>1, <2>3, <2>4 DEF NewerThan, QueueInv
        <2> QED BY <2>2, <2>5 DEF r
    <1>6. CASE grip = "inbox"
        <2>1. inbox' = inbox \o carried /\ UNCHANGED <<batch, late>>
            BY <1>6
        <2>2. Gone' = Gone /\ Numbers(batch)' = Numbers(batch)
            BY <1>1, <2>1 DEF Gone, Numbers
        <2>3. NewerThan(inbox', Gone) /\ Numbers(inbox') = Numbers(inbox) \cup {received}
            BY <1>5, <2>1 DEF LossInv, QueueInv
        <2> QED BY <1>1, <1>2, <1>3, <2>1, <2>2, <2>3 DEF LossInv, NewerThan
    <1>7. CASE grip = "batch"
        <2>1. batch' = batch \o carried /\ UNCHANGED <<inbox, late>> /\ reading
            BY <1>7 DEF LossInv
        <2>2. Gone' = Gone /\ Numbers(inbox)' = Numbers(inbox)
            BY <1>1, <2>1 DEF Gone, Numbers
        <2>3. NewerThan(batch', Gone) /\ Numbers(batch') = Numbers(batch) \cup {received}
            BY <1>5, <2>1 DEF LossInv, QueueInv
        <2> QED BY <1>1, <1>2, <1>3, <2>1, <2>2, <2>3 DEF LossInv, NewerThan
    <1> QED BY <1>1, <1>4, <1>6, <1>7 DEF QueueInv, InHand

LEMMA PollBeginLoses ==
    ASSUME QueueInv, LossInv, PollBegin
    PROVE  LossInv'
    <1> USE DEF PollBegin, models, histories
    <1>1. /\ reading' = TRUE /\ batch = <<>> /\ batch' = inbox /\ inbox' = <<>>
          /\ UNCHANGED <<carried, received, processed, late, dropped>>
          /\ grip' = IF grip = "inbox" THEN "batch" ELSE grip
        BY DEF LossInv
    <1>2. Numbers(batch) = {} /\ Numbers(inbox') = {} /\ Numbers(batch') = Numbers(inbox)
          /\ Numbers(carried') = Numbers(carried) /\ Gone' = Gone
        BY <1>1 DEF Numbers, Gone
    <1>3. grip' = "orphan" => batch' = <<>>
        BY <1>1 DEF QueueInv, InHand
    <1>4. grip' # "none" => grip # "none"
        BY <1>1
    <1>5. NewerThan(inbox, Gone)' /\ NewerThan(batch, Gone)'
        BY <1>1, <1>2 DEF LossInv, NewerThan
    <1>6. (Gone \cup Numbers(inbox) \cup Numbers(batch) \cup Numbers(carried)
            = 1 .. received)'
        BY <1>1, <1>2 DEF LossInv
    <1> QED BY <1>1, <1>2, <1>3, <1>4, <1>5, <1>6 DEF LossInv

LEMMA ProcessPacketLoses ==
    ASSUME QueueInv, QueueInv', LossInv, ProcessPacket
    PROVE  LossInv'
    <1> DEFINE p == Head(batch)
    <1>1. /\ reading /\ reading' = reading /\ batch # <<>>
          /\ batch' = Tail(batch) /\ processed' = processed \cup {p.number}
          /\ UNCHANGED <<inbox, grip, carried, received, late, dropped>>
        BY DEF ProcessPacket, callback
    <1>2. /\ 1 \in DOMAIN batch /\ p = batch[1]
          /\ \A i \in DOMAIN batch' :
                i \in Nat /\ i + 1 \in DOMAIN batch /\ batch'[i] = batch[i + 1] /\ i >= 1
        BY <1>1, TakeTheFirst DEF QueueInv
    <1>3. Numbers(batch) = {p.number} \cup Numbers(batch')
        BY <1>1, NumbersOfRest DEF QueueInv
    <1> HIDE DEF p
    <1>4. Gone' = Gone \cup {p.number}
        BY <1>1 DEF Gone
    <1>5. /\ p.number \in Nat /\ p.number <= received
          /\ \A n \in Gone : n < p.number
          /\ grip # "none" => p.number < received
        BY <1>2 DEF QueueInv, LossInv, NewerThan, AllBelow, InHand
    <1>6. \A i \in DOMAIN batch' : batch'[i].number \in Nat /\ p.number < batch'[i].number
                                  /\ \A n \in Gone : n < batch'[i].number
        <2> SUFFICES ASSUME NEW i \in DOMAIN batch'
                     PROVE  /\ batch'[i].number \in Nat
                            /\ p.number < batch'[i].number
                            /\ \A n \in Gone : n < batch'[i].number
            OBVIOUS
        <2>1. i + 1 \in DOMAIN batch /\ batch'[i] = batch[i + 1] /\ 1 < i + 1
            BY <1>2
        <2>2. p.number < batch[i + 1].number
            BY <1>2, <2>1 DEF QueueInv, Sorted
        <2> QED BY <2>1, <2>2 DEF LossInv, NewerThan
    <1>7. \A j \in DOMAIN inbox : p.number < inbox[j].number
        BY <1>2 DEF QueueInv
    <1>8. NewerThan(inbox, Gone)' /\ NewerThan(batch, Gone)'
        BY <1>1, <1>4, <1>6, <1>7 DEF LossInv, NewerThan
    <1>9. late' \cap (processed' \cup dropped') = {}
        <2>1. p.number \notin late
            BY <1>5 DEF Gone
        <2> QED BY <1>1, <2>1 DEF LossInv
    <1>10. (Gone \cup Numbers(inbox) \cup Numbers(batch) \cup Numbers(carried)
            = 1 .. received)'
        <2>1. Numbers(inbox)' = Numbers(inbox) /\ Numbers(carried)' = Numbers(carried)
            BY <1>1 DEF Numbers
        <2> QED BY <1>1, <1>3, <1>4, <2>1 DEF LossInv
    <1>11. grip # "orphan"
        BY <1>1 DEF LossInv
    <1> QED BY <1>1, <1>4, <1>5, <1>8, <1>9, <1>10, <1>11 DEF LossInv

LEMMA PollRaisesLoses ==
    ASSUME QueueInv, LossInv, PollRaises
    PROVE  LossInv'
    <1> USE DEF PollRaises
    <1>1. /\ reading' = FALSE /\ batch' = <<>> /\ dropped' = dropped \cup Numbers(batch)
          /\ UNCHANGED <<inbox, carried, received, processed, late>>
          /\ grip' = IF grip = "batch" THEN "orphan" ELSE grip
        OBVIOUS
    <1>2. Gone' = Gone \cup Numbers(batch)
        BY <1>1 DEF Gone
    <1>3. \A n \in Numbers(batch) :
            /\ n \in Nat /\ n <= received
            /\ grip # "none" => n < received
            /\ n \notin late
            /\ \A j \in DOMAIN inbox : n < inbox[j].number
        BY DEF Numbers, QueueInv, LossInv, NewerThan, AllBelow, InHand, Gone
    <1>4. Numbers(batch') = {} /\ Numbers(inbox)' = Numbers(inbox)
          /\ Numbers(carried)' = Numbers(carried)
        BY <1>1 DEF Numbers
    <1>5. NewerThan(inbox, Gone)' /\ NewerThan(batch, Gone)'
        BY <1>1, <1>2, <1>3 DEF LossInv, NewerThan
    <1>6. late' \cap (processed' \cup dropped') = {}
        BY <1>1, <1>3 DEF LossInv
    <1>7. (Gone \cup Numbers(inbox) \cup Numbers(batch) \cup Numbers(carried)
            = 1 .. received)'
        BY <1>1, <1>2, <1>4 DEF LossInv
    <1>8. \A n \in Gone' : n \in Nat /\ n <= received'
        BY <1>1, <1>2, <1>3 DEF LossInv
    <1>9. grip' # "none" => \A n \in Gone' : n < received'
        BY <1>1, <1>2, <1>3 DEF LossInv
    <1> QED BY <1>1, <1>5, <1>6, <1>7, <1>8, <1>9 DEF LossInv

LEMMA PollEndLoses ==
    ASSUME LossInv, PollEnd
    PROVE  LossInv'
    BY DEF PollEnd, models, histories, LossInv, Gone, Numbers, NewerThan

LEMMA LossStep ==
    ASSUME QueueInv, QueueInv', LossInv, [EngineNext]_engineVars
    PROVE  LossInv'
    <1>1. ASSUME NEW m \in Feed, Take(m) PROVE LossInv'
        BY <1>1, TakeLoses
    <1>2. CASE received = 0 /\ EngineStart
        <2>1. /\ inbox' = <<>> /\ Numbers(inbox') = {}
              /\ UNCHANGED <<batch, reading, grip, carried, received, processed,
                             late, dropped>>
            BY <1>2 DEF EngineStart, callback, models, histories, Numbers
        <2>2. Numbers(inbox) = {}
            <3>1. Numbers(inbox) \subseteq 1 .. 0
                BY <1>2 DEF LossInv
            <3> QED BY <3>1
        <2>3. Gone' = Gone /\ Numbers(batch)' = Numbers(batch)
              /\ Numbers(carried)' = Numbers(carried)
            BY <2>1 DEF Gone, Numbers
        <2>4. NewerThan(inbox, Gone)' /\ NewerThan(batch, Gone)'
            BY <2>1, <2>3 DEF LossInv, NewerThan
        <2> QED BY <2>1, <2>2, <2>3, <2>4 DEF LossInv
    <1>3. CASE EngineStop \/ ResetStats \/ UNCHANGED engineVars
        <2>1. UNCHANGED <<inbox, batch, reading, grip, carried, received, histories>>
            BY <1>3 DEF EngineStop, ResetStats, engineVars, lists, callback, models
        <2> QED BY <2>1 DEF LossInv, Gone, Numbers, NewerThan, histories
    <1> QED BY <1>1, <1>2, <1>3, PutDownLoses, PollBeginLoses, ProcessPacketLoses,
               PollRaisesLoses, PollEndLoses DEF EngineNext

(* What the two invariants say of the lists: no number is in two of them.    *)
LEMMA NothingElseIsLost ==
    ASSUME QueueInv, LossInv
    PROVE  OnlyLateAreLost
    <1> DEFINE I == Numbers(inbox)
               B == Numbers(batch)
               C == Numbers(carried)
    <1>1. \A n \in I \cup B : n \in Nat /\ n \notin Gone
        BY DEF Numbers, LossInv, NewerThan
    <1>2. I \cap B = {}
        BY DEF Numbers, QueueInv, NewerThan
    <1>3. C \cap (I \cup B \cup Gone) = {}
        <2>1. CASE grip = "none"
            BY <2>1 DEF QueueInv, InHand, Numbers
        <2>2. CASE grip # "none"
            <3>1. DOMAIN carried = {1} /\ carried[1].number = received
                BY <2>2, LenProperties DEF QueueInv, InHand
            <3>2. \A n \in I \cup B \cup Gone : n \in Nat /\ n < received
                BY <1>1, <2>2 DEF QueueInv, LossInv, InHand, AllBelow, Numbers
            <3> QED BY <3>1, <3>2 DEF Numbers, QueueInv
        <2> QED BY <2>1, <2>2
    <1>4. Gone = (1 .. received) \ (I \cup B \cup C)
        BY <1>1, <1>3 DEF LossInv
    <1>5. /\ IsFiniteSet(I) /\ Cardinality(I) = Len(inbox)
          /\ IsFiniteSet(B) /\ Cardinality(B) = Len(batch)
        BY NumbersOfSorted DEF QueueInv, NewerThan
    <1>6. IsFiniteSet(C) /\ Cardinality(C) = Len(carried)
        <2>1. Len(carried) \in {0, 1} /\ DOMAIN carried = 1 .. Len(carried)
            BY LenProperties DEF QueueInv, InHand
        <2>2. Sorted(carried)
            BY <2>1 DEF Sorted
        <2>3. NewerThan(carried, {})
            BY <2>1 DEF NewerThan, QueueInv, InHand
        <2> QED BY <2>2, <2>3, NumbersOfSorted DEF QueueInv
    <1>7. /\ Len(inbox) \in Nat /\ Len(batch) \in Nat /\ Len(carried) \in Nat
        BY LenProperties DEF QueueInv
    <1> HIDE DEF I, B, C
    <1>8. IsFiniteSet(I \cup B) /\ Cardinality(I \cup B) = Len(inbox) + Len(batch)
        <2>1. IsFiniteSet(I \cup B)
              /\ Cardinality(I \cup B) = Cardinality(I) + Cardinality(B) - Cardinality(I \cap B)
            BY <1>5, FS_Union
        <2>2. Cardinality(I \cap B) = 0
            BY <1>2, FS_EmptySet
        <2> QED BY <1>5, <1>7, <2>1, <2>2
    <1>9. (I \cup B) \cap C = {}
        BY <1>3
    <1>10. Cardinality(I \cup B \cup C) = Len(inbox) + Len(batch) + Len(carried)
        <2>1. Cardinality(I \cup B \cup C)
                = Cardinality(I \cup B) + Cardinality(C) - Cardinality((I \cup B) \cap C)
            BY <1>6, <1>8, FS_Union
        <2>2. Cardinality((I \cup B) \cap C) = 0
            BY <1>9, FS_EmptySet
        <2> QED BY <1>6, <1>7, <1>8, <2>1, <2>2
    <1> QED BY <1>4, <1>10 DEF OnlyLateAreLost, Gone, LossInv, I, B, C

LEMMA InitialLoss == EngineInit => LossInv
    <1> SUFFICES ASSUME EngineInit PROVE LossInv
        OBVIOUS
    <1>1. Numbers(<<>>) = {}
        BY DEF Numbers
    <1>2. Gone = {} /\ 1 .. received = {}
        BY DEF EngineInit, Gone
    <1>3. NewerThan(inbox, Gone) /\ NewerThan(batch, Gone)
        BY DEF EngineInit, NewerThan
    <1> QED BY <1>1, <1>2, <1>3 DEF EngineInit, LossInv

(* Whatever order the subscriber's appends and the polls come in, a packet   *)
(* is lost only if it was about to be appended while a whole poll went by,   *)
(* or with one that raised; every other one is in one list or was processed, *)
(* once.                                                                     *)
THEOREM OnlyLatePacketsAreLost == Spec => []OnlyLateAreLost
    <1>1. EngineInit => QueueInv /\ LossInv
        BY InitialQueue, InitialLoss
    <1>2. QueueInv /\ LossInv /\ [EngineNext]_engineVars => (QueueInv /\ LossInv)'
        BY QueueStep, LossStep
    <1>3. QueueInv /\ LossInv => OnlyLateAreLost
        BY NothingElseIsLost
    <1>4. EngineSpec => []OnlyLateAreLost
        BY <1>1, <1>2, <1>3, PTL DEF EngineSpec
    <1> QED BY <1>4, ManagerUsesEngine, PTL

-----------------------------------------------------------------------------
(* The counters and the types of the engine.                                *)

(* The counters: every packet counted was received, and is in no list any    *)
(* more; a channel counts no more than all together.                         *)
CountInv ==
    /\ total \in Nat /\ count \in [Kinds -> Nat]
    /\ total + Len(inbox) + Len(batch) + Len(carried) <= received
    /\ \A k \in Kinds : count[k] <= total
    /\ \A k \in Kinds : latest[k] # Undecoded => latest[k].kind = k
    /\ polling \in BOOLEAN /\ reading \in BOOLEAN
    /\ received <= MaxReceived

LEMMA LengthsOfLists ==
    ASSUME QueueInv
    PROVE  Len(inbox) \in Nat /\ Len(batch) \in Nat /\ Len(carried) \in Nat
    BY LenProperties DEF QueueInv

LEMMA CountStep ==
    ASSUME QueueInv, QueueInv', CountInv, [EngineNext]_engineVars
    PROVE  CountInv'
    <1>1. /\ Len(inbox) \in Nat /\ Len(batch) \in Nat /\ Len(carried) \in Nat
          /\ Len(inbox)' \in Nat /\ Len(batch)' \in Nat /\ Len(carried)' \in Nat
          /\ received \in Nat /\ received' \in Nat
        BY LenProperties DEF QueueInv
    <1>2. ASSUME NEW m \in Feed, Take(m) PROVE CountInv'
        <2>1. /\ received' = received + 1 /\ received < MaxReceived
              /\ Len(carried') = 1 /\ UNCHANGED <<polling, lists, models>>
            BY <1>2 DEF Take
        <2>2. carried = <<>> /\ Len(carried) = 0
            BY <1>2 DEF QueueInv, InHand, Take
        <2> QED BY <1>1, <2>1, <2>2, EngineAssumption DEF CountInv, lists, models
    <1>3. CASE PutDown
        <2>1. /\ grip # "none" /\ carried' = <<>>
              /\ UNCHANGED <<polling, reading, received, models>>
            BY <1>3 DEF PutDown
        <2>2. Len(carried) = 1 /\ Len(carried') = 0
            BY <2>1 DEF QueueInv, InHand
        <2>3. \/ Len(inbox') = Len(inbox) + 1 /\ batch' = batch
              \/ inbox' = inbox /\ Len(batch') = Len(batch) + 1
              \/ inbox' = inbox /\ batch' = batch
            <3>1. Len(inbox \o carried) = Len(inbox) + 1
                  /\ Len(batch \o carried) = Len(batch) + 1
                <4>1. inbox \in Seq(Items) /\ batch \in Seq(Items) /\ carried \in Seq(Items)
                    BY DEF QueueInv
                <4>2. /\ Len(inbox \o carried) = Len(inbox) + Len(carried)
                      /\ Len(batch \o carried) = Len(batch) + Len(carried)
                    BY <4>1, ConcatProperties
                <4> QED BY <2>2, <4>2
            <3> QED BY <1>3, <2>1, <3>1 DEF PutDown, QueueInv, InHand
        <2>4. Len(inbox') + Len(batch') + Len(carried')
                <= Len(inbox) + Len(batch) + Len(carried)
            BY <1>1, <2>2, <2>3
        <2> QED BY <1>1, <2>1, <2>4 DEF CountInv, models
    <1>4. CASE PollBegin
        <2>1. Len(inbox') + Len(batch') + Len(carried')
                <= Len(inbox) + Len(batch) + Len(carried)
            BY <1>1, <1>4 DEF PollBegin
        <2> QED BY <1>1, <1>4, <2>1 DEF CountInv, PollBegin, models
    <1>5. CASE ProcessPacket
        <2> DEFINE p == Head(batch)
        <2>1. /\ total' = total + 1 /\ count' = [count EXCEPT ![p.kind] = @ + 1]
              /\ latest' = latest \/ latest' = [latest EXCEPT ![p.kind] = p]
              /\ UNCHANGED <<polling, inbox, reading, carried, received>>
            BY <1>5 DEF ProcessPacket, Record, callback
        <2>2. Len(batch') = Len(batch) - 1
            BY <1>5, HeadTailProperties, EmptySeq DEF ProcessPacket, QueueInv
        <2> HIDE DEF p
        <2>3. count' \in [Kinds -> Nat] /\ \A k \in Kinds : count'[k] <= total'
            <3>1. /\ count \in [Kinds -> Nat] /\ total \in Nat
                  /\ \A k \in Kinds : count[k] <= total
                BY DEF CountInv
            <3>2. \A k \in Kinds : count'[k] = IF k = p.kind THEN count[k] + 1 ELSE count[k]
                BY <2>1, <3>1
            <3>3. \A k \in Kinds : count'[k] \in Nat /\ count'[k] <= total'
                BY <2>1, <3>1, <3>2
            <3>4. count' = [k \in Kinds |-> count'[k]]
                BY <2>1, <3>1
            <3> QED BY <3>3, <3>4
        <2>4. \A k \in Kinds : latest'[k] # Undecoded => latest'[k].kind = k
            BY <2>1 DEF CountInv, QueueInv
        <2>5. total' + Len(inbox') + Len(batch') + Len(carried') <= received'
            BY <1>1, <2>1, <2>2 DEF CountInv
        <2> QED BY <2>1, <2>3, <2>4, <2>5 DEF CountInv
    <1>6. CASE PollRaises
        <2>1. /\ total' = total + 1 /\ batch' = <<>> /\ batch # <<>> /\ reading' = FALSE
              /\ UNCHANGED <<polling, inbox, carried, received, count, latest>>
            BY <1>6 DEF PollRaises
        <2>2. Len(batch) >= 1 /\ Len(batch') = 0
            BY <1>1, <2>1, EmptySeq DEF QueueInv
        <2>3. total' \in Nat /\ \A k \in Kinds : count'[k] <= total'
            BY <2>1 DEF CountInv
        <2>4. total' + Len(inbox') + Len(batch') + Len(carried') <= received'
            BY <1>1, <2>1, <2>2 DEF CountInv
        <2>5. /\ count' \in [Kinds -> Nat]
              /\ \A k \in Kinds : latest'[k] # Undecoded => latest'[k].kind = k
              /\ polling' \in BOOLEAN /\ reading' \in BOOLEAN
              /\ received' <= MaxReceived
            BY <2>1 DEF CountInv
        <2> QED BY <2>3, <2>4, <2>5 DEF CountInv
    <1>7. CASE PollEnd
        BY <1>7 DEF PollEnd, CountInv, models
    <1>8. CASE EngineStart
        <2>1. Len(inbox') = 0
            BY <1>8 DEF EngineStart
        <2>2. UNCHANGED <<batch, reading, carried, received, models>> /\ polling' = TRUE
            BY <1>8 DEF EngineStart, callback
        <2> QED BY <1>1, <2>1, <2>2 DEF CountInv, models
    <1>9. CASE EngineStop \/ UNCHANGED engineVars
        BY <1>9 DEF EngineStop, engineVars, CountInv, lists, callback, models
    <1>10. CASE ResetStats
        <2>1. /\ total' = 0 /\ count' = [k \in Kinds |-> 0]
              /\ UNCHANGED <<polling, inbox, batch, reading, carried, received, latest>>
            BY <1>10 DEF ResetStats, lists, callback
        <2> QED BY <1>1, <2>1 DEF CountInv
    <1> QED BY <1>2, <1>3, <1>4, <1>5, <1>6, <1>7, <1>8, <1>9, <1>10 DEF EngineNext

LEMMA EngineTypes ==
    ASSUME QueueInv, LossInv, CountInv
    PROVE  EngineTypeOK
    <1>1. received \in 0 .. MaxReceived
        BY EngineAssumption DEF QueueInv, CountInv
    <1>2. Numbers(inbox) \cup Numbers(batch) \cup Numbers(carried)
            \cup processed \cup late \cup dropped \subseteq 1 .. received
        BY DEF LossInv, Gone
    <1>3. total \in 0 .. received /\ count \in [Kinds -> 0 .. received]
        <2>1. total <= received
            BY LengthsOfLists DEF CountInv, QueueInv
        <2> QED BY <2>1 DEF CountInv, QueueInv
    <1>4. \A k \in Kinds :
            latest[k] # Undecoded => latest[k].kind = k /\ latest[k].number <= received
        BY DEF QueueInv, CountInv
    <1> QED BY <1>1, <1>2, <1>3, <1>4 DEF EngineTypeOK, QueueInv, InHand, CountInv

-----------------------------------------------------------------------------
(* The rows of the tables.                                                   *)

(* What an extractor shows of a packet: the count of its channel and, in     *)
(* every other cell, the packet.                                             *)
LEMMA WhatRowsShow ==
    ASSUME NEW p, NEW n, NEW fields,
           \A key \in DOMAIN fields : fields[key] = p.number
    PROVE  \A key \in DOMAIN PacketRows(p, n, fields) :
                PacketRows(p, n, fields)[key] = IF key = "_channel" THEN n ELSE p.number
    BY DEF PacketRows, Channel, Waiting, Joined, Row

LEMMA WhatShowingShows ==
    ASSUME NEW p, NEW groups
    PROVE  \A key \in DOMAIN Showing(groups, p) : Showing(groups, p)[key] = p.number
    BY DEF Showing

LEMMA WhatFilteredKeeps ==
    ASSUME NEW q, NEW rows
    PROVE  /\ ~Stale(Filtered(q, rows), rows)
           /\ q = NoQuery => DOMAIN Filtered(q, rows) = DOMAIN rows
    BY DEF Filtered, Stale, Found

LEMMA WhatRefreshedShows ==
    ASSUME NEW table, NEW rows
    PROVE  /\ ~Stale(Refreshed(table, rows), rows)
           /\ DOMAIN Refreshed(table, rows) = DOMAIN table
    BY DEF Refreshed, Stale

(* Of the stream of the chosen tab.                                          *)
LEMMA WhatTheTabShows ==
    ASSUME tab \in Tabs, tab # "stats"
    PROVE  \A key \in DOMAIN ExplorerRows :
                ExplorerRows[key] = IF key = "_channel" THEN Exported.count
                                    ELSE Exported.packet
    <1> DEFINE s == StreamOf[tab]
               p == latest[s]
               n == count[s]
               Shown(rows) == \A key \in DOMAIN rows :
                                rows[key] = IF key = "_channel" THEN n ELSE p.number
    <1> SUFFICES Shown(ExplorerRows)
        BY DEF Exported
    <1>1. CASE tab = "telem"
        <2>1. s = "telemetry" /\ ExplorerRows = TelemetryRows(p, n)
            BY <1>1 DEF StreamOf, ExplorerRows
        <2> QED BY <2>1, WhatRowsShow, WhatShowingShows DEF TelemetryRows
    <1>2. CASE tab = "scoring"
        <2>1. s = "full_scoring" /\ ExplorerRows = FullScoringRows(p, n)
            BY <1>2 DEF StreamOf, ExplorerRows
        <2> DEFINE fields == Joined(Showing({"grid", "grid.lmu"}, p), LeaderboardRows(p))
        <2>2. \A key \in DOMAIN fields : fields[key] = p.number
            BY DEF Joined, Showing, LeaderboardRows
        <2> QED BY <2>1, <2>2, WhatRowsShow DEF FullScoringRows
    <1>3. CASE tab = "compact"
        <2>1. s = "scoring" /\ ExplorerRows = CompactScoringRows(p, n)
            BY <1>3 DEF StreamOf, ExplorerRows
        <2> QED BY <2>1, WhatRowsShow, WhatShowingShows DEF CompactScoringRows
    <1>4. CASE tab = "weather"
        <2>1. s = "weather" /\ ExplorerRows = WeatherRows(p, n)
            BY <1>4 DEF StreamOf, ExplorerRows
        <2> QED BY <2>1, WhatRowsShow, WhatShowingShows DEF WeatherRows
    <1>5. CASE tab = "ffb"
        <2>1. s = "force_feedback" /\ ExplorerRows = FeedbackRows(p, n)
            BY <1>5 DEF StreamOf, ExplorerRows
        <2> QED BY <2>1, WhatRowsShow, WhatShowingShows DEF FeedbackRows
    <1>6. CASE tab = "graphics"
        <2>1. s = "graphics" /\ ExplorerRows = GraphicsRows(p, n)
            BY <1>6 DEF StreamOf, ExplorerRows
        <2> QED BY <2>1, WhatRowsShow, WhatShowingShows DEF GraphicsRows
    <1>7. CASE tab = "physics"
        <2>1. s = "extended_state" /\ ExplorerRows = PhysicsRows(p, n)
            BY <1>7 DEF StreamOf, ExplorerRows
        <2> QED BY <2>1, WhatRowsShow, WhatShowingShows DEF PhysicsRows
    <1>8. CASE tab = "event"
        <2>1. s = "system_event" /\ ExplorerRows = EventRows(p, n)
            BY <1>8 DEF StreamOf, ExplorerRows
        <2> QED BY <2>1, WhatRowsShow, WhatShowingShows DEF EventRows
    <1> QED BY <1>1, <1>2, <1>3, <1>4, <1>5, <1>6, <1>7, <1>8 DEF Tabs

-----------------------------------------------------------------------------
(* The application: its choices, its tables and its screen.                  *)

(* What the tab bars post.                                                   *)
Mail == ({"nav"} \X Navs) \cup ({"tab"} \X Tabs)

(* The parts of the application's state that are not a table.                *)
NavInv ==
    /\ app \in {"new", "running", "failed", "stopping", "closed"}
    /\ bars \in [nav : Navs, tab : Tabs]
    /\ nav \in Navs /\ tab \in Tabs
    /\ mail \in Seq(Mail) /\ Len(mail) <= MaxMail
    /\ query \in Queries
    /\ last \in {"None", "command", "Error"}
    /\ grown \in BOOLEAN

LEMMA InitialNav == Init => NavInv
    <1> SUFFICES ASSUME Init PROVE NavInv
        OBVIOUS
    <1>1. mail \in Seq(Mail) /\ Len(mail) <= MaxMail
        BY ManagerAssumption DEF Init
    <1> QED BY <1>1, ManagerAssumption DEF Init, NavInv, Navs, Tabs

(* What the user's choices post, and the message that is handled.            *)
LEMMA NavStep ==
    ASSUME NavInv, [Next]_vars
    PROVE  NavInv'
    <1> USE DEF NavInv
    <1>1. ASSUME NEW n \in Navs, SelectNav(n) PROVE NavInv'
        <2>1. <<"nav", n>> \in Mail
            BY DEF Mail
        <2>2. mail' \in Seq(Mail) /\ Len(mail') = Len(mail) + 1 /\ Len(mail) \in Nat
            BY <1>1, <2>1, AppendProperties, LenProperties DEF SelectNav
        <2>3. Len(mail') <= MaxMail
            BY <1>1, <2>2, ManagerAssumption DEF SelectNav
        <2> QED BY <1>1, <2>2, <2>3 DEF SelectNav
    <1>2. ASSUME NEW t \in Visited, PickTab(t) PROVE NavInv'
        <2>1. <<"tab", t>> \in Mail /\ t \in Tabs
            BY ManagerAssumption DEF Mail
        <2>2. mail' \in Seq(Mail) /\ Len(mail') = Len(mail) + 1 /\ Len(mail) \in Nat
            BY <1>2, <2>1, AppendProperties, LenProperties DEF PickTab
        <2>3. Len(mail') <= MaxMail
            BY <1>2, <2>2, ManagerAssumption DEF PickTab
        <2> QED BY <1>2, <2>1, <2>2, <2>3 DEF PickTab
    <1>3. ASSUME NEW t \in Visited, SelectTab(t) PROVE NavInv'
        <2>1. <<"tab", t>> \in Mail /\ t \in Tabs
            BY ManagerAssumption DEF Mail
        <2>2. <<"nav", "explorer">> \in Mail /\ "explorer" \in Navs
            BY DEF Mail, Navs
        <2>3. /\ Post(bars.nav, "explorer", <<"nav", "explorer">>) \in Seq(Mail)
              /\ Post(bars.tab, t, <<"tab", t>>) \in Seq(Mail)
            BY <2>1, <2>2 DEF Post
        <2>4. mail' \in Seq(Mail)
            BY <1>3, <2>3, ConcatProperties DEF SelectTab
        <2>5. bars' \in [nav : Navs, tab : Tabs]
            BY <1>3, <2>1, <2>2 DEF SelectTab
        <2> QED BY <1>3, <2>4, <2>5 DEF SelectTab
    <1>4. CASE ActivateTab \/ ActivateNav
        <2>1. mail # <<>> /\ mail' = Tail(mail)
            BY <1>4 DEF ActivateTab, ActivateNav
        <2>2. mail' \in Seq(Mail) /\ Len(mail') <= MaxMail /\ Head(mail) \in Mail
            BY <2>1, HeadTailProperties, EmptySeq, LenProperties, ManagerAssumption
        <2>3. /\ Head(mail)[1] = "tab" => Head(mail)[2] \in Tabs
              /\ Head(mail)[1] = "nav" => Head(mail)[2] \in Navs
            BY <2>2 DEF Mail
        <2> QED BY <1>4, <2>2, <2>3 DEF ActivateTab, ActivateNav
    <1>5. CASE \/ \E q \in Queries : Search(q)
               \/ \E published \in BOOLEAN : SendCommand(published)
               \/ ResetStatistics
        BY <1>5 DEF Search, SendCommand, LastCommand, ResetStatistics
    <1>6. CASE \/ UpdateBegin \/ Updating \/ Subscribing \/ Unmount \/ Stopped
               \/ Mount \/ UNCHANGED vars
        BY <1>6 DEF UpdateBegin, Updating, UpdatePacket, UpdateRaises, UpdateEnd,
            Subscribing, Unmount, Stopped, Mount, vars, uiVars, views
    <1> QED BY <1>1, <1>2, <1>3, <1>4, <1>5, <1>6 DEF Next

-----------------------------------------------------------------------------
(* The count a table shows of its channel.                                   *)

ChannelOf(table) ==
    "_channel" \in DOMAIN table => table["_channel"] \in 0 .. received

LEMMA RowsCountReceived ==
    ASSUME QueueInv, CountInv, NavInv
    PROVE  ChannelOf(ExplorerRows)
    <1>1. \A k \in Kinds : count[k] \in 0 .. received
        BY LengthsOfLists DEF QueueInv, CountInv
    <1>2. CASE tab = "stats"
        <2>1. DOMAIN ExplorerRows = {"connection"} \cup Kinds
            BY <1>2 DEF ExplorerRows, StatsRows, Joined, Row, CountInv
        <2> QED BY <2>1 DEF ChannelOf, Kinds
    <1>3. CASE tab # "stats"
        <2>1. "_channel" \in DOMAIN ExplorerRows => ExplorerRows["_channel"] = Exported.count
            BY <1>3, WhatTheTabShows DEF NavInv
        <2>2. Exported.count = count[StreamOf[tab]] /\ StreamOf[tab] \in Kinds
            BY <1>3 DEF Exported, StreamOf, NavInv, Tabs, Kinds
        <2> QED BY <1>1, <2>1, <2>2 DEF ChannelOf
    <1> QED BY <1>2, <1>3

-----------------------------------------------------------------------------
(* The tables.  While poll goes over its list the cells may be out of date,  *)
(* but the rows are still those of the table when it was built.              *)
TableInv ==
    /\ ChannelOf(explorer)
    /\ app = "running" =>
        /\ nav = "explorer" /\ ~grown /\ query = NoQuery
                => DOMAIN explorer = DOMAIN ExplorerRows
        /\ nav = "explorer" /\ ~reading => ~Stale(explorer, ExplorerRows)
        /\ nav = "commands" /\ ~reading => ~Stale(commands, CommandRows)

LEMMA RowsFollowTheEngine ==
    /\ UNCHANGED <<latest, count, total, tab>> => ExplorerRows' = ExplorerRows
    /\ UNCHANGED <<latest, last>> => CommandRows' = CommandRows
    BY DEF ExplorerRows, CommandRows

LEMMA Rebuilt ==
    ASSUME RebuildExplorer, ChannelOf(ExplorerRows)'
    PROVE  /\ ChannelOf(explorer)'
           /\ ~Stale(explorer, ExplorerRows)'
           /\ (query = NoQuery => DOMAIN explorer = DOMAIN ExplorerRows)'
    <1>1. explorer' = Filtered(query', ExplorerRows')
        BY DEF RebuildExplorer
    <1>2. /\ ~Stale(explorer', ExplorerRows')
          /\ query' = NoQuery => DOMAIN explorer' = DOMAIN ExplorerRows'
        BY <1>1, WhatFilteredKeeps
    <1>3. "_channel" \in DOMAIN explorer' =>
            "_channel" \in DOMAIN ExplorerRows' /\ explorer'["_channel"] = ExplorerRows'["_channel"]
        BY <1>1 DEF Filtered
    <1> QED BY <1>2, <1>3 DEF ChannelOf, Stale

LEMMA CommandsRebuilt ==
    ASSUME RebuildCommands
    PROVE  ~Stale(commands, CommandRows)'
    BY DEF RebuildCommands, Stale

LEMMA TableStep ==
    ASSUME NavInv, TableInv, AppInv, received \in Nat, received' \in Nat,
           ChannelOf(ExplorerRows), ChannelOf(ExplorerRows)', [Next]_vars
    PROVE  TableInv'
    <1> USE RowsFollowTheEngine
    <1>1. CASE Mount
        <2>1. RebuildExplorer /\ RebuildCommands
            BY <1>1 DEF Mount
        <2> QED BY <2>1, Rebuilt, CommandsRebuilt DEF TableInv
    <1>2. CASE \/ \E n \in Navs : SelectNav(n)
               \/ \E t \in Visited : PickTab(t) \/ SelectTab(t)
        <2>1. UNCHANGED <<engineVars, app, nav, tab, query, explorer, commands,
                          last, grown>>
            BY <1>2 DEF SelectNav, PickTab, SelectTab
        <2> QED BY <2>1 DEF engineVars, models, lists, TableInv, ChannelOf, Stale
    <1>3. CASE ActivateTab
        <2>1. /\ RebuildExplorer
              /\ UNCHANGED <<engineVars, app, nav, query, commands, last>>
            BY <1>3 DEF ActivateTab
        <2>2. CommandRows' = CommandRows /\ reading' = reading
            BY <2>1 DEF engineVars, models, lists
        <2> QED BY <2>1, <2>2, Rebuilt DEF TableInv, Stale
    <1>4. CASE ActivateNav
        <2>1. /\ UNCHANGED <<engineVars, app, tab, query, last>>
              /\ IF nav' = "explorer" THEN RebuildExplorer /\ grown' = FALSE
                 ELSE UNCHANGED <<explorer, grown>>
              /\ IF nav' = "commands" THEN RebuildCommands ELSE UNCHANGED commands
            BY <1>4 DEF ActivateNav
        <2>2. received' = received
            BY <2>1 DEF engineVars
        <2>3. ChannelOf(explorer)'
            BY <2>1, <2>2, Rebuilt DEF TableInv, ChannelOf
        <2> QED BY <2>1, <2>3, Rebuilt, CommandsRebuilt DEF TableInv
    <1>5. CASE \E q \in Queries : Search(q)
        <2>1. RebuildExplorer /\ UNCHANGED <<engineVars, app, nav, tab, commands, last>>
            BY <1>5 DEF Search
        <2>2. CommandRows' = CommandRows /\ reading' = reading
            BY <2>1 DEF engineVars, models, lists
        <2> QED BY <2>1, <2>2, Rebuilt DEF TableInv, Stale
    <1>6. CASE ResetStatistics
        <2>1. /\ RebuildExplorer
              /\ UNCHANGED <<reading, latest, app, nav, commands, last>>
            BY <1>6 DEF ResetStatistics, ResetStats, lists
        <2> QED BY <2>1, Rebuilt DEF TableInv, Stale
    <1>7. CASE \E published \in BOOLEAN : SendCommand(published)
        <2>1. /\ RebuildCommands
              /\ UNCHANGED <<engineVars, app, nav, tab, query, explorer, grown>>
            BY <1>7 DEF SendCommand
        <2>2. /\ ExplorerRows' = ExplorerRows /\ UNCHANGED <<received, reading>>
            BY <2>1 DEF engineVars, models, lists
        <2> QED BY <2>1, <2>2, CommandsRebuilt DEF TableInv, ChannelOf, Stale
    <1>8. CASE UpdateBegin
        <2>1. /\ reading' = TRUE /\ UNCHANGED <<received, models, uiVars>>
            BY <1>8 DEF UpdateBegin, PollBegin
        <2> QED BY <2>1 DEF models, uiVars, views, TableInv, ChannelOf
    <1>9. CASE UpdatePacket
        <2>1. /\ reading' = TRUE
              /\ UNCHANGED <<received, app, nav, tab, query, explorer, commands, last>>
              /\ grown' = (grown \/ DOMAIN ExplorerRows' # DOMAIN ExplorerRows)
            BY <1>9 DEF UpdatePacket, ProcessPacket
        <2> QED BY <2>1 DEF TableInv, ChannelOf, NavInv
    <1>10. CASE UpdateRaises \/ Unmount
        <2>1. app' # "running" /\ UNCHANGED <<received, explorer>>
            BY <1>10 DEF UpdateRaises, PollRaises, Unmount, views, engineVars
        <2> QED BY <2>1 DEF TableInv, ChannelOf
    <1>11. CASE UpdateEnd
        <2>1. /\ reading' = FALSE
              /\ UNCHANGED <<received, models, app, nav, tab, query, last, grown>>
              /\ explorer' = IF nav = "explorer" THEN Refreshed(explorer, ExplorerRows)
                             ELSE explorer
              /\ commands' = IF nav = "commands" THEN Refreshed(commands, CommandRows)
                             ELSE commands
            BY <1>11 DEF UpdateEnd, PollEnd
        <2>2. ExplorerRows' = ExplorerRows /\ CommandRows' = CommandRows
            BY <2>1 DEF models
        <2>3. ChannelOf(explorer)'
            BY <2>1 DEF TableInv, ChannelOf, Refreshed
        <2>4. /\ nav = "explorer" => ~Stale(explorer', ExplorerRows)
                                     /\ DOMAIN explorer' = DOMAIN explorer
              /\ nav = "commands" => ~Stale(commands', CommandRows)
            BY <2>1, WhatRefreshedShows
        <2> QED BY <2>1, <2>2, <2>3, <2>4 DEF TableInv, Stale
    <1>12. CASE Stopped
        <2>1. app' # "running" /\ UNCHANGED <<received, explorer>>
            BY <1>12 DEF Stopped, EngineStop, views
        <2> QED BY <2>1 DEF TableInv, ChannelOf
    <1>13. CASE Subscribing
        <2>1. /\ UNCHANGED <<reading, models, uiVars>>
              /\ received' = received \/ received' = received + 1
            BY <1>13 DEF Subscribing, PutDown, Take, lists
        <2>2. ChannelOf(explorer)'
            BY <2>1 DEF uiVars, views, TableInv, ChannelOf
        <2> QED BY <2>1, <2>2 DEF models, uiVars, views, TableInv, Stale
    <1>14. CASE UNCHANGED vars
        BY <1>14 DEF vars, engineVars, models, lists, uiVars, views, TableInv,
            ChannelOf, Stale
    <1> QED BY <1>1, <1>2, <1>3, <1>4, <1>5, <1>6, <1>7, <1>8, <1>9, <1>10,
               <1>11, <1>12, <1>13, <1>14 DEF Next, Updating

LEMMA ScreenFollows ==
    ASSUME NavInv, TableInv
    PROVE  ScreenIsCurrent
    <1> SUFFICES ASSUME Idle PROVE
            /\ nav = "explorer" =>
                /\ ~Stale(explorer, ExplorerRows)
                /\ tab # "stats" => CopiesWhatItShows
                /\ ~grown /\ query = NoQuery => DOMAIN explorer = DOMAIN ExplorerRows
            /\ nav = "commands" => ~Stale(commands, CommandRows)
        BY DEF ScreenIsCurrent
    <1>1. app = "running" /\ ~reading
        BY DEF Idle
    <1>2. ASSUME nav = "explorer", tab # "stats" PROVE CopiesWhatItShows
        <2>1. \A key \in DOMAIN explorer \cap DOMAIN ExplorerRows :
                explorer[key] = ExplorerRows[key]
            BY <1>1, <1>2 DEF TableInv, Stale
        <2> QED BY <1>2, <2>1, WhatTheTabShows DEF CopiesWhatItShows, NavInv
    <1> QED BY <1>1, <1>2 DEF TableInv

-----------------------------------------------------------------------------

LEMMA InitialCount == EngineInit => CountInv
    <1> SUFFICES ASSUME EngineInit PROVE CountInv
        OBVIOUS
    <1>1. \A k \in Kinds : latest[k] = Undecoded /\ count[k] = 0
        BY DEF EngineInit
    <1>2. Len(inbox) = 0 /\ Len(batch) = 0 /\ Len(carried) = 0
        BY DEF EngineInit
    <1>3. total = 0 /\ received = 0 /\ 0 <= MaxReceived /\ count \in [Kinds -> Nat]
        BY EngineAssumption DEF EngineInit
    <1>4. total + Len(inbox) + Len(batch) + Len(carried) <= received
        BY <1>2, <1>3
    <1>5. polling \in BOOLEAN /\ reading \in BOOLEAN
        BY DEF EngineInit
    <1> QED BY <1>1, <1>3, <1>4, <1>5 DEF CountInv

LEMMA InitialTables == Init => TableInv
    BY DEF Init, TableInv, ChannelOf

(* What holds of the engine in every state of the application.               *)
LEMMA EngineInvariants == Spec => [](QueueInv /\ LossInv /\ CountInv)
    <1>1. EngineInit => QueueInv /\ LossInv /\ CountInv
        BY InitialQueue, InitialLoss, InitialCount
    <1>2. QueueInv /\ LossInv /\ CountInv /\ [EngineNext]_engineVars
            => (QueueInv /\ LossInv /\ CountInv)'
        BY QueueStep, LossStep, CountStep
    <1> QED BY <1>1, <1>2, ManagerUsesEngine, PTL DEF EngineSpec

LEMMA ApplicationInvariants == Spec => [](AppInv /\ NavInv /\ TableInv)
    <1>1. Init => AppInv /\ NavInv /\ TableInv
        <2>1. Init => AppInv
            BY DEF Init, EngineInit, AppInv
        <2> QED BY <2>1, InitialNav, InitialTables
    <1>2. QueueInv /\ CountInv /\ NavInv => received \in Nat /\ ChannelOf(ExplorerRows)
        BY RowsCountReceived DEF QueueInv
    <1>3. AppInv /\ NavInv /\ [Next]_vars => (AppInv /\ NavInv)'
        BY AppInvPreserved, NavStep
    <1>4. AppInv /\ NavInv /\ TableInv /\ [Next]_vars
            /\ received \in Nat /\ ChannelOf(ExplorerRows)
            /\ (received \in Nat /\ ChannelOf(ExplorerRows))'
            => TableInv'
        <2> SUFFICES ASSUME AppInv, NavInv, TableInv, [Next]_vars,
                            received \in Nat, received' \in Nat,
                            ChannelOf(ExplorerRows), ChannelOf(ExplorerRows)'
                     PROVE  TableInv'
            OBVIOUS
        <2> QED BY TableStep
    <1> QED BY <1>1, <1>2, <1>3, <1>4, EngineInvariants, PTL DEF Spec

(* Between two updates, whatever the user did and in whatever order tabs     *)
(* were chosen and handled and packets came in, the open table shows what    *)
(* the engine holds and what would be copied from it.                        *)
THEOREM ScreenShowsTheEngine == Spec => []ScreenIsCurrent
    BY ApplicationInvariants, ScreenFollows, PTL

(* The types of the application and its engine, with the bounds the counters *)
(* never go beyond: no packet is counted that was not received.              *)
THEOREM ManagerTypes == Spec => []TypeOK
    <1>1. QueueInv /\ LossInv /\ CountInv /\ NavInv /\ TableInv => TypeOK
        BY EngineTypes DEF TypeOK, NavInv, TableInv, ChannelOf
    <1> QED BY <1>1, EngineInvariants, ApplicationInvariants, PTL

=============================================================================
