--------------------------- MODULE TelemetryEngine ---------------------------
(***************************************************************************)
(* TelemetryEngine of the manager: the subscriber's thread appends what it *)
(* receives to the pending list, the thread of the user interface polls:   *)
(* it takes the list, leaves a new one, and decodes its packets in order.  *)
(*                                                                         *)
(* No lock guards the list.  The subscriber's callback reads the attribute *)
(* self._pending and then appends to the list it read; a poll between the  *)
(* two makes it append to a list that is being gone over, or that nobody   *)
(* will look at any more.                                                  *)
(***************************************************************************)
EXTENDS Decoders, Integers, Sequences, SequencesExt, FiniteSetsExt

CONSTANTS
    Feed,        \* packets the plugin may send: messages with their cars
    MaxReceived  \* packets received in a behaviour

ASSUME EngineAssumption ==
    /\ \A m \in Feed :
        /\ m.cars \in Nat
        /\ [kind |-> m.kind, size |-> m.size, garbled |-> m.garbled,
            absent |-> m.absent] \in Messages
    /\ MaxReceived \in Nat

VARIABLES
    polling,    \* running: does a poll do anything?
    inbox,      \* the list self._pending is
    batch,      \* what is left of the list poll goes over
    reading,    \* is poll going over a list?
    grip,       \* the list the subscriber's callback has read
    carried,    \* the packet it is about to append
    received,   \* packets received so far
    total,      \* total_packets
    count,      \* packets of each channel
    latest,     \* latest packet of each kind that was decoded
    processed,  \* history: numbers of the packets poll came to
    late,       \* history: packets appended to a list nobody looks at
    dropped     \* history: packets taken off with one that raised

lists == <<inbox, batch, reading>>
callback == <<grip, carried>>
models == <<total, count, latest>>
histories == <<processed, late, dropped>>
engineVars == <<polling, lists, callback, received, models, histories>>

Undecoded == [number |-> 0, cars |-> 0]

Numbered(m, n) == [kind |-> m.kind, size |-> m.size, garbled |-> m.garbled,
                   absent |-> m.absent, cars |-> m.cars, number |-> n]

Numbers(list) == {list[i].number : i \in DOMAIN list}

EngineTypeOK ==
    /\ polling \in BOOLEAN /\ reading \in BOOLEAN
    /\ grip \in {"none", "inbox", "batch", "orphan"}
    /\ received \in 0 .. MaxReceived
    /\ Numbers(inbox) \cup Numbers(batch) \cup Numbers(carried)
           \cup processed \cup late \cup dropped \subseteq 1 .. received
    /\ total \in 0 .. received
    /\ count \in [Kinds -> 0 .. received]
    /\ \A k \in Kinds :
        latest[k] # Undecoded => latest[k].kind = k /\ latest[k].number <= received


-----------------------------------------------------------------------------
(* The subscriber's thread.                                                  *)

(* The callback begins: it has the packet and reads self._pending.           *)
Take(m) ==
    /\ grip = "none"
    /\ received < MaxReceived
    /\ received' = received + 1
    /\ carried' = <<Numbered(m, received + 1)>>
    /\ grip' = "inbox"
    /\ UNCHANGED <<polling, lists, models, histories>>

(* It appends to the list it has read, wherever that list is by now.         *)
PutDown ==
    /\ grip # "none"
    /\ grip' = "none"
    /\ carried' = <<>>
    /\ inbox' = IF grip = "inbox" THEN inbox \o carried ELSE inbox
    /\ batch' = IF grip = "batch" THEN batch \o carried ELSE batch
    /\ late' = IF grip = "orphan" THEN late \cup Numbers(carried) ELSE late
    /\ UNCHANGED <<polling, reading, received, models, processed, dropped>>

-----------------------------------------------------------------------------
(* The thread of the user interface.                                         *)

EngineStart ==
    /\ inbox' = <<>>
    /\ polling' = TRUE
    /\ UNCHANGED <<batch, reading, callback, received, models, histories>>

(* The end of stop, once the subscriber's thread has ended.                  *)
EngineStop ==
    /\ polling' = FALSE
    /\ UNCHANGED <<lists, callback, received, models, histories>>

\* Variant: the new list is in place before the old one is taken.
PollBeginSwapped ==
    /\ polling /\ ~reading
    /\ reading' = TRUE
    /\ batch' = <<>>
    /\ inbox' = <<>>
    /\ grip' = IF grip = "inbox" THEN "orphan" ELSE grip
    /\ UNCHANGED <<polling, carried, received, models, histories>>

\* Variant: the list goes on being the pending one.
PollBeginKeeping ==
    /\ polling /\ ~reading
    /\ reading' = TRUE
    /\ batch' = inbox
    /\ UNCHANGED <<polling, inbox, callback, received, models, histories>>

(* poll takes the list and leaves a new one, in this order.                  *)
PollBegin ==
    /\ polling /\ ~reading
    /\ reading' = TRUE
    /\ batch' = inbox
    /\ inbox' = <<>>
    /\ grip' = IF grip = "inbox" THEN "batch" ELSE grip
    /\ UNCHANGED <<polling, carried, received, models, histories>>

\* Variant: the total is counted twice.
RecordTwice(p) == total' = total + 2 /\ count' = [count EXCEPT ![p.kind] = @ + 1]

(* The totals before the packet is decoded, its channel's count after.       *)
Record(p) == total' = total + 1 /\ count' = [count EXCEPT ![p.kind] = @ + 1]

\* Variant: the newest packet of the list comes first.
ProcessPacketLast ==
    /\ reading /\ batch # <<>>
    /\ LET p == Last(batch) IN
        /\ Decoded(p) # "raises"
        /\ Record(p)
        /\ latest' = IF Decoded(p) = "packet"
                     THEN [latest EXCEPT ![p.kind] = p] ELSE latest
        /\ processed' = processed \cup {p.number}
    /\ batch' = Front(batch)
    /\ UNCHANGED <<polling, inbox, reading, callback, received, late, dropped>>

ProcessPacket ==
    /\ reading /\ batch # <<>>
    /\ LET p == Head(batch) IN
        /\ Decoded(p) # "raises"
        /\ Record(p)
        /\ latest' = IF Decoded(p) = "packet"
                     THEN [latest EXCEPT ![p.kind] = p] ELSE latest
        /\ processed' = processed \cup {p.number}
    /\ batch' = Tail(batch)
    /\ UNCHANGED <<polling, inbox, reading, callback, received, late, dropped>>

(* The loop over the list has come to its end.                               *)
PollEnd ==
    /\ reading /\ batch = <<>>
    /\ reading' = FALSE
    /\ grip' = IF grip = "batch" THEN "orphan" ELSE grip
    /\ UNCHANGED <<polling, inbox, batch, carried, received, models, histories>>

(* A packet that does not decode: counted in the total but not in its        *)
(* channel, and the rest of the list is lost with it.                        *)
PollRaises ==
    /\ reading /\ batch # <<>>
    /\ Decoded(Head(batch)) = "raises"
    /\ total' = total + 1
    /\ dropped' = dropped \cup Numbers(batch)
    /\ batch' = <<>>
    /\ reading' = FALSE
    /\ grip' = IF grip = "batch" THEN "orphan" ELSE grip
    /\ UNCHANGED <<polling, inbox, carried, received, count, latest, processed,
                   late>>

ResetStats ==
    /\ total' = 0
    /\ count' = [k \in Kinds |-> 0]
    /\ UNCHANGED <<polling, lists, callback, received, latest, histories>>

EngineInit ==
    /\ polling = FALSE
    /\ inbox = <<>> /\ batch = <<>>
    /\ reading = FALSE
    /\ grip = "none" /\ carried = <<>>
    /\ received = 0
    /\ total = 0 /\ count = [k \in Kinds |-> 0]
    /\ latest = [k \in Kinds |-> Undecoded]
    /\ processed = {} /\ late = {} /\ dropped = {}

(* The engine on its own: the user interface calls its operations in any     *)
(* order, but for polls, which do not overlap with anything it does.         *)
EngineNext ==
    \/ \E m \in Feed : Take(m)
    \/ PutDown
    \/ PollBegin
    \/ ProcessPacket
    \/ PollRaises
    \/ PollEnd
    \/ ~polling /\ received = 0 /\ EngineStart
    \/ ~reading /\ grip = "none" /\ EngineStop
    \/ ~reading /\ ResetStats

EngineSpec == EngineInit /\ [][EngineNext]_engineVars

-----------------------------------------------------------------------------

(* No packet is lost but those the subscriber was about to append while a    *)
(* whole poll went by, and those of a poll that raised; and none is in two   *)
(* places, so none is processed twice.                                       *)
OnlyLateAreLost ==
    /\ processed \cup late \cup dropped
         = (1 .. received) \ (Numbers(inbox) \cup Numbers(batch) \cup Numbers(carried))
    /\ Len(inbox) + Len(batch) + Len(carried)
         = Cardinality(Numbers(inbox) \cup Numbers(batch) \cup Numbers(carried))
    /\ late \cap (processed \cup dropped) = {}

(* Packets are processed in the order they were received, whatever list the  *)
(* subscriber appends to: the latest packet of a kind never goes back.       *)
InOrder ==
    [][/\ \A n \in processed' \ processed : \A old \in processed : old < n
       /\ \A k \in Kinds : latest'[k].number >= latest[k].number]_engineVars

=============================================================================
