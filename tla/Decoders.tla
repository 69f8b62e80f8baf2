------------------------------ MODULE Decoders ------------------------------
(***************************************************************************)
(* The decoders of the Python client (fbs_codec.py and the modules over    *)
(* it), as far as their callers can tell them apart: a decoder answers a   *)
(* packet or None, or it raises.                                           *)
(*                                                                         *)
(* A message is a record of its kind, its size ("empty", "stub" for bytes  *)
(* that end before the root's offset, "short" for bytes that end inside    *)
(* the FlatBuffer, "whole"), the texts of it that are not UTF-8 -- the     *)
(* plugin copies the game's characters as they are, the decoders decode    *)
(* them strictly -- and the fields that are absent.                        *)
(***************************************************************************)
EXTENDS Schemas

Kinds == {"telemetry", "scoring", "system_event", "full_scoring", "weather",
          "extended_state", "force_feedback", "graphics"}

Messages ==
    [kind : Kinds, size : {"empty", "stub", "short", "whole"},
     garbled : SUBSET Fields, absent : SUBSET Fields]

-----------------------------------------------------------------------------

(* Absent tables a decoder has an answer for: it asks whether they are None, *)
(* or goes no further than the length of their list.  Of texts all do.       *)
Asked == {"lmu", "ecu", "vehicles"}

(* Reading a table fails over a text that is not UTF-8, and over a None the  *)
(* decoder did not reckon with.                                              *)
Stumbles(m, table) ==
    \/ \E f \in m.garbled : f \in DOMAIN table /\ table[f] = "text"
    \/ \E f \in m.absent \ Asked :
        f \in DOMAIN table /\ table[f] # "text" /\ Absent(table[f]) = "None"

(* What every decoder does first, and what reading the fields runs into.     *)
Decode(m, stumbles) ==
    IF m.size = "empty" THEN "None"
    ELSE IF m.size \in {"stub", "short"} \/ stumbles THEN "raises"
    ELSE "packet"

EcuStumbles(m) == "ecu" \notin m.absent /\ Stumbles(m, EcuRaw)

LmuTelemetryStumbles(m) ==
    "lmu" \notin m.absent /\ (Stumbles(m, LmuTelemetry) \/ EcuStumbles(m))

WheelStumbles(m) == Stumbles(m, TelemWheel)

TelemetryStumbles(m) ==
    Stumbles(m, TelemInfo) \/ LmuTelemetryStumbles(m) \/ WheelStumbles(m)

VehicleStumbles(m) == Stumbles(m, VehicleScoring)

FullScoringStumbles(m) ==
    \/ Stumbles(m, FullScoringSession)
    \/ "vehicles" \notin m.absent /\ VehicleStumbles(m)

DecodeTelemetry(m) == Decode(m, TelemetryStumbles(m))

DecodeCompactScoring(m) == Decode(m, Stumbles(m, CompactScoring))

DecodeFullScoring(m) == Decode(m, FullScoringStumbles(m))

DecodeSystemEvent(m) == Decode(m, Stumbles(m, SystemEvent))

DecodeForceFeedback(m) == Decode(m, Stumbles(m, ForceFeedback))

DecodeWeather(m) == Decode(m, Stumbles(m, WeatherControl))

DecodeExtendedState(m) == Decode(m, Stumbles(m, ExtendedState))

DecodeGraphics(m) == Decode(m, Stumbles(m, Graphics))

(* The decoder of each packet type.                                          *)
Decoded(m) ==
    CASE m.kind = "telemetry"      -> DecodeTelemetry(m)
      [] m.kind = "scoring"        -> DecodeCompactScoring(m)
      [] m.kind = "full_scoring"   -> DecodeFullScoring(m)
      [] m.kind = "system_event"   -> DecodeSystemEvent(m)
      [] m.kind = "force_feedback" -> DecodeForceFeedback(m)
      [] m.kind = "weather"        -> DecodeWeather(m)
      [] m.kind = "extended_state" -> DecodeExtendedState(m)
      [] m.kind = "graphics"       -> DecodeGraphics(m)

(* The root of a message, of whichever type: its fields are not read yet.    *)
Parsed(m) ==
    CASE m.size = "empty" -> "None"
      [] m.size = "stub"  -> "raises"
      [] OTHER            -> "packet"

=============================================================================
