------------------------------- MODULE Schemas -------------------------------
(***************************************************************************)
(* The tables of the messages, as the generated FlatBuffers classes let a  *)
(* decoder see them.  Every field of a table may be absent: a plugin of    *)
(* another version does not write it.  The accessor of an absent number    *)
(* answers its default and that of an absent list of numbers a length of   *)
(* zero; that of an absent text, structure or table, or of an element of   *)
(* an absent list of tables, answers None.                                 *)
(*                                                                         *)
(* A table maps its fields to what their accessors read.  Numbers that     *)
(* stand together are one field here, named after what they tell.          *)
(***************************************************************************)
EXTENDS TLC

Scalars(fields) == [f \in fields |-> "number"]

Lists(fields) == [f \in fields |-> "list"]

Text(fields) == [f \in fields |-> "text"]

Structures(fields) == [f \in fields |-> "structure"]

Parts(fields) == [f \in fields |-> "table"]

PartLists(fields) == [f \in fields |-> "tables"]

(* What the accessor of an absent field answers.                             *)
Absent(type) ==
    CASE type = "number" -> "default"
      [] type = "list"   -> "nothing"
      [] OTHER           -> "None"

-----------------------------------------------------------------------------
(* TelemInfo.                                                                *)

TelemetryClock == Scalars({"slot_id", "times", "lap"})

TelemetryNames == Text({"vehicle_name", "track_name"})

Motion == Structures({"pos", "local_vel", "local_accel", "ori", "local_rot",
                      "local_rot_accel"})

Drivetrain == Scalars({"gear", "engine", "clutch_rpm"})

Controls == Scalars({"throttle", "brake", "steering", "clutch",
                     "shaft_torque"})

Aero == Scalars({"deflections", "heights", "drag", "downforce"})

Condition == Scalars({"fuel", "limits", "stops", "warnings"})

Impact == Lists({"dent_severity"}) @@ Scalars({"last_impact"})
              @@ Structures({"last_impact_pos"})

Rules == Scalars({"torque", "sector", "speed_limiter", "gears", "flaps",
                  "compounds", "fuel_capacity", "ignition"})

CompoundNames == Text({"front_tire_compound_name", "rear_tire_compound_name"})

Assistance == Scalars({"limiter", "anti_stall", "wheel_range", "bias", "turbo",
                       "electric"})
                  @@ Lists({"physics_to_graphics_offset"})

TelemetryParts == Parts({"lmu"}) @@ PartLists({"wheels"})

TelemInfo ==
    TelemetryClock @@ TelemetryNames @@ Motion @@ Drivetrain @@ Controls @@ Aero
        @@ Condition @@ Impact @@ Rules @@ CompoundNames @@ Assistance
        @@ TelemetryParts

LmuTelemetry == Parts({"ecu"}) @@ Scalars({"energy", "track_limits"})
                    @@ Text({"vehicle_model"})

EcuRaw == Scalars({"traction_control", "abs", "motor_map", "brake_migration",
                   "anti_roll_bars", "wiper", "lift_and_coast"})

-----------------------------------------------------------------------------
(* TelemWheel.                                                               *)

WheelMotion == Scalars({"suspension", "brake", "rotation", "velocities", "camber"})

WheelLoad == Scalars({"forces", "load", "grip", "pressure"})

WheelTyre == Lists({"temperature", "tire_inner_layer_temperature"})
                 @@ Scalars({"wear", "surface", "flat", "geometry", "carcass"})
                 @@ Text({"terrain_name"})

TelemWheel == WheelMotion @@ WheelLoad @@ WheelTyre @@ Parts({"lmu"})

LmuWheel == Scalars({"compound_type", "brake_wear"})

-----------------------------------------------------------------------------
(* FullScoringSession and VehicleScoring.                                    *)

SessionState == Text({"track_name"})
                    @@ Scalars({"session", "times", "laps", "flags", "lights"})

SessionPlayer == Text({"player_name", "plr_file_name"})

SessionWeather == Scalars({"clouds", "temperatures", "wetness"})
                      @@ Structures({"wind"})

SessionParts == Parts({"lmu"}) @@ PartLists({"vehicles"})

FullScoringSession ==
    SessionState @@ SessionPlayer @@ SessionWeather @@ SessionParts

LmuScoringSession == Scalars({"grip", "track_limits", "time_of_day"})

VehicleNames == Text({"driver_name", "vehicle_name"}) @@ Scalars({"id"})

VehicleLaps == Scalars({"laps", "position", "status", "best", "last", "current",
                        "stops", "penalties"})

VehicleClass == Scalars({"control", "place", "behind", "lap_start"})
                    @@ Text({"vehicle_class"})

VehicleMotion == Motion

VehicleState == Scalars({"lights", "pit_state", "phase", "qualification", "estimate"})
                    @@ Text({"pit_group"})

VehicleFlags == Scalars({"flag", "yellow", "garage", "best_sectors"})
                    @@ Parts({"lmu"})

VehicleScoring == VehicleNames @@ VehicleLaps @@ VehicleClass @@ VehicleMotion
                      @@ VehicleState @@ VehicleFlags

LmuVehicleScoring == Scalars({"fuel_fraction", "track_limits"})

-----------------------------------------------------------------------------
(* The other messages.                                                       *)

CompactScoring == Text({"track_name"})
                      @@ Scalars({"session", "times", "laps", "sectors"})

WeatherControl == Scalars({"et", "clouds", "temperature", "wind"})
                      @@ Lists({"raining"})

ExtendedState == Parts({"physics"})
                     @@ Scalars({"impacts", "session", "pit_speed_limit"})

DrivingAids == Scalars({"assists", "pit", "lift", "blip"})

DrivingRules == Scalars({"multipliers", "failures", "pitcrew", "shifts",
                         "steering"})

PhysicsOptions == DrivingAids @@ DrivingRules

Graphics == Structures({"cam_pos", "cam_ori"})
                @@ Scalars({"ambient", "slot_id", "camera_type"})

SystemEvent == Scalars({"event_type"})

ForceFeedback == Scalars({"force_value"})

Tables == {TelemInfo, LmuTelemetry, EcuRaw, TelemWheel, LmuWheel,
           FullScoringSession, LmuScoringSession, VehicleScoring,
           LmuVehicleScoring, CompactScoring, WeatherControl, ExtendedState,
           PhysicsOptions, Graphics, SystemEvent, ForceFeedback}

Fields == UNION {DOMAIN table : table \in Tables}

=============================================================================
