---------------------------- MODULE MCTelemetry ----------------------------
(***************************************************************************)
(* Constants for the runs of Telemetry.                                    *)
(***************************************************************************)
EXTENDS Telemetry

MCConfig(e, p, o, m) == [ext |-> e, player |-> p, opponents |-> o, masked |-> m]

(* All streams limited; the player's only, unlimited, and no extended state; *)
(* no telemetry to carry the extended state; telemetry masked.               *)
MCConfigs ==
    {MCConfig("limited", "limited", "limited", FALSE),
     MCConfig("off", "unlimited", "off", FALSE),
     MCConfig("unlimited", "off", "off", FALSE),
     MCConfig("limited", "limited", "limited", TRUE)}

MCBindings == {{1, 8}, {1}}

=============================================================================
