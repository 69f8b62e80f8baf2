---------------------------- MODULE MCPulseClient ----------------------------
(* An instance of PulseClient for TLC.                                       *)
EXTENDS PulseClient

CONSTANTS c1, c2

(* The application subscribes before it starts the client, or does not.      *)
SomeRosters == {<<>>, <<c1, c2>>}

Message(kind, size, garbled, absent) ==
    [kind |-> kind, size |-> size, garbled |-> garbled, absent |-> absent]

(* A session, one with a driver's name in another encoding, one without its  *)
(* wind, and no bytes.                                                       *)
SomeMessages ==
    {Message("full_scoring", "whole", {}, {}),
     Message("full_scoring", "whole", {"driver_name"}, {}),
     Message("full_scoring", "whole", {}, {"wind"}),
     Message("full_scoring", "empty", {}, {})}

(* What a decoder cannot do without.                                         *)
Vital == {"pos", "local_vel", "local_accel", "ori", "local_rot",
          "local_rot_accel", "last_impact_pos", "wheels", "wind", "physics",
          "cam_pos", "cam_ori"}

(* Every message that lacks none of them decodes, whatever else it lacks;    *)
(* without any one of them some message does not.                            *)
ASSUME
    \A k \in Kinds :
        /\ Decoded(Message(k, "whole", {}, Fields \ Vital)) = "packet"
        /\ \A f \in Fields \ Vital :
            Decoded(Message(k, "whole", {}, {f})) = "packet"
ASSUME
    \A f \in Vital : \E k \in Kinds :
        Decoded(Message(k, "whole", {}, {f})) = "raises"

=============================================================================
