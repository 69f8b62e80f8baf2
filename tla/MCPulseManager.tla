--------------------------- MODULE MCPulseManager ---------------------------
(* An instance of PulseManager for TLC.                                      *)
EXTENDS PulseManager

Packet(kind, garbled, cars) ==
    [kind |-> kind, size |-> "whole", garbled |-> garbled, absent |-> {},
     cars |-> cars]

(* Sessions with one car and with two, one with a name in another encoding,  *)
(* and the weather, which the table of the commands shows.                   *)
SomePackets ==
    {Packet("full_scoring", {}, 1),
     Packet("full_scoring", {}, 2),
     Packet("full_scoring", {"driver_name"}, 1),
     Packet("weather", {}, 0)}

(* Nothing, the rows of the grid, and what its first packet shows.           *)
SomeQueries == {NoQuery, [keys |-> {"grid"}, values |-> {1}]}

=============================================================================
