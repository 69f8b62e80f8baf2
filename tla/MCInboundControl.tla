--------------------------- MODULE MCInboundControl --------------------------
(* Instances of InboundControl for TLC.                                      *)
EXTENDS InboundControl

(* Two controls and a long name that is stored as "cut".                     *)
NamesHere == {"tc", "abs", "long", "cut"}
TruncatedHere == [n \in NamesHere |-> IF n = "long" THEN "cut" ELSE n]
GameNamesHere == NamesHere \cup {"_tc"}
CleanHere == [g \in GameNamesHere |-> IF g = "_tc" THEN "tc" ELSE g]

Control(n, v, d) == [kind |-> "hw", name |-> n, value |-> v, duration |-> d]

Weather1 == "storm"
Override == [kind |-> "weather", data |-> Weather1]
WeathersHere == {Weather1}

(* A press and a release of one control, a second control with the default   *)
(* duration, the long name, an override and a buffer that does not verify.   *)
CommandsHere ==
    {Control("tc", 1, 2), Control("tc", 0, 3), Control("abs", 1, 0),
     Control("long", 1, 2), Override, [kind |-> "ignored"]}

Settings(in, m, w) == [inbound |-> in, masked |-> m, weatherOn |-> w]
ConfigsHere ==
    {Settings(TRUE, FALSE, FALSE), Settings(TRUE, TRUE, TRUE),
     Settings(FALSE, FALSE, TRUE)}
=============================================================================
