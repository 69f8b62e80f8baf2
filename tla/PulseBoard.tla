----------------------------- MODULE PulseBoard -----------------------------
(***************************************************************************)
(* What inbound hardware control promises, whatever table the plugin keeps *)
(* it in: at most one pulse per control.  A press replaces the control's   *)
(* pulse, time wears every pulse down and releases it, and a restart       *)
(* releases them all.                                                      *)
(***************************************************************************)
EXTENDS Naturals

CONSTANTS
    Controls,    \* names of controls
    Values,      \* what a control can be set to
    HoldTimes,   \* for how long, in units of game time
    FrameTimes,  \* game time between two updates
    Released     \* no pulse

VARIABLE held    \* the pulse of each control

Pulse == [value : Values, left : Nat \ {0}]

Press(c, v, d) == held' = [held EXCEPT ![c] = [value |-> v, left |-> d]]

WornDown(p, dt) ==
    IF p = Released \/ p.left <= dt
    THEN Released
    ELSE [p EXCEPT !.left = @ - dt]

Pass(dt) == held' = [c \in Controls |-> WornDown(held[c], dt)]

Clear == held' = [c \in Controls |-> Released]

Init == held = [c \in Controls |-> Released]

Next ==
    \/ \E c \in Controls, v \in Values, d \in HoldTimes : Press(c, v, d)
    \/ \E dt \in FrameTimes : Pass(dt)
    \/ Clear

Spec == Init /\ [][Next]_held

=============================================================================
