---------------------------- MODULE MCInstaller -----------------------------
(* An instance of Installer for TLC.                                         *)
EXTENDS Installer, TLC

CONSTANTS VdfFiles, Holds

Found == INSTANCE Detection

AllTargets == Found!AllDetected

(* Two library files that name one library between them, by two of its       *)
(* names' targets, and the games of it.                                      *)
TwoVdfFiles == << <<"lib">>, <<"lib", "second">> >>
OneOfEach == {<<"lib", "LMU">>, <<"second", "rF2">>}

(* A file's sections in the order of the text.                               *)
InOrder(listed) ==
    LET At(n) == CHOOSE i \in DOMAIN listed : listed[i].name = n
    IN  Object([n \in {listed[i].name : i \in DOMAIN listed} |->
                   [place |-> At(n), vars |-> listed[At(n)].vars]])

Section(name, variables) == [name |-> name, vars |-> variables]

(* The section the notices print, the installer's own with another host, one *)
(* with a switch that is no number.                                          *)
Printed == Section(Base, Snippet)
Own == Section(Dll, (Switch :> "1") @@ (Rate :> <<"100", "Hz">>) @@ (Host :> "lan"))
Worded == Section(Alt, (Switch :> "yes") @@ (Host :> "lan"))

OtherOn(name) == Section(name, Switch :> "0")

Pair(player, root) == [p \in Places |-> IF p = "player" THEN player ELSE root]

SomeFiles ==
    {Pair(Missing, Missing),
     Pair(InOrder(<<OtherOn(Other), Printed>>), Missing),
     Pair(InOrder(<<Own, OtherOn(Other), Printed>>), Torn),
     Pair(Missing, InOrder(<<Worded, OtherOn(Long)>>)),
     Pair(InOrder(<<OtherOn(Long), Own>>), InOrder(<<Own>>))}

=============================================================================
