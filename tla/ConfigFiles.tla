---------------------------- MODULE ConfigFiles -----------------------------
(***************************************************************************)
(* CustomPluginVariables.JSON as its three users see it: the installer,    *)
(* which merges into it (install/config.py), the manager's form, which     *)
(* shows and edits part of it (ui/app.py, ui/helpers.py), and the plugin,  *)
(* which searches its text (main.cpp).                                     *)
(*                                                                         *)
(* A file's sections have a name, a place in the text and variables.  Of   *)
(* the plugin's variables three stand for all: the switch, which every     *)
(* plugin has; a rate, which the form edits; and a host the form does not  *)
(* have.  A rate's text is the sequence of its words: <<"60", "Hz">>,      *)
(* <<"off">>.                                                              *)
(***************************************************************************)
EXTENDS Integers, Sequences, FiniteSetsExt

Switch == " Enabled"
Rate == "PlayerTelemetryRate"
Host == "InboundTcpHost"

Keys == {Switch, Rate, Host}

(* The exact key of the section, and the two it had earlier.                 *)
Dll == "isiMotor_Pulse.dll"
Base == "isiMotor_Pulse"
Alt == "isiMotor-Pulse"

(* Sections of other plugins: a short one, and one so long that what follows *)
(* it lies beyond the plugin's buffer.                                       *)
Other == "Other.dll"
Long == "Long.dll"

Names == {Dll, Base, Alt, Other, Long}

(* A dictionary, after update(more).                                         *)
Updated(vars, more) ==
    [key \in DOMAIN vars \cup DOMAIN more |->
        IF key \in DOMAIN more THEN more[key] ELSE vars[key]]

Defaults ==
    [key \in Keys |-> CASE key = Switch -> "1"
                        [] key = Rate   -> <<"unlimited">>
                        [] key = Host   -> "local"]

(* The empty dictionary.                                                     *)
Nothing == [key \in {} |-> 0]

Object(sections) == [state |-> "object", sections |-> sections]
Missing == [state |-> "missing", sections |-> Nothing]
Torn == [state |-> "torn", sections |-> Nothing]

(* The place behind all sections.                                            *)
End(sections) == 1 + Max({0} \cup {sections[n].place : n \in DOMAIN sections})

(* Assigning to a key of a dictionary keeps its place or takes the last one. *)
Assigned(sections, name, vars) ==
    LET place == IF name \in DOMAIN sections THEN sections[name].place
                 ELSE End(sections)
    IN  [n \in DOMAIN sections \cup {name} |->
            IF n = name THEN [place |-> place, vars |-> vars] ELSE sections[n]]

-----------------------------------------------------------------------------
(* The installer.                                                            *)

(* What json.loads makes of the file; nothing, if it cannot be parsed.       *)
Parsed(file) == file.sections

VarsOf(sections, name) ==
    IF name \in DOMAIN sections THEN sections[name].vars ELSE Nothing

(* The earlier keys come after the exact one and win over it.                *)
Merged(sections) ==
    Updated(Updated(Updated(Defaults, VarsOf(sections, Dll)),
                    VarsOf(sections, Base)),
            VarsOf(sections, Alt))

(* int(merged[" Enabled"]), or 1.                                            *)
WithNumber(vars) ==
    [vars EXCEPT ![Switch] = IF @ \in {"0", "1"} THEN @ ELSE "1"]

(* data without the earlier keys, the section in its place or at the end.    *)
Stored(sections, vars) ==
    LET kept == [n \in DOMAIN sections \ {Base, Alt} |-> sections[n]]
    IN  Object(Assigned(kept, Dll, vars))

\* Variant: the earlier keys win over what is saved, too.
SavedLegacyLast(file, variables) ==
    Stored(Parsed(file),
           WithNumber(Updated(Updated(Merged(Parsed(file)), variables),
                              VarsOf(Parsed(file), Base))))

\* Variant: the file is written without having been read.
SavedAnew(file, variables) ==
    Stored(Nothing, WithNumber(Updated(Defaults, variables)))

(* write_plugin_json_variables, one file.                                    *)
Saved(file, variables) ==
    Stored(Parsed(file), WithNumber(Updated(Merged(Parsed(file)), variables)))

(* configure_game_json, one file.                                            *)
Configured(file) == Stored(Parsed(file), Merged(Parsed(file)))

(* read_plugin_json_variables stops at the first key it finds.               *)
ReadVariables(file) ==
    LET sections == Parsed(file)
        name == CASE Dll \in DOMAIN sections  -> Dll
                  [] Dll \notin DOMAIN sections /\ Base \in DOMAIN sections -> Base
                  [] OTHER                    -> Alt
    IN  Updated(Defaults, VarsOf(sections, name))

-----------------------------------------------------------------------------
(* The form.                                                                 *)

\* Variant: the unit stays with the number.
ParseRateWhole(text) ==
    CASE text = <<"unlimited">> -> [mode |-> "unlimited", hz |-> "unlimited"]
      [] text = <<"off">>       -> [mode |-> "off", hz |-> "unlimited"]
      [] OTHER                  -> [mode |-> "limited", hz |-> text]

(* parse_rate_to_mode_and_hz with the default the form gives this rate.      *)
ParseRate(text) ==
    CASE text = <<"unlimited">> -> [mode |-> "unlimited", hz |-> "unlimited"]
      [] text = <<"off">>       -> [mode |-> "off", hz |-> "unlimited"]
      [] OTHER                  -> [mode |-> "limited", hz |-> text[1]]

(* format_mode_and_hz_to_rate, with another default when it reads the form.  *)
FormatRate(mode, hz) ==
    CASE mode = "unlimited" -> <<"unlimited">>
      [] mode = "off"       -> <<"off">>
      [] mode = "limited"   -> <<IF hz = "" THEN "100" ELSE hz, "Hz">>

LoadForm(vars) ==
    [enabled |-> IF vars[Switch] \in {"1", "true"} THEN "1" ELSE "0",
     rate |-> ParseRate(vars[Rate])]

ReadForm(form) ==
    [key \in {Switch, Rate} |->
        IF key = Switch THEN form.enabled
        ELSE FormatRate(form.rate.mode, form.rate.hz)]

-----------------------------------------------------------------------------
(* The plugin.                                                               *)

(* The sections of which the buffer holds at least the beginning.            *)
Text(file) ==
    {n \in DOMAIN file.sections :
        Long \in DOMAIN file.sections =>
            file.sections[n].place <= file.sections[Long].place}

(* Those that have the key, and the first of them.                           *)
Having(file, key) == {n \in Text(file) : key \in DOMAIN file.sections[n].vars}

FirstHaving(file, key) ==
    CHOOSE n \in Having(file, key) :
        \A o \in Having(file, key) :
            file.sections[n].place <= file.sections[o].place

(* The first occurrence of the key in the text, whatever section it is in.   *)
ExtractJsonString(file, key) ==
    IF Having(file, key) = {} THEN Defaults[key]
    ELSE file.sections[FirstHaving(file, key)].vars[key]

(* A number, or the default when the text is none.                           *)
ParseIntString(text) == IF text = "0" THEN 0 ELSE 1

(* strtod of the words: hertz, 0 for off and for what is no number, and a    *)
(* negative rate for unlimited.                                              *)
ParseRateString(text) ==
    CASE text = <<"unlimited">> -> 0 - 1
      [] text = <<"off">>       -> 0
      [] text[1] = "60"         -> 60
      [] text[1] = "100"        -> 100
      [] OTHER                  -> 0

(* The first candidate path that opens.                                      *)
LoadConfigFile(places) ==
    LET file == IF places["player"] # Missing THEN places["player"]
                ELSE places["root"]
    IN [enabled |-> ParseIntString(ExtractJsonString(file, Switch)) # 0,
        rate |-> ParseRateString(ExtractJsonString(file, Rate)),
        host |-> ExtractJsonString(file, Host)]

=============================================================================
