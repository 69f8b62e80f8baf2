----------------------------- MODULE Installer ------------------------------
(***************************************************************************)
(* The installer (isimotor_pulse_client/install) and the form of the       *)
(* manager that drives it: saving the configuration to all games, copying  *)
(* the DLL, installing and uninstalling from the command line, reloading   *)
(* and editing the form.                                                   *)
(*                                                                         *)
(* An operation visits the games one after the other and the files of each *)
(* in a fixed order; any of its steps may fail, and what a failure does to *)
(* the rest differs from operation to operation.                           *)
(***************************************************************************)
EXTENDS ConfigFiles

CONSTANTS
    Targets,     \* the games' directories, as Detection finds them
    FirstFiles,  \* what the configuration files of a game may be at first:
                 \*   functions of the place
    MaxSteps     \* operations, edits and failures in a behaviour

Places == {"player", "root"}
Spots == {"plugins", "root"}

Dirs == {Targets[i] : i \in DOMAIN Targets}

Modes == {"unlimited", "limited", "off"}
(* What loading and editing leave in the box of the hertz.                   *)
HzTexts == {"60", "100", "unlimited", ""}

(* The texts a rate has in a file.                                           *)
RateTexts ==
    {<<"unlimited">>, <<"off">>} \cup {<<hz, "Hz">> : hz \in HzTexts \ {""}}

IsVariables(some) ==
    /\ DOMAIN some \subseteq Keys
    /\ Rate \in DOMAIN some => some[Rate] \in RateTexts

(* No two sections are at one place.                                         *)
AreSections(sections) ==
    /\ DOMAIN sections \subseteq Names
    /\ \A n \in DOMAIN sections :
        /\ sections[n] = [place |-> sections[n].place, vars |-> sections[n].vars]
        /\ sections[n].place \in Nat \ {0}
        /\ IsVariables(sections[n].vars)
    /\ \A n, o \in DOMAIN sections :
        sections[n].place = sections[o].place => n = o

IsFile(file) ==
    /\ file \in {Missing, Torn} \/ file = Object(file.sections)
    /\ AreSections(file.sections)

ASSUME InstallerAssumption ==
    /\ Targets \in Seq(Dirs) /\ Targets # <<>>
    /\ \A first \in FirstFiles :
        /\ DOMAIN first = Places
        /\ \A p \in Places : IsFile(first[p])
    /\ MaxSteps \in Nat

-----------------------------------------------------------------------------

VARIABLES
    files,     \* CustomPluginVariables.JSON of every game and place
    settings,  \* Settings.JSON likewise: are external plugins on?
    dlls,      \* copies of the DLL: games and spots
    job,       \* the operation under way and what it has still to do
    overview,  \* config_overview of the manager
    form,      \* the widgets of its form
    touched,   \* history: was the form edited since it was filled?
    saved,     \* history: the variables the last save reported as saved
    original,  \* history: the files at the start
    harmed,    \* history: files that were, or were found, half-written
    steps      \* steps left

disk == <<files, settings, dlls>>
manager == <<overview, form, touched>>
vars == <<disk, job, manager, saved, original, harmed, steps>>

NotSaved == Nothing

(* The game and the step an operation is at.                                 *)
AtStep(op, game, next, variables, failed) ==
    [op |-> op, game |-> game, next |-> next, variables |-> variables,
     failed |-> failed]

AllGames == Len(Targets)

Idle == AtStep("none", AllGames + 1, 1, NotSaved, FALSE)

-----------------------------------------------------------------------------
(* get_configuration_overview.                                               *)

ActiveFile(d) ==
    IF files[d]["player"] # Missing THEN files[d]["player"] ELSE files[d]["root"]

ActiveSettings(d) ==
    IF settings[d]["player"] # "absent" THEN settings[d]["player"]
    ELSE settings[d]["root"]

(* The variables of the first game that has any and does not merely have the *)
(* default ones.                                                             *)
ActiveVariables ==
    LET own == {i \in 1 .. AllGames :
                   /\ ActiveFile(Targets[i]) # Missing
                   /\ ReadVariables(ActiveFile(Targets[i])) # Defaults}
    IN IF own = {} THEN Defaults ELSE ReadVariables(ActiveFile(Targets[Min(own)]))

Overview ==
    [games |-> [d \in Dirs |->
                   [installed |-> \E s \in Spots : <<d, s>> \in dlls,
                    json |-> ActiveFile(d) # Missing,
                    external |-> ActiveSettings(d) = "on"]],
     active |-> ActiveVariables]

(* The game that is in a directory.                                          *)
GameOf(d) == d[1]

(* The rows of the install view: a group for each game, one for each         *)
(* variable; the host has none.                                              *)
ConfigRows(o) ==
    [games |-> [g \in {GameOf(d) : d \in Dirs} |->
                   o.games[CHOOSE d \in Dirs : GameOf(d) = g]],
     variables |-> [key \in {Switch, Rate} |-> o.active[key]]]

(* A second group for a game would have the keys of the first, which makes   *)
(* the table raise: the manager does not come up where a game is in two      *)
(* directories, and only the command line is left.                           *)
ManagerComesUp == \A d, e \in Dirs : GameOf(d) = GameOf(e) => d = e

-----------------------------------------------------------------------------
(* The form.                                                                 *)

Free == job.op = "none"

(* Between two handlers of the manager's.                                    *)
Ready == Free /\ ManagerComesUp

Spend == steps > 0 /\ steps' = steps - 1

(* The install view is opened, or its refresh button pressed.                *)
Reload ==
    /\ Ready
    /\ overview' = Overview
    /\ form' = LoadForm(overview'.active)
    /\ touched' = FALSE
    /\ UNCHANGED <<disk, job, saved, original, harmed, steps>>

(* The home view is opened: the form keeps what it has.                      *)
Home ==
    /\ Ready
    /\ overview' = Overview
    /\ UNCHANGED <<disk, job, form, touched, saved, original, harmed, steps>>

ResetDefaults ==
    /\ Ready /\ Spend
    /\ overview' = [overview EXCEPT !.active = Defaults]
    /\ form' = LoadForm(Defaults)
    /\ touched' = TRUE
    /\ UNCHANGED <<disk, job, saved, original, harmed>>

EditSwitch(e) ==
    /\ Ready /\ Spend
    /\ form' = [form EXCEPT !.enabled = e]
    /\ touched' = TRUE
    /\ UNCHANGED <<disk, job, overview, saved, original, harmed>>

(* Another mode; the box of the hertz keeps its text.                        *)
EditMode(m) ==
    /\ Ready /\ Spend
    /\ form' = [form EXCEPT !.rate.mode = m]
    /\ touched' = TRUE
    /\ UNCHANGED <<disk, job, overview, saved, original, harmed>>

(* The box is there only in limited mode.                                    *)
EditHz(text) ==
    /\ Ready /\ Spend
    /\ form.rate.mode = "limited"
    /\ form' = [form EXCEPT !.rate.hz = text]
    /\ touched' = TRUE
    /\ UNCHANGED <<disk, job, overview, saved, original, harmed>>

-----------------------------------------------------------------------------
(* Operations begin.                                                         *)

JsonSteps == << <<"json", "player">>, <<"json", "root">>,
                <<"settings", "player">>, <<"settings", "root">> >>

CopySteps == << <<"dll", "plugins">>, <<"dll", "root">> >> \o JsonSteps

InstallSteps == << <<"dll", "plugins">> >> \o JsonSteps

UninstallSteps == << <<"unlink", "plugins">>, <<"unlink", "root">> >>

(* What an operation does to one game.                                       *)
StepsOf(op) ==
    CASE op = "save"      -> JsonSteps
      [] op = "copy"      -> CopySteps
      [] op = "install"   -> InstallSteps
      [] op = "uninstall" -> UninstallSteps

Begin(op, variables) ==
    /\ Free /\ Spend
    /\ job' = AtStep(op, 1, 1, variables, FALSE)
    /\ UNCHANGED <<disk, manager, original, harmed>>

(* What was saved before may be overwritten from now on.                     *)
SaveConfig ==
    /\ Ready
    /\ Begin("save", ReadForm(form))
    /\ saved' = NotSaved

CopyDll == Ready /\ Begin("copy", NotSaved) /\ UNCHANGED saved

CliInstall == Begin("install", NotSaved) /\ UNCHANGED saved

CliUninstall == Begin("uninstall", NotSaved) /\ UNCHANGED saved

-----------------------------------------------------------------------------
(* Their steps.                                                              *)

Over == job.game > AllGames

Dir == Targets[job.game]

Step == StepsOf(job.op)[job.next]

(* The next step is of this kind.                                            *)
Doing(kind) == ~Over /\ Step[1] = kind

NextGame == [job EXCEPT !.game = @ + 1, !.next = 1]

GoOn ==
    job' = IF job.next < Len(StepsOf(job.op)) THEN [job EXCEPT !.next = @ + 1]
           ELSE NextGame

GiveUp == job' = [job EXCEPT !.game = AllGames + 1, !.failed = TRUE]

PutFile(d, p, file) == files' = [files EXCEPT ![d][p] = file]

WriteJson ==
    /\ Doing("json")
    /\ LET file == files[Dir][Step[2]]
       IN PutFile(Dir, Step[2], IF job.op = "save" THEN Saved(file, job.variables)
                                ELSE Configured(file))
    /\ GoOn
    /\ UNCHANGED <<settings, dlls, manager, saved, original, harmed, steps>>

(* The file cannot be opened, or is truncated and then not written.  A save  *)
(* gives up; the other operations log it and go on.                          *)
WriteJsonFails ==
    /\ Doing("json") /\ Spend
    /\ \/ UNCHANGED <<files, harmed, saved>>
       \/ /\ PutFile(Dir, Step[2], Torn)
          /\ harmed' = harmed \cup {<<Dir, Step[2]>>}
          /\ saved' = NotSaved
    /\ IF job.op = "save" THEN GiveUp ELSE GoOn
    /\ UNCHANGED <<settings, dlls, manager, original>>

(* Only settings that are there and can be parsed are written.               *)
WriteSettings ==
    /\ Doing("settings")
    /\ settings' = [settings EXCEPT ![Dir][Step[2]] = IF @ = "off" THEN "on" ELSE @]
    /\ GoOn
    /\ UNCHANGED <<files, dlls, manager, saved, original, harmed, steps>>

(* No operation minds.                                                       *)
WriteSettingsFails ==
    /\ Doing("settings") /\ Spend
    /\ settings[Dir][Step[2]] # "absent"
    /\ settings' \in {settings, [settings EXCEPT ![Dir][Step[2]] = "torn"]}
    /\ GoOn
    /\ UNCHANGED <<files, dlls, manager, saved, original, harmed>>

Copy ==
    /\ Doing("dll")
    /\ dlls' = dlls \cup {<<Dir, Step[2]>>}
    /\ GoOn
    /\ UNCHANGED <<files, settings, manager, saved, original, harmed, steps>>

(* The manager's copy gives up, the command line goes on to the next game.   *)
CopyFails ==
    /\ Doing("dll") /\ Spend
    /\ IF job.op = "copy" THEN GiveUp
       ELSE job' = NextGame
    /\ UNCHANGED <<disk, manager, saved, original, harmed>>

Unlink ==
    /\ Doing("unlink")
    /\ dlls' = dlls \ {<<Dir, Step[2]>>}
    /\ GoOn
    /\ UNCHANGED <<files, settings, manager, saved, original, harmed, steps>>

UnlinkFails ==
    /\ Doing("unlink") /\ Spend
    /\ <<Dir, Step[2]>> \in dlls
    /\ GoOn
    /\ UNCHANGED <<disk, manager, saved, original, harmed>>

\* Variant: the form is filled again from the overview of before.
FinishStale ==
    /\ ~Free /\ Over
    /\ job' = Idle
    /\ IF job.op \in {"save", "copy"}
       THEN /\ overview' = Overview
            /\ form' = LoadForm(overview.active)
            /\ touched' = FALSE
       ELSE UNCHANGED manager
    /\ saved' = IF job.op = "save" /\ ~job.failed THEN job.variables ELSE saved
    /\ UNCHANGED <<disk, original, harmed, steps>>

(* The manager looks at the disk again and fills its form; the command line  *)
(* does not tell it.                                                         *)
Finish ==
    /\ ~Free /\ Over
    /\ job' = Idle
    /\ IF job.op \in {"save", "copy"}
       THEN /\ overview' = Overview
            /\ form' = LoadForm(overview'.active)
            /\ touched' = FALSE
       ELSE UNCHANGED manager
    /\ saved' = IF job.op = "save" /\ ~job.failed THEN job.variables ELSE saved
    /\ UNCHANGED <<disk, original, harmed, steps>>

-----------------------------------------------------------------------------

(* The section the notices print.                                            *)
Snippet ==
    [key \in {Switch, Rate} |-> IF key = Switch THEN "1" ELSE <<"off">>]

(* A user adds it under the key without .dll.                                *)
HandEdit(d, p) ==
    /\ Free /\ Spend
    /\ files[d][p].state = "object"
    /\ Base \notin DOMAIN files[d][p].sections
    /\ PutFile(d, p, Object(Assigned(files[d][p].sections, Base, Snippet)))
    /\ saved' = NotSaved
    /\ UNCHANGED <<settings, dlls, job, manager, original, harmed>>

Next ==
    \/ Reload \/ Home \/ ResetDefaults
    \/ \E e \in {"0", "1"} : EditSwitch(e)
    \/ \E m \in Modes : EditMode(m)
    \/ \E text \in {"60", ""} : EditHz(text)
    \/ SaveConfig \/ CopyDll \/ CliInstall \/ CliUninstall
    \/ WriteJson \/ WriteJsonFails \/ WriteSettings \/ WriteSettingsFails
    \/ Copy \/ CopyFails \/ Unlink \/ UnlinkFails
    \/ Finish
    \/ \E d \in Dirs, p \in Places : HandEdit(d, p)

Init ==
    /\ files \in [Dirs -> FirstFiles]
    /\ settings = [d \in Dirs |-> [p \in Places |->
                       IF p = "player" THEN "off" ELSE "absent"]]
    /\ dlls = {}
    /\ job = Idle
    /\ overview = Overview
    /\ form = LoadForm(overview.active)
    /\ touched = FALSE
    /\ saved = NotSaved
    /\ original = files
    /\ harmed = {at \in Dirs \X Places : files[at[1]][at[2]] = Torn}
    /\ steps = MaxSteps

Spec == Init /\ [][Next]_vars

-----------------------------------------------------------------------------

Forms == [enabled : {"0", "1"}, rate : [mode : Modes, hz : HzTexts]]

(* What a form is read as.                                                   *)
FormVariables == {ReadForm(f) : f \in Forms}

TypeOK ==
    /\ \A d \in Dirs, p \in Places :
        /\ IsFile(files[d][p])
        /\ settings[d][p] \in {"absent", "off", "on", "torn"}
    /\ dlls \subseteq Dirs \X Spots
    /\ job \in [op : {"save", "copy", "install", "uninstall"},
                game : 1 .. AllGames + 1, next : 1 .. 6,
                variables : FormVariables \cup {NotSaved}, failed : BOOLEAN]
           \cup {Idle}
    /\ form \in Forms
    /\ touched \in BOOLEAN
    /\ overview.games \in [Dirs -> [installed : BOOLEAN, json : BOOLEAN,
                                    external : BOOLEAN]]
    /\ DOMAIN overview.active = Keys /\ overview.active[Rate] \in RateTexts
    /\ saved \in FormVariables \cup {NotSaved}
    /\ harmed \subseteq Dirs \X Places
    /\ steps \in 0 .. MaxSteps

(* Does the plugin meet this key first in its own section?  Not if another   *)
(* plugin has it further up or the section lies beyond the buffer.           *)
MetFirst(file, key) ==
    Having(file, key) # {} /\ FirstHaving(file, key) = Dll

(* The mode was set to limited and the box left as loading fills it, with a  *)
(* word.                                                                     *)
Numberless(text) == text = <<"unlimited", "Hz">>

(* What any other rate of the form means.                                    *)
Meant(text) ==
    CASE text = <<"unlimited">> -> 0 - 1
      [] text = <<"off">>       -> 0
      [] text[1] = "60"         -> 60
      [] text[1] = "100"        -> 100

(* After a save that reported success, and whatever is installed, removed or *)
(* only fails cleanly after it, the plugin of every game loads what the form *)
(* said -- the earlier keys, the second file and the variables of before     *)
(* notwithstanding.                                                          *)
SavedIsLoaded ==
    saved # NotSaved =>
        \A d \in Dirs :
            LET loaded == LoadConfigFile(files[d])
            IN /\ MetFirst(ActiveFile(d), Switch) =>
                      loaded.enabled = (saved[Switch] = "1")
               /\ MetFirst(ActiveFile(d), Rate) /\ ~Numberless(saved[Rate]) =>
                      loaded.rate = Meant(saved[Rate])

(* A save that reported success is what the form and the table show until the *)
(* user edits the form, whatever game is read and whatever the command line   *)
(* does in between: saving again would change nothing.                        *)
SavedIsShown ==
    Free /\ ~touched /\ saved # NotSaved =>
        /\ ReadForm(form) = saved
        /\ ConfigRows(overview).variables = saved

(* Across any sequence of operations and failures, a file that was never     *)
(* torn keeps the sections of other plugins, in order, and the variables the *)
(* form does not have, under whatever key they were.                         *)
OthersKept ==
    \A d \in Dirs, p \in Places :
        LET before == original[d][p].sections
            now == files[d][p].sections
            Others(sections) ==
                [n \in DOMAIN sections \cap {Other, Long} |-> sections[n]]
        IN <<d, p>> \notin harmed =>
               /\ Others(now) = Others(before)
               /\ Merged(now)[Host] = Merged(before)[Host]

=============================================================================
