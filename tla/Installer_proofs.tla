-------------------------- MODULE Installer_proofs --------------------------
(***************************************************************************)
(* Proofs about Installer, for any number of games and any first files of  *)
(* the kind it assumes: the types; that what a save reported as saved is   *)
(* what the plugins load and what the form shows; and that the installer   *)
(* leaves the sections of other plugins, and a host, alone.                *)
(*                                                                         *)
(* The invariant says that once a save is over every file carries its      *)
(* variables, in one section, and while it is under way those it has       *)
(* written do.  First come lemmas about the files, one for each function   *)
(* of ConfigFiles, then the invariant, one lemma for each part of it.      *)
(***************************************************************************)
EXTENDS Installer, WellFoundedInduction, TLAPS

-----------------------------------------------------------------------------
(* Dictionaries and files.                                                   *)

LEMMA KeysDiffer == Switch # Rate /\ Switch # Host /\ Rate # Host
    BY DEF Switch, Rate, Host

LEMMA NamesDiffer ==
    /\ Dll \notin {Base, Alt, Other, Long}
    /\ Base \notin {Alt, Other, Long}
    /\ Alt \notin {Other, Long}
    BY DEF Dll, Base, Alt, Other, Long

(* The smallest of a set of numbers.                                         *)
LEMMA SmallestOf ==
    ASSUME NEW I, I \subseteq Nat, I # {}
    PROVE  Min(I) \in I /\ \A j \in I : Min(I) <= j
    <1>1. IsWellFoundedOn(OpToRel(<, Nat), Nat)
        BY NatLessThanWellFounded
    <1>2. PICK i \in I : \A j \in I : ~(<<j, i>> \in OpToRel(<, Nat))
        BY <1>1, WFMin, Zenon
    <1>3. \A j \in I : i <= j
        <2> TAKE j \in I
        <2>1. ~(j < i)
            BY <1>2 DEF OpToRel
        <2> QED BY <2>1
    <1> QED BY <1>3 DEF Min

(* The last place is behind all others.                                      *)
LEMMA EndIsBehind ==
    ASSUME NEW sections, AreSections(sections)
    PROVE  /\ End(sections) \in Nat \ {0}
           /\ \A n \in DOMAIN sections : sections[n].place < End(sections)
    <1> DEFINE S == {0} \cup {sections[n].place : n \in DOMAIN sections}
               at(n) == IF n \in DOMAIN sections THEN sections[n].place ELSE 0
               sum == at(Dll) + at(Base) + at(Alt) + at(Other) + at(Long)
               U == {u \in Nat : \A x \in S : x <= u}
    <1>1. S \subseteq Nat /\ 0 \in S
        BY DEF AreSections
    <1>2. \A n \in Names : at(n) \in Nat
        BY DEF AreSections
    <1>3. sum \in U
        <2>1. /\ at(Dll) \in Nat /\ at(Base) \in Nat /\ at(Alt) \in Nat
              /\ at(Other) \in Nat /\ at(Long) \in Nat
            BY <1>2 DEF Names
        <2>2. ASSUME NEW n \in Names PROVE at(n) <= sum
            <3>1. n = Dll \/ n = Base \/ n = Alt \/ n = Other \/ n = Long
                BY DEF Names
            <3> HIDE DEF at
            <3> QED BY <2>1, <3>1
        <2>3. \A n \in DOMAIN sections : sections[n].place <= sum
            <3> TAKE n \in DOMAIN sections
            <3>1. n \in Names /\ at(n) = sections[n].place
                BY DEF AreSections
            <3> HIDE DEF at, sum
            <3> QED BY <2>2, <3>1
        <2>4. sum \in Nat
            <3> HIDE DEF at
            <3> QED BY <2>1
        <2> HIDE DEF sum
        <2> QED BY <2>3, <2>4
    <1>4. Min(U) \in U /\ \A u \in U : Min(U) <= u
        <2> HIDE DEF sum, S
        <2> QED BY <1>3, SmallestOf
    <1>5. Min(U) \in S
        <2> DEFINE m == Min(U)
        <2>1. m \in Nat /\ \A x \in S : x <= m
            BY <1>4
        <2> HIDE DEF m, S
        <2> SUFFICES ASSUME m \notin S PROVE FALSE
            BY DEF m
        <2>2. m - 1 \in Nat /\ \A x \in S : x <= m - 1
            BY <1>1, <2>1
        <2>3. m - 1 \in U
            BY <2>2
        <2> QED BY <1>4, <2>1, <2>3 DEF m
    <1>6. Max(S) \in S /\ \A x \in S : Max(S) >= x
        <2>1. \A x \in S : Min(U) >= x
            <3> HIDE DEF S
            <3> QED BY <1>1, <1>4
        <2> HIDE DEF S, U
        <2> QED BY <1>5, <2>1 DEF Max
    <1>7. End(sections) = 1 + Max(S)
        BY DEF End
    <1>8. \A n \in DOMAIN sections : sections[n].place \in S
        OBVIOUS
    <1> DEFINE max == Max(S)
    <1>9. /\ max \in Nat /\ End(sections) = 1 + max
          /\ \A n \in DOMAIN sections :
                sections[n].place \in Nat /\ max >= sections[n].place
        <2> HIDE DEF S
        <2> QED BY <1>1, <1>6, <1>7, <1>8
    <1> HIDE DEF max
    <1> QED BY <1>9

(* Assigning a section leaves the others and finds a place of its own.       *)
LEMMA AssignedSections ==
    ASSUME NEW sections, AreSections(sections), NEW name \in Names,
           NEW some, IsVariables(some)
    PROVE  AreSections(Assigned(sections, name, some))
    <1> DEFINE place == IF name \in DOMAIN sections THEN sections[name].place
                        ELSE End(sections)
               new == Assigned(sections, name, some)
    <1>1. new = [n \in DOMAIN sections \cup {name} |->
                    IF n = name THEN [place |-> place, vars |-> some]
                    ELSE sections[n]]
        BY DEF Assigned
    <1>2. /\ place \in Nat \ {0}
          /\ \A n \in DOMAIN sections \ {name} : sections[n].place # place
        <2>1. CASE name \in DOMAIN sections
            BY <2>1 DEF AreSections
        <2>2. CASE name \notin DOMAIN sections
            <3>1. /\ place \in Nat \ {0}
                  /\ \A n \in DOMAIN sections :
                        sections[n].place \in Nat /\ sections[n].place < place
                BY <2>2, EndIsBehind DEF AreSections
            <3> QED BY <3>1
        <2> QED BY <2>1, <2>2
    <1> HIDE DEF place
    <1>3. /\ DOMAIN new = DOMAIN sections \cup {name}
          /\ new[name] = [place |-> place, vars |-> some]
          /\ \A n \in DOMAIN sections \ {name} : new[n] = sections[n]
        BY <1>1
    <1> HIDE DEF new
    <1>4. AreSections(new)
        <2>1. DOMAIN new \subseteq Names
            BY <1>3 DEF AreSections
        <2>2. \A n \in DOMAIN new :
                /\ new[n] = [place |-> new[n].place, vars |-> new[n].vars]
                /\ new[n].place \in Nat \ {0}
                /\ IsVariables(new[n].vars)
            BY <1>2, <1>3 DEF AreSections
        <2>3. \A n, o \in DOMAIN new : new[n].place = new[o].place => n = o
            BY <1>2, <1>3 DEF AreSections
        <2> QED BY <2>1, <2>2, <2>3 DEF AreSections
    <1> QED BY <1>4 DEF new

LEMMA UpdatedVariables ==
    ASSUME NEW some, NEW more, IsVariables(some), IsVariables(more)
    PROVE  /\ IsVariables(Updated(some, more))
           /\ DOMAIN Updated(some, more) = DOMAIN some \cup DOMAIN more
           /\ \A key \in DOMAIN more : Updated(some, more)[key] = more[key]
           /\ \A key \in DOMAIN some \ DOMAIN more :
                Updated(some, more)[key] = some[key]
    BY DEF Updated, IsVariables

LEMMA SectionVariables ==
    ASSUME NEW sections, AreSections(sections), NEW name
    PROVE  IsVariables(VarsOf(sections, name))
    <1>1. IsVariables(Nothing)
        BY DEF IsVariables, Nothing
    <1> QED BY <1>1 DEF VarsOf, AreSections

LEMMA DefaultVariables ==
    /\ IsVariables(Defaults) /\ DOMAIN Defaults = Keys
    /\ Defaults[Switch] = "1" /\ Defaults[Rate] = <<"unlimited">>
    BY KeysDiffer DEF Defaults, IsVariables, Keys, RateTexts

LEMMA UpdatedAll ==
    ASSUME NEW some, NEW more, IsVariables(some), IsVariables(more),
           DOMAIN some = Keys
    PROVE  /\ IsVariables(Updated(some, more))
           /\ DOMAIN Updated(some, more) = Keys
           /\ \A key \in Keys :
                Updated(some, more)[key] =
                    IF key \in DOMAIN more THEN more[key] ELSE some[key]
    BY DEF Updated, IsVariables

(* What the earlier keys, the exact one and the defaults make together.      *)
LEMMA MergedVariables ==
    ASSUME NEW sections, AreSections(sections)
    PROVE  /\ IsVariables(Merged(sections))
           /\ DOMAIN Merged(sections) = Keys
           /\ \A key \in Keys :
                Merged(sections)[key] =
                    IF key \in DOMAIN VarsOf(sections, Alt)
                    THEN VarsOf(sections, Alt)[key]
                    ELSE IF key \in DOMAIN VarsOf(sections, Base)
                    THEN VarsOf(sections, Base)[key]
                    ELSE IF key \in DOMAIN VarsOf(sections, Dll)
                    THEN VarsOf(sections, Dll)[key]
                    ELSE Defaults[key]
    <1> DEFINE d == VarsOf(sections, Dll)
               b == VarsOf(sections, Base)
               a == VarsOf(sections, Alt)
               first == Updated(Defaults, d)
               second == Updated(first, b)
    <1>1. IsVariables(d) /\ IsVariables(b) /\ IsVariables(a)
        BY SectionVariables
    <1>3. Merged(sections) = Updated(second, a)
        BY DEF Merged
    <1> HIDE DEF d, b, a
    <1>4. /\ IsVariables(first) /\ DOMAIN first = Keys
          /\ \A key \in Keys : first[key] = IF key \in DOMAIN d THEN d[key]
                                            ELSE Defaults[key]
        BY <1>1, UpdatedAll, DefaultVariables, Zenon
    <1> HIDE DEF first
    <1>5. /\ IsVariables(second) /\ DOMAIN second = Keys
          /\ \A key \in Keys : second[key] = IF key \in DOMAIN b THEN b[key]
                                             ELSE first[key]
        BY <1>1, <1>4, UpdatedAll, Zenon
    <1> HIDE DEF second
    <1>6. /\ IsVariables(Updated(second, a)) /\ DOMAIN Updated(second, a) = Keys
          /\ \A key \in Keys : Updated(second, a)[key] =
                                    IF key \in DOMAIN a THEN a[key]
                                    ELSE second[key]
        BY <1>1, <1>5, UpdatedAll, Zenon
    <1> QED BY <1>3, <1>4, <1>5, <1>6 DEF d, b, a

LEMMA NumberedVariables ==
    ASSUME NEW some, IsVariables(some), DOMAIN some = Keys,
           some = [key \in Keys |-> some[key]]
    PROVE  /\ IsVariables(WithNumber(some)) /\ DOMAIN WithNumber(some) = Keys
           /\ some[Switch] \in {"0", "1"} => WithNumber(some)[Switch] = some[Switch]
           /\ \A key \in {Rate, Host} : WithNumber(some)[key] = some[key]
    BY KeysDiffer DEF WithNumber, IsVariables, Keys

LEMMA UpdatedIsFunction ==
    ASSUME NEW some, NEW more
    PROVE  Updated(some, more)
                = [key \in DOMAIN Updated(some, more) |-> Updated(some, more)[key]]
    BY DEF Updated

(* Storing drops the earlier keys and leaves other plugins' sections.        *)
LEMMA StoredSections ==
    ASSUME NEW sections, AreSections(sections), NEW some, IsVariables(some)
    PROVE  /\ IsFile(Stored(sections, some))
           /\ Stored(sections, some) # Missing
           /\ Stored(sections, some).state = "object"
           /\ DOMAIN Stored(sections, some).sections
                = (DOMAIN sections \ {Base, Alt}) \cup {Dll}
           /\ Stored(sections, some).sections[Dll].vars = some
           /\ \A n \in DOMAIN sections \ {Base, Alt, Dll} :
                Stored(sections, some).sections[n] = sections[n]
    <1> DEFINE kept == [n \in DOMAIN sections \ {Base, Alt} |-> sections[n]]
               now == Assigned(kept, Dll, some)
    <1>1. Stored(sections, some) = Object(now)
        BY DEF Stored
    <1>2. AreSections(kept)
        BY DEF AreSections
    <1>3. DOMAIN kept = DOMAIN sections \ {Base, Alt}
        OBVIOUS
    <1>4. \A n \in DOMAIN kept : kept[n] = sections[n]
        OBVIOUS
    <1> HIDE DEF kept
    <1>5. /\ AreSections(now) /\ DOMAIN now = DOMAIN kept \cup {Dll}
          /\ now[Dll].vars = some
          /\ \A n \in DOMAIN kept \ {Dll} : now[n] = kept[n]
        <2>1. Dll \in Names
            BY DEF Names
        <2>2. AreSections(now)
            BY <1>2, <2>1, AssignedSections
        <2>3. DOMAIN now = DOMAIN kept \cup {Dll}
            BY DEF Assigned
        <2>4. now[Dll].vars = some
            BY DEF Assigned
        <2>5. \A n \in DOMAIN kept \ {Dll} : now[n] = kept[n]
            BY DEF Assigned
        <2> QED BY <2>2, <2>3, <2>4, <2>5
    <1> HIDE DEF now
    <1>6. Object(now).sections = now /\ Object(now).state = "object"
        BY DEF Object
    <1>7. IsFile(Object(now))
        BY <1>5, <1>6 DEF IsFile
    <1>8. Object(now) # Missing
        <2>1. Missing.state = "missing"
            BY DEF Missing
        <2> QED BY <1>6, <2>1
    <1> QED BY <1>1, <1>3, <1>4, <1>5, <1>6, <1>7, <1>8

-----------------------------------------------------------------------------
(* What a save leaves in a file.                                             *)

(* The variables of a form are in the section of the exact key, and there is *)
(* no other section of the plugin.                                           *)
Carries(file, variables) ==
    /\ file.state = "object"
    /\ Dll \in DOMAIN file.sections
    /\ Base \notin DOMAIN file.sections /\ Alt \notin DOMAIN file.sections
    /\ DOMAIN file.sections[Dll].vars = Keys
    /\ file.sections[Dll].vars[Switch] = variables[Switch]
    /\ file.sections[Dll].vars[Rate] = variables[Rate]

LEMMA FormVariablesType ==
    ASSUME NEW variables \in FormVariables
    PROVE  /\ DOMAIN variables = {Switch, Rate}
           /\ variables[Switch] \in {"0", "1"}
           /\ variables[Rate] \in RateTexts
           /\ variables = [key \in {Switch, Rate} |-> variables[key]]
           /\ IsVariables(variables)
    <1>1. PICK f \in Forms : variables = ReadForm(f)
        BY DEF FormVariables
    <1>2. /\ f.enabled \in {"0", "1"} /\ f.rate.mode \in Modes
          /\ f.rate.hz \in HzTexts
        BY DEF Forms
    <1>3. FormatRate(f.rate.mode, f.rate.hz) \in RateTexts
        BY <1>2 DEF FormatRate, Modes, HzTexts, RateTexts
    <1>4. /\ DOMAIN variables = {Switch, Rate}
          /\ variables[Switch] = f.enabled
          /\ variables[Rate] = FormatRate(f.rate.mode, f.rate.hz)
          /\ variables = [key \in {Switch, Rate} |-> variables[key]]
        BY <1>1, KeysDiffer DEF ReadForm
    <1> QED BY <1>2, <1>3, <1>4 DEF IsVariables, Keys

(* What a save writes carries what is saved.                                 *)
LEMMA SavedFile ==
    ASSUME NEW file, IsFile(file), NEW variables \in FormVariables
    PROVE  IsFile(Saved(file, variables)) /\ Carries(Saved(file, variables), variables)
    <1> DEFINE sections == file.sections
               merged == Merged(sections)
               all == Updated(merged, variables)
               numbered == WithNumber(all)
    <1>1. AreSections(sections)
        BY DEF IsFile
    <1>2. IsVariables(merged) /\ DOMAIN merged = Keys
        BY <1>1, MergedVariables
    <1>3. /\ DOMAIN variables = {Switch, Rate}
          /\ variables[Switch] \in {"0", "1"} /\ IsVariables(variables)
        BY FormVariablesType
    <1>4. Saved(file, variables) = Stored(sections, numbered)
        BY DEF Saved, Parsed
    <1> HIDE DEF sections, merged
    <1>5. /\ IsVariables(all) /\ DOMAIN all = Keys
          /\ all[Switch] = variables[Switch] /\ all[Rate] = variables[Rate]
        BY <1>2, <1>3, UpdatedAll DEF Keys
    <1>6. all = [key \in Keys |-> all[key]]
        BY <1>5, UpdatedIsFunction
    <1> HIDE DEF all
    <1>7. /\ IsVariables(numbered) /\ DOMAIN numbered = Keys
          /\ numbered[Switch] = variables[Switch]
          /\ numbered[Rate] = variables[Rate]
        BY <1>3, <1>5, <1>6, NumberedVariables
    <1> HIDE DEF numbered
    <1>8. /\ IsFile(Stored(sections, numbered))
          /\ Stored(sections, numbered).state = "object"
          /\ DOMAIN Stored(sections, numbered).sections
                = (DOMAIN sections \ {Base, Alt}) \cup {Dll}
          /\ Stored(sections, numbered).sections[Dll].vars = numbered
        BY <1>1, <1>7, StoredSections
    <1> QED BY <1>4, <1>7, <1>8, NamesDiffer DEF Carries

LEMMA CarriedMerged ==
    ASSUME NEW file, IsFile(file), NEW variables, Carries(file, variables)
    PROVE  /\ Merged(file.sections)[Switch] = variables[Switch]
           /\ Merged(file.sections)[Rate] = variables[Rate]
    <1>1. AreSections(file.sections)
        BY DEF IsFile
    <1>2. /\ VarsOf(file.sections, Alt) = Nothing
          /\ VarsOf(file.sections, Base) = Nothing
          /\ VarsOf(file.sections, Dll) = file.sections[Dll].vars
          /\ DOMAIN Nothing = {}
        BY DEF Carries, VarsOf, Nothing
    <1>3. Switch \in Keys /\ Rate \in Keys
        BY DEF Keys
    <1>4. \A key \in Keys : Merged(file.sections)[key] = file.sections[Dll].vars[key]
        BY <1>1, <1>2, MergedVariables DEF Carries
    <1> QED BY <1>3, <1>4 DEF Carries

(* Configuring a game again leaves what was saved.                           *)
LEMMA ConfiguredFile ==
    ASSUME NEW file, IsFile(file)
    PROVE  /\ IsFile(Configured(file))
           /\ \A variables : Carries(file, variables) =>
                                Carries(Configured(file), variables)
    <1> DEFINE sections == file.sections
               merged == Merged(sections)
    <1>1. AreSections(sections)
        BY DEF IsFile
    <1>2. IsVariables(merged) /\ DOMAIN merged = Keys
        BY <1>1, MergedVariables
    <1>3. Configured(file) = Stored(sections, merged)
        BY DEF Configured, Parsed
    <1>4. /\ IsFile(Stored(sections, merged))
          /\ Stored(sections, merged).state = "object"
          /\ DOMAIN Stored(sections, merged).sections
                = (DOMAIN sections \ {Base, Alt}) \cup {Dll}
          /\ Stored(sections, merged).sections[Dll].vars = merged
        <2> HIDE DEF sections, merged
        <2> QED BY <1>1, <1>2, StoredSections
    <1>5. ASSUME NEW variables, Carries(file, variables)
          PROVE  Carries(Configured(file), variables)
        <2>1. /\ merged[Switch] = variables[Switch]
              /\ merged[Rate] = variables[Rate]
            BY <1>5, CarriedMerged
        <2> HIDE DEF merged, sections
        <2> QED BY <1>2, <1>3, <1>4, <2>1, NamesDiffer DEF Carries
    <1> QED BY <1>3, <1>4, <1>5

(* What is read of any file, and of one that carries a form.                 *)
LEMMA ReadFile ==
    ASSUME NEW file, IsFile(file)
    PROVE  /\ DOMAIN ReadVariables(file) = Keys
           /\ ReadVariables(file)[Rate] \in RateTexts
           /\ \A variables : Carries(file, variables) =>
                /\ ReadVariables(file)[Switch] = variables[Switch]
                /\ ReadVariables(file)[Rate] = variables[Rate]
    <1>1. AreSections(file.sections)
        BY DEF IsFile
    <1>2. PICK name : /\ ReadVariables(file)
                            = Updated(Defaults, VarsOf(file.sections, name))
                      /\ Dll \in DOMAIN file.sections => name = Dll
        BY DEF ReadVariables, Parsed
    <1> DEFINE more == VarsOf(file.sections, name)
    <1>3. IsVariables(more)
        BY <1>1, SectionVariables
    <1>4. Switch \in Keys /\ Rate \in Keys
        BY DEF Keys
    <1>5. /\ IsVariables(Updated(Defaults, more))
          /\ DOMAIN Updated(Defaults, more) = Keys
          /\ \A key \in Keys :
                Updated(Defaults, more)[key] =
                    IF key \in DOMAIN more THEN more[key] ELSE Defaults[key]
        <2> HIDE DEF more
        <2> QED BY <1>3, UpdatedAll, DefaultVariables, Zenon
    <1>6. ReadVariables(file)[Rate] \in RateTexts
        BY <1>2, <1>4, <1>5 DEF IsVariables
    <1>7. ASSUME NEW variables, Carries(file, variables)
          PROVE  /\ ReadVariables(file)[Switch] = variables[Switch]
                 /\ ReadVariables(file)[Rate] = variables[Rate]
        <2>1. more = file.sections[Dll].vars
            BY <1>2, <1>7 DEF Carries, VarsOf
        <2> HIDE DEF more
        <2> QED BY <1>2, <1>4, <1>5, <1>7, <2>1 DEF Carries, more
    <1> QED BY <1>2, <1>5, <1>6, <1>7

-----------------------------------------------------------------------------
(* What a form shows.                                                        *)

LEMMA RatesDiffer ==
    /\ <<"unlimited">> # <<"off">>
    /\ \A hz : <<hz, "Hz">> # <<"unlimited">> /\ <<hz, "Hz">> # <<"off">>
    /\ \A hz : <<hz, "Hz">>[1] = hz
    OBVIOUS

LEMMA ParsedRate ==
    ASSUME NEW text \in RateTexts
    PROVE  /\ ParseRate(text) \in [mode : Modes, hz : HzTexts]
           /\ FormatRate(ParseRate(text).mode, ParseRate(text).hz) = text
    <1>1. CASE text = <<"unlimited">>
        BY <1>1, RatesDiffer DEF ParseRate, FormatRate, Modes, HzTexts
    <1>2. CASE text = <<"off">>
        BY <1>2, RatesDiffer DEF ParseRate, FormatRate, Modes, HzTexts
    <1>3. ASSUME NEW hz \in HzTexts \ {""}, text = <<hz, "Hz">>
          PROVE  /\ ParseRate(text) \in [mode : Modes, hz : HzTexts]
                 /\ FormatRate(ParseRate(text).mode, ParseRate(text).hz) = text
        <2> DEFINE p == ParseRate(text)
        <2>1. p = [mode |-> "limited", hz |-> hz]
            BY <1>3, RatesDiffer DEF ParseRate
        <2>2. FormatRate("limited", hz) = <<hz, "Hz">>
            BY DEF FormatRate
        <2> HIDE DEF p
        <2>3. p \in [mode : Modes, hz : HzTexts]
            BY <2>1 DEF Modes
        <2>4. p.mode = "limited" /\ p.hz = hz
            BY <2>1
        <2>5. FormatRate(p.mode, p.hz) = text
            BY <1>3, <2>2, <2>4
        <2> QED BY <2>3, <2>5 DEF p
    <1> QED BY <1>1, <1>2, <1>3 DEF RateTexts

(* Filling the form with what a form was read as shows that.                 *)
LEMMA LoadedForm ==
    ASSUME NEW some, DOMAIN some = Keys, some[Rate] \in RateTexts
    PROVE  /\ LoadForm(some) \in Forms
           /\ \A variables \in FormVariables :
                /\ some[Switch] = variables[Switch]
                /\ some[Rate] = variables[Rate]
                => ReadForm(LoadForm(some)) = variables
    <1> DEFINE rate == ParseRate(some[Rate])
    <1>1. /\ rate \in [mode : Modes, hz : HzTexts]
          /\ FormatRate(rate.mode, rate.hz) = some[Rate]
        BY ParsedRate
    <1>2. /\ LoadForm(some).rate = rate
          /\ LoadForm(some).enabled =
                IF some[Switch] \in {"1", "true"} THEN "1" ELSE "0"
          /\ LoadForm(some) = [enabled |-> LoadForm(some).enabled,
                               rate |-> LoadForm(some).rate]
        BY DEF LoadForm
    <1> HIDE DEF rate
    <1>3. LoadForm(some) \in Forms
        BY <1>1, <1>2 DEF Forms
    <1>4. ASSUME NEW variables \in FormVariables,
                 some[Switch] = variables[Switch], some[Rate] = variables[Rate]
          PROVE  ReadForm(LoadForm(some)) = variables
        <2>1. /\ variables[Switch] \in {"0", "1"}
              /\ variables = [key \in {Switch, Rate} |-> variables[key]]
            BY FormVariablesType
        <2>2. LoadForm(some).enabled = variables[Switch]
            BY <1>2, <1>4, <2>1
        <2>3. FormatRate(LoadForm(some).rate.mode, LoadForm(some).rate.hz)
                    = variables[Rate]
            BY <1>1, <1>2, <1>4
        <2>4. ReadForm(LoadForm(some)) =
                [key \in {Switch, Rate} |->
                    IF key = Switch THEN variables[Switch] ELSE variables[Rate]]
            BY <2>2, <2>3 DEF ReadForm
        <2> QED BY <2>1, <2>4
    <1> QED BY <1>3, <1>4

LEMMA FormIsRead ==
    ASSUME NEW f \in Forms
    PROVE  ReadForm(f) \in FormVariables
    BY DEF FormVariables

LEMMA FormIsNotNothing == NotSaved \notin FormVariables
    <1>1. DOMAIN NotSaved = {}
        BY DEF NotSaved, Nothing
    <1> QED BY <1>1, FormVariablesType

-----------------------------------------------------------------------------
(* What nobody may touch.                                                    *)

OthersOf(sections) == [n \in DOMAIN sections \cap {Other, Long} |-> sections[n]]

(* The other plugins' sections, and a host, of two files are the same.       *)
SameOthers(now, before) ==
    /\ OthersOf(now.sections) = OthersOf(before.sections)
    /\ Merged(now.sections)[Host] = Merged(before.sections)[Host]

LEMMA StoredOthers ==
    ASSUME NEW file, IsFile(file), NEW some, IsVariables(some),
           DOMAIN some = Keys, some[Host] = Merged(file.sections)[Host]
    PROVE  SameOthers(Stored(file.sections, some), file)
    <1> DEFINE sections == file.sections
               now == Stored(sections, some).sections
    <1>1. AreSections(sections)
        BY DEF IsFile
    <1> HIDE DEF sections
    <1>2. /\ IsFile(Stored(sections, some))
          /\ DOMAIN now = (DOMAIN sections \ {Base, Alt}) \cup {Dll}
          /\ now[Dll].vars = some
          /\ \A n \in DOMAIN sections \ {Base, Alt, Dll} : now[n] = sections[n]
        BY <1>1, StoredSections
    <1>3. AreSections(now)
        BY <1>2 DEF IsFile
    <1> HIDE DEF now
    <1>4. DOMAIN now \cap {Other, Long} = DOMAIN sections \cap {Other, Long}
        BY <1>2, NamesDiffer
    <1>5. \A n \in DOMAIN sections \cap {Other, Long} : now[n] = sections[n]
        BY <1>2, NamesDiffer
    <1>6. OthersOf(now) = OthersOf(sections)
        BY <1>4, <1>5 DEF OthersOf
    <1>7. /\ VarsOf(now, Alt) = Nothing /\ VarsOf(now, Base) = Nothing
          /\ VarsOf(now, Dll) = some
          /\ DOMAIN Nothing = {}
        BY <1>2, NamesDiffer DEF VarsOf, Nothing
    <1>8. Host \in Keys
        BY DEF Keys
    <1>9. Merged(now)[Host] = some[Host]
        BY <1>3, <1>7, <1>8, MergedVariables
    <1> QED BY <1>6, <1>9 DEF SameOthers, sections, now

LEMMA SavedOthers ==
    ASSUME NEW file, IsFile(file), NEW variables \in FormVariables
    PROVE  SameOthers(Saved(file, variables), file)
    <1> DEFINE sections == file.sections
               merged == Merged(sections)
               all == Updated(merged, variables)
               numbered == WithNumber(all)
    <1>1. AreSections(sections)
        BY DEF IsFile
    <1>2. IsVariables(merged) /\ DOMAIN merged = Keys
        BY <1>1, MergedVariables
    <1>3. DOMAIN variables = {Switch, Rate} /\ IsVariables(variables)
        BY FormVariablesType
    <1>4. Saved(file, variables) = Stored(sections, numbered)
        BY DEF Saved, Parsed
    <1> HIDE DEF merged
    <1>5. /\ IsVariables(all) /\ DOMAIN all = Keys
          /\ all[Host] = merged[Host]
        BY <1>2, <1>3, UpdatedAll, KeysDiffer DEF Keys
    <1>6. all = [key \in Keys |-> all[key]]
        BY <1>5, UpdatedIsFunction
    <1> HIDE DEF all
    <1>7. /\ IsVariables(numbered) /\ DOMAIN numbered = Keys
          /\ numbered[Host] = merged[Host]
        BY <1>5, <1>6, NumberedVariables
    <1> HIDE DEF numbered
    <1> QED BY <1>4, <1>7, StoredOthers DEF merged

LEMMA ConfiguredOthers ==
    ASSUME NEW file, IsFile(file)
    PROVE  SameOthers(Configured(file), file)
    <1>1. AreSections(file.sections)
        BY DEF IsFile
    <1>2. /\ IsVariables(Merged(file.sections))
          /\ DOMAIN Merged(file.sections) = Keys
        BY <1>1, MergedVariables
    <1> QED BY <1>2, StoredOthers DEF Configured, Parsed

(* A section a user adds has no host.                                        *)
LEMMA EditedFile ==
    ASSUME NEW file, IsFile(file), Base \notin DOMAIN file.sections
    PROVE  /\ IsFile(Object(Assigned(file.sections, Base, Snippet)))
           /\ SameOthers(Object(Assigned(file.sections, Base, Snippet)), file)
    <1> DEFINE sections == file.sections
               now == Assigned(sections, Base, Snippet)
    <1>1. AreSections(sections)
        BY DEF IsFile
    <1>2. IsVariables(Snippet) /\ DOMAIN Snippet = {Switch, Rate}
        BY KeysDiffer DEF Snippet, IsVariables, Keys, RateTexts
    <1> HIDE DEF sections
    <1>3. AreSections(now)
        <2>1. Base \in Names
            BY DEF Names
        <2> QED BY <1>1, <1>2, <2>1, AssignedSections
    <1>4. /\ DOMAIN now = DOMAIN sections \cup {Base}
          /\ now[Base].vars = Snippet
          /\ \A n \in DOMAIN sections \ {Base} : now[n] = sections[n]
        BY DEF Assigned
    <1> HIDE DEF now
    <1>5. IsFile(Object(now)) /\ Object(now).sections = now
        BY <1>3 DEF IsFile, Object
    <1>6. OthersOf(now) = OthersOf(sections)
        <2>1. DOMAIN now \cap {Other, Long} = DOMAIN sections \cap {Other, Long}
            BY <1>4, NamesDiffer
        <2>2. \A n \in DOMAIN sections \cap {Other, Long} : now[n] = sections[n]
            BY <1>4, NamesDiffer
        <2> QED BY <2>1, <2>2 DEF OthersOf
    <1>7. Merged(now)[Host] = Merged(sections)[Host]
        <2>1. /\ VarsOf(now, Alt) = VarsOf(sections, Alt)
              /\ VarsOf(now, Dll) = VarsOf(sections, Dll)
            BY <1>4, NamesDiffer DEF VarsOf
        <2>2. /\ Host \notin DOMAIN VarsOf(now, Base)
              /\ Host \notin DOMAIN VarsOf(sections, Base)
            BY <1>2, <1>4, KeysDiffer DEF VarsOf, Nothing, sections
        <2>3. Host \in Keys
            BY DEF Keys
        <2> QED BY <1>1, <1>3, <2>1, <2>2, <2>3, MergedVariables
    <1> QED BY <1>5, <1>6, <1>7 DEF SameOthers, sections, now

-----------------------------------------------------------------------------
(* The steps of the operations.                                              *)

LEMMA Games == AllGames \in Nat \ {0} /\ \A i \in 1 .. AllGames : Targets[i] \in Dirs
    BY InstallerAssumption DEF AllGames

LEMMA DirsAreGames == \A d \in Dirs : \E i \in 1 .. AllGames : d = Targets[i]
    BY InstallerAssumption DEF Dirs, AllGames

Operations == {"save", "copy", "install", "uninstall"}

IsStep(step) ==
    \/ step[1] \in {"json", "settings"} /\ step[2] \in Places
    \/ step[1] \in {"dll", "unlink"} /\ step[2] \in Spots

(* What an operation does to a game, by its place.                           *)
LEMMA StepList ==
    /\ StepsOf("save") = JsonSteps /\ Len(JsonSteps) = 4
    /\ JsonSteps[1] = <<"json", "player">> /\ JsonSteps[2] = <<"json", "root">>
    /\ JsonSteps[3] = <<"settings", "player">>
    /\ JsonSteps[4] = <<"settings", "root">>
    BY DEF StepsOf, JsonSteps

LEMMA StepTypes ==
    ASSUME NEW op \in Operations
    PROVE  /\ Len(StepsOf(op)) \in 1 .. 6
           /\ \A k \in 1 .. Len(StepsOf(op)) : IsStep(StepsOf(op)[k])
    <1>1. \A k \in 1 .. 4 : IsStep(JsonSteps[k])
        BY StepList DEF IsStep, Places
    <1>2. CASE op = "save"
        BY <1>1, <1>2, StepList
    <1>3. CASE op = "copy"
        <2>1. StepsOf(op) = CopySteps /\ Len(CopySteps) = 6
            BY <1>3 DEF StepsOf, CopySteps, JsonSteps
        <2>2. /\ CopySteps[1] = <<"dll", "plugins">>
              /\ CopySteps[2] = <<"dll", "root">>
              /\ \A k \in 3 .. 6 : CopySteps[k] = JsonSteps[k - 2]
            BY StepList DEF CopySteps, JsonSteps
        <2> QED BY <1>1, <2>1, <2>2 DEF IsStep, Spots
    <1>4. CASE op = "install"
        <2>1. StepsOf(op) = InstallSteps /\ Len(InstallSteps) = 5
            BY <1>4 DEF StepsOf, InstallSteps, JsonSteps
        <2>2. /\ InstallSteps[1] = <<"dll", "plugins">>
              /\ \A k \in 2 .. 5 : InstallSteps[k] = JsonSteps[k - 1]
            BY StepList DEF InstallSteps, JsonSteps
        <2> QED BY <1>1, <2>1, <2>2 DEF IsStep, Spots
    <1>5. CASE op = "uninstall"
        <2>1. /\ StepsOf(op) = UninstallSteps /\ Len(UninstallSteps) = 2
              /\ UninstallSteps[1] = <<"unlink", "plugins">>
              /\ UninstallSteps[2] = <<"unlink", "root">>
            BY <1>5 DEF StepsOf, UninstallSteps
        <2> QED BY <2>1 DEF IsStep, Spots
    <1> QED BY <1>2, <1>3, <1>4, <1>5 DEF Operations

-----------------------------------------------------------------------------
(* The inductive invariant.                                                  *)

DiskInv ==
    /\ DOMAIN files = Dirs
    /\ \A d \in Dirs : DOMAIN files[d] = Places
    /\ \A d \in Dirs, p \in Places : IsFile(files[d][p])
    /\ settings \in [Dirs -> [Places -> {"absent", "off", "on", "torn"}]]
    /\ dlls \subseteq Dirs \X Spots
    /\ harmed \subseteq Dirs \X Places
    /\ steps \in 0 .. MaxSteps

OthersInv ==
    \A d \in Dirs, p \in Places :
        <<d, p>> \notin harmed => SameOthers(files[d][p], original[d][p])

Jobs == [op : Operations, game : 1 .. AllGames + 1, next : 1 .. 6,
         variables : FormVariables \cup {NotSaved}, failed : BOOLEAN]

JobInv ==
    /\ job \in Jobs \cup {Idle}
    /\ ~Over => job.next <= Len(StepsOf(job.op))
    /\ job.op = "save" => job.variables \in FormVariables

FormInv ==
    /\ form \in Forms /\ touched \in BOOLEAN
    /\ overview.games \in [Dirs -> [installed : BOOLEAN, json : BOOLEAN,
                                    external : BOOLEAN]]
    /\ overview = [games |-> overview.games, active |-> overview.active]
    /\ DOMAIN overview.active = Keys /\ overview.active[Rate] \in RateTexts

(* The save under way has written this file.                                 *)
Written(i, p) ==
    \/ i < job.game
    \/ i = job.game /\ (IF p = "player" THEN 1 ELSE 2) < job.next

SavedInv ==
    /\ saved \in FormVariables \cup {NotSaved}
    /\ job.op = "save" => saved = NotSaved
    /\ saved # NotSaved =>
           \A d \in Dirs, p \in Places : Carries(files[d][p], saved)
    /\ job.op = "save" /\ ~job.failed =>
           \A i \in 1 .. AllGames, p \in Places :
               Written(i, p) => Carries(files[Targets[i]][p], job.variables)

ShownInv ==
    saved # NotSaved /\ ~touched =>
        /\ ReadForm(form) = saved
        /\ \A key \in {Switch, Rate} : overview.active[key] = saved[key]

IInv == DiskInv /\ OthersInv /\ JobInv /\ FormInv /\ SavedInv /\ ShownInv

-----------------------------------------------------------------------------
(* An operation under way.                                                   *)

LEMMA UnderWay ==
    ASSUME JobInv, ~Over
    PROVE  /\ job \in Jobs /\ job.op \in Operations
           /\ job.game \in 1 .. AllGames /\ job.next \in 1 .. Len(StepsOf(job.op))
           /\ Dir \in Dirs /\ Dir = Targets[job.game] /\ IsStep(Step)
           /\ StepsOf(job.op)[job.next] = Step
    <1>1. job # Idle
        BY Games DEF Over, Idle, AtStep
    <1>2. job \in Jobs
        BY <1>1 DEF JobInv
    <1>3. /\ job.op \in Operations /\ job.game \in 1 .. AllGames + 1
          /\ job.next \in 1 .. 6
        BY <1>2 DEF Jobs
    <1>4. job.game \in 1 .. AllGames
        BY <1>3, Games DEF Over
    <1>5. Len(StepsOf(job.op)) \in 1 .. 6
        BY <1>3, StepTypes
    <1>6. job.next \in 1 .. Len(StepsOf(job.op))
        BY <1>3, <1>5 DEF JobInv
    <1>7. IsStep(StepsOf(job.op)[job.next])
        BY <1>3, <1>6, StepTypes
    <1> QED BY <1>2, <1>3, <1>4, <1>6, <1>7, Games DEF Dir, Step

(* What the next step of a job is.                                           *)
LEMMA JobGoesOn ==
    ASSUME JobInv, ~Over, GoOn \/ GiveUp \/ job' = NextGame
    PROVE  JobInv'
    <1>1. /\ job.op \in Operations /\ job.game \in 1 .. AllGames
          /\ job.next \in 1 .. Len(StepsOf(job.op)) /\ job \in Jobs
        BY UnderWay
    <1>2. Len(StepsOf(job.op)) \in 1 .. 6
        BY <1>1, StepTypes
    <1>3. AllGames \in Nat \ {0}
        BY Games
    <1>4. CASE GoOn /\ job.next < Len(StepsOf(job.op))
        <2>1. job' = [job EXCEPT !.next = job.next + 1]
            BY <1>4 DEF GoOn
        <2> DEFINE next == job.next
                   last == Len(StepsOf(job.op))
        <2>2. last \in 1 .. 6 /\ next \in 1 .. last /\ next < last
            BY <1>1, <1>2, <1>4
        <2> HIDE DEF next, last
        <2>3. next + 1 \in 1 .. 6 /\ next + 1 <= last
            BY <2>2
        <2>4. job.next + 1 \in 1 .. 6 /\ job.next + 1 <= Len(StepsOf(job.op))
            BY <2>3 DEF next, last
        <2>5. job' \in Jobs /\ job'.op = job.op /\ job'.next = job.next + 1
              /\ job'.variables = job.variables
            BY <1>1, <2>1, <2>4 DEF Jobs
        <2> QED BY <2>4, <2>5 DEF JobInv
    <1>5. CASE job' = NextGame
        <2>1. job.game + 1 \in 1 .. AllGames + 1 /\ 1 \in 1 .. 6
            BY <1>1, <1>3
        <2>2. job' \in Jobs /\ job'.op = job.op /\ job'.next = 1
              /\ job'.variables = job.variables
            BY <1>1, <1>5, <2>1 DEF Jobs, NextGame
        <2> QED BY <1>2, <2>2 DEF JobInv
    <1>6. CASE GiveUp
        <2>1. AllGames + 1 \in 1 .. AllGames + 1
            BY <1>3
        <2>2. job' \in Jobs /\ job'.op = job.op /\ job'.next = job.next
              /\ job'.game = AllGames + 1 /\ job'.variables = job.variables
            BY <1>1, <1>6, <2>1 DEF Jobs, GiveUp
        <2>3. Over'
            BY <1>3, <2>2 DEF Over
        <2> QED BY <2>2, <2>3 DEF JobInv
    <1> QED BY <1>4, <1>5, <1>6 DEF GoOn

LEMMA JobBegins ==
    ASSUME NEW op \in Operations, NEW variables \in FormVariables \cup {NotSaved},
           op = "save" => variables \in FormVariables,
           job' = AtStep(op, 1, 1, variables, FALSE)
    PROVE  JobInv'
    <1>0. Len(StepsOf(op)) \in 1 .. 6 /\ AllGames \in Nat \ {0}
        BY Games, StepTypes
    <1>1. 1 \in 1 .. AllGames + 1 /\ 1 \in 1 .. 6 /\ 1 <= Len(StepsOf(op))
        BY <1>0
    <1>2. /\ job' \in Jobs /\ job'.op = op /\ job'.next = 1
          /\ job'.variables = variables
        BY <1>1 DEF AtStep, Jobs
    <1> QED BY <1>1, <1>2 DEF JobInv

(* No operation is under way any more.                                       *)
LEMMA JobEnds == ASSUME job' = Idle PROVE JobInv' /\ job'.op = "none"
    <1>1. job'.game = AllGames + 1 /\ job'.op = "none"
        BY DEF Idle, AtStep
    <1>2. Over'
        BY <1>1, Games DEF Over
    <1> QED BY <1>1, <1>2 DEF JobInv

LEMMA JobKept == ASSUME JobInv, job' = job PROVE JobInv'
    BY DEF JobInv, Over

(* Every step of a job is one of these.                                      *)
LEMMA JobPreserved == ASSUME JobInv, FormInv, [Next]_vars PROVE JobInv'
    <1>1. CASE UNCHANGED vars
        BY <1>1, JobKept DEF vars
    <1>2. CASE Reload \/ Home \/ ResetDefaults
        BY <1>2, JobKept DEF Reload, Home, ResetDefaults
    <1>3. CASE \/ \E e \in {"0", "1"} : EditSwitch(e)
               \/ \E m \in Modes : EditMode(m)
               \/ \E text \in {"60", ""} : EditHz(text)
        BY <1>3, JobKept DEF EditSwitch, EditMode, EditHz
    <1>4. CASE SaveConfig
        <2>1. ReadForm(form) \in FormVariables
            BY FormIsRead DEF FormInv
        <2>2. job' = AtStep("save", 1, 1, ReadForm(form), FALSE)
            BY <1>4 DEF SaveConfig, Begin
        <2> QED BY <2>1, <2>2, JobBegins DEF Operations
    <1>5. CASE CopyDll \/ CliInstall \/ CliUninstall
        <2>1. \E op \in Operations \ {"save"} :
                  job' = AtStep(op, 1, 1, NotSaved, FALSE)
            BY <1>5 DEF CopyDll, CliInstall, CliUninstall, Begin, Operations
        <2> QED BY <2>1, JobBegins
    <1>6. CASE \/ WriteJson \/ WriteJsonFails \/ WriteSettings
               \/ WriteSettingsFails \/ Copy \/ CopyFails \/ Unlink \/ UnlinkFails
        <2>1. ~Over /\ (GoOn \/ GiveUp \/ job' = NextGame)
            BY <1>6 DEF WriteJson, WriteJsonFails, WriteSettings,
                WriteSettingsFails, Copy, CopyFails, Unlink, UnlinkFails, Doing
        <2> QED BY <2>1, JobGoesOn
    <1>7. CASE Finish
        BY <1>7, JobEnds DEF Finish
    <1>8. CASE \E d \in Dirs, p \in Places : HandEdit(d, p)
        BY <1>8, JobKept DEF HandEdit
    <1> QED BY <1>1, <1>2, <1>3, <1>4, <1>5, <1>6, <1>7, <1>8 DEF Next

-----------------------------------------------------------------------------
(* The files on disk.                                                        *)

(* One file is another.                                                      *)
LEMMA OneFile ==
    ASSUME DiskInv, NEW d \in Dirs, NEW p \in Places, NEW file,
           PutFile(d, p, file)
    PROVE  /\ DOMAIN files' = Dirs
           /\ \A e \in Dirs : DOMAIN files'[e] = Places
           /\ files'[d][p] = file
           /\ \A e \in Dirs, q \in Places :
                  <<e, q>> # <<d, p>> => files'[e][q] = files[e][q]
    BY DEF DiskInv, PutFile

LEMMA FilesKept ==
    ASSUME DiskInv, NEW d \in Dirs, NEW p \in Places, NEW file, IsFile(file),
           PutFile(d, p, file)
    PROVE  /\ DOMAIN files' = Dirs
           /\ \A e \in Dirs : DOMAIN files'[e] = Places
           /\ \A e \in Dirs, q \in Places : IsFile(files'[e][q])
    BY OneFile DEF DiskInv

(* These steps leave the disk alone.                                         *)
Elsewhere ==
    \/ Reload \/ Home \/ ResetDefaults
    \/ \E e \in {"0", "1"} : EditSwitch(e)
    \/ \E m \in Modes : EditMode(m)
    \/ \E text \in {"60", ""} : EditHz(text)
    \/ SaveConfig \/ CopyDll \/ CliInstall \/ CliUninstall
    \/ CopyFails \/ UnlinkFails \/ Finish

LEMMA DiskAlone ==
    ASSUME Elsewhere
    PROVE  UNCHANGED <<disk, original, harmed>> /\ (steps' = steps \/ Spend)
    BY DEF Elsewhere, Reload, Home, ResetDefaults, EditSwitch, EditMode, EditHz,
        SaveConfig, CopyDll, CliInstall, CliUninstall, Begin, CopyFails,
        UnlinkFails, Finish

LEMMA Spent == ASSUME steps \in 0 .. MaxSteps, Spend PROVE steps' \in 0 .. MaxSteps
    BY InstallerAssumption DEF Spend

LEMMA TornFile == IsFile(Torn) /\ IsFile(Missing)
    BY DEF IsFile, Torn, Missing, AreSections, Nothing

LEMMA FileStep ==
    ASSUME JobInv, Doing("json")
    PROVE  /\ ~Over /\ Dir \in Dirs /\ Step[1] = "json" /\ Step[2] \in Places
           /\ job.op = "save" => job.variables \in FormVariables
    <1>1. ~Over /\ Step[1] = "json"
        BY DEF Doing
    <1>2. Dir \in Dirs /\ IsStep(Step)
        BY <1>1, UnderWay
    <1> QED BY <1>1, <1>2 DEF IsStep, JobInv

(* What WriteJson writes.                                                    *)
LEMMA WrittenFile ==
    ASSUME DiskInv, JobInv, WriteJson
    PROVE  \E file :
               /\ PutFile(Dir, Step[2], file) /\ IsFile(file)
               /\ SameOthers(file, files[Dir][Step[2]])
               /\ job.op = "save" => Carries(file, job.variables)
               /\ job.op # "save" => \A variables :
                      Carries(files[Dir][Step[2]], variables) => Carries(file, variables)
    <1> DEFINE old == files[Dir][Step[2]]
    <1>1. /\ Dir \in Dirs /\ Step[2] \in Places
          /\ job.op = "save" => job.variables \in FormVariables
        BY FileStep DEF WriteJson
    <1>2. IsFile(old)
        BY <1>1 DEF DiskInv
    <1>3. PutFile(Dir, Step[2], IF job.op = "save" THEN Saved(old, job.variables)
                                ELSE Configured(old))
        BY DEF WriteJson
    <1> HIDE DEF old
    <1>4. CASE job.op = "save"
        <2>1. PutFile(Dir, Step[2], Saved(old, job.variables))
            BY <1>3, <1>4
        <2>2. /\ IsFile(Saved(old, job.variables))
              /\ Carries(Saved(old, job.variables), job.variables)
              /\ SameOthers(Saved(old, job.variables), old)
            BY <1>1, <1>2, <1>4, SavedFile, SavedOthers
        <2> QED BY <1>4, <2>1, <2>2 DEF old
    <1>5. CASE job.op # "save"
        <2>1. PutFile(Dir, Step[2], Configured(old))
            BY <1>3, <1>5
        <2>2. /\ IsFile(Configured(old))
              /\ \A variables : Carries(old, variables) =>
                                    Carries(Configured(old), variables)
              /\ SameOthers(Configured(old), old)
            BY <1>2, ConfiguredFile, ConfiguredOthers
        <2> QED BY <1>5, <2>1, <2>2 DEF old
    <1> QED BY <1>4, <1>5

LEMMA DiskPreserved == ASSUME DiskInv, JobInv, [Next]_vars PROVE DiskInv'
    <1>1. CASE UNCHANGED vars
        BY <1>1 DEF vars, disk, DiskInv
    <1>2. CASE Elsewhere
        BY <1>2, DiskAlone, Spent DEF disk, DiskInv
    <1>3. CASE WriteJson
        <2>1. PICK file : PutFile(Dir, Step[2], file) /\ IsFile(file)
            BY <1>3, WrittenFile
        <2>2. Dir \in Dirs /\ Step[2] \in Places
            BY <1>3, FileStep DEF WriteJson
        <2>3. /\ DOMAIN files' = Dirs /\ \A e \in Dirs : DOMAIN files'[e] = Places
              /\ \A e \in Dirs, q \in Places : IsFile(files'[e][q])
            BY <2>1, <2>2, FilesKept
        <2> QED BY <1>3, <2>3 DEF WriteJson, DiskInv
    <1>4. CASE WriteJsonFails
        <2>1. Dir \in Dirs /\ Step[2] \in Places
            BY <1>4, FileStep DEF WriteJsonFails
        <2>2. steps' \in 0 .. MaxSteps
            BY <1>4, Spent DEF WriteJsonFails, DiskInv
        <2>3. /\ DOMAIN files' = Dirs /\ \A e \in Dirs : DOMAIN files'[e] = Places
              /\ \A e \in Dirs, q \in Places : IsFile(files'[e][q])
            BY <1>4, <2>1, FilesKept, TornFile DEF WriteJsonFails, DiskInv
        <2>4. harmed' \subseteq Dirs \X Places
            BY <1>4, <2>1 DEF WriteJsonFails, DiskInv
        <2> QED BY <1>4, <2>2, <2>3, <2>4 DEF WriteJsonFails, DiskInv
    <1>5. CASE WriteSettings \/ WriteSettingsFails
        <2>1. steps' \in 0 .. MaxSteps
            BY <1>5, Spent DEF WriteSettings, WriteSettingsFails, DiskInv
        <2>2. /\ ~Over /\ Dir \in Dirs /\ Step[2] \in Places
            <3>1. ~Over /\ Step[1] = "settings"
                BY <1>5 DEF WriteSettings, WriteSettingsFails, Doing
            <3>2. Dir \in Dirs /\ IsStep(Step)
                BY <3>1, UnderWay
            <3> QED BY <3>1, <3>2 DEF IsStep
        <2>3. settings' \in [Dirs -> [Places -> {"absent", "off", "on", "torn"}]]
            BY <1>5, <2>2 DEF WriteSettings, WriteSettingsFails, DiskInv
        <2> QED BY <1>5, <2>1, <2>3 DEF WriteSettings, WriteSettingsFails, DiskInv
    <1>6. CASE Copy \/ Unlink
        <2>1. ~Over /\ Step[1] \in {"dll", "unlink"}
            BY <1>6 DEF Copy, Unlink, Doing
        <2>2. Dir \in Dirs /\ Step[2] \in Spots
            BY <2>1, UnderWay DEF IsStep
        <2> QED BY <1>6, <2>2 DEF Copy, Unlink, DiskInv
    <1>7. CASE \E d \in Dirs, p \in Places : HandEdit(d, p)
        <2>1. PICK d \in Dirs, p \in Places : HandEdit(d, p)
            BY <1>7
        <2>2. IsFile(files[d][p])
            BY DEF DiskInv
        <2>3. IsFile(Object(Assigned(files[d][p].sections, Base, Snippet)))
            BY <2>1, <2>2, EditedFile DEF HandEdit
        <2>4. /\ DOMAIN files' = Dirs /\ \A e \in Dirs : DOMAIN files'[e] = Places
              /\ \A e \in Dirs, q \in Places : IsFile(files'[e][q])
            BY <2>1, <2>3, FilesKept DEF HandEdit
        <2>5. steps' \in 0 .. MaxSteps
            BY <2>1, Spent DEF HandEdit, DiskInv
        <2> QED BY <2>1, <2>4, <2>5 DEF HandEdit, DiskInv
    <1> QED BY <1>1, <1>2, <1>3, <1>4, <1>5, <1>6, <1>7 DEF Next, Elsewhere

(* A file is replaced by one with the same others.                           *)
LEMMA OthersFollow ==
    ASSUME DiskInv, OthersInv, NEW d \in Dirs, NEW p \in Places, NEW file,
           PutFile(d, p, file), SameOthers(file, files[d][p]),
           UNCHANGED <<original, harmed>>
    PROVE  OthersInv'
    <1> SUFFICES ASSUME NEW e \in Dirs, NEW q \in Places, <<e, q>> \notin harmed
                 PROVE  SameOthers(files'[e][q], original[e][q])
        BY DEF OthersInv
    <1>1. SameOthers(files[e][q], original[e][q])
        BY DEF OthersInv
    <1>2. CASE <<e, q>> = <<d, p>>
        <2>1. files'[e][q] = file /\ e = d /\ q = p
            BY <1>2, OneFile
        <2> QED BY <1>1, <2>1 DEF SameOthers
    <1>3. CASE <<e, q>> # <<d, p>>
        BY <1>1, <1>3, OneFile
    <1> QED BY <1>2, <1>3

LEMMA OthersPreserved ==
    ASSUME DiskInv, JobInv, OthersInv, [Next]_vars
    PROVE  OthersInv'
    <1>1. CASE UNCHANGED vars
        BY <1>1 DEF vars, disk, OthersInv
    <1>2. CASE Elsewhere
        BY <1>2, DiskAlone DEF disk, OthersInv
    <1>3. CASE WriteJson
        <2>1. PICK file : /\ PutFile(Dir, Step[2], file)
                          /\ SameOthers(file, files[Dir][Step[2]])
            BY <1>3, WrittenFile
        <2>2. Dir \in Dirs /\ Step[2] \in Places
            BY <1>3, FileStep DEF WriteJson
        <2>3. UNCHANGED <<original, harmed>>
            BY <1>3 DEF WriteJson
        <2> QED BY <2>1, <2>2, <2>3, OthersFollow
    <1>4. CASE WriteJsonFails
        <2>1. Dir \in Dirs /\ Step[2] \in Places
            BY <1>4, FileStep DEF WriteJsonFails
        <2>2. CASE UNCHANGED <<files, harmed, saved>>
            BY <1>4, <2>2 DEF WriteJsonFails, OthersInv
        <2>3. CASE /\ PutFile(Dir, Step[2], Torn)
                   /\ harmed' = harmed \cup {<<Dir, Step[2]>>}
            <3>1. \A e \in Dirs, q \in Places :
                      <<e, q>> # <<Dir, Step[2]>> => files'[e][q] = files[e][q]
                BY <2>1, <2>3, OneFile
            <3> QED BY <1>4, <2>3, <3>1 DEF WriteJsonFails, OthersInv
        <2> QED BY <1>4, <2>2, <2>3 DEF WriteJsonFails
    <1>5. CASE WriteSettings \/ WriteSettingsFails \/ Copy \/ Unlink
        BY <1>5 DEF WriteSettings, WriteSettingsFails, Copy, Unlink, OthersInv
    <1>6. CASE \E d \in Dirs, p \in Places : HandEdit(d, p)
        <2>1. PICK d \in Dirs, p \in Places : HandEdit(d, p)
            BY <1>6
        <2>2. IsFile(files[d][p])
            BY DEF DiskInv
        <2> DEFINE file == Object(Assigned(files[d][p].sections, Base, Snippet))
        <2>3. PutFile(d, p, file) /\ SameOthers(file, files[d][p])
            BY <2>1, <2>2, EditedFile DEF HandEdit
        <2>4. UNCHANGED <<original, harmed>>
            BY <2>1 DEF HandEdit
        <2> HIDE DEF file
        <2> QED BY <2>3, <2>4, OthersFollow
    <1> QED BY <1>1, <1>2, <1>3, <1>4, <1>5, <1>6 DEF Next, Elsewhere

-----------------------------------------------------------------------------
(* What the manager shows.                                                   *)

LEMMA ActiveIsAFile == ASSUME DiskInv, NEW d \in Dirs PROVE IsFile(ActiveFile(d))
    BY DEF DiskInv, ActiveFile, Places

(* The active variables; those of a save, if all files carry them.           *)
LEMMA ActiveOnes ==
    ASSUME DiskInv
    PROVE  /\ DOMAIN ActiveVariables = Keys /\ ActiveVariables[Rate] \in RateTexts
           /\ \A variables :
                  (\A d \in Dirs, p \in Places : Carries(files[d][p], variables))
                  => \A key \in {Switch, Rate} : ActiveVariables[key] = variables[key]
    <1> DEFINE own == {i \in 1 .. AllGames :
                          /\ ActiveFile(Targets[i]) # Missing
                          /\ ReadVariables(ActiveFile(Targets[i])) # Defaults}
    <1>1. CASE own = {}
        <2>1. ActiveVariables = Defaults
            BY <1>1 DEF ActiveVariables
        <2>2. ASSUME NEW variables,
                     \A d \in Dirs, p \in Places : Carries(files[d][p], variables)
              PROVE  \A key \in {Switch, Rate} : Defaults[key] = variables[key]
            <3> DEFINE file == ActiveFile(Targets[1])
            <3>1. 1 \in 1 .. AllGames /\ Targets[1] \in Dirs
                BY Games
            <3>2. IsFile(file) /\ Carries(file, variables)
                BY <2>2, <3>1, ActiveIsAFile DEF ActiveFile, Places
            <3>3. file # Missing
                BY <3>2 DEF Carries, Missing
            <3>4. ReadVariables(file) = Defaults
                BY <1>1, <3>1, <3>3
            <3> HIDE DEF file
            <3> QED BY <3>2, <3>4, ReadFile
        <2> QED BY <2>1, <2>2, DefaultVariables DEF IsVariables, Keys
    <1>2. CASE own # {}
        <2>1. Min(own) \in own
            BY <1>2, SmallestOf
        <2> DEFINE file == ActiveFile(Targets[Min(own)])
        <2>2. ActiveVariables = ReadVariables(file)
            BY <1>2 DEF ActiveVariables
        <2>3. Targets[Min(own)] \in Dirs
            BY <2>1, Games
        <2>4. IsFile(file)
            BY <2>3, ActiveIsAFile
        <2>5. \A variables :
                  (\A d \in Dirs, p \in Places : Carries(files[d][p], variables))
                  => Carries(file, variables)
            BY <2>3 DEF ActiveFile, Places
        <2> HIDE DEF file, own
        <2> QED BY <2>2, <2>4, <2>5, ReadFile
    <1> QED BY <1>1, <1>2

LEMMA OverviewType ==
    ASSUME DiskInv
    PROVE  /\ Overview.games \in [Dirs -> [installed : BOOLEAN, json : BOOLEAN,
                                           external : BOOLEAN]]
           /\ Overview.active = ActiveVariables
           /\ Overview = [games |-> Overview.games, active |-> Overview.active]
    BY DEF Overview

LEMMA EditedForm ==
    ASSUME NEW f \in Forms
    PROVE  /\ \A e \in {"0", "1"} : [f EXCEPT !.enabled = e] \in Forms
           /\ \A m \in Modes : [f EXCEPT !.rate.mode = m] \in Forms
           /\ \A text \in HzTexts : [f EXCEPT !.rate.hz = text] \in Forms
    <1>1. /\ f = [enabled |-> f.enabled, rate |-> f.rate]
          /\ f.enabled \in {"0", "1"} /\ f.rate \in [mode : Modes, hz : HzTexts]
        BY DEF Forms
    <1>2. ASSUME NEW e \in {"0", "1"} PROVE [f EXCEPT !.enabled = e] \in Forms
        BY <1>1 DEF Forms
    <1>3. ASSUME NEW m \in Modes PROVE [f EXCEPT !.rate.mode = m] \in Forms
        BY <1>1 DEF Forms
    <1>4. ASSUME NEW text \in HzTexts PROVE [f EXCEPT !.rate.hz = text] \in Forms
        BY <1>1 DEF Forms
    <1> QED BY <1>2, <1>3, <1>4

LEMMA FormPreserved == ASSUME DiskInv, FormInv, [Next]_vars PROVE FormInv'
    <1>0. /\ LoadForm(ActiveVariables) \in Forms /\ LoadForm(Defaults) \in Forms
          /\ DOMAIN ActiveVariables = Keys /\ ActiveVariables[Rate] \in RateTexts
          /\ DOMAIN Defaults = Keys /\ Defaults[Rate] \in RateTexts
        BY ActiveOnes, LoadedForm, DefaultVariables DEF RateTexts
    <1>1. CASE /\ overview' = Overview
               /\ \/ form' = form /\ touched' = touched
                  \/ form' = LoadForm(overview'.active) /\ touched' = FALSE
        BY <1>0, <1>1, OverviewType DEF FormInv
    <1>2. CASE UNCHANGED manager
        BY <1>2 DEF manager, FormInv
    <1>3. CASE ResetDefaults
        <2>1. /\ overview' = [overview EXCEPT !.active = Defaults]
              /\ form' = LoadForm(Defaults) /\ touched' = TRUE
            BY <1>3 DEF ResetDefaults
        <2>2. /\ overview'.games = overview.games /\ overview'.active = Defaults
              /\ overview' = [games |-> overview'.games, active |-> overview'.active]
            BY <2>1 DEF FormInv
        <2> QED BY <1>0, <2>1, <2>2 DEF FormInv
    <1>4. CASE \/ \E e \in {"0", "1"} : EditSwitch(e)
               \/ \E m \in Modes : EditMode(m)
               \/ \E text \in {"60", ""} : EditHz(text)
        <2>1. overview' = overview /\ touched' = TRUE
            BY <1>4 DEF EditSwitch, EditMode, EditHz
        <2>2. form \in Forms /\ {"60", ""} \subseteq HzTexts
            BY DEF FormInv, HzTexts
        <2>3. \/ \E e \in {"0", "1"} : form' = [form EXCEPT !.enabled = e]
              \/ \E m \in Modes : form' = [form EXCEPT !.rate.mode = m]
              \/ \E text \in HzTexts : form' = [form EXCEPT !.rate.hz = text]
            BY <1>4, <2>2 DEF EditSwitch, EditMode, EditHz
        <2>4. form' \in Forms
            BY <2>2, <2>3, EditedForm
        <2> QED BY <2>1, <2>4 DEF FormInv
    <1> QED
        BY <1>1, <1>2, <1>3, <1>4
        DEF Next, vars, Reload, Home, SaveConfig, CopyDll, CliInstall, CliUninstall,
            Begin, WriteJson, WriteJsonFails, WriteSettings, WriteSettingsFails,
            Copy, CopyFails, Unlink, UnlinkFails, Finish, HandEdit

-----------------------------------------------------------------------------
(* A save.                                                                   *)

(* A step of a save that reached the JSON of this file has it written.       *)
LEMMA SaveStep ==
    ASSUME JobInv, ~Over, job.op = "save"
    PROVE  /\ job.game \in 1 .. AllGames /\ job.next \in 1 .. 4
           /\ job.next = 1 => Step = <<"json", "player">>
           /\ job.next = 2 => Step = <<"json", "root">>
           /\ job.next = 3 => Step = <<"settings", "player">>
           /\ job.next = 4 => Step = <<"settings", "root">>
    BY UnderWay, StepList

(* What has been written after a step that goes on.                          *)
LEMMA WrittenNext ==
    ASSUME JobInv, ~Over, job.op = "save", GoOn,
           NEW i \in 1 .. AllGames, NEW p \in Places, Written(i, p)'
    PROVE  /\ job'.variables = job.variables /\ job'.failed = job.failed
           /\ Written(i, p) \/ (i = job.game /\ Step = <<"json", p>>)
    <1>1. /\ job.game \in 1 .. AllGames /\ job.next \in 1 .. 4
          /\ Len(StepsOf(job.op)) = 4 /\ job \in Jobs
        BY SaveStep, StepList, UnderWay
    <1>2. CASE job.next < 4
        <2>1. /\ job'.game = job.game /\ job'.next = job.next + 1
              /\ job'.variables = job.variables /\ job'.failed = job.failed
            BY <1>1, <1>2 DEF GoOn, Jobs
        <2>2. job.next \in {1, 2, 3}
            BY <1>1, <1>2
        <2> QED BY <1>1, <2>1, <2>2, SaveStep DEF Written, Places
    <1>3. CASE job.next = 4
        <2>1. /\ job'.game = job.game + 1 /\ job'.next = 1
              /\ job'.variables = job.variables /\ job'.failed = job.failed
            <3> DEFINE last == Len(StepsOf(job.op))
            <3>0. last = 4
                BY <1>1
            <3> HIDE DEF last
            <3>1. ~(job.next < last)
                BY <1>3, <3>0
            <3>2. job' = NextGame
                BY <3>1 DEF GoOn, last
            <3> QED BY <1>1, <3>2 DEF NextGame, Jobs
        <2>2. i < job.game + 1
            BY <2>1 DEF Written
        <2> QED BY <1>1, <1>3, <2>1, <2>2, SaveStep DEF Written, Places
    <1> QED BY <1>1, <1>2, <1>3

LEMMA OpKept ==
    ASSUME JobInv, ~Over, GoOn \/ GiveUp \/ job' = NextGame
    PROVE  job'.op = job.op
    <1>1. job \in Jobs
        BY UnderWay
    <1> QED BY <1>1 DEF Jobs, GoOn, GiveUp, NextGame

(* Nothing is written and the save goes no further than it was.              *)
LEMMA SavedKept ==
    ASSUME SavedInv, UNCHANGED <<files, job, saved>>
    PROVE  SavedInv'
    BY DEF SavedInv, Written

LEMMA SavedPreserved ==
    ASSUME DiskInv, JobInv, FormInv, SavedInv, [Next]_vars
    PROVE  SavedInv'
    <1>1. CASE UNCHANGED <<files, job, saved>>
        BY <1>1, SavedKept
    <1>2. CASE SaveConfig
        <2>1. /\ job' = AtStep("save", 1, 1, ReadForm(form), FALSE)
              /\ saved' = NotSaved
            BY <1>2 DEF SaveConfig, Begin
        <2>2. \A i \in 1 .. AllGames, p \in Places : ~Written(i, p)'
            BY <2>1, Games DEF AtStep, Written
        <2> QED BY <2>1, <2>2 DEF SavedInv
    <1>3. CASE CopyDll \/ CliInstall \/ CliUninstall
        <2>1. /\ job'.op # "save" /\ UNCHANGED <<files, saved>>
            BY <1>3 DEF CopyDll, CliInstall, CliUninstall, Begin, AtStep, disk
        <2> QED BY <2>1 DEF SavedInv
    <1>4. CASE WriteJson
        <2>1. PICK file :
                  /\ PutFile(Dir, Step[2], file)
                  /\ job.op = "save" => Carries(file, job.variables)
                  /\ job.op # "save" => \A variables :
                      Carries(files[Dir][Step[2]], variables) => Carries(file, variables)
            BY <1>4, WrittenFile
        <2>2. /\ ~Over /\ Dir \in Dirs /\ Step[2] \in Places
            BY <1>4, FileStep DEF WriteJson
        <2>3. /\ files'[Dir][Step[2]] = file
              /\ \A e \in Dirs, q \in Places :
                     <<e, q>> # <<Dir, Step[2]>> => files'[e][q] = files[e][q]
            BY <2>1, <2>2, OneFile
        <2>4. GoOn /\ saved' = saved /\ job'.op = job.op
            BY <1>4, <2>2, OpKept DEF WriteJson
        <2>5. CASE job.op = "save"
            <3>1. saved' = NotSaved
                BY <2>4, <2>5 DEF SavedInv
            <3>2. ASSUME ~job'.failed, NEW i \in 1 .. AllGames, NEW p \in Places,
                         Written(i, p)'
                  PROVE  Carries(files'[Targets[i]][p], job'.variables)
                <4>1. /\ job'.variables = job.variables /\ ~job.failed
                      /\ Written(i, p) \/ (i = job.game /\ Step = <<"json", p>>)
                    BY <2>2, <2>4, <2>5, <3>2, WrittenNext
                <4>2. Targets[i] \in Dirs
                    BY Games
                <4>3. CASE <<Targets[i], p>> = <<Dir, Step[2]>>
                    <5>1. files'[Targets[i]][p] = file
                        BY <2>3, <4>3
                    <5> QED BY <2>1, <2>5, <4>1, <5>1
                <4>4. CASE <<Targets[i], p>> # <<Dir, Step[2]>>
                    <5>1. Written(i, p)
                        BY <4>1, <4>4 DEF Dir
                    <5>2. Carries(files[Targets[i]][p], job.variables)
                        BY <2>5, <4>1, <5>1 DEF SavedInv
                    <5> QED BY <2>3, <4>1, <4>2, <4>4, <5>2
                <4> QED BY <4>3, <4>4
            <3> QED BY <3>1, <3>2 DEF SavedInv
        <2>6. CASE job.op # "save"
            <3>1. ASSUME saved # NotSaved, NEW d \in Dirs, NEW p \in Places
                  PROVE  Carries(files'[d][p], saved)
                <4>1. Carries(files[d][p], saved)
                    BY <3>1 DEF SavedInv
                <4>2. CASE <<d, p>> = <<Dir, Step[2]>>
                    <5>1. files'[d][p] = file /\ d = Dir /\ p = Step[2]
                        BY <2>3, <4>2
                    <5> QED BY <2>1, <2>6, <4>1, <5>1
                <4>3. CASE <<d, p>> # <<Dir, Step[2]>>
                    BY <2>3, <4>1, <4>3
                <4> QED BY <4>2, <4>3
            <3> QED BY <2>4, <2>6, <3>1 DEF SavedInv
        <2> QED BY <2>5, <2>6
    <1>5. CASE WriteJsonFails
        <2>1. /\ ~Over /\ (GoOn \/ GiveUp)
              /\ job.op = "save" => GiveUp
              /\ saved' \in {saved, NotSaved}
              /\ saved' # NotSaved => UNCHANGED files
            BY <1>5 DEF WriteJsonFails, Doing
        <2>2. job'.op = job.op
            BY <2>1, OpKept
        <2>3. job.op = "save" => job'.failed = TRUE
            <3>1. job \in Jobs
                BY <2>1, UnderWay
            <3> QED BY <2>1, <3>1 DEF Jobs, GiveUp
        <2> QED BY <2>1, <2>2, <2>3 DEF SavedInv
    <1>6. CASE WriteSettings \/ WriteSettingsFails
        <2>1. ~Over /\ Step[1] = "settings" /\ GoOn /\ UNCHANGED <<files, saved>>
            BY <1>6 DEF WriteSettings, WriteSettingsFails, Doing
        <2>2. job'.op = job.op
            BY <2>1, OpKept
        <2>3. ASSUME job.op = "save", ~job'.failed, NEW i \in 1 .. AllGames,
                     NEW p \in Places, Written(i, p)'
              PROVE  Carries(files'[Targets[i]][p], job'.variables)
            <3>1. /\ job'.variables = job.variables /\ job'.failed = job.failed
                  /\ Written(i, p) \/ Step = <<"json", p>>
                BY <2>1, <2>3, WrittenNext
            <3>2. Step # <<"json", p>>
                BY <2>1
            <3>3. Carries(files[Targets[i]][p], job.variables)
                BY <2>3, <3>1, <3>2 DEF SavedInv
            <3> QED BY <2>1, <3>1, <3>3
        <2> QED BY <2>1, <2>2, <2>3 DEF SavedInv
    <1>7. CASE Copy \/ CopyFails \/ Unlink \/ UnlinkFails
        <2>1. /\ ~Over /\ Step[1] \in {"dll", "unlink"} /\ UNCHANGED <<files, saved>>
              /\ GoOn \/ GiveUp \/ job' = NextGame
            BY <1>7 DEF Copy, CopyFails, Unlink, UnlinkFails, Doing, disk
        <2>2. job.op # "save"
            <3>1. ASSUME job.op = "save" PROVE FALSE
                <4>1. job.next \in {1, 2, 3, 4}
                    BY <2>1, <3>1, SaveStep
                <4>2. Step[1] \in {"json", "settings"}
                    BY <2>1, <3>1, <4>1, SaveStep
                <4> QED BY <2>1, <4>2
            <3> QED BY <3>1
        <2>3. job'.op # "save"
            BY <2>1, <2>2, OpKept
        <2> QED BY <2>1, <2>3 DEF SavedInv
    <1>8. CASE Finish
        <2>1. /\ Over /\ job'.op = "none" /\ UNCHANGED files
              /\ saved' = IF job.op = "save" /\ ~job.failed THEN job.variables ELSE saved
            BY <1>8, JobEnds DEF Finish, disk
        <2>2. ASSUME job.op = "save", ~job.failed, NEW d \in Dirs, NEW p \in Places
              PROVE  Carries(files[d][p], job.variables)
            <3>1. PICK i \in 1 .. AllGames : d = Targets[i]
                BY DirsAreGames
            <3>2. Written(i, p)
                <4>1. job.game > AllGames /\ AllGames \in Nat
                    BY <2>1, Games DEF Over
                <4>2. job.game \in Nat
                    BY Games DEF JobInv, Jobs, Idle, AtStep
                <4> QED BY <4>1, <4>2 DEF Written
            <3> QED BY <2>2, <3>1, <3>2 DEF SavedInv
        <2>3. job.op = "save" => job.variables \in FormVariables
            BY DEF JobInv
        <2> QED BY <2>1, <2>2, <2>3 DEF SavedInv
    <1>9. CASE \E d \in Dirs, p \in Places : HandEdit(d, p)
        <2>1. saved' = NotSaved /\ job' = job /\ job.op = "none"
            BY <1>9 DEF HandEdit, Free
        <2> QED BY <2>1 DEF SavedInv
    <1>10. CASE \/ UNCHANGED vars \/ Reload \/ Home \/ ResetDefaults
                \/ \E e \in {"0", "1"} : EditSwitch(e)
                \/ \E m \in Modes : EditMode(m)
                \/ \E text \in {"60", ""} : EditHz(text)
        BY <1>1, <1>10 DEF vars, disk, Reload, Home, ResetDefaults, EditSwitch,
            EditMode, EditHz
    <1> QED BY <1>2, <1>3, <1>4, <1>5, <1>6, <1>7, <1>8, <1>9, <1>10 DEF Next

LEMMA ShownPreserved ==
    ASSUME DiskInv, JobInv, FormInv, SavedInv, ShownInv, SavedInv', [Next]_vars
    PROVE  ShownInv'
    <1>1. CASE UNCHANGED manager /\ saved' \in {saved, NotSaved}
        BY <1>1 DEF manager, ShownInv
    <1>2. CASE touched' = TRUE
        BY <1>2 DEF ShownInv
    <1>3. ASSUME saved' # NotSaved, UNCHANGED files
          PROVE  /\ \A key \in {Switch, Rate} : ActiveVariables[key] = saved'[key]
                 /\ ReadForm(LoadForm(ActiveVariables)) = saved'
        <2>1. /\ saved' \in FormVariables
              /\ \A d \in Dirs, p \in Places : Carries(files[d][p], saved')
            BY <1>3 DEF SavedInv
        <2>2. \A key \in {Switch, Rate} : ActiveVariables[key] = saved'[key]
            BY <2>1, ActiveOnes
        <2>3. /\ ActiveVariables[Switch] = saved'[Switch]
              /\ ActiveVariables[Rate] = saved'[Rate]
            BY <2>2
        <2>4. DOMAIN ActiveVariables = Keys /\ ActiveVariables[Rate] \in RateTexts
            BY ActiveOnes
        <2>5. ReadForm(LoadForm(ActiveVariables)) = saved'
            BY <2>1, <2>3, <2>4, LoadedForm
        <2> QED BY <2>2, <2>5
    <1>4. CASE /\ overview' = Overview /\ form' = LoadForm(overview'.active)
               /\ UNCHANGED files
        <2>1. overview'.active = ActiveVariables
            BY <1>4, OverviewType
        <2> QED BY <1>3, <1>4, <2>1 DEF ShownInv
    <1>5. CASE Home
        <2>1. /\ overview'.active = ActiveVariables
              /\ UNCHANGED <<files, form, touched, saved>>
            BY <1>5, OverviewType DEF Home, disk
        <2> QED BY <1>3, <2>1 DEF ShownInv
    <1>6. CASE Finish
        <2>1. CASE job.op \in {"save", "copy"}
            BY <1>4, <1>6, <2>1 DEF Finish, disk
        <2>2. CASE job.op \notin {"save", "copy"}
            BY <1>1, <1>6, <2>2 DEF Finish
        <2> QED BY <2>1, <2>2
    <1>7. CASE Reload
        BY <1>4, <1>7 DEF Reload, disk
    <1>8. CASE \/ \E e \in {"0", "1"} : EditSwitch(e)
               \/ \E m \in Modes : EditMode(m)
               \/ \E text \in {"60", ""} : EditHz(text)
        BY <1>2, <1>8 DEF EditSwitch, EditMode, EditHz
    <1>9. CASE ResetDefaults
        BY <1>2, <1>9 DEF ResetDefaults
    <1> QED
        BY <1>1, <1>5, <1>6, <1>7, <1>8, <1>9
        DEF Next, vars, SaveConfig, CopyDll, CliInstall, CliUninstall,
            Begin, WriteJson, WriteJsonFails, WriteSettings, WriteSettingsFails,
            Copy, CopyFails, Unlink, UnlinkFails, HandEdit

-----------------------------------------------------------------------------
(* The invariant holds at first and for ever.                                *)

LEMMA InitInv == Init => IInv
    <1> SUFFICES ASSUME Init PROVE IInv
        OBVIOUS
    <1>1. DiskInv
        <2>1. /\ DOMAIN files = Dirs /\ \A d \in Dirs : files[d] \in FirstFiles
            BY DEF Init
        <2>2. /\ \A d \in Dirs : DOMAIN files[d] = Places
              /\ \A d \in Dirs, p \in Places : IsFile(files[d][p])
            BY <2>1, InstallerAssumption
        <2>3. settings \in [Dirs -> [Places -> {"absent", "off", "on", "torn"}]]
            BY DEF Init
        <2>4. harmed \subseteq Dirs \X Places /\ dlls = {} /\ steps = MaxSteps
            BY DEF Init
        <2>5. steps \in 0 .. MaxSteps
            BY <2>4, InstallerAssumption
        <2> QED BY <2>1, <2>2, <2>3, <2>4, <2>5 DEF DiskInv
    <1>2. OthersInv
        BY DEF Init, OthersInv, SameOthers
    <1>3. JobInv /\ job.op = "none"
        <2>1. job = Idle /\ job.game = AllGames + 1 /\ job.op = "none"
            BY DEF Init, Idle, AtStep
        <2>2. Over
            BY <2>1, Games DEF Over
        <2> QED BY <2>1, <2>2 DEF JobInv
    <1>4. FormInv
        <2>1. overview = Overview /\ form = LoadForm(overview.active) /\ touched = FALSE
            BY DEF Init
        <2>2. LoadForm(ActiveVariables) \in Forms
            BY <1>1, ActiveOnes, LoadedForm
        <2> QED BY <1>1, <2>1, <2>2, ActiveOnes, OverviewType DEF FormInv
    <1>5. SavedInv /\ ShownInv
        BY <1>3 DEF Init, SavedInv, ShownInv
    <1> QED BY <1>1, <1>2, <1>3, <1>4, <1>5 DEF IInv

LEMMA StepInv == IInv /\ [Next]_vars => IInv'
    BY DiskPreserved, OthersPreserved, JobPreserved, FormPreserved,
        SavedPreserved, ShownPreserved DEF IInv

LEMMA Invariant == Spec => []IInv
    BY InitInv, StepInv, PTL DEF Spec

-----------------------------------------------------------------------------
(* The theorems.                                                             *)

LEMMA TypesFollow == IInv => TypeOK
    <1> SUFFICES ASSUME IInv PROVE TypeOK
        OBVIOUS
    <1>1. \A d \in Dirs, p \in Places :
              /\ IsFile(files[d][p])
              /\ settings[d][p] \in {"absent", "off", "on", "torn"}
        BY DEF IInv, DiskInv
    <1>2. job \in [op : {"save", "copy", "install", "uninstall"},
                   game : 1 .. AllGames + 1, next : 1 .. 6,
                   variables : FormVariables \cup {NotSaved}, failed : BOOLEAN]
                  \cup {Idle}
        BY DEF IInv, JobInv, Jobs, Operations
    <1>3. dlls \subseteq Dirs \X Spots /\ harmed \subseteq Dirs \X Places
          /\ steps \in 0 .. MaxSteps
        BY DEF IInv, DiskInv
    <1>4. saved \in FormVariables \cup {NotSaved}
        BY DEF IInv, SavedInv
    <1>5. /\ form \in Forms /\ touched \in BOOLEAN
          /\ overview.games \in [Dirs -> [installed : BOOLEAN, json : BOOLEAN,
                                          external : BOOLEAN]]
          /\ DOMAIN overview.active = Keys /\ overview.active[Rate] \in RateTexts
        BY DEF IInv, FormInv
    <1> QED BY <1>1, <1>2, <1>3, <1>4, <1>5 DEF TypeOK

(* The installer's and the form's variables keep their types: every file is   *)
(* one that parses into distinct sections, or is missing or torn.            *)
THEOREM InstallerTypes == Spec => []TypeOK
    BY Invariant, TypesFollow, PTL

(* What the plugin finds first in a file that carries the variables.         *)
LEMMA CarriedIsExtracted ==
    ASSUME NEW file, NEW variables, Carries(file, variables),
           NEW key \in {Switch, Rate}, MetFirst(file, key)
    PROVE  ExtractJsonString(file, key) = variables[key]
    <1>1. Having(file, key) # {} /\ FirstHaving(file, key) = Dll
        BY DEF MetFirst
    <1>2. ExtractJsonString(file, key) = file.sections[Dll].vars[key]
        BY <1>1 DEF ExtractJsonString
    <1> QED BY <1>2 DEF Carries

LEMMA MeantRate ==
    ASSUME NEW text \in RateTexts, ~Numberless(text)
    PROVE  ParseRateString(text) = Meant(text)
    <1>1. text \in {<<"unlimited">>, <<"off">>, <<"60", "Hz">>, <<"100", "Hz">>}
        BY DEF RateTexts, HzTexts, Numberless
    <1>2. CASE text = <<"unlimited">> \/ text = <<"off">>
        BY <1>2 DEF ParseRateString, Meant
    <1>3. ASSUME NEW hz \in {"60", "100"}, text = <<hz, "Hz">>
          PROVE  ParseRateString(text) = Meant(text)
        <2>1. text # <<"unlimited">> /\ text # <<"off">> /\ text[1] = hz
            BY <1>3, RatesDiffer
        <2> QED BY <2>1 DEF ParseRateString, Meant
    <1> QED BY <1>1, <1>2, <1>3

LEMMA LoadedFollows == IInv => SavedIsLoaded
    <1> SUFFICES ASSUME IInv, saved # NotSaved, NEW d \in Dirs
                 PROVE  /\ MetFirst(ActiveFile(d), Switch) =>
                               LoadConfigFile(files[d]).enabled = (saved[Switch] = "1")
                        /\ MetFirst(ActiveFile(d), Rate) /\ ~Numberless(saved[Rate]) =>
                               LoadConfigFile(files[d]).rate = Meant(saved[Rate])
        BY DEF SavedIsLoaded
    <1> DEFINE file == ActiveFile(d)
    <1>1. saved \in FormVariables /\ Carries(file, saved)
        BY DEF IInv, SavedInv, ActiveFile, Places
    <1>2. /\ LoadConfigFile(files[d]).enabled
                = (ParseIntString(ExtractJsonString(file, Switch)) # 0)
          /\ LoadConfigFile(files[d]).rate
                = ParseRateString(ExtractJsonString(file, Rate))
        BY DEF LoadConfigFile, ActiveFile
    <1>3. saved[Switch] \in {"0", "1"} /\ saved[Rate] \in RateTexts
        BY <1>1, FormVariablesType
    <1> HIDE DEF file
    <1>4. ASSUME MetFirst(file, Switch)
          PROVE  LoadConfigFile(files[d]).enabled = (saved[Switch] = "1")
        <2>1. ExtractJsonString(file, Switch) = saved[Switch]
            BY <1>1, <1>4, CarriedIsExtracted
        <2>2. LoadConfigFile(files[d]).enabled = (ParseIntString(saved[Switch]) # 0)
            BY <1>2, <2>1
        <2>3. (ParseIntString(saved[Switch]) # 0) = (saved[Switch] = "1")
            BY <1>3 DEF ParseIntString
        <2> QED BY <2>2, <2>3
    <1>5. ASSUME MetFirst(file, Rate), ~Numberless(saved[Rate])
          PROVE  LoadConfigFile(files[d]).rate = Meant(saved[Rate])
        <2>1. ExtractJsonString(file, Rate) = saved[Rate]
            BY <1>1, <1>5, CarriedIsExtracted
        <2>2. ParseRateString(saved[Rate]) = Meant(saved[Rate])
            BY <1>3, <1>5, MeantRate
        <2> QED BY <1>2, <2>1, <2>2
    <1> QED BY <1>4, <1>5 DEF file

(* After write_plugin_json_variables succeeded for all games the plugin of    *)
(* each loads what the form said, where it meets its own section first.      *)
THEOREM SavedReachesThePlugin == Spec => []SavedIsLoaded
    BY Invariant, LoadedFollows, PTL

LEMMA ShownFollows == IInv => SavedIsShown
    <1> SUFFICES ASSUME IInv, ~touched, saved # NotSaved
                 PROVE  /\ ReadForm(form) = saved
                        /\ ConfigRows(overview).variables = saved
        BY DEF SavedIsShown
    <1>1. /\ ReadForm(form) = saved
          /\ \A key \in {Switch, Rate} : overview.active[key] = saved[key]
        BY DEF IInv, ShownInv
    <1>2. saved = [key \in {Switch, Rate} |-> saved[key]]
        BY FormVariablesType DEF IInv, SavedInv
    <1>3. ConfigRows(overview).variables = [key \in {Switch, Rate} |-> overview.active[key]]
        BY DEF ConfigRows
    <1> QED BY <1>1, <1>2, <1>3

(* What action_save_config reported as saved is what the form and the table   *)
(* show until the form is edited.                                            *)
THEOREM SavedReachesTheForm == Spec => []SavedIsShown
    BY Invariant, ShownFollows, PTL

LEMMA OthersFollowInv == IInv => OthersKept
    BY DEF IInv, OthersInv, OthersKept, SameOthers, OthersOf

(* write_plugin_json_variables and configure_game_json keep other plugins'    *)
(* sections and the host, in every file that was never torn.                 *)
THEOREM OtherPluginsAreSafe == Spec => []OthersKept
    BY Invariant, OthersFollowInv, PTL

=============================================================================
