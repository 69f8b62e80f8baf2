----------------------------- MODULE Detection ------------------------------
(***************************************************************************)
(* Where the installer finds the games (install/steam.py): the libraries   *)
(* Steam's files name, and the directories of the games in them.           *)
(***************************************************************************)
EXTENDS Naturals, Sequences, SequencesExt

CONSTANTS
    VdfFiles,    \* Steam's library files, in the order they are looked for:
                 \*   each the sequence of the libraries it names
    Holds        \* pairs of a library and a game that is in it

(* All libraries, each once, in the order they are met.                      *)
Libraries ==
    LET named == FlattenSeq(VdfFiles)
    IN SelectSeq([i \in DOMAIN named |-> [place |-> i, library |-> named[i]]],
                 LAMBDA e : \A j \in 1 .. e.place - 1 : named[j] # e.library)

(* The games in their fixed order, the directories of each in the libraries'. *)
Detected(game) ==
    LET found == SelectSeq(Libraries, LAMBDA e : <<e.library, game>> \in Holds)
    IN [i \in DOMAIN found |-> <<game, found[i].library>>]

AllDetected == Detected("LMU") \o Detected("rF2")

=============================================================================
