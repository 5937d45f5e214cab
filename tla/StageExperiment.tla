--------------------------- MODULE StageExperiment ---------------------------
(***************************************************************************)
(* tools/stage_experiment.py: the declared inputs of an experiment are     *)
(* copied into the tooling checkout, and only those.  A directory is a     *)
(* function from the names in it to what is there: one of Contents, or     *)
(* Special for anything that is not a regular file.                        *)
(***************************************************************************)
EXTENDS Sequences, Naturals

CONSTANTS
    Declared,   \* DECLARED_INPUTS, in the order they are copied
    Names,      \* every name an experiment or tooling directory may hold
    Contents,   \* what a file may hold
    Json,       \* the contents that are readable JSON
    Special     \* a symlink or a subdirectory

ASSUME StageAssumption ==
    /\ Declared \in Seq(Names)
    /\ Json \subseteq Contents
    /\ Special \notin Contents

Directories == UNION {[S -> Contents \cup {Special}] : S \in SUBSET Names}

DeclaredNames == {Declared[i] : i \in DOMAIN Declared}

\* The exact list: nothing special, nothing undeclared, nothing missing.
IsExact(experiment) ==
    /\ \A f \in DOMAIN experiment : experiment[f] # Special
    /\ DOMAIN experiment = DeclaredNames

(***************************************************************************)
(* What is copied: each input is parsed before it is copied, and the first *)
(* that does not parse ends the loop with those before it in place.        *)
(***************************************************************************)
Copied(experiment) ==
    IF IsExact(experiment)
    THEN {Declared[i] : i \in {i \in DOMAIN Declared :
             \A j \in 1 .. i : experiment[Declared[j]] \in Json}}
    ELSE {}

\* Mutant: an input that does not parse is left out, and the rest is staged.
IsStagedInPart(experiment) == IsExact(experiment)

IsStaged(experiment) ==
    IsExact(experiment) /\ \A f \in DeclaredNames : experiment[f] \in Json

\* The files of `into' that are not copied over stay as they were.
Into(experiment, into) ==
    [f \in DOMAIN into \cup Copied(experiment) |->
        IF f \in Copied(experiment) THEN experiment[f] ELSE into[f]]
=============================================================================
