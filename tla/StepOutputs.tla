------------------------------ MODULE StepOutputs ----------------------------
(***************************************************************************)
(* How a workflow hands a string of the request from one step to the next: *)
(* echo "name=$value" >> "$GITHUB_OUTPUT".  The file is read line by line, *)
(* so a value of several lines assigns to other names as well, and of      *)
(* several assignments to one name the last counts.  selfservice-validate  *)
(* and selfservice-admit-and-run write the strings of the request this     *)
(* way without looking at them; selfservice-autodispatch looks first.      *)
(*                                                                         *)
(* A line the runner cannot read as an assignment fails the step, which is *)
(* a fault of the workflow's model.  What a shell makes of a string put    *)
(* into its command line is not modelled.                                  *)
(***************************************************************************)
EXTENDS Validator

CONSTANTS
    Strings,    \* what may be echoed, and read back
    Lines       \* Lines[s]: the first line of s and what its further lines assign

ASSUME NoStringAssumption == None \notin Strings

\* The outputs a later step reads.
OutputNames == {"path", "repository", "commit"}

Assignments == UNION {[names -> Strings] : names \in SUBSET OutputNames}

ASSUME LinesAssumption ==
    Lines \in [Strings -> [first : Strings, more : Assignments]]

IsOneLine(s) == Lines[s].first = s /\ DOMAIN Lines[s].more = {}

\* What the schema's patterns admit is one line.
ASSUME PatternsAssumption ==
    \A s \in ObjectIds \cup RepositoryNames : s \in Strings /\ IsOneLine(s)

ASSUME PinsAssumption ==
    \A raw \in Raw : Parse[raw].readable =>
        Parse[raw].repository \in Strings /\ Parse[raw].commit \in Strings

PinIsOneLine(raw) ==
    Parse[raw].readable =>
        IsOneLine(Parse[raw].repository) /\ IsOneLine(Parse[raw].commit)

\* The assignments of one output file, the later ones last.
Then(earlier, later) ==
    [n \in DOMAIN earlier \cup DOMAIN later |->
        IF n \in DOMAIN later THEN later[n] ELSE earlier[n]]

\* echo "name=$s" >> "$GITHUB_OUTPUT"
Echo(name, s) == Then([n \in {name} |-> Lines[s].first], Lines[s].more)
=============================================================================
