--------------------------- MODULE DisclosureScan ---------------------------
(***************************************************************************)
(* tools/disclosure_scan.py, one file at a time.  What the patterns of a   *)
(* family match in a text is given; what the code decides is which of the  *)
(* matches are findings, for the settings its command line comes to.       *)
(***************************************************************************)
CONSTANTS
    Files,      \* paths under the staging root
    Contents,   \* contents of a regular file
    Decodable,  \* those that are UTF-8 text
    Values,     \* what a match is looked up by: a name, an id, a word
    Matches,    \* content |-> what is matched in it
    STRATEGIC_KEYWORDS,
    PUBLIC_REPOSITORIES

ALL_FAMILIES ==
    {"secret", "personal-or-local-path", "protected-value", "private-identity",
     "unattributed-commit-identity", "strategic-review-trigger", "undecodable"}

UNCONDITIONAL_FAMILIES == {"secret", "personal-or-local-path", "undecodable"}

Marks == [family : ALL_FAMILIES, what : Values]

\* What a reviewer wrote down: <<path, rule>> to let pass, object ids to know.
Allowlists == [exceptions : SUBSET (Values \X Values), ids : SUBSET Values]

ASSUME ScanAssumption ==
    /\ Decodable \subseteq Contents
    /\ Files \subseteq Values
    /\ Matches \in [Decodable -> SUBSET Marks]

(***************************************************************************)
(* main: the allowlist, the --public-pin options, the protected values,    *)
(* --families, --exclusions and the digests of the strategic triggers.     *)
(***************************************************************************)
Settings(allowlist, pins, protected, families, excluded, digests) ==
    [exceptions |-> allowlist.exceptions,
     known |-> pins \cup allowlist.ids,
     protected |-> protected,
     families |-> families,
     excluded |-> excluded,
     triggers |-> STRATEGIC_KEYWORDS \cup digests]

\* A match that is not let pass.
IsFinding(path, mark, scan) ==
    /\ mark.family \in scan.families
    /\ CASE mark.family = "protected-value" -> mark.what \in scan.protected
         [] mark.family = "private-identity" -> mark.what \notin PUBLIC_REPOSITORIES
         [] mark.family = "unattributed-commit-identity" -> mark.what \notin scan.known
         [] mark.family = "strategic-review-trigger" ->
               mark.what \in scan.triggers /\ <<path, mark.what>> \notin scan.exceptions
         [] OTHER -> TRUE

\* What is found in one file.  Anything that cannot be read as text is a finding.
Findings(path, content, scan) ==
    IF path \in scan.excluded THEN {}
    ELSE IF content \in Decodable THEN {m \in Matches[content] : IsFinding(path, m, scan)}
    ELSE {[family |-> "undecodable", what |-> path]} \cap [family : scan.families, what : Values]

IsClean(path, content, scan) == Findings(path, content, scan) = {}
=============================================================================
