------------------------------- MODULE Routing -------------------------------
(***************************************************************************)
(* selfservice/routing.py: which service route a case takes.  A case is    *)
(* the set of facts that hold of it: a fact the case does not mention is   *)
(* read with .get(..., False), and so does not hold.                       *)
(***************************************************************************)
EXTENDS TLAPS

Routes == {"SELF_SERVICE", "ASSISTED_REVIEW", "JOINT_RESEARCH"}

Private == {"requires_private_material", "special_disclosure_conditions"}

Operational ==
    {"public_source", "exact_revision", "source_identity_admitted",
     "self_contained", "public_example_material"}

MappingIsOpen(case) ==
    \/ "semantic_mapping_is_the_question" \in case
    \/ "existing_mapping_known" \notin case

\* Every fact route() looks at.
Facts ==
    Private \cup Operational
        \cup {"semantic_mapping_is_the_question", "existing_mapping_known"}

Route(case) ==
    IF case \cap Private # {} THEN "ASSISTED_REVIEW"
    ELSE IF MappingIsOpen(case) THEN "JOINT_RESEARCH"
    ELSE IF Operational \subseteq case THEN "SELF_SERVICE"
    ELSE "ASSISTED_REVIEW"

-----------------------------------------------------------------------------
(***************************************************************************)
(* Every case has a route, and only the nine facts decide it: whatever     *)
(* else a submission says, a wish for a route included, changes nothing.   *)
(***************************************************************************)
THEOREM RouteFromTheFacts ==
    ASSUME NEW case
    PROVE  Route(case) \in Routes /\ Route(case) = Route(case \cap Facts)
BY DEF Route, Routes, MappingIsOpen, Facts, Private, Operational

(***************************************************************************)
(* The automatic path is taken exactly when all five operational facts     *)
(* hold, the mapping is known and not itself the question, and nothing     *)
(* private is needed.                                                      *)
(***************************************************************************)
THEOREM AutomaticNeedsEverything ==
    ASSUME NEW case
    PROVE  Route(case) = "SELF_SERVICE" <=>
               /\ Operational \subseteq case
               /\ ~MappingIsOpen(case)
               /\ case \cap Private = {}
BY DEF Route

(***************************************************************************)
(* Privacy first: adding a private fact to any case leads to review before *)
(* anything is shared, also when the case would be research otherwise.     *)
(***************************************************************************)
THEOREM PrivacyFirst ==
    ASSUME NEW case, NEW fact \in Private
    PROVE  Route(case \cup {fact}) = "ASSISTED_REVIEW"
BY DEF Route, Private

(***************************************************************************)
(* "An unusual operating condition is not a new scientific question":      *)
(* gaining or losing operational facts never moves a case into research,   *)
(* nor out of it.                                                          *)
(***************************************************************************)
THEOREM OperationalGapIsNotResearch ==
    ASSUME NEW case, NEW other, case \ Operational = other \ Operational
    PROVE  Route(case) = "JOINT_RESEARCH" <=> Route(other) = "JOINT_RESEARCH"
<1>1. /\ case \cap Private = other \cap Private
      /\ MappingIsOpen(case) <=> MappingIsOpen(other)
    BY DEF Private, Operational, MappingIsOpen
<1>2. QED
    BY <1>1 DEF Route
=============================================================================
