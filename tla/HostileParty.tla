---------------------------- MODULE HostileParty ----------------------------
(***************************************************************************)
(* tools/hostile_party.py: the participant that stands in for an           *)
(* unfriendly counterparty.  It tries six reaches out of the domain it     *)
(* runs in and writes down what came of each.  A domain is what the        *)
(* process finds around it:                                                *)
(*                                                                         *)
(*   marker     "there" or "absent" from the region it sweeps, or None     *)
(*              when it was given no marker's name                         *)
(*   checkouts  the private checkouts next to its working directory        *)
(*   env        the variables outside its contract that have a value       *)
(*   staging    the publication tree it can write under one of the hinted  *)
(*              paths, a function from files to contents, or None          *)
(***************************************************************************)
EXTENDS TLAPS

CONSTANTS
    Json,       \* paths under the staging root that end in .json
    Extra,      \* HOSTILE-EXTRA.json
    Note,       \* what it writes there
    Tampered,   \* what it writes over an artifact
    None

Outcome(succeeded) == IF succeeded THEN "SUCCEEDED" ELSE "REFUSED"

\* D: drop a file into the publication tree ...
WithExtra(staging) ==
    IF staging = None THEN None
    ELSE [f \in DOMAIN staging \cup {Extra} |-> IF f = Extra THEN Note ELSE staging[f]]

\* ... E: rewrite a staged artifact, the first that can be written.
Targets(staging) == IF staging = None THEN {} ELSE DOMAIN staging \cap Json

WithTampered(staging) ==
    IF Targets(staging) = {} THEN {staging}
    ELSE {[staging EXCEPT ![f] = Tampered] : f \in Targets(staging)}

(***************************************************************************)
(* main: the attempts in their order, the fifth in the tree the fourth     *)
(* left behind.  F prints what C saw.                                      *)
(***************************************************************************)
Attempts(domain) ==
    [A |-> IF domain.marker = None THEN "NOT ATTEMPTED" ELSE Outcome(domain.marker = "there"),
     B |-> Outcome(domain.checkouts # {}),
     C |-> Outcome(domain.env # {}),
     D |-> Outcome(domain.staging # None),
     E |-> Outcome(Targets(WithExtra(domain.staging)) # {}),
     F |-> Outcome(domain.env # {})]

\* The publication trees it may leave behind.
Left(domain) == WithTampered(WithExtra(domain.staging))

-----------------------------------------------------------------------------
(***************************************************************************)
(* "The co-located control is breached" (test_hostile_counterparty.py):    *)
(* where a publication tree is in reach both D and E succeed, in an empty  *)
(* one too, since D gives E its file; and what is left is never the tree   *)
(* that was staged.  (None stands for no tree, and so is not one.)         *)
(***************************************************************************)
THEOREM CoLocatedIsBreached ==
    ASSUME NEW domain, domain.staging # None, Extra \notin DOMAIN domain.staging,
           WithExtra(domain.staging) # None, Extra \in Json
    PROVE  /\ Attempts(domain).D = "SUCCEEDED"
           /\ Attempts(domain).E = "SUCCEEDED"
           /\ domain.staging \notin Left(domain)
<1> DEFINE extra == WithExtra(domain.staging)
<1>1. DOMAIN extra = DOMAIN domain.staging \cup {Extra}
    BY DEF WithExtra
<1>2. Extra \in Targets(extra)
    BY <1>1 DEF Targets
<1>3. /\ Attempts(domain).D = "SUCCEEDED"
      /\ Attempts(domain).E = "SUCCEEDED"
    BY <1>2 DEF Attempts, Outcome
<1>4. \A left \in Left(domain) : Extra \in DOMAIN left
    BY <1>1, <1>2 DEF Left, WithTampered
<1>5. QED
    BY <1>3, <1>4
=============================================================================
