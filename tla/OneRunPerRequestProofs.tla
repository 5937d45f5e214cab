----------------------- MODULE OneRunPerRequestProofs ------------------------
(***************************************************************************)
(* The promise holds of its own specification, for any number of runs and  *)
(* identities: whatever implements OneRunPerRequest inherits it.           *)
(***************************************************************************)
EXTENDS OneRunPerRequest, TLAPS

\* What is granted or run is spent, and no two grants or runs share it.
GrantsAreSpent == \A r \in Runs : grant[r] # Nobody => grant[r] \in spent

RunsAreSpent == \A x \in ran : x[2] \in spent /\ x[2] # Nobody

GrantedOnce ==
    \A r, s \in Runs : (r # s /\ grant[r] # Nobody) => grant[r] # grant[s]

RanUsedUpItsGrant == \A x \in ran, r \in Runs : x[2] # grant[r]

Inv ==
    /\ TypeOK
    /\ GrantsAreSpent /\ RunsAreSpent /\ GrantedOnce /\ RanUsedUpItsGrant
    /\ AtMostOneRun

LEMMA InvInit == Init => Inv
BY DEF Init, Inv, TypeOK, GrantsAreSpent, RunsAreSpent, GrantedOnce,
       RanUsedUpItsGrant, AtMostOneRun

LEMMA InvNext == Inv /\ [Next]_vars => Inv'
<1> SUFFICES ASSUME Inv, [Next]_vars PROVE Inv'
  OBVIOUS
<1> USE DEF Inv, TypeOK, GrantsAreSpent, RunsAreSpent, GrantedOnce,
        RanUsedUpItsGrant, AtMostOneRun
<1>1. ASSUME NEW r \in Runs, NEW id \in Ids, Grant(r, id) PROVE Inv'
  BY <1>1 DEF Grant
<1>2. ASSUME NEW id \in Ids, Burn(id) PROVE Inv'
  BY <1>2 DEF Burn
<1>3. ASSUME NEW r \in Runs, Forfeit(r) PROVE Inv'
  BY <1>3 DEF Forfeit
<1>4. ASSUME NEW r \in Runs, Run(r) PROVE Inv'
  <2>1. grant[r] \in Ids /\ grant[r] \in spent
    BY <1>4 DEF Run
  <2>2. TypeOK' /\ GrantsAreSpent' /\ RunsAreSpent' /\ GrantedOnce'
    BY <1>4, <2>1 DEF Run
  <2>3. RanUsedUpItsGrant'
    <3>1. ASSUME NEW x \in ran', NEW s \in Runs PROVE x[2] # grant'[s]
      BY <1>4, <2>1, <3>1 DEF Run
    <3> QED
      BY <3>1
  <2>4. AtMostOneRun'
    BY <1>4, <2>1 DEF Run
  <2> QED
    BY <2>2, <2>3, <2>4
<1>5. CASE UNCHANGED vars
  BY <1>5 DEF vars
<1> QED
  BY <1>1, <1>2, <1>3, <1>4, <1>5 DEF Next

(***************************************************************************)
(* No identity is executed by two runs, for every set of runs and          *)
(* identities.                                                             *)
(***************************************************************************)
THEOREM OneRun == Spec => []AtMostOneRun
<1>1. Inv => AtMostOneRun
  BY DEF Inv
<1> QED
  BY <1>1, InvInit, InvNext, PTL DEF Spec
=============================================================================
