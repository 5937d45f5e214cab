-------------------------- MODULE OneRunPerRequest ---------------------------
(***************************************************************************)
(* What the self-service contour promises of a request identity, with no   *)
(* tickets, ledgers or workflows: it is spent at most once, for good; at   *)
(* most one run holds the grant that spending it gave; and only the holder *)
(* may run, once.  A grant may be lost, but is never given again.          *)
(***************************************************************************)
CONSTANTS Runs,     \* workflow runs
          Ids,      \* request identities
          Nobody    \* no identity

VARIABLES spent,    \* the identities spent
          grant,    \* the identity a run may still execute for
          ran       \* <<run, identity>>: the executions started

vars == <<spent, grant, ran>>

TypeOK ==
    /\ spent \subseteq Ids
    /\ grant \in [Runs -> Ids \cup {Nobody}]
    /\ ran \subseteq Runs \X Ids

Init ==
    /\ spent = {}
    /\ grant = [r \in Runs |-> Nobody]
    /\ ran = {}

\* The identity is spent and run r holds the grant.
Grant(r, id) ==
    /\ id \notin spent
    /\ grant[r] = Nobody
    /\ spent' = spent \cup {id}
    /\ grant' = [grant EXCEPT ![r] = id]
    /\ UNCHANGED ran

\* The identity is spent and the run that spent it never learns so.
Burn(id) ==
    /\ id \notin spent
    /\ spent' = spent \cup {id}
    /\ UNCHANGED <<grant, ran>>

\* The holder of a grant ends without using it.
Forfeit(r) ==
    /\ grant[r] # Nobody
    /\ grant' = [grant EXCEPT ![r] = Nobody]
    /\ UNCHANGED <<spent, ran>>

\* The holder executes the counterparty, which uses up the grant.
Run(r) ==
    /\ grant[r] # Nobody
    /\ ran' = ran \cup {<<r, grant[r]>>}
    /\ grant' = [grant EXCEPT ![r] = Nobody]
    /\ UNCHANGED spent

Next ==
    \/ \E r \in Runs : Forfeit(r) \/ Run(r)
    \/ \E id \in Ids : Burn(id) \/ \E r \in Runs : Grant(r, id)

Spec == Init /\ [][Next]_vars

-----------------------------------------------------------------------------
(***************************************************************************)
(* No identity is executed by two runs: what "a one-run ticket" promises.  *)
(***************************************************************************)
AtMostOneRun ==
    \A x, y \in ran : x[2] = y[2] => x = y
=============================================================================
