---------------------------- MODULE ValidationRun ----------------------------
(***************************************************************************)
(* One run of the validation workflow as another workflow sees it, with no *)
(* steps: it has no record, then completes, once and for good, with an     *)
(* artifact or without.  This is the one thing the two halves of the       *)
(* self-service contour share, so it is stated once: ValidationWorkflow    *)
(* implements it in five steps, and Dispatch uses it as one.               *)
(***************************************************************************)
CONSTANTS
    Uploads,    \* the artifacts a successful run may leave
    None        \* no record; no artifact

VARIABLE record

Init == record = None

Succeed ==
    /\ record = None
    /\ \E artifact \in Uploads :
          record' = [conclusion |-> "success", artifact |-> artifact]

Fail ==
    /\ record = None
    /\ record' = [conclusion |-> "failure", artifact |-> None]

Spec == Init /\ [][Succeed \/ Fail]_record
=============================================================================
