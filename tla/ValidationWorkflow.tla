-------------------------- MODULE ValidationWorkflow -------------------------
(***************************************************************************)
(* One run of .github/workflows/selfservice-validate.yml: the unprivileged *)
(* half of the self-service contour.  It is started by hand on a named     *)
(* path, or by a pull request that touches selfservice/requests/; it       *)
(* decides which request is meant, fetches the source that request pins,   *)
(* runs the validator and, when every step succeeded, uploads the receipt  *)
(* with the request bytes.                                                 *)
(*                                                                         *)
(* Dispatch takes the whole run as one step, ValidationSucceeds or         *)
(* ValidationFails: ValidationRun, which this workflow implements, is what *)
(* it takes for granted.                                                   *)
(***************************************************************************)
EXTENDS StepOutputs

CONSTANTS
    Paths,      \* paths of the workspace where a request may lie
    RequestPaths,   \* those under selfservice/requests/
    Faults      \* SUBSET {"step_fails"}: whether a step may fail on its own

ASSUME FaultsAssumption == Faults \subseteq {"step_fails"}

\* A path git or a dispatch names is written to the outputs as it is.
ASSUME PathsAssumption ==
    /\ IsFiniteSet(Paths)
    /\ RequestPaths \subseteq Paths
    /\ \A p \in Paths : p \in Strings /\ IsOneLine(p)

VARIABLES
    trigger,    \* "workflow_dispatch" or "pull_request"
    input,      \* inputs.request: a path, or None on a pull request
    diff,       \* per path, its status in git diff base..head, "-" when unchanged
    files,      \* the requests that lie at the paths
    pc,
    outputs,    \* steps.req.outputs; None before they are written, and a None
                \* repository and commit for a file that does not decode
    tree,       \* what was checked out under counterparty/
    receipt,    \* build/RECEIPT.json
    request,    \* build/REQUEST.json
    artifact    \* the uploaded validation-receipt artifact

submission == <<trigger, input, diff, files>>
vars == <<submission, pc, outputs, tree, receipt, request, artifact>>

TypeOK ==
    /\ trigger \in {"workflow_dispatch", "pull_request"}
    /\ input \in Paths \cup {None}
    /\ diff \in [RequestPaths -> {"-", "A", "M", "D", "R"}]
    /\ files \in [Paths -> Raw \cup {None}]
    /\ pc \in {"resolve", "fetch", "validate", "carry", "upload", "success", "failure", "stopped"}
    /\ outputs \in [OutputNames -> Strings \cup {None}] \cup {None}
    /\ tree \in SourceTrees \cup {None}
    /\ receipt \in Receipts \cup {None}
    /\ request \in Raw \cup {None}
    /\ artifact \in Artifacts \cup {None}

(***************************************************************************)
(* Added, modified and renamed paths exist in the checkout, deleted ones   *)
(* do not.  The paths filter starts the workflow only for a pull request   *)
(* that touches at least one of them.                                      *)
(***************************************************************************)
Submissions ==
    /\ trigger \in {"workflow_dispatch", "pull_request"}
    /\ input \in IF trigger = "pull_request" THEN {None} ELSE Paths
    /\ diff \in [RequestPaths -> {"-", "A", "M", "D", "R"}]
    /\ files \in [Paths -> Raw \cup {None}]
    /\ \A p \in RequestPaths : /\ diff[p] \in {"A", "M", "R"} => files[p] # None
                               /\ diff[p] = "D" => files[p] = None
    /\ trigger = "pull_request" <=> \E p \in RequestPaths : diff[p] # "-"

Init ==
    /\ Submissions
    /\ pc = "resolve"
    /\ outputs = None
    /\ tree = None
    /\ receipt = None
    /\ request = None
    /\ artifact = None

\* git diff --name-only --diff-filter=AM
ChangedRequests == {p \in RequestPaths : diff[p] \in {"A", "M"}}

\* Mutant: a submission that changes no request falls back to some other one.
CandidatesOrDefault ==
    IF input # None THEN {input}
    ELSE IF ChangedRequests # {} THEN ChangedRequests
    ELSE {CHOOSE p \in RequestPaths : TRUE}

\* Mutant: the diff is not filtered, so a deletion counts as a request.
CandidatesOfAnyStatus ==
    IF input # None THEN {input} ELSE {p \in RequestPaths : diff[p] # "-"}

(***************************************************************************)
(* "Resolve the request under validation": the named input, or the one     *)
(* request the submission changes; zero or several fail.                   *)
(***************************************************************************)
Candidates == IF input # None THEN {input} ELSE ChangedRequests

(***************************************************************************)
(* Path, commit and repository in the order they are echoed, none of the   *)
(* request's strings looked at first.  Of a file that does not decode the  *)
(* pin comes out empty: the failing command is inside an echo.             *)
(***************************************************************************)
Outputs(path) ==
    LET q == Parse[files[path]]
        named == [n \in OutputNames |-> IF n = "path" THEN path ELSE None]
    IN  IF q.readable
        THEN Then(named, Then(Echo("commit", q.commit), Echo("repository", q.repository)))
        ELSE named

Resolve ==
    /\ pc = "resolve"
    /\ \/ /\ Cardinality(Candidates) = 1
          /\ \E path \in Candidates :
                IF files[path] # None
                THEN outputs' = Outputs(path) /\ pc' = "fetch"
                ELSE pc' = "failure" /\ UNCHANGED outputs
       \/ /\ Cardinality(Candidates) # 1
          /\ pc' = "failure"
          /\ UNCHANGED outputs
    /\ UNCHANGED <<submission, tree, receipt, request, artifact>>

\* Mutant: the source is checked out without its pin.
FetchSourceAnyCommit ==
    /\ pc = "fetch"
    /\ tree' \in SourceTrees \cup {None}
    /\ pc' = IF tree' = None THEN "failure" ELSE "validate"
    /\ UNCHANGED <<submission, outputs, receipt, request, artifact>>

(***************************************************************************)
(* "Fetch the pinned counterparty source": the repository and commit of    *)
(* the outputs.  Where they are empty the checkout is left to its own      *)
(* defaults.                                                               *)
(***************************************************************************)
FetchSource ==
    /\ pc = "fetch"
    /\ tree' \in IF outputs.commit # None
                 THEN {Source(outputs.repository, outputs.commit)}
                 ELSE SourceTrees \cup {None}
    /\ pc' = IF tree' = None THEN "failure" ELSE "validate"
    /\ UNCHANGED <<submission, outputs, receipt, request, artifact>>

\* The request at the path of the outputs, wherever that path came from.
Found == IF outputs.path \in Paths THEN files[outputs.path] ELSE None

ReceiptOf(raw) == IF raw # None THEN Validate(raw, tree, tree) ELSE None

\* Mutant: the step goes on whatever the command's exit code.
ValidateRequestAnyExit ==
    /\ pc = "validate"
    /\ receipt' = ReceiptOf(Found)
    /\ pc' = IF receipt' # None THEN "carry" ELSE "failure"
    /\ UNCHANGED <<submission, outputs, tree, request, artifact>>

\* "Validate and emit the receipt": the command exits 0 only for VALIDATED.
ValidateRequest ==
    /\ pc = "validate"
    /\ receipt' = ReceiptOf(Found)
    /\ pc' = IF Validated(receipt') THEN "carry" ELSE "failure"
    /\ UNCHANGED <<submission, outputs, tree, request, artifact>>

\* "Carry the exact request bytes alongside the receipt"
CarryRequest ==
    /\ pc = "carry"
    /\ request' = Found
    /\ pc' = "upload"
    /\ UNCHANGED <<submission, outputs, tree, receipt, artifact>>

\* Mutant: build/RECEIPT.json alone is uploaded.
UploadReceiptAlone ==
    /\ pc = "upload"
    /\ artifact' = [receipt |-> receipt]
    /\ pc' = "success"
    /\ UNCHANGED <<submission, outputs, tree, receipt, request>>

\* "Upload the validation receipt"
UploadReceipt ==
    /\ pc = "upload"
    /\ artifact' = [request |-> request, receipt |-> receipt]
    /\ pc' = "success"
    /\ UNCHANGED <<submission, outputs, tree, receipt, request>>

\* A step fails for a reason of its own: the network, the runner, the timeout.
\* The run concludes failure as well; `stopped` tells the two apart.
StepFails ==
    /\ "step_fails" \in Faults
    /\ pc \notin {"success", "failure", "stopped"}
    /\ pc' = "stopped"
    /\ UNCHANGED <<submission, outputs, tree, receipt, request, artifact>>

Step == Resolve \/ FetchSource \/ ValidateRequest \/ CarryRequest \/ UploadReceipt

Completed == pc \in {"success", "failure", "stopped"} /\ UNCHANGED vars

Next == Step \/ StepFails \/ Completed

\* The runner executes the steps of a job one after the other, each bounded
\* by timeout-minutes.
Spec == Init /\ [][Next]_vars /\ WF_vars(Step)

-----------------------------------------------------------------------------
(***************************************************************************)
(* The artifact is about the request that was meant: the path named by     *)
(* hand, or the one request the pull request adds or modifies, in the very *)
(* bytes it carries; receipt and request in it belong together.  A         *)
(* fallback to a default path answered for another request (the defect     *)
(* recorded above "Resolve the request under validation").                 *)
(*                                                                         *)
(* A request whose repository or commit is several lines can name another  *)
(* path for the steps after Resolve: then what is uploaded may be another  *)
(* request.  Every conforming request's are one line.                      *)
(***************************************************************************)
UploadedIsWhatWasSubmitted ==
    artifact # None =>
        /\ artifact.receipt.request_sha256 = Sha256(artifact.request)
        /\ \E p \in Paths :
              /\ IF trigger = "pull_request" THEN ChangedRequests = {p} ELSE p = input
              /\ files[p] # None
              /\ PinIsOneLine(files[p]) => artifact.request = files[p]

\* The repository and the commit of what was submitted are one line each.
PlainlySubmitted ==
    \A p \in Candidates : files[p] # None /\ PinIsOneLine(files[p])

(***************************************************************************)
(* What leaves the workflow is a VALIDATED receipt, and for a submission   *)
(* whose pin is one line the receipt the validator gives for those bytes   *)
(* at their pin: no run that failed midway leaves an artifact, and none    *)
(* that succeeded looked at another tree.                                  *)
(***************************************************************************)
UploadedOnlyWhenValidated ==
    artifact # None =>
        /\ pc = "success"
        /\ Validated(artifact.receipt)
        /\ PlainlySubmitted => artifact.receipt = HostedReceipt(artifact.request)

(***************************************************************************)
(* A pull request whose one added or modified request conforms gets its    *)
(* artifact, unless a step fails by itself, whatever else (deletions,      *)
(* renames) the pull request does under selfservice/requests/.             *)
(***************************************************************************)
OneConformingRequestChanged ==
    /\ trigger = "pull_request"
    /\ \E p \in RequestPaths : ChangedRequests = {p} /\ Validated(HostedReceipt(files[p]))

ConformingSubmissionIsUploaded ==
    OneConformingRequestChanged ~> (artifact # None \/ pc = "stopped")

-----------------------------------------------------------------------------
(***************************************************************************)
(* ValidationWorkflow implements ValidationRun, the run as the event       *)
(* workflow_run shows it: nothing until it completes, then a conclusion,   *)
(* and with success an artifact: a request some source tree satisfies, and *)
(* the validator's own receipt for it.                                     *)
(***************************************************************************)
Record ==
    CASE pc = "success" -> [conclusion |-> "success", artifact |-> artifact]
      [] pc \in {"failure", "stopped"} -> [conclusion |-> "failure", artifact |-> None]
      [] OTHER -> None

AsOneStep ==
    INSTANCE ValidationRun WITH Uploads <- ValidatedArtifacts, record <- Record

ImplementsValidationRun == AsOneStep!Spec
=============================================================================
