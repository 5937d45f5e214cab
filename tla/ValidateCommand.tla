--------------------------- MODULE ValidateCommand ---------------------------
(***************************************************************************)
(* One run of `python3 -m selfservice.validate_request`, by a workflow or  *)
(* by hand as REPRODUCTION.md describes: the request, the two optional     *)
(* roots and an optional --receipt file.                                   *)
(***************************************************************************)
EXTENDS Validator, Integers

CONSTANT Roots      \* the trees --source-root and --entrypoint-root may name

ASSUME RootsAssumption ==
    \A root \in Roots : \A path \in DOMAIN root :
        root[path] # None =>
            root[path] = [inside |-> root[path].inside, sha256 |-> root[path].sha256]
            /\ root[path].inside \in BOOLEAN

VARIABLES
    raw, source_root, entrypoint_root,  \* the arguments
    receipt,                            \* what validate() returned
    receipt_file,                       \* what --receipt holds
    exit                                \* the exit code, None while running

vars == <<raw, source_root, entrypoint_root, receipt, receipt_file, exit>>

TypeOK ==
    /\ raw \in Raw
    /\ source_root \in Roots \cup {None}
    /\ entrypoint_root \in Roots \cup {None}
    /\ receipt \in Receipts \cup {None}
    /\ receipt_file \in Receipts \cup {None}
    /\ exit \in {None, 0, 1}

Init ==
    /\ raw \in Raw
    /\ source_root \in Roots \cup {None}
    /\ entrypoint_root \in Roots \cup {None}
    /\ receipt = None
    /\ receipt_file = None
    /\ exit = None

\* Mutant: a refusal takes the exit code of a usage error.
RefuseAsUsageError ==
    /\ exit = None
    /\ Validate(raw, source_root, entrypoint_root) = None
    /\ exit' = 2
    /\ UNCHANGED <<raw, source_root, entrypoint_root, receipt, receipt_file>>

\* Refused was raised: a reason on stdout, no receipt file, exit 1.
Refuse ==
    /\ exit = None
    /\ Validate(raw, source_root, entrypoint_root) = None
    /\ exit' = 1
    /\ UNCHANGED <<raw, source_root, entrypoint_root, receipt, receipt_file>>

\* The receipt is written whatever its outcome; only VALIDATED exits 0.
Emit ==
    /\ exit = None
    /\ Validate(raw, source_root, entrypoint_root) # None
    /\ receipt' = Validate(raw, source_root, entrypoint_root)
    /\ receipt_file' \in {None, receipt'}
    /\ exit' = IF Validated(receipt') THEN 0 ELSE 1
    /\ UNCHANGED <<raw, source_root, entrypoint_root>>

\* The process has exited.
Exited == exit # None /\ UNCHANGED vars

Next == Refuse \/ Emit \/ Exited

Spec == Init /\ [][Next]_vars

-----------------------------------------------------------------------------
(***************************************************************************)
(* What a submitter and the admission side take exit 0 to mean, written    *)
(* without the validator's own intermediate verdicts.                      *)
(***************************************************************************)
MayBeConsidered ==
    LET q == Parse[raw] IN
    /\ q.readable /\ q.structure_ok
    /\ q.repository \in RepositoryNames /\ q.commit \in ObjectIds
    /\ q.closed
    /\ q.requires_secret = FALSE /\ q.wildcards_permitted = FALSE /\ q.research_mode = FALSE
    /\ q.requested_paths # {} /\ q.cases # {}
    /\ source_root # None
    /\ \A a \in PinnedArtifacts(q) :
          /\ IsFile(source_root, a.path)
          /\ source_root[a.path] = [inside |-> TRUE, sha256 |-> a.sha256]
    /\ entrypoint_root # None => IsFile(entrypoint_root, q.entrypoint)

(***************************************************************************)
(* The command succeeds for exactly the requests that may be considered    *)
(* for admission: no branch of validate() lets one through whose pins were *)
(* not compared, and none turns a conforming one away.                     *)
(***************************************************************************)
ExitZeroIffMayBeConsidered == exit # None => (exit = 0 <=> MayBeConsidered)

(***************************************************************************)
(* outcome and routine are computed by two separate expressions, and       *)
(* request_within_envelope demands both: they must never disagree, or a    *)
(* VALIDATED request could not be admitted (or the reverse).               *)
(***************************************************************************)
RoutineIffValidated ==
    receipt # None => (receipt.routine <=> receipt.outcome = "VALIDATED")

(***************************************************************************)
(* A request is sent to design review only when its bytes are otherwise    *)
(* sound: every pinned artifact was compared and matched.  The order of    *)
(* the branches in validate() is what makes this so.                       *)
(***************************************************************************)
ReviewedRequestsAreSound ==
    (receipt # None /\ receipt.outcome = "REQUIRES_DESIGN_REVIEW")
        => /\ source_root # None
           /\ \A a \in PinnedArtifacts(Parse[raw]) : ArtifactVerifies(a, source_root)

(***************************************************************************)
(* "the validator says so rather than passing a check it did not perform"  *)
(* (docstring of _artifact_digests_verify): a receipt that reports the     *)
(* artifact digests verified describes artifacts that match their pins.    *)
(***************************************************************************)
ChecksReportedWerePerformed ==
    (receipt # None /\ receipt.checks.artifacts_digest_verified)
        => \A a \in PinnedArtifacts(Parse[raw]) : ArtifactVerifies(a, source_root)
=============================================================================
