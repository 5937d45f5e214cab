------------------------------ MODULE Validator ------------------------------
(***************************************************************************)
(* The unprivileged validator: selfservice/impl/selfservice/               *)
(* validate_request.py, with the schema INTEROP-REQUEST.schema.json it     *)
(* applies and the primitives of model.py.  Everything here is a pure      *)
(* function of a request's bytes and of the source tree it is checked      *)
(* against; the state machines that call it are ValidateCommand,           *)
(* ValidationWorkflow and Dispatch.                                        *)
(*                                                                         *)
(* A request file is an element of Raw, standing for its exact bytes, and  *)
(* Parse gives the document the bytes decode to.  Two elements of Raw may  *)
(* decode to the same document: they are still two requests, because the   *)
(* identity of a request is the digest of its bytes.                       *)
(***************************************************************************)
EXTENDS FiniteSets

CONSTANTS
    Raw,        \* request files, each an exact byte string
    Parse,      \* Parse[raw]: the document the bytes decode to
    ObjectIds,  \* the commit names that are full 40-hex object ids
    RepositoryNames,    \* the repository names that are owner/name
    SourceAt,   \* SourceAt[repository][commit]: the pilot-source tree at that
                \* commit, or None when it cannot be checked out
    None        \* what is absent

\* `closed` is computed from three comparisons, hence a Boolean.
ASSUME ParseAssumption == \A raw \in Raw : Parse[raw].closed \in BOOLEAN

\* A required Boolean of the schema.
ASSUME ModeAssumption ==
    \A raw \in Raw : Parse[raw].structure_ok => Parse[raw].research_mode \in BOOLEAN

(***************************************************************************)
(* sha256_bytes, collision-free.  The argument is whatever the bytes       *)
(* encode: a request file, a receipt, a ticket.                            *)
(***************************************************************************)
Sha256(bytes) == <<"sha256", bytes>>

Digests(S) == {"sha256"} \X S

Outcomes == {"VALIDATED", "VALIDATION_FAILED", "REQUIRES_DESIGN_REVIEW",
             "REQUIRES_DISCLOSURE_REVIEW", "BLOCKED_BY_GENERIC_CAPABILITY_GAP"}

Checks ==
    [schema_conformance: BOOLEAN, counterparty_commit_resolves: BOOLEAN,
     entrypoint_present: BOOLEAN, artifacts_digest_verified: BOOLEAN,
     publication_paths_exact: BOOLEAN, no_secret_required: BOOLEAN,
     closed_dependency_posture: BOOLEAN]

Receipts ==
    [request_sha256: Digests(Raw), privileged: {FALSE},
     secrets_available: {FALSE}, checks: Checks,
     outcome: Outcomes, routine: BOOLEAN]

ASSUME NoReceiptAssumption == None \notin Receipts

\* The validation-receipt artifact a successful validation run uploads.
Artifacts == [request: Raw, receipt: Receipts]

(***************************************************************************)
(* What Draft202012Validator reports no error for.  structure_ok stands    *)
(* for the clauses nothing else here looks at: required members, no        *)
(* additional ones, string patterns and lengths, safe relative paths.  The *)
(* one line break that a pattern's $ tolerates at the end of a string is   *)
(* left out: every shell that echoes the string drops it.                  *)
(***************************************************************************)
SchemaConforms(q) ==
    /\ q.structure_ok
    /\ q.repository \in RepositoryNames
    /\ q.commit \in ObjectIds
    /\ q.cases # {}
    /\ q.requested_paths # {}
    /\ q.requires_secret = FALSE
    /\ q.closed
    /\ q.wildcards_permitted = FALSE

PinnedArtifacts(q) ==
    {q.native_output_schema, q.expectations, q.comparison_policy} \cup q.cases

(***************************************************************************)
(* A tree maps a path to None or to the file found there: where it         *)
(* resolves to (inside the tree or not, after following links) and the     *)
(* digest of its bytes.                                                    *)
(***************************************************************************)
IsFile(tree, path) == path \in DOMAIN tree /\ tree[path] # None

\* Mutant: the path is not required to resolve inside the tree.
ArtifactVerifiesAnywhere(a, tree) ==
    IsFile(tree, a.path) /\ tree[a.path].sha256 = a.sha256

ArtifactVerifies(a, tree) ==
    /\ IsFile(tree, a.path)
    /\ tree[a.path].inside
    /\ tree[a.path].sha256 = a.sha256

(***************************************************************************)
(* The pinned artifacts _artifact_digests_verify reports a problem for.    *)
(* Without a source root it reports every one of them.                     *)
(***************************************************************************)
ArtifactProblems(q, source_root) ==
    {a \in PinnedArtifacts(q) :
        source_root = None \/ ~ArtifactVerifies(a, source_root)}

\* The digests are compared only when the schema reports nothing.
DigestProblems(q, source_root) ==
    IF SchemaConforms(q) THEN ArtifactProblems(q, source_root) ELSE {}

\* The checks of a receipt; a root is None when its option is not given.
Verdict(q, source_root, entrypoint_root) ==
    [schema_conformance |-> SchemaConforms(q),
     counterparty_commit_resolves |-> q.commit \in ObjectIds,
     entrypoint_present |->
        entrypoint_root # None => IsFile(entrypoint_root, q.entrypoint),
     artifacts_digest_verified |->
        source_root # None /\ DigestProblems(q, source_root) = {},
     publication_paths_exact |-> q.wildcards_permitted = FALSE,
     no_secret_required |-> q.requires_secret = FALSE,
     closed_dependency_posture |-> q.closed]

\* Mutant: the submitter's research_mode is not looked at.
RoutineWhateverMode(q, checks) == \A c \in DOMAIN checks : checks[c]

\* "This is the authoritative call": every check passed, no research mode.
Routine(q, checks) ==
    /\ \A c \in DOMAIN checks : checks[c]
    /\ q.research_mode = FALSE

Failed(checks, problems) ==
    \/ ~checks.schema_conformance \/ ~checks.counterparty_commit_resolves
    \/ ~checks.entrypoint_present \/ problems # {}

NeedsDesign(q, checks) ==
    \/ q.research_mode
    \/ ~(checks.closed_dependency_posture /\ checks.no_secret_required)

\* Mutant: research mode and dependencies are looked at first.
OutcomeDesignFirst(q, checks, problems) ==
    IF NeedsDesign(q, checks) THEN "REQUIRES_DESIGN_REVIEW"
    ELSE IF Failed(checks, problems) THEN "VALIDATION_FAILED"
    ELSE "VALIDATED"

\* The first branch that applies, in the order the code tries them.
Outcome(q, checks, problems) ==
    IF Failed(checks, problems) THEN "VALIDATION_FAILED"
    ELSE IF NeedsDesign(q, checks) THEN "REQUIRES_DESIGN_REVIEW"
    ELSE IF ~checks.artifacts_digest_verified THEN "VALIDATION_FAILED"
    ELSE "VALIDATED"

(***************************************************************************)
(* validate(): the receipt, or None when the file is refused before it is  *)
(* looked at (not a regular file, unreadable, implausibly large) or is not *)
(* the JSON object the code takes it for, which ends the command too.      *)
(***************************************************************************)
Validate(raw, source_root, entrypoint_root) ==
    LET q == Parse[raw]
        checks == Verdict(q, source_root, entrypoint_root)
    IN  IF q.readable
        THEN [request_sha256 |-> Sha256(raw), privileged |-> FALSE,
              secrets_available |-> FALSE, checks |-> checks,
              outcome |-> Outcome(q, checks, DigestProblems(q, source_root)),
              routine |-> Routine(q, checks)]
        ELSE None

\* What a checkout of a repository at a commit finds; None when it fails.
Source(repository, commit) ==
    IF repository \in DOMAIN SourceAt /\ commit \in DOMAIN SourceAt[repository]
    THEN SourceAt[repository][commit] ELSE None

SourceTrees ==
    (UNION {{SourceAt[r][c] : c \in DOMAIN SourceAt[r]} : r \in DOMAIN SourceAt}) \ {None}

\* Mutant: the checkout stays at the repository's default commit.
SourceOfDefault(q) ==
    LET commits == SourceAt[q.repository] IN
    commits[CHOOSE c \in DOMAIN commits : commits[c] # None]

(***************************************************************************)
(* The validator as both workflows mean to run it: the source is checked   *)
(* out at the pin the request declares, and serves as both roots.  None    *)
(* also when that checkout fails, for then no receipt is written either.   *)
(***************************************************************************)
SourceOf(q) == Source(q.repository, q.commit)

HostedReceipt(raw) ==
    IF Parse[raw].readable /\ SourceOf(Parse[raw]) # None
    THEN Validate(raw, SourceOf(Parse[raw]), SourceOf(Parse[raw]))
    ELSE None

Validated(receipt) == receipt # None /\ receipt.outcome = "VALIDATED"

(***************************************************************************)
(* What a successful run of the validation workflow leaves: a request's    *)
(* bytes and the receipt this validator gives for them against some source *)
(* tree.  Which tree is ValidationWorkflow's business.                     *)
(***************************************************************************)
ValidatedArtifacts ==
    UNION {{[request |-> raw, receipt |-> Validate(raw, tree, tree)] :
                raw \in {x \in Raw : Validated(Validate(x, tree, tree))}} :
           tree \in SourceTrees}
=============================================================================
