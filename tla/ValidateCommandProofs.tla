------------------------ MODULE ValidateCommandProofs ------------------------
(***************************************************************************)
(* The validator's verdicts, for every set of requests and of trees.       *)
(***************************************************************************)
EXTENDS ValidateCommand, TLAPS

\* The verdicts on a document, as validate() puts them together.
LEMMA ReceiptOf ==
    ASSUME NEW r \in Raw, NEW s, NEW e, Validate(r, s, e) # None
    PROVE  LET q == Parse[r]
               checks == Verdict(q, s, e)
           IN  /\ q.readable
               /\ Validate(r, s, e).checks = checks
               /\ Validate(r, s, e).outcome = Outcome(q, checks, DigestProblems(q, s))
               /\ Validate(r, s, e).routine = Routine(q, checks)
BY DEF Validate

\* A document that can be read gets a receipt, and a well-formed one.
LEMMA ReceiptTyped ==
    ASSUME NEW r \in Raw, NEW s, NEW e
    PROVE  Validate(r, s, e) \in IF Parse[r].readable THEN Receipts ELSE {None}
<1> DEFINE checks == Verdict(Parse[r], s, e)
<1>1. checks \in Checks
  BY ParseAssumption DEF Verdict, Checks, SchemaConforms, IsFile
<1>2. Routine(Parse[r], checks) \in BOOLEAN
  BY DEF Routine
<1>3. \A problems : Outcome(Parse[r], checks, problems) \in Outcomes
  BY DEF Outcome, Outcomes
<1> QED
  BY <1>1, <1>2, <1>3 DEF Validate, Receipts, Digests, Sha256

\* All checks at once, in terms of the document and the trees.
LEMMA AllChecks ==
    ASSUME NEW q, NEW s, NEW e
    PROVE  (\A c \in DOMAIN Verdict(q, s, e) : Verdict(q, s, e)[c])
             <=> /\ SchemaConforms(q)
                 /\ e # None => IsFile(e, q.entrypoint)
                 /\ s # None /\ DigestProblems(q, s) = {}
<1> DEFINE v == Verdict(q, s, e)
<1>1. DOMAIN v = {"schema_conformance", "counterparty_commit_resolves", "entrypoint_present",
                  "artifacts_digest_verified", "publication_paths_exact",
                  "no_secret_required", "closed_dependency_posture"}
  BY DEF Verdict
<1>2. /\ v.schema_conformance = SchemaConforms(q)
      /\ v.counterparty_commit_resolves = (q.commit \in ObjectIds)
      /\ v.entrypoint_present = (e # None => IsFile(e, q.entrypoint))
      /\ v.artifacts_digest_verified = (s # None /\ DigestProblems(q, s) = {})
      /\ v.publication_paths_exact = (q.wildcards_permitted = FALSE)
      /\ v.no_secret_required = (q.requires_secret = FALSE)
      /\ v.closed_dependency_posture = q.closed
  BY DEF Verdict
<1> HIDE DEF v
<1>3. SchemaConforms(q) => /\ q.commit \in ObjectIds /\ q.closed
                           /\ q.wildcards_permitted = FALSE /\ q.requires_secret = FALSE
  BY DEF SchemaConforms
<1>4. (\A c \in DOMAIN v : v[c])
         <=> /\ v.schema_conformance /\ v.counterparty_commit_resolves /\ v.entrypoint_present
             /\ v.artifacts_digest_verified /\ v.publication_paths_exact
             /\ v.no_secret_required /\ v.closed_dependency_posture
  BY <1>1
<1>5. (\A c \in DOMAIN v : v[c])
         <=> /\ SchemaConforms(q) /\ (e # None => IsFile(e, q.entrypoint))
             /\ s # None /\ DigestProblems(q, s) = {}
  BY <1>2, <1>3, <1>4
<1> QED
  BY <1>5 DEF v

\* The two verdicts on a document that can be read are one and the same.
Sound(q, s, e) ==
    /\ SchemaConforms(q)
    /\ e # None => IsFile(e, q.entrypoint)
    /\ s # None /\ DigestProblems(q, s) = {}
    /\ q.research_mode = FALSE

LEMMA VerdictsAgree ==
    ASSUME NEW r \in Raw, NEW s, NEW e, Validate(r, s, e) # None
    PROVE  /\ Validate(r, s, e).routine = Sound(Parse[r], s, e)
           /\ Validate(r, s, e).outcome = "VALIDATED" <=> Sound(Parse[r], s, e)
<1> DEFINE q == Parse[r]
           v == Verdict(q, s, e)
<1>1. Validate(r, s, e).routine = Routine(q, v)
  BY ReceiptOf
<1>2. Validate(r, s, e).outcome = Outcome(q, v, DigestProblems(q, s))
  BY ReceiptOf
<1>3. Routine(q, v) = Sound(q, s, e)
  BY AllChecks DEF Routine, Sound
<1>4. /\ v.schema_conformance = SchemaConforms(q)
      /\ v.counterparty_commit_resolves = (q.commit \in ObjectIds)
      /\ v.entrypoint_present = (e # None => IsFile(e, q.entrypoint))
      /\ v.artifacts_digest_verified = (s # None /\ DigestProblems(q, s) = {})
      /\ v.no_secret_required = (q.requires_secret = FALSE)
      /\ v.closed_dependency_posture = q.closed
  BY DEF Verdict
<1> HIDE DEF v
<1>5. SchemaConforms(q) => /\ q.commit \in ObjectIds /\ q.closed /\ q.requires_secret = FALSE
                           /\ q.structure_ok
  BY DEF SchemaConforms
<1>6. SchemaConforms(q) => q.research_mode \in BOOLEAN
  BY <1>5, ModeAssumption
<1>7. Outcome(q, v, DigestProblems(q, s)) = "VALIDATED" <=> Sound(q, s, e)
  BY <1>4, <1>5, <1>6 DEF Outcome, Failed, NeedsDesign, Sound
<1> QED
  BY <1>1, <1>2, <1>3, <1>7

(***************************************************************************)
(* The command's state is what validate() says of its arguments.           *)
(***************************************************************************)
Verdicts ==
    LET result == Validate(raw, source_root, entrypoint_root)
    IN  /\ receipt # None => receipt = result
        /\ exit # None => (exit = 0 <=> Validated(result))

LEMMA Inductive == Spec => [](TypeOK /\ Verdicts)
<1>1. Init => TypeOK /\ Verdicts
  BY DEF Init, TypeOK, Verdicts
<1>2. TypeOK /\ Verdicts /\ [Next]_vars => (TypeOK /\ Verdicts)'
  <2> SUFFICES ASSUME TypeOK, Verdicts, [Next]_vars PROVE (TypeOK /\ Verdicts)'
    OBVIOUS
  <2> USE DEF TypeOK, Verdicts
  <2>1. Validate(raw, source_root, entrypoint_root) \in Receipts \cup {None}
    BY ReceiptTyped
  <2>2. CASE Refuse
    BY <2>2 DEF Refuse, Validated
  <2>3. CASE Emit
    BY <2>1, <2>3 DEF Emit
  <2>4. CASE UNCHANGED vars
    BY <2>4 DEF vars
  <2> QED
    BY <2>2, <2>3, <2>4 DEF Next, Exited
<1> QED
  BY <1>1, <1>2, PTL DEF Spec

-----------------------------------------------------------------------------
\* Types: every receipt the command writes is well formed.
THEOREM TypeCorrect == Spec => []TypeOK
BY Inductive, PTL

(***************************************************************************)
(* outcome and routine never disagree, on any request and any tree.        *)
(***************************************************************************)
THEOREM VerdictsNeverDisagree == Spec => []RoutineIffValidated
<1>1. TypeOK /\ Verdicts => RoutineIffValidated
  BY VerdictsAgree DEF TypeOK, Verdicts, RoutineIffValidated
<1> QED
  BY <1>1, Inductive, PTL

(***************************************************************************)
(* A request is sent to design review only after its artifacts were        *)
(* compared with their pins, and matched.                                  *)
(***************************************************************************)
THEOREM ReviewComesAfterTheDigests == Spec => []ReviewedRequestsAreSound
<1> DEFINE q == Parse[raw]
           v == Verdict(q, source_root, entrypoint_root)
<1>1. ASSUME TypeOK, Verdicts, receipt # None, receipt.outcome = "REQUIRES_DESIGN_REVIEW"
      PROVE  DigestProblems(q, source_root) = {} /\ SchemaConforms(q)
  <2>1. Outcome(q, v, DigestProblems(q, source_root)) = "REQUIRES_DESIGN_REVIEW"
    BY <1>1, ReceiptOf DEF TypeOK, Verdicts
  <2>2. ~Failed(v, DigestProblems(q, source_root))
    BY <2>1 DEF Outcome
  <2> QED
    BY <2>2 DEF Failed, Verdict
<1>2. TypeOK /\ Verdicts => ReviewedRequestsAreSound
  BY <1>1 DEF ReviewedRequestsAreSound, DigestProblems, ArtifactProblems, PinnedArtifacts
<1> QED
  BY <1>2, Inductive, PTL

(***************************************************************************)
(* How far ChecksReportedWerePerformed fails, and no further: a receipt    *)
(* that also reports the schema satisfied was written after the artifacts  *)
(* had been compared, and they match.                                      *)
(***************************************************************************)
ReportedAfterTheSchema ==
    (/\ receipt # None
     /\ receipt.checks.schema_conformance
     /\ receipt.checks.artifacts_digest_verified)
        => /\ source_root # None
           /\ \A a \in PinnedArtifacts(Parse[raw]) : ArtifactVerifies(a, source_root)

THEOREM ConformingReportsAreTrue == Spec => []ReportedAfterTheSchema
<1> DEFINE q == Parse[raw]
           v == Verdict(q, source_root, entrypoint_root)
<1>1. ASSUME TypeOK, Verdicts, receipt # None,
             receipt.checks.schema_conformance, receipt.checks.artifacts_digest_verified
      PROVE  source_root # None /\ ArtifactProblems(q, source_root) = {}
  <2>1. receipt.checks = v
    BY <1>1, ReceiptOf DEF TypeOK, Verdicts
  <2>2. v.schema_conformance = SchemaConforms(q)
    BY DEF Verdict
  <2>3. v.artifacts_digest_verified =
            (source_root # None /\ DigestProblems(q, source_root) = {})
    BY DEF Verdict
  <2>4. SchemaConforms(q) /\ source_root # None /\ DigestProblems(q, source_root) = {}
    BY <1>1, <2>1, <2>2, <2>3
  <2> QED
    BY <2>4 DEF DigestProblems
<1>2. TypeOK /\ Verdicts => ReportedAfterTheSchema
  BY <1>1 DEF ReportedAfterTheSchema, ArtifactProblems
<1> QED
  BY <1>2, Inductive, PTL

(***************************************************************************)
(* Exit 0 is exactly what may be considered for admission: nothing more,   *)
(* nothing less.                                                           *)
(***************************************************************************)
THEOREM ExitZeroIsExact == Spec => []ExitZeroIffMayBeConsidered
<1> DEFINE q == Parse[raw]
           result == Validate(raw, source_root, entrypoint_root)
<1>1. ASSUME TypeOK, Verdicts, exit # None
      PROVE  exit = 0 <=> q.readable /\ Sound(q, source_root, entrypoint_root)
  <2>1. exit = 0 <=> result # None /\ result.outcome = "VALIDATED"
    BY <1>1 DEF Verdicts, Validated
  <2>2. result # None => (result.outcome = "VALIDATED" <=> Sound(q, source_root, entrypoint_root))
    BY <1>1, VerdictsAgree DEF TypeOK
  <2>3. result # None => q.readable
    BY DEF Validate
  <2>4. result \in Receipts \/ ~q.readable
    BY <1>1, ReceiptTyped DEF TypeOK
  <2>5. result # None <=> q.readable
    BY <2>3, <2>4, NoReceiptAssumption
  <2> QED
    BY <2>1, <2>2, <2>3, <2>5
<1>2. ASSUME TypeOK
      PROVE  MayBeConsidered <=> q.readable /\ Sound(q, source_root, entrypoint_root)
  <2>1. ASSUME source_root # None, NEW a \in PinnedArtifacts(q)
        PROVE  ArtifactVerifies(a, source_root)
                 <=> /\ IsFile(source_root, a.path)
                     /\ source_root[a.path] = [inside |-> TRUE, sha256 |-> a.sha256]
    <3> DEFINE f == source_root[a.path]
    <3>1. IsFile(source_root, a.path)
            => f = [inside |-> f.inside, sha256 |-> f.sha256] /\ f.inside \in BOOLEAN
      BY <1>2, <2>1, RootsAssumption DEF TypeOK, IsFile
    <3>2. ASSUME f = [inside |-> f.inside, sha256 |-> f.sha256], f.inside \in BOOLEAN
          PROVE  f.inside /\ f.sha256 = a.sha256 <=> f = [inside |-> TRUE, sha256 |-> a.sha256]
      <4>1. f = [inside |-> TRUE, sha256 |-> a.sha256] => f.inside = TRUE /\ f.sha256 = a.sha256
        OBVIOUS
      <4> HIDE DEF f
      <4>2. f.inside <=> f.inside = TRUE
        BY <3>2
      <4>3. f.inside = TRUE /\ f.sha256 = a.sha256 => f = [inside |-> TRUE, sha256 |-> a.sha256]
        BY <3>2
      <4> QED
        BY <4>1, <4>2, <4>3
    <3> QED
      BY <3>1, <3>2 DEF ArtifactVerifies
  <2>2. source_root # None /\ SchemaConforms(q) =>
          (DigestProblems(q, source_root) = {}
             <=> \A a \in PinnedArtifacts(q) : ArtifactVerifies(a, source_root))
    BY DEF DigestProblems, ArtifactProblems
  <2> QED
    BY <2>1, <2>2 DEF MayBeConsidered, Sound, SchemaConforms
<1>3. TypeOK /\ Verdicts => ExitZeroIffMayBeConsidered
  BY <1>1, <1>2 DEF ExitZeroIffMayBeConsidered
<1> QED
  BY <1>3, Inductive, PTL
=============================================================================
