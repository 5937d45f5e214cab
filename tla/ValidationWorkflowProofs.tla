----------------------- MODULE ValidationWorkflowProofs ----------------------
(***************************************************************************)
(* What the validation workflow uploads, for every set of paths, requests  *)
(* and sources and every submission.                                       *)
(***************************************************************************)
EXTENDS ValidationWorkflow, FiniteSetTheorems, TLAPS

LEMMA ReceiptTyped ==
    ASSUME NEW raw \in Raw, NEW s, NEW e
    PROVE  Validate(raw, s, e) \in Receipts \cup {None}
<1> DEFINE checks == Verdict(Parse[raw], s, e)
<1>1. checks \in Checks
  BY ParseAssumption DEF Verdict, Checks, SchemaConforms, IsFile
<1>2. Routine(Parse[raw], checks) \in BOOLEAN
  BY DEF Routine
<1>3. \A problems : Outcome(Parse[raw], checks, problems) \in Outcomes
  BY DEF Outcome, Outcomes
<1> QED
  BY <1>1, <1>2, <1>3 DEF Validate, Receipts, Digests, Sha256

LEMMA ReceiptOfTyped ==
    ASSUME NEW raw \in Raw \cup {None}
    PROVE  ReceiptOf(raw) \in Receipts \cup {None}
BY ReceiptTyped DEF ReceiptOf

\* A checkout that succeeds finds one of the source trees.
LEMMA SourceIsATree ==
    ASSUME NEW repository, NEW commit, Source(repository, commit) # None
    PROVE  Source(repository, commit) \in SourceTrees
<1>1. repository \in DOMAIN SourceAt /\ commit \in DOMAIN SourceAt[repository]
  BY DEF Source
<1>2. Source(repository, commit) = SourceAt[repository][commit]
  BY <1>1 DEF Source
<1>3. Source(repository, commit) \in {SourceAt[repository][c] : c \in DOMAIN SourceAt[repository]}
  BY <1>1, <1>2
<1>4. Source(repository, commit)
        \in UNION {{SourceAt[r][c] : c \in DOMAIN SourceAt[r]} : r \in DOMAIN SourceAt}
  BY <1>1, <1>3
<1> QED
  BY <1>4 DEF SourceTrees

LEMMA EchoAssigns ==
    ASSUME NEW name \in OutputNames, NEW s \in Strings
    PROVE  /\ DOMAIN Echo(name, s) = {name} \cup DOMAIN Lines[s].more
           /\ DOMAIN Echo(name, s) \subseteq OutputNames
           /\ \A n \in DOMAIN Echo(name, s) : Echo(name, s)[n] \in Strings
           /\ IsOneLine(s) => Echo(name, s)[name] = s
<1>1. Lines[s] \in [first : Strings, more : Assignments]
  BY LinesAssumption
<1>2. Lines[s].first \in Strings /\ Lines[s].more \in Assignments
  BY <1>1
<1>3. PICK names \in SUBSET OutputNames : Lines[s].more \in [names -> Strings]
  BY <1>2 DEF Assignments
<1> QED
  BY <1>2, <1>3 DEF Echo, Then, IsOneLine

(***************************************************************************)
(* The outputs of a request, and what a pin of one line leaves in them:    *)
(* the path that was resolved and the pin that was declared.               *)
(***************************************************************************)
LEMMA OutputsTyped ==
    ASSUME NEW path \in Paths, files[path] \in Raw
    PROVE  /\ Outputs(path) \in [OutputNames -> Strings \cup {None}]
           /\ PinIsOneLine(files[path]) =>
                 /\ Outputs(path).path = path
                 /\ Parse[files[path]].readable =>
                       /\ Outputs(path).commit = Parse[files[path]].commit
                       /\ Outputs(path).repository = Parse[files[path]].repository
<1> DEFINE q == Parse[files[path]]
           named == [n \in OutputNames |-> IF n = "path" THEN path ELSE None]
           commit == Echo("commit", q.commit)
           repository == Echo("repository", q.repository)
<1>0. path \in Strings /\ named \in [OutputNames -> Strings \cup {None}]
  BY PathsAssumption
<1>1. CASE ~q.readable
  <2>1. Outputs(path) = named
    BY <1>1 DEF Outputs
  <2> QED
    BY <1>0, <1>1, <2>1 DEF OutputNames
<1>2. CASE q.readable
  <2>1. q.repository \in Strings /\ q.commit \in Strings
    BY <1>2, PinsAssumption
  <2>2. /\ DOMAIN commit = {"commit"} \cup DOMAIN Lines[q.commit].more
        /\ DOMAIN commit \subseteq OutputNames
        /\ \A n \in DOMAIN commit : commit[n] \in Strings
        /\ IsOneLine(q.commit) => commit["commit"] = q.commit
    BY <2>1, EchoAssigns DEF OutputNames
  <2>3. /\ DOMAIN repository = {"repository"} \cup DOMAIN Lines[q.repository].more
        /\ DOMAIN repository \subseteq OutputNames
        /\ \A n \in DOMAIN repository : repository[n] \in Strings
        /\ IsOneLine(q.repository) => repository["repository"] = q.repository
    BY <2>1, EchoAssigns DEF OutputNames
  <2> HIDE DEF commit, repository
  <2>4. Outputs(path) = Then(named, Then(commit, repository))
    BY <1>2 DEF Outputs, commit, repository
  <2>5. Outputs(path) = [n \in OutputNames |->
                           IF n \in DOMAIN repository THEN repository[n]
                           ELSE IF n \in DOMAIN commit THEN commit[n] ELSE named[n]]
    BY <1>0, <2>2, <2>3, <2>4 DEF Then
  <2>6. Outputs(path) \in [OutputNames -> Strings \cup {None}]
    BY <1>0, <2>2, <2>3, <2>5
  <2>7. ASSUME IsOneLine(q.commit), IsOneLine(q.repository)
        PROVE  DOMAIN commit = {"commit"} /\ DOMAIN repository = {"repository"}
    BY <2>2, <2>3, <2>7 DEF IsOneLine
  <2> QED
    BY <1>2, <2>2, <2>3, <2>5, <2>6, <2>7 DEF PinIsOneLine, OutputNames
<1> QED
  BY <1>1, <1>2

\* What the steps done so far have established.
Resolved ==
    \E path \in Paths :
        /\ Candidates = {path} /\ files[path] \in Raw /\ files[path] # None
        /\ outputs = Outputs(path)

Fetched ==
    /\ tree # None
    /\ outputs.commit # None => tree = Source(outputs.repository, outputs.commit)

Decided == receipt = ReceiptOf(Found) /\ Validated(receipt)

Progress ==
    /\ Submissions
    /\ pc \in {"fetch", "validate", "carry", "upload", "success"} => Resolved
    /\ pc \in {"validate", "carry", "upload", "success"} => Fetched
    /\ pc \in {"carry", "upload", "success"} => Decided
    /\ pc \in {"upload", "success"} => request = Found
    /\ artifact # None =>
          pc = "success" /\ artifact = [request |-> request, receipt |-> receipt]

\* The facts of earlier steps say nothing of the variables of later ones.
LEMMA FactsStay ==
    ASSUME UNCHANGED <<submission, outputs>>
    PROVE  /\ Submissions' = Submissions
           /\ Resolved' = Resolved
           /\ Found' = Found
           /\ tree' = tree => Fetched' = Fetched
           /\ UNCHANGED <<tree, receipt>> => Decided' = Decided
<1> USE DEF submission
<1>1. Candidates' = Candidates /\ Found' = Found
  BY DEF Candidates, ChangedRequests, Found
<1>2. \A path : Outputs(path)' = Outputs(path)
  BY DEF Outputs
<1>3. tree' = tree => \A raw : ReceiptOf(raw)' = ReceiptOf(raw)
  BY DEF ReceiptOf
<1> QED
  BY <1>1, <1>2, <1>3 DEF Submissions, Resolved, Fetched, Decided

LEMMA FoundTyped == TypeOK => Found \in Raw \cup {None}
BY DEF TypeOK, Found

LEMMA ProgressKept == TypeOK /\ Progress /\ [Next]_vars => (TypeOK /\ Progress)'
<1> SUFFICES ASSUME TypeOK, Progress, [Next]_vars PROVE (TypeOK /\ Progress)'
  OBVIOUS
<1> USE DEF TypeOK, Progress
<1>1. CASE Resolve
  <2>0. /\ UNCHANGED <<submission, tree, receipt, request, artifact>>
        /\ pc = "resolve" /\ artifact = None
    BY <1>1 DEF Resolve
  <2>1. Candidates' = Candidates /\ Submissions' /\ \A path : Outputs(path)' = Outputs(path)
    BY <2>0 DEF Candidates, ChangedRequests, Submissions, submission, Outputs
  <2>2. ASSUME Cardinality(Candidates) = 1, NEW path \in Candidates,
               files[path] # None, outputs' = Outputs(path), pc' = "fetch"
        PROVE  (TypeOK /\ Progress)'
    <3>1. Candidates \subseteq Paths
      BY PathsAssumption DEF Candidates, ChangedRequests
    <3>2. IsFiniteSet(Candidates)
      BY <3>1, PathsAssumption, FS_Subset
    <3>3. \E x : Candidates = {x}
      BY <2>2, <3>2, FS_Singleton
    <3>4. Candidates = {path} /\ path \in Paths /\ files[path] \in Raw /\ files[path] # None
      BY <2>2, <3>1, <3>3
    <3>5. outputs' \in [OutputNames -> Strings \cup {None}]
      BY <2>2, <3>4, OutputsTyped
    <3>6. Resolved'
      BY <2>0, <2>1, <2>2, <3>4 DEF Resolved, submission
    <3> QED
      BY <2>0, <2>1, <2>2, <3>5, <3>6 DEF submission
  <2>3. CASE pc' = "failure" /\ UNCHANGED outputs
    BY <2>0, <2>1, <2>3 DEF submission
  <2> QED
    BY <1>1, <2>2, <2>3 DEF Resolve
<1>2. CASE FetchSource
  <2>0. UNCHANGED <<submission, outputs, receipt, request, artifact>> /\ Resolved
    BY <1>2 DEF FetchSource
  <2>1. tree' \in SourceTrees \cup {None}
    BY <1>2, SourceIsATree DEF FetchSource
  <2>2. pc' = "validate" => Fetched'
    BY <1>2 DEF FetchSource, Fetched
  <2>3. pc = "fetch" /\ pc' \in {"failure", "validate"}
    BY <1>2 DEF FetchSource
  <2> QED
    BY <2>0, <2>1, <2>2, <2>3, FactsStay DEF submission
<1>3. CASE ValidateRequest
  <2>0. UNCHANGED <<submission, outputs, tree, request, artifact>> /\ Resolved /\ Fetched
    BY <1>3 DEF ValidateRequest
  <2>1. receipt' \in Receipts \cup {None}
    BY <1>3, FoundTyped, ReceiptOfTyped DEF ValidateRequest
  <2>2. \A raw : ReceiptOf(raw)' = ReceiptOf(raw)
    BY <2>0 DEF ReceiptOf
  <2>3. pc' = "carry" => Decided'
    BY <1>3, <2>0, <2>2, FactsStay DEF ValidateRequest, Decided
  <2>4. pc = "validate" /\ pc' \in {"failure", "carry"}
    BY <1>3 DEF ValidateRequest
  <2> QED
    BY <2>0, <2>1, <2>3, <2>4, FactsStay DEF submission
<1>4. CASE CarryRequest
  <2>0. /\ UNCHANGED <<submission, outputs, tree, receipt, artifact>>
        /\ Resolved /\ Fetched /\ Decided /\ pc = "carry" /\ pc' = "upload"
    BY <1>4 DEF CarryRequest
  <2>1. request' = Found' /\ request' \in Raw \cup {None}
    BY <1>4, <2>0, FactsStay, FoundTyped DEF CarryRequest
  <2> QED
    BY <2>0, <2>1, FactsStay DEF submission
<1>5. CASE UploadReceipt
  <2>0. /\ UNCHANGED <<submission, outputs, tree, receipt, request>>
        /\ Resolved /\ Fetched /\ Decided /\ request = Found
        /\ pc = "upload" /\ pc' = "success"
        /\ artifact' = [request |-> request, receipt |-> receipt]
    BY <1>5 DEF UploadReceipt
  <2>1. receipt \in Receipts /\ request \in Raw
    BY <2>0 DEF Decided, ReceiptOf, Validated
  <2>2. artifact' \in Artifacts
    BY <2>0, <2>1 DEF Artifacts
  <2> QED
    BY <2>0, <2>2, FactsStay DEF submission
<1>6. CASE StepFails
  BY <1>6, FactsStay DEF StepFails, submission
<1>7. CASE UNCHANGED vars
  BY <1>7, FactsStay DEF vars, submission
<1> QED
  BY <1>1, <1>2, <1>3, <1>4, <1>5, <1>6, <1>7 DEF Next, Step, Completed

LEMMA Inductive == Spec => [](TypeOK /\ Progress)
<1>1. Init => TypeOK /\ Progress
  BY DEF Init, TypeOK, Progress, Submissions
<1> QED
  BY <1>1, ProgressKept, PTL DEF Spec

-----------------------------------------------------------------------------
\* Types, the uploaded artifact's among them.
THEOREM TypeCorrect == Spec => []TypeOK
BY Inductive, PTL

\* A successful run's facts, for the path it resolved.
LEMMA WhenUploaded ==
    ASSUME TypeOK, Progress, artifact # None
    PROVE  /\ pc = "success" /\ artifact = [request |-> Found, receipt |-> receipt]
           /\ Resolved /\ Fetched /\ Found \in Raw
           /\ receipt = Validate(Found, tree, tree) /\ Validated(receipt)
<1>1. /\ pc = "success" /\ artifact = [request |-> Found, receipt |-> receipt]
      /\ Resolved /\ Fetched /\ Decided
  BY DEF Progress
<1> QED
  BY <1>1, FoundTyped DEF Decided, ReceiptOf, Validated

(***************************************************************************)
(* The artifact answers for the request that was submitted, whatever else  *)
(* the submission adds, deletes or renames.                                *)
(***************************************************************************)
THEOREM UploadedWasSubmitted == Spec => []UploadedIsWhatWasSubmitted
<1>1. ASSUME TypeOK, Progress, artifact # None
      PROVE  /\ artifact.receipt.request_sha256 = Sha256(artifact.request)
             /\ \E p \in Paths :
                   /\ IF trigger = "pull_request" THEN ChangedRequests = {p} ELSE p = input
                   /\ files[p] # None
                   /\ PinIsOneLine(files[p]) => artifact.request = files[p]
  <2>1. artifact.receipt.request_sha256 = Sha256(artifact.request)
    BY <1>1, WhenUploaded DEF Validated, Validate
  <2>2. PICK path \in Paths : /\ Candidates = {path} /\ files[path] \in Raw
                              /\ files[path] # None /\ outputs = Outputs(path)
    BY <1>1, WhenUploaded DEF Resolved
  <2>3. input # None <=> trigger # "pull_request"
    BY <1>1, PathsAssumption, NoStringAssumption DEF Progress, Submissions
  <2>4. IF trigger = "pull_request" THEN ChangedRequests = {path} ELSE path = input
    BY <2>2, <2>3 DEF Candidates
  <2>5. PinIsOneLine(files[path]) => artifact.request = files[path]
    BY <1>1, <2>2, WhenUploaded, OutputsTyped DEF Found
  <2> QED
    BY <2>1, <2>2, <2>4, <2>5
<1>2. TypeOK /\ Progress => UploadedIsWhatWasSubmitted
  BY <1>1 DEF UploadedIsWhatWasSubmitted
<1> QED
  BY <1>2, Inductive, PTL

(***************************************************************************)
(* A run that succeeds leaves a VALIDATED receipt, any other run none; of  *)
(* a plain submission it is the hosted validator's, at the pin.            *)
(***************************************************************************)
THEOREM UploadedWasValidated == Spec => []UploadedOnlyWhenValidated
<1>1. ASSUME TypeOK, Progress, artifact # None, PlainlySubmitted
      PROVE  artifact.receipt = HostedReceipt(artifact.request)
  <2>1. PICK path \in Paths : /\ Candidates = {path} /\ files[path] \in Raw
                              /\ outputs = Outputs(path)
    BY <1>1, WhenUploaded DEF Resolved
  <2>2. PinIsOneLine(files[path])
    BY <1>1, <2>1 DEF PlainlySubmitted
  <2>3. Found = files[path]
    BY <2>1, <2>2, OutputsTyped DEF Found
  <2> DEFINE q == Parse[files[path]]
  <2>4. q.readable
    BY <1>1, <2>3, WhenUploaded DEF Validated, Validate
  <2>5. outputs.commit = q.commit /\ outputs.repository = q.repository
    BY <2>1, <2>2, <2>4, OutputsTyped
  <2>6. q.commit # None => tree = SourceOf(q)
    BY <1>1, <2>5, WhenUploaded DEF Fetched, SourceOf
  <2>7. q.commit \in Strings
    BY <2>1, <2>4, PinsAssumption
  <2> QED
    BY <1>1, <2>3, <2>4, <2>6, <2>7, NoStringAssumption, WhenUploaded DEF HostedReceipt, Fetched
<1>2. TypeOK /\ Progress => UploadedOnlyWhenValidated
  BY <1>1, WhenUploaded DEF UploadedOnlyWhenValidated
<1> QED
  BY <1>2, Inductive, PTL

-----------------------------------------------------------------------------
\* What is uploaded is an artifact of the abstract run.
LEMMA UploadSucceeds ==
    ASSUME TypeOK, Progress, UploadReceipt
    PROVE  AsOneStep!Succeed
<1>1. Fetched /\ Decided /\ request = Found
  BY DEF Progress, UploadReceipt
<1>2. /\ receipt = Validate(request, tree, tree) /\ Validated(receipt) /\ request \in Raw
      /\ tree \in SourceTrees
  BY <1>1, FoundTyped DEF Decided, ReceiptOf, Validated, Fetched, TypeOK
<1>3. [request |-> request, receipt |-> receipt] \in ValidatedArtifacts
  BY <1>2 DEF ValidatedArtifacts
<1>4. Record = None
  BY DEF UploadReceipt, Record
<1>5. Record' = [conclusion |-> "success", artifact |-> [request |-> request, receipt |-> receipt]]
  BY DEF UploadReceipt, Record
<1> QED
  BY <1>3, <1>4, <1>5 DEF AsOneStep!Succeed

LEMMA StepOfTheRun ==
    TypeOK /\ Progress /\ [Next]_vars => [AsOneStep!Succeed \/ AsOneStep!Fail]_Record
<1> SUFFICES ASSUME TypeOK, Progress, [Next]_vars
             PROVE  AsOneStep!Succeed \/ AsOneStep!Fail \/ UNCHANGED Record
  OBVIOUS
<1> DEFINE Open == {"resolve", "fetch", "validate", "carry", "upload"}
<1>1. ASSUME pc \in Open, pc' \in Open PROVE UNCHANGED Record
  BY <1>1 DEF Record
<1>2. ASSUME pc \in Open, pc' \in {"failure", "stopped"} PROVE AsOneStep!Fail
  BY <1>2 DEF Record, AsOneStep!Fail
<1>3. CASE Resolve \/ FetchSource \/ ValidateRequest \/ CarryRequest
  BY <1>1, <1>2, <1>3 DEF Resolve, FetchSource, ValidateRequest, CarryRequest
<1>4. CASE UploadReceipt
  BY <1>4, UploadSucceeds
<1>5. CASE StepFails
  BY <1>2, <1>5 DEF StepFails, TypeOK
<1>6. CASE UNCHANGED vars
  BY <1>6 DEF vars, Record
<1> QED
  BY <1>3, <1>4, <1>5, <1>6 DEF Next, Step, Completed

(***************************************************************************)
(* ValidationWorkflow implements ValidationRun, the run Dispatch reacts    *)
(* to: one conclusion, never revised, and success only with a VALIDATED    *)
(* artifact of the validator's own making.                                 *)
(***************************************************************************)
THEOREM CompletesAsOneStep == Spec => ImplementsValidationRun
<1>1. Init => AsOneStep!Init
  BY DEF Init, Record, AsOneStep!Init
<1> QED
  BY <1>1, Inductive, StepOfTheRun, PTL DEF Spec, ImplementsValidationRun, AsOneStep!Spec
=============================================================================
