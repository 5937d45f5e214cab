--------------------------- MODULE DispatchProofs ----------------------------
(***************************************************************************)
(* Theorems about Dispatch, for every set of runs, requests, envelopes and *)
(* faults.                                                                 *)
(***************************************************************************)
EXTENDS DispatchInvariant, TLAPS

(***************************************************************************)
(* The validator writes a well-formed receipt or none.                     *)
(***************************************************************************)
LEMMA ValidateTyped ==
    ASSUME NEW raw \in Raw, NEW s, NEW e
    PROVE  Validate(raw, s, e) \in Receipts \cup {None}
<1> DEFINE checks == Verdict(Parse[raw], s, e)
<1>1. checks \in Checks
  BY ParseAssumption DEF Verdict, Checks, SchemaConforms, IsFile
<1>2. Routine(Parse[raw], checks) \in BOOLEAN
  BY DEF Routine
<1>3. \A problems : Outcome(Parse[raw], checks, problems) \in Outcomes
  BY DEF Outcome, Outcomes
<1> QED
  BY <1>1, <1>2, <1>3 DEF Validate, Receipts, Digests, Sha256

LEMMA HostedTyped ==
    ASSUME NEW raw \in Raw
    PROVE  HostedReceipt(raw) \in Receipts \cup {None}
BY ValidateTyped DEF HostedReceipt

LEMMA UploadsTyped == Uploads \subseteq Artifacts
<1>1. \A raw \in Raw : LenientReceipt(raw) \in Receipts
  BY DEF LenientReceipt, Receipts, Checks, Outcomes, Digests, Sha256
<1>2. ASSUME NEW artifact \in ValidatedArtifacts PROVE artifact \in Artifacts
  <2>1. PICK tree \in SourceTrees :
          artifact \in {[request |-> raw, receipt |-> Validate(raw, tree, tree)] :
                           raw \in {x \in Raw : Validated(Validate(x, tree, tree))}}
    BY DEF ValidatedArtifacts
  <2>2. PICK raw \in Raw : /\ Validated(Validate(raw, tree, tree))
                          /\ artifact = [request |-> raw, receipt |-> Validate(raw, tree, tree)]
    BY <2>1
  <2>3. Validate(raw, tree, tree) \in Receipts
    BY <2>2, ValidateTyped DEF Validated
  <2> QED
    BY <2>2, <2>3 DEF Artifacts
<1> QED
  BY <1>1, <1>2 DEF Uploads, Artifacts

(***************************************************************************)
(* The admitted pin is a string for the repository and one for the commit, *)
(* and the request's own when these are one line.                          *)
(***************************************************************************)
LEMMA EchoAssigns ==
    ASSUME NEW name \in OutputNames, NEW s \in Strings
    PROVE  /\ DOMAIN Echo(name, s) = {name} \cup DOMAIN Lines[s].more
           /\ Echo(name, s)[name] \in Strings
           /\ IsOneLine(s) => Echo(name, s)[name] = s
<1>1. Lines[s] \in [first : Strings, more : Assignments]
  BY LinesAssumption
<1>2. PICK names \in SUBSET OutputNames :
        Lines[s].first \in Strings /\ Lines[s].more \in [names -> Strings]
  BY <1>1 DEF Assignments
<1> QED
  BY <1>2 DEF Echo, Then, IsOneLine

LEMMA OneLinePinIsAdmitted ==
    ASSUME NEW raw \in Raw, Parse[raw].readable, PinIsOneLine(raw)
    PROVE  /\ AdmittedPin(raw).repository = Parse[raw].repository
           /\ AdmittedPin(raw).commit = Parse[raw].commit
<1> DEFINE q == Parse[raw]
           repository == Echo("repository", q.repository)
           commit == Echo("commit", q.commit)
<1>1. q.repository \in Strings /\ q.commit \in Strings
  BY PinsAssumption
<1>2. IsOneLine(q.repository) /\ IsOneLine(q.commit)
  BY DEF PinIsOneLine
<1>3. /\ DOMAIN repository = {"repository"} /\ repository["repository"] = q.repository
      /\ DOMAIN commit = {"commit"} /\ commit["commit"] = q.commit
  BY <1>1, <1>2, EchoAssigns DEF OutputNames, IsOneLine
<1> HIDE DEF repository, commit
<1>4. AdmittedPin(raw) = Then(repository, commit)
  BY DEF AdmittedPin, repository, commit
<1> QED
  BY <1>3, <1>4 DEF Then

\* The pin of a request the schema accepts is one line.
LEMMA ConformingPinIsOneLine ==
    ASSUME NEW raw, SchemaConforms(Parse[raw]) PROVE PinIsOneLine(raw)
BY PatternsAssumption DEF SchemaConforms, PinIsOneLine

(***************************************************************************)
(* A ticket and its ledger entry are well formed.                          *)
(***************************************************************************)
LEMMA TicketTyped ==
    ASSUME NEW id \in TicketIds \cup ({"SS-AUTO"} \X Digests(Raw)),
           NEW rec \in Receipts, NEW env \in EnvelopeDocs
    PROVE  Ticket(id, rec, env) \in Tickets
BY DEF Ticket, Tickets, Receipts, EnvelopeIds, Digests, Sha256

LEMMA EntryTyped ==
    ASSUME NEW t \in Tickets
    PROVE  Entry(t) \in Entries
BY DEF Entry, Entries, Tickets, Digests, Sha256

(***************************************************************************)
(* Every action keeps TInv.  Actions are grouped by what they touch; a     *)
(* step that leaves a part of the state alone leaves what TInv says of it. *)
(***************************************************************************)
LEMMA TInvInit == Init => TInv
<1> SUFFICES ASSUME Init PROVE TInv
  OBVIOUS
<1>1. Absent \in Stores(Entries)
  BY DEF Absent, Stores
<1>2. TypeOK
  BY <1>1, DispatchAssumption DEF Init, TypeOK, BlobSha
<1>3. ASSUME NEW r \in Runs PROVE Started(r) /\ Stocked(r)
  BY <1>3 DEF Init, Started, Stocked, Running, AfterCollect, AfterIssue
<1> QED
  BY <1>2, <1>3 DEF TInv

LEMMA TInvEnvironment ==
    ASSUME TInv, Environment PROVE TInv'
<1> USE DEF TInv
<1>1. CASE \E p \in Paths : MergeRequest(p)
  <2>1. TypeOK'
    BY <1>1 DEF MergeRequest, TypeOK, workspace
  <2>2. \A r \in Runs : Started(r)' /\ Stocked(r)'
    BY <1>1 DEF MergeRequest, workspace, Started, Stocked, Identity
  <2> QED BY <2>1, <2>2
<1>2. CASE \E e \in EnvelopePaths : MergeEnvelope(e)
  <2>1. TypeOK'
    BY <1>2 DEF MergeEnvelope, TypeOK, workspace
  <2>2. \A r \in Runs : Started(r)' /\ Stocked(r)'
    BY <1>2 DEF MergeEnvelope, workspace, Started, Stocked, Identity
  <2> QED BY <2>1, <2>2
<1>3. CASE \E v \in Validations : ValidationSucceeds(v)
  <2> PICK v \in Validations : ValidationSucceeds(v)
    BY <1>3
  <2> PICK artifact \in Uploads :
        validation' = [validation EXCEPT ![v] =
                          [conclusion |-> "success", artifact |-> artifact]]
    BY DEF ValidationSucceeds
  <2> USE DEF ValidationSucceeds
  <2>1. [conclusion |-> "success", artifact |-> artifact] \in ValidationRecords
    BY UploadsTyped DEF ValidationRecords
  <2>2. TypeOK'
    BY <2>1 DEF TypeOK, branch, workspace
  <2>3. \A r \in Runs : Started(r)' /\ Stocked(r)'
    BY DEF branch, workspace, Started, Stocked, Identity
  <2> QED BY <2>2, <2>3
<1>4. CASE \E v \in Validations : ValidationFails(v)
  <2>1. [conclusion |-> "failure", artifact |-> None] \in ValidationRecords
    BY DEF ValidationRecords
  <2>2. TypeOK'
    BY <1>4, <2>1 DEF ValidationFails, TypeOK, branch, workspace
  <2>3. \A r \in Runs : Started(r)' /\ Stocked(r)'
    BY <1>4 DEF ValidationFails, branch, workspace, Started, Stocked, Identity
  <2> QED BY <2>2, <2>3
<1> QED
  BY <1>1, <1>2, <1>3, <1>4 DEF Environment

LEMMA TInvTrigger ==
    ASSUME TInv, NEW r \in Runs, Trigger(r) PROVE TInv'
<1> USE DEF TInv
<1> PICK i \in Inputs :
        /\ i.kind = "manual" =>
              i.path \in Paths /\ i.ticket_id \in TicketIds /\ i.sha \in Shas
        /\ Enqueue(r, i)
  <2>1. CASE \E v \in Validations : TriggerAuto(r, v)
    BY <2>1, DispatchAssumption DEF TriggerAuto, Inputs
  <2>2. CASE \E v \in Validations, p \in Paths, e \in EnvelopePaths, id \in TicketIds :
                TriggerManual(r, v, p, e, id)
    <3>1. PICK v \in Validations, p \in Paths, e \in EnvelopePaths, id \in TicketIds :
            TriggerManual(r, v, p, e, id)
      BY <2>2
    <3> DEFINE sha == [request |-> files[p], envelope |-> envelopes[e]]
               i == [kind |-> "manual", validation |-> v, path |-> p,
                     envelope |-> e, ticket_id |-> id, sha |-> sha]
    <3>2. sha \in Shas
      BY DEF TypeOK, Shas
    <3> HIDE DEF sha
    <3>3. i \in Inputs /\ i.kind = "manual"
      BY <3>2 DEF Inputs
    <3> QED
      BY <3>1, <3>2, <3>3 DEF TriggerManual, sha
  <2> QED
    BY <2>1, <2>2 DEF Trigger
<1> USE DEF Enqueue
<1>1. TypeOK'
  <2>1. pc' \in [Runs -> {"idle", "queued"} \cup Running \cup Ended]
    BY DEF TypeOK, Ended
  <2> QED
    BY <2>1 DEF TypeOK, branch, workspace
<1>2. ASSUME NEW s \in Runs PROVE Started(s)' /\ Stocked(s)'
  <2>1. Started(s)'
    BY DEF Started, TypeOK
  <2>2. Stocked(s)'
    BY DEF Stocked, TypeOK, workspace, Identity, Running, AfterCollect, AfterIssue
  <2> QED
    BY <2>1, <2>2
<1> QED
  BY <1>1, <1>2

(***************************************************************************)
(* What collecting the artifact and issuing a ticket add to the workspace. *)
(***************************************************************************)
LEMMA ArtifactTyped ==
    ASSUME TypeOK, NEW r \in Runs, input[r] \in Inputs, ArtifactOf(r) # None
    PROVE  ArtifactOf(r) \in Artifacts
BY DEF ArtifactOf, TypeOK, Inputs, ValidationRecords

LEMMA TInvBegin ==
    ASSUME TInv, NEW r \in Runs, BeginAuto(r) \/ BeginManual(r) PROVE TInv'
<1> USE DEF TInv
<1>1. input[r] \in Inputs
  BY DEF BeginAuto, BeginManual, Started
<1>2. envelopes[input[r].envelope] \in EnvelopeDocs
  BY <1>1 DEF Inputs, TypeOK
<1>3. BeginManual(r) => /\ input[r].sha.request \in Raw \cup {None}
                        /\ input[r].sha.envelope \in EnvelopeDocs
  BY <1>1 DEF BeginManual, Started, Shas
<1>4. TypeOK'
  BY <1>2, <1>3 DEF BeginAuto, BeginManual, TypeOK, Goto, branch, Running, Ended
<1>5. ASSUME NEW s \in Runs PROVE Started(s)' /\ Stocked(s)'
  <2>1. Started(s)'
    BY DEF BeginAuto, BeginManual, Goto, Started, TypeOK
  <2>2. CASE s # r
    BY <2>1, <2>2 DEF BeginAuto, BeginManual, Goto, Stocked, TypeOK, Identity
  <2>3. CASE s = r
    BY <2>1, <2>3, <1>2, <1>3 DEF BeginAuto, BeginManual, Goto, Stocked, TypeOK,
                            Running, AfterCollect, AfterIssue
  <2> QED
    BY <2>2, <2>3
<1> QED
  BY <1>4, <1>5

LEMMA TInvReceipt ==
    ASSUME TInv, NEW r \in Runs, CollectArtifact(r) \/ Revalidate(r) PROVE TInv'
<1> USE DEF TInv
<1>1. input[r] \in Inputs /\ envelope[r] \in EnvelopeDocs
  BY DEF CollectArtifact, Revalidate, Started, Stocked, Running
<1>2. CASE CollectArtifact(r)
  <2>1. ArtifactOf(r) # None =>
            ArtifactOf(r).request \in Raw /\ ArtifactOf(r).receipt \in Receipts
    BY <1>1, ArtifactTyped DEF Artifacts
  <2>2. TypeOK'
    BY <1>2, <2>1 DEF CollectArtifact, TypeOK, Goto, branch, Running, Ended
  <2>3. ASSUME NEW s \in Runs PROVE Started(s)' /\ Stocked(s)'
    <3>1. Started(s)'
      BY <1>2 DEF CollectArtifact, Goto, Started, TypeOK
    <3>2. CASE s # r
      BY <1>2, <3>1, <3>2 DEF CollectArtifact, Goto, Stocked, TypeOK, Identity
    <3>3. CASE s = r
      BY <1>1, <1>2, <2>1, <3>1, <3>3 DEF CollectArtifact, Goto, Stocked, TypeOK,
                                     Running, AfterCollect, AfterIssue
    <3> QED
      BY <3>2, <3>3
  <2> QED
    BY <2>2, <2>3
<1>3. CASE Revalidate(r)
  <2>1. request[r] \in Raw
    BY <1>3 DEF Revalidate, Stocked, Running, AfterCollect
  <2>2. Validated(HostedReceipt(request[r])) => HostedReceipt(request[r]) \in Receipts
    BY <2>1, HostedTyped DEF Validated
  <2>3. TypeOK'
    BY <1>3, <2>2 DEF Revalidate, TypeOK, Goto, branch, Running, Ended
  <2>4. ASSUME NEW s \in Runs PROVE Started(s)' /\ Stocked(s)'
    <3>1. Started(s)'
      BY <1>3 DEF Revalidate, Goto, Started, TypeOK
    <3>2. CASE s # r
      BY <1>3, <3>1, <3>2 DEF Revalidate, Goto, Stocked, TypeOK, Identity
    <3>3. CASE s = r
      BY <1>1, <1>3, <2>1, <2>2, <3>1, <3>3 DEF Revalidate, Goto, Stocked, TypeOK,
                                     Running, AfterCollect, AfterIssue
    <3> QED
      BY <3>2, <3>3
  <2> QED
    BY <2>3, <2>4
<1> QED
  BY <1>2, <1>3

LEMMA TInvIssue ==
    ASSUME TInv, NEW r \in Runs, IssueTicket(r) PROVE TInv'
<1> USE DEF TInv
<1>1. /\ input[r] \in Inputs
      /\ envelope[r] \in EnvelopeDocs
      /\ receipt[r] \in Receipts
      /\ input[r].kind = "manual" => input[r].ticket_id \in TicketIds
      /\ input[r].kind = "auto" => request[r] \in Raw
  BY DEF IssueTicket, Started, Stocked, Running, AfterCollect
<1> DEFINE t == Ticket(TicketIdOf(r), receipt[r], envelope[r])
           granted == request[r] # None /\ MayIssue(request[r], receipt[r], envelope[r])
<1>2. granted => request[r] \in Raw
  BY DEF TypeOK
<1>3. granted => TicketIdOf(r) \in TicketIds \cup ({"SS-AUTO"} \X Digests(Raw))
  BY <1>1, <1>2 DEF TicketIdOf, AutoTicketId, Digests, Sha256, Inputs
<1>4. granted => t \in Tickets
  BY <1>1, <1>3, TicketTyped
<1>5. granted => t.request_sha256 = Identity(r)
  BY DEF MayIssue, Ticket, Identity
<1>6. TypeOK'
  BY <1>4 DEF IssueTicket, TypeOK, Goto, branch, Running, Ended
<1>7. ASSUME NEW s \in Runs PROVE Started(s)' /\ Stocked(s)'
  <2>1. Started(s)'
    BY DEF IssueTicket, Goto, Started, TypeOK
  <2>2. CASE s # r
    BY <2>1, <2>2 DEF IssueTicket, Goto, Stocked, TypeOK, Identity
  <2>3. CASE s = r /\ granted
    <3>1. ticket'[r] = t /\ request' = request /\ pc'[r] = "ticketed"
      BY <2>3 DEF IssueTicket, TypeOK, Goto
    <3>2. (ticket[r].request_sha256 = Identity(r))'
      BY <3>1, <2>3, <1>5 DEF Identity
    <3> HIDE DEF t, granted
    <3> QED
      BY <2>1, <2>3, <1>1, <1>2, <1>4, <3>1, <3>2
      DEF IssueTicket, Stocked, Running, AfterCollect, AfterIssue
  <2>4. CASE s = r /\ ~granted
    BY <2>1, <2>4 DEF IssueTicket, Goto, Stocked, TypeOK, Running, AfterCollect, AfterIssue
  <2> QED
    BY <2>2, <2>3, <2>4
<1> QED
  BY <1>6, <1>7

\* The list of a store, and what appending to it gives.
LEMMA StoreTyped ==
    ASSUME NEW store \in Stores(Entries)
    PROVE  store.consumed \in Seq(Entries)
<1>1. <<>> \in Seq(Entries)
  OBVIOUS
<1>2. CASE store \in [exists: {TRUE}, consumed: Seq(Entries)]
  BY <1>2
<1>3. CASE store \in [exists: {FALSE}, consumed: {<<>>}]
  BY <1>1, <1>3
<1> QED
  BY <1>2, <1>3 DEF Stores

LEMMA TInvLedger ==
    ASSUME TInv, NEW r \in Runs,
           FetchLedger(r) \/ SpendTicket(r) \/ CommitLedger(r) \/ ResponseLost(r)
    PROVE  TInv'
<1> USE DEF TInv
<1>1. ledger.consumed \in Seq(Entries)
  BY StoreTyped DEF TypeOK
<1>2. SpendTicket(r) => Append(local[r], Entry(ticket[r])) \in Seq(Entries)
  <2> HAVE SpendTicket(r)
  <2>1. ticket[r] \in Tickets /\ local[r] \in Seq(Entries)
    BY DEF SpendTicket, Stocked, TypeOK, Running, AfterCollect, AfterIssue
  <2> QED
    BY <2>1, EntryTyped
<1>3. Written(local[r]) \in Stores(Entries)
  BY DEF TypeOK, Written, Stores
<1>4. TypeOK'
  <2>1. CASE FetchLedger(r)
    BY <2>1, <1>1 DEF FetchLedger, Fetched, BlobSha, TypeOK, Goto, branch, Running, Ended
  <2>2. CASE SpendTicket(r)
    BY <2>2, <1>2 DEF SpendTicket, SpendVerdict, TypeOK, Goto, branch, Running, Ended
  <2>3. CASE CommitLedger(r) \/ ResponseLost(r)
    BY <2>3, <1>3 DEF CommitLedger, ResponseLost, TypeOK, Goto, branch, workspace, Running, Ended
  <2> QED
    BY <2>1, <2>2, <2>3
<1>5. ASSUME NEW s \in Runs PROVE Started(s)' /\ Stocked(s)'
  BY DEF FetchLedger, SpendTicket, SpendVerdict, CommitLedger, ResponseLost, Goto,
         workspace, Started, Stocked, TypeOK, Identity, Running, AfterCollect, AfterIssue
<1> QED
  BY <1>4, <1>5

LEMMA ExecutionTyped ==
    ASSUME NEW raw \in Raw, Runnable(raw),
           NEW native \in {None} \cup SUBSET {LabSchema, Parse[raw].native_output_schema.sha256}
    PROVE  [repository |-> AdmittedPin(raw).repository, commit |-> AdmittedPin(raw).commit,
            program |-> "runner/run.py", native |-> native] \in Executions
<1> DEFINE pin == AdmittedPin(raw)
<1>1. pin.repository \in DOMAIN SourceAt /\ pin.commit \in ObjectIds
  BY DEF Runnable, Source
<1>2. native \in (SUBSET SchemaDigests) \cup {None}
  BY DEF SchemaDigests
<1> HIDE DEF pin
<1>3. [repository |-> pin.repository, commit |-> pin.commit,
       program |-> "runner/run.py", native |-> native] \in Executions
  BY <1>1, <1>2 DEF Executions
<1> QED
  BY <1>3 DEF pin

LEMMA TInvExecution ==
    ASSUME TInv, NEW r \in Runs,
           HandOver(r) \/ Execute(r) \/ Coordinate(r) \/ JobFails(r)
    PROVE  TInv'
<1> USE DEF TInv
<1>1. CASE Execute(r)
  <2> DEFINE q == Parse[request[r]]
             pin == AdmittedPin(request[r])
             run(native) == [repository |-> pin.repository, commit |-> pin.commit,
                             program |-> "runner/run.py", native |-> native]
  <2>1. request[r] \in Raw
    BY <1>1 DEF Execute, Stocked, Running, AfterCollect, AfterIssue
  <2>2. ASSUME Runnable(request[r]),
               NEW native \in {None} \cup SUBSET {LabSchema, q.native_output_schema.sha256}
        PROVE  run(native) \in Executions
    BY <2>1, <2>2, ExecutionTyped
  <2>3. TypeOK'
    <3>1. pc' \in [Runs -> {"idle", "queued"} \cup Running \cup Ended]
      <4>1. Goto(r, "failed") \/ Goto(r, "executed")
        BY <1>1 DEF Execute
      <4> QED
        BY <4>1 DEF TypeOK, Goto, Running, Ended
    <3>2. \/ ran' = ran
          \/ /\ Runnable(request[r])
             /\ \E native \in {None} \cup SUBSET {LabSchema, q.native_output_schema.sha256} :
                   ran' = [ran EXCEPT ![r] = run(native)]
      BY <1>1 DEF Execute
    <3> HIDE DEF q, pin, run
    <3>3. ran' \in [Runs -> Executions \cup {None}]
      BY <2>2, <3>2 DEF TypeOK
    <3> QED
      BY <1>1, <3>1, <3>3 DEF Execute, TypeOK, branch, workspace
  <2>4. ASSUME NEW s \in Runs PROVE Started(s)' /\ Stocked(s)'
    BY <1>1 DEF Execute, Goto, workspace, Started, Stocked, TypeOK, Identity,
                Running, AfterCollect, AfterIssue
  <2> QED
    BY <2>3, <2>4
<1>2. CASE HandOver(r) \/ Coordinate(r) \/ JobFails(r)
  <2>1. TypeOK'
    BY <1>2 DEF HandOver, Coordinate, JobFails, TypeOK, Goto, branch, workspace, Running, Ended
  <2>2. ASSUME NEW s \in Runs PROVE Started(s)' /\ Stocked(s)'
    BY <1>2 DEF HandOver, Coordinate, JobFails, Goto, workspace, Started, Stocked, TypeOK,
                Identity, Running, AfterCollect, AfterIssue
  <2> QED
    BY <2>1, <2>2
<1> QED
  BY <1>1, <1>2

LEMMA TInvNext == TInv /\ [Next]_vars => TInv'
<1> SUFFICES ASSUME TInv, [Next]_vars PROVE TInv'
  OBVIOUS
<1>1. CASE UNCHANGED vars
  BY <1>1 DEF TInv, TypeOK, Started, Stocked, Identity, vars, branch, workspace
<1>2. CASE Environment
  BY <1>2, TInvEnvironment
<1>3. ASSUME NEW r \in Runs, Trigger(r) PROVE TInv'
  BY <1>3, TInvTrigger
<1>4. ASSUME NEW r \in Runs, RunStep(r) \/ JobFails(r) \/ ResponseLost(r) PROVE TInv'
  BY <1>4, TInvBegin, TInvReceipt, TInvIssue, TInvLedger, TInvExecution DEF RunStep
<1> QED
  BY <1>1, <1>2, <1>3, <1>4 DEF Next

-----------------------------------------------------------------------------
(***************************************************************************)
(* A step of run r that leaves the ledger and every other run alone keeps  *)
(* IInv if it keeps r's own parts and entitles r to nothing new.           *)
(***************************************************************************)
LEMMA IInvFrame ==
    ASSUME IInv, TInv', NEW r \in Runs, UNCHANGED ledger,
           \A s \in Runs \ {r} :
              UNCHANGED <<pc[s], request[s], ticket[s], local[s], expected[s], ran[s]>>,
           Copied(r)', Recorded(r)', Placed(r)',
           Entitled(r)' => Entitled(r) /\ UNCHANGED request[r]
    PROVE  IInv'
<1>1. ASSUME NEW s \in Runs PROVE Copied(s)' /\ Recorded(s)' /\ Placed(s)'
  <2>1. CASE s # r
    <3>1. Copied(s)'
      BY <2>1 DEF IInv, Copied, Base, Identity
    <3>2. Recorded(s)' /\ Placed(s)'
      BY <2>1 DEF IInv, Recorded, Placed, Entitled, Holding, Executed, Identity
    <3> QED
      BY <3>1, <3>2
  <2> QED
    BY <2>1
<1>2. EntitledOnce'
  <2>1. ASSUME NEW s \in Runs, Entitled(s)'
        PROVE  Entitled(s) /\ UNCHANGED request[s]
    BY <2>1 DEF Entitled, Holding, Executed
  <2> QED
    BY <2>1 DEF IInv, EntitledOnce
<1>3. LedgerNamesEachRequestOnce'
  BY DEF IInv, LedgerNamesEachRequestOnce
<1> QED
  BY <1>1, <1>2, <1>3 DEF IInv

LEMMA IInvInit == Init => IInv
<1> SUFFICES ASSUME Init PROVE IInv
  OBVIOUS
<1>1. ASSUME NEW r \in Runs PROVE Copied(r) /\ Recorded(r) /\ Placed(r) /\ ~Entitled(r)
  BY DEF Init, Copied, Recorded, Placed, Entitled, Holding, Executed
<1>2. LedgerNamesEachRequestOnce
  BY DEF Init, LedgerNamesEachRequestOnce, Absent
<1> QED
  BY <1>1, <1>2, TInvInit DEF IInv, EntitledOnce

(***************************************************************************)
(* Nothing the maintainers, the validation runs or a trigger do touches a  *)
(* run that holds a spent ticket.                                          *)
(***************************************************************************)
LEMMA IInvEnvironment ==
    ASSUME IInv, TInv', Environment \/ UNCHANGED vars PROVE IInv'
<1>1. UNCHANGED <<ledger, pc, request, ticket, local, expected, ran>>
  BY DEF Environment, MergeRequest, MergeEnvelope, ValidationSucceeds, ValidationFails,
         branch, workspace, vars
<1>2. ASSUME NEW s \in Runs PROVE Copied(s)' /\ Recorded(s)' /\ Placed(s)'
  <2>1. Copied(s)'
    BY <1>1 DEF IInv, Copied, Base, Identity
  <2>2. Recorded(s)' /\ Placed(s)'
    BY <1>1 DEF IInv, Recorded, Placed, Entitled, Holding, Executed, Identity
  <2> QED
    BY <2>1, <2>2
<1>3. EntitledOnce' /\ LedgerNamesEachRequestOnce'
  BY <1>1 DEF IInv, EntitledOnce, LedgerNamesEachRequestOnce, Entitled, Holding, Executed
<1> QED
  BY <1>2, <1>3 DEF IInv

LEMMA IInvTrigger ==
    ASSUME IInv, TInv', NEW r \in Runs, Trigger(r) PROVE IInv'
<1> PICK i : Enqueue(r, i)
  BY DEF Trigger, TriggerAuto, TriggerManual
<1>1. UNCHANGED <<ledger, request, ticket, local, expected, ran>>
  BY DEF Enqueue, workspace
<1>2. ASSUME NEW s \in Runs
      PROVE  pc'[s] = pc[s] \/ (pc[s] \in {"idle", "queued"} /\ pc'[s] \in {"queued", "cancelled"})
  BY DEF Enqueue
<1>3. ASSUME NEW s \in Runs PROVE Copied(s)' /\ Recorded(s)' /\ Placed(s)'
  <2>1. Copied(s)'
    BY <1>1, <1>2 DEF IInv, Copied, Base, Identity
  <2>2. Recorded(s)' /\ Placed(s)'
    BY <1>1, <1>2 DEF IInv, Recorded, Placed, Entitled, Holding, Executed, Identity
  <2> QED
    BY <2>1, <2>2
<1>4. EntitledOnce' /\ LedgerNamesEachRequestOnce'
  BY <1>1, <1>2 DEF IInv, EntitledOnce, LedgerNamesEachRequestOnce, Entitled, Holding, Executed
<1> QED
  BY <1>3, <1>4 DEF IInv

(***************************************************************************)
(* Up to the ticket a run is entitled to nothing.                          *)
(***************************************************************************)
LEMMA IInvAdmission ==
    ASSUME IInv, TInv', NEW r \in Runs,
           \/ BeginAuto(r) \/ BeginManual(r) \/ CollectArtifact(r)
           \/ Revalidate(r) \/ IssueTicket(r)
    PROVE  IInv'
<1> USE DEF BeginAuto, BeginManual, CollectArtifact, Revalidate, IssueTicket, Goto, branch
<1>1. TypeOK
  BY DEF IInv, TInv
<1>2. ~Executed(r)
  BY DEF IInv, Placed
<1>3. UNCHANGED <<ledger, ran, local, expected>>
  OBVIOUS
<1>4. \A s \in Runs \ {r} :
         UNCHANGED <<pc[s], request[s], ticket[s], local[s], expected[s], ran[s]>>
  BY <1>1 DEF TypeOK
<1>5. pc'[r] \in {"checked_out", "skipped", "collected", "failed", "revalidated",
                  "ticketed", "refused"}
  BY <1>1 DEF TypeOK
<1>6. Copied(r)' /\ Recorded(r)' /\ Placed(r)' /\ ~Entitled(r)'
  BY <1>2, <1>3, <1>5 DEF Copied, Recorded, Placed, Entitled, Holding, Executed
<1> QED
  BY <1>3, <1>4, <1>6, IInvFrame

(***************************************************************************)
(* Fetching and spending work on the copy: the entry is added only to a    *)
(* list that lacks the identity.                                           *)
(***************************************************************************)
LEMMA IInvCopy ==
    ASSUME IInv, TInv', NEW r \in Runs, FetchLedger(r) \/ SpendTicket(r)
    PROVE  IInv'
<1> USE DEF FetchLedger, SpendTicket, Goto, branch
<1>1. TypeOK
  BY DEF IInv, TInv
<1>2. ~Executed(r)
  BY DEF IInv, Placed
<1>3. UNCHANGED <<ledger, ran, request, ticket>>
  OBVIOUS
<1>4. \A s \in Runs \ {r} :
         UNCHANGED <<pc[s], request[s], ticket[s], local[s], expected[s], ran[s]>>
  BY <1>1 DEF TypeOK
<1>5. pc'[r] \in {"fetched", "refused", "replayed", "dispatched", "spent"}
  BY <1>1 DEF TypeOK, SpendVerdict
<1>6. Recorded(r)' /\ Placed(r)' /\ ~Entitled(r)'
  BY <1>2, <1>3, <1>5 DEF Recorded, Placed, Entitled, Holding, Executed
<1>7. Copied(r)'
  <2>1. CASE FetchLedger(r)
    <3>1. /\ pc'[r] = "fetched"
          /\ local'[r] = ledger.consumed
          /\ expected'[r] = <<"blob", ledger>>
      BY <2>1, <1>1 DEF TypeOK, Fetched, BlobSha
    <3> QED
      BY <3>1, <1>1 DEF Copied, Base, TypeOK
  <2>2. CASE SpendTicket(r) /\ SpendVerdict(r) = "spent"
    <3>1. /\ pc[r] = "fetched"
          /\ pc'[r] = "spent"
          /\ local'[r] = Append(local[r], Entry(ticket[r]))
          /\ UNCHANGED expected
      BY <2>2, <1>1 DEF TypeOK
    <3>2. ticket[r].request_sha256 = Identity(r)
      BY <3>1 DEF IInv, TInv, Stocked, AfterIssue, AfterCollect, Running
    <3>3. ~RequestDispatched(local[r], Identity(r))
      BY <2>2, <3>2 DEF SpendVerdict
    <3>4. Base(r) \in Stores(Entries) /\ local[r] = Base(r).consumed
      BY <3>1 DEF IInv, Copied
    <3>5. Base(r)' = Base(r) /\ Identity(r)' = Identity(r)
      BY <3>1, <1>3 DEF Base, Identity
    <3> QED
      BY <3>1, <3>3, <3>4, <3>5, <1>3 DEF Copied
  <2>3. CASE SpendTicket(r) /\ SpendVerdict(r) # "spent"
    BY <2>3, <1>1 DEF TypeOK, SpendVerdict, Copied
  <2> QED
    BY <2>1, <2>2, <2>3
<1> QED
  BY <1>3, <1>4, <1>6, <1>7, IInvFrame

(***************************************************************************)
(* The write.  When the compare-and-swap goes through, the ledger is still *)
(* the store that was fetched, so the list written is the ledger with one  *)
(* entry more, for an identity it lacked: no other run can be entitled by  *)
(* it.                                                                     *)
(***************************************************************************)
LEMMA WriteExtends ==
    ASSUME IInv, NEW r \in Runs, pc[r] = "spent", Accepts(ledger, expected[r])
    PROVE  /\ ledger.consumed \in Seq(Entries)
           /\ Entry(ticket[r]) \in Entries
           /\ Written(local[r]).consumed = Append(ledger.consumed, Entry(ticket[r]))
           /\ Entry(ticket[r]).request_sha256 = Identity(r)
           /\ ~RequestDispatched(ledger.consumed, Identity(r))
<1>1. Base(r) = ledger
  BY DEF Accepts, BlobSha, Base
<1>2. ticket[r] \in Tickets /\ ticket[r].request_sha256 = Identity(r)
  BY DEF IInv, TInv, Stocked, AfterIssue, AfterCollect, Running
<1>3. ledger.consumed \in Seq(Entries)
  BY StoreTyped DEF IInv, TInv, TypeOK
<1>4. local[r] = Append(Base(r).consumed, Entry(ticket[r]))
      /\ ~RequestDispatched(Base(r).consumed, Identity(r))
  BY DEF IInv, Copied
<1> QED
  BY <1>1, <1>2, <1>3, <1>4, EntryTyped DEF Entry, Written

LEMMA IInvWrite ==
    ASSUME IInv, TInv', NEW r \in Runs, pc[r] = "spent", Accepts(ledger, expected[r]),
           ledger' = Written(local[r]),
           UNCHANGED <<workspace, ran>>,
           Goto(r, "committed") \/ Goto(r, "failed")
    PROVE  IInv'
<1> DEFINE old == ledger.consumed
           new == ledger'.consumed
           e   == Entry(ticket[r])
<1>1. /\ old \in Seq(Entries) /\ e \in Entries
      /\ new = Append(old, e)
      /\ e.request_sha256 = Identity(r)
      /\ ~RequestDispatched(old, Identity(r))
  BY WriteExtends
<1>2. /\ DOMAIN new = DOMAIN old \cup {Len(old) + 1}
      /\ Len(old) + 1 \notin DOMAIN old
      /\ \A i \in DOMAIN old : new[i] = old[i]
      /\ new[Len(old) + 1] = e
  BY <1>1
<1>3. UNCHANGED <<request, ticket, local, expected, ran>>
  BY DEF workspace
<1>4. /\ \A s \in Runs \ {r} : pc'[s] = pc[s]
      /\ pc'[r] \in {"committed", "failed"}
  BY DEF Goto, IInv, TInv, TypeOK
<1>5. ~Entitled(r) /\ request[r] \in Raw
  BY DEF IInv, TInv, Placed, Entitled, Holding, Stocked, Running, AfterCollect, AfterIssue
<1>6. ASSUME NEW s \in Runs, Entitled(s)'
      PROVE  s = r \/ Entitled(s)
  BY <1>3, <1>4, <1>6 DEF Entitled, Holding, Executed
<1> HIDE DEF old, new, e
<1>7. ASSUME NEW s \in Runs PROVE Copied(s)' /\ Recorded(s)' /\ Placed(s)'
  <2>1. Copied(s)'
    BY <1>3, <1>4 DEF IInv, Copied, Base, Identity
  <2>2. Placed(s)'
    BY <1>3, <1>4, <1>5 DEF IInv, Placed, Executed, Entitled
  <2>3. Recorded(s)'
    <3>1. CASE s = r
      <4>1. Len(old) + 1 \in DOMAIN new /\ new[Len(old) + 1] = Entry(ticket[r])
        BY <1>2 DEF e
      <4>2. ticket[r].request_sha256 = Identity(r)
        BY <1>1 DEF e, Entry
      <4> QED
        BY <3>1, <4>1, <4>2, <1>3, <1>5 DEF Recorded, Identity, new
    <3>2. CASE s # r /\ Entitled(s)
      <4>1. request[s] \in Raw /\ ticket[s].request_sha256 = Identity(s)
        BY <3>2 DEF IInv, Recorded
      <4>2. \E i \in DOMAIN old : old[i] = Entry(ticket[s])
        BY <3>2 DEF IInv, Recorded, old
      <4>3. \E i \in DOMAIN new : new[i] = Entry(ticket[s])
        BY <4>2, <1>2
      <4> QED
        BY <4>1, <4>3, <1>3 DEF Recorded, Identity, new
    <3>3. CASE s # r /\ ~Entitled(s)
      BY <3>3, <1>3, <1>4 DEF Recorded, Entitled, Holding, Executed
    <3> QED
      BY <3>1, <3>2, <3>3
  <2> QED
    BY <2>1, <2>2, <2>3
<1>8. ASSUME NEW s \in Runs, s # r, Entitled(s) PROVE request[s] # request[r]
  <2>1. ticket[s].request_sha256 = Identity(s)
    BY <1>8 DEF IInv, Recorded
  <2>2. \E i \in DOMAIN old : old[i] = Entry(ticket[s])
    BY <1>8 DEF IInv, Recorded, old
  <2>3. \E i \in DOMAIN old : old[i].request_sha256 = Identity(s)
    BY <2>1, <2>2 DEF Entry
  <2> QED
    BY <2>3, <1>1 DEF RequestDispatched, Identity, old
<1>9. EntitledOnce'
  BY <1>3, <1>6, <1>8 DEF IInv, EntitledOnce
<1>10. LedgerNamesEachRequestOnce'
  <2>1. \A i \in DOMAIN old : old[i].request_sha256 # e.request_sha256
    BY <1>1 DEF RequestDispatched
  <2>2. \A i, j \in DOMAIN old : old[i].request_sha256 = old[j].request_sha256 => i = j
    BY DEF IInv, LedgerNamesEachRequestOnce, old
  <2>3. \A i, j \in DOMAIN new : new[i].request_sha256 = new[j].request_sha256 => i = j
    BY <1>2, <2>1, <2>2
  <2> QED
    BY <2>3 DEF LedgerNamesEachRequestOnce, new
<1> QED
  BY <1>7, <1>9, <1>10 DEF IInv

LEMMA IInvCommit ==
    ASSUME IInv, TInv', NEW r \in Runs, CommitLedger(r) \/ ResponseLost(r)
    PROVE  IInv'
<1>1. CASE Accepts(ledger, expected[r])
  BY <1>1, IInvWrite DEF CommitLedger, ResponseLost
<1>2. CASE ~Accepts(ledger, expected[r])
  <2>1. CommitLedger(r) /\ pc' = [pc EXCEPT ![r] = "conflicted"]
    BY <1>2 DEF CommitLedger, ResponseLost, Goto
  <2>2. UNCHANGED <<ledger, request, ticket, local, expected, ran>>
    BY <1>2, <2>1 DEF CommitLedger, workspace
  <2>3. TypeOK /\ pc[r] = "spent" /\ ~Executed(r)
    BY <2>1 DEF CommitLedger, IInv, TInv, Placed
  <2>4. Copied(r)' /\ Recorded(r)' /\ Placed(r)' /\ ~Entitled(r)'
    BY <2>1, <2>2, <2>3 DEF TypeOK, Copied, Recorded, Placed, Entitled, Holding, Executed
  <2> QED
    BY <2>1, <2>2, <2>3, <2>4, IInvFrame DEF TypeOK
<1> QED
  BY <1>1, <1>2

(***************************************************************************)
(* From the committed ledger on, a run only uses what it is entitled to.   *)
(***************************************************************************)
LEMMA IInvExecution ==
    ASSUME IInv, TInv', NEW r \in Runs,
           HandOver(r) \/ Execute(r) \/ Coordinate(r) \/ JobFails(r)
    PROVE  IInv'
<1> USE DEF HandOver, Execute, Coordinate, JobFails, Goto, branch, workspace
<1>1. TypeOK /\ Recorded(r) /\ Placed(r)
  BY DEF IInv, TInv
<1>2. UNCHANGED <<ledger, request, ticket, local, expected>>
  OBVIOUS
<1>3. pc'[r] \in {"admitted", "executed", "published", "failed"}
  <2>1. CASE Execute(r)
    <3>1. Goto(r, "failed") \/ Goto(r, "executed")
      BY <2>1 DEF Execute
    <3> QED
      BY <3>1, <1>1 DEF TypeOK
  <2>2. CASE HandOver(r) \/ Coordinate(r) \/ JobFails(r)
    BY <2>2, <1>1 DEF TypeOK
  <2> QED
    BY <2>1, <2>2
<1>4. \A s \in Runs \ {r} :
         UNCHANGED <<pc[s], request[s], ticket[s], local[s], expected[s], ran[s]>>
  <2>1. \A s \in Runs \ {r} : UNCHANGED <<pc[s], ran[s]>>
    BY <1>1 DEF TypeOK
  <2> QED
    BY <1>2, <2>1
<1>5. Entitled(r)' => Entitled(r)
  <2>1. CASE Execute(r) \/ HandOver(r)
    BY <2>1 DEF Entitled, Holding
  <2>2. CASE Coordinate(r) \/ JobFails(r)
    <3>1. pc'[r] \in {"published", "failed"} /\ UNCHANGED ran
      BY <2>2, <1>1 DEF TypeOK
    <3> QED
      BY <3>1 DEF Entitled, Holding, Executed
  <2> QED
    BY <2>1, <2>2
<1>6. Copied(r)'
  BY <1>3 DEF Copied
<1>7. Recorded(r)'
  BY <1>1, <1>2, <1>5 DEF Recorded, Identity
<1>8. Placed(r)'
  <2>1. CASE HandOver(r)
    BY <2>1, <1>1 DEF Placed, Executed
  <2>2. CASE Execute(r) \/ Coordinate(r) \/ JobFails(r)
    <3>1. pc'[r] \in {"executed", "published", "failed"}
      BY <2>2, <1>1, <1>3 DEF TypeOK
    <3> QED
      BY <3>1 DEF Placed
  <2> QED
    BY <2>1, <2>2
<1> QED
  BY <1>2, <1>4, <1>5, <1>6, <1>7, <1>8, IInvFrame

LEMMA IInvNext == IInv /\ [Next]_vars => IInv'
<1> SUFFICES ASSUME IInv, [Next]_vars PROVE IInv'
  OBVIOUS
<1>1. TInv'
  BY TInvNext DEF IInv
<1>2. CASE UNCHANGED vars \/ Environment
  BY <1>1, <1>2, IInvEnvironment
<1>3. ASSUME NEW r \in Runs, Trigger(r) PROVE IInv'
  BY <1>1, <1>3, IInvTrigger
<1>4. ASSUME NEW r \in Runs, RunStep(r) \/ JobFails(r) \/ ResponseLost(r) PROVE IInv'
  BY <1>1, <1>4, IInvAdmission, IInvCopy, IInvCommit, IInvExecution DEF RunStep
<1> QED
  BY <1>2, <1>3, <1>4 DEF Next

(***************************************************************************)
(* In every reachable state of the two workflows, what a run has in its    *)
(* workspace, what it owes to the ledger and what it may still execute     *)
(* agree: all the results below follow from this.                          *)
(***************************************************************************)
THEOREM Inductive == Spec => []IInv
BY IInvInit, IInvNext, PTL DEF Spec

-----------------------------------------------------------------------------
(***************************************************************************)
(* Every variable of the two workflows, the ledger and the workspaces has  *)
(* its type, for every set of runs, requests, envelopes and faults.        *)
(***************************************************************************)
THEOREM TypeCorrect == Spec => []TypeOK
<1>1. IInv => TypeOK
  BY DEF IInv, TInv
<1> QED
  BY <1>1, Inductive, PTL

(***************************************************************************)
(* One run per request, for every number of runs of the two workflows and  *)
(* whatever fails: the ledger's compare-and-swap suffices, without any     *)
(* mutual exclusion between the concurrency groups.                        *)
(***************************************************************************)
THEOREM OneExecution == Spec => []AtMostOneExecution
<1>1. IInv => AtMostOneExecution
  BY DEF IInv, EntitledOnce, Entitled, AtMostOneExecution
<1> QED
  BY <1>1, Inductive, PTL

(***************************************************************************)
(* The ledger never names a request twice.                                 *)
(***************************************************************************)
THEOREM LedgerUnique == Spec => []LedgerNamesEachRequestOnce
<1>1. IInv => LedgerNamesEachRequestOnce
  BY DEF IInv
<1> QED
  BY <1>1, Inductive, PTL

(***************************************************************************)
(* The consumption is in the ledger before the counterparty runs, and      *)
(* stays there.                                                            *)
(***************************************************************************)
THEOREM SpentBeforeExecution == Spec => []ExecutedWasSpent
<1>1. IInv => ExecutedWasSpent
  BY DEF IInv, Recorded, Entitled, ExecutedWasSpent
<1> QED
  BY <1>1, Inductive, PTL

(***************************************************************************)
(* The only steps that write the ledger are the two that commit it.        *)
(***************************************************************************)
LEMMA LedgerWriters ==
    ASSUME TypeOK, Next, ledger' # ledger
    PROVE  \E r \in Runs : /\ pc[r] = "spent"
                           /\ Accepts(ledger, expected[r])
                           /\ ledger' = Written(local[r])
                           /\ Goto(r, "committed") \/ Goto(r, "failed")
                           /\ UNCHANGED <<workspace, ran>>
<1>1. ~Environment
  BY DEF Environment, MergeRequest, MergeEnvelope, ValidationSucceeds, ValidationFails
<1>2. PICK r \in Runs : Trigger(r) \/ RunStep(r) \/ JobFails(r) \/ ResponseLost(r)
  BY <1>1 DEF Next
<1>3. ~Trigger(r)
  BY DEF Trigger, TriggerAuto, TriggerManual, Enqueue
<1>4. ~JobFails(r) /\ (RunStep(r) => CommitLedger(r))
  BY DEF RunStep, BeginAuto, BeginManual, CollectArtifact, Revalidate, IssueTicket,
         FetchLedger, SpendTicket, HandOver, Execute, Coordinate, JobFails
<1> QED
  BY <1>2, <1>3, <1>4 DEF CommitLedger, ResponseLost

(***************************************************************************)
(* No step takes an entry out of the ledger, alters one or removes the     *)
(* file.                                                                   *)
(***************************************************************************)
THEOREM LedgerGrows == Spec => LedgerAppendOnly
<1> DEFINE Grows == /\ IsPrefix(ledger.consumed, ledger'.consumed)
                    /\ ledger.exists => ledger'.exists
<1>1. IInv /\ [Next]_vars => [Grows]_ledger
  <2> SUFFICES ASSUME IInv, [Next]_vars, ledger' # ledger PROVE Grows
    OBVIOUS
  <2>1. Next
    BY DEF vars
  <2>2. PICK r \in Runs : /\ pc[r] = "spent"
                          /\ Accepts(ledger, expected[r])
                          /\ ledger' = Written(local[r])
    BY <2>1, LedgerWriters DEF IInv, TInv
  <2>3. /\ ledger.consumed \in Seq(Entries)
        /\ Entry(ticket[r]) \in Entries
        /\ ledger'.consumed = Append(ledger.consumed, Entry(ticket[r]))
    BY <2>2, WriteExtends
  <2>4. IsPrefix(ledger.consumed, ledger'.consumed)
    BY <2>3 DEF IsPrefix
  <2>5. ledger'.exists
    BY <2>2 DEF Written
  <2> QED
    BY <2>4, <2>5
<1> QED
  BY <1>1, Inductive, PTL DEF Spec, LedgerAppendOnly

-----------------------------------------------------------------------------
(***************************************************************************)
(* What one step can do to run s: nothing, start or cancel it while it     *)
(* waits, or one of its own steps.                                         *)
(***************************************************************************)
Waits(s) ==
    /\ pc[s] \in {"idle", "queued"}
    /\ IF pc[s] = "idle"
       THEN /\ pc'[s] = "queued"
            /\ input'[s].kind = "manual" =>
                  input'[s].sha.envelope = envelopes[input'[s].envelope]
       ELSE pc'[s] = "cancelled" /\ UNCHANGED input[s]
    /\ UNCHANGED <<request[s], envelope[s], receipt[s], ticket[s], local[s], expected[s], ran[s]>>
    /\ UNCHANGED ledger

Rests(s) ==
    UNCHANGED <<pc[s], input[s], request[s], envelope[s], receipt[s], ticket[s], local[s],
                expected[s], ran[s]>>

LEMMA RunChanges ==
    ASSUME TypeOK, [Next]_vars, NEW s \in Runs
    PROVE  Rests(s) \/ Waits(s) \/ RunStep(s) \/ JobFails(s) \/ ResponseLost(s)
<1>1. CASE UNCHANGED vars \/ Environment
  BY <1>1 DEF vars, branch, workspace, Environment, MergeRequest, MergeEnvelope,
     ValidationSucceeds, ValidationFails, Rests
<1>2. ASSUME NEW r \in Runs, Trigger(r) PROVE Rests(s) \/ Waits(s)
  <2>1. PICK i : /\ Enqueue(r, i)
                 /\ i.kind = "manual" => i.sha.envelope = envelopes[i.envelope]
    <3>1. CASE \E v \in Validations : TriggerAuto(r, v)
      BY <3>1 DEF TriggerAuto
    <3>2. CASE \E v \in Validations, p \in Paths, e \in EnvelopePaths, id \in TicketIds :
                  TriggerManual(r, v, p, e, id)
      BY <3>2 DEF TriggerManual
    <3> QED
      BY <1>2, <3>1, <3>2 DEF Trigger
  <2>2. UNCHANGED <<ledger, request, envelope, receipt, ticket, local, expected, ran>>
    BY <2>1 DEF Enqueue, workspace
  <2>3. CASE s = r \/ pc'[s] # pc[s]
    BY <2>1, <2>2, <2>3 DEF Enqueue, Waits, TypeOK
  <2>4. CASE s # r /\ pc'[s] = pc[s]
    BY <2>1, <2>2, <2>4 DEF Enqueue, Rests, TypeOK
  <2> QED
    BY <2>3, <2>4
<1>3. ASSUME NEW r \in Runs, r # s, RunStep(r) \/ JobFails(r) \/ ResponseLost(r) PROVE Rests(s)
  <2>1. CASE BeginAuto(r) \/ BeginManual(r) \/ CollectArtifact(r) \/ Revalidate(r)
    BY <1>3, <2>1 DEF TypeOK, Rests, BeginAuto, BeginManual, CollectArtifact, Revalidate, Goto
  <2>2. CASE IssueTicket(r) \/ FetchLedger(r) \/ SpendTicket(r)
    BY <1>3, <2>2 DEF TypeOK, Rests, IssueTicket, FetchLedger, SpendTicket, Goto
  <2>3. CASE CommitLedger(r) \/ HandOver(r) \/ Coordinate(r) \/ JobFails(r) \/ ResponseLost(r)
    BY <1>3, <2>3 DEF TypeOK, Rests, CommitLedger, HandOver, Coordinate, JobFails,
       ResponseLost, Goto, workspace
  <2>4. CASE Execute(r)
    BY <1>3, <2>4 DEF TypeOK, Rests, Execute, Goto, workspace
  <2> QED
    BY <1>3, <2>1, <2>2, <2>3, <2>4 DEF RunStep
<1> QED
  BY <1>1, <1>2, <1>3 DEF Next

(***************************************************************************)
(* A ticket is issued for documents that describe one another, and none of *)
(* them is touched afterwards.                                             *)
(***************************************************************************)
LEMMA AdmittedNext ==
    ASSUME IInv, NEW s \in Runs, Admitted(s), [Next]_vars
    PROVE  Admitted(s)'
<1>1. TypeOK /\ Placed(s)
  BY DEF IInv, TInv
<1>2. CASE Rests(s)
  BY <1>2 DEF Rests, Admitted, Endorsed, Executed, Identity, PinRan
<1>3. CASE Waits(s)
  BY <1>1, <1>3 DEF Waits, Admitted, Placed, Executed, AfterCollect, AfterIssue, Running
<1> USE DEF TypeOK, Admitted, Endorsed, Placed, Executed, PinRan, Identity, AfterCollect,
            AfterIssue, Running, Goto
<1>4. CASE BeginAuto(s) \/ BeginManual(s) \/ CollectArtifact(s)
  BY <1>1, <1>4 DEF BeginAuto, BeginManual, CollectArtifact
<1>5. CASE Revalidate(s)
  BY <1>1, <1>5 DEF Revalidate
<1>6. CASE IssueTicket(s)
  <2>1. CASE request[s] # None /\ MayIssue(request[s], receipt[s], envelope[s])
    <3>1. receipt[s] \in Receipts
      BY <1>6 DEF IssueTicket, IInv, TInv, Stocked
    <3> QED
      BY <1>1, <1>6, <2>1, <3>1 DEF IssueTicket, Ticket, MayIssue
  <2>2. CASE ~(request[s] # None /\ MayIssue(request[s], receipt[s], envelope[s]))
    BY <1>1, <1>6, <2>2 DEF IssueTicket
  <2> QED
    BY <2>1, <2>2
<1>7. CASE FetchLedger(s)
  BY <1>1, <1>7 DEF FetchLedger
<1>8. CASE SpendTicket(s)
  BY <1>1, <1>8 DEF SpendTicket
<1>9. CASE CommitLedger(s) \/ HandOver(s) \/ Coordinate(s) \/ JobFails(s) \/ ResponseLost(s)
  BY <1>1, <1>9 DEF CommitLedger, HandOver, Coordinate, JobFails, ResponseLost, workspace
<1>10. CASE Execute(s)
  <2>1. CASE UNCHANGED ran
    BY <1>1, <1>10, <2>1 DEF Execute, workspace
  <2>2. CASE ~UNCHANGED ran
    <3> DEFINE pin == AdmittedPin(request[s])
    <3>1. PICK native : ran' = [ran EXCEPT ![s] =
                          [repository |-> pin.repository, commit |-> pin.commit,
                           program |-> "runner/run.py", native |-> native]]
      BY <1>10, <2>2 DEF Execute
    <3>2. UNCHANGED <<request, envelope, receipt, ticket, input>> /\ pc[s] = "admitted"
      BY <1>10 DEF Execute, workspace
    <3>3. pin = AdmittedPin(request'[s])
      BY <3>2
    <3> HIDE DEF pin
    <3>4. PinRan(s)'
      BY <1>1, <3>1, <3>2, <3>3
    <3> QED
      BY <1>1, <3>2, <3>4
  <2> QED
    BY <2>1, <2>2
<1> QED
  BY <1>1, <1>2, <1>3, <1>4, <1>5, <1>6, <1>7, <1>8, <1>9, <1>10, RunChanges DEF RunStep

(***************************************************************************)
(* A prefix stays one when the longer sequence grows, and becomes strict.  *)
(***************************************************************************)
LEMMA PrefixGrows ==
    ASSUME NEW S, NEW a \in Seq(S), NEW b \in Seq(S), NEW e \in S, IsPrefix(a, b)
    PROVE  IsStrictPrefix(a, Append(b, e))
<1>1. Len(a) <= Len(b) /\ SubSeq(a, 1, Len(a)) = SubSeq(b, 1, Len(a))
  BY DEF IsPrefix
<1>2. /\ Append(b, e) \in Seq(S)
      /\ Len(Append(b, e)) = Len(b) + 1
      /\ \A i \in 1 .. Len(b) : Append(b, e)[i] = b[i]
  OBVIOUS
<1>3. SubSeq(Append(b, e), 1, Len(a)) = SubSeq(b, 1, Len(a))
  BY <1>1, <1>2
<1> QED
  BY <1>1, <1>2, <1>3 DEF IsPrefix, IsStrictPrefix

\* What holds of every position of a prefix.
LEMMA PrefixEntries ==
    ASSUME NEW S, NEW a \in Seq(S), NEW b \in Seq(S), IsPrefix(a, b)
    PROVE  \A i \in DOMAIN a : i \in DOMAIN b /\ a[i] = b[i]
<1> SUFFICES ASSUME NEW i \in DOMAIN a PROVE i \in DOMAIN b /\ a[i] = b[i]
  OBVIOUS
<1>1. Len(a) <= Len(b) /\ SubSeq(a, 1, Len(a)) = SubSeq(b, 1, Len(a))
  BY DEF IsPrefix
<1>2. i \in 1 .. Len(a) /\ i \in DOMAIN b
  BY <1>1
<1>3. SubSeq(a, 1, Len(a))[i] = a[i] /\ SubSeq(b, 1, Len(a))[i] = b[i]
  BY <1>1, <1>2
<1> QED
  BY <1>1, <1>2, <1>3

(***************************************************************************)
(* A step leaves the ledger alone, or one run with a spent ticket adds its *)
(* entry at the end.                                                       *)
(***************************************************************************)
Writes(r) ==
    /\ pc[r] = "spent" /\ pc'[r] \in {"committed", "failed"}
    /\ ticket[r] \in Tickets
    /\ UNCHANGED <<request, envelope, receipt, ticket>>
    /\ ledger'.exists
    /\ Entry(ticket[r]) \in Entries
    /\ ledger'.consumed = Append(ledger.consumed, Entry(ticket[r]))

LEMMA LedgerStep ==
    ASSUME IInv, [Next]_vars
    PROVE  UNCHANGED ledger \/ \E r \in Runs : Writes(r)
<1> SUFFICES ASSUME ledger' # ledger PROVE \E r \in Runs : Writes(r)
  OBVIOUS
<1>1. Next
  BY DEF vars
<1>2. PICK r \in Runs : /\ pc[r] = "spent"
                        /\ Accepts(ledger, expected[r])
                        /\ ledger' = Written(local[r])
                        /\ Goto(r, "committed") \/ Goto(r, "failed")
                        /\ UNCHANGED <<workspace, ran>>
  BY <1>1, LedgerWriters DEF IInv, TInv
<1>3. ticket[r] \in Tickets
  BY <1>2 DEF IInv, TInv, Stocked, AfterIssue, AfterCollect, Running
<1>4. pc'[r] \in {"committed", "failed"}
  BY <1>2 DEF Goto, IInv, TInv, TypeOK
<1>5. /\ Entry(ticket[r]) \in Entries
      /\ ledger'.consumed = Append(ledger.consumed, Entry(ticket[r]))
  BY <1>2, WriteExtends
<1> QED
  BY <1>2, <1>3, <1>4, <1>5 DEF Writes, Written, workspace

(***************************************************************************)
(* What a run knew of the ledger stays true of it.                         *)
(***************************************************************************)
LEMMA LedgerKeeps ==
    ASSUME IInv, [Next]_vars
    PROVE  /\ \A a \in Seq(Entries) : IsPrefix(a, ledger.consumed) =>
                  /\ IsPrefix(a, ledger.consumed)'
                  /\ a # ledger.consumed => a # ledger'.consumed
           /\ \A d : RequestDispatched(ledger.consumed, d) =>
                        RequestDispatched(ledger'.consumed, d)
           /\ ledger.exists => ledger'.exists
<1>1. CASE UNCHANGED ledger
  BY <1>1
<1>2. CASE \E r \in Runs : Writes(r)
  <2> PICK r \in Runs : Writes(r)
    BY <1>2
  <2> DEFINE old == ledger.consumed
             new == ledger'.consumed
             e   == Entry(ticket[r])
  <2>1. old \in Seq(Entries) /\ e \in Entries /\ new = Append(old, e) /\ ledger'.exists
    BY StoreTyped DEF IInv, TInv, TypeOK, Writes
  <2> HIDE DEF old, new, e
  <2>2. \A a \in Seq(Entries) : IsPrefix(a, old) => IsStrictPrefix(a, new)
    BY <2>1, PrefixGrows
  <2>3. \A i \in DOMAIN old : i \in DOMAIN new /\ new[i] = old[i]
    BY <2>1
  <2>4. \A d : RequestDispatched(old, d) => RequestDispatched(new, d)
    BY <2>3 DEF RequestDispatched
  <2> QED
    BY <2>1, <2>2, <2>4 DEF IsStrictPrefix, old, new
<1> QED
  BY <1>1, <1>2, LedgerStep

(***************************************************************************)
(* A replay refusal reads the copy.  The copy is a prefix of the ledger,   *)
(* so an entry found there is in the ledger; if it is the ticket's, the    *)
(* run it belongs to holds the same ticket, and so the same request.       *)
(***************************************************************************)
LEMMA RefusedWasSpent ==
    ASSUME IInv, EveryEntryHasItsRun, NEW s \in Runs, Remembered(s), pc[s] = "fetched",
           SpendVerdict(s) \in {"replayed", "dispatched"}
    PROVE  RequestDispatched(ledger.consumed, Identity(s))
<1>1. /\ Base(s).consumed \in Seq(Entries)
      /\ local[s] = Base(s).consumed
      /\ ledger.consumed \in Seq(Entries)
  BY StoreTyped DEF IInv, TInv, TypeOK, Copied
<1>2. \A i \in DOMAIN local[s] : i \in DOMAIN ledger.consumed /\ local[s][i] = ledger.consumed[i]
  BY <1>1, PrefixEntries DEF Remembered
<1>3. ticket[s].request_sha256 = Identity(s)
  BY DEF IInv, TInv, Stocked, AfterIssue, AfterCollect, Running
<1>4. CASE TicketConsumed(local[s], ticket[s])
  <2>1. PICK i \in DOMAIN ledger.consumed :
          ledger.consumed[i].ticket_sha256 = Sha256(ticket[s])
    BY <1>2, <1>4 DEF TicketConsumed
  <2>2. PICK r \in Runs : ledger.consumed[i] = Entry(ticket[r])
    BY DEF EveryEntryHasItsRun
  <2>3. Sha256(ticket[r]) = Sha256(ticket[s])
    BY <2>1, <2>2 DEF Entry
  <2>4. ticket[r] = ticket[s]
    BY <2>3 DEF Sha256
  <2> QED
    BY <1>3, <2>2, <2>4 DEF Entry, RequestDispatched
<1>5. CASE RequestDispatched(local[s], ticket[s].request_sha256)
  BY <1>2, <1>3, <1>5 DEF RequestDispatched
<1> QED
  BY <1>4, <1>5 DEF SpendVerdict

\* A write is refused only when the ledger has grown past the run's copy.
LEMMA ConflictedWasOvertaken ==
    ASSUME IInv, ledger.exists => ledger.consumed # <<>>,
           NEW s \in Runs, Remembered(s), pc[s] = "spent", ~Accepts(ledger, expected[s])
    PROVE  IsStrictPrefix(Base(s).consumed, ledger.consumed)
<1>1. /\ Base(s) \in Stores(Entries) /\ ledger \in Stores(Entries)
      /\ IsPrefix(Base(s).consumed, ledger.consumed)
      /\ Base(s).exists => ledger.exists
  BY DEF IInv, TInv, TypeOK, Copied, Remembered
<1>2. expected[s] = <<"blob", Base(s)>>
  BY DEF IInv, TInv, TypeOK, Base
<1>3. Base(s) # ledger
  BY <1>2 DEF Accepts, BlobSha
<1>4. Base(s).consumed # ledger.consumed
  <2> SUFFICES ASSUME Base(s).consumed = ledger.consumed PROVE FALSE
    OBVIOUS
  <2>1. \A store \in Stores(Entries) :
          /\ store.exists \in BOOLEAN
          /\ ~store.exists => store.consumed = <<>>
          /\ store = [exists |-> store.exists, consumed |-> store.consumed]
    <3> TAKE store \in Stores(Entries)
    <3>1. CASE store \in [exists: {TRUE}, consumed: Seq(Entries)]
      BY <3>1
    <3>2. CASE store \in [exists: {FALSE}, consumed: {<<>>}]
      BY <3>2
    <3> QED
      BY <3>1, <3>2 DEF Stores
  <2>2. Base(s).exists # ledger.exists
    BY <1>1, <1>3, <2>1
  <2>3. ~Base(s).exists /\ ledger.exists
    BY <1>1, <2>1, <2>2
  <2> QED
    BY <1>1, <2>1, <2>3
<1> QED
  BY <1>1, <1>4 DEF IsStrictPrefix

LEMMA RememberedNext ==
    ASSUME IInv, EveryEntryHasItsRun, ledger.exists => ledger.consumed # <<>>,
           NEW s \in Runs, Remembered(s), [Next]_vars
    PROVE  Remembered(s)'
<1> USE DEF Remembered
<1>1. TypeOK
  BY DEF IInv, TInv
<1>2. pc[s] \in {"fetched", "spent", "conflicted"} => Base(s).consumed \in Seq(Entries)
  BY StoreTyped DEF IInv, Copied
<1>3. CASE Rests(s)
  <2>1. Base(s)' = Base(s) /\ pc'[s] = pc[s] /\ Identity(s)' = Identity(s)
    BY <1>3 DEF Rests, Base, Identity
  <2> QED
    BY <1>2, <2>1, LedgerKeeps DEF IsStrictPrefix
<1>4. CASE Waits(s)
  BY <1>4 DEF Waits
<1>5. CASE FetchLedger(s)
  <2>1. pc'[s] = "fetched" /\ Base(s)' = ledger /\ UNCHANGED ledger
    BY <1>1, <1>5 DEF TypeOK, FetchLedger, Goto, Base, BlobSha
  <2>2. ledger.consumed \in Seq(Entries)
    BY <1>1, StoreTyped DEF TypeOK
  <2>3. IsPrefix(ledger.consumed, ledger.consumed)
    BY <2>2 DEF IsPrefix
  <2> QED
    BY <2>1, <2>3
<1>6. CASE SpendTicket(s)
  <2>1. /\ pc[s] = "fetched" /\ pc'[s] = SpendVerdict(s)
        /\ UNCHANGED <<ledger, request, expected>>
    BY <1>1, <1>6 DEF TypeOK, SpendTicket, Goto
  <2>2. Base(s)' = Base(s) /\ Identity(s)' = Identity(s)
    BY <2>1 DEF Base, Identity
  <2>3. SpendVerdict(s) \notin {"fetched", "conflicted"}
    BY DEF SpendVerdict
  <2>4. SpendVerdict(s) \in {"replayed", "dispatched"} =>
            RequestDispatched(ledger.consumed, Identity(s))
    BY <2>1, RefusedWasSpent
  <2> QED
    BY <2>1, <2>2, <2>3, <2>4
<1>7. CASE CommitLedger(s)
  <2>1. CASE Accepts(ledger, expected[s])
    BY <1>1, <1>7, <2>1 DEF TypeOK, CommitLedger, Goto
  <2>2. CASE ~Accepts(ledger, expected[s])
    <3>1. /\ pc[s] = "spent" /\ pc'[s] = "conflicted"
          /\ UNCHANGED <<ledger, expected>>
      BY <1>1, <1>7, <2>2 DEF TypeOK, CommitLedger, Goto, workspace
    <3>2. Base(s)' = Base(s) /\ Base(s) \in Stores(Entries)
      BY <3>1 DEF Base, IInv, Copied
    <3> QED
      BY <2>2, <3>1, <3>2, ConflictedWasOvertaken
  <2> QED
    BY <2>1, <2>2
<1>8. CASE HandOver(s) \/ Coordinate(s) \/ JobFails(s) \/ ResponseLost(s)
  BY <1>1, <1>8 DEF TypeOK, HandOver, Coordinate, JobFails, ResponseLost, Goto
<1>9. CASE Execute(s)
  <2>1. Goto(s, "failed") \/ Goto(s, "executed")
    BY <1>9 DEF Execute
  <2> QED
    BY <1>1, <2>1 DEF TypeOK, Goto
<1>10. CASE BeginAuto(s) \/ BeginManual(s) \/ CollectArtifact(s) \/ Revalidate(s)
            \/ IssueTicket(s)
  BY <1>1, <1>10 DEF TypeOK, BeginAuto, BeginManual, CollectArtifact, Revalidate,
     IssueTicket, Goto
<1> QED
  BY <1>1, <1>3, <1>4, <1>5, <1>6, <1>7, <1>8, <1>9, <1>10, RunChanges DEF RunStep

(***************************************************************************)
(* A run that committed its entry, or failed after its ticket, stays one   *)
(* of those and keeps its documents.                                       *)
(***************************************************************************)
Settled == {"committed", "admitted", "executed", "published", "failed"}

LEMMA SettledStays ==
    ASSUME TypeOK, [Next]_vars, NEW r \in Runs, pc[r] \in Settled
    PROVE  /\ pc'[r] \in Settled
           /\ UNCHANGED <<request[r], envelope[r], receipt[r], ticket[r]>>
<1> USE DEF Settled
<1>1. CASE Rests(r)
  BY <1>1 DEF Rests
<1>2. CASE HandOver(r) \/ Coordinate(r) \/ JobFails(r)
  BY <1>2 DEF TypeOK, HandOver, Coordinate, JobFails, Goto, workspace
<1>3. CASE Execute(r)
  <2>1. Goto(r, "failed") \/ Goto(r, "executed")
    BY <1>3 DEF Execute
  <2> QED
    BY <1>3, <2>1 DEF TypeOK, Execute, Goto, workspace
<1>4. ~Waits(r) /\ ~ResponseLost(r)
  BY DEF Waits, ResponseLost
<1>5. ~(\/ BeginAuto(r) \/ BeginManual(r) \/ CollectArtifact(r) \/ Revalidate(r)
        \/ IssueTicket(r) \/ FetchLedger(r) \/ SpendTicket(r) \/ CommitLedger(r))
  BY DEF BeginAuto, BeginManual, CollectArtifact, Revalidate, IssueTicket, FetchLedger,
     SpendTicket, CommitLedger
<1> QED
  BY <1>1, <1>2, <1>3, <1>4, <1>5, RunChanges DEF RunStep

LEMMA EntriesKeepTheirRuns ==
    ASSUME IInv, EveryEntryHasItsRun, \A r \in Runs : Admitted(r), [Next]_vars
    PROVE  EveryEntryHasItsRun'
<1> DEFINE Good(r) == pc[r] \in Settled /\ ticket[r] \in Tickets /\ Endorsed(r)
           Owned(x, r) == Good(r) /\ x = Entry(ticket[r])
<1>1. \A i \in DOMAIN ledger.consumed : \E r \in Runs : Owned(ledger.consumed[i], r)
  BY DEF EveryEntryHasItsRun, Settled
<1>2. \A x : \A r \in Runs : Owned(x, r) => Good(r)' /\ x = Entry(ticket'[r])
  BY SettledStays DEF IInv, TInv, Endorsed, Identity
<1>3. \A i \in DOMAIN ledger'.consumed : \E r \in Runs :
        Good(r)' /\ ledger'.consumed[i] = Entry(ticket'[r])
  <2>1. CASE UNCHANGED ledger
    BY <1>1, <1>2, <2>1
  <2>2. CASE \E r \in Runs : Writes(r)
    <3> PICK r \in Runs : Writes(r)
      BY <2>2
    <3> DEFINE old == ledger.consumed
               new == ledger'.consumed
               e   == Entry(ticket[r])
    <3>1. old \in Seq(Entries) /\ e \in Entries /\ new = Append(old, e)
      BY StoreTyped DEF IInv, TInv, TypeOK, Writes
    <3>2. Good(r)' /\ e = Entry(ticket'[r])
      <4>1. Endorsed(r)
        BY DEF Writes, Admitted, AfterIssue, AfterCollect, Running
      <4>2. UNCHANGED <<request, envelope, receipt, ticket>>
        BY DEF Writes
      <4> QED
        BY <4>1, <4>2 DEF Writes, Settled, Endorsed, Identity
    <3> HIDE DEF old, new, e
    <3>3. \A i \in DOMAIN new : (i \in DOMAIN old /\ new[i] = old[i]) \/ new[i] = e
      BY <3>1
    <3>4. \A i \in DOMAIN old : \E q \in Runs : Owned(old[i], q)
      BY <1>1 DEF old
    <3> HIDE DEF Owned, Good
    <3>5. \A i \in DOMAIN new : \E q \in Runs : Good(q)' /\ new[i] = Entry(ticket'[q])
      BY <1>2, <3>2, <3>3, <3>4
    <3> QED
      BY <3>5 DEF new
  <2> QED
    BY <2>1, <2>2, LedgerStep
<1> QED
  BY <1>3 DEF EveryEntryHasItsRun, Settled

\* A validation run, as Dispatch has it, is a ValidationRun.
Completion(v) == INSTANCE ValidationRun WITH record <- validation[v]

LEMMA CompletesOnce ==
    ASSUME NEW v \in Validations, TypeOK, [Next]_vars
    PROVE  [Completion(v)!Succeed \/ Completion(v)!Fail]_(validation[v])
<1> SUFFICES Completion(v)!Succeed \/ Completion(v)!Fail \/ UNCHANGED validation[v]
  OBVIOUS
<1>0. \A x : [validation EXCEPT ![v] = x][v] = x
  BY DEF TypeOK
<1>1. ASSUME ValidationSucceeds(v) PROVE Completion(v)!Succeed
  <2>1. PICK artifact \in Uploads :
           validation' = [validation EXCEPT ![v] =
                             [conclusion |-> "success", artifact |-> artifact]]
    BY <1>1 DEF ValidationSucceeds
  <2> QED
    BY <1>0, <1>1, <2>1 DEF ValidationSucceeds, Completion!Succeed
<1>2. ASSUME ValidationFails(v) PROVE Completion(v)!Fail
  BY <1>0, <1>2 DEF ValidationFails, Completion!Fail
<1>3. ASSUME NEW w \in Validations \ {v}, ValidationSucceeds(w) \/ ValidationFails(w)
      PROVE  UNCHANGED validation[v]
  BY <1>3 DEF ValidationSucceeds, ValidationFails, TypeOK
<1>4. ASSUME UNCHANGED validation PROVE UNCHANGED validation[v]
  BY <1>4
<1>5. CASE \E p \in Paths : MergeRequest(p)
  BY <1>4, <1>5 DEF MergeRequest
<1>6. CASE \E e \in EnvelopePaths : MergeEnvelope(e)
  BY <1>4, <1>6 DEF MergeEnvelope
<1>7. ASSUME NEW r \in Runs, Trigger(r) PROVE UNCHANGED validation
  BY <1>7 DEF Trigger, TriggerAuto, TriggerManual, Enqueue
<1>8. ASSUME NEW r \in Runs, RunStep(r) \/ JobFails(r) \/ ResponseLost(r)
      PROVE  UNCHANGED validation
  BY <1>8 DEF RunStep, BeginAuto, BeginManual, CollectArtifact, Revalidate, IssueTicket,
     FetchLedger, SpendTicket, CommitLedger, HandOver, Execute, Coordinate, JobFails,
     ResponseLost
<1>9. CASE UNCHANGED vars
  BY <1>4, <1>9 DEF vars
<1> QED
  BY <1>1, <1>2, <1>3, <1>4, <1>5, <1>6, <1>7, <1>8, <1>9 DEF Next, Environment

\* Only Execute and Coordinate lead into the coordination job and out of it.
LEMMA CheckedNext ==
    ASSUME IInv, NEW s \in Runs, Checked(s), [Next]_vars
    PROVE  Checked(s)'
<1>1. TypeOK
  BY DEF IInv, TInv
<1> USE DEF Checked, PinRan, TypeOK, Goto
<1>2. CASE Rests(s) \/ Waits(s)
  BY <1>2 DEF Rests, Waits, Executed
<1>3. CASE BeginAuto(s) \/ BeginManual(s) \/ CollectArtifact(s) \/ Revalidate(s)
  BY <1>1, <1>3 DEF BeginAuto, BeginManual, CollectArtifact, Revalidate
<1>4. CASE IssueTicket(s) \/ FetchLedger(s) \/ SpendTicket(s)
  BY <1>1, <1>4 DEF IssueTicket, FetchLedger, SpendTicket, SpendVerdict
<1>5. CASE CommitLedger(s) \/ HandOver(s) \/ JobFails(s) \/ ResponseLost(s)
  BY <1>1, <1>5 DEF CommitLedger, HandOver, JobFails, ResponseLost, workspace
<1>6. CASE Execute(s)
  <2>1. CASE Goto(s, "failed")
    BY <1>1, <1>6, <2>1 DEF Execute
  <2>2. CASE ~Goto(s, "failed")
    <3> DEFINE pin == AdmittedPin(request[s])
    <3>1. PICK native \in {None} \cup
                  SUBSET {LabSchema, Parse[request[s]].native_output_schema.sha256} :
              /\ ran' = [ran EXCEPT ![s] =
                            [repository |-> pin.repository, commit |-> pin.commit,
                             program |-> "runner/run.py", native |-> native]]
              /\ Goto(s, "executed")
      BY <1>6, <2>2 DEF Execute
    <3>2. ran'[s] = [repository |-> pin.repository, commit |-> pin.commit,
                     program |-> "runner/run.py", native |-> native]
      BY <1>1, <3>1
    <3>3. pin = AdmittedPin(request'[s])
      BY <1>6 DEF Execute, workspace
    <3>4. request[s] \in Raw /\ Runnable(request[s])
      BY <1>6, <2>2 DEF Execute, IInv, TInv, Stocked, Running, AfterCollect, AfterIssue
    <3>5. Executed(s)'
      BY <3>1, <3>2, <3>4, ExecutionTyped, NoExecutionAssumption DEF Executed
    <3> HIDE DEF pin
    <3> QED
      BY <1>1, <3>1, <3>2, <3>3, <3>5 DEF Executed
  <2> QED
    BY <2>1, <2>2
<1>7. CASE Coordinate(s)
  BY <1>1, <1>7 DEF Coordinate, workspace, Executed
<1> QED
  BY <1>1, <1>2, <1>3, <1>4, <1>5, <1>6, <1>7, RunChanges DEF RunStep

LEMMA HInvInit == Init => HInv
<1> SUFFICES ASSUME Init PROVE HInv
  OBVIOUS
<1>1. ASSUME NEW r \in Runs PROVE Admitted(r) /\ Remembered(r) /\ Checked(r)
  BY DEF Init, Admitted, Remembered, Checked, Executed, AfterIssue, AfterCollect, Running
<1>2. EveryEntryHasItsRun /\ (ledger.exists => ledger.consumed # <<>>)
  BY DEF Init, Absent, EveryEntryHasItsRun
<1> QED
  BY <1>1, <1>2, IInvInit DEF HInv

LEMMA HInvNext == HInv /\ [Next]_vars => HInv'
<1> SUFFICES ASSUME HInv, [Next]_vars PROVE HInv'
  OBVIOUS
<1>1. IInv'
  BY IInvNext DEF HInv
<1>2. \A r \in Runs : Admitted(r)' /\ Remembered(r)' /\ Checked(r)'
  BY AdmittedNext, RememberedNext, CheckedNext DEF HInv
<1>3. EveryEntryHasItsRun'
  BY EntriesKeepTheirRuns DEF HInv
<1>4. (ledger.exists => ledger.consumed # <<>>)'
  <2>1. CASE UNCHANGED ledger
    BY <2>1 DEF HInv
  <2>2. CASE \E r \in Runs : Writes(r)
    <3>1. ledger.consumed \in Seq(Entries)
      BY StoreTyped DEF HInv, IInv, TInv, TypeOK
    <3> QED
      BY <2>2, <3>1 DEF Writes
  <2> QED
    BY <2>1, <2>2, LedgerStep DEF HInv
<1> QED
  BY <1>1, <1>2, <1>3, <1>4 DEF HInv

(***************************************************************************)
(* In every reachable state the documents in a run's workspace describe    *)
(* one another, and what it read of the ledger is still true of it.        *)
(***************************************************************************)
THEOREM HistoryInductive == Spec => []HInv
BY HInvInit, HInvNext, PTL DEF Spec

(***************************************************************************)
(* No receipt that came with an artifact decides an automatic execution.   *)
(***************************************************************************)
THEOREM AutoRunsAreRevalidated == Spec => []AutoExecutionWasRevalidated
<1>1. HInv => AutoExecutionWasRevalidated
  BY DEF HInv, Admitted, AutoExecutionWasRevalidated
<1> QED
  BY <1>1, HistoryInductive, PTL

(***************************************************************************)
(* What a routine VALIDATED receipt of the default branch's own validator  *)
(* says of the source it fetched at the pin.                               *)
(***************************************************************************)
LEMMA RoutineReceiptVerifies ==
    ASSUME NEW raw, Validated(HostedReceipt(raw)), HostedReceipt(raw).routine
    PROVE  VerifiedIn(SourceOf(Parse[raw]), Parse[raw])
<1> DEFINE q == Parse[raw]
           tree == SourceOf(q)
           checks == Verdict(q, tree, tree)
<1>1. tree # None /\ Routine(q, checks)
  BY DEF Validated, HostedReceipt, Validate
<1>2. q.research_mode = FALSE /\ \A c \in DOMAIN checks : checks[c]
  BY <1>1 DEF Routine
<1>3. /\ checks.schema_conformance
      /\ checks.entrypoint_present
      /\ checks.artifacts_digest_verified
  BY <1>2 DEF Verdict
<1>4. /\ SchemaConforms(q)
      /\ IsFile(tree, q.entrypoint)
      /\ DigestProblems(q, tree) = {}
  BY <1>1, <1>3 DEF Verdict
<1>5. ArtifactProblems(q, tree) = {}
  BY <1>4 DEF DigestProblems
<1>6. \A a \in PinnedArtifacts(q) : ArtifactVerifies(a, tree)
  BY <1>5 DEF ArtifactProblems
<1> QED
  BY <1>2, <1>4, <1>6 DEF VerifiedIn

(***************************************************************************)
(* Whatever executed under the receipt its own pin gives, which automatic  *)
(* runs always do, conforms to the schema, so it ran at that pin.          *)
(***************************************************************************)
LEMMA ExecutedOnItsOwnReceipt ==
    ASSUME HInv, NEW r \in Runs, Executed(r),
           input[r].kind = "auto" \/ receipt[r] = HostedReceipt(request[r])
    PROVE  /\ VerifiedIn(SourceOf(Parse[request[r]]), Parse[request[r]])
           /\ PinIsOneLine(request[r])
<1>1. /\ Endorsed(r) /\ receipt[r] \in Receipts
      /\ receipt[r] = HostedReceipt(request[r])
  BY DEF HInv, Admitted
<1>2. Validated(HostedReceipt(request[r])) /\ HostedReceipt(request[r]).routine
  BY <1>1, NoReceiptAssumption DEF Endorsed, MayIssue, RequestWithinEnvelope, Validated
<1>3. VerifiedIn(SourceOf(Parse[request[r]]), Parse[request[r]])
  BY <1>2, RoutineReceiptVerifies
<1> QED
  BY <1>3, ConformingPinIsOneLine DEF VerifiedIn

LEMMA OneLineRanAtItsPin ==
    ASSUME HInv, NEW r \in Runs, Executed(r), PinIsOneLine(request[r])
    PROVE  RanAtItsPin(r)
<1>1. /\ request[r] \in Raw /\ Parse[request[r]].readable
      /\ PinRan(r)
  BY DEF HInv, IInv, Recorded, Entitled, Admitted, Endorsed, MayIssue
<1> QED
  BY <1>1, OneLinePinIsAdmitted DEF PinRan, RanAtItsPin

(***************************************************************************)
(* What a counterparty was run for is what was admitted, however the       *)
(* default branch changed in the meantime, and at the admitted pin unless  *)
(* a string of several lines came through under another validator's        *)
(* receipt.                                                                *)
(***************************************************************************)
THEOREM RunsWhatWasAdmitted == Spec => []ExecutedAsAdmitted
<1>1. ASSUME HInv, NEW r \in Runs, Executed(r)
      PROVE  /\ Endorsed(r)
             /\ (input[r].kind = "auto" \/ PinIsOneLine(request[r])) => RanAtItsPin(r)
             /\ receipt[r] = HostedReceipt(request[r]) => PinIsOneLine(request[r])
  BY <1>1, ExecutedOnItsOwnReceipt, OneLineRanAtItsPin DEF HInv, Admitted
<1>2. HInv => ExecutedAsAdmitted
  BY <1>1 DEF ExecutedAsAdmitted
<1> QED
  BY <1>2, HistoryInductive, PTL

(***************************************************************************)
(* From end to end: the source that was run had the pinned bytes at every  *)
(* pinned path and the declared entrypoint, and the request was routine,   *)
(* although the validator, the admission and the run each looked at their  *)
(* own copies of the documents, at different times.                        *)
(***************************************************************************)
THEOREM RunsVerifiedSource == Spec => []ExecutedSourceWasVerified
<1>1. ASSUME HInv, NEW r \in Runs, Executed(r),
             input[r].kind = "auto" \/ receipt[r] = HostedReceipt(request[r])
      PROVE  VerifiedIn(Source(ran[r].repository, ran[r].commit), Parse[request[r]])
  <2>1. VerifiedIn(SourceOf(Parse[request[r]]), Parse[request[r]]) /\ PinIsOneLine(request[r])
    BY <1>1, ExecutedOnItsOwnReceipt
  <2>2. RanAtItsPin(r)
    BY <1>1, <2>1, OneLineRanAtItsPin
  <2> QED
    BY <2>1, <2>2 DEF RanAtItsPin, SourceOf
<1>2. HInv => ExecutedSourceWasVerified
  BY <1>1 DEF ExecutedSourceWasVerified
<1> QED
  BY <1>2, HistoryInductive, PTL

(***************************************************************************)
(* For a request that declares what the pilot source has, what is          *)
(* published is what was declared.                                         *)
(***************************************************************************)
THEOREM PilotIsPublishedAsDeclared == Spec => []PilotPublishedAsDeclared
<1>1. ASSUME HInv, NEW r \in Runs, pc[r] = "published",
             DeclaresThePilot(Parse[request[r]])
      PROVE  /\ PublishedAsDeclared(r)
             /\ (input[r].kind = "auto" \/ PinIsOneLine(request[r])) => RanAtItsPin(r)
  <2>1. PublishedAsDeclared(r) /\ Executed(r)
    BY <1>1 DEF HInv, Checked, DeclaresThePilot, PublishedAsDeclared
  <2> QED
    BY <1>1, <2>1, ExecutedOnItsOwnReceipt, OneLineRanAtItsPin
<1>2. HInv => PilotPublishedAsDeclared
  BY <1>1 DEF PilotPublishedAsDeclared
<1> QED
  BY <1>2, HistoryInductive, PTL

(***************************************************************************)
(* A request is burned only by a run whose write went through, and whose   *)
(* documents admitted it.                                                  *)
(***************************************************************************)
THEOREM EntriesAreEarned == Spec => []EveryEntryHasItsRun
<1>1. HInv => EveryEntryHasItsRun
  BY DEF HInv
<1> QED
  BY <1>1, HistoryInductive, PTL

(***************************************************************************)
(* The write is refused only to a run that another run has overtaken.      *)
(***************************************************************************)
THEOREM ConflictsAreReal == Spec => []ConflictMeansOthersProgressed
<1>1. HInv => ConflictMeansOthersProgressed
  BY DEF HInv, Remembered, Base, ConflictMeansOthersProgressed
<1> QED
  BY <1>1, HistoryInductive, PTL

(***************************************************************************)
(* A replay refusal from a stale copy is never wrong.                      *)
(***************************************************************************)
THEOREM ReplaysAreReal == Spec => []ReplayRefusalsAreRight
<1>1. HInv => ReplayRefusalsAreRight
  BY DEF HInv, Remembered, ReplayRefusalsAreRight
<1> QED
  BY <1>1, HistoryInductive, PTL

(***************************************************************************)
(* Suspension: what starts, or is dispatched by hand, under a suspended    *)
(* envelope ends without a ticket, whatever is merged afterwards.          *)
(***************************************************************************)
LEMMA BarredStays ==
    ASSUME IInv, [Next]_vars, NEW s \in Runs, Barred(s)
    PROVE  Barred(s)'
<1> USE DEF Barred, Executed
<1>1. TypeOK
  BY DEF IInv, TInv
<1>2. CASE Rests(s)
  BY <1>2 DEF Rests
<1>3. CASE CollectArtifact(s) \/ Revalidate(s) \/ JobFails(s)
  BY <1>1, <1>3 DEF TypeOK, CollectArtifact, Revalidate, JobFails, Goto, workspace
<1>4. CASE IssueTicket(s)
  <2>1. envelope[s].status # "ACTIVE"
    BY <1>4 DEF IssueTicket
  <2>2. ~MayIssue(request[s], receipt[s], envelope[s])
    BY <2>1 DEF MayIssue, EnvelopeVerifies
  <2> QED
    BY <1>1, <1>4, <2>2 DEF TypeOK, IssueTicket, Goto
<1>5. CASE Waits(s) \/ BeginManual(s)
  BY <1>1, <1>5 DEF Waits, BeginManual, TypeOK, Goto
<1>6. ~(\/ BeginAuto(s) \/ ResponseLost(s) \/ FetchLedger(s) \/ SpendTicket(s)
        \/ CommitLedger(s) \/ HandOver(s) \/ Execute(s) \/ Coordinate(s))
  BY DEF BeginAuto, ResponseLost, FetchLedger, SpendTicket, CommitLedger, HandOver,
     Execute, Coordinate
<1> QED
  BY <1>1, <1>2, <1>3, <1>4, <1>5, <1>6, RunChanges DEF RunStep

LEMMA QueuedIsBarred ==
    ASSUME IInv, [Next]_vars, NEW s \in Runs, AutoWaits(s), Suspended(input[s])
    PROVE  AutoWaits(s)' \/ Barred(s)'
<1> USE DEF AutoWaits, Barred, Executed
<1>1. TypeOK /\ ~Executed(s)
  BY DEF IInv, TInv, Placed
<1>2. CASE Rests(s) \/ Waits(s)
  BY <1>1, <1>2 DEF Rests, Waits
<1>3. CASE BeginAuto(s)
  BY <1>1, <1>3 DEF TypeOK, BeginAuto, Suspended, Goto
<1>4. ~JobFails(s) /\ ~ResponseLost(s) /\ (RunStep(s) => BeginAuto(s))
  BY DEF RunStep, JobFails, ResponseLost, BeginManual, CollectArtifact, Revalidate, IssueTicket,
     FetchLedger, SpendTicket, CommitLedger, HandOver, Execute, Coordinate, Running
<1> QED
  BY <1>1, <1>2, <1>3, <1>4, RunChanges

LEMMA DispatchedIsBarred ==
    ASSUME IInv, [Next]_vars, NEW s \in Runs,
           pc[s] = "idle", pc'[s] # "idle", input'[s].kind = "manual",
           Suspended(input[s]')
    PROVE  Barred(s)'
<1>1. TypeOK /\ ~Executed(s)
  BY DEF IInv, TInv, Placed
<1>2. ~Rests(s) /\ ~RunStep(s) /\ ~JobFails(s) /\ ~ResponseLost(s)
  BY DEF Rests, RunStep, JobFails, ResponseLost, BeginAuto, BeginManual, CollectArtifact,
     Revalidate, IssueTicket, FetchLedger, SpendTicket, CommitLedger, HandOver, Execute,
     Coordinate, Running
<1>3. Waits(s)
  BY <1>1, <1>2, RunChanges
<1> QED
  BY <1>1, <1>3 DEF Waits, Barred, Suspended, Executed

(***************************************************************************)
(* Suspending an envelope is a working rollback path: no run that starts,  *)
(* or is dispatched by hand, under it ever executes.                       *)
(***************************************************************************)
THEOREM SuspensionWorks == Spec => SuspensionStopsLaterRuns
<1> DEFINE Obeyed == \A r \in Runs :
              /\ (AutoWaits(r) /\ Suspended(input[r])) => (AutoWaits(r)' \/ Barred(r)')
              /\ (pc[r] = "idle" /\ pc[r]' # "idle" /\ input[r]'.kind = "manual"
                      /\ Suspended(input[r]')) => Barred(r)'
              /\ Barred(r) => Barred(r)'
<1>1. IInv /\ [Next]_vars => [Obeyed]_vars
  BY BarredStays, QueuedIsBarred, DispatchedIsBarred
<1> QED
  BY <1>1, Inductive, PTL DEF Spec, SuspensionStopsLaterRuns

-----------------------------------------------------------------------------
\* A step that changes no run's standing and not the ledger is a stutter.
LEMMA ContourStutters ==
    ASSUME UNCHANGED ledger,
           \A s \in Runs : /\ Holding(s)' <=> Holding(s)
                           /\ Executed(s)' <=> Executed(s)
                           /\ Entitled(s) => UNCHANGED request[s]
    PROVE  UNCHANGED <<SpentIds, Grants, Made>>
<1>1. UNCHANGED SpentIds
  BY DEF SpentIds
<1>2. UNCHANGED Grants
  BY DEF Grants, Identity, Entitled
<1>3. UNCHANGED Made
  <2>1. {s \in Runs : Executed(s)}' = {s \in Runs : Executed(s)}
    OBVIOUS
  <2>2. \A s \in {t \in Runs : Executed(t)} : Identity(s)' = Identity(s)
    BY DEF Identity, Entitled
  <2> QED
    BY <2>1, <2>2 DEF Made
<1> QED
  BY <1>1, <1>2, <1>3

\* A committed entry spends an identity that was not spent.
LEMMA ContourSpends ==
    ASSUME IInv, NEW r \in Runs, pc[r] = "spent", Accepts(ledger, expected[r]),
           ledger' = Written(local[r])
    PROVE  /\ Identity(r) \in Digests(Raw)
           /\ Identity(r) \notin SpentIds
           /\ SpentIds' = SpentIds \cup {Identity(r)}
<1> DEFINE old == ledger.consumed
           new == ledger'.consumed
           e   == Entry(ticket[r])
<1>1. /\ old \in Seq(Entries) /\ e \in Entries
      /\ new = Append(old, e)
      /\ e.request_sha256 = Identity(r)
      /\ ~RequestDispatched(old, Identity(r))
  BY WriteExtends
<1>2. /\ DOMAIN new = DOMAIN old \cup {Len(old) + 1}
      /\ \A i \in DOMAIN old : new[i] = old[i]
      /\ new[Len(old) + 1] = e
  BY <1>1
<1>3. Identity(r) \in Digests(Raw)
  BY DEF IInv, TInv, Stocked, AfterIssue, AfterCollect, Running, Identity, Sha256, Digests
<1>4. Identity(r) \notin SpentIds
  BY <1>1 DEF SpentIds, RequestDispatched
<1> HIDE DEF old, new, e
<1>5. {new[i].request_sha256 : i \in DOMAIN new}
        = {old[i].request_sha256 : i \in DOMAIN old} \cup {Identity(r)}
  BY <1>1, <1>2
<1> QED
  BY <1>3, <1>4, <1>5 DEF SpentIds, old, new

LEMMA ContourInit == Init => Contour!Init
<1> SUFFICES ASSUME Init PROVE Contour!Init
  OBVIOUS
<1>1. SpentIds = {}
  BY DEF Init, SpentIds, Absent
<1>2. Grants = [r \in Runs |-> None]
  BY DEF Init, Grants, Holding
<1>3. Made = {}
  BY DEF Init, Made, Executed
<1> QED
  BY <1>1, <1>2, <1>3 DEF Contour!Init

\* A run that is past no ticket commits nothing and executes nothing: the
\* abstract state does not see it.
LEMMA ContourQuiet ==
    ASSUME IInv, NEW r \in Runs,
           \/ BeginAuto(r) \/ BeginManual(r) \/ CollectArtifact(r)
           \/ Revalidate(r) \/ IssueTicket(r) \/ FetchLedger(r) \/ SpendTicket(r)
    PROVE  UNCHANGED <<SpentIds, Grants, Made>>
<1> USE DEF BeginAuto, BeginManual, CollectArtifact, Revalidate, IssueTicket,
            FetchLedger, SpendTicket, Goto
<1>1. TypeOK
  BY DEF IInv, TInv
<1>2. ~Executed(r) /\ ~Holding(r)
  BY DEF IInv, Placed, Holding
<1>3. UNCHANGED <<ledger, ran>>
  OBVIOUS
<1>4. pc'[r] \notin {"committed", "admitted"}
  BY <1>1 DEF TypeOK, SpendVerdict
<1>5. \A s \in Runs \ {r} : UNCHANGED <<pc[s], request[s]>>
  BY <1>1 DEF TypeOK
<1>6. \A s \in Runs : /\ Holding(s)' <=> Holding(s)
                      /\ Executed(s)' <=> Executed(s)
                      /\ Entitled(s) => UNCHANGED request[s]
  BY <1>2, <1>3, <1>4, <1>5 DEF Holding, Executed, Entitled
<1> QED
  BY <1>3, <1>6, ContourStutters

\* The write gives its run the grant, or, when the answer is lost, nobody.
LEMMA ContourWrite ==
    ASSUME IInv, NEW r \in Runs, CommitLedger(r) \/ ResponseLost(r)
    PROVE  Contour!Next \/ UNCHANGED <<SpentIds, Grants, Made>>
<1> USE DEF Goto
<1>1. TypeOK /\ pc[r] = "spent" /\ UNCHANGED <<request, ran>>
  BY DEF IInv, TInv, CommitLedger, ResponseLost, workspace
<1>2. UNCHANGED Made
  BY <1>1 DEF Made, Executed, Identity
<1>3. CASE pc' = [pc EXCEPT ![r] = "committed"]
  <2>1. Accepts(ledger, expected[r]) /\ ledger' = Written(local[r])
    BY <1>1, <1>3 DEF TypeOK, CommitLedger, ResponseLost
  <2>2. Grants[r] = None /\ Grants' = [Grants EXCEPT ![r] = Identity(r)]
    BY <1>1, <1>3 DEF Grants, Holding, TypeOK, Identity
  <2>3. Contour!Grant(r, Identity(r))
    BY <1>1, <1>2, <2>1, <2>2, ContourSpends DEF Contour!Grant
  <2> QED
    BY <1>1, <2>1, <2>3, ContourSpends DEF Contour!Next
<1>4. CASE pc' # [pc EXCEPT ![r] = "committed"]
  <2>1. pc' = [pc EXCEPT ![r] = "failed"] \/ pc' = [pc EXCEPT ![r] = "conflicted"]
    BY <1>4 DEF CommitLedger, ResponseLost
  <2>2. UNCHANGED Grants
    BY <1>1, <2>1 DEF Grants, Holding, TypeOK, Identity
  <2>3. CASE ResponseLost(r)
    <3>1. Contour!Burn(Identity(r))
      BY <1>1, <1>2, <2>2, <2>3, ContourSpends DEF ResponseLost, Contour!Burn
    <3> QED
      BY <1>1, <2>3, <3>1, ContourSpends DEF ResponseLost, Contour!Next
  <2>4. CASE CommitLedger(r)
    <3>1. UNCHANGED ledger
      BY <1>4, <2>4 DEF CommitLedger
    <3> QED
      BY <1>2, <2>2, <3>1 DEF SpentIds
  <2> QED
    BY <2>3, <2>4
<1> QED
  BY <1>3, <1>4

\* A run that leaves the committed ledger behind has used its grant or lost
\* it; elsewhere on the way the abstract state does not move.
LEMMA ContourExecutes ==
    ASSUME IInv, NEW r \in Runs,
           HandOver(r) \/ Execute(r) \/ Coordinate(r) \/ JobFails(r)
    PROVE  Contour!Next \/ UNCHANGED <<SpentIds, Grants, Made>>
<1>1. /\ TypeOK /\ Placed(r)
      /\ UNCHANGED <<ledger, request>>
      /\ Holding(r) => Identity(r) # None
  <2>1. Holding(r) => Identity(r) \in Digests(Raw)
    BY DEF IInv, Recorded, Entitled, Identity, Sha256, Digests
  <2> QED
    BY <2>1, NoneAssumption
    DEF IInv, TInv, HandOver, Execute, Coordinate, JobFails, workspace
<1>2. UNCHANGED SpentIds
  BY <1>1 DEF SpentIds
<1>3. CASE HandOver(r) \/ Coordinate(r) \/ (JobFails(r) /\ ~Holding(r))
  <2>1. UNCHANGED ran
    BY <1>3 DEF HandOver, Coordinate, JobFails
  <2>2. \A s \in Runs \ {r} : pc'[s] = pc[s]
    BY <1>1, <1>3 DEF HandOver, Coordinate, JobFails, Goto, TypeOK
  <2>3. Holding(r)' <=> Holding(r)
    BY <1>1, <1>3 DEF HandOver, Coordinate, JobFails, Goto, TypeOK, Holding
  <2>4. \A s \in Runs : /\ Holding(s)' <=> Holding(s)
                        /\ Executed(s)' <=> Executed(s)
                        /\ Entitled(s) => UNCHANGED request[s]
    BY <1>1, <2>1, <2>2, <2>3 DEF Holding, Executed
  <2> QED
    BY <1>1, <2>4, ContourStutters
<1>4. CASE Holding(r) /\ \/ JobFails(r)
                         \/ Execute(r) /\ UNCHANGED ran
  <2>1. UNCHANGED ran
    BY <1>4 DEF JobFails
  <2>2. UNCHANGED Made
    BY <1>1, <2>1 DEF Made, Executed, Identity
  <2>3. pc' = [pc EXCEPT ![r] = "failed"] \/ pc' = [pc EXCEPT ![r] = "executed"]
    BY <1>4 DEF JobFails, Execute, Goto
  <2>4. Grants' = [Grants EXCEPT ![r] = None]
    BY <1>1, <2>3 DEF Grants, Holding, TypeOK, Identity
  <2>5. Contour!Forfeit(r)
    BY <1>1, <1>2, <1>4, <2>2, <2>4 DEF Contour!Forfeit, Grants
  <2> QED
    BY <2>5 DEF Contour!Next
<1>5. CASE Execute(r) /\ ran' # ran
  <2>1. pc[r] = "admitted" /\ ~Executed(r)
    BY <1>1, <1>5 DEF Execute, Placed
  <2>2. PICK x : ran' = [ran EXCEPT ![r] = x] /\ x # None
    <3>1. PICK x : ran' = [ran EXCEPT ![r] = x]
      BY <1>5 DEF Execute
    <3>2. x # None
      BY <1>1, <1>5, <2>1, <3>1 DEF TypeOK, Executed
    <3> QED
      BY <3>1, <3>2
  <2>3. pc' = [pc EXCEPT ![r] = "failed"] \/ pc' = [pc EXCEPT ![r] = "executed"]
    BY <1>5 DEF Execute, Goto
  <2>4. Grants' = [Grants EXCEPT ![r] = None]
    BY <1>1, <2>3 DEF Grants, Holding, TypeOK, Identity
  <2>5. Made' = Made \cup {<<r, Grants[r]>>}
    <3>1. {s \in Runs : Executed(s)}' = {s \in Runs : Executed(s)} \cup {r}
      BY <1>1, <2>2 DEF TypeOK, Executed
    <3>2. Grants[r] = Identity(r)
      BY <2>1 DEF Grants, Holding
    <3>3. \A s : Identity(s)' = Identity(s)
      BY <1>1 DEF Identity
    <3> QED
      BY <3>1, <3>2, <3>3 DEF Made
  <2>6. Contour!Run(r)
    BY <1>1, <1>2, <2>1, <2>4, <2>5 DEF Contour!Run, Grants, Holding
  <2> QED
    BY <2>6 DEF Contour!Next
<1>6. Execute(r) => Holding(r)
  BY DEF Execute, Holding
<1> QED
  BY <1>3, <1>4, <1>5, <1>6

LEMMA ContourNext ==
    IInv /\ [Next]_vars => [Contour!Next]_<<SpentIds, Grants, Made>>
<1> SUFFICES ASSUME IInv, [Next]_vars
             PROVE  Contour!Next \/ UNCHANGED <<SpentIds, Grants, Made>>
  OBVIOUS
<1>1. CASE Environment \/ (\E r \in Runs : Trigger(r)) \/ UNCHANGED vars
  <2>1. UNCHANGED <<ledger, ran, request>>
    BY <1>1 DEF Environment, MergeRequest, MergeEnvelope, ValidationSucceeds,
           ValidationFails, Trigger, TriggerAuto, TriggerManual, Enqueue, branch,
           workspace, vars
  <2>2. \A s \in Runs : Holding(s)' <=> Holding(s)
    <3>1. CASE UNCHANGED pc
      BY <3>1 DEF Holding
    <3>2. CASE \E r \in Runs : Trigger(r)
      <4> PICK r \in Runs : Trigger(r)
        BY <3>2
      <4>1. PICK i : Enqueue(r, i)
        BY DEF Trigger, TriggerAuto, TriggerManual
      <4> QED
        BY <4>1 DEF Enqueue, Holding
    <3> QED
      BY <1>1, <3>1, <3>2 DEF Environment, MergeRequest, MergeEnvelope,
         ValidationSucceeds, ValidationFails, vars
  <2>3. \A s \in Runs : /\ Holding(s)' <=> Holding(s)
                        /\ Executed(s)' <=> Executed(s)
                        /\ Entitled(s) => UNCHANGED request[s]
    BY <2>1, <2>2 DEF Executed
  <2> QED
    BY <2>1, <2>3, ContourStutters
<1>2. ASSUME NEW r \in Runs, RunStep(r) \/ JobFails(r) \/ ResponseLost(r)
      PROVE  Contour!Next \/ UNCHANGED <<SpentIds, Grants, Made>>
  BY <1>2, ContourQuiet, ContourWrite, ContourExecutes DEF RunStep
<1> QED
  BY <1>1, <1>2 DEF Next

(***************************************************************************)
(* The two workflows, with their ledger, implement "a request identity is  *)
(* spent at most once and only its one grant holder runs": every step is   *)
(* a step of that specification or invisible to it.                        *)
(***************************************************************************)
THEOREM Refinement == Spec => ImplementsOneRunPerRequest
BY ContourInit, ContourNext, Inductive, PTL
DEF Spec, ImplementsOneRunPerRequest, Contour!Spec, Contour!vars

-----------------------------------------------------------------------------
(***************************************************************************)
(* The one step of Dispatch that stands for a whole validation run is the  *)
(* step ValidationWorkflow is proved to implement: a conclusion, given     *)
(* once, and with success one of the validator's own artifacts, unless a   *)
(* pull request brought a validator of its own.                            *)
(***************************************************************************)
THEOREM ValidationsCompleteOnce ==
    ASSUME NEW CONSTANT v \in Validations
    PROVE  Spec => Completion(v)!Spec
<1>1. Init => Completion(v)!Init
  BY DEF Init, Completion!Init
<1>2. TypeOK /\ [Next]_vars => [Completion(v)!Succeed \/ Completion(v)!Fail]_(validation[v])
  BY CompletesOnce
<1> QED
  BY <1>1, <1>2, TypeCorrect, PTL DEF Spec, Completion!Spec
=============================================================================
