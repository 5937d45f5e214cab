------------------------------- MODULE Dispatch ------------------------------
(***************************************************************************)
(* The privileged half of the self-service contour, and everything it      *)
(* shares: the default branch (requests and envelopes), the completed      *)
(* validation runs, the durable ledger, and any number of concurrent runs  *)
(* of the two workflows that may execute a counterparty:                   *)
(*                                                                         *)
(*   auto    selfservice-autodispatch.yml, started by the completion of a  *)
(*           validation run;                                               *)
(*   manual  selfservice-admit-and-run.yml, started by hand on a request   *)
(*           path, an envelope path, a validation run and a ticket id.     *)
(*                                                                         *)
(* Both walk the same path, one action per step that can change state or   *)
(* stop the run:                                                           *)
(*                                                                         *)
(*   queued -> checked_out -> collected -> revalidated (auto only)         *)
(*     -> ticketed -> fetched -> spent -> committed -> admitted            *)
(*     -> executed -> published                                            *)
(*                                                                         *)
(* and end early in skipped, cancelled, failed, refused, replayed,         *)
(* dispatched or conflicted.                                               *)
(***************************************************************************)
EXTENDS Admission, LedgerStore, StepOutputs

CONSTANTS
    Runs,           \* runs of the two privileged workflows
    Validations,    \* runs of the validation workflow
    Paths,          \* request paths on the default branch
    EnvelopePaths,  \* envelope paths on the default branch
    AutoEnvelope,   \* env.ENVELOPE of the auto-dispatch workflow
    InitialFiles,   \* the requests on the default branch at first
    InitialEnvelopes,
    LabSchema,      \* digest of pilot-source/schema/out.json on the default branch
    Kinds,          \* which of the two workflows are used
    Maintenance,    \* SUBSET {"files", "envelopes"}: what maintainers edit
    Faults          \* which of FaultKinds may happen

FaultKinds == {"job_fails", "response_lost", "other_validator"}

ASSUME DispatchAssumption ==
    /\ AutoEnvelope \in EnvelopePaths
    /\ InitialFiles \in [Paths -> Raw \cup {None}]
    /\ InitialEnvelopes \in [EnvelopePaths -> EnvelopeDocs]
    /\ Kinds \subseteq {"auto", "manual"}
    /\ Maintenance \subseteq {"files", "envelopes"}
    /\ Faults \subseteq FaultKinds

ASSUME NoneAssumption == None \notin Digests(Raw)

VARIABLES
    files,          \* default branch: the request at each path
    envelopes,      \* default branch: the envelope at each path
    validation,     \* completed validation runs
    ledger,         \* the file on the ledger branch
    pc,             \* where each run is
    input,          \* what each run was started with
    request,        \* per run, the workspace: REQUEST.json or inputs.request
    envelope,       \*   the envelope in the checkout
    receipt,        \*   RECEIPT.json
    ticket,         \*   build/TICKET.json
    local,          \*   build/LEDGER.json
    expected,       \*   build/ledger.sha
    ran             \* the counterparty execution of a run, or None

branch == <<files, envelopes>>
workspace == <<request, envelope, receipt, ticket, local, expected>>
vars == <<branch, validation, ledger, pc, input, workspace, ran>>

Running == {"checked_out", "collected", "revalidated", "ticketed", "fetched",
            "spent", "committed", "admitted", "executed"}

Ended == {"skipped", "cancelled", "failed", "refused", "replayed",
          "dispatched", "conflicted", "published"}

ValidationRecords ==
    [conclusion: {"success", "failure"}, artifact: Artifacts \cup {None}]

\* What github.sha of a run started by hand, the commit of the default branch at
\* that moment, holds at the two paths the run was given.
Shas == [request: Raw \cup {None}, envelope: EnvelopeDocs]

Inputs ==
    [kind: {"auto", "manual"}, validation: Validations, path: Paths \cup {None},
     envelope: EnvelopePaths, ticket_id: TicketIds \cup {None},
     sha: Shas \cup {None}]

SchemaDigests ==
    {LabSchema} \cup {Parse[raw].native_output_schema.sha256 : raw \in Raw}

(***************************************************************************)
(* native is the set of schemas RESULTS.json conforms to, or None when the *)
(* program produced no result.                                             *)
(***************************************************************************)
Executions ==
    [repository: DOMAIN SourceAt,
     commit: ObjectIds,
     program: {"runner/run.py"},
     native: (SUBSET SchemaDigests) \cup {None}]

ASSUME NoExecutionAssumption == None \notin Executions

TypeOK ==
    /\ files \in [Paths -> Raw \cup {None}]
    /\ envelopes \in [EnvelopePaths -> EnvelopeDocs]
    /\ validation \in [Validations -> ValidationRecords \cup {None}]
    /\ ledger \in Stores(Entries)
    /\ pc \in [Runs -> {"idle", "queued"} \cup Running \cup Ended]
    /\ input \in [Runs -> Inputs \cup {None}]
    /\ request \in [Runs -> Raw \cup {None}]
    /\ envelope \in [Runs -> EnvelopeDocs \cup {None}]
    /\ receipt \in [Runs -> Receipts \cup {None}]
    /\ ticket \in [Runs -> Tickets \cup {None}]
    /\ local \in [Runs -> Seq(Entries)]
    /\ expected \in [Runs -> {"blob"} \X (Stores(Entries) \cup {None})]
    /\ ran \in [Runs -> Executions \cup {None}]

Init ==
    /\ files = InitialFiles
    /\ envelopes = InitialEnvelopes
    /\ validation = [v \in Validations |-> None]
    /\ ledger = Absent
    /\ pc = [r \in Runs |-> "idle"]
    /\ input = [r \in Runs |-> None]
    /\ request = [r \in Runs |-> None]
    /\ envelope = [r \in Runs |-> None]
    /\ receipt = [r \in Runs |-> None]
    /\ ticket = [r \in Runs |-> None]
    /\ local = [r \in Runs |-> <<>>]
    /\ expected = [r \in Runs |-> BlobSha(None)]
    /\ ran = [r \in Runs |-> None]

-----------------------------------------------------------------------------
(* The default branch and the validation runs.                             *)

\* A maintainer merges a change of one request file, or its deletion.
MergeRequest(p) ==
    /\ "files" \in Maintenance
    /\ files' \in {[files EXCEPT ![p] = x] : x \in Raw \cup {None}}
    /\ files' # files
    /\ UNCHANGED <<envelopes, validation, ledger, pc, input, workspace, ran>>

\* A maintainer merges a change of an envelope; suspending it is one.
MergeEnvelope(e) ==
    /\ "envelopes" \in Maintenance
    /\ envelopes' \in {[envelopes EXCEPT ![e] = doc] : doc \in EnvelopeDocs}
    /\ envelopes' # envelopes
    /\ UNCHANGED <<files, validation, ledger, pc, input, workspace, ran>>

(***************************************************************************)
(* A validation run completes.  It succeeds with an artifact, one that     *)
(* ValidationWorkflow uploads, or fails and uploads nothing.  A pull       *)
(* request runs the validator it carries, so under "other_validator" the   *)
(* receipt is another revision's: it may call VALIDATED what the default   *)
(* branch's validator does not.                                            *)
(***************************************************************************)
LenientReceipt(raw) ==
    [request_sha256 |-> Sha256(raw), privileged |-> FALSE,
     secrets_available |-> FALSE,
     checks |-> [schema_conformance |-> TRUE, counterparty_commit_resolves |-> TRUE,
                 entrypoint_present |-> TRUE, artifacts_digest_verified |-> TRUE,
                 publication_paths_exact |-> TRUE, no_secret_required |-> TRUE,
                 closed_dependency_posture |-> TRUE],
     outcome |-> "VALIDATED", routine |-> TRUE]

Uploads ==
    ValidatedArtifacts
        \cup {[request |-> raw, receipt |-> LenientReceipt(raw)] :
                 raw \in IF "other_validator" \in Faults THEN Raw ELSE {}}

ValidationSucceeds(v) ==
    /\ validation[v] = None
    /\ \E artifact \in Uploads :
          validation' = [validation EXCEPT ![v] =
                            [conclusion |-> "success", artifact |-> artifact]]
    /\ UNCHANGED <<branch, ledger, pc, input, workspace, ran>>

ValidationFails(v) ==
    /\ validation[v] = None
    /\ validation' = [validation EXCEPT ![v] =
                         [conclusion |-> "failure", artifact |-> None]]
    /\ UNCHANGED <<branch, ledger, pc, input, workspace, ran>>

-----------------------------------------------------------------------------
(* Starting a run.                                                         *)

\* concurrency.group of the two workflows.
Group(i) ==
    IF i.kind = "auto" THEN <<"selfservice-autodispatch", i.validation>>
                       ELSE <<"selfservice-admit", i.path>>

(***************************************************************************)
(* The run enters its concurrency group.  A group holds one pending run:   *)
(* an older one still waiting there is cancelled.                          *)
(***************************************************************************)
Enqueue(r, i) ==
    /\ pc[r] = "idle"
    /\ input' = [input EXCEPT ![r] = i]
    /\ pc' = [s \in Runs |->
                 IF s = r THEN "queued"
                 ELSE IF pc[s] = "queued" /\ Group(input[s]) = Group(i)
                 THEN "cancelled" ELSE pc[s]]
    /\ UNCHANGED <<branch, validation, ledger, workspace, ran>>

\* workflow_run: a validation run has completed, whatever its conclusion.
\* Running a validation again completes it again under the same run id.
TriggerAuto(r, v) ==
    /\ "auto" \in Kinds
    /\ validation[v] # None
    /\ Enqueue(r, [kind |-> "auto", validation |-> v, path |-> None,
                   envelope |-> AutoEnvelope, ticket_id |-> None, sha |-> None])

\* workflow_dispatch on the default branch: the inputs are whatever was typed
\* in, the commit is the branch's of that moment.
TriggerManual(r, v, p, e, id) ==
    /\ "manual" \in Kinds
    /\ Enqueue(r, [kind |-> "manual", validation |-> v, path |-> p,
                   envelope |-> e, ticket_id |-> id,
                   sha |-> [request |-> files[p], envelope |-> envelopes[e]]])

\* Mutant: a run that has ended never leaves its group.
GroupBusyForEver(r) ==
    \E s \in Runs \ {r} :
        pc[s] \in Running \cup Ended /\ Group(input[s]) = Group(input[r])

GroupBusy(r) ==
    \E s \in Runs \ {r} : pc[s] \in Running /\ Group(input[s]) = Group(input[r])

Goto(r, place) == pc' = [pc EXCEPT ![r] = place]

(***************************************************************************)
(* The group is free: the run starts.  An automatic run checks out the     *)
(* default branch as it is now, by name; a manual one the commit it was    *)
(* started at, however long it has waited since.                           *)
(***************************************************************************)
BeginAuto(r) ==
    /\ pc[r] = "queued"
    /\ input[r].kind = "auto"
    /\ ~GroupBusy(r)
    /\ IF validation[input[r].validation].conclusion = "success"
       THEN /\ envelope' = [envelope EXCEPT ![r] = envelopes[input[r].envelope]]
            /\ Goto(r, "checked_out")
       ELSE /\ Goto(r, "skipped")
            /\ UNCHANGED envelope
    /\ UNCHANGED <<branch, validation, ledger, input, request, receipt, ticket,
                   local, expected, ran>>

BeginManual(r) ==
    /\ pc[r] = "queued"
    /\ input[r].kind = "manual"
    /\ ~GroupBusy(r)
    /\ envelope' = [envelope EXCEPT ![r] = input[r].sha.envelope]
    /\ request' = [request EXCEPT ![r] = input[r].sha.request]
    /\ Goto(r, "checked_out")
    /\ UNCHANGED <<branch, validation, ledger, input, receipt, ticket, local,
                   expected, ran>>

-----------------------------------------------------------------------------
(* The admission job.                                                      *)

(***************************************************************************)
(* The validation-receipt artifact is downloaded.  The auto-dispatch run   *)
(* takes the request from it, the manual one only the receipt: its request *)
(* is the file at inputs.request.                                          *)
(***************************************************************************)
ArtifactOf(r) ==
    LET record == validation[input[r].validation]
    IN  IF record = None THEN None ELSE record.artifact

CollectArtifact(r) ==
    /\ pc[r] = "checked_out"
    /\ IF ArtifactOf(r) = None
       THEN Goto(r, "failed") /\ UNCHANGED <<request, receipt>>
       ELSE /\ receipt' = [receipt EXCEPT ![r] = ArtifactOf(r).receipt]
            /\ request' = IF input[r].kind = "auto"
                          THEN [request EXCEPT ![r] = ArtifactOf(r).request]
                          ELSE request
            /\ Goto(r, "collected")
    /\ UNCHANGED <<branch, validation, ledger, input, envelope, ticket, local,
                   expected, ran>>

\* Mutant: the receipt that came with the artifact is taken at its word.
RevalidateNothing(r) ==
    /\ pc[r] = "collected"
    /\ input[r].kind = "auto"
    /\ Goto(r, "revalidated")
    /\ UNCHANGED <<branch, validation, ledger, input, request, envelope, receipt,
                   ticket, local, expected, ran>>

(***************************************************************************)
(* Auto-dispatch only: resolve the pin (which must be a full object id of  *)
(* an owner/name repository), fetch the source there and validate again    *)
(* with the default branch's code.  The receipt of that validation         *)
(* replaces the one collected.                                             *)
(***************************************************************************)
Revalidate(r) ==
    /\ pc[r] = "collected"
    /\ input[r].kind = "auto"
    /\ IF /\ Parse[request[r]].commit \in ObjectIds
          /\ Parse[request[r]].repository \in RepositoryNames
          /\ Validated(HostedReceipt(request[r]))
       THEN /\ receipt' = [receipt EXCEPT ![r] = HostedReceipt(request[r])]
            /\ Goto(r, "revalidated")
       ELSE Goto(r, "failed") /\ UNCHANGED receipt
    /\ UNCHANGED <<branch, validation, ledger, input, request, envelope, ticket,
                   local, expected, ran>>

TicketIdOf(r) ==
    IF input[r].kind = "auto" THEN AutoTicketId(request[r]) ELSE input[r].ticket_id

\* Mutant: the ticket is issued for any request the receipt names.
IssueTicketUnverified(r) ==
    /\ pc[r] = "revalidated" \/ (pc[r] = "collected" /\ input[r].kind = "manual")
    /\ IF request[r] # None /\ receipt[r].request_sha256 = Sha256(request[r])
       THEN /\ ticket' = [ticket EXCEPT ![r] =
                             Ticket(TicketIdOf(r), receipt[r], envelope[r])]
            /\ Goto(r, "ticketed")
       ELSE Goto(r, "refused") /\ UNCHANGED ticket
    /\ UNCHANGED <<branch, validation, ledger, input, request, envelope, receipt,
                   local, expected, ran>>

\* `admission issue`; the file at inputs.request may not exist.
IssueTicket(r) ==
    /\ pc[r] = "revalidated" \/ (pc[r] = "collected" /\ input[r].kind = "manual")
    /\ IF request[r] # None /\ MayIssue(request[r], receipt[r], envelope[r])
       THEN /\ ticket' = [ticket EXCEPT ![r] =
                             Ticket(TicketIdOf(r), receipt[r], envelope[r])]
            /\ Goto(r, "ticketed")
       ELSE Goto(r, "refused") /\ UNCHANGED ticket
    /\ UNCHANGED <<branch, validation, ledger, input, request, envelope, receipt,
                   local, expected, ran>>

\* `ledger_client --mode fetch`
FetchLedger(r) ==
    /\ pc[r] = "ticketed"
    /\ local' = [local EXCEPT ![r] = Fetched(ledger)]
    /\ expected' = [expected EXCEPT ![r] = BlobSha(ledger)]
    /\ Goto(r, "fetched")
    /\ UNCHANGED <<branch, validation, ledger, input, request, envelope, receipt,
                   ticket, ran>>

\* Mutant: the ledger is searched for the ticket but not for its request.
SpendVerdictBlind(r) ==
    IF ~TicketCovers(ticket[r], request[r], envelope[r]) THEN "refused"
    ELSE IF TicketConsumed(local[r], ticket[r]) THEN "replayed"
    ELSE "spent"

\* `admission consume`: against the local copy, which alone it changes.
SpendVerdict(r) ==
    IF ~TicketCovers(ticket[r], request[r], envelope[r]) THEN "refused"
    ELSE IF TicketConsumed(local[r], ticket[r]) THEN "replayed"
    ELSE IF RequestDispatched(local[r], ticket[r].request_sha256) THEN "dispatched"
    ELSE "spent"

SpendTicket(r) ==
    /\ pc[r] = "fetched"
    /\ local' = IF SpendVerdict(r) = "spent"
                THEN [local EXCEPT ![r] = Append(local[r], Entry(ticket[r]))]
                ELSE local
    /\ Goto(r, SpendVerdict(r))
    /\ UNCHANGED <<branch, validation, ledger, input, request, envelope, receipt,
                   ticket, expected, ran>>

\* Mutant: LedgerConflict does not fail the step.
CommitLedgerAnyway(r) ==
    /\ pc[r] = "spent"
    /\ ledger' = IF Accepts(ledger, expected[r]) THEN Written(local[r]) ELSE ledger
    /\ Goto(r, "committed")
    /\ UNCHANGED <<branch, validation, input, workspace, ran>>

\* `ledger_client --mode commit`: the compare-and-swap, never retried.
CommitLedger(r) ==
    /\ pc[r] = "spent"
    /\ IF Accepts(ledger, expected[r])
       THEN ledger' = Written(local[r]) /\ Goto(r, "committed")
       ELSE Goto(r, "conflicted") /\ UNCHANGED ledger
    /\ UNCHANGED <<branch, validation, input, workspace, ran>>

\* The admission record is uploaded and the job succeeds.
HandOver(r) ==
    /\ pc[r] = "committed"
    /\ Goto(r, "admitted")
    /\ UNCHANGED <<branch, validation, ledger, input, workspace, ran>>

-----------------------------------------------------------------------------
(* The counterparty and coordination jobs.                                 *)

(***************************************************************************)
(* The admitted pin as the counterparty job gets it.  The manual workflow  *)
(* echoes the request's strings into its outputs as they are; the outputs  *)
(* of an automatic run are the request's own, for Revalidate has looked.   *)
(***************************************************************************)
AdmittedPin(raw) ==
    Then(Echo("repository", Parse[raw].repository), Echo("commit", Parse[raw].commit))

\* The checkout succeeds, HEAD is the commit admitted (so that is an object id)
\* and the program is there.
Runnable(raw) ==
    LET pin == AdmittedPin(raw)
        tree == Source(pin.repository, pin.commit)
    IN  pin.commit \in ObjectIds /\ tree # None /\ IsFile(tree, "runner/run.py")

(***************************************************************************)
(* The source is checked out at the admitted pin and runner/run.py is run  *)
(* there, whatever entrypoint the request declares.  The result conforms   *)
(* to the lab's schema, to the one the request pins, to both or to         *)
(* neither; or there is none.                                              *)
(***************************************************************************)
Execute(r) ==
    /\ pc[r] = "admitted"
    /\ IF Runnable(request[r])
       THEN \E native \in {None} \cup
                  SUBSET {LabSchema, Parse[request[r]].native_output_schema.sha256} :
               /\ ran' = [ran EXCEPT ![r] =
                            [repository |-> AdmittedPin(request[r]).repository,
                             commit |-> AdmittedPin(request[r]).commit,
                             program |-> "runner/run.py", native |-> native]]
               /\ Goto(r, IF native = None THEN "failed" ELSE "executed")
       ELSE Goto(r, "failed") /\ UNCHANGED ran
    /\ UNCHANGED <<branch, validation, ledger, input, workspace>>

\* Mutant: whatever the program left behind is published.
CoordinateUnchecked(r) ==
    /\ pc[r] = "executed"
    /\ Goto(r, "published")
    /\ UNCHANGED <<branch, validation, ledger, input, workspace, ran>>

(***************************************************************************)
(* The coordination job: the native result is checked against the schema   *)
(* in the default branch's pilot-source, staged, gated and uploaded.  The  *)
(* gate and the scans can only stop it (JobFails).                         *)
(***************************************************************************)
Coordinate(r) ==
    /\ pc[r] = "executed"
    /\ Goto(r, IF LabSchema \in ran[r].native THEN "published" ELSE "failed")
    /\ UNCHANGED <<branch, validation, ledger, input, workspace, ran>>

-----------------------------------------------------------------------------
(* What can go wrong around the steps.                                     *)

\* A step fails for a reason of its own, or its job reaches timeout-minutes.
JobFails(r) ==
    /\ "job_fails" \in Faults
    /\ pc[r] \in Running
    /\ Goto(r, "failed")
    /\ UNCHANGED <<branch, validation, ledger, input, workspace, ran>>

\* Mutant: a write whose answer is lost is tried again from the fetch.
ResponseLostRetried(r) ==
    /\ "response_lost" \in Faults
    /\ pc[r] = "spent"
    /\ Accepts(ledger, expected[r])
    /\ ledger' = Written(local[r])
    /\ Goto(r, "ticketed")
    /\ UNCHANGED <<branch, validation, input, workspace, ran>>

\* The PUT is applied and its answer never arrives: urlopen raises, the step
\* fails, and nothing undoes the write.
ResponseLost(r) ==
    /\ "response_lost" \in Faults
    /\ pc[r] = "spent"
    /\ Accepts(ledger, expected[r])
    /\ ledger' = Written(local[r])
    /\ Goto(r, "failed")
    /\ UNCHANGED <<branch, validation, input, workspace, ran>>

RunStep(r) ==
    \/ BeginAuto(r) \/ BeginManual(r)
    \/ CollectArtifact(r) \/ Revalidate(r) \/ IssueTicket(r)
    \/ FetchLedger(r) \/ SpendTicket(r) \/ CommitLedger(r) \/ HandOver(r)
    \/ Execute(r) \/ Coordinate(r)

Trigger(r) ==
    \/ \E v \in Validations : TriggerAuto(r, v)
    \/ \E v \in Validations, p \in Paths, e \in EnvelopePaths, id \in TicketIds :
          TriggerManual(r, v, p, e, id)

Environment ==
    \/ \E p \in Paths : MergeRequest(p)
    \/ \E e \in EnvelopePaths : MergeEnvelope(e)
    \/ \E v \in Validations : ValidationSucceeds(v) \/ ValidationFails(v)

Next ==
    \/ Environment
    \/ \E r \in Runs : Trigger(r) \/ RunStep(r) \/ JobFails(r) \/ ResponseLost(r)

Spec == Init /\ [][Next]_vars

(***************************************************************************)
(* A runner is found for every run whose group is free, and a job's steps  *)
(* are executed one after the other, each within timeout-minutes.  Nothing *)
(* is assumed of maintainers, submitters or validation runs.               *)
(***************************************************************************)
FairSpec == Spec /\ \A r \in Runs : WF_vars(RunStep(r))
=============================================================================
