# A TLA+ model of the interop test lab

The lab lets two parties compare implementations without either one handing the
other anything it must not have. Its core is the *self-service contour*: a
submitter opens a pull request with an interoperability request; an unprivileged
workflow validates it; a privileged workflow admits it under a standing envelope,
spends a one-run ticket against a durable ledger, executes the counterparty's
program in a domain that holds nothing else, and publishes what the publication
gate lets through. Beside it runs the *hosted leg*, one exercise between two
parties in two domains. This directory models both, with the programs they call,
checks them with TLC on small instances, and proves their safety with TLAPS for
every instance: above all *one run per request*.

## 1. The system

Paths are relative to the repository. "Model" names the module, or says why there
is none.

| Component | Source | Its state | Its operations | Model |
|---|---|---|---|---|
| Request validator | `selfservice/impl/selfservice/validate_request.py`, `model.py`, `selfservice/INTEROP-REQUEST.schema.json` | none; a receipt file | `validate`, exit code | Validator (functions), ValidateCommand (the command) |
| Validation workflow | `.github/workflows/selfservice-validate.yml` | the checkout, `build/RECEIPT.json`, `build/REQUEST.json`, the `validation-receipt` artifact | resolve the request, fetch its pin, validate, carry, upload | ValidationWorkflow |
| Admission | `selfservice/impl/selfservice/admission.py` | none; reads request, receipt, envelope, ticket and ledger | `verify_envelope`, `request_within_envelope`, `issue_ticket`, `consume_ticket` | Admission (functions), called by Dispatch |
| Ledger client | `selfservice/impl/ledger_client.py` | a file on the `selfservice-ledger` branch, its blob sha | `fetch`, compare-and-swap `put` | LedgerStore, called by Dispatch |
| Auto-dispatch workflow | `.github/workflows/selfservice-autodispatch.yml` | per run: a workspace, a place; the concurrency group | started by a completed validation run; revalidate, issue, fetch, consume, commit, execute, coordinate | Dispatch |
| Admit-and-run workflow | `.github/workflows/selfservice-admit-and-run.yml` | as above | the same path, started by hand on typed inputs | Dispatch |
| Publication gate, staging, post-gate check | `tools/publication_gate.py`, `tools/staging.py`, `tools/post_gate_check.py` | the staging tree, the manifest in it | walk and admit, freeze, verify | Publication |
| Disclosure scan | `tools/disclosure_scan.py` | none | walk, read, decide which matches are findings, verdict | DisclosureScan (one file), Publication (the loop) |
| Hosted interop leg | `.github/workflows/interop-hosted.yml` | two jobs' workspaces, the artifact between them | counterparty domain, pins, infrastructure, exercise, cross-check, publication | HostedLeg; its last four steps in Publication |
| Party harness | `tools/party_counterparty.py` | one result per case | run each case with a timeout, record | PartyDomain (functions), called by HostedLeg |
| Native cross-check | `tools/ingest_native.py` | none | take untrusted results, compare identities | PartyDomain (functions), called by HostedLeg |
| Experiment staging | `tools/stage_experiment.py` | the tooling checkout | copy the declared inputs | StageExperiment (functions), called by HostedLeg |
| Routing rubric | `selfservice/routing.py`, `ROUTING.md`, `INTAKE-MODEL.md` | none | nine facts to a route | Routing |
| Hostile-party probe | `tools/hostile_party.py` | a publication tree, if it reaches one | six attempts on its domain | HostileParty |
| Pilot source, issue form, checks workflow, `interop_core` | `selfservice/pilot-source/`, `.github/workflows/checks.yml`, ... | - | - | not modelled: sample data, a form and CI; `interop_core` is private and not in the repository |

### How they interact

* The validation workflow and the dispatch workflows share no process. They meet
  in three places: the default branch (request files, envelopes), the artifact of
  a completed validation run, and `workflow_run`, which starts an auto-dispatch
  run whenever a validation run completes, whatever its conclusion.
* All dispatch runs of both workflows share one ledger file. Their concurrency
  groups do not meet: `selfservice-autodispatch-<validation run>` and
  `selfservice-admit-<request path>` are different groups even for one request,
  so nothing but the ledger's compare-and-swap keeps two runs apart.
* Inside a run, jobs hand over by artifact: admission record to the counterparty
  job, native result to the coordination job, staged evidence to the upload.
* The two jobs of the hosted leg share nothing but the `counterparty-native`
  artifact, which outlives an attempt of a job: a re-run of the coordination job
  finds the native result of an earlier attempt of the counterparty job.
* Every job that publishes ends with the same four steps, on its own tree.

### What is hard here

1. *Two runs consume for one request.* Both fetch the ledger, both find the
   request unspent, both append to their own copy. (`admission.py:138`,
   `ledger_client.py:116`)
2. *A write whose answer is lost*, and a job that dies between the durable commit
   and the execution. Nothing rolls the ledger back.
3. *State read early and used late*: the envelope and the request file of the
   checkout (of the commit at which a manual run was *dispatched*, however long it
   has waited since), the ledger copy, the receipt of another revision's validator.
4. *Which request is meant*: a pull request may add, modify, delete and rename;
   a fallback once answered for the wrong one. And path and pin reach the later
   steps through `$GITHUB_OUTPUT`, a file of lines, into which the strings of the
   request are echoed as they are. (`selfservice-validate.yml:78`,
   `selfservice-admit-and-run.yml:135`)
5. *The gate reads a tree several times*: walk, walk again, hash, scan, verify;
   a process beside it can act between any two reads.
6. *The hosted leg depends on what it does not control*: upstream pushes between
   checkout and comparison, a runner that hangs, prints rubbish or leaves a process
   behind that replaces the harness's records before they are uploaded, credentials that come and go between attempts, an experiment directory
   that is not the declared one. (`interop-hosted.yml:58`, `:95`, `:170`,
   `party_counterparty.py:93`, `ingest_native.py:83`, `stage_experiment.py:71`)
7. *Progress*: a lost compare-and-swap is final, a concurrency group serialises,
   a newer pending run cancels an older one.

`PROJECT.json` lists every hazard at its line with the properties that cover it,
or the reason none does yet.

### What makes each component correct

* Validator: exit 0 for exactly the requests that may be considered; outcome and
  routine never disagree; only sound requests go to design review; a check that
  was not made is not reported as passed (it is: see Findings).
* Validation workflow: an artifact exists only for a VALIDATED request; it is about
  the submitted request in its exact bytes, at its pin, when that pin is one line; a
  conforming submission gets one.
* Admission, ledger and dispatch: one run per request; the ledger only grows and
  names a request once; nothing executes that was not durably spent, admitted and
  (on the automatic path) revalidated; the pin that runs is the admitted one; refusals
  and conflicts are justified; suspending an envelope stops the automatic runs that
  start and the manual runs that are dispatched later; contention never stops everyone.
* Publication: the artifact matches its manifest, holds only admitted files, and
  every byte of it was scanned, and what the scan could object to is written down
  for that very path; what may be published is.
* Hosted leg: what is published was executed at the pin, case by case, unless the
  counterparty replaced its own records, and agrees in any case with the run published
  with it; unavailability is never mixed with a result; the
  exercise runs on the declared inputs or not at all; a leg always ends, and one
  whose results agree is published.
* Routing: privacy first; the automatic route needs everything; an operational gap
  is not research.
* Probe: where a publication tree is in reach it succeeds, and leaves another tree.

## 2. The modules

```
Validator ------+-- ValidateCommand -- MCValidateCommand, ValidateCommandProofs
                +-- StepOutputs +-- ValidationWorkflow -- MCValidationWorkflow, ValidationWorkflowProofs
                |               |     ValidationRun (INSTANCE in ValidationWorkflow and DispatchProofs)
                +-- Admission --+
LedgerStore --------------------+-- Dispatch -- DispatchProperties -- DispatchInvariant --+-- MCDispatch
OneRunPerRequest (INSTANCE in DispatchProperties)                                         +-- DispatchProofs
OneRunPerRequest -- OneRunPerRequestProofs
DisclosureScan -- Publication -- MCPublication, PublicationProofs
                    AtomicPublication (INSTANCE in Publication)
PartyDomain -----+
StageExperiment -+-- HostedLeg -- MCHostedLeg, HostedLegProofs
                       OneLeg (INSTANCE in HostedLeg)
Routing, HostileParty (functions with their theorems)
```

**Validator.** `Validate(raw, source_root, entrypoint_root)` is `validate()`: the
seven checks, the digest comparison, the chain of outcomes, `routine`. A request
file is an element of `Raw`, standing for its exact bytes; `Parse[raw]` is what
the bytes decode to. Two files may decode to one document and remain two requests,
because a request's identity is the digest of its bytes. `Sha256` is injective.
Schema clauses nothing else looks at are one Boolean, `structure_ok`.

**ValidateCommand.** One run of the command over all combinations of arguments.

**StepOutputs.** `echo "name=$value" >> "$GITHUB_OUTPUT"`, the way two of the workflows
hand the strings of a request from step to step. A string is its first line and what
its further lines assign (`Lines`); of several assignments to a name the last counts
(`Then`). What the schema's patterns admit, an object id or an owner/name, is one line
(`PatternsAssumption`). The auto-dispatch workflow holds the strings against those
patterns before it echoes them; the other two do not look.

**ValidationWorkflow.** One run, one action per step, from the trigger to the
artifact. A submission is a diff status per path (unchanged, added, modified,
deleted, renamed) and the files of the merged head. `outputs` is what the first step
echoed; the source that is fetched and the file that is validated and carried are
looked up there, wherever a line of the request has put them.

**ValidationRun** is that workflow as the event `workflow_run` shows it, in one step:
no record, then one conclusion, never revised, and with success an artifact out of
`Uploads`. ValidationWorkflow implements it with the artifacts the validator writes for
a request at some source tree (`ValidatedArtifacts`; at the request's own pin when that is
one line, UploadedOnlyWhenValidated); Dispatch implements it, for each
of its validation runs, with those and, under `other_validator`, the receipts another
revision of the validator may have written.

**Admission.** `MayIssue` and `Ticket` are `issue_ticket`; `TicketCovers`,
`TicketConsumed`, `RequestDispatched` and `Entry` are `consume_ticket` in the
order its refusals are tried. `AutoTicketId` is what the auto-dispatch workflow
derives from the request bytes.

**LedgerStore.** The ledger file, its blob sha (equal exactly when the content
is), `--mode fetch` and the condition under which the PUT of `--mode commit` is
accepted.

**Dispatch.** Any number of runs of both workflows. `pc[r]` is the step a run has
passed, the other per-run variables are its workspace (`request` is `REQUEST.json`
or the file at `inputs.request`, `local` is `build/LEDGER.json`, `expected` is
`build/ledger.sha`, and so on). One action per step that changes state or can stop
the run:

| Action | Step |
|---|---|
| `MergeRequest`, `MergeEnvelope` | a maintainer's merge (external) |
| `ValidationSucceeds`, `ValidationFails` | a whole run of ValidationWorkflow, which implements this one step (ValidationRun) |
| `TriggerAuto`, `TriggerManual` | `workflow_run`, `workflow_dispatch`; entering the concurrency group cancels the older pending run |
| `BeginAuto`, `BeginManual` | the group is free; the checkout: of the default branch as it is now, or of the commit at which the run was dispatched (`input[r].sha`) |
| `CollectArtifact` | the validation artifact is downloaded |
| `Revalidate` | auto only: pin, fetch, validate again with trusted code |
| `IssueTicket` | `admission issue` |
| `FetchLedger`, `SpendTicket`, `CommitLedger` | `ledger_client fetch`, `admission consume`, `ledger_client commit` |
| `HandOver` | the admission record is uploaded |
| `Execute`, `Coordinate` | the counterparty job, at the pin as the outputs have it (`AdmittedPin`), failing where nothing is `Runnable`; the coordination job |
| `JobFails`, `ResponseLost` | a step fails or times out; the PUT is applied and its answer lost |

**DispatchProperties**, **DispatchInvariant** hold the properties and the inductive
invariant. **OneRunPerRequest** is the abstract specification: identities are spent
once, spending gives one run the grant, the holder runs or loses it. Dispatch
implements it with `spent` as the identities the ledger names, `grant` as the runs
between the committed ledger and the start of the counterparty, and `ran` as the
executions.

**Publication.** One job from the staged tree to the upload; each walk of the tree
and each reading of a file is a step. Beside it there may be a *writer*, the
"process still running in the background" of `post_gate_check.py`, that changes
files, or the manifest with its files, while a window is open: `gate` (until the
manifest is written) or `scan` (from then until the check walks the tree). The scan
reads the manifest as it reads every file (`ScanManifest`): a name may be something it
objects to, at the manifest's own path.

**AtomicPublication** is what such a job promises, with no walks and no loops: one look
at the tree, which decides and uploads what it saw. `voided` says which of the two
promises (admission, scan) a writer takes away, and is a function of the writer:
`Voided`. Publication implements it with `open` as "the job has not ended".

**DisclosureScan.** Which of the matches in a file are findings. What a regular
expression matches in a text (a family, and the name, id or word it is looked up
by) is given by the constant `Matches`; `IsFinding` is what the code decides about
it: the families asked for, the public repositories, the known ids, the protected
values, the exceptions for a rule at a path. Publication scans with all families
and no exclusions, as the workflows call it.

**PartyDomain.** What a case comes to: `RunCase` for every end of the runner (exit
0, 3, 4 or another, timeout). And what the other domain makes of the artifact:
`LoadsIncoming`, `Observed` (the last entry of a case counts), `Agrees`, `Accepts`.

**StageExperiment.** `IsExact` and `IsStaged` are the refusals of `stage`; `Into` is
the tooling directory it leaves behind, also when it refuses midway.

**HostedLeg.** One run of the leg. `pc` is the next step:

| Action | Step |
|---|---|
| `Push` | the owner of the counterparty's repository pushes (external) |
| `FetchSubject`, `VerifyPin` | checkout of the branch head; comparison with `pins.json` |
| `ExecuteCase`, `WriteResults`, `CannotExecute` | the harness: one case, both records, or an end without a record |
| `Overwrite` | a process the counterparty's program left behind puts other records where the harness wrote its own, removes them, or writes beside them (external) |
| `HandOver` | the two files are uploaded as they are on the disk; the coordination job may start |
| `CheckInfrastructure` | pin and credentials: refused, unavailable, or on |
| `FetchTooling` | token, tooling at its pin, the WEXP party, the artifact, the frozen cases |
| `StageInputs`, `RunExercise`, `CrossCheck`, `StageCandidate` | the steps of these names; what the private framework records is arbitrary |
| `Publish` | the four steps Publication models |
| `StepFails` | a step fails by itself, or the job reaches timeout-minutes |
| `Rerun` | the failed jobs are started again on fresh machines (the counterparty's only if it left no artifact) |

**OneLeg** is the leg without jobs, domains or attempts: the counterparty is run once,
over all cases, at the pin, and one statement is made: unavailable, or the results of
that run with a record it describes. Between the two the counterparty may put another
record in place of its own (`Forgeries`), which must agree all the same. HostedLeg
implements it with `ran` as what the harness had written when the artifact was taken (the
history variable `written`) and `handed` as the artifact.

**Routing**, **HostileParty.** A case is the set of facts that hold of it; a domain
is what the probe finds around it. Both are functions with theorems about all their
arguments, which no finite instance could say, so there is no run for them.

Operators called "Mutant: ..." next to a definition are plausible wrong versions
of it, used to show that each property can fail; no specification uses them.

## 3. What TLC checks

| Run | Module / cfg | Shows |
|---|---|---|
| validate_command | MCValidateCommand / ValidateCommand | every combination of a request's deviations, both roots: the exit code, `routine` and design review mean what they are taken to mean |
| validation_workflow | MCValidationWorkflow / ValidationWorkflow | any pull request or manual start over two paths and six files, one with a commit of three lines, steps that fail: VALIDATED only; the artifact's request is the one submitted, at its pin, if the pin is one line; a conforming submission is uploaded; the run implements ValidationRun |
| dispatch_race | MCDispatch / DispatchRace | three runs of both workflows, two conforming requests, two validations, failures and lost answers: one run per request, append-only ledger, justified refusals and conflicts, the inductive invariant HInv (its first part is the type invariant), the refinement |
| dispatch_admission | MCDispatch / DispatchAdmission | six requests (inside the envelope, another commit, research mode, too high a ceiling, stale digests, a commit of two lines), files and envelopes that change, receipts of another validator: what executes was admitted and ran at its pin, unless the manual path took that from a string no conforming request has; at that pin every pinned artifact was verified; what is published for a request that declares the pilot is what it declares; suspension works |
| dispatch_live | MCDispatch / DispatchLive | two runs, two requests, one of which pins a commit without runner/run.py, fairness: every run ends; a ticket leads to execution, a lost race or a pin with nothing to run; somebody always gets that far |
| publication | MCPublication / Publication | every staging tree over four paths, one not admitted and one with a name the scan objects to in the manifest, with every writer: which promise survives which writer; a publishable tree is published; the job implements AtomicPublication |
| hosted_leg | MCHostedLeg / HostedLeg | one leg with three case sets, the exact experiment directory and each way of not being it, three upstream commits, an answer of every kind, records replaced on the disk, missing infrastructure, one re-run: what is published is of the pin and, unless replaced, of the harness; it agrees with the run published with it in any case; the exercise runs on a complete staging only; every leg ends, an agreeing one is published; the leg implements OneLeg |
| checks_reported, conforming_request_lost, unadmitted_commit, other_declaration, changes_after_the_gate | see Findings | five disagreements between code and documentation, each with a counterexample |

### Bounds and why they are enough

* *Runs.* The ledger and `Group` are the only places where runs meet, and both
  treat runs alike. Three runs give a winner, a loser that fetched before and one
  that fetches after; a group with a running, a pending and a superseding run.
  Two are enough for one run's dependence on its inputs (dispatch_admission) and
  for contention between two different requests (dispatch_live).
* *Requests.* Two are needed for contention without a common identity; `twin` has
  the same document as `plain` in other bytes, so that nothing can depend on the
  document where it should depend on the bytes. The six of dispatch_admission
  each miss admission for one reason or, like `moved`, do not although one might
  expect it; `twoline` gets to a ticket only on another validator's receipt. In
  dispatch_live `bare` declares another entrypoint and pins a commit without
  runner/run.py; with a third request the liveness check would take too long.
* *Validations.* Two, so that two auto runs can have different groups or the same.
* *Paths, envelope paths, typed ticket ids.* One of each in the dispatch runs: a
  path only selects what was typed in, and `MergeRequest` changes what is there.
* *Strings.* A string of several lines matters by what it assigns after its first
  line: to another name (`twoline`), or to another path and to its own name again
  (`threeline`), so that the later assignment has to win.
* *ValidationWorkflow* has two paths: none, one and several changed requests.
* *Publication* has three admitted paths and one that is not; a content is
  not text, or names an id that is a declared pin and holds a word that is let pass
  at the admitted paths only, so that its path decides whether it is clean, and one
  admitted path holds that word in its name. A loop over several files has a read
  before and after every change of another file. `Placeable` bounds which contents
  are put where (what is not text only at one path) and `Forgeable` which manifests a
  writer comes up with.
* `DispatchRace` and `DispatchAdmission` use symmetry over runs and validations;
  they check invariants and action properties only. `DispatchLive` uses none.
* The two walks, the digest and the size of a file are one read each, and the
  writer of Publication writes regular files only and stops before the check has
  read the manifest: nothing in the code could notice a change after that
  (hazard `atomicity`).

* *HostedLeg* has a case that answers in every way and one that always times out; a
  case frozen twice; a case with no request in the party's format. Two timeouts
  exhaust the job (`JobMinutes` = 2, ten in the workflow), so that both sides of that
  bound are reached with few cases. The pinned commit, one that answers differently and
  one without a runner cover what a push can do. `Forgeries` has a failed case with a
  result, entries in another order with one case twice, a record that cannot be read,
  one file missing and both; an undeclared file is beside them. One re-run
  (`MaxReruns`) gives an attempt before and one after.

Dispatch configurations set `CHECK_DEADLOCK FALSE`: when every run has been used
and has ended, the bounded system has really nothing left to do.

### Fairness

* Dispatch: `WF_vars(RunStep(r))` for each run. A runner is found for a run whose
  group is free, the steps of a job are executed in order, and `timeout-minutes`
  bounds each job. Maintainers, submitters and validation runs owe nothing.
  `RunStep` leaves out JobFails and ResponseLost, and with `Faults = {}` in
  dispatch_live neither happens: the liveness properties are about contention,
  not about failures (a failed job ends its run in one step).
* ValidationWorkflow, Publication and HostedLeg: `WF_vars(Step)`, for the same reason. A step
  that fails by itself goes to `stopped`, so that "unless a step fails by itself"
  can be said; the writer, the upstream that pushes, the process a runner leaves behind
  and whoever starts failed jobs again have no fairness.

## 4. What is proved

Every invariant, action property and refinement of every passing run is a theorem, for every value of the
constants, under the named assumptions of the modules and nothing else: any number
of runs, requests, envelopes, files, cases, commits and ledger entries.

| Module | Theorem | Statement |
|---|---|---|
| DispatchProofs | TypeCorrect, Inductive, HistoryInductive | `Spec => []TypeOK`, `[]IInv`, `[]HInv` |
| | OneExecution, LedgerUnique, SpentBeforeExecution, LedgerGrows | `[]AtMostOneExecution`, `[]LedgerNamesEachRequestOnce`, `[]ExecutedWasSpent`, `LedgerAppendOnly` |
| | RunsWhatWasAdmitted, AutoRunsAreRevalidated | `[]ExecutedAsAdmitted`, `[]AutoExecutionWasRevalidated` |
| | RunsVerifiedSource, PilotIsPublishedAsDeclared | `[]ExecutedSourceWasVerified`, `[]PilotPublishedAsDeclared` |
| | EntriesAreEarned, ConflictsAreReal, ReplaysAreReal | `[]EveryEntryHasItsRun`, `[]ConflictMeansOthersProgressed`, `[]ReplayRefusalsAreRight` |
| | SuspensionWorks | `SuspensionStopsLaterRuns`, an action property |
| | Refinement | `ImplementsOneRunPerRequest` |
| | ValidationsCompleteOnce | each `validation[v]` implements ValidationRun |
| OneRunPerRequestProofs | OneRun | `[]AtMostOneRun` of the abstract specification |
| ValidateCommandProofs | TypeCorrect, VerdictsNeverDisagree, ReviewComesAfterTheDigests, ExitZeroIsExact | `[]TypeOK`, `[]RoutineIffValidated`, `[]ReviewedRequestsAreSound`, `[]ExitZeroIffMayBeConsidered` |
| | ConformingReportsAreTrue | `[]ReportedAfterTheSchema`: how far finding 1 goes |
| ValidationWorkflowProofs | TypeCorrect, UploadedWasSubmitted, UploadedWasValidated | `[]TypeOK`, `[]UploadedIsWhatWasSubmitted`, `[]UploadedOnlyWhenValidated` |
| | CompletesAsOneStep | `ImplementsValidationRun` |
| PublicationProofs | TypeCorrect, ArtifactIsAsDeclared, OnlyTheAllowlistLeaves, EveryUploadedByteWasScanned | `[]TypeOK`, `[]UploadedMatchesManifest`, `[]UploadedWasAdmitted`, `[]UploadedWasScanned` |
| | PublishesAtOnce | `ImplementsAtomicPublication` |
| | FewerFamiliesFindLess, CredentialsAreNoDecision, ExceptionsAreForOnePath | about the scan of one file |
| HostedLegProofs | TypeCorrect, NativeResultsAreOfThePin, EvidenceDescribesOneRun, UnavailableIsNoResult, OnlyDeclaredInputsCross | `[]TypeOK`, `[]PublishedRanAtThePin`, `[]PublishedAgreesWithTheRun`, `[]UnavailableSaysOnlyThat`, `[]ExerciseRanOnDeclaredInputs` |
| | LegIsOneRun | `ImplementsOneLeg` |
| Routing | RouteFromTheFacts, AutomaticNeedsEverything, PrivacyFirst, OperationalGapIsNotResearch | about every case |
| HostileParty | CoLocatedIsBreached | about every domain |

The assumptions say that constants are of their sets (`DispatchAssumption`,
`PublicationAssumption`, `ScanAssumption`, `HostedAssumption`, `StageAssumption`,
`PartyAssumption`, `PathsAssumption`, `FaultsAssumption`, `RootsAssumption`,
`LinesAssumption`, `PinsAssumption`), that two members of a parsed request are Booleans
(`ParseAssumption`, `ModeAssumption`), that what the schema's patterns admit is one line
(`PatternsAssumption`) and that "nothing" is none of the things it is distinguished from
(`NoneAssumption`, `NoReceiptAssumption`, `NoExecutionAssumption`,
`NoStringAssumption`). TLC evaluates each.

### One run per request

AtMostOneExecution is not inductive: it says nothing of a run that
holds a committed ticket and has not executed. The inductive invariant `IInv` is

* `TInv`: types, and what is in a run's workspace at each place (`Started`,
  `Stocked`). From the ticket on, the ticket's `request_sha256` is the digest of
  the request in the workspace; this is what ties an entry to an execution.
* `Copied`: a fetched copy is the list of the store whose blob sha is remembered;
  a spent copy is that list with the entry appended, and that list did not have
  the identity.
* `Recorded`: a run that may execute, or has, finds its entry in the ledger.
* `Placed`: an execution is behind its run.
* `EntitledOnce`: no two runs are entitled (holding or executed) by one request.
* `LedgerNamesEachRequestOnce`.

The decisive step is `IInvWrite`/`IInvCommit`: when the PUT is accepted, the
remembered blob sha is the ledger's, so (Copied) the ledger lacks the identity
being written, so (Recorded) no other run is entitled by it. Every other action
either does not touch the ledger and entitlement (`IInvFrame`) or moves one run
forward. LedgerGrows and Refinement follow from the same facts: the only steps that
write the ledger append one entry with a new identity, which is the abstract
`Grant`, or `Burn` when the answer is lost.

### What a run's documents and the ledger owe to the past

`HInv` adds to `IInv`

* `Admitted`: from the ticket on, request, receipt and envelope of the workspace
  satisfy MayIssue and the ticket names both digests; from the revalidation on, the
  receipt of an automatic run is the default branch's own; what ran is the pin the
  outputs of the admission job name (`PinRan`).
* `Remembered`: the store a run fetched is a prefix of the ledger, strictly so once
  it was refused the write; a replay refusal is true of the ledger.
* `Checked`: an executed run's record is of runner/run.py at that pin, and
  what is published conforms to the lab's schema.
* EveryEntryHasItsRun (with documents that still admit the request it burns), and that a
  ledger that exists has an entry.

A step is seen from one run s (`RunChanges`): it leaves s at rest, queues or cancels
it while it waits, or is a step of s. `LedgerKeeps` carries what s knew of the ledger
over a step of another run. A conflict means the remembered store differs from the
ledger; as it is a prefix, and an existing ledger is never empty, it is a strict one
(`ConflictedWasOvertaken`). An entry found in the copy under the ticket's digest
belongs to a run with the same ticket, so the request is spent (`RefusedWasSpent`).
SuspensionWorks needs no more than IInv: a barred run has no way to a ticket.

RunsVerifiedSource goes from one end of the contour to the other. A routine VALIDATED
receipt of this validator says that every pin was compared with the source it fetched
and matched (`RoutineReceiptVerifies`). The automatic path writes that receipt again for the very
request it runs; of the manual path the theorem has to assume that the receipt collected
is that one (`ExecutedOnItsOwnReceipt`): the manual workflow takes the receipt of any
validation run, a pull request runs the validator it carries, and where the submitted
strings run over several lines even the default branch's validator may have looked at
another tree. A receipt that conforms means strings of one line, so the outputs are the
request's pin (`OneLineRanAtItsPin`), and that is where it ran.

### The other components

* *ValidateCommand* is one call, and its invariants follow from the definitions of
  `Verdict`, `Routine` and `Outcome` once the receipt is tied to its arguments.
* *ValidationWorkflow*: what each step has put into the workspace, place by place. That
  the outputs are the submitted path and pin follows from their being one line
  (`EchoAssigns`); for any others the receipt is still the validator's own for the file
  found and the tree fetched (`Decided`).
* *Publication*: `Compared`, what `compare` has passed is in the manifest as it is in
  the tree; and, as long as no writer's window is open, that the files walked are
  admitted, and that what was read by the scan, the manifest too, is there and was clean.
* *The three refinements.* ValidationWorkflow: only the last step, or the failing one,
  gives the run its record, and `Progress` makes that record the validator's own.
  Publication: all steps but the upload are invisible, or are the writer's; at the upload
  the invariants say of the tree of that moment what the walks and loops found out
  earlier, of different moments (`UploadIsAtomic`). HostedLeg: an attempt that hands over
  is the only one to run the counterparty, and one that publishes is the last
  (`OnceInv`); what the cross-check accepts describes the artifact, whoever wrote that
  (`AcceptedDescribes`).
* *HostedLeg*: the results so far are the cases so far, run at the subject's commit,
  which the verification compared with the pin; the directory is what the harness wrote
  or one of `Forgeries` (`OnDisk`); an artifact, once there, stays over a re-run, and with
  it what had been written when it was taken; the evidence is a function of the place.

*Only model-checked*: the liveness properties (PublishableIsUploaded,
ConformingSubmissionIsUploaded, TicketedRunsOrLosesTheRace, SomebodyRuns,
EveryRunEnds, AgreeingLegIsPublished, EveryLegEnds), which are out of the prover's
reach, and the five findings, which TLC refutes.

## 5. Findings

Each is a run that TLC must find violated, and quotes the line it contradicts.

1. *checks_reported.* When a request fails the schema, the pinned artifacts are not
   compared and the receipt still reports `artifacts_digest_verified` true if a
   source root was given (`validate_request.py:87`). Nothing is admitted on it.
2. *conforming_request_lost.* The ledger is one file for all requests; of two
   different conforming requests the one that writes second gets a conflict, and
   neither the step nor the workflow tries again (`ledger_client.py:77`).
3. *unadmitted_commit.* The routing rule admits exact commits; the envelope and
   `request_within_envelope` admit repositories (`admission.py:52`).
4. *other_declaration.* `runner/run.py` and the pilot's output schema are fixed in
   both workflows; the request's own entrypoint and schema pin, which the validator
   verifies, are not used (`selfservice-autodispatch.yml:224` and `:274`).
5. *changes_after_the_gate.* The post-gate check compares the tree with the manifest
   found in the tree. A file changed for the scan and changed back, or a manifest
   rewritten with its files, passes (`post_gate_check.py:30`). The same run family
   shows what does hold: without a writer, everything; with one, the artifact
   matches its manifest.

Consequences of the design that the properties leave room for, and say so:

* A request whose only run dies after the ledger write is spent, was not executed, and
  stays refused. So is one that declares another entrypoint and pins a commit without
  `runner/run.py` (`Stillborn`).
* A manual run dispatched before a suspension and started after it executes: it checks
  out the commit of its dispatch.
* A request whose strings run over several lines can have the validation workflow answer
  for another request or source tree and, on another validator's receipt, the manual path
  run another pin. The comment that "a forged receipt cannot widen anything"
  (`selfservice-admit-and-run.yml:84`) is about what the envelope grants, and `Endorsed`
  is what holds of that.
* A file that appears between the gate's two walks enters the manifest without having
  been compared with the allowlist (UploadedWasAdmitted excludes that window).
* A `workflow_run` that waits for its group is cancelled by a newer one of that group.
* A counterparty job that fails (pin mismatch, no runner, output that is not UTF-8,
  minutes exhausted) publishes nothing at all, since the unavailable record belongs to
  the other job, which then never starts; one case whose output cannot be decoded loses
  the results of all.
* A case that timed out agrees with a run that recorded no result for it, as None has an
  identity of its own; of two entries for one case only the last is compared.
* A process the counterparty leaves behind may replace the harness's records by others
  that agree with the run, a failed case with the recorded result among them, since
  `ingest_native.py` does not look at `execution_status`.

## 6. What is not modelled

* Base64, HTTP headers, tokens, JSON formatting, report files and log lines.
* What a shell makes of a string put into its command line, and a line of an outputs
  file that the runner cannot read as an assignment, which fails its step (`StepFails`,
  `JobFails`).
* Dispatching a manual run from another branch than the default one.
* What domain the workflow gives a counterparty: it follows from permissions and
  checkouts, which are configuration. HostileParty says what the probe makes of a domain.
* What the regular expressions of the disclosure scan match in a text: `Matches` is
  any function. The form of the allowlist file (wildcards, duplicates, absolute
  paths, which `admitted_paths` refuses before it walks) is a set of paths.
* Permissions and secrets of jobs: they are configuration, with no transitions.
* Re-running the failed jobs of a *dispatch* run by hand, which executes the
  counterparty again without passing the ledger: an action of the hosting service
  that nothing in the workflow could refuse. "At most one execution" is therefore
  about runs: no second run executes a request. Whether a second attempt of the
  same run counts as "more than one run per request"
  (`envelopes/ENVELOPE-PILOT-001.json:49`) the repository does not say. HostedLeg
  has the action, since there it meets state that outlives an attempt.
* The 1 MB limit of the Contents API, above which the ledger is returned empty.
* The publication at the end of a dispatch run is part of one step of Dispatch, and
  at the end of the hosted leg one step of HostedLeg; Publication is the inside of
  both, and is proved to behave like the one step of AtomicPublication. That the bytes
  staged by Dispatch or HostedLeg are the tree Publication starts from is not stated: it
  starts from every tree. (The other composition is: a validation run in Dispatch and
  the whole of ValidationWorkflow both implement ValidationRun.)
* "Re-run all jobs" of a hosted leg, which gives up the artifact of the first attempt
  and runs the counterparty again: the leg is modelled with "re-run failed jobs" only,
  and OneLeg's one run is about that.
* A validation run that is run again and concludes differently: its completion event may
  recur (`TriggerAuto`), its record does not change.
* The pilot source (sample data), the issue form, the CI workflow, and the private
  `interop_core`, of which the repository has only the command lines.

## 7. What is left

1. *Dispatch*: re-running failed jobs as an environment action, with a statement of
   what "one run" is to mean then; re-running a validation.
2. *HostedLeg*: "re-run all jobs".
3. The Contents API with its size limit, should the client learn to handle it.
