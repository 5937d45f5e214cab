------------------------------ MODULE HostedLeg ------------------------------
(***************************************************************************)
(* One run of interop-hosted.yml.  Its two jobs share no filesystem: the   *)
(* counterparty's job executes whatever the counterparty's repository      *)
(* holds and hands its native result over as an artifact; the coordination *)
(* job takes that as data, stages the experiment into the private tooling, *)
(* runs the exercise there, compares, and publishes.                       *)
(*                                                                         *)
(*   fetch -> verify -> execute -> handover                                *)
(*     -> secrets -> tooling -> stage -> exercise -> crosscheck            *)
(*     -> candidate -> publish -> published,   or refused, or stopped      *)
(*                                                                         *)
(* The counterparty's upstream pushes at any time, a process its runner    *)
(* left behind may put other records where the harness wrote its own, what *)
(* the runner answers and what the private tooling records is not up to    *)
(* this code, and the failed jobs of a run may be started again.  The last *)
(* step is a whole passage through Publication, whose invariants say what  *)
(* one step hides.                                                         *)
(***************************************************************************)
EXTENDS PartyDomain, StageExperiment, FiniteSets

CONSTANTS
    Pin,            \* subject.commit of pins.json
    HasRunner,      \* commits that hold glyphlock/runner.py
    Behaves,        \* <<commit, case id>> |-> what the runner may answer
    Forgeries,      \* what a process of the runner may make of the two files
    CaseLists,      \* case sets of the experiment, in their order
    Experiments,    \* what the experiment directory may hold
    CasesFile,      \* cases.json
    Tooling,        \* the experiment's directory in the pinned tooling
    JobMinutes,     \* so many timeouts of 60 seconds exhaust the job's minutes
    MaxReruns       \* bound: how often failed jobs are started again

ASSUME HostedAssumption ==
    /\ Pin \in Commits
    /\ HasRunner \subseteq Commits
    /\ Behaves \in [Commits \X CaseIds -> SUBSET Answers]
    /\ Forgeries \subseteq {f \in Artifacts : f.files \subseteq ExpectedFiles}
    /\ CaseLists \subseteq Seq(CaseEntries)
    /\ Experiments \subseteq Directories
    /\ Tooling \in Directories
    /\ JobMinutes \in Nat /\ MaxReruns \in Nat

VARIABLES
    pc,
    head,       \* the counterparty's branch, as its owner pushes to it
    cases,      \* the frozen case set ...
    experiment, \* ... and the whole experiment directory, at the run's commit
    subject,    \* the counterparty's checkout ...
    commit,     \* ... and the commit its verification put down
    results,    \* what the harness has collected
    output,     \* what is under build/party/native
    artifact,   \* counterparty-native, which outlives the job, or None
    written,    \* (history) what the harness had written when it was taken
    tooling,    \* the experiment's directory in the tooling checkout, or None
    bundle,     \* what the exercise recorded of the party's results, or None
    evidence,   \* build/evidence
    published,  \* the uploaded evidence, or None
    reruns

lab == <<cases, experiment>>
party == <<subject, commit, results, output>>
handed == <<artifact, written>>
coordination == <<tooling, bundle, evidence>>
vars == <<pc, head, lab, party, handed, coordination, published, reruns>>

Ended == {"published", "refused", "stopped"}

\* HOSTED-RESULT.json, the party's two files, the run's own files.
Evidence ==
    [hosted : BOOLEAN, native : Artifacts \cup {None}, bundle : Bundles \cup {None}]

NothingWritten ==
    [files |-> {}, readable |-> FALSE, results |-> <<>>, source_commit |-> None]

NoEvidence == [hosted |-> FALSE, native |-> None, bundle |-> None]

TypeOK ==
    /\ pc \in {"fetch", "verify", "execute", "handover", "secrets", "tooling", "stage",
               "exercise", "crosscheck", "candidate", "publish"} \cup Ended
    /\ head \in Commits
    /\ cases \in Seq(CaseEntries)
    /\ experiment \in Directories
    /\ subject \in Commits \cup {None}
    /\ commit \in Commits \cup {None}
    /\ results \in Seq(Results)
    /\ output \in Artifacts
    /\ artifact \in Artifacts \cup {None}
    /\ written \in Artifacts \cup {None}
    /\ tooling \in Directories \cup {None}
    /\ bundle \in Bundles \cup {None}
    /\ evidence \in Evidence
    /\ published \in Evidence \cup {None}
    /\ reruns \in 0 .. MaxReruns

Init ==
    /\ pc = "fetch"
    /\ head \in Commits
    /\ cases \in CaseLists
    /\ experiment \in Experiments
    /\ subject = None /\ commit = None /\ results = <<>> /\ output = NothingWritten
    /\ artifact = None /\ written = None
    /\ tooling = None /\ bundle = None /\ evidence = NoEvidence
    /\ published = None
    /\ reruns = 0

-----------------------------------------------------------------------------
\* The counterparty's domain.

\* The counterparty's owner pushes, or takes a push back.
Push ==
    /\ head' \in Commits
    /\ UNCHANGED <<pc, lab, party, handed, coordination, published, reruns>>

\* The checkout names no ref: it is the head of the branch.
FetchSubject ==
    /\ pc = "fetch"
    /\ subject' = head
    /\ pc' = "verify"
    /\ UNCHANGED <<head, lab, commit, results, output, handed, coordination, published, reruns>>

\* Mutant: the pin is compared with the branch, not with the checkout.
VerifyPinUpstream ==
    /\ pc = "verify"
    /\ IF head = Pin THEN commit' = head /\ pc' = "execute"
                     ELSE UNCHANGED commit /\ pc' = "refused"
    /\ UNCHANGED <<head, lab, subject, results, output, handed, coordination, published, reruns>>

VerifyPin ==
    /\ pc = "verify"
    /\ IF subject = Pin THEN commit' = subject /\ pc' = "execute"
                        ELSE UNCHANGED commit /\ pc' = "refused"
    /\ UNCHANGED <<head, lab, subject, results, output, handed, coordination, published, reruns>>

\* The runner is there and the case set can be read.
CanExecute ==
    /\ subject \in HasRunner
    /\ CasesFile \in DOMAIN experiment
    /\ experiment[CasesFile] \in Json

TimedOut == {i \in DOMAIN results : results[i].execution_status = "EXECUTION_UNAVAILABLE"}

MinutesLeft == Cardinality(TimedOut) < JobMinutes

Case == cases[Len(results) + 1]

\* Mutant: a case that times out is tried again.
ExecuteCaseRetrying ==
    /\ pc = "execute" /\ CanExecute /\ MinutesLeft
    /\ Len(results) < Len(cases)
    /\ \E answer \in Behaves[<<subject, Case.case_id>>] :
          IF Case.constructible /\ answer.code = "undecodable"
          THEN pc' = "refused" /\ UNCHANGED results
          ELSE /\ results' = IF answer.code = "timeout" THEN results
                             ELSE Append(results, RunCase(Case, answer))
               /\ UNCHANGED pc
    /\ UNCHANGED <<head, lab, subject, commit, output, handed, coordination, published, reruns>>

\* One case.  Output that cannot be decoded ends the harness, and so the job.
ExecuteCase ==
    /\ pc = "execute" /\ CanExecute /\ MinutesLeft
    /\ Len(results) < Len(cases)
    /\ \E answer \in Behaves[<<subject, Case.case_id>>] :
          IF Case.constructible /\ answer.code = "undecodable"
          THEN pc' = "refused" /\ UNCHANGED results
          ELSE results' = Append(results, RunCase(Case, answer)) /\ UNCHANGED pc
    /\ UNCHANGED <<head, lab, subject, commit, output, handed, coordination, published, reruns>>

\* The two files as the harness writes them.
Collected ==
    [files |-> ExpectedFiles, readable |-> TRUE, results |-> results, source_commit |-> commit]

\* Both records are written after the last case, over whatever is there.
WriteResults ==
    /\ pc = "execute" /\ CanExecute /\ MinutesLeft
    /\ Len(results) = Len(cases)
    /\ output' = [Collected EXCEPT !.files = output.files \cup @]
    /\ pc' = "handover"
    /\ UNCHANGED <<head, lab, subject, commit, results, handed, coordination, published, reruns>>

\* No runner, no case set, or no minutes left for the cases that wait.
CannotExecute ==
    /\ pc = "execute" /\ ~(CanExecute /\ MinutesLeft)
    /\ pc' = "refused"
    /\ UNCHANGED <<head, lab, party, handed, coordination, published, reruns>>

(***************************************************************************)
(* The runner is a process of the same user as the harness, and what it    *)
(* started goes on when it ends: it may put a file of its own there, and   *)
(* replace or remove the harness's.                                        *)
(***************************************************************************)
Overwrite ==
    /\ pc \in {"execute", "handover"}
    /\ \E i \in DOMAIN results : cases[i].constructible
    /\ output' \in {[output EXCEPT !.files = @ \cup {"undeclared"}]} \cup Forgeries
    /\ UNCHANGED <<pc, head, lab, subject, commit, results, handed, coordination, published, reruns>>

\* Mutant: the directory is uploaded, not the two files named.
HandOverDirectory ==
    /\ pc = "handover"
    /\ IF output.files = {}
       THEN pc' = "refused" /\ UNCHANGED handed
       ELSE artifact' = output /\ written' = Collected /\ pc' = "secrets"
    /\ UNCHANGED <<head, lab, party, coordination, published, reruns>>

\* What is uploaded is what is on the disk; the job fails if that is nothing.
HandOver ==
    /\ pc = "handover"
    /\ IF output.files \cap ExpectedFiles = {}
       THEN pc' = "refused" /\ UNCHANGED handed
       ELSE /\ artifact' = [output EXCEPT !.files = @ \cap ExpectedFiles]
            /\ written' = Collected
            /\ pc' = "secrets"
    /\ UNCHANGED <<head, lab, party, coordination, published, reruns>>

-----------------------------------------------------------------------------
\* The coordination domain.

(***************************************************************************)
(* The pin of the private tooling and the App's credentials, as they are   *)
(* when the job starts.  Without one of them the run records just that and *)
(* every step up to the publication is skipped; there is no fallback for a *)
(* pin that is not a commit id.                                            *)
(***************************************************************************)
CheckInfrastructure ==
    /\ pc = "secrets"
    /\ \E pin \in {"absent", "malformed", "present"}, app \in BOOLEAN :
          \/ pin = "malformed" /\ pc' = "refused" /\ UNCHANGED evidence
          \/ pin = "present" /\ app /\ pc' = "tooling" /\ UNCHANGED evidence
          \/ /\ pin = "absent" \/ (pin = "present" /\ ~app)
             /\ evidence' = [evidence EXCEPT !.hosted = TRUE]
             /\ pc' = "publish"
    /\ UNCHANGED <<head, lab, party, handed, tooling, bundle, published, reruns>>

\* Fetched at its pin; then the artifact is collected and the cases frozen.
FetchTooling ==
    /\ pc = "tooling"
    /\ tooling' = Tooling
    /\ pc' = "stage"
    /\ UNCHANGED <<head, lab, party, handed, bundle, evidence, published, reruns>>

StageInputs ==
    /\ pc = "stage"
    /\ tooling' = Into(experiment, tooling)
    /\ pc' = IF IsStaged(experiment) THEN "exercise" ELSE "refused"
    /\ UNCHANGED <<head, lab, party, handed, bundle, evidence, published, reruns>>

\* The framework records what its own copy of the counterparty returned.
RunExercise ==
    /\ pc = "exercise"
    /\ bundle' \in Bundles
    /\ pc' = "crosscheck"
    /\ UNCHANGED <<head, lab, party, handed, tooling, evidence, published, reruns>>

CrossCheck ==
    /\ pc = "crosscheck"
    /\ IF Accepts(artifact, Pin, bundle)
       THEN evidence' = [evidence EXCEPT !.native = artifact] /\ pc' = "candidate"
       ELSE UNCHANGED evidence /\ pc' = "refused"
    /\ UNCHANGED <<head, lab, party, handed, tooling, bundle, published, reruns>>

StageCandidate ==
    /\ pc = "candidate"
    /\ evidence' = [evidence EXCEPT !.bundle = bundle]
    /\ pc' = "publish"
    /\ UNCHANGED <<head, lab, party, handed, tooling, bundle, published, reruns>>

Publish ==
    /\ pc = "publish"
    /\ published' = evidence
    /\ pc' = "published"
    /\ UNCHANGED <<head, lab, party, handed, coordination, reruns>>

-----------------------------------------------------------------------------
\* A step fails by itself, or a job reaches timeout-minutes.
StepFails ==
    /\ pc \notin Ended
    /\ pc' = "stopped"
    /\ UNCHANGED <<head, lab, party, handed, coordination, published, reruns>>

\* Mutant: the coordination job starts again where it had left its workspace.
RerunInPlace ==
    /\ pc \in {"refused", "stopped"}
    /\ reruns < MaxReruns
    /\ reruns' = reruns + 1
    /\ pc' = IF artifact = None THEN "fetch" ELSE "secrets"
    /\ UNCHANGED <<head, lab, party, handed, coordination, published>>

\* Mutant: the counterparty's job starts again too, artifact or not.
RerunBothJobs ==
    /\ pc \in {"refused", "stopped"}
    /\ reruns < MaxReruns
    /\ reruns' = reruns + 1
    /\ pc' = "fetch"
    /\ subject' = None /\ commit' = None /\ results' = <<>> /\ output' = NothingWritten
    /\ tooling' = None /\ bundle' = None /\ evidence' = NoEvidence
    /\ UNCHANGED <<head, lab, handed, published>>

(***************************************************************************)
(* The failed jobs are started again, on fresh machines: the counterparty  *)
(* too, unless its artifact is there already.                              *)
(***************************************************************************)
Rerun ==
    /\ pc \in {"refused", "stopped"}
    /\ reruns < MaxReruns
    /\ reruns' = reruns + 1
    /\ pc' = IF artifact = None THEN "fetch" ELSE "secrets"
    /\ subject' = None /\ commit' = None /\ results' = <<>> /\ output' = NothingWritten
    /\ tooling' = None /\ bundle' = None /\ evidence' = NoEvidence
    /\ UNCHANGED <<head, lab, handed, published>>

Step ==
    \/ FetchSubject \/ VerifyPin \/ ExecuteCase \/ WriteResults \/ CannotExecute \/ HandOver
    \/ CheckInfrastructure \/ FetchTooling \/ StageInputs \/ RunExercise
    \/ CrossCheck \/ StageCandidate \/ Publish

Finished == pc \in Ended /\ UNCHANGED vars

Next == Step \/ StepFails \/ Rerun \/ Push \/ Overwrite \/ Finished

(***************************************************************************)
(* The steps of a job follow each other, and each case ends within its     *)
(* timeout.  Nothing is assumed of upstream, and nobody has to rerun.      *)
(***************************************************************************)
Spec == Init /\ [][Next]_vars /\ WF_vars(Step)

-----------------------------------------------------------------------------
PublishedNative == published # None /\ published.native # None

\* What was handed over is not what the harness had written.
Overwritten == artifact # written

(***************************************************************************)
(* Whatever upstream pushed and when, and however often jobs were started  *)
(* again: no native result is published before the harness has run every   *)
(* frozen case, in its order, at the pinned commit and written down what   *)
(* the runner answered; and what is published names that commit and, if    *)
(* the counterparty did not overwrite it, is what the harness wrote.       *)
(***************************************************************************)
PublishedRanAtThePin ==
    PublishedNative =>
        /\ published.native.source_commit = Pin
        /\ written # None /\ written.source_commit = Pin
        /\ Len(written.results) = Len(cases)
        /\ \A i \in DOMAIN cases :
              \E answer \in Behaves[<<Pin, cases[i].case_id>>] :
                 written.results[i] = RunCase(cases[i], answer)
        /\ ~Overwritten => published.native = written

(***************************************************************************)
(* "A disagreement means the published evidence would describe a run that  *)
(* did not happen, so it is refused" (ingest_native.py).  Published native *)
(* results, overwritten or not, cover exactly the cases of the bundle      *)
(* published with them and give each the result that the bundle has, the   *)
(* last entry counting if a case is there twice.  If they were not         *)
(* overwritten, these are the frozen cases, and a result in the bundle is  *)
(* never matched by a case that timed out or failed.                       *)
(***************************************************************************)
PublishedAgreesWithTheRun ==
    PublishedNative =>
        LET entries == published.native.results
            recorded(i) == published.bundle[entries[i].case_id]
            IsLast(i) == \A j \in DOMAIN entries : entries[j].case_id = entries[i].case_id => j <= i
        IN  /\ published.bundle # None
            /\ ObservedCases(entries) = DOMAIN published.bundle
            /\ \A i \in DOMAIN entries : IsLast(i) => entries[i].native_result = recorded(i)
            /\ ~Overwritten =>
                  /\ DOMAIN published.bundle = {cases[i].case_id : i \in DOMAIN cases}
                  /\ \A i \in DOMAIN entries :
                        IsLast(i) /\ recorded(i) # None => entries[i].execution_status = "OK"

(***************************************************************************)
(* "An execution-availability problem is not a result about either party": *)
(* what is published is the unavailable record alone, or the native result *)
(* together with the run's own, also when one attempt of the job had no    *)
(* infrastructure and the next one had.                                    *)
(***************************************************************************)
UnavailableSaysOnlyThat ==
    published # None =>
        IF published.hosted THEN published.native = None /\ published.bundle = None
        ELSE published.native # None /\ published.bundle # None

(***************************************************************************)
(* "Only declared JSON inputs cross into the tooling checkout", and the    *)
(* exercise never runs on an experiment that was staged in part: it finds  *)
(* every declared input as it is in this repository, and everything else   *)
(* as it is in the pinned tooling.                                         *)
(***************************************************************************)
ExerciseRanOnDeclaredInputs ==
    bundle # None =>
        /\ \A f \in DeclaredNames :
              f \in DOMAIN tooling /\ tooling[f] = experiment[f] /\ tooling[f] \in Json
        /\ DOMAIN tooling = DOMAIN Tooling \cup DeclaredNames
        /\ \A f \in DOMAIN Tooling \ DeclaredNames : tooling[f] = Tooling[f]

(***************************************************************************)
(* A leg whose two files agree with what the run recorded is published     *)
(* unless a step fails by itself, whatever else the runner left behind in  *)
(* its own domain.                                                         *)
(***************************************************************************)
Agreeing ==
    /\ pc = "crosscheck"
    /\ ExpectedFiles \subseteq artifact.files
    /\ Accepts([artifact EXCEPT !.files = ExpectedFiles], Pin, bundle)

AgreeingLegIsPublished == Agreeing ~> (PublishedNative \/ pc = "stopped")

\* A leg that has started, or was started again, comes to an end.
EveryLegEnds == (pc \notin Ended) ~> (pc \in Ended)

-----------------------------------------------------------------------------
(***************************************************************************)
(* A hosted leg implements OneLeg: whatever upstream pushes, wherever an   *)
(* attempt stops and however often its failed jobs start again, one run of *)
(* the counterparty counts, complete and at the pin; its record is handed  *)
(* over, or what the counterparty put in its place; and one statement      *)
(* leaves.                                                                 *)
(***************************************************************************)
OutcomesAtThePin ==
    [case \in CaseEntries |-> {RunCase(case, answer) : answer \in Behaves[<<Pin, case.case_id>>]}]

AsOneLeg ==
    INSTANCE OneLeg WITH Outcomes <- OutcomesAtThePin, ran <- written, handed <- artifact

ImplementsOneLeg == AsOneLeg!Spec
=============================================================================
