--------------------------- MODULE HostedLegProofs ---------------------------
(***************************************************************************)
(* What a hosted leg publishes, for every case set, every runner, every    *)
(* experiment directory and any number of reruns.                          *)
(***************************************************************************)
EXTENDS HostedLeg, TLAPS

-----------------------------------------------------------------------------
\* About the two programs at the boundary.

LEMMA RunCaseTyped ==
    ASSUME NEW case \in CaseEntries, NEW answer \in Answers
    PROVE  RunCase(case, answer) \in Results
<1>1. Status(answer.code) \in Statuses
  BY DEF Status, Statuses
<1>2. "NOT_CONSTRUCTIBLE" \in Statuses
  BY DEF Statuses
<1> QED
  BY <1>1, <1>2 DEF RunCase, Results, CaseEntries, Answers

LEMMA CaseOfRunCase ==
    ASSUME NEW case, NEW answer PROVE RunCase(case, answer).case_id = case.case_id
BY DEF RunCase

\* A case has a result only if its run ended well.
LEMMA ResultsAreOfRunsThatEndedWell ==
    ASSUME NEW case, NEW answer, RunCase(case, answer).native_result # None
    PROVE  RunCase(case, answer).execution_status = "OK"
BY DEF RunCase, Status

LEMMA ArtifactIsItsFields ==
    ASSUME NEW r \in Artifacts, NEW s \in Artifacts,
           r.files = s.files, r.readable = s.readable, r.results = s.results,
           r.source_commit = s.source_commit
    PROVE  r = s
BY DEF Artifacts

LEMMA StagedIsCopied ==
    ASSUME NEW experiment_ \in Directories, IsStaged(experiment_)
    PROVE  Copied(experiment_) = DeclaredNames
<1>1. \A i \in DOMAIN Declared : \A j \in 1 .. i : Declared[j] \in DeclaredNames
  <2>1. DOMAIN Declared = 1 .. Len(Declared) /\ Len(Declared) \in Nat
    BY StageAssumption
  <2> QED
    BY <2>1 DEF DeclaredNames
<1> QED
  BY <1>1 DEF Copied, IsStaged, DeclaredNames

LEMMA IntoTyped ==
    ASSUME NEW from \in Directories, NEW into \in Directories
    PROVE  Into(from, into) \in Directories
<1>1. Copied(from) \subseteq DOMAIN from
  <2>1. CASE IsExact(from)
    BY <2>1 DEF Copied, IsExact, DeclaredNames
  <2>2. CASE ~IsExact(from)
    BY <2>2 DEF Copied
  <2> QED
    BY <2>1, <2>2
<1>2. /\ DOMAIN from \subseteq Names /\ from \in [DOMAIN from -> Contents \cup {Special}]
      /\ DOMAIN into \subseteq Names /\ into \in [DOMAIN into -> Contents \cup {Special}]
  BY DEF Directories
<1>3. Into(from, into) \in [DOMAIN into \cup Copied(from) -> Contents \cup {Special}]
  BY <1>1, <1>2 DEF Into
<1> QED
  BY <1>1, <1>2, <1>3 DEF Directories

-----------------------------------------------------------------------------
\* The results of a run at the pin, as far as it got.
RanAtThePin(rs) ==
    /\ Len(rs) <= Len(cases)
    /\ \A i \in DOMAIN rs :
          \E answer \in Behaves[<<Pin, cases[i].case_id>>] : rs[i] = RunCase(cases[i], answer)

\* What an upload would take of the disk: the harness's record or a forgery.
OnDisk == [output EXCEPT !.files = @ \cap ExpectedFiles]

\* The counterparty's domain executes at the pin or not at all.
PartyInv ==
    /\ pc \in {"execute", "handover"} => subject = Pin /\ commit = Pin
    /\ RanAtThePin(results)
    /\ pc = "handover" => Len(results) = Len(cases) /\ OnDisk \in {Collected} \cup Forgeries

\* The harness had written such a run, a complete one, when the artifact was
\* taken; what crossed the boundary is that or a forgery.
ArtifactInv ==
    /\ artifact = None <=> written = None
    /\ artifact # None =>
          /\ written.source_commit = Pin
          /\ RanAtThePin(written.results)
          /\ Len(written.results) = Len(cases)
          /\ artifact \in {written} \cup Forgeries

(***************************************************************************)
(* An attempt that published is the last one, and only a leg without an    *)
(* artifact runs the counterparty.                                         *)
(***************************************************************************)
OnceInv ==
    /\ published # None => pc = "published"
    /\ pc \in {"fetch", "verify", "execute", "handover"} => artifact = None
    /\ pc = "publish" => artifact # None

Unavailable == [NoEvidence EXCEPT !.hosted = TRUE]

Agreed(n, b) == [hosted |-> FALSE, native |-> n, bundle |-> b]

\* The evidence at each step of the coordination job, which starts with none.
EvidenceInv ==
    /\ pc \in {"fetch", "verify", "execute", "handover", "secrets", "tooling"} => tooling = None
    /\ pc \in {"fetch", "verify", "execute", "handover", "secrets", "tooling", "stage",
               "exercise"} => bundle = None
    /\ pc \in {"fetch", "verify", "execute", "handover", "secrets", "tooling", "stage",
               "exercise", "crosscheck"} => evidence = NoEvidence
    /\ pc \in {"secrets", "tooling", "stage", "exercise", "crosscheck", "candidate"}
          => artifact # None
    /\ pc = "stage" => tooling = Tooling
    /\ pc = "exercise" \/ bundle # None
          => tooling = Into(experiment, Tooling) /\ IsStaged(experiment)
    /\ pc \in {"crosscheck", "candidate"} => bundle # None
    /\ pc = "candidate" =>
          evidence = Agreed(artifact, None) /\ Accepts(artifact, Pin, bundle)
    /\ pc = "publish" =>
          \/ evidence = Unavailable
          \/ /\ evidence = Agreed(artifact, bundle) /\ Accepts(artifact, Pin, bundle)
             /\ artifact # None /\ bundle # None

\* What was published: the record alone, or what was handed over and the
\* result that it agrees with.
PublishedInv ==
    published # None =>
        \/ published = Unavailable
        \/ /\ artifact # None
           /\ \E b \in Bundles : published = Agreed(artifact, b) /\ Accepts(artifact, Pin, b)

Inv == TypeOK /\ PartyInv /\ ArtifactInv /\ OnceInv /\ EvidenceInv /\ PublishedInv

USE DEF Ended

LEMMA InvInit == Init => Inv
<1> SUFFICES ASSUME Init PROVE Inv
  OBVIOUS
<1>1. <<>> \in Seq(Results) /\ Len(<<>>) = 0 /\ DOMAIN <<>> = {}
  OBVIOUS
<1>2. Len(cases) \in Nat
  BY HostedAssumption DEF Init
<1>3. TypeOK
  BY <1>1, HostedAssumption DEF Init, TypeOK, Evidence, NoEvidence, NothingWritten, Artifacts
<1>4. PartyInv
  BY <1>1, <1>2 DEF Init, PartyInv, RanAtThePin
<1> QED
  BY <1>3, <1>4 DEF Init, Inv, ArtifactInv, OnceInv, EvidenceInv, PublishedInv

(***************************************************************************)
(* The steps in the counterparty's domain: they touch nothing of the       *)
(* coordination job, and only HandOver lets anything across.               *)
(***************************************************************************)
LEMMA PartyStepKeeps ==
    ASSUME Inv,
           Push \/ FetchSubject \/ VerifyPin \/ ExecuteCase \/ WriteResults \/ CannotExecute
             \/ Overwrite \/ HandOver
    PROVE  Inv'
<1> USE DEF Inv
<1>0. None \notin Commits /\ Pin \in Commits
  BY PartyAssumption, HostedAssumption
<1>1. UNCHANGED <<cases, experiment, tooling, bundle, evidence, published, reruns>>
  BY DEF Push, FetchSubject, VerifyPin, ExecuteCase, WriteResults, CannotExecute,
     Overwrite, HandOver, lab, party, coordination
<1>2. UNCHANGED handed => ArtifactInv' /\ PublishedInv'
  BY <1>1 DEF handed, ArtifactInv, PublishedInv, RanAtThePin
<1>3. CASE Push
  BY <1>1, <1>2, <1>3 DEF Push, lab, party, handed, coordination, TypeOK, PartyInv, OnDisk,
     Collected, OnceInv, EvidenceInv, RanAtThePin
<1>4. CASE FetchSubject
  BY <1>1, <1>2, <1>4 DEF FetchSubject, lab, handed, coordination, TypeOK, PartyInv, OnceInv,
     EvidenceInv, RanAtThePin
<1>5. CASE VerifyPin
  BY <1>0, <1>1, <1>2, <1>5 DEF VerifyPin, lab, handed, coordination, TypeOK, PartyInv, OnceInv,
     EvidenceInv, RanAtThePin
<1>6. CASE ExecuteCase
  <2>1. PICK answer \in Behaves[<<subject, Case.case_id>>] :
            IF Case.constructible /\ answer.code = "undecodable"
            THEN pc' = "refused" /\ UNCHANGED results
            ELSE results' = Append(results, RunCase(Case, answer)) /\ UNCHANGED pc
    BY <1>6 DEF ExecuteCase
  <2>2. /\ pc = "execute" /\ subject = Pin /\ commit = Pin /\ Len(results) < Len(cases)
        /\ UNCHANGED <<subject, commit, output, handed, head>>
    BY <1>6 DEF ExecuteCase, PartyInv
  <2>3. cases \in Seq(CaseEntries) /\ results \in Seq(Results)
    BY DEF TypeOK
  <2>4. Case \in CaseEntries /\ Case = cases[Len(results) + 1]
    BY <2>2, <2>3 DEF Case
  <2>5. answer \in Answers
    BY <2>1, <2>2, <2>4, HostedAssumption DEF CaseEntries
  <2>6. RunCase(Case, answer) \in Results
    BY <2>4, <2>5, RunCaseTyped
  <2>7. CASE pc' = "refused" /\ UNCHANGED results
    BY <1>1, <1>2, <2>2, <2>7 DEF handed, TypeOK, PartyInv, OnceInv, EvidenceInv, RanAtThePin
  <2>8. CASE results' = Append(results, RunCase(Case, answer)) /\ UNCHANGED pc
    <3>1. results' \in Seq(Results)
      BY <2>3, <2>6, <2>8
    <3>2. RanAtThePin(results)'
      <4>1. Len(results') = Len(results) + 1
        BY <2>3, <2>6, <2>8
      <4>2. \A i \in DOMAIN results : results'[i] = results[i]
        BY <2>3, <2>6, <2>8
      <4>3. results'[Len(results) + 1] = RunCase(Case, answer)
        BY <2>3, <2>6, <2>8
      <4>4. DOMAIN results' = DOMAIN results \cup {Len(results) + 1}
        BY <2>3, <2>6, <2>8
      <4>5. Len(results') <= Len(cases)
        BY <2>2, <2>3, <4>1
      <4>6. ASSUME NEW i \in DOMAIN results'
            PROVE  \E a \in Behaves[<<Pin, cases[i].case_id>>] : results'[i] = RunCase(cases[i], a)
        <5>1. CASE i \in DOMAIN results
          BY <4>2, <5>1 DEF PartyInv, RanAtThePin
        <5>2. CASE i = Len(results) + 1
          BY <2>1, <2>2, <2>4, <4>3, <5>2
        <5> QED
          BY <4>4, <5>1, <5>2
      <4> QED
        BY <1>1, <4>5, <4>6 DEF RanAtThePin
    <3> QED
      BY <1>1, <1>2, <2>2, <2>8, <3>1, <3>2 DEF handed, TypeOK, PartyInv, OnceInv, EvidenceInv
  <2> QED
    BY <2>1, <2>7, <2>8
<1>7. CASE WriteResults
  <2>1. /\ pc = "execute" /\ pc' = "handover" /\ subject = Pin /\ commit = Pin
        /\ Len(results) = Len(cases)
        /\ output' = [Collected EXCEPT !.files = output.files \cup @]
        /\ UNCHANGED <<head, subject, commit, results, handed>>
    BY <1>7 DEF WriteResults, PartyInv
  <2>2. output \in Artifacts /\ Collected \in Artifacts
    BY <1>0, <2>1 DEF TypeOK, Collected, Artifacts
  <2>3. output' \in Artifacts
    BY <2>1, <2>2 DEF Artifacts, Collected
  <2>4. OnDisk' = Collected'
    <3>1. Collected' = Collected
      BY <2>1 DEF Collected
    <3>2. /\ output' = [files |-> output.files \cup ExpectedFiles, readable |-> TRUE,
                         results |-> results, source_commit |-> commit]
          /\ (output.files \cup ExpectedFiles) \cap ExpectedFiles = ExpectedFiles
      BY <2>1 DEF Collected
    <3>3. /\ OnDisk' \in Artifacts /\ OnDisk'.files = ExpectedFiles
          /\ OnDisk'.readable = TRUE /\ OnDisk'.results = results
          /\ OnDisk'.source_commit = commit
      BY <2>3, <3>2 DEF OnDisk, Artifacts
    <3>4. OnDisk' = Collected
      BY <2>2, <3>3, ArtifactIsItsFields DEF Collected
    <3> QED
      BY <3>1, <3>4
  <2> QED
    BY <1>1, <1>2, <2>1, <2>3, <2>4 DEF handed, TypeOK, PartyInv, OnceInv, EvidenceInv, RanAtThePin
<1>8. CASE CannotExecute
  BY <1>1, <1>2, <1>8 DEF CannotExecute, party, handed, TypeOK, PartyInv, OnceInv, EvidenceInv,
     RanAtThePin
<1>9. CASE Overwrite
  <2>1. /\ pc \in {"execute", "handover"} /\ subject = Pin /\ commit = Pin
        /\ UNCHANGED <<pc, head, subject, commit, results, handed>>
        /\ Collected' = Collected
    BY <1>9 DEF Overwrite, PartyInv, Collected
  <2>2. output \in Artifacts
    BY DEF TypeOK
  <2>3. output' \in Artifacts /\ OnDisk' \in {OnDisk} \cup Forgeries
    <3>1. CASE output' = [output EXCEPT !.files = @ \cup {"undeclared"}]
      <4>1. "undeclared" \notin ExpectedFiles
        BY DEF ExpectedFiles
      <4> QED
        BY <2>2, <3>1, <4>1 DEF Artifacts, OnDisk
    <3>2. CASE output' \in Forgeries
      <4>1. output' \in Artifacts /\ output'.files \cap ExpectedFiles = output'.files
        BY <3>2, HostedAssumption
      <4>2. OnDisk' = output'
        BY <4>1 DEF OnDisk, Artifacts
      <4> QED
        BY <3>2, <4>1, <4>2
    <3> QED
      BY <1>9, <3>1, <3>2 DEF Overwrite
  <2> QED
    BY <1>1, <1>2, <2>1, <2>3 DEF handed, TypeOK, PartyInv, OnceInv, EvidenceInv, RanAtThePin
<1>10. CASE HandOver
  <2>1. /\ pc = "handover" /\ artifact = None /\ published = None /\ UNCHANGED <<head, party>>
        /\ commit = Pin /\ Len(results) = Len(cases) /\ RanAtThePin(results)
        /\ OnDisk \in {Collected} \cup Forgeries
    BY <1>10 DEF HandOver, PartyInv, OnceInv
  <2>2. CASE pc' = "refused" /\ UNCHANGED handed
    BY <1>1, <1>2, <2>1, <2>2 DEF handed, party, TypeOK, PartyInv, OnceInv, EvidenceInv,
       RanAtThePin
  <2>3. CASE artifact' = OnDisk /\ written' = Collected /\ pc' = "secrets"
    <3>1. Collected \in Artifacts
      BY <2>1, <1>0 DEF TypeOK, Collected, Artifacts
    <3>2. artifact' \in Artifacts /\ written' \in Artifacts
      BY <2>1, <2>3, <3>1, HostedAssumption
    <3>3. artifact' # None /\ written' # None
      BY <3>2, NoneAssumption
    <3>4. Collected.source_commit = Pin /\ Collected.results = results
      BY <2>1 DEF Collected
    <3>5. ArtifactInv'
      BY <1>1, <2>1, <2>3, <3>3, <3>4 DEF ArtifactInv, RanAtThePin
    <3>6. EvidenceInv' /\ OnceInv'
      BY <1>1, <2>1, <2>3, <3>3 DEF EvidenceInv, OnceInv
    <3>7. PublishedInv'
      BY <1>1, <2>1 DEF PublishedInv
    <3> QED
      BY <1>1, <2>1, <2>3, <3>2, <3>5, <3>6, <3>7 DEF party, TypeOK, PartyInv, RanAtThePin
  <2> QED
    BY <1>10, <2>2, <2>3 DEF HandOver, OnDisk
<1> QED
  BY <1>3, <1>4, <1>5, <1>6, <1>7, <1>8, <1>9, <1>10

\* The steps of the coordination job: the party's domain is over by then.
LEMMA CoordinationStepKeeps ==
    ASSUME Inv,
           CheckInfrastructure \/ FetchTooling \/ StageInputs \/ RunExercise \/ CrossCheck
             \/ StageCandidate \/ Publish
    PROVE  Inv'
<1> USE DEF Inv
<1>1. /\ UNCHANGED <<head, cases, experiment, subject, commit, results, output, artifact, written,
                    reruns>>
      /\ pc' \notin {"fetch", "verify", "execute", "handover"}
  BY DEF CheckInfrastructure, FetchTooling, StageInputs, RunExercise, CrossCheck,
     StageCandidate, Publish, lab, party, handed
<1>2. PartyInv' /\ ArtifactInv' /\ OnceInv'
  <2>1. PartyInv' /\ ArtifactInv'
    BY <1>1 DEF PartyInv, ArtifactInv, RanAtThePin
  <2>2. OnceInv'
    BY <1>1 DEF OnceInv, EvidenceInv, CheckInfrastructure, FetchTooling, StageInputs,
       RunExercise, CrossCheck, StageCandidate, Publish
  <2> QED
    BY <2>1, <2>2
<1>3. CASE CheckInfrastructure
  <2>1. evidence = NoEvidence
    BY <1>3 DEF CheckInfrastructure, EvidenceInv
  <2>2. pc' = "publish" => evidence' = Unavailable
    BY <1>3, <2>1 DEF CheckInfrastructure, Unavailable
  <2>3. Unavailable \in Evidence /\ NoEvidence \in Evidence
    BY DEF Unavailable, NoEvidence, Evidence
  <2>4. evidence' \in {NoEvidence, Unavailable}
    BY <1>3, <2>1 DEF CheckInfrastructure, Unavailable
  <2>5. /\ pc = "secrets" /\ pc' \in {"tooling", "refused", "publish"}
        /\ pc' # "publish" => UNCHANGED evidence
        /\ UNCHANGED <<tooling, bundle, published>>
    BY <1>3 DEF CheckInfrastructure
  <2>6. TypeOK'
    BY <1>1, <2>3, <2>4, <2>5 DEF TypeOK
  <2>7. EvidenceInv'
    BY <1>1, <2>1, <2>2, <2>5 DEF EvidenceInv
  <2> QED
    BY <1>1, <1>2, <2>5, <2>6, <2>7 DEF PublishedInv
<1>4. CASE FetchTooling
  BY <1>1, <1>2, <1>4, HostedAssumption DEF FetchTooling, TypeOK, EvidenceInv, PublishedInv
<1>5. CASE StageInputs
  <2>1. tooling = Tooling /\ tooling' = Into(experiment, Tooling)
    BY <1>5 DEF StageInputs, EvidenceInv
  <2>2. tooling' \in Directories
    BY <2>1, HostedAssumption, IntoTyped DEF TypeOK
  <2> QED
    BY <1>1, <1>2, <1>5, <2>1, <2>2 DEF StageInputs, TypeOK, EvidenceInv, PublishedInv
<1>6. CASE RunExercise
  BY <1>1, <1>2, <1>6, NoneAssumption DEF RunExercise, TypeOK, EvidenceInv, PublishedInv
<1>7. CASE CrossCheck
  <2>1. evidence' = evidence \/ evidence' = Agreed(artifact, None)
    BY <1>7 DEF CrossCheck, EvidenceInv, NoEvidence, Agreed
  <2>2. artifact # None /\ evidence = NoEvidence
    BY <1>7 DEF CrossCheck, EvidenceInv
  <2>3. pc' = "candidate" => evidence' = Agreed(artifact, None) /\ Accepts(artifact, Pin, bundle)
    BY <1>7, <2>2 DEF CrossCheck, NoEvidence, Agreed
  <2>4. evidence' \in Evidence
    <3>1. evidence \in Evidence /\ artifact \in Artifacts \cup {None}
      BY DEF TypeOK
    <3>2. Agreed(artifact, None) \in Evidence
      BY <3>1 DEF Evidence, Agreed
    <3> QED
      BY <2>1, <3>1, <3>2
  <2> QED
    BY <1>1, <1>2, <1>7, <2>2, <2>3, <2>4 DEF CrossCheck, TypeOK, EvidenceInv, PublishedInv
<1>8. CASE StageCandidate
  <2>1. /\ evidence' = Agreed(artifact, bundle) /\ Accepts(artifact, Pin, bundle)
        /\ artifact # None /\ bundle # None
    <3>1. /\ evidence = Agreed(artifact, None) /\ Accepts(artifact, Pin, bundle)
          /\ artifact # None /\ bundle # None
      BY <1>8 DEF StageCandidate, EvidenceInv
    <3>2. /\ evidence' = [evidence EXCEPT !.bundle = bundle]
          /\ evidence \in Evidence /\ bundle \in Bundles \cup {None}
      BY <1>8 DEF StageCandidate, TypeOK
    <3>3. evidence' \in Evidence
      BY <3>2 DEF Evidence
    <3>4. /\ evidence'.hosted = evidence.hosted /\ evidence'.native = evidence.native
          /\ evidence'.bundle = bundle
      BY <3>2 DEF Evidence
    <3>5. evidence.hosted = FALSE /\ evidence.native = artifact
      BY <3>1 DEF Agreed
    <3>6. evidence' = Agreed(artifact, bundle)
      BY <3>3, <3>4, <3>5 DEF Evidence, Agreed
    <3> QED
      BY <3>1, <3>6
  <2>2. evidence' \in Evidence
    <3>1. artifact \in Artifacts \cup {None} /\ bundle \in Bundles \cup {None}
      BY DEF TypeOK
    <3> QED
      BY <2>1, <3>1 DEF Evidence, Agreed
  <2> QED
    BY <1>1, <1>2, <1>8, <2>1, <2>2 DEF StageCandidate, TypeOK, EvidenceInv, PublishedInv
<1>9. CASE Publish
  <2>1. CASE evidence = Unavailable
    BY <1>1, <1>2, <1>9, <2>1 DEF Publish, coordination, TypeOK, EvidenceInv, PublishedInv
  <2>2. CASE /\ evidence = Agreed(artifact, bundle) /\ Accepts(artifact, Pin, bundle)
             /\ artifact # None /\ bundle # None
    <3>1. bundle \in Bundles
      BY <2>2 DEF TypeOK
    <3>2. PublishedInv'
      BY <1>1, <1>9, <2>2, <3>1 DEF Publish, PublishedInv
    <3> QED
      BY <1>1, <1>2, <1>9, <3>2 DEF Publish, coordination, TypeOK, EvidenceInv
  <2> QED
    BY <1>9, <2>1, <2>2 DEF Publish, EvidenceInv
<1> QED
  BY <1>3, <1>4, <1>5, <1>6, <1>7, <1>8, <1>9

(***************************************************************************)
(* A rerun starts both workspaces anew and keeps the artifact, which is    *)
(* why nothing of the earlier attempt but the party's result gets into the *)
(* later one.                                                              *)
(***************************************************************************)
LEMMA RerunKeeps == Inv /\ (StepFails \/ Rerun) => Inv'
<1> SUFFICES ASSUME Inv, StepFails \/ Rerun PROVE Inv'
  OBVIOUS
<1> USE DEF Inv
<1>1. CASE StepFails
  BY <1>1 DEF StepFails, lab, party, handed, coordination, TypeOK, PartyInv, ArtifactInv, OnceInv,
     EvidenceInv, PublishedInv, RanAtThePin
<1>2. CASE Rerun
  <2>1. /\ pc' = IF artifact = None THEN "fetch" ELSE "secrets"
        /\ subject' = None /\ commit' = None /\ results' = <<>> /\ output' = NothingWritten
        /\ tooling' = None /\ bundle' = None /\ evidence' = NoEvidence
        /\ reruns' = reruns + 1 /\ reruns < MaxReruns
        /\ UNCHANGED <<head, cases, experiment, artifact, written, published>>
    BY <1>2 DEF Rerun, lab, handed
  <2>2. TypeOK'
    BY <2>1, HostedAssumption DEF TypeOK, Evidence, NoEvidence, NothingWritten, Artifacts
  <2>3. <<>> \in Seq(Results) /\ Len(<<>>) = 0 /\ DOMAIN <<>> = {} /\ Len(cases) \in Nat
    BY DEF TypeOK
  <2>4. PartyInv'
    BY <2>1, <2>3 DEF PartyInv, RanAtThePin
  <2>5. ArtifactInv' /\ EvidenceInv' /\ PublishedInv'
    BY <2>1 DEF ArtifactInv, EvidenceInv, PublishedInv, RanAtThePin
  <2>6. OnceInv'
    BY <1>2, <2>1 DEF OnceInv, Rerun
  <2> QED
    BY <2>2, <2>4, <2>5, <2>6
<1> QED
  BY <1>1, <1>2

LEMMA Inductive == Spec => []Inv
<1>1. Inv /\ UNCHANGED vars => Inv'
  BY DEF Inv, vars, lab, party, handed, coordination, TypeOK, PartyInv, ArtifactInv, OnceInv,
     EvidenceInv, PublishedInv, OnDisk, Collected, RanAtThePin
<1>2. Inv /\ [Next]_vars => Inv'
  BY <1>1, PartyStepKeeps, CoordinationStepKeeps, RerunKeeps DEF Next, Step, Finished
<1> QED
  BY <1>2, InvInit, PTL DEF Spec

-----------------------------------------------------------------------------
\* Types: every record that crosses the boundary or is published is well formed.
THEOREM TypeCorrect == Spec => []TypeOK
<1>1. Inv => TypeOK
  BY DEF Inv
<1> QED
  BY <1>1, Inductive, PTL

LEMMA PublishedNativeIsAgreed ==
    ASSUME Inv, PublishedNative
    PROVE  /\ artifact # None /\ published.native = artifact /\ published.bundle \in Bundles
           /\ published.bundle # None
           /\ Accepts(artifact, Pin, published.bundle)
<1>1. PICK b \in Bundles :
          artifact # None /\ published = Agreed(artifact, b) /\ Accepts(artifact, Pin, b)
  BY DEF Inv, PublishedInv, PublishedNative, Unavailable, NoEvidence
<1> QED
  BY <1>1, NoneAssumption DEF Agreed

(***************************************************************************)
(* Native results are published only after a complete run of the harness   *)
(* at the pinned commit, whatever upstream pushed and however often jobs   *)
(* were started again; they name that commit, and are what the harness     *)
(* wrote unless the counterparty overwrote it.                             *)
(***************************************************************************)
THEOREM NativeResultsAreOfThePin == Spec => []PublishedRanAtThePin
<1>1. ASSUME Inv, PublishedNative PROVE PublishedRanAtThePin
  <2>1. /\ artifact # None /\ published.native = artifact
        /\ artifact.source_commit = Pin
    BY <1>1, PublishedNativeIsAgreed DEF Accepts
  <2>2. /\ written # None /\ written.source_commit = Pin
        /\ RanAtThePin(written.results) /\ Len(written.results) = Len(cases)
    BY <1>1, <2>1 DEF Inv, ArtifactInv
  <2>3. DOMAIN cases = DOMAIN written.results
    BY <1>1, <2>2 DEF Inv, TypeOK, Artifacts
  <2> QED
    BY <2>1, <2>2, <2>3 DEF PublishedRanAtThePin, RanAtThePin, Overwritten
<1>2. Inv => PublishedRanAtThePin
  BY <1>1 DEF PublishedRanAtThePin
<1> QED
  BY <1>2, Inductive, PTL

\* The entry a case is compared by is its last one.
LEMMA TheLastEntryCounts ==
    ASSUME NEW rs \in Seq(Results), NEW i \in DOMAIN rs,
           \A j \in DOMAIN rs : rs[j].case_id = rs[i].case_id => j <= i
    PROVE  Observed(rs, rs[i].case_id) = rs[i].native_result
<1> DEFINE IsLast_(k) == /\ rs[k].case_id = rs[i].case_id
                         /\ \A j \in DOMAIN rs : rs[j].case_id = rs[i].case_id => j <= k
<1>1. DOMAIN rs \subseteq Nat
  OBVIOUS
<1>2. IsLast_(i)
  OBVIOUS
<1>3. ASSUME NEW k \in DOMAIN rs, IsLast_(k) PROVE k = i
  BY <1>1, <1>2, <1>3
<1>4. (CHOOSE k \in DOMAIN rs : IsLast_(k)) = i
  BY <1>2, <1>3
<1> QED
  BY <1>4 DEF Observed

(***************************************************************************)
(* Whatever the counterparty made of its two files, the published native   *)
(* results and the published bundle name the same cases and give each the  *)
(* same result; and unless it overwrote them, a result in the bundle is    *)
(* one that a run of that case ended well with.                            *)
(***************************************************************************)
THEOREM EvidenceDescribesOneRun == Spec => []PublishedAgreesWithTheRun
<1>1. ASSUME Inv, PublishedNative PROVE PublishedAgreesWithTheRun
  <2> DEFINE rs == published.native.results
             b == published.bundle
             IsLast(i) == \A j \in DOMAIN rs : rs[j].case_id = rs[i].case_id => j <= i
  <2>1. /\ artifact # None /\ published.native = artifact /\ b # None
        /\ Accepts(artifact, Pin, b)
    BY <1>1, PublishedNativeIsAgreed
  <2>2. ObservedCases(rs) = DOMAIN b /\ \A c \in DOMAIN b : Observed(rs, c) = b[c]
    BY <2>1 DEF Accepts, Agrees
  <2>3. rs \in Seq(Results)
    BY <1>1, <2>1 DEF Inv, TypeOK, Artifacts
  <2>0. rs = published.native.results /\ b = published.bundle
    OBVIOUS
  <2> HIDE DEF rs, b
  <2>4. ASSUME NEW i \in DOMAIN rs, IsLast(i)
        PROVE  rs[i].native_result = b[rs[i].case_id]
    <3>1. Observed(rs, rs[i].case_id) = rs[i].native_result
      BY <2>3, <2>4, TheLastEntryCounts
    <3> QED
      BY <2>2, <3>1 DEF ObservedCases
  <2>5. ASSUME ~Overwritten
        PROVE  /\ DOMAIN b = {cases[i].case_id : i \in DOMAIN cases}
               /\ \A i \in DOMAIN rs :
                     IsLast(i) /\ b[rs[i].case_id] # None => rs[i].execution_status = "OK"
    <3>1. RanAtThePin(rs) /\ Len(rs) = Len(cases) /\ cases \in Seq(CaseEntries)
      BY <1>1, <2>0, <2>1, <2>5 DEF Inv, TypeOK, ArtifactInv, Overwritten
    <3>2. DOMAIN rs = DOMAIN cases
      BY <2>3, <3>1
    <3>3. \A i \in DOMAIN rs :
             /\ rs[i].case_id = cases[i].case_id
             /\ rs[i].native_result # None => rs[i].execution_status = "OK"
      <4>1. ASSUME NEW i \in DOMAIN rs
            PROVE  \E answer : rs[i] = RunCase(cases[i], answer)
        BY <3>1 DEF RanAtThePin
      <4> QED
        BY <4>1, CaseOfRunCase, ResultsAreOfRunsThatEndedWell
    <3>4. DOMAIN b = {cases[i].case_id : i \in DOMAIN cases}
      <4>1. \A i \in DOMAIN rs : rs[i].case_id = cases[i].case_id
        BY <3>3
      <4>2. {rs[i].case_id : i \in DOMAIN rs} = {cases[i].case_id : i \in DOMAIN cases}
        BY <3>2, <4>1
      <4> QED
        BY <2>2, <4>2 DEF ObservedCases
    <3>5. ASSUME NEW i \in DOMAIN rs, IsLast(i), b[rs[i].case_id] # None
          PROVE  rs[i].execution_status = "OK"
      <4>1. rs[i].native_result = b[rs[i].case_id]
        BY <2>4, <3>5
      <4> QED
        BY <3>3, <3>5, <4>1
    <3> QED
      BY <3>4, <3>5
  <2> QED
    BY <2>0, <2>1, <2>2, <2>4, <2>5 DEF PublishedAgreesWithTheRun
<1>2. Inv => PublishedAgreesWithTheRun
  BY <1>1 DEF PublishedAgreesWithTheRun
<1> QED
  BY <1>2, Inductive, PTL

(***************************************************************************)
(* A run that had no infrastructure says that and nothing else.            *)
(***************************************************************************)
THEOREM UnavailableIsNoResult == Spec => []UnavailableSaysOnlyThat
<1>1. Inv => UnavailableSaysOnlyThat
  BY NoneAssumption DEF Inv, PublishedInv, UnavailableSaysOnlyThat, Unavailable, NoEvidence, Agreed
<1> QED
  BY <1>1, Inductive, PTL

(***************************************************************************)
(* The exercise runs on the declared inputs of this repository and, for    *)
(* the rest, on the pinned tooling.                                        *)
(***************************************************************************)
THEOREM OnlyDeclaredInputsCross == Spec => []ExerciseRanOnDeclaredInputs
<1>1. ASSUME Inv, bundle # None PROVE ExerciseRanOnDeclaredInputs
  <2>1. tooling = Into(experiment, Tooling) /\ IsStaged(experiment) /\ experiment \in Directories
    BY <1>1 DEF Inv, EvidenceInv, TypeOK
  <2>2. Copied(experiment) = DeclaredNames
    BY <2>1, StagedIsCopied
  <2> QED
    BY <2>1, <2>2 DEF Into, IsStaged, ExerciseRanOnDeclaredInputs
<1>2. Inv => ExerciseRanOnDeclaredInputs
  BY <1>1 DEF ExerciseRanOnDeclaredInputs
<1> QED
  BY <1>2, Inductive, PTL

-----------------------------------------------------------------------------
\* The refinement of OneLeg.

\* A complete run at the pin is one of the abstract runs.
LEMMA CompleteRunIsRun ==
    ASSUME cases \in Seq(CaseEntries), NEW native \in Artifacts,
           native.source_commit = Pin, RanAtThePin(native.results),
           Len(native.results) = Len(cases)
    PROVE  AsOneLeg!IsRun(native)
<1>1. DOMAIN native.results = DOMAIN cases
  BY DEF Artifacts
<1>2. ASSUME NEW i \in DOMAIN cases
      PROVE  native.results[i] \in OutcomesAtThePin[cases[i]]
  <2>1. PICK answer \in Behaves[<<Pin, cases[i].case_id>>] :
            native.results[i] = RunCase(cases[i], answer)
    BY <1>1 DEF RanAtThePin
  <2>2. cases[i] \in CaseEntries
    OBVIOUS
  <2> QED
    BY <2>1, <2>2 DEF OutcomesAtThePin
<1> QED
  BY <1>1, <1>2 DEF AsOneLeg!IsRun

\* The first artifact is the record of such a run, or a forgery.
LEMMA HandOverExecutes ==
    ASSUME Inv, Inv', HandOver
    PROVE  AsOneLeg!Next \/ UNCHANGED AsOneLeg!vars
<1>1. artifact = None /\ written = None /\ UNCHANGED <<cases, published>>
  BY DEF HandOver, Inv, OnceInv, ArtifactInv, lab
<1>2. CASE pc' = "refused" /\ UNCHANGED handed
  BY <1>1, <1>2 DEF handed, AsOneLeg!vars
<1>3. CASE pc' = "secrets"
  <2>1. artifact' # None
    BY <1>3 DEF Inv, EvidenceInv
  <2>2. /\ written' \in Artifacts /\ written' # None
        /\ cases \in Seq(CaseEntries) /\ written'.source_commit = Pin
        /\ RanAtThePin(written'.results) /\ Len(written'.results) = Len(cases)
        /\ artifact' \in {written'} \cup Forgeries
    BY <1>1, <2>1 DEF Inv, TypeOK, ArtifactInv, RanAtThePin
  <2>3. AsOneLeg!IsRun(written')
    BY <2>2, CompleteRunIsRun
  <2> QED
    BY <1>1, <2>2, <2>3 DEF AsOneLeg!Execute, AsOneLeg!Next
<1> QED
  BY <1>2, <1>3 DEF HandOver

\* What is accepted names the bundle's cases and gives each its result.
LEMMA AcceptedDescribes ==
    ASSUME Inv, artifact # None, NEW b \in Bundles, Accepts(artifact, Pin, b)
    PROVE  AsOneLeg!Describes(b)
<1> DEFINE rs == artifact.results
<1>1. rs \in Seq(Results)
  BY DEF Inv, TypeOK, Artifacts
<1>2. ObservedCases(rs) = DOMAIN b /\ \A c \in DOMAIN b : Observed(rs, c) = b[c]
  BY DEF Accepts, Agrees
<1>3. ASSUME NEW i \in DOMAIN rs,
             ~\E j \in DOMAIN rs : j > i /\ rs[j].case_id = rs[i].case_id
      PROVE  rs[i].native_result = b[rs[i].case_id]
  <2>1. \A j \in DOMAIN rs : rs[j].case_id = rs[i].case_id => j <= i
    BY <1>1, <1>3
  <2>2. Observed(rs, rs[i].case_id) = rs[i].native_result
    BY <1>1, <2>1, TheLastEntryCounts
  <2> QED
    BY <1>2, <2>2 DEF ObservedCases
<1> QED
  BY <1>2, <1>3 DEF AsOneLeg!Describes, Accepts, ObservedCases

LEMMA PublishStates ==
    ASSUME Inv, Publish
    PROVE  AsOneLeg!Next
<1>1. /\ artifact # None /\ published = None /\ published' = evidence
      /\ UNCHANGED <<cases, artifact, written>>
        /\ written # None
  BY DEF Publish, Inv, OnceInv, ArtifactInv, lab, handed
<1>2. CASE evidence = Unavailable
  <2>1. Unavailable = [hosted |-> TRUE, native |-> None, bundle |-> None]
    <3>1. Unavailable \in Evidence
      BY DEF Unavailable, NoEvidence, Evidence
    <3>2. Unavailable.hosted = TRUE /\ Unavailable.native = None /\ Unavailable.bundle = None
      BY DEF Unavailable, NoEvidence
    <3> QED
      BY <3>1, <3>2 DEF Evidence
  <2> QED
    BY <1>1, <1>2, <2>1 DEF AsOneLeg!StateUnavailable, AsOneLeg!Next
<1>3. CASE /\ evidence = Agreed(artifact, bundle) /\ Accepts(artifact, Pin, bundle)
           /\ bundle # None
  <2>1. bundle \in Bundles
    BY <1>3 DEF Inv, TypeOK
  <2>2. AsOneLeg!Describes(bundle)
    BY <1>1, <1>3, <2>1, AcceptedDescribes
  <2> QED
    BY <1>1, <1>3, <2>1, <2>2 DEF Agreed, AsOneLeg!StateResults, AsOneLeg!Next
<1> QED
  BY <1>2, <1>3 DEF Publish, Inv, EvidenceInv

LEMMA LegStep == Inv /\ Inv' /\ [Next]_vars => [AsOneLeg!Next]_AsOneLeg!vars
<1> SUFFICES ASSUME Inv, Inv', [Next]_vars
             PROVE  AsOneLeg!Next \/ UNCHANGED AsOneLeg!vars
  OBVIOUS
<1> USE DEF AsOneLeg!vars
<1>1. CASE HandOver
  BY <1>1, HandOverExecutes
<1>2. CASE Publish
  BY <1>2, PublishStates
<1>3. CASE Push \/ FetchSubject \/ VerifyPin \/ ExecuteCase \/ WriteResults \/ CannotExecute
           \/ Overwrite
  BY <1>3 DEF Push, FetchSubject, VerifyPin, ExecuteCase, WriteResults, CannotExecute,
     Overwrite, lab, party, handed
<1>4. CASE CheckInfrastructure \/ FetchTooling \/ StageInputs \/ RunExercise \/ CrossCheck
           \/ StageCandidate
  BY <1>4 DEF CheckInfrastructure, FetchTooling, StageInputs, RunExercise, CrossCheck,
     StageCandidate, lab, handed
<1>5. CASE StepFails \/ Rerun
  BY <1>5 DEF StepFails, Rerun, lab, handed
<1>6. CASE UNCHANGED vars
  BY <1>6 DEF vars, lab, handed
<1> QED
  BY <1>1, <1>2, <1>3, <1>4, <1>5, <1>6 DEF Next, Step, Finished

(***************************************************************************)
(* A hosted leg implements OneLeg: however many attempts it takes and      *)
(* whatever each leaves behind, the counterparty's run that counts is one, *)
(* complete and at the pin, and at most one statement is made, of what was *)
(* handed over after that run.                                             *)
(***************************************************************************)
THEOREM LegIsOneRun == Spec => ImplementsOneLeg
<1>1. Init => AsOneLeg!Init
  BY DEF Init, AsOneLeg!Init
<1> QED
  BY <1>1, Inductive, LegStep, PTL DEF Spec, ImplementsOneLeg, AsOneLeg!Spec
=============================================================================
