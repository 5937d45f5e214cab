----------------------------- MODULE PartyDomain -----------------------------
(***************************************************************************)
(* The two programs on either side of the boundary between the domains of  *)
(* the hosted leg: tools/party_counterparty.py runs the counterparty case  *)
(* by case and writes down what came back, tools/ingest_native.py takes    *)
(* that as data and compares it with what the run recorded.                *)
(***************************************************************************)
EXTENDS Sequences, Naturals

CONSTANTS
    CaseIds,
    Natives,    \* what the lines of a runner's output parse to
    Large,      \* those that make RESULTS.json implausibly large
    Commits,    \* commits of the counterparty's repository
    None

ASSUME PartyAssumption == Large \subseteq Natives /\ None \notin Natives \cup Commits

\* A frozen case: its id, and whether it has an input in the party's format.
CaseEntries == [case_id : CaseIds, constructible : BOOLEAN]

(***************************************************************************)
(* What a run of the runner comes to: the exit status (every one but 0, 3  *)
(* and 4 is "other") with what the output parses to, None if no line of it *)
(* does; the timeout; or output that is not text, on which the harness     *)
(* itself stops.                                                           *)
(***************************************************************************)
Answers ==
    [code : {"0", "3", "4", "other", "timeout", "undecodable"},
     output : Natives \cup {None}]

Statuses ==
    {"OK", "NOT_IMPLEMENTED", "NOT_CONSTRUCTIBLE", "EXECUTION_FAILED",
     "EXECUTION_UNAVAILABLE"}

\* Mutant: a timeout is taken for an exit status, which the table does not have.
StatusRaw(code) ==
    CASE code = "0" -> "OK"
      [] code = "3" -> "NOT_IMPLEMENTED"
      [] code = "4" -> "NOT_CONSTRUCTIBLE"
      [] code = "other" -> "EXECUTION_FAILED"
      [] OTHER -> code

\* EXIT_STATUS, and the timeout.
Status(code) ==
    CASE code = "0" -> "OK"
      [] code = "3" -> "NOT_IMPLEMENTED"
      [] code = "4" -> "NOT_CONSTRUCTIBLE"
      [] code = "timeout" -> "EXECUTION_UNAVAILABLE"
      [] OTHER -> "EXECUTION_FAILED"

Results ==
    [case_id : CaseIds, execution_status : Statuses, native_result : Natives \cup {None}]

\* run_case: a result is read from the output of a run that ended well.
RunCase(case, answer) ==
    [case_id |-> case.case_id,
     execution_status |->
        IF case.constructible THEN Status(answer.code) ELSE "NOT_CONSTRUCTIBLE",
     native_result |->
        IF case.constructible /\ answer.code = "0" THEN answer.output ELSE None]

-----------------------------------------------------------------------------
(***************************************************************************)
(* What crosses the boundary, and the directory it is taken from: the      *)
(* files, whether the two records can be read and are of the right kind    *)
(* and party, and what they say.  Nobody but the harness is bound to write *)
(* them, so what they say need not be what it collected.                   *)
(***************************************************************************)
ExpectedFiles == {"RESULTS.json", "PARTY-DOMAIN.json"}

Artifacts ==
    [files : SUBSET (ExpectedFiles \cup {"undeclared"}),
     readable : BOOLEAN,
     results : Seq(Results),
     source_commit : Commits \cup {None}]

\* The native_result_identities of the run's semantic bundle; None if it has none.
Bundles == UNION {[S -> Natives \cup {None}] : S \in SUBSET CaseIds}

ASSUME NoneAssumption == None \notin Artifacts /\ None \notin Bundles

\* load_incoming: an exact file set, no file implausibly large, both records.
LoadsIncoming(artifact) ==
    /\ artifact.files = ExpectedFiles
    /\ artifact.readable
    /\ \A i \in DOMAIN artifact.results : artifact.results[i].native_result \notin Large

ObservedCases(results) == {results[i].case_id : i \in DOMAIN results}

\* The identity a case is compared by: the last entry of the case counts.
Observed(results, case_id) ==
    LET Last == CHOOSE i \in DOMAIN results :
                    /\ results[i].case_id = case_id
                    /\ \A j \in DOMAIN results : results[j].case_id = case_id => j <= i
    IN  results[Last].native_result

\* Mutant: only the cases that both sides know are compared.
AgreesWhereBothKnow(results, bundle) ==
    /\ bundle # <<>>
    /\ \A c \in DOMAIN bundle \cap ObservedCases(results) : Observed(results, c) = bundle[c]

(***************************************************************************)
(* cross_check: the run recorded something, for exactly the cases the      *)
(* party's domain executed, with the same identities.  No result (None)    *)
(* has an identity of its own, whatever kept the case from having one.     *)
(***************************************************************************)
Agrees(results, bundle) ==
    /\ bundle # <<>>
    /\ ObservedCases(results) = DOMAIN bundle
    /\ \A c \in DOMAIN bundle : Observed(results, c) = bundle[c]

\* main of ingest_native.py, up to what it copies.
Accepts(artifact, pin, bundle) ==
    /\ LoadsIncoming(artifact)
    /\ artifact.source_commit = pin
    /\ Agrees(artifact.results, bundle)
=============================================================================
