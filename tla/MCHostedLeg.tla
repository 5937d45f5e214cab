----------------------------- MODULE MCHostedLeg -----------------------------
(***************************************************************************)
(* A small instance of HostedLeg: two cases, a pinned commit that answers  *)
(* the first in every way and never the second, and two other commits --   *)
(* one that answers differently and one without a runner; and five ways of *)
(* tampering with the two files.                                           *)
(***************************************************************************)
EXTENDS HostedLeg, TLC

CONSTANTS a, b, pinned, pushed, empty, sealed, huge, cases_json, policy_json,
          run_py, json, text, own

MCDeclared == <<cases_json, policy_json>>

Answer(code, native) == [code |-> code, output |-> native]

Failures ==
    {Answer("3", None), Answer("other", sealed), Answer("timeout", None)}

MCBehaves ==
    [<<at, case>> \in Commits \X CaseIds |->
        IF at # pinned THEN {Answer("4", None)}
        ELSE IF case = a
             THEN {Answer("0", sealed), Answer("0", huge), Answer("0", None),
                   Answer("undecodable", None)} \cup Failures
        ELSE {Answer("timeout", None)}]

Entry(case, constructible) == [case_id |-> case, constructible |-> constructible]

MCCaseLists ==
    {<<Entry(a, TRUE), Entry(b, TRUE)>>, <<Entry(a, TRUE), Entry(a, TRUE)>>,
     <<Entry(a, FALSE), Entry(b, TRUE)>>}

Result(case, status, native) ==
    [case_id |-> case, execution_status |-> status, native_result |-> native]

Forgery(files, readable, results_) ==
    [files |-> files, readable |-> readable, results |-> results_,
     source_commit |-> IF readable THEN pinned ELSE None]

\* A failure with a result; other entries, one of them twice; a record that
\* cannot be read; one file missing; both.
MCForgeries ==
    {Forgery(ExpectedFiles, TRUE,
             <<Result(a, "EXECUTION_FAILED", sealed), Result(b, "OK", sealed)>>),
     Forgery(ExpectedFiles, TRUE,
             <<Result(b, "OK", None), Result(a, "OK", huge),
               Result(b, "EXECUTION_UNAVAILABLE", sealed)>>),
     Forgery(ExpectedFiles, FALSE, <<>>),
     Forgery({"RESULTS.json"}, TRUE, <<Result(a, "OK", sealed), Result(b, "OK", sealed)>>),
     Forgery({}, FALSE, <<>>)}

Exact == (cases_json :> json) @@ (policy_json :> json)

\* The exact experiment, and each way of not being it.
MCExperiments ==
    {Exact, (cases_json :> json), Exact @@ (run_py :> text)}
        \cup {(policy_json :> kind) @@ Exact : kind \in {text, Special}}
        \cup {(cases_json :> text) @@ Exact}

MCTooling == (run_py :> own) @@ (cases_json :> own)
=============================================================================
