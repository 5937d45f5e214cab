----------------------------- MODULE MCDispatch ------------------------------
(***************************************************************************)
(* A small instance of Dispatch: a repository with four commits, one       *)
(* envelope that admits it, a repository it does not admit, and up to      *)
(* eight request files.                                                    *)
(*                                                                         *)
(*   plain     conforms and is inside the envelope                         *)
(*   twin      the same document in other bytes: another request           *)
(*   moved     pins commit c2, with a schema and an entrypoint of its own  *)
(*   research  declares research mode: validated, never VALIDATED          *)
(*   greedy    asks for a ceiling the envelope does not grant              *)
(*   stale     pins c3, where its case has other bytes                     *)
(*   bare      pins c4, where its entrypoint is but runner/run.py is not   *)
(*   twoline   its commit is two lines, c1 and "repository=elsewhere"      *)
(***************************************************************************)
EXTENDS DispatchInvariant, TLC

CONSTANTS plain, twin, moved, research, greedy, stale, bare, twoline

Pin(path, digest) == [path |-> path, sha256 |-> digest]

Document ==
    [readable |-> TRUE, structure_ok |-> TRUE,
     repository |-> "lab", commit |-> "c1", entrypoint |-> "runner/run.py",
     native_output_schema |-> Pin("schema", "d4"),
     expectations |-> Pin("expect", "d3"),
     comparison_policy |-> Pin("policy", "d2"),
     cases |-> {Pin("case", "d1")},
     ceiling |-> "bounded", research_mode |-> FALSE,
     requires_secret |-> FALSE, closed |-> TRUE,
     requested_paths |-> {<<"outcome.json">>, <<"native", "RESULTS.json">>},
     wildcards_permitted |-> FALSE]

Documents ==
    plain :> Document @@ twin :> Document
    @@ moved :> [Document EXCEPT !.commit = "c2", !.entrypoint = "bin/start.py",
                                 !.native_output_schema = Pin("schema", "d8")]
    @@ research :> [Document EXCEPT !.research_mode = TRUE]
    @@ greedy :> [Document EXCEPT !.ceiling = "conformance"]
    @@ stale :> [Document EXCEPT !.commit = "c3"]
    @@ bare :> [Document EXCEPT !.commit = "c4", !.entrypoint = "bin/start.py"]
    @@ twoline :> [Document EXCEPT !.commit = "c1, repository=elsewhere"]

MCParse == [raw \in Raw |-> Documents[raw]]

File(digest) == [inside |-> TRUE, sha256 |-> digest]

Tree ==
    "case" :> File("d1") @@ "policy" :> File("d2") @@ "expect" :> File("d3")
    @@ "schema" :> File("d4") @@ "runner/run.py" :> File("d5")
    @@ "bin/start.py" :> None

MCSourceAt ==
    "lab" :> ("c1" :> Tree
              @@ "c2" :> [Tree EXCEPT !["schema"] = File("d8"),
                                      !["bin/start.py"] = File("d6")]
              @@ "c3" :> [Tree EXCEPT !["case"] = File("d9")]
              @@ "c4" :> [Tree EXCEPT !["runner/run.py"] = None,
                                      !["bin/start.py"] = File("d6")])
    @@ "elsewhere" :> ("c1" :> Tree)

MCObjectIds == {"c1", "c2", "c3", "c4"}

MCRepositoryNames == {"lab", "elsewhere"}

MCStrings == MCObjectIds \cup MCRepositoryNames \cup {"c1, repository=elsewhere"}

MCLines ==
    [s \in MCStrings |->
        IF s = "c1, repository=elsewhere"
        THEN [first |-> "c1", more |-> "repository" :> "elsewhere"]
        ELSE [first |-> s, more |-> <<>>]]

Active ==
    [supported_version |-> TRUE, envelope_id |-> "E1", status |-> "ACTIVE",
     signature_required |-> TRUE, runs_per_request |-> 1, expiry |-> TRUE,
     counterparty_repositories |-> {"lab"}, case_set_digests |-> {"d1"},
     comparison_policy_digests |-> {"d2"},
     publication_classes |-> {<<"native">>, <<"outcome.json">>},
     max_claim_ceiling |-> "bounded"]

MCEnvelopeDocs == {Active, [Active EXCEPT !.status = "SUSPENDED"]}

MCInitialEnvelopes == [e \in EnvelopePaths |-> Active]

\* Every path holds the same request at first.
MCInitialFiles == [p \in Paths |-> plain]

Symmetry == Permutations(Runs) \cup Permutations(Validations)
=============================================================================
