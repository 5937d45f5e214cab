------------------------- MODULE MCValidationWorkflow ------------------------
(***************************************************************************)
(* Two request paths and six request files: a conforming one, the same     *)
(* document in other bytes, one whose pinned case has other bytes at that  *)
(* commit, one that does not decode, one that pins a commit that cannot be *)
(* checked out, and one whose commit is three lines, the second and third  *)
(* naming another request and another commit.                              *)
(***************************************************************************)
EXTENDS ValidationWorkflow, TLC

CONSTANTS conforming, reformatted, stale, garbled, unfetchable, threeline

MCRaw == {conforming, reformatted, stale, garbled, unfetchable, threeline}

Pin(path, digest) == [path |-> path, sha256 |-> digest]

Document ==
    [readable |-> TRUE, structure_ok |-> TRUE,
     repository |-> "lab", commit |-> "c1", entrypoint |-> "run",
     native_output_schema |-> Pin("schema", "d4"),
     expectations |-> Pin("expect", "d3"),
     comparison_policy |-> Pin("policy", "d2"),
     cases |-> {Pin("case", "d1")},
     ceiling |-> "bounded", research_mode |-> FALSE,
     requires_secret |-> FALSE, closed |-> TRUE,
     requested_paths |-> {<<"native">>}, wildcards_permitted |-> FALSE]

MCParse ==
    conforming :> Document @@ reformatted :> Document
    @@ stale :> [Document EXCEPT !.commit = "c2"]
    @@ garbled :> [Document EXCEPT !.readable = FALSE]
    @@ unfetchable :> [Document EXCEPT !.commit = "c3"]
    @@ threeline :> [Document EXCEPT !.commit = "c2, path=p2, commit=c1"]

MCStrings == {"lab", "c1", "c2", "c3", "p1", "p2", "c2, path=p2, commit=c1"}

MCLines ==
    [s \in MCStrings |->
        IF s = "c2, path=p2, commit=c1"
        THEN [first |-> "c2", more |-> "path" :> "p2" @@ "commit" :> "c1"]
        ELSE [first |-> s, more |-> <<>>]]

File(digest) == [inside |-> TRUE, sha256 |-> digest]

Tree ==
    "case" :> File("d1") @@ "policy" :> File("d2") @@ "expect" :> File("d3")
    @@ "schema" :> File("d4") @@ "run" :> File("d5")

MCSourceAt ==
    "lab" :> ("c1" :> Tree @@ "c2" :> [Tree EXCEPT !["case"] = File("d9")]
              @@ "c3" :> None)
=============================================================================
