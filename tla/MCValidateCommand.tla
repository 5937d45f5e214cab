-------------------------- MODULE MCValidateCommand --------------------------
(***************************************************************************)
(* Every combination of the deviations a request file can show, against a  *)
(* tree that holds the pinned artifacts, one that holds other bytes, and   *)
(* one in which a case resolves outside the tree.                          *)
(***************************************************************************)
EXTENDS ValidateCommand, TLC

File(inside, digest) == [inside |-> inside, sha256 |-> digest]

MCGoodTree ==
    "case" :> File(TRUE, "d1") @@ "policy" :> File(TRUE, "d2")
    @@ "expect" :> File(TRUE, "d3") @@ "schema" :> File(TRUE, "d4")
    @@ "run" :> File(TRUE, "d5")

MCRoots == {MCGoodTree,
            [MCGoodTree EXCEPT !["expect"] = File(TRUE, "d9"), !["run"] = None],
            [MCGoodTree EXCEPT !["case"] = File(FALSE, "d1")],
            [MCGoodTree EXCEPT !["policy"] = None]}

Pin(path, digest) == [path |-> path, sha256 |-> digest]

MCRaw ==
    [readable: BOOLEAN, structure_ok: BOOLEAN,
     repository: {"lab", "not a name"}, commit: {"c1", "main"}, entrypoint: {"run"},
     native_output_schema: {Pin("schema", "d4")},
     expectations: {Pin("expect", "d3")},
     comparison_policy: {Pin("policy", "d2")},
     cases: {{Pin("case", "d1")}, {}},
     ceiling: {"bounded"}, research_mode: BOOLEAN,
     requires_secret: BOOLEAN, closed: BOOLEAN,
     requested_paths: {{<<"native">>}, {}}, wildcards_permitted: BOOLEAN]

\* Bytes and document coincide here: nothing in this run tells two byte
\* strings of one document apart.
MCParse == [q \in MCRaw |-> q]

MCSourceAt == [r \in {"lab"} |-> [c \in {"c1", "main"} |-> MCGoodTree]]
=============================================================================
