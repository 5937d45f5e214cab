--------------------------- MODULE MCPublication ----------------------------
(***************************************************************************)
(* A small instance of Publication: paths of which one is not admitted and *)
(* one has a name that is matched in the manifest; a content that is text, *)
(* with the declared pin and a word let pass at the admitted paths only,   *)
(* and one that is not.                                                    *)
(***************************************************************************)
EXTENDS Publication, TLC

CONSTANTS noted, binary, word, pin

MCValues == Files \cup {MANIFEST_NAME, word, pin}

MCDecodable == {noted}

Mark(family, what) == [family |-> family, what |-> what]

MCMatches ==
    [content \in MCDecodable |->
        {Mark("unattributed-commit-identity", pin),
         Mark("strategic-review-trigger", word)}]

MCPlaceable ==
    [path \in Files |-> IF path = "outcome.json" THEN {noted, binary} ELSE {noted}]

MCForgeable ==
    {<<>>, "outcome.json" :> binary, "outcome.json" :> noted, "notes.txt" :> noted,
     "customers.json" :> noted, ("outcome.json" :> noted) @@ ("native/RESULTS.json" :> noted)}

MCManifestMatches ==
    [declared \in Manifests |->
        IF "customers.json" \in DOMAIN declared
        THEN {Mark("strategic-review-trigger", word)} ELSE {}]

MCAllowlist == [exceptions |-> Admitted \X {word}, ids |-> {}]
=============================================================================
