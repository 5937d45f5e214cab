----------------------------- MODULE Publication -----------------------------
(***************************************************************************)
(* The end of every job that publishes (selfservice-autodispatch.yml,      *)
(* selfservice-admit-and-run.yml and interop-hosted.yml alike): the tree   *)
(* staged under build/evidence goes through tools/publication_gate.py,     *)
(* tools/disclosure_scan.py and tools/post_gate_check.py, and is uploaded. *)
(*                                                                         *)
(*   gate -> freeze -> hash -> write -> scan -> read -> check -> compare   *)
(*     -> upload -> uploaded,   or refused, or stopped                     *)
(*                                                                         *)
(* Each program walks the tree and then reads its files one by one.  A     *)
(* walk is one step here and so is the reading of one file.  Beside them   *)
(* there may be a writer, "a process still running in the background"      *)
(* (post_gate_check.py), which changes the tree between any two of their   *)
(* steps, for as long as its window is open.                               *)
(***************************************************************************)
EXTENDS DisclosureScan

\* The manifest itself is not among Files: it is what the programs make of it.
CONSTANTS
    MANIFEST_NAME,
    ManifestMatches,    \* manifest |-> what is matched in its lines
    Admitted,   \* the exact paths of the allowlist
    Allowlist,  \* the rest of the allowlist, for the scan
    PublicPins, \* the commits declared public on the scan's command line
    Protected,  \* the protected values
    Digests,    \* STRATEGIC-TRIGGERS.json
    Special,    \* a symlink, a device: anything that is not a regular file
    Windows,    \* when the writer may act: a subset of {"gate", "scan"}
    Targets,    \* what it may write: a subset of {"files", "manifest"}
    Placeable,  \* bound: path |-> the contents that are ever put there
    Forgeable,  \* bound: the manifests a writer makes
    None

Manifests == UNION {[S -> Contents] : S \in SUBSET Files}

ASSUME PublicationAssumption ==
    /\ MANIFEST_NAME \in Values \ Files
    /\ ManifestMatches \in [Manifests -> SUBSET Marks]
    /\ Admitted \subseteq Files
    /\ Allowlist \in Allowlists
    /\ Special \notin Contents
    /\ None \notin Contents \cup {Special} /\ None \notin Manifests
    /\ Windows \subseteq {"gate", "scan"}
    /\ Targets \subseteq {"files", "manifest"}
    /\ Placeable \in [Files -> SUBSET Contents]
    /\ Forgeable \subseteq Manifests

VARIABLES
    pc,         \* the step the job is at
    writer,     \* the window and the target of this job's writer, or None
    tree,       \* what is at each path: a content, Special or None
    manifest,   \* PUBLICATION-MANIFEST.json: path and content of each entry
    todo,       \* the paths the current loop has still to read
    entries,    \* the entries of the manifest being built, or being compared
    findings,   \* whether the scan has found anything
    scanned,    \* <<path, content>>: what the scan has read, the manifest too
    uploaded    \* the artifact: the tree and the manifest in it, or None

vars == <<pc, writer, tree, manifest, todo, entries, findings, scanned, uploaded>>

Trees == [Files -> Contents \cup {Special, None}]

Walks == {"gate", "freeze", "write", "scan", "check"}

Loops == {"hash", "read", "compare"}

Ended == {"uploaded", "refused", "stopped"}

TypeOK ==
    /\ pc \in Walks \cup Loops \cup {"upload"} \cup Ended
    /\ writer \in (Windows \X Targets) \cup {None}
    /\ tree \in Trees
    /\ manifest \in Manifests \cup {None}
    /\ todo \subseteq Files \cup {MANIFEST_NAME}
    /\ entries \in Manifests
    /\ findings \in BOOLEAN
    /\ scanned \subseteq (Files \X Contents) \cup ({MANIFEST_NAME} \X Manifests)
    /\ uploaded \in (Trees \X Manifests) \cup {None}

\* The tree as the job staged it.
Init ==
    /\ pc = "gate"
    /\ writer \in (Windows \X Targets) \cup {None}
    /\ tree \in {t \in Trees : \A p \in Files : t[p] \in Placeable[p] \cup {Special, None}}
    /\ manifest = None
    /\ todo = {}
    /\ entries = <<>>
    /\ findings = FALSE
    /\ scanned = {}
    /\ uploaded = None

-----------------------------------------------------------------------------
\* walk_staging: every regular file; it raises on anything else.
WalkRaises == \E p \in Files : tree[p] = Special

Walked == {p \in Files : tree[p] # None}

\* Mutant: a file that no entry admits is reported, like a missing one.
GateWalkReporting ==
    /\ pc = "gate"
    /\ pc' = IF WalkRaises THEN "refused" ELSE "freeze"
    /\ UNCHANGED <<writer, tree, manifest, todo, entries, findings, scanned, uploaded>>

(***************************************************************************)
(* gate: every file present is one of the admitted paths.  An admitted     *)
(* path with no file is reported and no more.                              *)
(***************************************************************************)
GateWalk ==
    /\ pc = "gate"
    /\ pc' = IF WalkRaises \/ ~(Walked \subseteq Admitted) THEN "refused" ELSE "freeze"
    /\ UNCHANGED <<writer, tree, manifest, todo, entries, findings, scanned, uploaded>>

\* build_manifest walks the tree again, for itself.
FreezeWalk ==
    /\ pc = "freeze"
    /\ IF WalkRaises THEN pc' = "refused" /\ UNCHANGED todo
                     ELSE pc' = "hash" /\ todo' = Walked
    /\ UNCHANGED <<writer, tree, manifest, entries, findings, scanned, uploaded>>

\* The entries with one more for p.
With(p) ==
    [q \in DOMAIN entries \cup {p} |-> IF q = p THEN tree[p] ELSE entries[q]]

\* Mutant: a file that is gone by now is recorded as it is.
HashFileGone(p) ==
    /\ pc = "hash"
    /\ p \in todo
    /\ entries' = With(p)
    /\ todo' = todo \ {p}
    /\ UNCHANGED <<pc, writer, tree, manifest, findings, scanned, uploaded>>

\* A file that is gone by now cannot be hashed, and the gate fails.
HashFile(p) ==
    /\ pc = "hash"
    /\ p \in todo
    /\ IF tree[p] \in Contents
       THEN /\ entries' = With(p)
            /\ todo' = todo \ {p}
            /\ UNCHANGED pc
       ELSE pc' = "refused" /\ UNCHANGED <<entries, todo>>
    /\ UNCHANGED <<writer, tree, manifest, findings, scanned, uploaded>>

WriteManifest ==
    /\ pc = "hash"
    /\ todo = {}
    /\ manifest' = entries
    /\ pc' = "scan"
    /\ UNCHANGED <<writer, tree, todo, entries, findings, scanned, uploaded>>

-----------------------------------------------------------------------------
\* A bundle is held to every family, and no path is left out.
Scan == Settings(Allowlist, PublicPins, Protected, ALL_FAMILIES, {}, Digests)

\* Mutant: the scan passes over the manifest, as the gate and the check do.
ScanWalkFilesOnly ==
    /\ pc = "scan"
    /\ IF WalkRaises \/ manifest = None
       THEN pc' = "refused" /\ UNCHANGED todo
       ELSE pc' = "read" /\ todo' = Walked
    /\ UNCHANGED <<writer, tree, manifest, entries, findings, scanned, uploaded>>

\* The scan reads every file that the walk comes upon, the manifest too.
ScanWalk ==
    /\ pc = "scan"
    /\ IF WalkRaises \/ manifest = None
       THEN pc' = "refused" /\ UNCHANGED todo
       ELSE pc' = "read" /\ todo' = Walked \cup {MANIFEST_NAME}
    /\ UNCHANGED <<writer, tree, manifest, entries, findings, scanned, uploaded>>

\* Mutant: what does not decode is passed over.
ScanFileSkipping(p) ==
    /\ pc = "read"
    /\ p \in todo
    /\ findings' = (findings \/ (tree[p] \in Decodable /\ ~IsClean(p, tree[p], Scan)))
    /\ scanned' = scanned \cup ({p} \X ({tree[p]} \cap Contents))
    /\ todo' = todo \ {p}
    /\ UNCHANGED <<pc, writer, tree, manifest, entries, uploaded>>

\* scan, one file: a file that is gone, or is not text, is a finding too.
ScanFile(p) ==
    /\ pc = "read"
    /\ p \in todo
    /\ findings' = (findings \/ ~IsClean(p, tree[p], Scan))
    /\ scanned' = scanned \cup ({p} \X ({tree[p]} \cap Contents))
    /\ todo' = todo \ {p}
    /\ UNCHANGED <<pc, writer, tree, manifest, entries, uploaded>>

DeclaresCleanly(declared) ==
    \A mark \in ManifestMatches[declared] : ~IsFinding(MANIFEST_NAME, mark, Scan)

\* The lines of the manifest are scanned as any others, at its own path.
ScanManifest ==
    /\ pc = "read"
    /\ MANIFEST_NAME \in todo
    /\ findings' = (findings \/ ~DeclaresCleanly(manifest))
    /\ scanned' = scanned \cup {<<MANIFEST_NAME, manifest>>}
    /\ todo' = todo \ {MANIFEST_NAME}
    /\ UNCHANGED <<pc, writer, tree, manifest, entries, uploaded>>

ScanVerdict ==
    /\ pc = "read"
    /\ todo = {}
    /\ pc' = IF findings THEN "refused" ELSE "check"
    /\ UNCHANGED <<writer, tree, manifest, todo, entries, findings, scanned, uploaded>>

-----------------------------------------------------------------------------
\* Mutant: the manifest counts as a file that appeared after the gate.
CheckWalkManifestToo ==
    /\ pc = "check"
    /\ pc' = "refused"
    /\ UNCHANGED <<writer, tree, manifest, todo, entries, findings, scanned, uploaded>>

(***************************************************************************)
(* verify: the manifest is read back, and the tree must hold exactly the   *)
(* files it declares -- the manifest itself left out.                      *)
(***************************************************************************)
CheckWalk ==
    /\ pc = "check"
    /\ IF manifest = None \/ WalkRaises \/ Walked # DOMAIN manifest
       THEN pc' = "refused" /\ UNCHANGED <<todo, entries>>
       ELSE /\ entries' = manifest
            /\ todo' = DOMAIN manifest
            /\ pc' = "compare"
    /\ UNCHANGED <<writer, tree, manifest, findings, scanned, uploaded>>

\* Mutant: a file only has to be there still.
CompareFilePresence(p) ==
    /\ pc = "compare"
    /\ p \in todo
    /\ IF tree[p] # None
       THEN todo' = todo \ {p} /\ UNCHANGED pc
       ELSE pc' = "refused" /\ UNCHANGED todo
    /\ UNCHANGED <<writer, tree, manifest, entries, findings, scanned, uploaded>>

CompareFile(p) ==
    /\ pc = "compare"
    /\ p \in todo
    /\ IF tree[p] = entries[p]
       THEN todo' = todo \ {p} /\ UNCHANGED pc
       ELSE pc' = "refused" /\ UNCHANGED todo
    /\ UNCHANGED <<writer, tree, manifest, entries, findings, scanned, uploaded>>

CheckVerdict ==
    /\ pc = "compare"
    /\ todo = {}
    /\ pc' = "upload"
    /\ UNCHANGED <<writer, tree, manifest, todo, entries, findings, scanned, uploaded>>

\* The whole of build/evidence is uploaded.
Upload ==
    /\ pc = "upload"
    /\ uploaded' = <<tree, manifest>>
    /\ pc' = "uploaded"
    /\ UNCHANGED <<writer, tree, manifest, todo, entries, findings, scanned>>

-----------------------------------------------------------------------------
\* A step fails for a reason of its own, or the job reaches timeout-minutes.
StepFails ==
    /\ pc \notin Ended
    /\ pc' = "stopped"
    /\ UNCHANGED <<writer, tree, manifest, todo, entries, findings, scanned, uploaded>>

WindowOpen ==
    \/ writer[1] = "gate" /\ pc \in {"gate", "freeze", "hash"}
    \/ writer[1] = "scan" /\ pc \in {"scan", "read", "check"}

\* The writer creates, replaces or removes a file ...
WriteFile(p) ==
    /\ writer # None
    /\ WindowOpen
    /\ writer[2] = "files"
    /\ \E content \in Placeable[p] \cup {None} : tree' = [tree EXCEPT ![p] = content]
    /\ UNCHANGED <<pc, writer, manifest, todo, entries, findings, scanned, uploaded>>

\* ... or the manifest, together with the files it then declares.
RewriteManifest ==
    /\ writer # None
    /\ WindowOpen
    /\ writer[2] = "manifest"
    /\ manifest' \in Forgeable
    /\ tree' = [p \in Files |-> IF p \in DOMAIN manifest' THEN manifest'[p] ELSE None]
    /\ UNCHANGED <<pc, writer, todo, entries, findings, scanned, uploaded>>

Step ==
    \/ GateWalk \/ FreezeWalk \/ WriteManifest
    \/ ScanWalk \/ ScanManifest \/ ScanVerdict
    \/ CheckWalk \/ CheckVerdict \/ Upload
    \/ \E p \in Files : HashFile(p) \/ ScanFile(p) \/ CompareFile(p)

Finished == pc \in Ended /\ UNCHANGED vars

Next ==
    \/ Step \/ StepFails \/ Finished
    \/ RewriteManifest
    \/ \E p \in Files : WriteFile(p)

(***************************************************************************)
(* The steps of a job are executed one after the other, each within        *)
(* timeout-minutes.  Nothing is assumed of the writer.                     *)
(***************************************************************************)
Spec == Init /\ [][Next]_vars /\ WF_vars(Step)

-----------------------------------------------------------------------------
Uploaded == {p \in Files : uploaded[1][p] # None}

(***************************************************************************)
(* The artifact carries a manifest that declares exactly the files it      *)
(* holds, with the bytes it holds: whatever a writer did until the check   *)
(* walked the tree, and between the gate's reads, what it left is refused. *)
(***************************************************************************)
UploadedMatchesManifest ==
    uploaded # None =>
        /\ DOMAIN uploaded[2] = Uploaded
        /\ \A p \in Uploaded : uploaded[1][p] = uploaded[2][p]

(***************************************************************************)
(* "An unknown file is not `probably fine' -- it is a failure"             *)
(* (publication_gate.py): every file of the artifact is on the allowlist,  *)
(* also when files came and went after the gate.  Not so when one appears  *)
(* between the gate's two walks, or with a manifest that declares it.      *)
(***************************************************************************)
UploadedWasAdmitted ==
    (uploaded # None /\ writer \in {None, <<"scan", "files">>})
        => Uploaded \subseteq Admitted

\* What may be in a published file: what somebody has written down, at its place.
IsWrittenDown(path, mark) ==
    CASE mark.family \in UNCONDITIONAL_FAMILIES -> FALSE
      [] mark.family = "protected-value" -> mark.what \notin Protected
      [] mark.family = "private-identity" -> mark.what \in PUBLIC_REPOSITORIES
      [] mark.family = "unattributed-commit-identity" ->
            mark.what \in PublicPins \cup Allowlist.ids
      [] OTHER -> \/ <<path, mark.what>> \in Allowlist.exceptions
                  \/ mark.what \notin STRATEGIC_KEYWORDS \cup Digests

(***************************************************************************)
(* Every file of the artifact, and the manifest, was read by the scan in   *)
(* the bytes that are uploaded, and what is in it is written down for the  *)
(* path it is uploaded at -- unless a writer was there while the scan      *)
(* read: the check compares with the manifest, not with what was read.     *)
(***************************************************************************)
UploadedWasScanned ==
    (uploaded # None /\ (writer # None => writer[1] = "gate"))
        => /\ \A p \in Uploaded :
              /\ <<p, uploaded[1][p]>> \in scanned
              /\ uploaded[1][p] \in Decodable
              /\ \A mark \in Matches[uploaded[1][p]] : IsWrittenDown(p, mark)
           /\ <<MANIFEST_NAME, uploaded[2]>> \in scanned
           /\ \A mark \in ManifestMatches[uploaded[2]] : IsWrittenDown(MANIFEST_NAME, mark)

(***************************************************************************)
(* A tree of clean, admitted files with names that are clean in a manifest *)
(* is published when nothing interferes and no step fails by itself,       *)
(* however few of the admitted files exist: "a party may not have run".    *)
(***************************************************************************)
Publishable ==
    /\ pc = "gate"
    /\ writer = None
    /\ Walked \subseteq Admitted
    /\ \A p \in Walked : IsClean(p, tree[p], Scan)
    /\ DeclaresCleanly([p \in Walked |-> tree[p]])

PublishableIsUploaded == Publishable ~> (uploaded # None \/ pc = "stopped")

-----------------------------------------------------------------------------
(***************************************************************************)
(* Publication implements AtomicPublication: gate, freeze, scan and check  *)
(* read the tree at many moments, and what they conclude holds of one, the *)
(* tree that is uploaded, at the moment it is.  A writer before the scan   *)
(* voids the admission, one during the scan what the scan has seen, and    *)
(* one that forges the manifest both; with none, what is published is what *)
(* was staged.                                                             *)
(***************************************************************************)
Voided ==
    CASE writer = None -> {}
      [] writer # None /\ writer[1] = "gate" -> {"admission"}
      [] writer = <<"scan", "files">> -> {"scan"}
      [] OTHER -> {"admission", "scan"}

CleanFiles == {file \in Files \X Contents : IsClean(file[1], file[2], Scan)}

CleanManifests == {declared \in Manifests : DeclaresCleanly(declared)}

AtOnce ==
    INSTANCE AtomicPublication WITH
        Others <- {Special, None}, Clean <- CleanFiles, Declarable <- CleanManifests,
        voided <- Voided, open <- pc \notin Ended

ImplementsAtomicPublication == AtOnce!Spec

-----------------------------------------------------------------------------
(***************************************************************************)
(* "an added step, a reordered step, or a process still running in the     *)
(* background all show up here as a mismatch" (post_gate_check.py): what   *)
(* is uploaded is on the allowlist and was scanned, with a writer that     *)
(* acts only between the frozen manifest and the check as without one.     *)
(***************************************************************************)
ChangesAfterTheGateShowUp ==
    uploaded # None =>
        /\ Uploaded \subseteq Admitted
        /\ \A p \in Uploaded : <<p, uploaded[1][p]>> \in scanned
=============================================================================
