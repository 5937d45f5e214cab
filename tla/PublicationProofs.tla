-------------------------- MODULE PublicationProofs --------------------------
(***************************************************************************)
(* What is uploaded, for every set of paths and contents, every allowlist  *)
(* and every writer; and what the settings of the scan can and cannot let  *)
(* pass.                                                                   *)
(***************************************************************************)
EXTENDS Publication, TLAPS

-----------------------------------------------------------------------------
(***************************************************************************)
(* Fewer families find less: a file that passes the scan of a bundle, held *)
(* to every family and with nothing excluded, passes the scan of the       *)
(* repository's own tree (checks.yml), held to the unconditional ones --   *)
(* whatever each of the two is given to exclude there, to let pass, to     *)
(* know and to protect.                                                    *)
(***************************************************************************)
THEOREM FewerFamiliesFindLess ==
    ASSUME NEW path \in Files, NEW content,
           NEW allowlist, NEW pins, NEW protected, NEW digests,
           NEW allowlist_, NEW pins_, NEW protected_, NEW digests_, NEW excluded_,
           IsClean(path, content,
                   Settings(allowlist, pins, protected, ALL_FAMILIES, {}, digests))
    PROVE  IsClean(path, content,
                   Settings(allowlist_, pins_, protected_, UNCONDITIONAL_FAMILIES,
                            excluded_, digests_))
<1> DEFINE bundle == Settings(allowlist, pins, protected, ALL_FAMILIES, {}, digests)
           repository == Settings(allowlist_, pins_, protected_, UNCONDITIONAL_FAMILIES,
                                  excluded_, digests_)
<1>1. /\ bundle.families = ALL_FAMILIES /\ bundle.excluded = {}
      /\ repository.families = UNCONDITIONAL_FAMILIES
      /\ UNCONDITIONAL_FAMILIES \subseteq ALL_FAMILIES
  BY DEF Settings, ALL_FAMILIES, UNCONDITIONAL_FAMILIES
<1> HIDE DEF bundle, repository
<1>2. \A m : IsFinding(path, m, repository) => IsFinding(path, m, bundle)
  BY <1>1 DEF IsFinding, UNCONDITIONAL_FAMILIES
<1>3. [family : UNCONDITIONAL_FAMILIES, what : Values] \subseteq [family : ALL_FAMILIES, what : Values]
  BY <1>1
<1>4. IsClean(path, content, bundle) => IsClean(path, content, repository)
  BY <1>1, <1>2, <1>3 DEF IsClean, Findings
<1> QED
  BY <1>4 DEF bundle, repository

(***************************************************************************)
(* "a committed credential is never a decision" (disclosure_scan.py): no   *)
(* exception, declared id, public pin or protected value lets a secret or  *)
(* a local path pass; only a written exclusion of its file does.           *)
(***************************************************************************)
THEOREM CredentialsAreNoDecision ==
    ASSUME NEW path \in Files, NEW content \in Decodable, NEW mark \in Matches[content],
           mark.family \in {"secret", "personal-or-local-path"},
           NEW allowlist, NEW pins, NEW protected, NEW digests, NEW excluded,
           NEW families \in {ALL_FAMILIES, UNCONDITIONAL_FAMILIES},
           path \notin excluded
    PROVE  ~IsClean(path, content,
                    Settings(allowlist, pins, protected, families, excluded, digests))
<1> DEFINE scan == Settings(allowlist, pins, protected, families, excluded, digests)
<1>1. mark.family \in scan.families /\ path \notin scan.excluded
  BY DEF Settings, ALL_FAMILIES, UNCONDITIONAL_FAMILIES
<1>2. IsFinding(path, mark, scan)
  BY <1>1 DEF IsFinding
<1> QED
  BY <1>1, <1>2 DEF IsClean, Findings

(***************************************************************************)
(* A strategic_review_exceptions entry lets pass one rule at one path: it  *)
(* changes nothing at any other path and nothing about any other match.    *)
(***************************************************************************)
THEOREM ExceptionsAreForOnePath ==
    ASSUME NEW allowlist \in Allowlists, NEW more \in Allowlists,
           NEW at \in Files, NEW rule \in Values,
           more.ids = allowlist.ids,
           more.exceptions = allowlist.exceptions \cup {<<at, rule>>},
           NEW pins, NEW protected, NEW families, NEW excluded, NEW digests,
           NEW path \in Files, NEW mark \in Marks,
           IsFinding(path, mark, Settings(allowlist, pins, protected, families, excluded, digests)),
           ~IsFinding(path, mark, Settings(more, pins, protected, families, excluded, digests))
    PROVE  path = at /\ mark.what = rule /\ mark.family = "strategic-review-trigger"
BY DEF IsFinding, Settings

LEMMA BundleScan ==
    /\ Scan.excluded = {} /\ Scan.families = ALL_FAMILIES
    /\ Scan.known = PublicPins \cup Allowlist.ids
    /\ Scan.protected = Protected /\ Scan.exceptions = Allowlist.exceptions
    /\ Scan.triggers = STRATEGIC_KEYWORDS \cup Digests
BY DEF Scan, Settings

\* What the scan of a bundle does not object to is written down at that path.
LEMMA NoFindingIsWrittenDown ==
    ASSUME NEW path, NEW mark \in Marks, ~IsFinding(path, mark, Scan)
    PROVE  IsWrittenDown(path, mark)
<1>1. mark.family \in ALL_FAMILIES
  BY DEF Marks
<1> QED
  BY <1>1, BundleScan DEF IsFinding, IsWrittenDown, ALL_FAMILIES, UNCONDITIONAL_FAMILIES

\* So a file that is clean, and a manifest that is, hold only such things.
LEMMA CleanIsWrittenDown ==
    ASSUME NEW path \in Files, NEW content \in Contents, IsClean(path, content, Scan)
    PROVE  /\ content \in Decodable
           /\ \A mark \in Matches[content] : IsWrittenDown(path, mark)
<1>1. content \in Decodable
  <2>1. [family |-> "undecodable", what |-> path] \in [family : ALL_FAMILIES, what : Values]
    BY ScanAssumption DEF ALL_FAMILIES
  <2> QED
    BY BundleScan, <2>1 DEF IsClean, Findings
<1>2. ASSUME NEW mark \in Matches[content] PROVE IsWrittenDown(path, mark)
  <2>1. mark \in Marks
    BY <1>1, ScanAssumption
  <2>2. ~IsFinding(path, mark, Scan)
    BY <1>1, BundleScan DEF IsClean, Findings
  <2> QED
    BY <2>1, <2>2, NoFindingIsWrittenDown
<1> QED
  BY <1>1, <1>2

LEMMA DeclaredIsWrittenDown ==
    ASSUME NEW declared \in Manifests, DeclaresCleanly(declared)
    PROVE  \A mark \in ManifestMatches[declared] : IsWrittenDown(MANIFEST_NAME, mark)
<1>1. ManifestMatches[declared] \subseteq Marks
  BY PublicationAssumption
<1> QED
  BY <1>1, NoFindingIsWrittenDown DEF DeclaresCleanly

-----------------------------------------------------------------------------
USE DEF Walks, Loops, Ended

(***************************************************************************)
(* Once the check has walked the tree no window is open any more: what it  *)
(* has still to compare is the only thing not known to be as declared.     *)
(***************************************************************************)
Compared ==
    /\ pc = "read" => manifest # None
    /\ pc \in {"compare", "upload"} =>
          /\ manifest # None
          /\ entries = manifest
          /\ Walked = DOMAIN manifest
          /\ \A p \in Walked \ todo : tree[p] = manifest[p]
          /\ pc = "upload" => todo = {}

LEMMA TypesKept == TypeOK /\ Compared /\ [Next]_vars => TypeOK'
<1> SUFFICES ASSUME TypeOK, Compared, [Next]_vars PROVE TypeOK'
  OBVIOUS
<1> USE DEF TypeOK
<1>1. CASE GateWalk
  BY <1>1 DEF GateWalk
<1>2. CASE FreezeWalk
  BY <1>2 DEF FreezeWalk, Walked
<1>3. CASE WriteManifest
  BY <1>3 DEF WriteManifest
<1>4. CASE ScanWalk
  BY <1>4 DEF ScanWalk, Walked
<1>5. CASE ScanVerdict
  BY <1>5 DEF ScanVerdict
<1>6. CASE CheckWalk
  <2>1. manifest # None => DOMAIN manifest \subseteq Files
    BY DEF Manifests
  <2> QED
    BY <1>6, <2>1 DEF CheckWalk
<1>7. CASE CheckVerdict
  BY <1>7 DEF CheckVerdict
<1>8. CASE Upload
  BY <1>8 DEF Upload, Compared
<1>9. ASSUME NEW p \in Files, HashFile(p) PROVE TypeOK'
  <2>1. CASE tree[p] \in Contents
    <3>1. DOMAIN entries \in SUBSET Files /\ entries \in [DOMAIN entries -> Contents]
      BY DEF Manifests
    <3>2. With(p) \in [DOMAIN entries \cup {p} -> Contents]
      BY <2>1, <3>1 DEF With
    <3>3. With(p) \in Manifests
      BY <3>1, <3>2 DEF Manifests
    <3> QED
      BY <1>9, <2>1, <3>3 DEF HashFile
  <2>2. CASE tree[p] \notin Contents
    BY <1>9, <2>2 DEF HashFile
  <2> QED
    BY <2>1, <2>2
<1>10. ASSUME NEW p \in Files, ScanFile(p) PROVE TypeOK'
  BY <1>10 DEF ScanFile
<1>16. CASE ScanManifest
  BY <1>16 DEF ScanManifest, Compared
<1>11. ASSUME NEW p \in Files, CompareFile(p) PROVE TypeOK'
  BY <1>11 DEF CompareFile
<1>12. CASE StepFails
  BY <1>12 DEF StepFails
<1>13. CASE RewriteManifest
  <2>1. manifest' \in Manifests
    BY <1>13, PublicationAssumption DEF RewriteManifest
  <2>2. PICK S \in SUBSET Files : manifest' \in [S -> Contents]
    BY <2>1 DEF Manifests
  <2>3. tree' \in Trees
    BY <1>13, <2>2 DEF RewriteManifest, Trees
  <2> QED
    BY <1>13, <2>1, <2>3 DEF RewriteManifest
<1>14. ASSUME NEW p \in Files, WriteFile(p) PROVE TypeOK'
  <2>1. Placeable[p] \subseteq Contents
    BY PublicationAssumption
  <2> QED
    BY <1>14, <2>1 DEF WriteFile, Trees
<1>15. CASE UNCHANGED vars
  BY <1>15 DEF vars
<1> QED
  BY <1>1, <1>2, <1>3, <1>4, <1>5, <1>6, <1>7, <1>8, <1>9, <1>10, <1>11, <1>12, <1>13,
     <1>14, <1>15, <1>16 DEF Next, Step, Finished

LEMMA ComparedKept == TypeOK /\ Compared /\ [Next]_vars => Compared'
<1> SUFFICES ASSUME TypeOK, Compared, [Next]_vars PROVE Compared'
  OBVIOUS
<1> USE DEF TypeOK, Compared, Walked
<1>1. CASE GateWalk \/ FreezeWalk \/ WriteManifest \/ ScanWalk \/ ScanVerdict
  BY <1>1 DEF GateWalk, FreezeWalk, WriteManifest, ScanWalk, ScanVerdict
<1>2. CASE CheckWalk
  BY <1>2 DEF CheckWalk
<1>3. CASE CheckVerdict
  BY <1>3 DEF CheckVerdict
<1>4. CASE Upload \/ StepFails
  BY <1>4 DEF Upload, StepFails
<1>5. ASSUME NEW p \in Files, HashFile(p) \/ ScanFile(p) PROVE Compared'
  BY <1>5 DEF HashFile, ScanFile
<1>6. ASSUME NEW p \in Files, CompareFile(p) PROVE Compared'
  BY <1>6 DEF CompareFile
<1>7. ASSUME NEW p \in Files, WriteFile(p) PROVE Compared'
  BY <1>7 DEF WriteFile, WindowOpen
<1>8. CASE RewriteManifest
  <2>1. manifest' # None
    <3>1. manifest' \in Manifests
      BY <1>8, PublicationAssumption DEF RewriteManifest
    <3> QED
      BY <3>1, PublicationAssumption
  <2> QED
    BY <1>8, <2>1 DEF RewriteManifest, WindowOpen
<1>10. CASE ScanManifest
  BY <1>10 DEF ScanManifest
<1>9. CASE UNCHANGED vars
  BY <1>9 DEF vars
<1> QED
  BY <1>1, <1>2, <1>3, <1>4, <1>5, <1>6, <1>7, <1>8, <1>9, <1>10 DEF Next, Step, Finished

LEMMA TypesAndCompared == Spec => [](TypeOK /\ Compared)
<1>1. Init => TypeOK /\ Compared
  <2>1. <<>> \in [{} -> Contents]
    OBVIOUS
  <2>2. <<>> \in Manifests
    BY <2>1 DEF Manifests
  <2> QED
    BY <2>2 DEF Init, TypeOK, Compared
<1> QED
  BY <1>1, TypesKept, ComparedKept, PTL DEF Spec

(***************************************************************************)
(* Types, for any writer: a file that is gone or is no regular file by the *)
(* time it is read never gets into a manifest.                             *)
(***************************************************************************)
THEOREM TypeCorrect == Spec => []TypeOK
BY TypesAndCompared, PTL

-----------------------------------------------------------------------------
LEMMA UploadKeepsTheMatch ==
    TypeOK /\ Compared /\ UploadedMatchesManifest /\ [Next]_vars => UploadedMatchesManifest'
<1> SUFFICES ASSUME TypeOK, Compared, UploadedMatchesManifest, [Next]_vars
             PROVE  UploadedMatchesManifest'
  OBVIOUS
<1> USE DEF UploadedMatchesManifest, Uploaded
<1>1. CASE Upload
  BY <1>1 DEF Upload, Compared, Walked
<1>2. CASE UNCHANGED uploaded
  BY <1>2
<1> QED
  BY <1>1, <1>2 DEF Next, Step, Finished, vars, GateWalk, FreezeWalk, WriteManifest, ScanWalk,
     ScanVerdict, CheckWalk, CheckVerdict, HashFile, ScanFile, ScanManifest, CompareFile, StepFails,
     RewriteManifest, WriteFile

(***************************************************************************)
(* The artifact is what its manifest declares, file by file and byte by    *)
(* byte, whoever writes and whenever its window is open.                   *)
(***************************************************************************)
THEOREM ArtifactIsAsDeclared == Spec => []UploadedMatchesManifest
<1>1. Init => UploadedMatchesManifest
  BY DEF Init, UploadedMatchesManifest
<1> QED
  BY <1>1, TypesAndCompared, UploadKeepsTheMatch, PTL DEF Spec

-----------------------------------------------------------------------------
\* With no writer before the scan, the gate's walk holds for what is frozen.
AdmittedSoFar ==
    writer \in {None, <<"scan", "files">>} =>
        /\ pc \in {"freeze", "hash"} => Walked \subseteq Admitted
        /\ pc = "hash" => todo \subseteq Admitted
        /\ DOMAIN entries \subseteq Admitted
        /\ manifest # None => DOMAIN manifest \subseteq Admitted
        /\ UploadedWasAdmitted

LEMMA AdmittedKept == TypeOK /\ Compared /\ AdmittedSoFar /\ [Next]_vars => AdmittedSoFar'
<1> SUFFICES ASSUME TypeOK, Compared, AdmittedSoFar, [Next]_vars,
                    writer' \in {None, <<"scan", "files">>}
             PROVE  AdmittedSoFar'
  BY DEF AdmittedSoFar
<1> USE DEF TypeOK, AdmittedSoFar, UploadedWasAdmitted, Uploaded, Walked
<1>0. writer' = writer
  BY DEF Next, Step, Finished, vars, GateWalk, FreezeWalk, WriteManifest, ScanWalk, ScanVerdict,
     CheckWalk, CheckVerdict, Upload, HashFile, ScanFile, ScanManifest, CompareFile, StepFails,
     RewriteManifest, WriteFile
<1>1. CASE GateWalk \/ FreezeWalk \/ WriteManifest
  BY <1>0, <1>1 DEF GateWalk, FreezeWalk, WriteManifest
<1>2. CASE ScanWalk \/ ScanVerdict \/ CheckWalk \/ CheckVerdict \/ StepFails
  BY <1>0, <1>2 DEF ScanWalk, ScanVerdict, CheckWalk, CheckVerdict, StepFails
<1>3. CASE Upload
  BY <1>0, <1>3 DEF Upload, Compared
<1>4. ASSUME NEW p \in Files, HashFile(p) PROVE AdmittedSoFar'
  BY <1>0, <1>4 DEF HashFile, With
<1>5. ASSUME NEW p \in Files, ScanFile(p) \/ CompareFile(p) PROVE AdmittedSoFar'
  BY <1>0, <1>5 DEF ScanFile, CompareFile
<1>9. CASE ScanManifest
  BY <1>0, <1>9 DEF ScanManifest
<1>6. ASSUME NEW p \in Files, WriteFile(p) PROVE AdmittedSoFar'
  BY <1>0, <1>6 DEF WriteFile, WindowOpen
<1>7. CASE RewriteManifest
  BY <1>0, <1>7 DEF RewriteManifest
<1>8. CASE UNCHANGED vars
  BY <1>8 DEF vars
<1> QED
  BY <1>1, <1>2, <1>3, <1>4, <1>5, <1>6, <1>7, <1>8, <1>9 DEF Next, Step, Finished

(***************************************************************************)
(* Nothing off the allowlist leaves, unless a writer works between the     *)
(* gate's own walks or forges a manifest.                                  *)
(***************************************************************************)
THEOREM OnlyTheAllowlistLeaves == Spec => []UploadedWasAdmitted
<1>1. Init => AdmittedSoFar
  BY DEF Init, AdmittedSoFar, UploadedWasAdmitted
<1>2. Spec => []AdmittedSoFar
  BY <1>1, TypesAndCompared, AdmittedKept, PTL DEF Spec
<1>3. AdmittedSoFar => UploadedWasAdmitted
  BY DEF AdmittedSoFar, UploadedWasAdmitted
<1> QED
  BY <1>2, <1>3, PTL

-----------------------------------------------------------------------------
\* With no writer from the scan on, what the scan has passed over stays clean.
Read(p) == <<p, tree[p]>> \in scanned /\ IsClean(p, tree[p], Scan)

ReadManifest == <<MANIFEST_NAME, manifest>> \in scanned /\ DeclaresCleanly(manifest)

ScannedSoFar ==
    (writer # None => writer[1] = "gate") =>
        /\ pc = "read" => /\ ~WalkRaises
                          /\ \/ findings
                             \/ /\ \A p \in Walked \ todo : Read(p)
                                /\ MANIFEST_NAME \in todo \/ ReadManifest
        /\ pc \in {"check", "compare", "upload"} => (\A p \in Walked : Read(p)) /\ ReadManifest
        /\ UploadedWasScanned

LEMMA ScannedKept == TypeOK /\ Compared /\ ScannedSoFar /\ [Next]_vars => ScannedSoFar'
<1> SUFFICES ASSUME TypeOK, Compared, ScannedSoFar, [Next]_vars,
                    (writer # None => writer[1] = "gate")'
             PROVE  ScannedSoFar'
  BY DEF ScannedSoFar
<1> USE DEF TypeOK, ScannedSoFar, UploadedWasScanned, Uploaded, Walked, Read, ReadManifest
<1>0. writer' = writer
  BY DEF Next, Step, Finished, vars, GateWalk, FreezeWalk, WriteManifest, ScanWalk, ScanVerdict,
     CheckWalk, CheckVerdict, Upload, HashFile, ScanFile, ScanManifest, CompareFile, StepFails,
     RewriteManifest, WriteFile
<1>1. CASE GateWalk \/ FreezeWalk \/ WriteManifest \/ ScanWalk
  BY <1>0, <1>1 DEF GateWalk, FreezeWalk, WriteManifest, ScanWalk, WalkRaises
<1>2. CASE ScanVerdict \/ CheckWalk \/ CheckVerdict \/ StepFails
  BY <1>0, <1>2 DEF ScanVerdict, CheckWalk, CheckVerdict, StepFails
<1>3. CASE Upload
  <2>1. /\ manifest \in Manifests /\ Walked = DOMAIN manifest
        /\ \A p \in Walked : tree[p] = manifest[p] /\ Read(p)
        /\ ReadManifest
    BY <1>0, <1>3 DEF Upload, Compared
  <2>2. \A p \in Walked : tree[p] \in Contents /\ IsClean(p, tree[p], Scan)
    <3>1. PICK S \in SUBSET Files : manifest \in [S -> Contents]
      BY <2>1 DEF Manifests
    <3>2. \A p \in Walked : manifest[p] \in Contents
      BY <2>1, <3>1
    <3> QED
      BY <2>1, <3>2
  <2>3. \A p \in Walked : /\ tree[p] \in Decodable
                          /\ \A mark \in Matches[tree[p]] : IsWrittenDown(p, mark)
    BY <2>2, CleanIsWrittenDown
  <2>4. \A mark \in ManifestMatches[manifest] : IsWrittenDown(MANIFEST_NAME, mark)
    BY <2>1, DeclaredIsWrittenDown
  <2>5. uploaded' = <<tree, manifest>> /\ pc' = "uploaded"
    BY <1>3 DEF Upload
  <2>6. UploadedWasScanned'
    BY <2>1, <2>3, <2>4, <2>5, <1>3 DEF Upload
  <2> QED
    BY <2>5, <2>6
<1>4. ASSUME NEW p \in Files, HashFile(p) \/ CompareFile(p) PROVE ScannedSoFar'
  BY <1>0, <1>4 DEF HashFile, CompareFile
<1>5. ASSUME NEW p \in Files, ScanFile(p) PROVE ScannedSoFar'
  <2>1. tree[p] \in Contents \/ tree[p] = None
    BY <1>0, <1>5 DEF ScanFile, WalkRaises, Trees
  <2>2. /\ pc = "read" /\ pc' = "read" /\ p # MANIFEST_NAME /\ ~WalkRaises'
        /\ UNCHANGED <<tree, manifest, uploaded>>
        /\ todo' = todo \ {p} /\ scanned \subseteq scanned'
        /\ findings \/ ~IsClean(p, tree[p], Scan) => findings'
    BY <1>0, <1>5, PublicationAssumption DEF ScanFile, WalkRaises
  <2>3. CASE findings'
    BY <1>0, <2>2, <2>3
  <2>4. CASE ~findings'
    <3>1. ~findings /\ IsClean(p, tree[p], Scan)
      BY <2>2, <2>4
    <3>2. p \in Walked => Read(p)'
      BY <1>5, <2>1, <2>2, <3>1 DEF ScanFile
    <3>3. \A q \in Walked \ todo : Read(q)'
      BY <1>0, <2>2, <3>1
    <3>4. (\A q \in Walked \ todo : Read(q))'
      BY <2>2, <3>2, <3>3
    <3>5. (MANIFEST_NAME \in todo \/ ReadManifest)'
      BY <1>0, <2>2, <3>1
    <3> QED
      BY <1>0, <2>2, <3>4, <3>5
  <2> QED
    BY <2>3, <2>4
<1>9. CASE ScanManifest
  <2>1. MANIFEST_NAME \notin Files
    BY PublicationAssumption
  <2> QED
    BY <1>0, <1>9, <2>1 DEF ScanManifest, WalkRaises
<1>6. ASSUME NEW p \in Files, WriteFile(p) PROVE ScannedSoFar'
  BY <1>0, <1>6 DEF WriteFile, WindowOpen
<1>7. CASE RewriteManifest
  BY <1>0, <1>7 DEF RewriteManifest, WindowOpen
<1>8. CASE UNCHANGED vars
  BY <1>8 DEF vars, WalkRaises
<1> QED
  BY <1>1, <1>2, <1>3, <1>4, <1>5, <1>6, <1>7, <1>8, <1>9 DEF Next, Step, Finished

(***************************************************************************)
(* Every uploaded byte was read by the scan, and what it could object to   *)
(* is written down for that path, unless a writer works while it reads.    *)
(***************************************************************************)
THEOREM EveryUploadedByteWasScanned == Spec => []UploadedWasScanned
<1>1. Init => ScannedSoFar
  BY DEF Init, ScannedSoFar, UploadedWasScanned
<1>2. Spec => []ScannedSoFar
  BY <1>1, TypesAndCompared, ScannedKept, PTL DEF Spec
<1>3. ScannedSoFar => UploadedWasScanned
  BY DEF ScannedSoFar, UploadedWasScanned
<1> QED
  BY <1>2, <1>3, PTL

-----------------------------------------------------------------------------
(***************************************************************************)
(* The refinement of AtomicPublication.  What a writer voids is read off   *)
(* the job's writer, which never changes.                                  *)
(***************************************************************************)
LEMMA VoidedParts ==
    ASSUME TypeOK
    PROVE  /\ Voided \subseteq {"admission", "scan"}
           /\ writer # None => Voided # {}
           /\ "admission" \notin Voided => writer \in {None, <<"scan", "files">>}
           /\ "scan" \notin Voided => (writer # None => writer[1] = "gate")
<1>1. writer # None => writer \in Windows \X Targets
  BY DEF TypeOK
<1>2. CASE writer = None
  BY <1>2 DEF Voided
<1>3. CASE writer # None /\ writer[1] = "gate"
  <2>1. Voided = {"admission"}
    BY <1>3 DEF Voided
  <2> QED
    BY <1>3, <2>1
<1>4. CASE writer # None /\ writer[1] # "gate" /\ writer = <<"scan", "files">>
  <2>1. Voided = {"scan"}
    BY <1>4 DEF Voided
  <2> QED
    BY <1>4, <2>1
<1>5. CASE writer # None /\ writer[1] # "gate" /\ writer # <<"scan", "files">>
  <2>1. Voided = {"admission", "scan"}
    BY <1>5 DEF Voided
  <2> QED
    BY <1>5, <2>1
<1> QED
  BY <1>2, <1>3, <1>4, <1>5

LEMMA WriterStays == [Next]_vars => UNCHANGED writer
BY DEF Next, Step, Finished, vars, GateWalk, FreezeWalk, WriteManifest, ScanWalk, ScanVerdict,
   CheckWalk, CheckVerdict, Upload, HashFile, ScanFile, ScanManifest, CompareFile, StepFails,
   RewriteManifest, WriteFile

\* A step of the programs leaves the tree alone, and decides or stutters.
LEMMA ProgramsCloseOrStutter ==
    ASSUME TypeOK, UNCHANGED <<writer, tree, uploaded>>,
           pc \in Ended => pc' \in Ended
    PROVE  AtOnce!Close \/ UNCHANGED AtOnce!vars
<1>1. UNCHANGED Voided
  BY DEF Voided
<1> QED
  BY <1>1 DEF AtOnce!Close, AtOnce!vars

\* What was established walk by walk holds of the tree that is uploaded.
LEMMA UploadIsAtomic ==
    ASSUME TypeOK, Compared, AdmittedSoFar, ScannedSoFar, Upload
    PROVE  AtOnce!Publish
<1>1. /\ manifest # None /\ Walked = DOMAIN manifest
      /\ \A p \in Walked : tree[p] = manifest[p]
  BY DEF Compared, Upload
<1>2. PICK S \in SUBSET Files : manifest \in [S -> Contents]
  BY <1>1 DEF TypeOK, Manifests
<1>3. manifest = [p \in Walked |-> tree[p]]
  BY <1>1, <1>2
<1>4. AtOnce!Present = Walked
  BY DEF AtOnce!Present, Walked
<1>5. \A p \in Walked : tree[p] \in Contents
  BY <1>1, <1>2
<1>6. "admission" \notin Voided => Walked \subseteq Admitted
  BY <1>1, VoidedParts DEF AdmittedSoFar
<1>7. "scan" \notin Voided => \A p \in Walked : <<p, tree[p]>> \in CleanFiles
  <2>1. ASSUME "scan" \notin Voided, NEW p \in Walked PROVE <<p, tree[p]>> \in CleanFiles
    <3>1. IsClean(p, tree[p], Scan)
      BY <2>1, VoidedParts DEF ScannedSoFar, Read, Upload
    <3>2. p \in Files
      BY DEF Walked
    <3> QED
      BY <1>5, <3>1, <3>2 DEF CleanFiles
  <2> QED
    BY <2>1
<1>10. "scan" \notin Voided => [p \in Walked |-> tree[p]] \in CleanManifests
  BY <1>1, <1>3, VoidedParts DEF ScannedSoFar, ReadManifest, Upload, CleanManifests, TypeOK
<1>8. UNCHANGED Voided
  BY DEF Upload, Voided
<1>9. uploaded' = <<tree, [p \in AtOnce!Present |-> tree[p]]>>
  BY <1>3, <1>4 DEF Upload
<1> QED
  BY <1>4, <1>5, <1>6, <1>7, <1>8, <1>9, <1>10 DEF Upload, AtOnce!Publish

LEMMA WriterMeddles ==
    ASSUME TypeOK, TypeOK', writer # None, WindowOpen, UNCHANGED <<pc, writer, uploaded>>
    PROVE  AtOnce!Meddle
<1>1. pc \notin Ended
  BY DEF WindowOpen
<1>2. UNCHANGED Voided
  BY DEF Voided
<1>3. tree' \in AtOnce!Trees
  BY DEF TypeOK, Trees, AtOnce!Trees
<1> QED
  BY <1>1, <1>2, <1>3, VoidedParts DEF AtOnce!Meddle

LEMMA StepIsAtomic ==
    TypeOK /\ TypeOK' /\ Compared /\ AdmittedSoFar /\ ScannedSoFar /\ [Next]_vars
        => [AtOnce!Next]_AtOnce!vars
<1> SUFFICES ASSUME TypeOK, TypeOK', Compared, AdmittedSoFar, ScannedSoFar, [Next]_vars
             PROVE  AtOnce!Next \/ UNCHANGED AtOnce!vars
  OBVIOUS
<1>1. CASE Upload
  BY <1>1, UploadIsAtomic DEF AtOnce!Next
<1>2. ASSUME RewriteManifest \/ \E p \in Files : WriteFile(p)
      PROVE  AtOnce!Next
  <2>1. writer # None /\ WindowOpen /\ UNCHANGED <<pc, writer, uploaded>>
    BY <1>2 DEF RewriteManifest, WriteFile
  <2> QED
    BY <2>1, WriterMeddles DEF AtOnce!Next
<1>3. ASSUME UNCHANGED <<tree, uploaded>>, pc \in Ended => pc' \in Ended
      PROVE  AtOnce!Next \/ UNCHANGED AtOnce!vars
  BY <1>3, WriterStays, ProgramsCloseOrStutter DEF AtOnce!Next
<1>4. CASE GateWalk \/ FreezeWalk \/ WriteManifest \/ ScanWalk \/ ScanVerdict
           \/ ScanManifest \/ CheckWalk \/ CheckVerdict \/ StepFails
  BY <1>3, <1>4 DEF GateWalk, FreezeWalk, WriteManifest, ScanWalk, ScanVerdict, ScanManifest,
     CheckWalk, CheckVerdict, StepFails
<1>5. ASSUME NEW p \in Files, HashFile(p) \/ ScanFile(p) \/ CompareFile(p)
      PROVE  AtOnce!Next \/ UNCHANGED AtOnce!vars
  BY <1>3, <1>5 DEF HashFile, ScanFile, CompareFile
<1>6. CASE UNCHANGED vars
  BY <1>3, <1>6 DEF vars
<1> QED
  BY <1>1, <1>2, <1>4, <1>5, <1>6 DEF Next, Step, Finished

(***************************************************************************)
(* Publication implements AtomicPublication: whatever walks, loops and     *)
(* files the gate, the scan and the check go through, what leaves is one   *)
(* tree, as it is at that moment, admitted and clean in every part that no *)
(* writer voids, with a manifest of exactly that tree.                     *)
(***************************************************************************)
THEOREM PublishesAtOnce == Spec => ImplementsAtomicPublication
<1>1. Init => AtOnce!Init /\ AdmittedSoFar /\ ScannedSoFar
  <2>1. Init => AdmittedSoFar /\ ScannedSoFar
    BY DEF Init, AdmittedSoFar, ScannedSoFar, UploadedWasAdmitted, UploadedWasScanned
  <2>2. ASSUME Init PROVE AtOnce!Init
    <3>1. Voided \subseteq {"admission", "scan"}
      BY <2>2 DEF Init, Voided
    <3> QED
      BY <2>2, <3>1 DEF Init, Trees, AtOnce!Init, AtOnce!Trees
  <2> QED
    BY <2>1, <2>2
<1>2. Spec => [](AdmittedSoFar /\ ScannedSoFar)
  BY <1>1, TypesAndCompared, AdmittedKept, ScannedKept, PTL DEF Spec
<1> QED
  BY <1>1, <1>2, TypesAndCompared, StepIsAtomic, PTL
  DEF Spec, ImplementsAtomicPublication, AtOnce!Spec
=============================================================================
