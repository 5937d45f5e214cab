-------------------------- MODULE AtomicPublication --------------------------
(***************************************************************************)
(* What a job that publishes promises, with no walks, loops or programs:   *)
(* as if it looked at the whole tree once, decided, and uploaded what it   *)
(* had looked at, all in one step.  Whoever else writes to the tree voids  *)
(* some of the promise, and which part is fixed from the start.            *)
(***************************************************************************)
CONSTANTS
    Files,
    Contents,   \* contents of a regular file
    Others,     \* what else may be at a path: no file, or no regular one
    None,       \* no file; no artifact
    Admitted,   \* the files that may be published
    Clean,      \* <<path, content>> that may be published
    Declarable  \* manifests that may be published

VARIABLES
    voided,     \* the parts that do not hold: a subset of {"admission", "scan"}
    tree,       \* what is at each path
    open,       \* whether the job may still publish
    uploaded    \* the artifact: <<tree, manifest>>, or None

vars == <<voided, tree, open, uploaded>>

Trees == [Files -> Contents \cup Others]

Present == {p \in Files : tree[p] # None}

Init ==
    /\ voided \subseteq {"admission", "scan"}
    /\ tree \in Trees
    /\ open = TRUE
    /\ uploaded = None

\* Somebody else writes to the tree.
Meddle ==
    /\ open
    /\ voided # {}
    /\ tree' \in Trees
    /\ UNCHANGED <<voided, open, uploaded>>

\* The tree is uploaded as it is, with a manifest of exactly that.
Publish ==
    /\ open
    /\ \A p \in Present : tree[p] \in Contents
    /\ "admission" \notin voided => Present \subseteq Admitted
    /\ "scan" \notin voided => /\ \A p \in Present : <<p, tree[p]>> \in Clean
                               /\ [p \in Present |-> tree[p]] \in Declarable
    /\ uploaded' = <<tree, [p \in Present |-> tree[p]]>>
    /\ open' = FALSE
    /\ UNCHANGED <<voided, tree>>

\* Nothing is published.
Close ==
    /\ open
    /\ open' = FALSE
    /\ UNCHANGED <<voided, tree, uploaded>>

Next == Meddle \/ Publish \/ Close

Spec == Init /\ [][Next]_vars
=============================================================================
