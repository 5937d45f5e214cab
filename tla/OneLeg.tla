------------------------------- MODULE OneLeg --------------------------------
(***************************************************************************)
(* What a hosted leg promises, with no jobs, domains or reruns: the        *)
(* counterparty is run once, over the whole case set, at the pin; it hands *)
(* over the record of that run, or what it puts in its place; and one      *)
(* statement is made, that this could not be compared, or what was handed  *)
(* over beside a record that it describes.                                 *)
(***************************************************************************)
EXTENDS Naturals

CONSTANTS
    CaseLists,  \* the case sets, each a sequence
    Outcomes,   \* Outcomes[case]: what the case may come to at the pin
    Forgeries,  \* what may be handed over instead of the record
    Bundles,    \* what the other side may record: case ids to results
    Pin,
    None

VARIABLES
    cases,
    ran,        \* the counterparty's run, or None
    handed,     \* what it handed over, or None
    published   \* the statement, or None

vars == <<cases, ran, handed, published>>

Init ==
    /\ cases \in CaseLists
    /\ ran = None
    /\ handed = None
    /\ published = None

IsRun(native) ==
    /\ native.source_commit = Pin
    /\ DOMAIN native.results = DOMAIN cases
    /\ \A i \in DOMAIN cases : native.results[i] \in Outcomes[cases[i]]

Execute ==
    /\ ran = None
    /\ ran' # None
    /\ IsRun(ran')
    /\ handed' \in {ran'} \cup Forgeries
    /\ UNCHANGED <<cases, published>>

StateUnavailable ==
    /\ ran # None
    /\ published = None
    /\ published' = [hosted |-> TRUE, native |-> None, bundle |-> None]
    /\ UNCHANGED <<cases, ran, handed>>

\* What was handed over names the pin, the bundle's cases, and of each the
\* result that the bundle has: the last one, if a case is there twice.
Describes(bundle) ==
    LET entries == handed.results
    IN  /\ handed.source_commit = Pin
        /\ DOMAIN bundle = {entries[i].case_id : i \in DOMAIN entries}
        /\ \A i \in DOMAIN entries :
              \/ entries[i].native_result = bundle[entries[i].case_id]
              \/ \E j \in DOMAIN entries : j > i /\ entries[j].case_id = entries[i].case_id

StateResults ==
    /\ ran # None
    /\ published = None
    /\ \E bundle \in Bundles :
          /\ Describes(bundle)
          /\ published' = [hosted |-> FALSE, native |-> handed, bundle |-> bundle]
    /\ UNCHANGED <<cases, ran, handed>>

Next == Execute \/ StateUnavailable \/ StateResults

Spec == Init /\ [][Next]_vars
=============================================================================
