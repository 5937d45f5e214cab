------------------------------ MODULE Admission ------------------------------
(***************************************************************************)
(* The trusted decisions of selfservice/impl/selfservice/admission.py:     *)
(* envelope verification, ticket issue and ticket consumption, as pure     *)
(* functions of the documents they read.  Each either gives its result or  *)
(* refuses; none repairs.                                                  *)
(***************************************************************************)
EXTENDS Validator, Integers, Sequences

CONSTANTS
    EnvelopeDocs,   \* the envelope documents a maintainer may merge
    TicketIds       \* the ticket ids a maintainer may type in

\* Mutant: the status of the envelope is not looked at.
EnvelopeVerifiesAnyStatus(env) ==
    /\ env.supported_version
    /\ env.signature_required
    /\ env.runs_per_request = 1
    /\ env.expiry

(***************************************************************************)
(* verify_envelope.  status is what a maintainer edits; SUSPENDED is the   *)
(* rollback path.                                                          *)
(***************************************************************************)
EnvelopeVerifies(env) ==
    /\ env.supported_version
    /\ env.status = "ACTIVE"
    /\ env.signature_required
    /\ env.runs_per_request = 1
    /\ env.expiry

(***************************************************************************)
(* A requested path is admitted by its first component or in full; paths   *)
(* and classes are sequences of components.                                *)
(***************************************************************************)
PathAdmitted(path, classes) == <<Head(path)>> \in classes \/ path \in classes

(***************************************************************************)
(* request_within_envelope returns no reason.  The commit of the request   *)
(* is not among the things it looks at.                                    *)
(***************************************************************************)
RequestWithinEnvelope(q, receipt, env) ==
    /\ q.repository \in env.counterparty_repositories
    /\ \A case \in q.cases : case.sha256 \in env.case_set_digests
    /\ q.comparison_policy.sha256 \in env.comparison_policy_digests
    /\ \A p \in q.requested_paths : PathAdmitted(p, env.publication_classes)
    /\ q.ceiling = env.max_claim_ceiling
    /\ receipt.outcome = "VALIDATED"
    /\ receipt.routine

EnvelopeIds == {env.envelope_id : env \in EnvelopeDocs}

\* The id the auto-dispatch workflow derives from the request bytes.
AutoTicketId(raw) == <<"SS-AUTO", Sha256(raw)>>

Tickets ==
    [ticket_id: TicketIds \cup ({"SS-AUTO"} \X Digests(Raw)),
     request_sha256: Digests(Raw),
     validation_receipt_sha256: Digests(Receipts),
     envelope_id: EnvelopeIds,
     runs_authorized: {1}]

(***************************************************************************)
(* issue_ticket: the conditions under which it does not raise Refused, and *)
(* the ticket it then returns.                                             *)
(***************************************************************************)
MayIssue(raw, receipt, env) ==
    /\ Parse[raw].readable
    /\ EnvelopeVerifies(env)
    /\ receipt.request_sha256 = Sha256(raw)
    /\ receipt.privileged = FALSE
    /\ receipt.secrets_available = FALSE
    /\ RequestWithinEnvelope(Parse[raw], receipt, env)

Ticket(ticket_id, receipt, env) ==
    [ticket_id |-> ticket_id,
     request_sha256 |-> receipt.request_sha256,
     validation_receipt_sha256 |-> Sha256(receipt),
     envelope_id |-> env.envelope_id,
     runs_authorized |-> 1]

-----------------------------------------------------------------------------
(***************************************************************************)
(* consume_ticket: what the ticket must agree with before the ledger is    *)
(* read, the two refusals the ledger can cause, in the order the code      *)
(* tries them, and the entry it appends.                                   *)
(***************************************************************************)
Entries ==
    [ticket_sha256: Digests(Tickets), request_sha256: Digests(Raw),
     envelope_id: EnvelopeIds]

TicketCovers(ticket, raw, env) ==
    /\ EnvelopeVerifies(env)
    /\ ticket.runs_authorized = 1
    /\ ticket.envelope_id = env.envelope_id
    /\ ticket.request_sha256 = Sha256(raw)

\* Mutant: entries are compared by the envelope they were admitted under.
TicketConsumedByEnvelope(consumed, ticket) ==
    \E i \in DOMAIN consumed : consumed[i].envelope_id = ticket.envelope_id

TicketConsumed(consumed, ticket) ==
    \E i \in DOMAIN consumed : consumed[i].ticket_sha256 = Sha256(ticket)

\* Mutant: only the ticket is looked for, as if a request had one ticket.
RequestDispatchedNever(consumed, digest) == FALSE

RequestDispatched(consumed, digest) ==
    \E i \in DOMAIN consumed : consumed[i].request_sha256 = digest

Entry(ticket) ==
    [ticket_sha256 |-> Sha256(ticket),
     request_sha256 |-> ticket.request_sha256,
     envelope_id |-> ticket.envelope_id]
=============================================================================
