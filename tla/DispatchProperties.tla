-------------------------- MODULE DispatchProperties -------------------------
(***************************************************************************)
(* What the self-service contour must guarantee, over the states of        *)
(* Dispatch.                                                               *)
(***************************************************************************)
EXTENDS Dispatch, SequencesExt

Identity(r) == Sha256(request[r])

Executed(r) == ran[r] # None

\* The consumption is durable and the counterparty has not been started.
Holding(r) == pc[r] \in {"committed", "admitted"}

-----------------------------------------------------------------------------
(* Safety: one run per request.                                            *)

(***************************************************************************)
(* No request identity is executed by two runs, however the two workflows  *)
(* interleave: runs_authorized is 1 and "more than one run per request" is *)
(* what the envelope refuses.  Neither concurrency group sees the other    *)
(* workflow, so this rests on the ledger's compare-and-swap alone.         *)
(***************************************************************************)
AtMostOneExecution ==
    \A r, s \in Runs :
        (r # s /\ Executed(r) /\ Executed(s)) => request[r] # request[s]

(***************************************************************************)
(* The ledger names each request identity at most once, even when two runs *)
(* append to copies of the same ledger.                                    *)
(***************************************************************************)
LedgerNamesEachRequestOnce ==
    \A i, j \in DOMAIN ledger.consumed :
        ledger.consumed[i].request_sha256 = ledger.consumed[j].request_sha256 => i = j

(***************************************************************************)
(* No step takes an entry away, changes one or removes the file: a second  *)
(* writer "fails closed rather than silently overwriting the first         *)
(* writer's entry" (ledger_client.py).                                     *)
(***************************************************************************)
LedgerAppendOnly ==
    [][/\ IsPrefix(ledger.consumed, ledger'.consumed)
       /\ ledger.exists => ledger'.exists]_ledger

(***************************************************************************)
(* The consumption is durable before the counterparty starts: whatever has *)
(* executed has its own entry in the ledger, and the entry stays.          *)
(***************************************************************************)
ExecutedWasSpent ==
    \A r \in Runs : Executed(r) =>
        \E i \in DOMAIN ledger.consumed : ledger.consumed[i] = Entry(ticket[r])

\* The documents of a run describe one another, and together allow a ticket.
Endorsed(r) ==
    /\ MayIssue(request[r], receipt[r], envelope[r])
    /\ ticket[r].request_sha256 = Identity(r)
    /\ ticket[r].validation_receipt_sha256 = Sha256(receipt[r])

(***************************************************************************)
(* Only a run whose write went through has burned a request: every entry   *)
(* belongs to a run that committed it, or that failed after its ticket,    *)
(* and the documents of that run still admit the very request the entry    *)
(* burns, although the branch has moved on.  A run that was refused, or    *)
(* lost the compare-and-swap, leaves no trace.                             *)
(***************************************************************************)
EveryEntryHasItsRun ==
    \A i \in DOMAIN ledger.consumed : \E r \in Runs :
        /\ pc[r] \in {"committed", "admitted", "executed", "published", "failed"}
        /\ ticket[r] \in Tickets
        /\ Endorsed(r)
        /\ ledger.consumed[i] = Entry(ticket[r])

(***************************************************************************)
(* A conflict is never spurious: the ledger this run fetched has since     *)
(* been extended, so some other run's consumption went through.            *)
(***************************************************************************)
ConflictMeansOthersProgressed ==
    \A r \in Runs : pc[r] = "conflicted" =>
        IsStrictPrefix(expected[r][2].consumed, ledger.consumed)

(***************************************************************************)
(* A replay refusal is decided on a copy of the ledger that may be out of  *)
(* date by then, and is right all the same: the identity is spent.         *)
(***************************************************************************)
ReplayRefusalsAreRight ==
    \A r \in Runs : pc[r] \in {"replayed", "dispatched"} =>
        RequestDispatched(ledger.consumed, Identity(r))

-----------------------------------------------------------------------------
(* Safety: what may run.                                                   *)

\* The repository and the commit that ran are those of the request.
RanAtItsPin(r) ==
    /\ ran[r].repository = Parse[request[r]].repository
    /\ ran[r].commit = Parse[request[r]].commit

(***************************************************************************)
(* What was executed is what was admitted: the ticket, the receipt and the *)
(* request handed over describe one another and the envelope that was      *)
(* checked out, and the pin that ran is the pin of those request bytes --  *)
(* although the request file at that path may have changed since it was    *)
(* validated, and again since it was checked out.                          *)
(*                                                                         *)
(* The manual workflow hands the pin over through outputs that a string of *)
(* several lines can override.  No conforming request has one, so the pin  *)
(* that runs can be another only under a receipt the default branch's      *)
(* validator would not give.                                               *)
(***************************************************************************)
ExecutedAsAdmitted ==
    \A r \in Runs : Executed(r) =>
        /\ Endorsed(r)
        /\ (input[r].kind = "auto" \/ PinIsOneLine(request[r])) => RanAtItsPin(r)
        /\ receipt[r] = HostedReceipt(request[r]) => PinIsOneLine(request[r])

(***************************************************************************)
(* An automatic run executes only what the default branch's own validator  *)
(* calls VALIDATED, whatever receipt came with the artifact.               *)
(***************************************************************************)
AutoExecutionWasRevalidated ==
    \A r \in Runs : (Executed(r) /\ input[r].kind = "auto") =>
        receipt[r] = HostedReceipt(request[r]) /\ Validated(receipt[r])

\* What VALIDATED and routine say of a request and of the tree at its pin.
VerifiedIn(tree, q) ==
    /\ SchemaConforms(q) /\ q.research_mode = FALSE
    /\ IsFile(tree, q.entrypoint)
    /\ \A a \in PinnedArtifacts(q) : ArtifactVerifies(a, tree)

(***************************************************************************)
(* From end to end: at the commit that ran, every artifact the request     *)
(* pins is inside the tree and has the pinned bytes, the entrypoint it     *)
(* declares is a file, and the request is routine -- on the automatic path *)
(* whatever validator wrote the receipt it was started with, on the manual *)
(* path if the receipt is the one the default branch's gives at the pin.   *)
(***************************************************************************)
ExecutedSourceWasVerified ==
    \A r \in Runs :
        (/\ Executed(r)
         /\ input[r].kind = "auto" \/ receipt[r] = HostedReceipt(request[r]))
            => VerifiedIn(Source(ran[r].repository, ran[r].commit), Parse[request[r]])

(***************************************************************************)
(* "suspending an envelope is the rollback path and it works" (admission.  *)
(* py): an automatic run that starts, and a manual run that is dispatched, *)
(* while its envelope is suspended is barred, and a barred run stays so,   *)
(* whatever is merged later: it never executes.  Runs past their checkout  *)
(* at the suspension are not stopped by it, and neither are manual runs    *)
(* that were dispatched before it and have not started yet.                *)
(***************************************************************************)
Suspended(i) == envelopes[i.envelope].status # "ACTIVE"

Barred(r) ==
    /\ ~Executed(r)
    /\ \/ /\ pc[r] \in {"checked_out", "collected", "revalidated"}
          /\ envelope[r].status # "ACTIVE"
       \/ /\ pc[r] = "queued" /\ input[r].kind = "manual"
          /\ input[r].sha.envelope.status # "ACTIVE"
       \/ pc[r] \in {"skipped", "cancelled", "failed", "refused"}

AutoWaits(r) == pc[r] = "queued" /\ input[r].kind = "auto"

SuspensionStopsLaterRuns ==
    [][\A r \in Runs :
          /\ (AutoWaits(r) /\ Suspended(input[r])) => (AutoWaits(r)' \/ Barred(r)')
          /\ (pc[r] = "idle" /\ pc[r]' # "idle" /\ input[r]'.kind = "manual"
                  /\ Suspended(input[r]')) => Barred(r)'
          /\ Barred(r) => Barred(r)']_vars

-----------------------------------------------------------------------------
(* Liveness.                                                               *)

(***************************************************************************)
(* No run waits for ever for its concurrency group, and none stops between *)
(* two steps: everything queued ends, in one of the ways a run can end.    *)
(***************************************************************************)
EveryRunEnds ==
    \A r \in Runs : (pc[r] = "queued") ~> (pc[r] \in Ended)

(***************************************************************************)
(* The run spent its request and then found no runner/run.py to run at the *)
(* pin.  The validator looks for the entrypoint the request declares, so   *)
(* this can only befall a request that declares another one, or one whose  *)
(* receipt is not of its pin.                                              *)
(***************************************************************************)
Stillborn(r) ==
    /\ pc[r] = "failed" /\ ticket[r] # None
    /\ ~Runnable(request[r])
    /\ receipt[r] = HostedReceipt(request[r])
          => Parse[request[r]].entrypoint # "runner/run.py"

(***************************************************************************)
(* When no step fails by itself, a ticket is good for its run: the request *)
(* is executed (by this run or by another one for the same identity), or   *)
(* this run lost the compare-and-swap, or the pin it was spent on has no   *)
(* program to run.                                                         *)
(***************************************************************************)
TicketedRunsOrLosesTheRace ==
    \A r \in Runs :
        (pc[r] = "ticketed") ~>
            \/ pc[r] = "conflicted"
            \/ \E s \in Runs : request[s] = request[r] /\ (Executed(s) \/ Stillborn(s))

(***************************************************************************)
(* Contention never stops everyone: once some run holds a ticket, some     *)
(* counterparty is executed, or a request spent on a pin that has no       *)
(* program to run.                                                         *)
(***************************************************************************)
SomebodyRuns ==
    (\E r \in Runs : pc[r] = "ticketed")
        ~> (\E s \in Runs : Executed(s) \/ Stillborn(s))

-----------------------------------------------------------------------------
(* What the repository says of the program, and the program does not do.   *)

(***************************************************************************)
(* "a routine, envelope-conforming request reaching hosted execution with  *)
(* nobody pressing anything for that request" (selfservice-autodispatch.   *)
(* yml): an automatic run queued for a validated request that the envelope *)
(* admits leads to that request's execution.                               *)
(***************************************************************************)
ConformingAutoRun(r) ==
    /\ pc[r] = "queued"
    /\ input[r].kind = "auto"
    /\ ArtifactOf(r) # None
    /\ MayIssue(ArtifactOf(r).request, HostedReceipt(ArtifactOf(r).request),
                envelopes[AutoEnvelope])

ConformingRequestReachesExecution ==
    \A r \in Runs, raw \in Raw :
        (ConformingAutoRun(r) /\ ArtifactOf(r).request = raw) ~>
            \E s \in Runs : Executed(s) /\ request[s] = raw

(***************************************************************************)
(* "The automatic path admits exact commits, not repositories -- so a      *)
(* known repository at a commit nobody admitted is reviewed, not run"      *)
(* (ROUTING.md), and INTAKE-MODEL.md takes source_identity_admitted from   *)
(* the active envelope: whatever else two automatic executions of the same *)
(* repository differ in, an envelope that names only repositories cannot   *)
(* have admitted two commits of it.                                        *)
(***************************************************************************)
AutoRunsOneCommitPerRepository ==
    \A r, s \in Runs :
        (/\ Executed(r) /\ Executed(s)
         /\ input[r].kind = "auto" /\ input[s].kind = "auto"
         /\ ran[r].repository = ran[s].repository)
            => ran[r].commit = ran[s].commit

(***************************************************************************)
(* "Execute the counterparty's own entrypoint" and "Check the native       *)
(* result against the schema the request pinned" (both workflows): what is *)
(* published was produced by the program the request declares, whose       *)
(* presence the validator checked, and conforms to the schema it pins.     *)
(***************************************************************************)
PublishedAsDeclared(r) ==
    /\ ran[r].program = Parse[request[r]].entrypoint
    /\ Parse[request[r]].native_output_schema.sha256 \in ran[r].native

PublishedIsWhatWasDeclared ==
    \A r \in Runs : pc[r] = "published" => PublishedAsDeclared(r)

(***************************************************************************)
(* How far that goes wrong, and no further: for a request that declares    *)
(* what the pilot source has, runner/run.py and the lab's schema, what is  *)
(* published is the declared program's, conforms to the declared schema,   *)
(* and was produced at the declared pin, unless the manual path took that  *)
(* from a string of several lines.                                         *)
(***************************************************************************)
DeclaresThePilot(q) ==
    q.entrypoint = "runner/run.py" /\ q.native_output_schema.sha256 = LabSchema

PilotPublishedAsDeclared ==
    \A r \in Runs : (pc[r] = "published" /\ DeclaresThePilot(Parse[request[r]])) =>
        /\ PublishedAsDeclared(r)
        /\ (input[r].kind = "auto" \/ PinIsOneLine(request[r])) => RanAtItsPin(r)

-----------------------------------------------------------------------------
(***************************************************************************)
(* Dispatch implements OneRunPerRequest: an identity is spent when the     *)
(* ledger names it, and a run holds its grant from the committed ledger to *)
(* the start of the counterparty.                                          *)
(***************************************************************************)
SpentIds == {ledger.consumed[i].request_sha256 : i \in DOMAIN ledger.consumed}

Grants == [r \in Runs |-> IF Holding(r) THEN Identity(r) ELSE None]

Made == {<<r, Identity(r)>> : r \in {s \in Runs : Executed(s)}}

Contour ==
    INSTANCE OneRunPerRequest WITH
        Ids <- Digests(Raw), Nobody <- None,
        spent <- SpentIds, grant <- Grants, ran <- Made

ImplementsOneRunPerRequest == Contour!Spec
=============================================================================
