-------------------------- MODULE DispatchInvariant --------------------------
(***************************************************************************)
(* The inductive invariant of Dispatch.  TypeOK and the properties of      *)
(* DispatchProperties are not inductive: they say nothing of what a run    *)
(* has in its workspace at each place, nor of what a spent but uncommitted *)
(* ticket owes to the ledger it was spent against.  The parts below do.    *)
(***************************************************************************)
EXTENDS DispatchProperties

AfterCollect == Running \ {"checked_out"}

AfterIssue == AfterCollect \ {"collected", "revalidated"}

\* A run that was started has its inputs, a manual one all of them.
Started(r) ==
    pc[r] # "idle" =>
        /\ input[r] \in Inputs
        /\ input[r].kind = "manual" =>
              /\ input[r].path \in Paths /\ input[r].ticket_id \in TicketIds
              /\ input[r].sha \in Shas

\* What each step has put into the workspace by the time it is past.
Stocked(r) ==
    /\ pc[r] \in Running => envelope[r] \in EnvelopeDocs
    /\ pc[r] \in AfterCollect =>
          /\ receipt[r] \in Receipts
          /\ input[r].kind = "auto" => request[r] \in Raw
    /\ pc[r] \in AfterIssue =>
          /\ request[r] \in Raw
          /\ ticket[r] \in Tickets
          /\ ticket[r].request_sha256 = Identity(r)

(***************************************************************************)
(* Type correctness with what makes it inductive.                          *)
(***************************************************************************)
TInv == TypeOK /\ \A r \in Runs : Started(r) /\ Stocked(r)

-----------------------------------------------------------------------------
\* The store whose blob sha the run holds.
Base(r) == expected[r][2]

\* Between fetch and commit the local copy is that store's list, with the
\* ticket's entry added once it is spent -- for an identity the list lacks.
Copied(r) ==
    /\ pc[r] = "fetched" =>
          /\ Base(r) \in Stores(Entries)
          /\ local[r] = Base(r).consumed
    /\ pc[r] = "spent" =>
          /\ Base(r) \in Stores(Entries)
          /\ local[r] = Append(Base(r).consumed, Entry(ticket[r]))
          /\ ~RequestDispatched(Base(r).consumed, Identity(r))

\* A run that may execute, or has.
Entitled(r) == Holding(r) \/ Executed(r)

\* Its entry is in the ledger, under the identity of its request.
Recorded(r) ==
    Entitled(r) =>
        /\ request[r] \in Raw
        /\ ticket[r].request_sha256 = Identity(r)
        /\ \E i \in DOMAIN ledger.consumed : ledger.consumed[i] = Entry(ticket[r])

\* An execution is behind the run, never ahead of it.
Placed(r) == Executed(r) => pc[r] \in {"executed", "published", "failed"}

\* No two runs are entitled by the same request.
EntitledOnce ==
    \A r, s \in Runs :
        (r # s /\ Entitled(r) /\ Entitled(s)) => request[r] # request[s]

(***************************************************************************)
(* The inductive invariant behind one run per request: entitlement comes   *)
(* only from a committed entry, and a committed entry only from a copy     *)
(* that lacked the identity and was still the ledger.                      *)
(***************************************************************************)
IInv ==
    /\ TInv
    /\ \A r \in Runs : Copied(r) /\ Recorded(r) /\ Placed(r)
    /\ EntitledOnce
    /\ LedgerNamesEachRequestOnce

-----------------------------------------------------------------------------
\* What ran is what the outputs of the admission job named.
PinRan(r) ==
    /\ ran[r].repository = AdmittedPin(request[r]).repository
    /\ ran[r].commit = AdmittedPin(request[r]).commit

\* From the ticket on, the documents in the workspace describe one another; an
\* automatic run's receipt is the default branch's own from the revalidation on.
Admitted(r) ==
    /\ pc[r] \in AfterIssue \/ Executed(r) => Endorsed(r) /\ receipt[r] \in Receipts
    /\ (pc[r] \in AfterCollect \ {"collected"} \/ Executed(r)) /\ input[r].kind = "auto" =>
          receipt[r] = HostedReceipt(request[r]) /\ Validated(receipt[r])
    /\ Executed(r) => PinRan(r)

\* The ledger has only grown since a run fetched it, and strictly so if it had
\* changed by the time the run wrote.
Remembered(r) ==
    /\ pc[r] \in {"fetched", "spent"} =>
          /\ IsPrefix(Base(r).consumed, ledger.consumed)
          /\ Base(r).exists => ledger.exists
    /\ pc[r] = "conflicted" =>
          /\ Base(r) \in Stores(Entries)
          /\ IsStrictPrefix(Base(r).consumed, ledger.consumed)
    /\ pc[r] \in {"replayed", "dispatched"} => RequestDispatched(ledger.consumed, Identity(r))

\* The coordination job follows an execution, and publishes what it checked.
Checked(r) ==
    /\ pc[r] \in {"executed", "published"} =>
          Executed(r) /\ ran[r].program = "runner/run.py" /\ PinRan(r)
    /\ pc[r] = "published" => LabSchema \in ran[r].native

(***************************************************************************)
(* What a run's documents and the ledger owe to the past.                  *)
(***************************************************************************)
HInv ==
    /\ IInv
    /\ \A r \in Runs : Admitted(r) /\ Remembered(r) /\ Checked(r)
    /\ EveryEntryHasItsRun
    /\ ledger.exists => ledger.consumed # <<>>
=============================================================================
