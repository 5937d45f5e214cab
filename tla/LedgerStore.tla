----------------------------- MODULE LedgerStore -----------------------------
(***************************************************************************)
(* selfservice/impl/ledger_client.py: the ledger as a file on the          *)
(* selfservice-ledger branch, read and written through the Contents API.   *)
(*                                                                         *)
(* A store is the file: whether it exists, and the `consumed` list it      *)
(* holds.  The blob sha is a digest of the content, so two stores have     *)
(* the same blob sha exactly when they are equal; the blob of an absent    *)
(* file stands for the empty expected sha.                                 *)
(***************************************************************************)
EXTENDS Sequences

Stores(Item) == [exists: {TRUE}, consumed: Seq(Item)]
                     \cup [exists: {FALSE}, consumed: {<<>>}]

Absent == [exists |-> FALSE, consumed |-> <<>>]

BlobSha(store) == <<"blob", store>>

(***************************************************************************)
(* `--mode fetch`: the local copy of the list.  A 404 yields the empty     *)
(* ledger, which is what Absent holds.                                     *)
(***************************************************************************)
Fetched(store) == store.consumed

\* Mutant: the PUT is made with the blob sha of the moment (last writer wins).
AcceptsAny(store, expected_sha) == TRUE

\* Mutant: a sha is always sent, so the first write of the file is a 422.
AcceptsExisting(store, expected_sha) ==
    store.exists /\ BlobSha(store) = expected_sha

(***************************************************************************)
(* `--mode commit`: the PUT succeeds when the file still has the blob sha  *)
(* the caller fetched, or is still absent when it was absent then;         *)
(* otherwise 409 or 422, which becomes LedgerConflict.                     *)
(***************************************************************************)
Accepts(store, expected_sha) == BlobSha(store) = expected_sha

Written(consumed) == [exists |-> TRUE, consumed |-> consumed]
=============================================================================
