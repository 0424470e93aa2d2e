---------------------------- MODULE ReviewPromise ----------------------------
(***************************************************************************)
(* What the signing half of the application promises, with every buffer,   *)
(* chunk, lock and callback left out: at most one document is under review *)
(* at a time, a document under review is never exchanged for another one,  *)
(* and a signature is issued only for the very document, key path and kind *)
(* of signature that the user was looking at, once.                        *)
(***************************************************************************)

CONSTANTS
    Kinds,    \* the kinds of signature the application can produce
    Docs,     \* the documents a host can ask a signature for
    Paths,    \* the key derivation paths
    Nothing   \* no document under review, no signature issued

VARIABLES
    review,   \* what the user is looking at: a Request, or Nothing
    issued    \* the signature on its way to the host, or Nothing

vars == <<review, issued>>

Request == [kind: Kinds, doc: Docs, path: Paths]

Init == review = Nothing /\ issued = Nothing

\* A complete request is put in front of the user.
Open ==
    /\ review = Nothing
    /\ review' \in Request
    /\ issued' = Nothing

\* The user approves: what was on the screen is what is signed.
Approve ==
    /\ review # Nothing
    /\ issued' = review
    /\ review' = Nothing

\* The user rejects, the signature fails or the device loses power.
Withdraw ==
    /\ review # Nothing
    /\ review' = Nothing
    /\ issued' = Nothing

\* The signature is sent and forgotten: another one needs another review.
Deliver ==
    /\ issued # Nothing
    /\ issued' = Nothing
    /\ UNCHANGED review

Next == Open \/ Approve \/ Withdraw \/ Deliver

Spec == Init /\ [][Next]_vars
==============================================================================
