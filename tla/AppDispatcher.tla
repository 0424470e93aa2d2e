---------------------------- MODULE AppDispatcher ----------------------------
(***************************************************************************)
(* The command dispatcher of the application: apdu_handler.c, the review   *)
(* callbacks of common/actions.h and the state they share with common/tx.c *)
(* and crypto.c.  A host sends commands; some are answered at once, others *)
(* open a screen and are answered later by the callback of the user's      *)
(* choice.  Nothing forces the host to wait, so a command may arrive while *)
(* a screen is up.  The program has one thread: handlers and callbacks run *)
(* to completion, between them the external main loop waits for an event.  *)
(*                                                                         *)
(* The EVM commands and the screens are code of an external library; they  *)
(* are modelled from how this repository calls them (tx_get_buffer in      *)
(* app_sign_eth, the callbacks, IO_ASYNCH_REPLY) and marked External.      *)
(***************************************************************************)
EXTENDS Naturals, Sequences, FiniteSets

CONSTANTS
    Byte,            \* the values of one unit of document data
    Chunks,          \* the payloads of one data chunk (sequences of Byte)
    Capacity,        \* the room of the transaction buffer, in Bytes
    Transactions,    \* the documents that tx_parse accepts
    HashLen,         \* the length of the documents that hash_parse accepts
    Paths,           \* the values five path words can take
    FlarePaths,      \* those with the prefix extractHDPath demands
    EthPaths,        \* the paths the EVM handlers accept
    NoPath,          \* a path never written (zeroed memory)
    Nothing,         \* no signature
    MaxOutstanding   \* bound: the commands the host leaves unanswered at once

ASSUME ConstantsAssumption ==
    /\ Chunks \subseteq Seq(Byte)
    /\ Capacity \in Nat
    /\ HashLen \in Nat \ {0}
    /\ Transactions \subseteq Seq(Byte)
    /\ <<>> \notin Transactions
    /\ FlarePaths \subseteq Paths
    /\ NoPath \notin Paths \cup EthPaths
    /\ MaxOutstanding \in Nat \ {0}

HDPATH_LEN_DEFAULT == 5

VARIABLES
    tx_initialized,    \* an upload is in progress
    tx_buffer,         \* the bytes of buffering_get_buffer()
    parsed,            \* the document tx_obj describes, <<>> when none
    hdPath,            \* the path of crypto.c
    hdPath_len,
    g_review_pending,  \* the review lock
    screen,            \* the approval callback of the screen shown, or "idle"
    apdu_buffer,       \* what G_io_apdu_buffer holds
    hdPathEth,         \* external: the path of the EVM handlers
    eth_initialized,   \* external: an EVM upload is in progress
    blindsign,         \* external: the blind signing setting, persistent
    pin,               \* external: the device is unlocked
    owed,              \* commands received and not yet answered
    session,           \* history: the upload in progress or under review
    issued             \* history: the signature that was just issued

uploadVars == <<tx_initialized, tx_buffer, parsed, hdPath, hdPath_len, session>>
ethVars    == <<hdPathEth, eth_initialized>>
screenVars == <<g_review_pending, screen, owed>>
deviceVars == <<blindsign, pin>>
vars == <<tx_initialized, tx_buffer, parsed, hdPath, hdPath_len, session,
          hdPathEth, eth_initialized, g_review_pending, screen, owed,
          blindsign, pin, apdu_buffer, issued>>

------------------------------------------------------------------------------
(* Screens, buffer contents and history records *)

FlareSigning   == {"app_sign", "app_sign_hash"}
EthSigning     == {"app_sign_eth", "app_sign_evm_eip191"}
Signing        == FlareSigning \cup EthSigning
AddressReviews == {"app_reply_address", "app_reply_address (evm)"}
Reviews        == Signing \cup AddressReviews
Screens        == Reviews \cup {"app_reply_error", "idle"}

Contents ==
    [what: {"answer", "address", "evm address"},
     path: Paths \cup EthPaths \cup {NoPath}]

\* A status word, the version or a signature.
NoAddress      == [what |-> "answer",      path |-> NoPath]
Address(p)     == [what |-> "address",     path |-> p]
EthAddress(p)  == [what |-> "evm address", path |-> p]

Requests == [kind: Signing, doc: Seq(Byte), path: Paths \cup EthPaths]

ASSUME NothingAssumption == Nothing \notin Requests

\* An upload: the path its P1_INIT named, the data accepted since, and whether
\* an EVM upload wrote to the same buffer meanwhile.
Sessions == [path: Paths \cup {NoPath}, sent: Seq(Byte), shared: BOOLEAN]

NewSession(p) == [path |-> p, sent |-> <<>>, shared |-> FALSE]
NoSession     == NewSession(NoPath)

\* The upload after one more chunk; what was sent is of no use once shared.
Accepted(d) ==
    IF session.shared THEN session ELSE [session EXCEPT !.sent = @ \o d]

------------------------------------------------------------------------------
(* Initial state: .bss zeroed, application just started *)

Init ==
    /\ tx_initialized = FALSE
    /\ tx_buffer = <<>>
    /\ parsed = <<>>
    /\ hdPath = NoPath
    /\ hdPath_len = 0
    /\ g_review_pending = FALSE
    /\ screen = "idle"
    /\ apdu_buffer = NoAddress
    /\ hdPathEth = NoPath
    /\ eth_initialized = FALSE
    /\ blindsign \in BOOLEAN
    /\ pin = TRUE
    /\ owed = 0
    /\ session = NoSession
    /\ issued = Nothing

------------------------------------------------------------------------------
(* How a command ends *)

\* Mutant: no review_is_pending() check.
Admitted_NoLock == owed < MaxOutstanding

\* The host sends a command that passes the review lock.
Admitted == owed < MaxOutstanding /\ ~g_review_pending

\* THROW(code): the handler's answer is sent when handleApdu returns.
Reply(content) ==
    /\ apdu_buffer' = content
    /\ issued' = Nothing
    /\ UNCHANGED screenVars

\* view_review_init, view_review_show and IO_ASYNCH_REPLY without a THROW:
\* handleApdu locks the dispatcher, the answer is the callback's.
OpenReview(callback, content) ==
    /\ screen' = callback
    /\ g_review_pending' = TRUE
    /\ owed' = owed + 1
    /\ apdu_buffer' = content
    /\ issued' = Nothing

\* Mutant: IO_ASYNCH_REPLY forgotten, the answer goes out with the screen up.
ShowBlindsignError_SyncReply ==
    /\ screen' = "app_reply_error"
    /\ apdu_buffer' = NoAddress
    /\ issued' = Nothing
    /\ UNCHANGED <<g_review_pending, owed>>

\* Mutant: view_blindsign_error_show forgotten.
ShowBlindsignError_NoScreen ==
    /\ owed' = owed + 1
    /\ apdu_buffer' = NoAddress
    /\ issued' = Nothing
    /\ UNCHANGED <<g_review_pending, screen>>

\* view_blindsign_error_show and IO_ASYNCH_REPLY with a THROW: no lock, and
\* no answer either until the user dismisses the screen.
ShowBlindsignError ==
    /\ screen' = "app_reply_error"
    /\ owed' = owed + 1
    /\ apdu_buffer' = NoAddress
    /\ issued' = Nothing
    /\ UNCHANGED g_review_pending

\* extractHDPath on the path p; NoPath stands for a payload too short for a
\* path.  The words are copied before their prefix is looked at.
extractHDPath(p) ==
    /\ hdPath' = IF p = NoPath THEN hdPath ELSE p
    /\ hdPath_len' = IF p \in FlarePaths THEN HDPATH_LEN_DEFAULT ELSE hdPath_len

------------------------------------------------------------------------------
(* Handlers that keep no document *)

\* Mutant: the chunk handler resets the buffer before the lock is looked at.
RejectWhilePending_Reset ==
    /\ owed < MaxOutstanding
    /\ g_review_pending
    /\ Reply(NoAddress)
    /\ tx_buffer' = <<>>
    /\ UNCHANGED <<tx_initialized, parsed, hdPath, hdPath_len, session>>
    /\ UNCHANGED <<ethVars, deviceVars>>

\* handleApdu while a screen holds the lock: the command is turned away, but
\* its bytes and then its status word were written to G_io_apdu_buffer.
RejectWhilePending ==
    /\ owed < MaxOutstanding
    /\ g_review_pending
    /\ Reply(NoAddress)
    /\ UNCHANGED <<uploadVars, ethVars, deviceVars>>

\* handleApdu on a command with a wrong class, length, instruction or P1, or
\* one that needs an unlocked device and finds it locked.
RefuseCommand ==
    /\ Admitted
    /\ Reply(NoAddress)
    /\ UNCHANGED <<uploadVars, ethVars, deviceVars>>

handle_getversion ==
    /\ Admitted
    /\ Reply(NoAddress)
    /\ UNCHANGED <<uploadVars, ethVars, deviceVars>>

\* handleGetAddr: extractHRP fails, nothing else has been touched.
GetAddrBadHRP ==
    /\ Admitted /\ pin
    /\ Reply(NoAddress)
    /\ UNCHANGED <<uploadVars, ethVars, deviceVars>>

\* Mutant: extractHDPath leaves tx_initialized alone.
handleGetAddr_KeepsUpload(p) ==
    /\ Admitted /\ pin
    /\ extractHDPath(p)
    /\ \/ Reply(NoAddress)
       \/ p \in FlarePaths /\ OpenReview("app_reply_address", Address(p))
    /\ UNCHANGED <<tx_initialized, tx_buffer, parsed, session>>
    /\ UNCHANGED <<ethVars, deviceVars>>

\* Mutant: app_fill_address runs before extractHDPath.
handleGetAddr_StalePath(p) ==
    /\ Admitted /\ pin
    /\ tx_initialized' = FALSE
    /\ extractHDPath(p)
    /\ p \in FlarePaths
    /\ OpenReview("app_reply_address", Address(hdPath))
    /\ session' = NoSession
    /\ UNCHANGED <<tx_buffer, parsed, ethVars, deviceVars>>

\* handleGetAddr past extractHRP.  extractHDPath ends an upload in progress.
\* The key derivation of app_fill_address can fail; P1 asks for a review.
handleGetAddr(p) ==
    /\ Admitted /\ pin
    /\ tx_initialized' = FALSE
    /\ extractHDPath(p)
    /\ \/ Reply(NoAddress)
       \/ p \in FlarePaths /\ Reply(Address(p))
       \/ p \in FlarePaths /\ OpenReview("app_reply_address", Address(p))
    /\ session' = NoSession
    /\ UNCHANGED <<tx_buffer, parsed, ethVars, deviceVars>>

------------------------------------------------------------------------------
(* process_chunk: the upload of a document, shared by INS_SIGN, INS_SIGN_HASH *)

\* P1_INIT: the buffer is emptied before the path is looked at.
SignInit(p) ==
    /\ Admitted /\ pin
    /\ tx_buffer' = <<>>
    /\ extractHDPath(p)
    /\ tx_initialized' = (p \in FlarePaths)
    /\ session' = IF p \in FlarePaths THEN NewSession(p) ELSE NoSession
    /\ Reply(NoAddress)
    /\ UNCHANGED <<parsed, ethVars, deviceVars>>

\* tx_append takes the whole chunk.  (External: buffering_append, which moves
\* the document from RAM to flash when it outgrows RAM and otherwise adds
\* nothing.)
Fits(d) == Len(tx_buffer) + Len(d) <= Capacity

\* P1_ADD and P1_LAST without an upload: TX_NOT_INITIALIZED.
ChunkNotInitialized ==
    /\ Admitted /\ pin
    /\ ~tx_initialized
    /\ Reply(NoAddress)
    /\ UNCHANGED <<uploadVars, ethVars, deviceVars>>

\* P1_ADD and P1_LAST when the buffer is full: OUTPUT_BUFFER_TOO_SMALL.
ChunkTooBig(d) ==
    /\ Admitted /\ pin
    /\ tx_initialized /\ ~Fits(d)
    /\ tx_initialized' = FALSE
    /\ Reply(NoAddress)
    /\ session' = NoSession
    /\ UNCHANGED <<tx_buffer, parsed, hdPath, hdPath_len, ethVars, deviceVars>>

AppendChunk(d) ==
    /\ Admitted /\ pin
    /\ tx_initialized /\ Fits(d)
    /\ tx_buffer' = tx_buffer \o d
    /\ UNCHANGED <<hdPath, hdPath_len, ethVars, deviceVars>>

\* P1_ADD.
SignAdd(d) ==
    /\ AppendChunk(d)
    /\ session' = Accepted(d)
    /\ Reply(NoAddress)
    /\ UNCHANGED <<tx_initialized, parsed>>

\* Mutant: P1_LAST leaves the upload open.
LastChunk_StaysOpen(d) == AppendChunk(d) /\ UNCHANGED tx_initialized

\* P1_LAST: whatever follows, the upload is over.
LastChunk(d) == AppendChunk(d) /\ tx_initialized' = FALSE

LastChunkReviewed(d, callback) ==
    /\ OpenReview(callback, NoAddress)
    /\ session' = Accepted(d)

\* Mutant: the result of tx_parse is ignored.
handleSign_Unchecked(d) ==
    /\ LastChunk(d)
    /\ parsed' = tx_buffer'
    /\ LastChunkReviewed(d, "app_sign")

\* handleSign on the last chunk.  app_get_address can fail before tx_parse,
\* and tx_parse zeroes tx_obj before it reads the document.
handleSign(d) ==
    /\ LastChunk(d)
    /\ \/ UNCHANGED parsed /\ Reply(NoAddress) /\ session' = NoSession
       \/ /\ tx_buffer' \notin Transactions
          /\ parsed' = <<>>
          /\ Reply(NoAddress) /\ session' = NoSession
       \/ /\ tx_buffer' \in Transactions
          /\ parsed' = tx_buffer'
          /\ LastChunkReviewed(d, "app_sign")

\* Mutant: the blind signing setting is not looked at.
handleSignHash_Unchecked(d) ==
    /\ LastChunk(d)
    /\ UNCHANGED parsed
    /\ Len(tx_buffer') = HashLen
    /\ LastChunkReviewed(d, "app_sign_hash")

\* handleSignHash on the last chunk.
handleSignHash(d) ==
    /\ LastChunk(d)
    /\ UNCHANGED parsed
    /\ \/ ~blindsign /\ ShowBlindsignError /\ session' = NoSession
       \/ /\ blindsign /\ Len(tx_buffer') # HashLen
          /\ Reply(NoAddress) /\ session' = NoSession
       \/ /\ blindsign /\ Len(tx_buffer') = HashLen
          /\ LastChunkReviewed(d, "app_sign_hash")

------------------------------------------------------------------------------
(* External: the EVM handlers.  They use the same transaction buffer, with an *)
(* initialized flag and a path of their own (tx_initialized of                *)
(* apdu_handler.c is static, so they cannot clear it).                        *)

SharedBuffer ==
    session' = IF session = NoSession
               THEN session
               ELSE [session EXCEPT !.shared = TRUE, !.sent = <<>>]

\* What an EVM chunk leads to: more chunks, an error, the blind signing error
\* screen or a review that signs with app_sign_eth or app_sign_evm_eip191.
EthOutcome ==
    \/ eth_initialized' = TRUE  /\ Reply(NoAddress)
    \/ eth_initialized' = FALSE /\ Reply(NoAddress)
    \/ eth_initialized' = FALSE /\ ~blindsign /\ ShowBlindsignError
    \/ /\ eth_initialized' = FALSE
       /\ tx_buffer' # <<>>
       /\ \E callback \in EthSigning : OpenReview(callback, NoAddress)

\* The first chunk of handleSignEth or handleSignEip191: path and data.
EthFirst(p, d) ==
    /\ Admitted /\ pin
    /\ tx_buffer' = IF Len(d) <= Capacity THEN d ELSE <<>>
    /\ hdPathEth' = p
    /\ EthOutcome
    /\ SharedBuffer
    /\ UNCHANGED <<tx_initialized, parsed, hdPath, hdPath_len, deviceVars>>

\* A further chunk.
EthMore(d) ==
    /\ Admitted /\ pin
    /\ eth_initialized
    /\ Fits(d)
    /\ tx_buffer' = tx_buffer \o d
    /\ EthOutcome
    /\ SharedBuffer
    /\ UNCHANGED <<tx_initialized, parsed, hdPath, hdPath_len, hdPathEth>>
    /\ UNCHANGED deviceVars

\* A chunk the EVM handlers refuse: not initialized, or the buffer is full.
EthRefused ==
    /\ Admitted /\ pin
    /\ eth_initialized' = FALSE
    /\ Reply(NoAddress)
    /\ UNCHANGED <<uploadVars, hdPathEth, deviceVars>>

\* handleGetAddrEth: app_fill_eth_address, then a reply or a review.
handleGetAddrEth(p) ==
    /\ Admitted
    /\ hdPathEth' = p
    /\ eth_initialized' = FALSE
    /\ \/ Reply(NoAddress)
       \/ Reply(EthAddress(p))
       \/ OpenReview("app_reply_address (evm)", EthAddress(p))
    /\ UNCHANGED <<uploadVars, deviceVars>>

------------------------------------------------------------------------------
(* common/actions.h: the callbacks of the screens.  Each of them releases the *)
(* lock first and sends the answer last.                                      *)

Answer(callback, content) ==
    /\ screen = callback /\ pin
    /\ g_review_pending' = FALSE
    /\ screen' = "idle"
    /\ owed' = owed - 1
    /\ apdu_buffer' = content
    /\ session' = IF callback \in FlareSigning THEN NoSession ELSE session
    /\ UNCHANGED <<tx_initialized, tx_buffer, parsed, hdPath, hdPath_len>>
    /\ UNCHANGED <<ethVars, deviceVars>>

\* A signature of what the transaction buffer holds now, with the key of path
\* p as it is now.
Sign(callback, p) ==
    /\ Answer(callback, NoAddress)
    /\ issued' = [kind |-> callback, doc |-> tx_buffer, path |-> p]

\* Mutant: the error path of app_sign returns before review_clear_pending.
SignFails_KeepsLock(callback) ==
    /\ screen = callback /\ pin
    /\ screen' = "idle"
    /\ owed' = owed - 1
    /\ apdu_buffer' = NoAddress
    /\ issued' = Nothing
    /\ UNCHANGED <<g_review_pending, uploadVars, ethVars, deviceVars>>

\* The key derivation or the signature failed: SIGN_VERIFY_ERROR.
SignFails(callback) == Answer(callback, NoAddress) /\ issued' = Nothing

app_sign == Sign("app_sign", hdPath) \/ SignFails("app_sign")

\* In hash mode crypto_sign refuses a document longer than a digest.
app_sign_hash ==
    \/ Len(tx_buffer) <= HashLen /\ Sign("app_sign_hash", hdPath)
    \/ SignFails("app_sign_hash")

app_sign_eth == Sign("app_sign_eth", hdPathEth) \/ SignFails("app_sign_eth")

app_sign_evm_eip191 ==
    \/ Sign("app_sign_evm_eip191", hdPathEth)
    \/ SignFails("app_sign_evm_eip191")

\* The answer is whatever the buffer holds.
app_reply_address ==
    /\ \E callback \in AddressReviews : Answer(callback, apdu_buffer)
    /\ issued' = Nothing

\* Mutant: review_clear_pending forgotten.
app_reject_KeepsLock ==
    /\ screen \in Reviews /\ pin
    /\ screen' = "idle"
    /\ owed' = owed - 1
    /\ apdu_buffer' = NoAddress
    /\ issued' = Nothing
    /\ UNCHANGED <<g_review_pending, uploadVars, ethVars, deviceVars>>

app_reject ==
    /\ \E callback \in Reviews : Answer(callback, NoAddress)
    /\ issued' = Nothing

app_reply_error ==
    /\ Answer("app_reply_error", NoAddress)
    /\ issued' = Nothing

------------------------------------------------------------------------------
(* The device around the application *)

\* External: the settings menu, within reach when no screen is shown.
ToggleBlindsign ==
    /\ screen = "idle" /\ pin
    /\ blindsign' = ~blindsign
    /\ issued' = Nothing
    /\ UNCHANGED <<uploadVars, ethVars, screenVars, pin, apdu_buffer>>

\* External: the device locks itself, the user enters the PIN.
LockDevice ==
    /\ pin
    /\ pin' = FALSE
    /\ issued' = Nothing
    /\ UNCHANGED <<uploadVars, ethVars, screenVars, blindsign, apdu_buffer>>

UnlockDevice ==
    /\ ~pin
    /\ pin' = TRUE
    /\ issued' = Nothing
    /\ UNCHANGED <<uploadVars, ethVars, screenVars, blindsign, apdu_buffer>>

\* The application ends (power loss, the user quits it, or an exception that
\* main swallows) and is started again: memory is lost, the setting is not.
Restart ==
    /\ tx_initialized' = FALSE
    /\ tx_buffer' = <<>>
    /\ parsed' = <<>>
    /\ hdPath' = NoPath
    /\ hdPath_len' = 0
    /\ g_review_pending' = FALSE
    /\ screen' = "idle"
    /\ apdu_buffer' = NoAddress
    /\ hdPathEth' = NoPath
    /\ eth_initialized' = FALSE
    /\ pin' = TRUE
    /\ owed' = 0
    /\ session' = NoSession
    /\ issued' = Nothing
    /\ UNCHANGED blindsign

------------------------------------------------------------------------------

FlareCommand ==
    \/ handle_getversion
    \/ GetAddrBadHRP
    \/ ChunkNotInitialized
    \/ \E p \in Paths \cup {NoPath} : handleGetAddr(p) \/ SignInit(p)
    \/ \E d \in Chunks :
          ChunkTooBig(d) \/ SignAdd(d) \/ handleSign(d) \/ handleSignHash(d)

EthCommand ==
    \/ \E p \in EthPaths : handleGetAddrEth(p)
    \/ \E p \in EthPaths, d \in Chunks : EthFirst(p, d)
    \/ \E d \in Chunks : EthMore(d)
    \/ EthRefused

\* handleApdu.
handleApdu == RejectWhilePending \/ RefuseCommand \/ FlareCommand \/ EthCommand

\* The user answers the screen.
Decide ==
    \/ app_sign \/ app_sign_hash \/ app_sign_eth \/ app_sign_evm_eip191
    \/ app_reply_address \/ app_reject \/ app_reply_error

Device == ToggleBlindsign \/ LockDevice \/ UnlockDevice \/ Restart

Next == handleApdu \/ Decide \/ Device

Spec == Init /\ [][Next]_vars

\* A user who comes back to the device unlocks it, and one who looks at a
\* screen again and again answers it in the end; the host owes nothing.
Fairness == WF_vars(UnlockDevice) /\ SF_vars(Decide)

FairSpec == Spec /\ Fairness

------------------------------------------------------------------------------
(* Properties *)

\* Every variable holds a value its C type and its writers allow.
TypeOK ==
    /\ tx_initialized \in BOOLEAN
    /\ tx_buffer \in Seq(Byte)
    /\ parsed \in Transactions \cup {<<>>}
    /\ hdPath \in Paths \cup {NoPath}
    /\ hdPath_len \in {0, HDPATH_LEN_DEFAULT}
    /\ g_review_pending \in BOOLEAN
    /\ screen \in Screens
    /\ apdu_buffer \in Contents
    /\ hdPathEth \in EthPaths \cup {NoPath}
    /\ eth_initialized \in BOOLEAN
    /\ blindsign \in BOOLEAN
    /\ pin \in BOOLEAN
    /\ owed \in 0..MaxOutstanding
    /\ session \in Sessions
    /\ issued \in Requests \cup {Nothing}

\* The lock of apdu_handler.c is held exactly while a review is on the screen:
\* set when a handler opens one, not set for the blind signing error screen,
\* cleared on every way a review can end (actions.h:32-40).
ReviewLock == g_review_pending <=> screen \in Reviews

\* A screen is up only while a command waits for its answer, so no callback
\* sends the host an answer it did not ask for, even when the blind signing
\* error screen is replaced by a later command's review.
ReplyIsOwed == screen # "idle" => owed > 0

\* While an upload is open, and while the review it leads to is shown, the key
\* path is the one its P1_INIT named and the buffer holds exactly the chunks
\* accepted since, unless an EVM upload wrote to the shared buffer.  INS_GET_ADDR
\* writes the same hdPath and INS_SIGN_HASH shares the upload.
UploadIsSession ==
    tx_initialized \/ screen \in FlareSigning =>
        /\ hdPath = session.path
        /\ hdPath \in FlarePaths
        /\ hdPath_len = HDPATH_LEN_DEFAULT
        /\ session.shared \/ tx_buffer = session.sent

\* What the screen items are computed from is what will be signed: tx_obj
\* describes the buffer under app_sign, and a document under app_sign_hash is
\* a digest approved under the blind signing setting.
ShownIsSignable ==
    /\ screen = "app_sign" => parsed = tx_buffer /\ tx_buffer \in Transactions
    /\ screen = "app_sign_hash" => blindsign /\ Len(tx_buffer) = HashLen

\* The address review shows, and app_reply_address later sends, the address of
\* the path the command named (docs/APDUSPEC.md:118-124).  Both read it from
\* G_io_apdu_buffer.
AddressOnScreen ==
    /\ screen = "app_reply_address" => apdu_buffer = Address(hdPath)
    /\ screen = "app_reply_address (evm)" => apdu_buffer = EthAddress(hdPathEth)

\* Nothing a review shows or an approval uses changes while the lock is held
\* ("so the host cannot swap the tx buffer between review rendering and the
\* approval callback", apdu_handler.c:234-236).
FrozenUnderReview ==
    [][g_review_pending /\ g_review_pending' =>
         UNCHANGED <<screen, tx_buffer, parsed, hdPath, hdPath_len, hdPathEth,
                     blindsign>>]_vars

\* One upload leads to one review at most: a signing review of a Flare command
\* opens only for an upload that was started and has led to no review, error or
\* address command yet.  process_chunk clears tx_initialized on P1_LAST for this.
OneReviewPerUpload ==
    [][screen' \in FlareSigning /\ screen' # screen => session # NoSession]_vars

\* What the user looks at, in the terms of the abstract specification.
Shown ==
    IF screen \in Signing
    THEN [kind |-> screen, doc |-> tx_buffer,
          path |-> IF screen \in FlareSigning THEN hdPath ELSE hdPathEth]
    ELSE Nothing

Promise == INSTANCE ReviewPromise WITH
    Kinds <- Signing, Docs <- Seq(Byte), Paths <- Paths \cup EthPaths, Nothing <- Nothing,
    review <- Shown, issued <- issued

\* What you see is what you sign: chunks, shared buffers, address commands,
\* settings and restarts implement the abstract promise.
SignsWhatIsShown == Promise!Spec

\* The dispatcher is never locked for good: a review that holds the lock is
\* eventually answered, and the answer releases it.
LockReleased == g_review_pending ~> ~g_review_pending

\* A host that waits for each answer gets one for every command.
EveryCommandAnswered == owed > 0 ~> owed = 0
==============================================================================
