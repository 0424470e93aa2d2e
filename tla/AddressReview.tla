---------------------------- MODULE AddressReview ----------------------------
(***************************************************************************)
(* INS_GET_ADDR from the command to its answer.  AppDispatcher takes the   *)
(* content of an answer for one value; here it is what it is in the code:  *)
(* a key and a text in G_io_apdu_buffer, where app_fill_address writes     *)
(* them, addr_getItem reads the text for every redraw, a command turned    *)
(* away writes over them, and app_reply_address sends as many bytes as     *)
(* action_addrResponseLen says.  The prefix and the path of the command    *)
(* are kept in globals, bech32_hrp and hdPath.                             *)
(***************************************************************************)
EXTENDS Naturals

CONSTANTS
    FlarePaths,  \* paths extractHDPath accepts
    OtherPaths,  \* and some it does not
    HRPs,        \* prefixes a command can carry: [str, len], len bytes that as a
                 \*   C string are str, [id, len, lower], which ends at the first
                 \*   zero byte; lower being whether Bech32 allows its characters
    zxerr_encoding_failed,  \* external: an error code of the library, not zero
    NoPath, NoHrp, Nothing

ASSUME ConstantsAssumption ==
    /\ \A h \in HRPs :
          /\ h.len \in Nat /\ h.str.len \in 0..h.len
          /\ h.str.lower \in BOOLEAN
    /\ zxerr_encoding_failed \in 1..255
    /\ NoPath \notin FlarePaths \cup OtherPaths
    /\ NoHrp \notin HRPs

Paths == FlarePaths \cup OtherPaths

PK_LEN_SECP256K1 == 33
MAX_BECH32_HRP_LEN == 83
ETH_RESPONSE_LEN == 1 + 65 + 1 + 40    \* external: of handleGetAddrEth

VARIABLES
    bech32_hrp,              \* the bytes of a prefix, NoHrp when zeroed
    hdPath,
    action_addrResponseLen,
    buffer,                  \* G_io_apdu_buffer: the key in front, the text after it
    g_review_pending,        \* an address review holds the lock
    expert,                  \* app_mode_expert
    asked,                   \* history: what the last INS_GET_ADDR asked for
    drawn,                   \* history: the items the review has shown so far
    disturbed,               \* history: a command came in during the review
    answer                   \* the answer on its way to the host, or Nothing

vars == <<bech32_hrp, hdPath, action_addrResponseLen, buffer, g_review_pending,
          expert, asked, drawn, disturbed, answer>>

------------------------------------------------------------------------------
(* Contents of the buffer *)

Bytes(what, s, p) == [what |-> what, hrp |-> s, path |-> p]

Zeroes  == Bytes("zeroes", NoHrp, NoPath)
Other   == Bytes("other", NoHrp, NoPath)    \* a status word, a command, an answer
Partial == Bytes("partial", NoHrp, NoPath)  \* left by an encoding that failed
Key(p)       == Bytes("key", NoHrp, p)
Bech32(s, p) == Bytes("address", s, p)   \* under the prefix that is the string s

\* External: Bech32 allows 90 characters: prefix, "1", data and checksum.
BECH32_DATA_LEN == 1 + 32 + 6
Encodable(s) == s.lower /\ s.len + BECH32_DATA_LEN <= 90

NoRequest == [hrp |-> NoHrp, path |-> NoPath]

Status == [key |-> Other, text |-> Zeroes]

------------------------------------------------------------------------------
(* crypto.c, crypto_helper.c *)

\* The text, and the uint8_t that stands for its length: CHECK_ZXERR returns the
\* error code of a failed encoding in its place.  bech32_hrp is passed as a C
\* string: what follows a zero byte in the prefix has no part in the address.
crypto_encodePubkey(h, p) ==
    IF Encodable(h.str)
    THEN [text |-> Bech32(h.str, p), outLen |-> h.str.len + BECH32_DATA_LEN]
    ELSE [text |-> Partial, outLen |-> zxerr_encoding_failed]

\* crypto_fillAddress past the derivation of the key: the buffer, and the length
\* of the answer, 0 being an error.
crypto_fillAddress(h, p) ==
    LET encoded == crypto_encodePubkey(h, p)
    IN  IF encoded.outLen = 0
        THEN [buffer |-> [key |-> Zeroes, text |-> Zeroes], len |-> 0]
        ELSE [buffer |-> [key |-> Key(p), text |-> encoded.text],
              len |-> PK_LEN_SECP256K1 + encoded.outLen]

------------------------------------------------------------------------------
(* Commands *)

Init ==
    /\ bech32_hrp = NoHrp /\ hdPath = NoPath
    /\ action_addrResponseLen = 0
    /\ buffer = Status
    /\ g_review_pending = FALSE
    /\ expert \in BOOLEAN
    /\ asked = NoRequest /\ drawn = {} /\ disturbed = FALSE
    /\ answer = Nothing

\* Mutant: the lock is not looked at.
Admitted_NoLock == TRUE

Admitted == ~g_review_pending

\* THROW: only a status word is sent.
Refuse ==
    /\ buffer' = Status
    /\ answer' = Nothing
    /\ asked' = NoRequest /\ drawn' = {} /\ disturbed' = FALSE
    /\ UNCHANGED <<g_review_pending, expert>>

\* Mutant: the length of the prefix is compared with the size of the array.
HrpLenOk_OffByOne(h) == h.len # 0 /\ h.len <= MAX_BECH32_HRP_LEN + 1

\* The length byte is accepted.
HrpLenOk(h) == h.len # 0 /\ h.len <= MAX_BECH32_HRP_LEN

\* extractHRP: without a length byte nothing happens; with a bad one, or with less
\* payload than it says, the old prefix is gone already.
GetAddrBadHRP ==
    /\ Admitted
    /\ \/ UNCHANGED bech32_hrp
       \/ bech32_hrp' = NoHrp
    /\ Refuse
    /\ UNCHANGED <<hdPath, action_addrResponseLen>>

\* The prefix is fine, the path is not: too short, or of another coin.  Its words
\* are copied before they are looked at.
GetAddrBadPath(h) ==
    /\ Admitted
    /\ HrpLenOk(h)
    /\ bech32_hrp' = h
    /\ hdPath' \in OtherPaths \cup {hdPath}
    /\ Refuse
    /\ UNCHANGED action_addrResponseLen

\* The key cannot be derived, or app_fill_address finds no address:
\* APDU_CODE_EXECUTION_ERROR.
GetAddrFails(h, p) ==
    /\ Admitted
    /\ HrpLenOk(h)
    /\ bech32_hrp' = h
    /\ hdPath' = p
    /\ action_addrResponseLen' = 0
    /\ Refuse

\* Mutant: app_fill_address runs before extractHDPath.
app_fill_address_StalePath(h, p) ==
    /\ buffer' = crypto_fillAddress(h, hdPath).buffer
    /\ action_addrResponseLen' = crypto_fillAddress(h, hdPath).len

\* app_fill_address when the key can be derived.
app_fill_address(h, p) ==
    /\ buffer' = crypto_fillAddress(h, p).buffer
    /\ action_addrResponseLen' = crypto_fillAddress(h, p).len

\* handleGetAddr: answered at once, or after a review (P1).
handleGetAddr(h, p) ==
    /\ Admitted
    /\ HrpLenOk(h)
    /\ crypto_fillAddress(h, p).len # 0
    /\ bech32_hrp' = h
    /\ hdPath' = p
    /\ app_fill_address(h, p)
    /\ asked' = [hrp |-> h, path |-> p]
    /\ drawn' = {} /\ disturbed' = FALSE
    /\ \/ /\ answer' = [content |-> buffer', len |-> action_addrResponseLen']
          /\ UNCHANGED g_review_pending
       \/ /\ answer' = Nothing
          /\ g_review_pending' = TRUE
    /\ UNCHANGED expert

\* The other commands that write the same globals: P1_INIT of INS_SIGN and
\* INS_SIGN_HASH the path, and (external) handleGetAddrEth the length.
SignInit(p) ==
    /\ Admitted
    /\ hdPath' = p
    /\ Refuse
    /\ UNCHANGED <<bech32_hrp, action_addrResponseLen>>

handleGetAddrEth ==
    /\ Admitted
    /\ action_addrResponseLen' \in {0, ETH_RESPONSE_LEN}
    /\ Refuse
    /\ UNCHANGED <<bech32_hrp, hdPath>>

\* handleApdu turns a command away; its bytes and the status word were written
\* over the key, and over the text if the command was long enough.
RejectWhilePending ==
    /\ g_review_pending
    /\ \E text \in {buffer.text, Other} :
          buffer' = [key |-> Other, text |-> text]
    /\ disturbed' = TRUE
    /\ UNCHANGED <<bech32_hrp, hdPath, action_addrResponseLen, g_review_pending,
                   expert, asked, drawn, answer>>

------------------------------------------------------------------------------
(* The review *)

addr_getNumItems == IF expert THEN 2 ELSE 1

\* Mutant: the address is looked for where an EVM answer has it.
addr_getItem_EthOffset(displayIdx) ==
    IF displayIdx = 0 THEN [item |-> "Address", value |-> Other]
    ELSE IF expert THEN [item |-> "Your Path", value |-> hdPath]
    ELSE [item |-> "no data", value |-> Zeroes]

\* addr_getItem.
addr_getItem(displayIdx) ==
    IF displayIdx = 0 THEN [item |-> "Address", value |-> buffer.text]
    ELSE IF expert THEN [item |-> "Your Path", value |-> hdPath]
    ELSE [item |-> "no data", value |-> Zeroes]

\* External: the screens draw an item, as often as they like.
DrawItem ==
    /\ g_review_pending
    /\ \E displayIdx \in 0..addr_getNumItems - 1 :
          drawn' = drawn \cup {addr_getItem(displayIdx)}
    /\ UNCHANGED <<bech32_hrp, hdPath, action_addrResponseLen, buffer,
                   g_review_pending, expert, asked, disturbed, answer>>

\* The user approves.
app_reply_address ==
    /\ g_review_pending
    /\ g_review_pending' = FALSE
    /\ answer' = [content |-> buffer, len |-> action_addrResponseLen]
    /\ UNCHANGED <<bech32_hrp, hdPath, action_addrResponseLen, buffer, expert,
                   asked, drawn, disturbed>>

\* The user rejects.
app_reject ==
    /\ g_review_pending
    /\ g_review_pending' = FALSE
    /\ buffer' = Status
    /\ answer' = Nothing
    /\ asked' = NoRequest /\ drawn' = {} /\ disturbed' = FALSE
    /\ UNCHANGED <<bech32_hrp, hdPath, action_addrResponseLen, expert>>

\* External: the settings menu, within reach when no review is shown; the answer
\* is with the host by then.
ToggleExpert ==
    /\ ~g_review_pending
    /\ expert' = ~expert
    /\ answer' = Nothing /\ asked' = NoRequest /\ drawn' = {} /\ disturbed' = FALSE
    /\ UNCHANGED <<bech32_hrp, hdPath, action_addrResponseLen, buffer,
                   g_review_pending>>

Command ==
    \/ GetAddrBadHRP
    \/ \E h \in HRPs : GetAddrBadPath(h)
    \/ \E h \in HRPs, p \in FlarePaths : GetAddrFails(h, p) \/ handleGetAddr(h, p)
    \/ \E p \in Paths : SignInit(p)
    \/ handleGetAddrEth
    \/ RejectWhilePending

Next == Command \/ DrawItem \/ app_reply_address \/ app_reject \/ ToggleExpert

Spec == Init /\ [][Next]_vars

------------------------------------------------------------------------------
(* Properties *)

Texts == {Zeroes, Other, Partial} \cup {Bech32(h.str, p) : h \in HRPs, p \in FlarePaths}

\* Every variable has a value of its type: a prefix that is kept fits in its
\* array, and no address needs more than a uint8_t for its length.
TypeOK ==
    /\ bech32_hrp \in {h \in HRPs : h.len \in 1..MAX_BECH32_HRP_LEN} \cup {NoHrp}
    /\ hdPath \in Paths \cup {NoPath}
    /\ action_addrResponseLen \in 0..(PK_LEN_SECP256K1 + 255)
    /\ buffer \in [key : {Zeroes, Other} \cup {Key(p) : p \in FlarePaths}, text : Texts]
    /\ g_review_pending \in BOOLEAN /\ expert \in BOOLEAN /\ disturbed \in BOOLEAN
    /\ asked \in [hrp : HRPs, path : FlarePaths] \cup {NoRequest}
    /\ \A d \in drawn : d.item \in {"Address", "Your Path"}

\* The answer of a command that was not disturbed has the key of the path it
\* asked for and never the address of another path or of an earlier prefix,
\* whatever earlier and refused commands left in the globals.  The address is
\* under the prefix up to its first zero byte, and it is there as a whole when
\* that can be encoded; when not, the answer is sent all the same
\* (AddressIsWhole, in MCAddressReview).
AnswerIsAsked ==
    answer # Nothing /\ ~disturbed =>
        LET prefix == asked.hrp.str
        IN  /\ answer.content.key = Key(asked.path)
            /\ answer.content.text \in {Partial, Bech32(prefix, asked.path)}
            /\ Encodable(prefix) =>
                  /\ answer.content.text = Bech32(prefix, asked.path)
                  /\ answer.len = PK_LEN_SECP256K1 + prefix.len + BECH32_DATA_LEN

\* What the user confirmed is what is answered: every address drawn during the
\* review is the text of the answer, unless the host disturbed the review.
ConfirmedIsDrawn ==
    answer # Nothing /\ ~disturbed =>
        \A d \in drawn : d.item = "Address" => d.value = answer.content.text

\* "Your Path" is the path of the command under review, even for a host that
\* keeps on sending commands which write hdPath (addr.c:51, apdu_handler.c:52).
PathIsAsked ==
    \A d \in drawn : d.item = "Your Path" => d.value = asked.path
==============================================================================
