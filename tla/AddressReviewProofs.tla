-------------------------- MODULE AddressReviewProofs --------------------------
(***************************************************************************)
(* Proofs about AddressReview, for every set of paths and prefixes and     *)
(* every error code of the library: the type invariant and the three       *)
(* invariants MCAddressReview checks on a small instance.                  *)
(***************************************************************************)
EXTENDS AddressReview, TLAPS

Request == [hrp: HRPs, path: FlarePaths]

\* The buffer and the length that a command for the key of asked leaves behind.
Filled(b, len) ==
    /\ b = crypto_fillAddress(asked.hrp, asked.path).buffer
    /\ len = crypto_fillAddress(asked.hrp, asked.path).len

\* While a review holds the lock the globals are those of its own command; only
\* the buffer is written to, and that by a host that disturbs it.
PendingIsAsked ==
    g_review_pending =>
        /\ asked \in Request
        /\ hdPath = asked.path
        /\ answer = Nothing
        /\ ~disturbed => Filled(buffer, action_addrResponseLen)

\* An answer sent without disturbance is what its command filled in.
AnswerIsFilled ==
    answer # Nothing /\ ~disturbed =>
        /\ asked \in Request
        /\ Filled(answer.content, answer.len)

\* Every address drawn in a review that was not disturbed is what its command
\* filled in, whenever it was drawn.
DrawnIsFilled ==
    ~disturbed =>
        \A d \in drawn : d.item = "Address" =>
            d.value = crypto_fillAddress(asked.hrp, asked.path).buffer.text

IInv ==
    /\ TypeOK
    /\ PendingIsAsked
    /\ AnswerIsFilled
    /\ DrawnIsFilled
    /\ PathIsAsked

------------------------------------------------------------------------------
(* The address *)

\* crypto_fillAddress never finds an address to be missing: an encoding that
\* fails counts as one of zxerr_encoding_failed bytes.  What it leaves is the key
\* of its path and, when the prefix up to its first zero byte can be encoded, the
\* whole of the address.
LEMMA FillAddress ==
  ASSUME NEW h \in HRPs, NEW p \in FlarePaths
  PROVE  LET filled == crypto_fillAddress(h, p)
         IN  /\ filled.len \in 1..(PK_LEN_SECP256K1 + 255)
             /\ filled.buffer \in [key: {Key(p)}, text: {Partial, Bech32(h.str, p)}]
             /\ Encodable(h.str) =>
                   /\ filled.buffer.text = Bech32(h.str, p)
                   /\ filled.len = PK_LEN_SECP256K1 + h.str.len + BECH32_DATA_LEN
<1>1. /\ h.str.len \in Nat
      /\ zxerr_encoding_failed \in 1..255
  BY ConstantsAssumption
<1>2. CASE Encodable(h.str)
  <2>1. /\ crypto_encodePubkey(h, p).text = Bech32(h.str, p)
        /\ crypto_encodePubkey(h, p).outLen = h.str.len + 39
        /\ h.str.len + 39 \in 1..90
    BY <1>1, <1>2 DEF crypto_encodePubkey, BECH32_DATA_LEN, Encodable
  <2> QED
    BY <1>1, <2>1 DEF crypto_fillAddress, PK_LEN_SECP256K1, BECH32_DATA_LEN
<1>3. CASE ~Encodable(h.str)
  <2>1. /\ crypto_encodePubkey(h, p).text = Partial
        /\ crypto_encodePubkey(h, p).outLen \in 1..255
    BY <1>1, <1>3 DEF crypto_encodePubkey
  <2> QED
    BY <1>3, <2>1 DEF crypto_fillAddress, PK_LEN_SECP256K1
<1> QED
  BY <1>2, <1>3

\* What a command fills in is a value of the buffer's type.
LEMMA FilledIsTyped ==
  ASSUME NEW h \in HRPs, NEW p \in FlarePaths
  PROVE  /\ crypto_fillAddress(h, p).len \in 0..(PK_LEN_SECP256K1 + 255)
         /\ crypto_fillAddress(h, p).buffer \in
              [key: {Zeroes, Other} \cup {Key(q) : q \in FlarePaths}, text: Texts]
<1>1. {Partial, Bech32(h.str, p)} \subseteq Texts
  BY DEF Texts
<1> QED
  BY <1>1, FillAddress DEF PK_LEN_SECP256K1

------------------------------------------------------------------------------
(* The steps *)

\* So is what a status word leaves.
LEMMA StatusIsTyped ==
  Status \in [key: {Zeroes, Other} \cup {Key(q) : q \in FlarePaths}, text: Texts]
BY DEF Status, Texts

LEMMA InitIInv == Init => IInv
<1> SUFFICES ASSUME Init PROVE IInv
  OBVIOUS
<1>1. 0 \in 0..(PK_LEN_SECP256K1 + 255)
  BY DEF PK_LEN_SECP256K1
<1>2. TypeOK
  BY <1>1, StatusIsTyped DEF Init, TypeOK
<1> QED
  BY <1>2 DEF Init, IInv, PendingIsAsked, AnswerIsFilled, DrawnIsFilled,
              PathIsAsked

\* A command that is refused leaves nothing to be shown or answered, whatever it
\* did to the globals before.
LEMMA RefuseStep ==
  ASSUME IInv, Admitted, Refuse,
         bech32_hrp' \in {h \in HRPs : HrpLenOk(h)} \cup {bech32_hrp, NoHrp},
         hdPath' \in Paths \cup {hdPath},
         action_addrResponseLen' \in {action_addrResponseLen, 0, ETH_RESPONSE_LEN}
  PROVE  IInv'
<1>1. \A h \in HRPs : HrpLenOk(h) => h.len \in 1..MAX_BECH32_HRP_LEN
  BY ConstantsAssumption DEF HrpLenOk, MAX_BECH32_HRP_LEN
<1>2. {0, ETH_RESPONSE_LEN} \subseteq 0..(PK_LEN_SECP256K1 + 255)
  BY DEF ETH_RESPONSE_LEN, PK_LEN_SECP256K1
<1>3. TypeOK'
  <2>1. bech32_hrp' \in {h \in HRPs : h.len \in 1..MAX_BECH32_HRP_LEN} \cup {NoHrp}
    BY <1>1 DEF IInv, TypeOK
  <2>2. action_addrResponseLen' \in 0..(PK_LEN_SECP256K1 + 255)
    BY <1>2 DEF IInv, TypeOK
  <2> QED
    BY <2>1, <2>2, StatusIsTyped DEF IInv, TypeOK, Refuse
<1> QED
  BY <1>3 DEF IInv, Refuse, Admitted, PendingIsAsked, AnswerIsFilled,
              DrawnIsFilled, PathIsAsked

\* An address command: its own key and address are in the buffer.
LEMMA GetAddrStep ==
  ASSUME IInv, NEW h \in HRPs, NEW p \in FlarePaths, handleGetAddr(h, p)
  PROVE  IInv'
<1> DEFINE filled == crypto_fillAddress(h, p)
<1>1. /\ asked' = [hrp |-> h, path |-> p] /\ asked' \in Request
      /\ hdPath' = p
      /\ buffer' = filled.buffer /\ action_addrResponseLen' = filled.len
      /\ drawn' = {} /\ ~disturbed'
  BY DEF handleGetAddr, app_fill_address, Request
<1>2. Filled(buffer, action_addrResponseLen)'
  BY <1>1 DEF Filled
<1>3. h.len \in 1..MAX_BECH32_HRP_LEN
  BY ConstantsAssumption DEF handleGetAddr, HrpLenOk, MAX_BECH32_HRP_LEN
<1>4. TypeOK'
  BY <1>1, <1>3, FilledIsTyped
     DEF handleGetAddr, IInv, TypeOK, Paths, Request, Admitted
<1>5. PendingIsAsked' /\ AnswerIsFilled'
  <2>1. CASE answer' = Nothing
    BY <1>1, <1>2, <2>1 DEF PendingIsAsked, AnswerIsFilled
  <2>2. CASE answer' = [content |-> buffer', len |-> action_addrResponseLen']
             /\ UNCHANGED g_review_pending
    BY <1>1, <1>2, <2>2
       DEF PendingIsAsked, AnswerIsFilled, Filled, handleGetAddr, Admitted
  <2> QED
    BY <2>1, <2>2 DEF handleGetAddr
<1> QED
  BY <1>1, <1>4, <1>5 DEF IInv, DrawnIsFilled, PathIsAsked

\* A command turned away disturbs the review and reaches nothing but the buffer.
LEMMA RejectStep ==
  ASSUME IInv, RejectWhilePending
  PROVE  IInv'
<1>1. TypeOK'
  <2>1. buffer' \in [key: {Zeroes, Other} \cup {Key(q) : q \in FlarePaths}, text: Texts]
    <3>1. /\ Other \in Texts
          /\ buffer.text \in Texts
      <4>1. Other \in Texts
        BY DEF Texts
      <4> QED
        BY <4>1 DEF IInv, TypeOK
    <3>2. PICK text \in {buffer.text, Other} : buffer' = [key |-> Other, text |-> text]
      BY DEF RejectWhilePending
    <3> QED
      BY <3>1, <3>2
  <2> QED
    BY <2>1 DEF IInv, TypeOK, RejectWhilePending
<1>2. PendingIsAsked'
  BY DEF IInv, RejectWhilePending, PendingIsAsked
<1> QED
  BY <1>1, <1>2 DEF IInv, RejectWhilePending, AnswerIsFilled, DrawnIsFilled,
                    PathIsAsked

\* An index below the number of items finds the address or, in expert mode, the
\* path: none of the screens is empty.
LEMMA ItemDrawn ==
  ASSUME NEW i \in 0..addr_getNumItems - 1
  PROVE  /\ addr_getItem(i).item \in {"Address", "Your Path"}
         /\ addr_getItem(i).item = "Address" => addr_getItem(i).value = buffer.text
         /\ addr_getItem(i).item = "Your Path" => addr_getItem(i).value = hdPath
<1>1. CASE i = 0
  BY <1>1 DEF addr_getItem
<1>2. CASE i # 0 /\ expert
  BY <1>2 DEF addr_getItem
<1>3. CASE i # 0 /\ ~expert
  <2>1. addr_getNumItems = 1
    BY <1>3 DEF addr_getNumItems
  <2>2. i = 0
    BY <2>1
  <2> QED
    BY <1>3, <2>2
<1> QED
  BY <1>1, <1>2, <1>3

\* An item drawn shows the buffer or the path of the command under review.
LEMMA DrawStep ==
  ASSUME IInv, DrawItem
  PROVE  IInv'
<1>1. PICK i \in 0..addr_getNumItems - 1 : drawn' = drawn \cup {addr_getItem(i)}
  BY DEF DrawItem
<1>2. /\ addr_getItem(i).item \in {"Address", "Your Path"}
      /\ addr_getItem(i).item = "Address" => addr_getItem(i).value = buffer.text
      /\ addr_getItem(i).item = "Your Path" => addr_getItem(i).value = hdPath
  BY ItemDrawn
<1>3. TypeOK'
  BY <1>1, <1>2 DEF IInv, TypeOK, DrawItem
<1>4. PendingIsAsked' /\ AnswerIsFilled'
  BY DEF IInv, DrawItem, PendingIsAsked, AnswerIsFilled, Filled
<1>5. DrawnIsFilled'
  BY <1>1, <1>2 DEF IInv, DrawItem, PendingIsAsked, DrawnIsFilled, Filled
<1>6. PathIsAsked'
  BY <1>1, <1>2 DEF IInv, DrawItem, PendingIsAsked, PathIsAsked
<1> QED
  BY <1>3, <1>4, <1>5, <1>6 DEF IInv

\* The answer is the buffer and the length as they are.
LEMMA ReplyStep ==
  ASSUME IInv, app_reply_address
  PROVE  IInv'
<1>1. TypeOK'
  BY DEF IInv, TypeOK, app_reply_address
<1>2. PendingIsAsked' /\ AnswerIsFilled'
  BY DEF IInv, app_reply_address, PendingIsAsked, AnswerIsFilled, Filled
<1> QED
  BY <1>1, <1>2 DEF IInv, app_reply_address, DrawnIsFilled, PathIsAsked

\* A rejection, and the settings menu, leave nothing to be answered.
LEMMA EndStep ==
  ASSUME IInv, app_reject \/ ToggleExpert
  PROVE  IInv'
<1>1. TypeOK'
  BY StatusIsTyped DEF IInv, TypeOK, app_reject, ToggleExpert
<1>2. ~g_review_pending' /\ answer' = Nothing /\ drawn' = {}
  BY DEF app_reject, ToggleExpert
<1> QED
  BY <1>1, <1>2 DEF IInv, PendingIsAsked, AnswerIsFilled, DrawnIsFilled,
                    PathIsAsked

LEMMA NextIInv == IInv /\ [Next]_vars => IInv'
<1> SUFFICES ASSUME IInv, [Next]_vars PROVE IInv'
  OBVIOUS
<1>1. CASE GetAddrBadHRP
  BY <1>1, RefuseStep DEF GetAddrBadHRP
<1>2. ASSUME NEW h \in HRPs, GetAddrBadPath(h) PROVE IInv'
  BY <1>2, RefuseStep DEF GetAddrBadPath, Paths
<1>3. ASSUME NEW h \in HRPs, NEW p \in FlarePaths, GetAddrFails(h, p) PROVE IInv'
  BY <1>3, RefuseStep DEF GetAddrFails, Paths
<1>4. ASSUME NEW h \in HRPs, NEW p \in FlarePaths, handleGetAddr(h, p) PROVE IInv'
  BY <1>4, GetAddrStep
<1>5. ASSUME NEW p \in Paths, SignInit(p) PROVE IInv'
  BY <1>5, RefuseStep DEF SignInit
<1>6. CASE handleGetAddrEth
  BY <1>6, RefuseStep DEF handleGetAddrEth
<1>7. CASE RejectWhilePending
  BY <1>7, RejectStep
<1>8. CASE DrawItem
  BY <1>8, DrawStep
<1>9. CASE app_reply_address
  BY <1>9, ReplyStep
<1>10. CASE app_reject \/ ToggleExpert
  BY <1>10, EndStep
<1>11. CASE UNCHANGED vars
  BY <1>11 DEF vars, IInv, TypeOK, PendingIsAsked, AnswerIsFilled, DrawnIsFilled,
               PathIsAsked, Filled
<1> QED
  BY <1>1, <1>2, <1>3, <1>4, <1>5, <1>6, <1>7, <1>8, <1>9, <1>10, <1>11
     DEF Next, Command

------------------------------------------------------------------------------
(* The theorems *)

\* The globals of the address command satisfy IInv in every reachable state.
THEOREM InductiveInvariant == Spec => []IInv
BY InitIInv, NextIInv, PTL DEF Spec

\* A prefix that is kept fits in its array, a length in its variable.
THEOREM TypeCorrect == Spec => []TypeOK
<1>1. IInv => TypeOK
  BY DEF IInv
<1> QED
  BY <1>1, InductiveInvariant, PTL

\* An undisturbed answer has the key of its own command's path and, as far as the
\* prefix up to its first zero byte can be encoded, the whole address under it; it
\* never has the address of another path or of an earlier prefix, whatever was
\* refused, signed or answered before.
THEOREM AnswersAsked == Spec => []AnswerIsAsked
<1>1. IInv => AnswerIsAsked
  <2> SUFFICES ASSUME IInv, answer # Nothing, ~disturbed
               PROVE  AnswerIsAsked
    BY DEF AnswerIsAsked
  <2>1. /\ asked.hrp \in HRPs /\ asked.path \in FlarePaths
        /\ Filled(answer.content, answer.len)
    BY DEF IInv, AnswerIsFilled, Request
  <2> QED
    BY <2>1, FillAddress DEF AnswerIsAsked, Filled
<1> QED
  BY <1>1, InductiveInvariant, PTL

\* Every address the user saw in an undisturbed review is the one answered.
THEOREM ConfirmsDrawn == Spec => []ConfirmedIsDrawn
<1>1. IInv => ConfirmedIsDrawn
  BY DEF IInv, AnswerIsFilled, DrawnIsFilled, ConfirmedIsDrawn, Filled
<1> QED
  BY <1>1, InductiveInvariant, PTL

\* Every path the user saw is the path of the command, disturbed or not.
THEOREM PathAsked == Spec => []PathIsAsked
<1>1. IInv => PathIsAsked
  BY DEF IInv
<1> QED
  BY <1>1, InductiveInvariant, PTL
==============================================================================
