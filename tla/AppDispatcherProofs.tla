-------------------------- MODULE AppDispatcherProofs --------------------------
(***************************************************************************)
(* Proofs about AppDispatcher, for every set of paths, documents, chunks   *)
(* and settings of its constants: the safety invariants MCAppDispatcher    *)
(* checks on a small instance, its two action properties and the           *)
(* refinement of ReviewPromise.                                            *)
(***************************************************************************)
EXTENDS AppDispatcher, TLAPS

\* A Flare review is the end of its upload: P1_LAST closed it.
ReviewedIsClosed == screen \in FlareSigning => ~tx_initialized

\* The EVM handlers have a path when they wait for chunks or show a review.
EthPathKnown == eth_initialized \/ screen \in EthSigning => hdPathEth \in EthPaths

\* The invariants need each other: the type of owed needs ReplyIsOwed, the type
\* of a signature UploadIsSession, and UploadIsSession that the lock is held
\* while a review is shown and that its upload is closed.
IInv ==
    /\ TypeOK
    /\ ReviewLock
    /\ ReplyIsOwed
    /\ UploadIsSession
    /\ ShownIsSignable
    /\ ReviewedIsClosed
    /\ EthPathKnown

\* The initial state satisfies the inductive invariant.
LEMMA InitIInv == Init => IInv
<1> SUFFICES ASSUME Init PROVE IInv
  OBVIOUS
<1>1. <<>> \in Seq(Byte)
  OBVIOUS
<1>2. 0 \in 0..MaxOutstanding
  BY ConstantsAssumption
<1>3. session \in Sessions
  BY <1>1 DEF Init, Sessions, NoSession, NewSession
<1>4. apdu_buffer \in Contents
  BY DEF Init, Contents, NoAddress
<1>5. TypeOK
  BY <1>1, <1>2, <1>3, <1>4 DEF Init, TypeOK, Screens
<1>6. ReviewLock /\ ReplyIsOwed /\ UploadIsSession /\ ShownIsSignable
  BY DEF Init, ReviewLock, ReplyIsOwed, UploadIsSession, ShownIsSignable,
         Reviews, Signing, FlareSigning, EthSigning, AddressReviews
<1>7. ReviewedIsClosed /\ EthPathKnown
  BY DEF Init, ReviewedIsClosed, EthPathKnown, FlareSigning, EthSigning
<1> QED
  BY <1>5, <1>6, <1>7 DEF IInv

\* While no review is shown a command leaves IInv intact if it replies and does
\* not touch the upload.
LEMMA ReplyStep ==
  ASSUME IInv, NEW content \in Contents, Reply(content),
         UNCHANGED <<uploadVars, hdPathEth, deviceVars>>,
         eth_initialized' \in {eth_initialized, FALSE}
  PROVE  IInv'
<1>1. TypeOK'
  BY DEF IInv, TypeOK, Reply, uploadVars, screenVars, deviceVars
<1>2. ReviewLock' /\ ReplyIsOwed'
  BY DEF IInv, ReviewLock, ReplyIsOwed, Reply, screenVars
<1>3. UploadIsSession' /\ ReviewedIsClosed'
  BY DEF IInv, UploadIsSession, ReviewedIsClosed, Reply, uploadVars, screenVars
<1>4. ShownIsSignable'
  BY DEF IInv, ShownIsSignable, Reply, uploadVars, screenVars, deviceVars
<1>5. EthPathKnown'
  BY DEF IInv, EthPathKnown, Reply, screenVars
<1> QED
  BY <1>1, <1>2, <1>3, <1>4, <1>5 DEF IInv

------------------------------------------------------------------------------
(* Commands *)

\* How a command that passed the lock can end.
Outcome ==
    \/ \E content \in Contents : Reply(content)
    \/ \E callback \in Reviews, content \in Contents : OpenReview(callback, content)
    \/ ShowBlindsignError

\* The part of IInv about screens and answers holds however a command ends.
LEMMA OutcomeStep ==
  ASSUME IInv, Admitted, Outcome
  PROVE  /\ screen \notin Reviews
         /\ g_review_pending' \in BOOLEAN /\ screen' \in Screens
         /\ apdu_buffer' \in Contents /\ owed' \in 0..MaxOutstanding
         /\ issued' = Nothing
         /\ ReviewLock' /\ ReplyIsOwed'
<1>1. screen \notin Reviews /\ ~g_review_pending
  BY DEF IInv, ReviewLock, Admitted
<1>2. owed \in 0..MaxOutstanding /\ MaxOutstanding \in Nat /\ owed < MaxOutstanding
  BY ConstantsAssumption DEF IInv, TypeOK, Admitted
<1>3. NoAddress \in Contents
  BY DEF NoAddress, Contents
<1>4. Reviews \subseteq Screens /\ "app_reply_error" \in Screens \ Reviews
  BY DEF Screens, Reviews, Signing, FlareSigning, EthSigning, AddressReviews
<1>5. ASSUME NEW content \in Contents, Reply(content)
      PROVE  /\ g_review_pending' \in BOOLEAN /\ screen' \in Screens
             /\ apdu_buffer' \in Contents /\ owed' \in 0..MaxOutstanding
             /\ issued' = Nothing /\ ReviewLock' /\ ReplyIsOwed'
  BY <1>5 DEF IInv, TypeOK, ReviewLock, ReplyIsOwed, Reply, screenVars
<1>6. ASSUME NEW callback \in Reviews, NEW content \in Contents,
             OpenReview(callback, content)
      PROVE  /\ g_review_pending' \in BOOLEAN /\ screen' \in Screens
             /\ apdu_buffer' \in Contents /\ owed' \in 0..MaxOutstanding
             /\ issued' = Nothing /\ ReviewLock' /\ ReplyIsOwed'
  BY <1>2, <1>4, <1>6 DEF ReviewLock, ReplyIsOwed, OpenReview
<1>7. ASSUME ShowBlindsignError
      PROVE  /\ g_review_pending' \in BOOLEAN /\ screen' \in Screens
             /\ apdu_buffer' \in Contents /\ owed' \in 0..MaxOutstanding
             /\ issued' = Nothing /\ ReviewLock' /\ ReplyIsOwed'
  <2>1. screen' = "app_reply_error" /\ ~g_review_pending'
    BY <1>1, <1>7 DEF ShowBlindsignError
  <2>2. owed' \in 0..MaxOutstanding /\ owed' > 0
    BY <1>2, <1>7 DEF ShowBlindsignError
  <2>3. ReviewLock'
    BY <1>4, <2>1 DEF ReviewLock
  <2>4. g_review_pending' \in BOOLEAN
    BY <1>7 DEF IInv, TypeOK, ShowBlindsignError
  <2> QED
    BY <1>3, <1>4, <1>7, <2>1, <2>2, <2>3, <2>4
    DEF ReplyIsOwed, ShowBlindsignError
<1>8. CASE \E content \in Contents : Reply(content)
  BY <1>1, <1>5, <1>8
<1>9. CASE \E callback \in Reviews, content \in Contents :
              OpenReview(callback, content)
  BY <1>1, <1>6, <1>9
<1>10. CASE ShowBlindsignError
  BY <1>1, <1>7, <1>10
<1> QED
  BY <1>8, <1>9, <1>10 DEF Outcome

\* INS_GET_ADDR ends an upload before it changes the path.
LEMMA GetAddrStep ==
  ASSUME IInv, NEW p \in Paths \cup {NoPath}, handleGetAddr(p)
  PROVE  IInv'
<1>a. NoAddress \in Contents
  BY DEF NoAddress, Contents
<1>b. Address(p) \in Contents
  BY DEF Address, Contents
<1>c. "app_reply_address" \in Reviews
  BY DEF Reviews, AddressReviews
<1>1. Admitted /\ Outcome
  BY <1>a, <1>b, <1>c DEF handleGetAddr, Outcome
<1>2. /\ screen \notin Reviews /\ ReviewLock' /\ ReplyIsOwed'
      /\ screen' \in Screens /\ g_review_pending' \in BOOLEAN
      /\ apdu_buffer' \in Contents /\ owed' \in 0..MaxOutstanding
      /\ issued' = Nothing
  BY <1>1, OutcomeStep
<1>3. screen' \notin Signing
  BY <1>2 DEF handleGetAddr, Reply, OpenReview, screenVars, Reviews, Signing,
              FlareSigning, EthSigning, AddressReviews
<1>4. TypeOK'
  <2>1. session' \in Sessions
    BY DEF handleGetAddr, NoSession, NewSession, Sessions
  <2>2. /\ hdPath' \in Paths \cup {NoPath}
        /\ hdPath_len' \in {0, HDPATH_LEN_DEFAULT}
    BY DEF IInv, TypeOK, handleGetAddr, extractHDPath
  <2>3. tx_initialized' \in BOOLEAN
    BY DEF handleGetAddr
  <2> QED
    BY <1>2, <2>1, <2>2, <2>3
    DEF IInv, TypeOK, handleGetAddr, ethVars, deviceVars
<1>5. UploadIsSession' /\ ReviewedIsClosed'
  BY <1>3 DEF UploadIsSession, ReviewedIsClosed, handleGetAddr, Signing
<1>6. ShownIsSignable'
  BY <1>3 DEF ShownIsSignable, Signing, FlareSigning
<1>7. EthPathKnown'
  BY <1>3 DEF IInv, EthPathKnown, handleGetAddr, ethVars, Signing
<1> QED
  BY <1>2, <1>4, <1>5, <1>6, <1>7 DEF IInv

\* P1_INIT empties the buffer and starts the upload with the path it names.
LEMMA SignInitStep ==
  ASSUME IInv, NEW p \in Paths \cup {NoPath}, SignInit(p)
  PROVE  IInv'
<1>1. Admitted /\ Reply(NoAddress) /\ Outcome
  BY DEF SignInit, Outcome, NoAddress, Contents
<1>2. /\ screen \notin Reviews /\ ReviewLock' /\ ReplyIsOwed'
      /\ screen' \in Screens /\ g_review_pending' \in BOOLEAN
      /\ apdu_buffer' \in Contents /\ owed' \in 0..MaxOutstanding
      /\ issued' = Nothing
  BY <1>1, OutcomeStep
<1>3. screen' \notin Signing
  BY <1>1, <1>2 DEF Reply, screenVars, Reviews
<1>4. FlarePaths \subseteq Paths /\ NoPath \notin FlarePaths
  BY ConstantsAssumption
<1>5. session' \in Sessions
  BY DEF SignInit, NoSession, NewSession, Sessions
<1>6. TypeOK'
  BY <1>2, <1>4, <1>5 DEF IInv, TypeOK, SignInit, extractHDPath, ethVars,
                          deviceVars, HDPATH_LEN_DEFAULT
<1>7. UploadIsSession' /\ ReviewedIsClosed'
  BY <1>3, <1>4 DEF UploadIsSession, ReviewedIsClosed, SignInit, extractHDPath,
                    NewSession, Signing
<1>8. ShownIsSignable'
  BY <1>3 DEF ShownIsSignable, Signing, FlareSigning
<1>9. EthPathKnown'
  BY <1>3 DEF IInv, EthPathKnown, SignInit, ethVars, Signing
<1> QED
  BY <1>2, <1>6, <1>7, <1>8, <1>9 DEF IInv

\* P1_ADD and P1_LAST before the outcome: the upload grows by the chunk.
LEMMA AppendStep ==
  ASSUME IInv, NEW d \in Chunks, AppendChunk(d)
  PROVE  /\ tx_buffer' \in Seq(Byte)
         /\ Accepted(d) \in Sessions
         /\ Accepted(d).path = hdPath /\ hdPath \in FlarePaths
         /\ hdPath_len = HDPATH_LEN_DEFAULT
         /\ Accepted(d).shared \/ tx_buffer' = Accepted(d).sent
<1>1. d \in Seq(Byte) /\ tx_buffer \in Seq(Byte) /\ session \in Sessions
  BY ConstantsAssumption DEF IInv, TypeOK
<1>2. tx_buffer' = tx_buffer \o d /\ tx_buffer' \in Seq(Byte)
  BY <1>1 DEF AppendChunk
<1>3. /\ session.path = hdPath /\ hdPath \in FlarePaths
      /\ hdPath_len = HDPATH_LEN_DEFAULT
      /\ session.shared \/ tx_buffer = session.sent
  BY DEF IInv, UploadIsSession, AppendChunk
<1>4. CASE session.shared
  BY <1>1, <1>2, <1>3, <1>4 DEF Accepted
<1>5. CASE ~session.shared
  <2>1. Accepted(d) = [session EXCEPT !.sent = @ \o d]
    BY <1>5 DEF Accepted
  <2>2. session.sent \o d \in Seq(Byte)
    BY <1>1 DEF Sessions
  <2>3. Accepted(d) \in Sessions
    BY <1>1, <2>1, <2>2 DEF Sessions
  <2>4. Accepted(d).path = session.path /\ Accepted(d).sent = session.sent \o d
    BY <1>1, <2>1 DEF Sessions
  <2> QED
    BY <1>2, <1>3, <1>5, <2>3, <2>4
<1> QED
  BY <1>4, <1>5

\* P1_ADD.
LEMMA SignAddStep ==
  ASSUME IInv, NEW d \in Chunks, SignAdd(d)
  PROVE  IInv'
<1>1. AppendChunk(d) /\ Admitted /\ Reply(NoAddress) /\ Outcome
  BY DEF SignAdd, AppendChunk, Outcome, NoAddress, Contents
<1>2. /\ screen \notin Reviews /\ ReviewLock' /\ ReplyIsOwed'
      /\ screen' \in Screens /\ g_review_pending' \in BOOLEAN
      /\ apdu_buffer' \in Contents /\ owed' \in 0..MaxOutstanding
      /\ issued' = Nothing
  BY <1>1, OutcomeStep
<1>3. screen' \notin Signing
  BY <1>1, <1>2 DEF Reply, screenVars, Reviews
<1>4. /\ tx_buffer' \in Seq(Byte) /\ session' \in Sessions
      /\ session'.path = hdPath /\ hdPath \in FlarePaths
      /\ hdPath_len = HDPATH_LEN_DEFAULT
      /\ session'.shared \/ tx_buffer' = session'.sent
  BY <1>1, AppendStep DEF SignAdd
<1>5. TypeOK'
  BY <1>2, <1>4 DEF IInv, TypeOK, SignAdd, AppendChunk, ethVars, deviceVars
<1>6. UploadIsSession' /\ ReviewedIsClosed'
  BY <1>3, <1>4 DEF UploadIsSession, ReviewedIsClosed, SignAdd, AppendChunk, Signing
<1>7. ShownIsSignable'
  BY <1>3 DEF ShownIsSignable, Signing, FlareSigning
<1>8. EthPathKnown'
  BY <1>3 DEF IInv, EthPathKnown, SignAdd, AppendChunk, ethVars, Signing
<1> QED
  BY <1>2, <1>5, <1>6, <1>7, <1>8 DEF IInv

\* P1_LAST when the document is refused: the upload is over, no review opens.
LEMMA RefusedStep ==
  ASSUME IInv, NEW d \in Chunks, LastChunk(d), session' = NoSession,
         parsed' \in Transactions \cup {<<>>},
         Reply(NoAddress) \/ ShowBlindsignError
  PROVE  IInv'
<1>1. AppendChunk(d) /\ Admitted /\ Outcome
  BY DEF LastChunk, AppendChunk, Outcome, NoAddress, Contents
<1>2. /\ screen \notin Reviews /\ ReviewLock' /\ ReplyIsOwed'
      /\ screen' \in Screens /\ g_review_pending' \in BOOLEAN
      /\ apdu_buffer' \in Contents /\ owed' \in 0..MaxOutstanding
      /\ issued' = Nothing
  BY <1>1, OutcomeStep
<1>3. screen' \notin Signing
  BY <1>2 DEF Reply, ShowBlindsignError, screenVars, Reviews, Signing,
              FlareSigning, EthSigning
<1>4. tx_buffer' \in Seq(Byte)
  BY <1>1, AppendStep
<1>5. session' \in Sessions
  BY DEF NoSession, NewSession, Sessions
<1>6. TypeOK'
  BY <1>2, <1>4, <1>5
  DEF IInv, TypeOK, LastChunk, AppendChunk, ethVars, deviceVars
<1>7. UploadIsSession' /\ ReviewedIsClosed'
  BY <1>3 DEF UploadIsSession, ReviewedIsClosed, LastChunk, Signing
<1>8. ShownIsSignable'
  BY <1>3 DEF ShownIsSignable, Signing, FlareSigning
<1>9. EthPathKnown'
  BY <1>3 DEF IInv, EthPathKnown, LastChunk, AppendChunk, ethVars, Signing
<1> QED
  BY <1>2, <1>6, <1>7, <1>8, <1>9 DEF IInv

\* P1_LAST when the document goes to review.
LEMMA ReviewedStep ==
  ASSUME IInv, NEW d \in Chunks, NEW callback \in FlareSigning,
         LastChunk(d), LastChunkReviewed(d, callback),
         parsed' \in Transactions \cup {<<>>},
         callback = "app_sign" => parsed' = tx_buffer' /\ tx_buffer' \in Transactions,
         callback = "app_sign_hash" => blindsign /\ Len(tx_buffer') = HashLen
  PROVE  IInv'
<1>0. callback \in Reviews /\ callback \notin EthSigning
  BY DEF Reviews, Signing, FlareSigning, EthSigning
<1>1. AppendChunk(d) /\ Admitted /\ OpenReview(callback, NoAddress) /\ Outcome
  BY <1>0 DEF LastChunk, LastChunkReviewed, AppendChunk, Outcome, NoAddress, Contents
<1>2. /\ ReviewLock' /\ ReplyIsOwed'
      /\ screen' \in Screens /\ g_review_pending' \in BOOLEAN
      /\ apdu_buffer' \in Contents /\ owed' \in 0..MaxOutstanding
      /\ issued' = Nothing
  BY <1>1, OutcomeStep
<1>3. screen' = callback
  BY <1>1 DEF OpenReview
<1>4. /\ tx_buffer' \in Seq(Byte) /\ session' \in Sessions
      /\ session'.path = hdPath /\ hdPath \in FlarePaths
      /\ hdPath_len = HDPATH_LEN_DEFAULT
      /\ session'.shared \/ tx_buffer' = session'.sent
  BY <1>1, AppendStep DEF LastChunkReviewed
<1>5. TypeOK'
  BY <1>2, <1>4 DEF IInv, TypeOK, LastChunk, AppendChunk, ethVars, deviceVars
<1>6. UploadIsSession' /\ ReviewedIsClosed'
  BY <1>4 DEF UploadIsSession, ReviewedIsClosed, LastChunk, AppendChunk
<1>7. ShownIsSignable'
  BY <1>1, <1>3 DEF ShownIsSignable, AppendChunk, deviceVars
<1>8. EthPathKnown'
  BY <1>0, <1>1, <1>3 DEF IInv, EthPathKnown, AppendChunk, ethVars
<1> QED
  BY <1>2, <1>5, <1>6, <1>7, <1>8 DEF IInv

\* P1_LAST of INS_SIGN.
LEMMA SignStep ==
  ASSUME IInv, NEW d \in Chunks, handleSign(d)
  PROVE  IInv'
<1>1. LastChunk(d) /\ parsed \in Transactions \cup {<<>>}
  BY DEF handleSign, IInv, TypeOK
<1>2. CASE UNCHANGED parsed /\ Reply(NoAddress) /\ session' = NoSession
  BY <1>1, <1>2, RefusedStep
<1>3. CASE parsed' = <<>> /\ Reply(NoAddress) /\ session' = NoSession
  BY <1>1, <1>3, RefusedStep
<1>4. CASE /\ tx_buffer' \in Transactions /\ parsed' = tx_buffer'
           /\ LastChunkReviewed(d, "app_sign")
  BY <1>1, <1>4, ReviewedStep DEF FlareSigning
<1> QED
  BY <1>2, <1>3, <1>4 DEF handleSign

\* P1_LAST of INS_SIGN_HASH.
LEMMA SignHashStep ==
  ASSUME IInv, NEW d \in Chunks, handleSignHash(d)
  PROVE  IInv'
<1>1. /\ LastChunk(d) /\ UNCHANGED parsed
      /\ parsed' \in Transactions \cup {<<>>}
  BY DEF handleSignHash, IInv, TypeOK
<1>2. CASE ShowBlindsignError /\ session' = NoSession
  BY <1>1, <1>2, RefusedStep
<1>3. CASE Reply(NoAddress) /\ session' = NoSession
  BY <1>1, <1>3, RefusedStep
<1>4. CASE blindsign /\ Len(tx_buffer') = HashLen
           /\ LastChunkReviewed(d, "app_sign_hash")
  BY <1>1, <1>4, ReviewedStep DEF FlareSigning
<1> QED
  BY <1>2, <1>3, <1>4 DEF handleSignHash

\* A chunk that does not fit ends the upload.
LEMMA ChunkTooBigStep ==
  ASSUME IInv, NEW d \in Chunks, ChunkTooBig(d)
  PROVE  IInv'
<1>1. Admitted /\ Reply(NoAddress) /\ Outcome
  BY DEF ChunkTooBig, Outcome, NoAddress, Contents
<1>2. /\ screen \notin Reviews /\ ReviewLock' /\ ReplyIsOwed'
      /\ screen' \in Screens /\ g_review_pending' \in BOOLEAN
      /\ apdu_buffer' \in Contents /\ owed' \in 0..MaxOutstanding
      /\ issued' = Nothing
  BY <1>1, OutcomeStep
<1>3. screen' \notin Signing
  BY <1>1, <1>2 DEF Reply, screenVars, Reviews
<1>4. session' \in Sessions
  BY DEF ChunkTooBig, NoSession, NewSession, Sessions
<1>5. TypeOK'
  BY <1>2, <1>4 DEF IInv, TypeOK, ChunkTooBig, ethVars, deviceVars
<1>6. UploadIsSession' /\ ReviewedIsClosed'
  BY <1>3 DEF UploadIsSession, ReviewedIsClosed, ChunkTooBig, Signing
<1>7. ShownIsSignable'
  BY <1>3 DEF ShownIsSignable, Signing, FlareSigning
<1>8. EthPathKnown'
  BY <1>3 DEF IInv, EthPathKnown, ChunkTooBig, ethVars, Signing
<1> QED
  BY <1>2, <1>5, <1>6, <1>7, <1>8 DEF IInv

\* An EVM chunk: the open Flare upload, if any, is marked as shared.
LEMMA EthChunkStep ==
  ASSUME IInv, Admitted, EthOutcome, SharedBuffer,
         tx_buffer' \in Seq(Byte), hdPathEth' \in EthPaths,
         UNCHANGED <<tx_initialized, parsed, hdPath, hdPath_len, deviceVars>>
  PROVE  IInv'
<1>0. NoAddress \in Contents /\ EthSigning \subseteq Reviews
  BY DEF NoAddress, Contents, Reviews, Signing
<1>1. Outcome /\ eth_initialized' \in BOOLEAN
  BY <1>0 DEF EthOutcome, Outcome
<1>2. /\ screen \notin Reviews /\ ReviewLock' /\ ReplyIsOwed'
      /\ screen' \in Screens /\ g_review_pending' \in BOOLEAN
      /\ apdu_buffer' \in Contents /\ owed' \in 0..MaxOutstanding
      /\ issued' = Nothing
  BY <1>1, OutcomeStep
<1>3. screen' \notin FlareSigning
  BY <1>2 DEF EthOutcome, Reply, OpenReview, ShowBlindsignError, screenVars,
              Reviews, Signing, FlareSigning, EthSigning
<1>4. session' \in Sessions
  <2>1. session \in Sessions /\ <<>> \in Seq(Byte)
    BY DEF IInv, TypeOK
  <2> QED
    BY <2>1 DEF SharedBuffer, Sessions
<1>5. TypeOK'
  BY <1>1, <1>2, <1>4 DEF IInv, TypeOK, deviceVars
<1>6. UploadIsSession'
  <2>1. SUFFICES ASSUME tx_initialized
                 PROVE  /\ hdPath = session'.path /\ hdPath \in FlarePaths
                        /\ hdPath_len = HDPATH_LEN_DEFAULT
                        /\ session'.shared
    BY <1>3 DEF UploadIsSession
  <2>2. /\ hdPath = session.path /\ hdPath \in FlarePaths
        /\ hdPath_len = HDPATH_LEN_DEFAULT
    BY <2>1 DEF IInv, UploadIsSession
  <2>3. session # NoSession
    BY <2>2, ConstantsAssumption DEF NoSession, NewSession
  <2>4. session \in Sessions
    BY DEF IInv, TypeOK
  <2> QED
    BY <2>2, <2>3, <2>4 DEF SharedBuffer, Sessions
<1>7. ReviewedIsClosed' /\ ShownIsSignable'
  BY <1>3 DEF ReviewedIsClosed, ShownIsSignable, FlareSigning
<1>8. EthPathKnown'
  BY DEF EthPathKnown
<1> QED
  BY <1>2, <1>5, <1>6, <1>7, <1>8 DEF IInv

\* The first chunk of an EVM upload.
LEMMA EthFirstStep ==
  ASSUME IInv, NEW p \in EthPaths, NEW d \in Chunks, EthFirst(p, d)
  PROVE  IInv'
<1>1. d \in Seq(Byte) /\ <<>> \in Seq(Byte)
  BY ConstantsAssumption
<1>2. tx_buffer' \in Seq(Byte)
  BY <1>1 DEF EthFirst
<1> QED
  BY <1>2, EthChunkStep DEF EthFirst

\* A further chunk.
LEMMA EthMoreStep ==
  ASSUME IInv, NEW d \in Chunks, EthMore(d)
  PROVE  IInv'
<1>1. d \in Seq(Byte) /\ tx_buffer \in Seq(Byte)
  BY ConstantsAssumption DEF IInv, TypeOK
<1>2. tx_buffer' \in Seq(Byte)
  BY <1>1 DEF EthMore
<1>3. hdPathEth' \in EthPaths
  BY DEF EthMore, IInv, EthPathKnown
<1> QED
  BY <1>2, <1>3, EthChunkStep DEF EthMore

\* An EVM address command has a path of its own and leaves a Flare upload alone.
LEMMA GetAddrEthStep ==
  ASSUME IInv, NEW p \in EthPaths, handleGetAddrEth(p)
  PROVE  IInv'
<1>0. /\ NoAddress \in Contents /\ EthAddress(p) \in Contents
      /\ "app_reply_address (evm)" \in Reviews
  BY DEF NoAddress, EthAddress, Contents, Reviews, AddressReviews
<1>1. Admitted /\ Outcome
  BY <1>0 DEF handleGetAddrEth, Outcome
<1>2. /\ screen \notin Reviews /\ ReviewLock' /\ ReplyIsOwed'
      /\ screen' \in Screens /\ g_review_pending' \in BOOLEAN
      /\ apdu_buffer' \in Contents /\ owed' \in 0..MaxOutstanding
      /\ issued' = Nothing
  BY <1>1, OutcomeStep
<1>3. screen' \notin Signing
  BY <1>2 DEF handleGetAddrEth, Reply, OpenReview, screenVars, Reviews, Signing,
              FlareSigning, EthSigning
<1>4. TypeOK'
  BY <1>2 DEF IInv, TypeOK, handleGetAddrEth, uploadVars, deviceVars
<1>5. UploadIsSession' /\ ReviewedIsClosed'
  BY <1>3 DEF IInv, UploadIsSession, ReviewedIsClosed, handleGetAddrEth,
              uploadVars, Signing
<1>6. ShownIsSignable'
  BY <1>3 DEF ShownIsSignable, Signing, FlareSigning
<1>7. EthPathKnown'
  BY <1>3 DEF EthPathKnown, handleGetAddrEth, Signing
<1> QED
  BY <1>2, <1>4, <1>5, <1>6, <1>7 DEF IInv

------------------------------------------------------------------------------
(* Callbacks and device *)

\* Every callback closes the screen and releases the lock with its answer.
LEMMA AnswerStep ==
  ASSUME IInv, NEW callback \in Reviews \cup {"app_reply_error"},
         NEW content \in Contents, Answer(callback, content),
         issued' \in Requests \cup {Nothing}
  PROVE  IInv'
<1>1. screen # "idle" /\ screen' = "idle" /\ ~g_review_pending'
  BY DEF Answer, Reviews, Signing, FlareSigning, EthSigning, AddressReviews
<1>2. screen' \notin Reviews /\ screen' \in Screens
  BY <1>1 DEF Reviews, Signing, FlareSigning, EthSigning, AddressReviews, Screens
<1>3. g_review_pending' \in BOOLEAN
  BY DEF Answer
<1>4. owed' \in 0..MaxOutstanding
  <2>1. owed \in 0..MaxOutstanding /\ owed > 0 /\ MaxOutstanding \in Nat
    BY <1>1, ConstantsAssumption DEF IInv, TypeOK, ReplyIsOwed
  <2> QED
    BY <2>1 DEF Answer
<1>5. session' \in Sessions
  BY DEF IInv, TypeOK, Answer, NoSession, NewSession, Sessions
<1>6. TypeOK'
  BY <1>2, <1>3, <1>4, <1>5 DEF IInv, TypeOK, Answer, ethVars, deviceVars
<1>7. ReviewLock' /\ ReplyIsOwed'
  BY <1>1, <1>2 DEF ReviewLock, ReplyIsOwed
<1>8. UploadIsSession'
  <2>1. SUFFICES ASSUME tx_initialized
                 PROVE  session' = session
    BY <1>2 DEF IInv, UploadIsSession, Answer, Reviews, Signing
  <2>2. screen \notin FlareSigning
    BY <2>1 DEF IInv, ReviewedIsClosed
  <2> QED
    BY <2>2 DEF Answer
<1>9. ReviewedIsClosed' /\ ShownIsSignable'
  BY <1>2 DEF ReviewedIsClosed, ShownIsSignable, Reviews, Signing, FlareSigning
<1>10. EthPathKnown'
  BY <1>2 DEF IInv, EthPathKnown, Answer, ethVars, Reviews, Signing
<1> QED
  BY <1>6, <1>7, <1>8, <1>9, <1>10 DEF IInv

\* What an approval signs is a request: the path is a path, not zeroed memory.
LEMMA SignedRequest == IInv /\ screen \in Signing => Shown \in Requests
<1> SUFFICES ASSUME IInv, screen \in Signing PROVE Shown \in Requests
  OBVIOUS
<1>1. tx_buffer \in Seq(Byte)
  BY DEF IInv, TypeOK
<1>2. screen \in FlareSigning => hdPath \in Paths
  BY ConstantsAssumption DEF IInv, UploadIsSession
<1>3. screen \notin FlareSigning => hdPathEth \in EthPaths
  BY DEF IInv, EthPathKnown, Signing
<1> QED
  BY <1>1, <1>2, <1>3 DEF Requests, Shown

\* The user's choice.
LEMMA DecideStep ==
  ASSUME IInv, Decide
  PROVE  IInv'
<1>0. /\ NoAddress \in Contents /\ apdu_buffer \in Contents
      /\ Signing \subseteq Reviews /\ AddressReviews \subseteq Reviews
  BY DEF NoAddress, Contents, Reviews, IInv, TypeOK
<1>1. ASSUME NEW callback \in Signing, NEW path, Sign(callback, path),
             path = IF callback \in FlareSigning THEN hdPath ELSE hdPathEth
      PROVE  IInv'
  <2>1. Answer(callback, NoAddress) /\ screen = callback
    BY <1>1 DEF Sign, Answer
  <2>2. issued' \in Requests
    BY <1>1, <2>1, SignedRequest DEF Sign, Shown
  <2> QED
    BY <1>0, <2>1, <2>2, AnswerStep
<1>2. ASSUME NEW callback \in Signing, SignFails(callback)
      PROVE  IInv'
  BY <1>0, <1>2, AnswerStep DEF SignFails
<1>3. CASE app_sign
  BY <1>1, <1>2, <1>3 DEF app_sign, Signing, FlareSigning
<1>4. CASE app_sign_hash
  BY <1>1, <1>2, <1>4 DEF app_sign_hash, Signing, FlareSigning
<1>5. CASE app_sign_eth
  BY <1>1, <1>2, <1>5 DEF app_sign_eth, Signing, FlareSigning, EthSigning
<1>6. CASE app_sign_evm_eip191
  BY <1>1, <1>2, <1>6 DEF app_sign_evm_eip191, Signing, FlareSigning, EthSigning
<1>7. CASE app_reply_address
  BY <1>0, <1>7, AnswerStep DEF app_reply_address
<1>8. CASE app_reject
  BY <1>0, <1>8, AnswerStep DEF app_reject
<1>9. CASE app_reply_error
  BY <1>0, <1>9, AnswerStep DEF app_reply_error
<1> QED
  BY <1>3, <1>4, <1>5, <1>6, <1>7, <1>8, <1>9 DEF Decide

\* The settings menu, the PIN and a restart.
LEMMA DeviceStep ==
  ASSUME IInv, Device
  PROVE  IInv'
<1>1. CASE ToggleBlindsign
  <2>1. screen' = "idle"
    BY <1>1 DEF ToggleBlindsign, screenVars
  <2>2. TypeOK'
    BY <1>1 DEF IInv, TypeOK, ToggleBlindsign, uploadVars, ethVars, screenVars
  <2>3. ReviewLock' /\ ReplyIsOwed' /\ UploadIsSession' /\ ReviewedIsClosed'
    BY <1>1 DEF IInv, ReviewLock, ReplyIsOwed, UploadIsSession, ReviewedIsClosed,
                ToggleBlindsign, uploadVars, screenVars
  <2>4. ShownIsSignable'
    BY <2>1 DEF ShownIsSignable
  <2>5. EthPathKnown'
    BY <1>1 DEF IInv, EthPathKnown, ToggleBlindsign, ethVars, screenVars
  <2> QED
    BY <2>2, <2>3, <2>4, <2>5 DEF IInv
<1>2. ASSUME LockDevice \/ UnlockDevice
      PROVE  IInv'
  <2>1. /\ UNCHANGED <<uploadVars, ethVars, screenVars, blindsign, apdu_buffer>>
        /\ pin' \in BOOLEAN /\ issued' = Nothing
    BY <1>2 DEF LockDevice, UnlockDevice
  <2>2. TypeOK'
    BY <2>1 DEF IInv, TypeOK, uploadVars, ethVars, screenVars
  <2>3. ReviewLock' /\ ReplyIsOwed' /\ UploadIsSession' /\ ReviewedIsClosed'
    BY <2>1 DEF IInv, ReviewLock, ReplyIsOwed, UploadIsSession, ReviewedIsClosed,
                uploadVars, screenVars
  <2>4. ShownIsSignable' /\ EthPathKnown'
    BY <2>1 DEF IInv, ShownIsSignable, EthPathKnown, uploadVars, ethVars, screenVars
  <2> QED
    BY <2>2, <2>3, <2>4 DEF IInv
<1>3. CASE Restart
  <2>1. screen' \notin Reviews /\ screen' \in Screens
    BY <1>3 DEF Restart, Reviews, Signing, FlareSigning, EthSigning,
                AddressReviews, Screens
  <2>2. apdu_buffer' \in Contents /\ session' \in Sessions /\ <<>> \in Seq(Byte)
    BY <1>3 DEF Restart, NoAddress, Contents, NoSession, NewSession, Sessions
  <2>3. owed' \in 0..MaxOutstanding
    BY <1>3, ConstantsAssumption DEF Restart
  <2>4. TypeOK'
    BY <1>3, <2>1, <2>2, <2>3 DEF IInv, TypeOK, Restart
  <2>5. ReviewLock' /\ ReplyIsOwed' /\ UploadIsSession' /\ ReviewedIsClosed'
    BY <1>3, <2>1 DEF ReviewLock, ReplyIsOwed, UploadIsSession, ReviewedIsClosed,
                      Restart, Reviews, Signing
  <2>6. ShownIsSignable' /\ EthPathKnown'
    BY <1>3, <2>1 DEF ShownIsSignable, EthPathKnown, Restart, Reviews, Signing,
                      FlareSigning
  <2> QED
    BY <2>4, <2>5, <2>6 DEF IInv
<1> QED
  BY <1>1, <1>2, <1>3 DEF Device

\* The commands that leave the upload alone and reply at once.
LEMMA PlainReplyStep ==
  ASSUME IInv,
         RejectWhilePending \/ RefuseCommand \/ handle_getversion
           \/ GetAddrBadHRP \/ ChunkNotInitialized \/ EthRefused
  PROVE  IInv'
<1>1. NoAddress \in Contents /\ eth_initialized \in BOOLEAN
  BY DEF NoAddress, Contents, IInv, TypeOK
<1>2. /\ Reply(NoAddress)
      /\ UNCHANGED <<uploadVars, hdPathEth, deviceVars>>
      /\ eth_initialized' \in {eth_initialized, FALSE}
  BY DEF RejectWhilePending, RefuseCommand, handle_getversion, GetAddrBadHRP,
         ChunkNotInitialized, EthRefused, ethVars
<1> QED
  BY <1>1, <1>2, ReplyStep

\* Every step preserves the inductive invariant.
LEMMA NextIInv == IInv /\ [Next]_vars => IInv'
<1> SUFFICES ASSUME IInv, [Next]_vars PROVE IInv'
  OBVIOUS
<1>1. CASE handleApdu
  <2>1. CASE RejectWhilePending \/ RefuseCommand
    BY <2>1, PlainReplyStep
  <2>2. CASE FlareCommand
    BY <2>2, PlainReplyStep, GetAddrStep, SignInitStep, ChunkTooBigStep,
       SignAddStep, SignStep, SignHashStep DEF FlareCommand
  <2>3. CASE EthCommand
    BY <2>3, PlainReplyStep, GetAddrEthStep, EthFirstStep, EthMoreStep
    DEF EthCommand
  <2> QED
    BY <1>1, <2>1, <2>2, <2>3 DEF handleApdu
<1>2. CASE Decide
  BY <1>2, DecideStep
<1>3. CASE Device
  BY <1>3, DeviceStep
<1>4. CASE UNCHANGED vars
  BY <1>4 DEF vars, IInv, TypeOK, ReviewLock, ReplyIsOwed, UploadIsSession,
              ShownIsSignable, ReviewedIsClosed, EthPathKnown
<1> QED
  BY <1>1, <1>2, <1>3, <1>4 DEF Next

\* The inductive invariant holds in every reachable state.
THEOREM InductiveInvariant == Spec => []IInv
BY InitIInv, NextIInv, PTL DEF Spec

\* All variables keep to their types: no path of zeroed memory is ever signed
\* with, and the count of unanswered commands never drops below zero.
THEOREM TypeCorrect == Spec => []TypeOK
<1>1. IInv => TypeOK
  BY DEF IInv
<1> QED
  BY <1>1, InductiveInvariant, PTL

\* The lock is held exactly while a review is shown.
THEOREM LockIsReview == Spec => []ReviewLock
<1>1. IInv => ReviewLock
  BY DEF IInv
<1> QED
  BY <1>1, InductiveInvariant, PTL

\* A callback only ever answers a command that waits for its answer.
THEOREM AnswersAreOwed == Spec => []ReplyIsOwed
<1>1. IInv => ReplyIsOwed
  BY DEF IInv
<1> QED
  BY <1>1, InductiveInvariant, PTL

\* The path and the bytes of an upload are those the host sent for it.
THEOREM UploadIntegrity == Spec => []UploadIsSession
<1>1. IInv => UploadIsSession
  BY DEF IInv
<1> QED
  BY <1>1, InductiveInvariant, PTL

\* What is shown is computed from what an approval signs.
THEOREM ShownIntegrity == Spec => []ShownIsSignable
<1>1. IInv => ShownIsSignable
  BY DEF IInv
<1> QED
  BY <1>1, InductiveInvariant, PTL

------------------------------------------------------------------------------
(* What a step may do *)

\* What a command that passed the lock needs: no review is shown.
LEMMA AdmittedIdle ==
  ASSUME IInv, Admitted
  PROVE  ~g_review_pending /\ screen \notin Reviews
BY DEF IInv, ReviewLock, Admitted

\* Every command but the rejection of RejectWhilePending passed the lock.
LEMMA CommandAdmitted ==
  ASSUME handleApdu
  PROVE  RejectWhilePending \/ Admitted
BY DEF handleApdu, RefuseCommand, FlareCommand, EthCommand, handle_getversion,
       GetAddrBadHRP, ChunkNotInitialized, handleGetAddr, SignInit, ChunkTooBig,
       SignAdd, handleSign, handleSignHash, LastChunk, AppendChunk,
       handleGetAddrEth, EthFirst, EthMore, EthRefused

\* Every callback releases the lock.
LEMMA DecideReleases ==
  ASSUME Decide
  PROVE  ~g_review_pending' /\ screen' = "idle"
BY DEF Decide, app_sign, app_sign_hash, app_sign_eth, app_sign_evm_eip191,
       app_reply_address, app_reject, app_reply_error, Sign, SignFails, Answer

\* Addresses stay what their review shows, if no command comes during it.
LEMMA AddressStep ==
  ASSUME MaxOutstanding = 1, IInv, AddressOnScreen, [Next]_vars
  PROVE  AddressOnScreen'
<1>1. CASE handleApdu
  <2>1. owed = 0 /\ screen = "idle"
    <3>1. owed < MaxOutstanding
      BY <1>1, CommandAdmitted DEF Admitted, RejectWhilePending
    <3> QED
      BY <3>1 DEF IInv, TypeOK, ReplyIsOwed
  <2>2. screen # "app_reply_address" /\ screen # "app_reply_address (evm)"
        /\ ~g_review_pending
    BY <2>1 DEF IInv, ReviewLock, Reviews, Signing, FlareSigning, EthSigning,
                AddressReviews
  <2>3. CASE \E content : Reply(content)
    BY <2>2, <2>3 DEF Reply, screenVars, AddressOnScreen
  <2>4. CASE ShowBlindsignError
    BY <2>4 DEF ShowBlindsignError, AddressOnScreen
  <2>5. CASE \E callback \in Signing : OpenReview(callback, NoAddress)
    BY <2>5 DEF OpenReview, AddressOnScreen, Signing, FlareSigning, EthSigning
  <2>6. ASSUME NEW q \in FlarePaths, hdPath' = q,
               OpenReview("app_reply_address", Address(q))
        PROVE  AddressOnScreen'
    BY <2>6 DEF OpenReview, AddressOnScreen, Address
  <2>7. ASSUME NEW q \in EthPaths, hdPathEth' = q,
               OpenReview("app_reply_address (evm)", EthAddress(q))
        PROVE  AddressOnScreen'
    BY <2>7 DEF OpenReview, AddressOnScreen, EthAddress
  <2>8. CASE FlareCommand
    <3>1. ASSUME NEW q \in Paths \cup {NoPath}, handleGetAddr(q)
          PROVE  \/ \E content : Reply(content)
                 \/ /\ q \in FlarePaths /\ hdPath' = q
                    /\ OpenReview("app_reply_address", Address(q))
      BY <3>1, ConstantsAssumption DEF handleGetAddr, extractHDPath
    <3>2. CASE \E q \in Paths \cup {NoPath} : handleGetAddr(q)
      BY <2>3, <2>6, <3>1, <3>2
    <3>3. CASE \/ handle_getversion \/ GetAddrBadHRP \/ ChunkNotInitialized
               \/ \E q \in Paths \cup {NoPath} : SignInit(q)
               \/ \E d \in Chunks : ChunkTooBig(d) \/ SignAdd(d)
      BY <2>3, <3>3 DEF handle_getversion, GetAddrBadHRP, ChunkNotInitialized,
                        SignInit, ChunkTooBig, SignAdd
    <3>4. CASE \E d \in Chunks : handleSign(d) \/ handleSignHash(d)
      BY <2>3, <2>4, <2>5, <3>4
      DEF handleSign, handleSignHash, LastChunkReviewed, Signing, FlareSigning
    <3> QED
      BY <2>8, <3>2, <3>3, <3>4 DEF FlareCommand
  <2>9. CASE EthCommand
    <3>1. CASE \E q \in EthPaths : handleGetAddrEth(q)
      BY <2>3, <2>7, <3>1 DEF handleGetAddrEth
    <3>2. CASE EthOutcome
      BY <2>3, <2>4, <2>5, <3>2 DEF EthOutcome, Signing
    <3>3. CASE EthRefused
      BY <2>3, <3>3 DEF EthRefused
    <3> QED
      BY <2>9, <3>1, <3>2, <3>3 DEF EthCommand, EthFirst, EthMore
  <2>10. CASE RejectWhilePending \/ RefuseCommand
    BY <2>3, <2>10 DEF RejectWhilePending, RefuseCommand
  <2> QED
    BY <1>1, <2>8, <2>9, <2>10 DEF handleApdu
<1>2. CASE Decide
  BY <1>2, DecideReleases DEF AddressOnScreen
<1>3. CASE ToggleBlindsign \/ LockDevice \/ UnlockDevice
  BY <1>3 DEF ToggleBlindsign, LockDevice, UnlockDevice, AddressOnScreen,
              Address, EthAddress, uploadVars, ethVars, screenVars
<1>4. CASE Restart
  BY <1>4 DEF Restart, AddressOnScreen
<1>5. CASE UNCHANGED vars
  BY <1>5 DEF vars, AddressOnScreen, Address, EthAddress
<1> QED
  BY <1>1, <1>2, <1>3, <1>4, <1>5 DEF Next, Device

\* An address review shows, and sends, the address of the path its command named,
\* if the host waits for each answer before it sends the next command.  For a host
\* that does not, the dispatcher breaks this: a command turned away during the
\* review writes to the same buffer (apdu_handler.c:334).
THEOREM AddressShown ==
  ASSUME MaxOutstanding = 1
  PROVE  Spec => []AddressOnScreen
<1>1. Init => AddressOnScreen
  BY DEF Init, AddressOnScreen
<1>2. IInv /\ AddressOnScreen /\ [Next]_vars => AddressOnScreen'
  BY AddressStep
<1> QED
  BY <1>1, <1>2, InductiveInvariant, PTL DEF Spec

\* A step that finds the lock held and leaves it held.
LEMMA FrozenStep ==
  ASSUME IInv, [Next]_vars, g_review_pending, g_review_pending'
  PROVE  UNCHANGED <<screen, tx_buffer, parsed, hdPath, hdPath_len, hdPathEth,
                     blindsign>>
<1>1. CASE handleApdu
  <2>1. RejectWhilePending
    BY <1>1, CommandAdmitted DEF Admitted
  <2> QED
    BY <2>1 DEF RejectWhilePending, Reply, screenVars, uploadVars, ethVars,
                deviceVars
<1>2. CASE Decide
  BY <1>2, DecideReleases
<1>3. CASE ToggleBlindsign
  BY <1>3 DEF ToggleBlindsign, IInv, ReviewLock, Reviews, Signing,
              FlareSigning, EthSigning, AddressReviews
<1>4. CASE LockDevice \/ UnlockDevice
  BY <1>4 DEF LockDevice, UnlockDevice, uploadVars, ethVars, screenVars
<1>5. CASE Restart
  BY <1>5 DEF Restart
<1>6. CASE UNCHANGED vars
  BY <1>6 DEF vars
<1> QED
  BY <1>1, <1>2, <1>3, <1>4, <1>5, <1>6 DEF Next, Device

\* Nothing the user sees or approves changes while the lock is held.
THEOREM Frozen == Spec => FrozenUnderReview
<1> DEFINE Kept == g_review_pending /\ g_review_pending' =>
                     UNCHANGED <<screen, tx_buffer, parsed, hdPath, hdPath_len,
                                 hdPathEth, blindsign>>
<1>1. IInv /\ [Next]_vars => [Kept]_vars
  BY FrozenStep
<1> QED
  BY <1>1, InductiveInvariant, PTL DEF Spec, FrozenUnderReview

\* A review of a Flare command opens for an upload that is still open, and so
\* for each upload once.
THEOREM OneReview == Spec => OneReviewPerUpload
<1> DEFINE Once == screen' \in FlareSigning /\ screen' # screen =>
                     session # NoSession
<1>1. ASSUME IInv, tx_initialized
      PROVE  session # NoSession
  BY <1>1, ConstantsAssumption DEF IInv, UploadIsSession, NoSession, NewSession
<1>2. ASSUME IInv, [Next]_vars, screen' \in FlareSigning, screen' # screen
      PROVE  tx_initialized
  <2>1. CASE FlareCommand
    BY <1>2, <2>1
    DEF FlareCommand, handle_getversion, GetAddrBadHRP, ChunkNotInitialized,
        handleGetAddr, SignInit, ChunkTooBig, SignAdd, handleSign,
        handleSignHash, LastChunk, AppendChunk, Reply, OpenReview, screenVars,
        FlareSigning
  <2>2. CASE EthCommand
    BY <1>2, <2>2
    DEF EthCommand, handleGetAddrEth, EthFirst, EthMore, EthRefused, EthOutcome,
        Reply, OpenReview, ShowBlindsignError, screenVars, FlareSigning,
        EthSigning
  <2>3. CASE RejectWhilePending \/ RefuseCommand
    BY <1>2, <2>3 DEF RejectWhilePending, RefuseCommand, Reply, screenVars
  <2>4. CASE Decide
    BY <1>2, <2>4, DecideReleases DEF FlareSigning
  <2>5. CASE Device
    BY <1>2, <2>5 DEF Device, ToggleBlindsign, LockDevice, UnlockDevice, Restart,
                      screenVars, FlareSigning
  <2>6. CASE UNCHANGED vars
    BY <1>2, <2>6 DEF vars
  <2> QED
    BY <1>2, <2>1, <2>2, <2>3, <2>4, <2>5, <2>6 DEF Next, handleApdu
<1>3. IInv /\ [Next]_vars => [Once]_vars
  BY <1>1, <1>2
<1> QED
  BY <1>3, InductiveInvariant, PTL DEF Spec, OneReviewPerUpload

------------------------------------------------------------------------------
(* Refinement of ReviewPromise *)

\* A request can be told from the absence of one.
LEMMA RequestIsSomething == Promise!Request = Requests /\ Nothing \notin Requests
BY NothingAssumption DEF Promise!Request, Requests

\* A step that leaves the screen alone and issues nothing delivers or stutters.
LEMMA QuietStep ==
  ASSUME UNCHANGED Shown, issued' = Nothing
  PROVE  Promise!Next \/ UNCHANGED Promise!vars
BY DEF Promise!Next, Promise!Deliver, Promise!vars

\* A command that passed the lock opens a request or leaves none.
LEMMA CommandRefines ==
  ASSUME IInv, IInv', Admitted, issued' = Nothing
  PROVE  Promise!Next \/ UNCHANGED Promise!vars
<1>1. Shown = Nothing
  BY AdmittedIdle DEF Shown, Reviews
<1>2. CASE screen' \in Signing
  <2>1. (IInv /\ screen \in Signing => Shown \in Requests)'
    BY SignedRequest, PTL
  <2>2. Shown' \in Requests
    BY <1>2, <2>1
  <2> QED
    BY <1>1, <2>2, RequestIsSomething DEF Promise!Next, Promise!Open
<1>3. CASE screen' \notin Signing
  BY <1>1, <1>3, QuietStep DEF Shown
<1> QED
  BY <1>2, <1>3

\* No command issues a signature.
LEMMA CommandIssuesNothing ==
  ASSUME handleApdu
  PROVE  issued' = Nothing
BY DEF handleApdu, RejectWhilePending, RefuseCommand, FlareCommand, EthCommand,
       handle_getversion, GetAddrBadHRP, ChunkNotInitialized, handleGetAddr,
       SignInit, ChunkTooBig, SignAdd, handleSign, handleSignHash,
       LastChunkReviewed, handleGetAddrEth, EthFirst, EthMore, EthRefused,
       EthOutcome, Reply, OpenReview, ShowBlindsignError

\* The user approves or withdraws what is shown.
LEMMA DecideRefines ==
  ASSUME IInv, Decide
  PROVE  Promise!Next \/ UNCHANGED Promise!vars
<1>0. Shown' = Nothing
  BY DecideReleases DEF Shown, Signing, FlareSigning, EthSigning
<1>1. ASSUME issued' = Nothing
      PROVE  Promise!Next \/ UNCHANGED Promise!vars
  BY <1>0, <1>1, QuietStep DEF Promise!Next, Promise!Withdraw
<1>2. ASSUME NEW callback \in Signing, NEW path, Sign(callback, path),
             path = IF callback \in FlareSigning THEN hdPath ELSE hdPathEth
      PROVE  Promise!Next
  <2>1. screen = callback /\ issued' = Shown
    BY <1>2 DEF Sign, Answer, Shown
  <2>2. Shown # Nothing
    BY <2>1, SignedRequest, RequestIsSomething
  <2> QED
    BY <1>0, <2>1, <2>2 DEF Promise!Next, Promise!Approve
<1>3. CASE app_sign
  BY <1>1, <1>2, <1>3 DEF app_sign, SignFails, Signing, FlareSigning
<1>4. CASE app_sign_hash
  BY <1>1, <1>2, <1>4 DEF app_sign_hash, SignFails, Signing, FlareSigning
<1>5. CASE app_sign_eth
  BY <1>1, <1>2, <1>5
  DEF app_sign_eth, SignFails, Signing, FlareSigning, EthSigning
<1>6. CASE app_sign_evm_eip191
  BY <1>1, <1>2, <1>6
  DEF app_sign_evm_eip191, SignFails, Signing, FlareSigning, EthSigning
<1>7. CASE app_reply_address \/ app_reject \/ app_reply_error
  BY <1>1, <1>7 DEF app_reply_address, app_reject, app_reply_error
<1> QED
  BY <1>3, <1>4, <1>5, <1>6, <1>7 DEF Decide

\* Every step of the dispatcher is a step of the promise or leaves it alone.
LEMMA StepRefines ==
  IInv /\ IInv' /\ [Next]_vars => [Promise!Next]_(Promise!vars)
<1> SUFFICES ASSUME IInv, IInv', [Next]_vars
             PROVE  Promise!Next \/ UNCHANGED Promise!vars
  OBVIOUS
<1>1. CASE handleApdu
  <2>1. CASE RejectWhilePending
    <3>1. UNCHANGED Shown
      BY <2>1 DEF RejectWhilePending, Reply, screenVars, uploadVars, ethVars, Shown
    <3> QED
      BY <1>1, <3>1, CommandIssuesNothing, QuietStep
  <2>2. CASE Admitted
    BY <1>1, <2>2, CommandIssuesNothing, CommandRefines
  <2> QED
    BY <1>1, <2>1, <2>2, CommandAdmitted
<1>2. CASE Decide
  BY <1>2, DecideRefines
<1>3. CASE ToggleBlindsign \/ LockDevice \/ UnlockDevice
  <2>1. UNCHANGED Shown /\ issued' = Nothing
    BY <1>3 DEF ToggleBlindsign, LockDevice, UnlockDevice, uploadVars, ethVars,
                screenVars, Shown
  <2> QED
    BY <2>1, QuietStep
<1>4. CASE Restart
  <2>1. Shown' = Nothing /\ issued' = Nothing
    BY <1>4 DEF Restart, Shown, Signing, FlareSigning, EthSigning
  <2> QED
    BY <2>1, QuietStep DEF Promise!Next, Promise!Withdraw
<1>5. CASE UNCHANGED vars
  BY <1>5 DEF vars, Promise!vars, Shown
<1> QED
  BY <1>1, <1>2, <1>3, <1>4, <1>5 DEF Next, Device

\* What you see is what you sign: the dispatcher implements ReviewPromise.
THEOREM Refinement == Spec => SignsWhatIsShown
<1>1. Init => Promise!Init
  BY DEF Init, Promise!Init, Shown, Signing, FlareSigning, EthSigning
<1> QED
  BY <1>1, StepRefines, InductiveInvariant, PTL
  DEF Spec, Promise!Spec, SignsWhatIsShown
==============================================================================
