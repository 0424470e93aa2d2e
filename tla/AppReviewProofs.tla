---------------------------- MODULE AppReviewProofs ----------------------------
(***************************************************************************)
(* Proofs about AppReview: what the screens draw, one item at a time and   *)
(* while the host may send anything, is what an approval signs.  The       *)
(* dispatcher's invariant (AppDispatcherProofs) keeps buffer, tx_obj and   *)
(* screen together while a review is shown; the items of a document that   *)
(* parser_validate let pass (TxItemsProofs) are then the ones it has to    *)
(* show.                                                                   *)
(***************************************************************************)
EXTENDS AppReview, AppDispatcherProofs, TxItemsProofs

\* The review so far: the screens know the number of items, and every item up
\* to the one on the screen was drawn.
ReadSoFar ==
    screen \in FlareSigning =>
        /\ itemCount = NumItems(screen, parsed)
        /\ cursor \in 0..itemCount
        /\ \A i \in 0..cursor :
              i < itemCount => <<i, Item(screen, parsed, tx_buffer, i)>> \in drawn

AppInv == IInv /\ expert \in BOOLEAN /\ DrawnIsSignable /\ ReadSoFar

------------------------------------------------------------------------------
(* The items of the review on the screen *)

\* The outputs of a document are read from the buffer that holds it.
LEMMA LiveIsMeaning ==
  ASSUME NEW d \in Transactions
  PROVE  Live(d, d) = Meaning[d]
<1> DEFINE Document ==
             [type: TxTypes, known: BOOLEAN,
              outs: Seq([amount: 0..UINT64_MAX, addrs: Seq(Addrs)]),
              in: 0..UINT64_MAX, in2: 0..UINT64_MAX,
              out: 0..UINT64_MAX, stake: 0..UINT64_MAX]
<1>1. Meaning[d] \in Document
  BY MeaningAssumption DEF IsDocument
<1>2. \A m \in Document : [m EXCEPT !.outs = m.outs] = m
  OBVIOUS
<1> HIDE DEF Document
<1> QED
  BY <1>1, <1>2 DEF Live

\* The items due are the items drawn, at the indices the screens ask for.
DueIsDrawn ==
    screen \in FlareSigning =>
        /\ NumItems(screen, parsed) \in Nat \ {0}
        /\ Due(screen, tx_buffer) =
              {<<i, Item(screen, parsed, tx_buffer, i)>> :
                  i \in 0..NumItems(screen, parsed) - 1}

LEMMA ItemsAreDue ==
  ASSUME IInv, expert \in BOOLEAN
  PROVE  DueIsDrawn
<1> SUFFICES ASSUME screen \in FlareSigning
             PROVE  /\ NumItems(screen, parsed) \in Nat \ {0}
                    /\ Due(screen, tx_buffer) =
                          {<<i, Item(screen, parsed, tx_buffer, i)>> :
                              i \in 0..NumItems(screen, parsed) - 1}
  BY DEF DueIsDrawn
<1>1. CASE screen = "app_sign"
  <2> DEFINE d == tx_buffer
             g == getNumItems(Meaning[d], expert)
             items == Items(Meaning[d], expert)
             Shows(item) == IF item = Hash THEN HashOf(d) ELSE item
  <2>1. d \in Transactions /\ parsed = d /\ d # <<>>
    BY <1>1, ConstantsAssumption DEF IInv, ShownIsSignable
  <2>2. IsDocument(Meaning[d]) /\ Validated(Meaning[d], expert)
    BY <2>1, MeaningAssumption
  <2>3. /\ g = Len(items)
        /\ \A i \in 0..g - 1 : tx_getItem(Meaning[d], expert, i) = items[i + 1]
    BY <2>2, ScreensAreItems
  <2>4. g \in 1..UINT8_MAX
    BY <2>2, CountIsLength DEF Validated
  <2>5. NumItems(screen, parsed) = g
    BY <1>1, <2>1 DEF NumItems
  <2>6. \A i \in 0..g - 1 : Item(screen, parsed, tx_buffer, i) = Shows(items[i + 1])
    <3>1. Live(parsed, tx_buffer) = Meaning[d]
      BY <2>1, LiveIsMeaning
    <3>2. ASSUME NEW i \in 0..g - 1
          PROVE  Item(screen, parsed, tx_buffer, i)
                   = Shows(tx_getItem(Meaning[d], expert, i))
      BY <1>1, <2>1, <3>1 DEF Item
    <3> QED
      BY <2>3, <3>2
  <2>7. Due(screen, tx_buffer) = {<<i - 1, Shows(items[i])>> : i \in DOMAIN items}
    BY <1>1, <2>1 DEF Due
  <2>8. DOMAIN items = 1..g
    BY <2>2, <2>3, ItemsAreSeq
  <2> HIDE DEF g, items, Shows, d
  <2>9. g \in Nat \ {0}
    BY <2>4, WidthsAssumption
  <2>10. {<<i - 1, Shows(items[i])>> : i \in 1..g}
           = {<<i, Shows(items[i + 1])>> : i \in 0..g - 1}
    <3>1. \A i \in 1..g : i - 1 \in 0..g - 1 /\ (i - 1) + 1 = i
      BY <2>9
    <3>2. \A i \in 0..g - 1 : i + 1 \in 1..g /\ (i + 1) - 1 = i
      BY <2>9
    <3>3. ASSUME NEW x, x \in {<<i - 1, Shows(items[i])>> : i \in 1..g}
          PROVE  x \in {<<i, Shows(items[i + 1])>> : i \in 0..g - 1}
      <4>1. PICK i \in 1..g : x = <<i - 1, Shows(items[i])>>
        BY <3>3
      <4>2. i - 1 \in 0..g - 1 /\ x = <<i - 1, Shows(items[(i - 1) + 1])>>
        BY ONLY <3>1, <4>1
      <4> QED
        BY <4>2
    <3>4. ASSUME NEW x, x \in {<<i, Shows(items[i + 1])>> : i \in 0..g - 1}
          PROVE  x \in {<<i - 1, Shows(items[i])>> : i \in 1..g}
      <4>1. PICK i \in 0..g - 1 : x = <<i, Shows(items[i + 1])>>
        BY <3>4
      <4>2. i + 1 \in 1..g /\ x = <<(i + 1) - 1, Shows(items[i + 1])>>
        BY ONLY <3>2, <4>1
      <4> QED
        BY <4>2
    <3> QED
      BY <3>3, <3>4
  <2>11. {<<i, Item(screen, parsed, tx_buffer, i)>> : i \in 0..g - 1}
           = {<<i, Shows(items[i + 1])>> : i \in 0..g - 1}
    BY <2>6
  <2> QED
    BY ONLY <2>5, <2>7, <2>8, <2>9, <2>10, <2>11
<1>2. CASE screen = "app_sign_hash"
  <2>1. tx_buffer # <<>>
    BY <1>2, ConstantsAssumption DEF IInv, ShownIsSignable
  <2>2. NumItems(screen, parsed) = 1
    BY <1>2 DEF NumItems
  <2>3. Item(screen, parsed, tx_buffer, 0) = HashOf(tx_buffer)
    BY <1>2, <2>1 DEF Item, hash_getItem
  <2>4. Due(screen, tx_buffer) = {<<0, HashOf(tx_buffer)>>}
    BY <1>2 DEF Due
  <2>5. {<<i, Item(screen, parsed, tx_buffer, i)>> : i \in 0..1 - 1}
          = {<<0, Item(screen, parsed, tx_buffer, 0)>>}
    <3>1. 0..1 - 1 = {0}
      OBVIOUS
    <3> QED
      BY <3>1
  <2>6. 1 \in Nat \ {0}
    OBVIOUS
  <2> QED
    BY ONLY <2>2, <2>3, <2>4, <2>5, <2>6
<1> QED
  BY <1>1, <1>2 DEF FlareSigning
------------------------------------------------------------------------------
(* The steps *)

\* Every step is a step of the dispatcher, or none of its business.
LEMMA StepOfDispatcher ==
  ASSUME [AppNext]_allVars
  PROVE  [Next]_vars
<1>1. CASE Command
  BY <1>1 DEF Command, Next
<1>2. CASE PageForward \/ PageBack \/ Redraw
  BY <1>2 DEF PageForward, PageBack, Redraw, Goto
<1>3. CASE Approve \/ DecideOtherwise
  BY <1>3 DEF Approve, DecideOtherwise, Next, Decide
<1>4. CASE Settings
  BY <1>4 DEF Settings, ToggleExpert, Next, Device
<1>5. CASE UNCHANGED allVars
  BY <1>5 DEF allVars
<1> QED
  BY <1>1, <1>2, <1>3, <1>4, <1>5 DEF AppNext

LEMMA NextItemsAreDue == IInv /\ expert \in BOOLEAN => DueIsDrawn
BY ItemsAreDue

\* Without a Flare review on the screen there is nothing to compare.
LEMMA NoReview ==
  ASSUME IInv', expert' \in BOOLEAN, screen' \notin FlareSigning
  PROVE  AppInv'
BY DEF AppInv, DrawnIsSignable, ReadSoFar

\* A review that opens has drawn its first item.
LEMMA FirstStep ==
  ASSUME IInv', expert \in BOOLEAN, expert' = expert, screen' \in FlareSigning,
         ShowFirst
  PROVE  AppInv'
<1>1. DueIsDrawn'
  <2>1. (IInv /\ expert \in BOOLEAN => DueIsDrawn)'
    BY NextItemsAreDue, PTL
  <2> QED
    BY <2>1
<1> DEFINE n == NumItems(screen, parsed)'
           item(i) == Item(screen, parsed, tx_buffer, i)'
<1>2. /\ n \in Nat \ {0}
      /\ Due(screen, tx_buffer)' = {<<i, item(i)>> : i \in 0..n - 1}
  BY <1>1 DEF DueIsDrawn
<1>3. itemCount' = n /\ cursor' = 0 /\ drawn' = {<<0, item(0)>>}
  BY DEF ShowFirst, NumItems, Item
<1> HIDE DEF n, item
<1>4. 0 \in 0..n - 1 /\ 0 \in 0..n /\ 0..0 = {0}
  BY <1>2
<1>5. drawn' \subseteq Due(screen, tx_buffer)'
  BY <1>2, <1>3, <1>4
<1>6. ReadSoFar'
  BY <1>3, <1>4 DEF ReadSoFar, n, item
<1> QED
  BY <1>5, <1>6 DEF AppInv, DrawnIsSignable
\* A step under the lock leaves everything the items are computed from alone.
LEMMA KeptStep ==
  ASSUME AppInv, IInv', [Next]_vars, screen \in FlareSigning, screen' = screen,
         expert' = expert, UNCHANGED reviewVars
  PROVE  AppInv'
<1>1. IInv /\ DrawnIsSignable /\ ReadSoFar /\ expert \in BOOLEAN
  BY DEF AppInv
<1>2. g_review_pending /\ g_review_pending'
  BY <1>1 DEF IInv, ReviewLock, Reviews, Signing
<1>3. tx_buffer' = tx_buffer /\ parsed' = parsed
  BY <1>1, <1>2, FrozenStep
<1>4. Due(screen, tx_buffer)' = Due(screen, tx_buffer)
  BY <1>3 DEF Due
<1>5. DrawnIsSignable'
  BY <1>1, <1>4 DEF DrawnIsSignable, reviewVars
<1>6. NumItems(screen, parsed)' = NumItems(screen, parsed)
      /\ \A i : Item(screen, parsed, tx_buffer, i)' = Item(screen, parsed, tx_buffer, i)
  BY <1>3 DEF NumItems, Item
<1>7. ReadSoFar'
  BY <1>1, <1>6 DEF ReadSoFar, reviewVars
<1> QED
  BY <1>1, <1>5, <1>7 DEF AppInv

\* A page drawn next to the present one.
LEMMA GotoStep ==
  ASSUME AppInv, IInv', NEW i \in {cursor - 1, cursor, cursor + 1}, Goto(i)
  PROVE  AppInv'
<1>1. IInv /\ DrawnIsSignable /\ ReadSoFar /\ expert \in BOOLEAN
  BY DEF AppInv
<1>2. /\ screen \in FlareSigning /\ i \in 0..itemCount /\ cursor' = i
      /\ itemCount' = itemCount /\ expert' = expert /\ UNCHANGED vars
      /\ drawn' = IF i < itemCount
                  THEN drawn \cup {<<i, Item(screen, parsed, tx_buffer, i)>>}
                  ELSE drawn
  BY DEF Goto
<1>3. screen' = screen /\ parsed' = parsed /\ tx_buffer' = tx_buffer
  BY <1>2 DEF vars
<1> DEFINE n == NumItems(screen, parsed)
           item(k) == Item(screen, parsed, tx_buffer, k)
<1>4. /\ n \in Nat \ {0}
      /\ Due(screen, tx_buffer) = {<<k, item(k)>> : k \in 0..n - 1}
  BY <1>1, <1>2, ItemsAreDue DEF DueIsDrawn
<1>5. /\ itemCount = n /\ cursor \in 0..n
      /\ \A k \in 0..cursor : k < n => <<k, item(k)>> \in drawn
  BY <1>1, <1>2 DEF ReadSoFar
<1>6. drawn \subseteq Due(screen, tx_buffer)
  BY <1>1, <1>2 DEF DrawnIsSignable
<1>7. /\ Due(screen, tx_buffer)' = Due(screen, tx_buffer)
      /\ NumItems(screen, parsed)' = n
      /\ \A k : Item(screen, parsed, tx_buffer, k)' = item(k)
  BY <1>2, <1>3 DEF Due, NumItems, Item
<1>8. drawn' = IF i < n THEN drawn \cup {<<i, item(i)>>} ELSE drawn
  BY <1>2, <1>5
<1> HIDE DEF n, item
<1>9. i < n => i \in 0..n - 1
  BY <1>2, <1>4, <1>5
<1>10. drawn' \subseteq Due(screen, tx_buffer)
  BY <1>4, <1>6, <1>8, <1>9
<1>11. ASSUME NEW k \in 0..i, k < n
       PROVE  <<k, item(k)>> \in drawn'
  <2>1. k \in 0..cursor \/ k = i
    BY <1>2, <1>4, <1>5, <1>11
  <2> QED
    BY <1>5, <1>8, <1>11, <2>1
<1>12. ReadSoFar'
  BY <1>2, <1>5, <1>7, <1>11 DEF ReadSoFar
<1>13. DrawnIsSignable'
  BY <1>7, <1>10 DEF DrawnIsSignable
<1> QED
  BY <1>1, <1>2, <1>12, <1>13 DEF AppInv

LEMMA NextAppInv == AppInv /\ [AppNext]_allVars => AppInv'
<1> SUFFICES ASSUME AppInv, [AppNext]_allVars
             PROVE  AppInv'
  OBVIOUS
<1>1. IInv /\ expert \in BOOLEAN
  BY DEF AppInv
<1>2. [Next]_vars /\ IInv'
  BY <1>1, StepOfDispatcher, NextIInv
<1>3. CASE Command
  <2>1. expert' = expert /\ expert' \in BOOLEAN
    BY <1>1, <1>3 DEF Command
  <2>2. CASE screen' \notin FlareSigning
    BY <1>2, <2>1, <2>2, NoReview
  <2>3. CASE screen' \in FlareSigning /\ screen' = screen
    <3>1. UNCHANGED reviewVars
      BY <1>3, <2>3 DEF Command
    <3> QED
      BY <1>2, <2>1, <2>3, <3>1, KeptStep
  <2>4. CASE screen' \in FlareSigning /\ screen' # screen
    <3>1. ShowFirst
      BY <1>3, <2>4 DEF Command
    <3> QED
      BY <1>1, <1>2, <2>1, <2>4, <3>1, FirstStep
  <2> QED
    BY <2>2, <2>3, <2>4
<1>4. CASE PageForward \/ PageBack \/ Redraw
  BY <1>2, <1>4, GotoStep DEF PageForward, PageBack, Redraw
<1>5. CASE Approve \/ DecideOtherwise
  <2>1. Decide /\ expert' = expert
    BY <1>5 DEF Approve, DecideOtherwise, Decide
  <2>2. screen' \notin FlareSigning
    BY <2>1, DecideReleases DEF FlareSigning
  <2> QED
    BY <1>1, <1>2, <2>1, <2>2, NoReview
<1>6. CASE Settings
  <2>1. CASE ToggleExpert
    BY <1>1, <1>2, <2>1, NoReview DEF ToggleExpert, vars, FlareSigning
  <2>2. CASE ToggleBlindsign /\ UNCHANGED <<expert, reviewVars>>
    BY <1>1, <1>2, <2>2, NoReview DEF ToggleBlindsign, screenVars, FlareSigning
  <2>3. CASE (LockDevice \/ UnlockDevice) /\ UNCHANGED <<expert, reviewVars>>
    <3>1. screen' = screen
      BY <2>3 DEF LockDevice, UnlockDevice, screenVars
    <3> QED
      BY <1>1, <1>2, <2>3, <3>1, KeptStep, NoReview
  <2>4. CASE Restart /\ NoItems /\ UNCHANGED expert
    BY <1>1, <1>2, <2>4, NoReview DEF Restart, FlareSigning
  <2> QED
    BY <1>6, <2>1, <2>2, <2>3, <2>4 DEF Settings
<1>7. CASE UNCHANGED allVars
  <2>1. screen' = screen /\ expert' = expert /\ UNCHANGED reviewVars
    BY <1>7 DEF allVars, vars
  <2> QED
    BY <1>1, <1>2, <2>1, KeptStep, NoReview
<1> QED
  BY <1>3, <1>4, <1>5, <1>6, <1>7 DEF AppNext

\* The invariant holds of every reachable state.
THEOREM AppInductiveInvariant == AppSpec => []AppInv
<1>1. AppInit => AppInv
  BY InitIInv DEF AppInit, Init, AppInv, DrawnIsSignable, ReadSoFar, FlareSigning
<1> QED
  BY <1>1, NextAppInv, PTL DEF AppSpec

\* Paging item by item is a refinement of AppDispatcher: what is proved of its
\* specification holds of the reviews as well.
THEOREM ReviewsRefineDispatcher == AppSpec => Spec
<1>1. AppInit => Init
  BY DEF AppInit
<1> QED
  BY <1>1, StepOfDispatcher, PTL DEF AppSpec, Spec

\* Whatever a review has drawn is an item of the document in the buffer.
THEOREM DrawnHolds == AppSpec => []DrawnIsSignable
<1>1. AppInv => DrawnIsSignable
  BY DEF AppInv
<1> QED
  BY <1>1, AppInductiveInvariant, PTL

------------------------------------------------------------------------------
(* What is signed was read *)

\* The approval comes after the last item: then all of them were drawn.
LEMMA AllDrawn ==
  ASSUME AppInv, screen \in FlareSigning, cursor = itemCount
  PROVE  drawn = Due(screen, tx_buffer)
<1> DEFINE n == NumItems(screen, parsed)
           item(k) == Item(screen, parsed, tx_buffer, k)
<1>1. /\ n \in Nat \ {0}
      /\ Due(screen, tx_buffer) = {<<k, item(k)>> : k \in 0..n - 1}
  BY ItemsAreDue DEF AppInv, DueIsDrawn
<1>2. /\ itemCount = n /\ cursor = n
      /\ \A k \in 0..cursor : k < n => <<k, item(k)>> \in drawn
  BY DEF AppInv, ReadSoFar
<1>3. drawn \subseteq Due(screen, tx_buffer)
  BY DEF AppInv, DrawnIsSignable
<1> HIDE DEF n, item
<1>4. \A k \in 0..n - 1 : k \in 0..n /\ k < n
  BY <1>1
<1> QED
  BY <1>1, <1>2, <1>3, <1>4

\* A step that issues a Flare signature approves after the last item.
LEMMA SignatureIsApproval ==
  ASSUME [AppNext]_allVars, issued' # issued, issued' # Nothing,
         screen \in FlareSigning
  PROVE  cursor = itemCount /\ issued'.doc = tx_buffer
<1>1. CASE Command
  BY <1>1, CommandIssuesNothing DEF Command
<1>2. CASE PageForward \/ PageBack \/ Redraw
  BY <1>2 DEF PageForward, PageBack, Redraw, Goto, vars
<1>3. CASE Approve
  <2>1. cursor = itemCount
    BY <1>3 DEF Approve
  <2>2. issued' \in {Nothing, [kind |-> "app_sign", doc |-> tx_buffer, path |-> hdPath],
                     [kind |-> "app_sign_hash", doc |-> tx_buffer, path |-> hdPath]}
    BY <1>3 DEF Approve, app_sign, app_sign_hash, Sign, SignFails
  <2> QED
    BY <2>1, <2>2
<1>4. CASE DecideOtherwise
  BY <1>4 DEF DecideOtherwise, app_reject, app_sign_eth, app_sign_evm_eip191,
              app_reply_address, app_reply_error, Sign, SignFails, Answer,
              FlareSigning
<1>5. CASE Settings
  BY <1>5 DEF Settings, ToggleExpert, ToggleBlindsign, LockDevice, UnlockDevice,
              Restart, vars
<1>6. CASE UNCHANGED allVars
  BY <1>6 DEF allVars, vars
<1> QED
  BY <1>1, <1>2, <1>3, <1>4, <1>5, <1>6 DEF AppNext

\* What you sign was on the screen, all of it and nothing else, however the user
\* paged and whatever the host sent meanwhile.
THEOREM SignedIsRead == AppSpec => SignedWasRead
<1> DEFINE Read == issued' # issued /\ issued' # Nothing /\ screen \in FlareSigning
                     => drawn = Due(screen, issued'.doc)
<1>1. AppInv /\ [AppNext]_allVars => [Read]_allVars
  BY AllDrawn, SignatureIsApproval
<1> QED
  BY <1>1, AppInductiveInvariant, PTL DEF AppSpec, SignedWasRead
================================================================================
