------------------------------ MODULE AppReview ------------------------------
(***************************************************************************)
(* The reviews of Flare documents, item by item: AppDispatcher composed    *)
(* with TxItems and the screens.  AppDispatcher takes a document for     *)
(* shown when its review is; here the user pages through the items one at  *)
(* a time, and each of them is computed when it is drawn, from what the    *)
(* globals hold then: the counts and sums from tx_obj, the outputs and the *)
(* hash from the transaction buffer, the number of items from the expert   *)
(* mode.  Between two draws the host can send anything.                    *)
(*                                                                         *)
(* External: view_review_show asks for the number of items once, shows the *)
(* items in order and offers the approval after the last; the user may     *)
(* page back and may reject at any time.                                   *)
(***************************************************************************)
EXTENDS AppDispatcher, TxItems

CONSTANT
    Meaning   \* what each of Transactions says, as a document of TxItems

\* Transactions are what tx_parse accepts, so parser_validate accepts what they
\* say; the expert mode only adds the hash, for which there is room in the item
\* count (TxParser's ItemsFitInByte).
ASSUME MeaningAssumption ==
    /\ DOMAIN Meaning = Transactions
    /\ \A d \in Transactions :
          /\ IsDocument(Meaning[d])
          /\ \A withHash \in BOOLEAN : Validated(Meaning[d], withHash)

VARIABLES
    expert,       \* app_mode_expert
    itemCount,    \* external: the number of items the screens asked for
    cursor,       \* external: the item on the screen, itemCount for the approval
    drawn         \* history: what the review has shown, as <<index, item>>

reviewVars == <<itemCount, cursor, drawn>>
allVars == <<vars, expert, reviewVars>>

------------------------------------------------------------------------------
(* The items *)

HashOf(buffer) == <<"Hash", 0, buffer>>

\* tx_obj holds pointers: the outputs are read from the buffer.
Live(obj, buffer) ==
    [Meaning[obj] EXCEPT !.outs =
        IF buffer \in Transactions THEN Meaning[buffer].outs ELSE <<>>]

\* Mutant: the hash of the expert mode is not counted.
NumItems_WithoutHash(callback, obj) ==
    IF callback = "app_sign_hash" THEN 1
    ELSE IF obj = <<>> THEN 0
    ELSE getNumItems(Meaning[obj], expert) - (IF expert THEN 1 ELSE 0)

\* tx_getNumItems, hash_getNumItems.
NumItems(callback, obj) ==
    IF callback = "app_sign_hash" THEN 1
    ELSE IF obj = <<>> THEN 0 ELSE getNumItems(Meaning[obj], expert)

\* hash_getItem.
hash_getItem(buffer, displayIdx) ==
    IF displayIdx = 0 /\ buffer # <<>> THEN HashOf(buffer) ELSE Failed

\* The item drawn at an index: tx_getItem or hash_getItem.
Item(callback, obj, buffer, displayIdx) ==
    IF callback = "app_sign_hash" THEN hash_getItem(buffer, displayIdx)
    ELSE IF obj = <<>> THEN Failed
    ELSE LET item == tx_getItem(Live(obj, buffer), expert, displayIdx)
         IN  IF item = Hash THEN HashOf(buffer) ELSE item

------------------------------------------------------------------------------
(* Steps of the dispatcher, with what they do to the screens *)

AppInit ==
    /\ Init
    /\ expert \in BOOLEAN
    /\ itemCount = 0 /\ cursor = 0 /\ drawn = {}

NoItems == itemCount' = 0 /\ cursor' = 0 /\ drawn' = {}

\* view_review_init and view_review_show draw the first item at once.
ShowFirst ==
    /\ itemCount' = NumItems(screen', parsed')
    /\ cursor' = 0
    /\ drawn' = {<<0, Item(screen', parsed', tx_buffer', 0)>>}

\* A command: its review, if it opens one, replaces what was on the screen.
Command ==
    /\ handleApdu
    /\ \/ screen' = screen /\ UNCHANGED reviewVars
       \/ screen' # screen /\ screen' \in FlareSigning /\ ShowFirst
       \/ screen' # screen /\ screen' \notin FlareSigning /\ NoItems
    /\ UNCHANGED expert

\* External: a button, or a redraw of the same item.
Goto(i) ==
    /\ screen \in FlareSigning /\ pin
    /\ i \in 0..itemCount
    /\ cursor' = i
    /\ drawn' = IF i < itemCount
                THEN drawn \cup {<<i, Item(screen, parsed, tx_buffer, i)>>}
                ELSE drawn
    /\ UNCHANGED <<itemCount, expert, vars>>

PageForward == Goto(cursor + 1)
PageBack    == cursor > 0 /\ Goto(cursor - 1)
Redraw      == Goto(cursor)

\* The user approves after the last item.
Approve ==
    /\ cursor = itemCount
    /\ app_sign \/ app_sign_hash
    /\ NoItems
    /\ UNCHANGED expert

\* The other answers of the user, and the other screens.
DecideOtherwise ==
    /\ \/ app_reject \/ app_sign_eth \/ app_sign_evm_eip191
       \/ app_reply_address \/ app_reply_error
    /\ NoItems
    /\ UNCHANGED expert

\* External: the settings menu, within reach when no screen is shown.
ToggleExpert ==
    /\ screen = "idle" /\ pin
    /\ expert' = ~expert
    /\ UNCHANGED <<vars, reviewVars>>

Settings ==
    \/ ToggleExpert
    \/ /\ ToggleBlindsign \/ LockDevice \/ UnlockDevice
       /\ UNCHANGED <<expert, reviewVars>>
    \/ Restart /\ NoItems /\ UNCHANGED expert

AppNext ==
    \/ Command
    \/ PageForward \/ PageBack \/ Redraw
    \/ Approve \/ DecideOtherwise
    \/ Settings

AppSpec == AppInit /\ [][AppNext]_allVars

\* A user who comes to an item again and again pages on from it in the end, one
\* who comes to the approval again and again approves, and the other screens are
\* answered; nobody need reject.
AppFairness ==
    /\ WF_allVars(UnlockDevice /\ UNCHANGED <<expert, reviewVars>>)
    /\ \A i \in 0..UINT8_MAX : SF_allVars(cursor = i /\ PageForward)
    /\ SF_allVars(Approve)
    /\ SF_allVars(screen \notin FlareSigning /\ DecideOtherwise)

FairAppSpec == AppSpec /\ AppFairness

------------------------------------------------------------------------------
(* Properties *)

\* The items a review of a document has to show, at their indices.
Due(callback, d) ==
    IF callback = "app_sign_hash" THEN {<<0, HashOf(d)>>}
    ELSE IF d \notin Transactions THEN {}
    ELSE LET items == Items(Meaning[d], expert)
         IN  {<<i - 1, IF items[i] = Hash THEN HashOf(d) ELSE items[i]>> :
                 i \in DOMAIN items}

\* Everything a review has drawn so far, on any of its screens and in whatever
\* order the user paged, is an item of the document the buffer holds now: no draw
\* mixes two documents, fails, or is made untrue by a later command (asserted by
\* fuzz/parser_parse.cpp:46-63 for a document that nobody touches).
DrawnIsSignable ==
    screen \in FlareSigning => drawn \subseteq Due(screen, tx_buffer)

\* A Flare signature is issued only after every item of the very document that is
\* signed was drawn, and nothing else was: TxItems' completeness and the lock
\* of AppDispatcher together.
SignedWasRead ==
    [][issued' # issued /\ issued' # Nothing /\ screen \in FlareSigning =>
         drawn = Due(screen, issued'.doc)]_allVars

\* However the user pages back and forth and whatever the host sends, a review
\* comes to its end and the dispatcher is free again: no item is a dead end, and
\* the approval is always reached (actions.h:38-40).
ReviewEnds == g_review_pending ~> ~g_review_pending
==============================================================================
