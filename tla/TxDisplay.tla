------------------------------- MODULE TxDisplay -------------------------------
(***************************************************************************)
(* The review of a parsed P-chain or C-chain transaction: parser_validate  *)
(* walks all its items (TxItems) before the review, then the user scrolls  *)
(* through them.                                                           *)
(***************************************************************************)
EXTENDS TxItems

CONSTANT
    Docs   \* the transactions tx_parse reads, as tx_obj describes them

ASSUME DocsAssumption == Docs # {} /\ \A d \in Docs : IsDocument(d)

VARIABLES
    doc,
    expert,   \* app_mode_expert: the review ends with the hash
    phase,    \* "idle", "validate", "review"
    idx       \* the item parser_validate or the user is at

vars == <<doc, expert, phase, idx>>

------------------------------------------------------------------------------
(* Validation and review *)

NoDoc == CHOOSE d \in Docs : TRUE

Init ==
    /\ doc = NoDoc
    /\ expert \in BOOLEAN
    /\ phase = "idle"
    /\ idx = 0

\* tx_parse read a document and goes on with parser_validate.
StartValidate ==
    /\ phase = "idle"
    /\ doc' \in Docs
    /\ phase' = "validate"
    /\ idx' = 0
    /\ UNCHANGED expert

Idle == doc' = NoDoc /\ phase' = "idle" /\ idx' = 0

\* Mutant: the result of parser_getItem is ignored.
ValidateItem_Ignored ==
    /\ phase = "validate"
    /\ idx < getNumItems(doc, expert)
    /\ idx' = idx + 1
    /\ UNCHANGED <<doc, phase, expert>>

\* One round of parser_validate.
ValidateItem ==
    /\ phase = "validate"
    /\ idx < getNumItems(doc, expert)
    /\ IF parser_getItem(doc, expert, idx) = Failed
       THEN Idle
       ELSE idx' = idx + 1 /\ UNCHANGED <<doc, phase>>
    /\ UNCHANGED expert

\* Mutant: the review starts where the validation ended.
EndValidate_KeepsIndex ==
    /\ phase = "validate"
    /\ idx >= getNumItems(doc, expert)
    /\ IF getNumItems(doc, expert) = 0
       THEN Idle
       ELSE phase' = "review" /\ UNCHANGED <<idx, doc>>
    /\ UNCHANGED expert

\* parser_validate is through, or there is nothing it can number.
EndValidate ==
    /\ phase = "validate"
    /\ idx >= getNumItems(doc, expert)
    /\ IF getNumItems(doc, expert) = 0
       THEN Idle
       ELSE phase' = "review" /\ idx' = 0 /\ UNCHANGED doc
    /\ UNCHANGED expert

\* External: the screens go through the items in both directions.
Scroll ==
    /\ phase = "review"
    /\ idx' \in {idx - 1, idx + 1} \cap (0..getNumItems(doc, expert) - 1)
    /\ UNCHANGED <<doc, expert, phase>>

\* The user approved or rejected.
EndReview ==
    /\ phase = "review"
    /\ Idle
    /\ UNCHANGED expert

\* External: the settings menu, within reach when nothing is reviewed.
ToggleExpert ==
    /\ phase = "idle"
    /\ expert' = ~expert
    /\ UNCHANGED <<doc, phase, idx>>

Next == StartValidate \/ ValidateItem \/ EndValidate \/ Scroll \/ EndReview
          \/ ToggleExpert

Spec == Init /\ [][Next]_vars

------------------------------------------------------------------------------
(* Properties *)

\* The item under way is in the range of its type, and one of the document's
\* items when the user looks at it.
TypeOK ==
    /\ doc \in Docs /\ expert \in BOOLEAN
    /\ phase \in {"idle", "validate", "review"}
    /\ idx \in 0..UINT8_MAX
    /\ phase = "review" => idx < getNumItems(doc, expert)

\* A reviewed transaction has exactly the items it should have, and the screen
\* at each index shows that item: every output amount and address once, in
\* order, the true fee, and the hash in expert mode.  No index is off by one
\* after outputs with no or several addresses, none is lost in int8_t, and no
\* screen fails for an item that parser_validate let pass (asserted by
\* fuzz/parser_parse.cpp:46-63).
ReviewIsComplete ==
    phase = "review" =>
        /\ getNumItems(doc, expert) = Len(Items(doc, expert))
        /\ \A i \in 0..getNumItems(doc, expert) - 1 :
              tx_getItem(doc, expert, i) = Items(doc, expert)[i + 1]

\* The fee on the screen is what the inputs leave: a transaction that pays out
\* more than it spends, or whose totals do not fit in uint64_t, is not reviewed.
FeeIsTrue ==
    phase = "review" =>
        /\ 0 <= TrueFee(doc) /\ TrueFee(doc) <= UINT64_MAX
        /\ doc.in + doc.in2 <= UINT64_MAX
==============================================================================
