------------------------------ MODULE EvmDisplay ------------------------------
(***************************************************************************)
(* The items of an EVM transaction, evm/parser_impl_evm_specific.c.  The   *)
(* number of items depends on the transaction type and on what is empty;   *)
(* the printers shift the item index past the items a transaction does not *)
(* have, one shift after another, before they look it up in a fixed table. *)
(*                                                                         *)
(* The RLP parser, the validation loop and the screens are code of an      *)
(* external library: they call these functions with indices 0, 1, ... and  *)
(* show a transaction all of whose items printed without an error.         *)
(***************************************************************************)
EXTENDS Naturals, Sequences

TxTypes == {"legacy", "eip2930", "eip1559"}

\* What decides which items there are: validateERC20, an empty tx.to or tx.data,
\* and whether the chain has a name.  An ERC20 transfer has a token contract as
\* tx.to and its call as tx.data.
Docs ==
    {d \in [type: TxTypes, erc20: BOOLEAN, to: BOOLEAN, data: BOOLEAN,
            known: BOOLEAN] : d.erc20 => d.to /\ d.data}

NoDoc == [type |-> "legacy", erc20 |-> FALSE, to |-> TRUE, data |-> TRUE,
          known |-> TRUE]

VARIABLES
    doc,
    phase,   \* "idle", "validate", "review"
    idx      \* the item being validated or looked at

vars == <<doc, phase, idx>>

------------------------------------------------------------------------------
(* What the user has to see *)

When(condition, items) == IF condition THEN items ELSE <<>>

Items(d) ==
    LET fees == d.type = "eip1559"
    IN  IF d.erc20
        THEN <<"Receiver", "Contract", "Coin asset", "Amount", "Nonce">>
               \o When(fees, <<"Max Priority Fee", "Max Fee">>)
               \o When(~fees, <<"Gas price">>)
               \o <<"Gas limit", "Value", "Data", "Hash">>
        ELSE When(d.to, <<"To">>) \o <<"Coin asset", "Value">>
               \o When(d.data, <<"Data">>)
               \o When(fees, <<"Max Priority Fee", "Max Fee">>)
               \o <<"Gas limit">>
               \o When(~fees, <<"Gas price">>)
               \o <<"Nonce", "Hash">>

------------------------------------------------------------------------------
(* What the code shows *)

\* legacy and eip2930 have a gas price, eip1559 has two fees instead.
GasPriced(d) == d.type \in {"legacy", "eip2930"}

One(condition) == IF condition THEN 1 ELSE 0

\* getNumItemsEthAppSpecific.
getNumItems(d) ==
    IF d.erc20 THEN (IF GasPriced(d) THEN 10 ELSE 11)
    ELSE (IF GasPriced(d) THEN 6 ELSE 7) + One(d.data) + One(d.to)

Failed == "error"

ItemAt(table, i) == IF i + 1 \in DOMAIN table THEN table[i + 1] ELSE Failed

\* The item i, unless it needs the name of a chain that has none
\* (getNetworkName).
Named(d, item) == IF item = "Coin asset" /\ ~d.known THEN Failed ELSE item

ERC20Table == <<"Receiver", "Contract", "Coin asset", "Amount", "Nonce",
                "Max Priority Fee", "Max Fee", "Gas price", "Gas limit", "Value",
                "Data", "Hash">>

\* printERC20TransferAppSpecific.
printERC20Transfer(d, displayIdx) ==
    LET shift == IF GasPriced(d) THEN 2 * One(displayIdx >= 5)
                                 ELSE One(displayIdx >= 7)
    IN  Named(d, ItemAt(ERC20Table, displayIdx + shift))

GenericTable == <<"To", "Coin asset", "Value", "Data", "Max Priority Fee",
                  "Max Fee", "Gas limit", "Gas price", "Nonce", "Hash">>

\* Mutant: the items from the data on are shifted one too late.
printGeneric_LateShift(d, displayIdx) ==
    LET i == displayIdx + One((displayIdx >= 4 /\ ~d.data) \/ ~d.to)
        j == i + One(~GasPriced(d) /\ i >= 7)
        k == j + 2 * One(GasPriced(d) /\ j >= 4)
    IN  Named(d, ItemAt(GenericTable, k))

\* printGenericAppSpecific.  The first shift is by one even when both the data
\* and the recipient are empty.
printGeneric(d, displayIdx) ==
    LET i == displayIdx + One((displayIdx >= 3 /\ ~d.data) \/ ~d.to)
        j == i + One(~GasPriced(d) /\ i >= 7)
        k == j + 2 * One(GasPriced(d) /\ j >= 4)
    IN  Named(d, ItemAt(GenericTable, k))

\* External: the library picks the printer.
getItem(d, displayIdx) ==
    IF d.erc20 THEN printERC20Transfer(d, displayIdx)
    ELSE printGeneric(d, displayIdx)

------------------------------------------------------------------------------
(* External: validation and review, as in TxDisplay *)

Init == doc = NoDoc /\ phase = "idle" /\ idx = 0

StartValidate ==
    /\ phase = "idle"
    /\ doc' \in Docs
    /\ phase' = "validate" /\ idx' = 0

ValidateItem ==
    /\ phase = "validate" /\ idx < getNumItems(doc)
    /\ IF getItem(doc, idx) = Failed
       THEN doc' = NoDoc /\ phase' = "idle" /\ idx' = 0
       ELSE idx' = idx + 1 /\ UNCHANGED <<doc, phase>>

EndValidate ==
    /\ phase = "validate" /\ idx = getNumItems(doc)
    /\ phase' = "review" /\ idx' = 0
    /\ UNCHANGED doc

Scroll ==
    /\ phase = "review"
    /\ idx' \in {idx - 1, idx + 1} \cap (0..getNumItems(doc) - 1)
    /\ UNCHANGED <<doc, phase>>

EndReview ==
    /\ phase = "review"
    /\ doc' = NoDoc /\ phase' = "idle" /\ idx' = 0

Next == StartValidate \/ ValidateItem \/ EndValidate \/ Scroll \/ EndReview

Spec == Init /\ [][Next]_vars

------------------------------------------------------------------------------
(* Properties *)

\* Each screen of an EVM review shows the item it should: for every transaction
\* type, with the recipient or the data empty, all items of the transaction,
\* each once and in order, ending with the hash, and none it does not have.
\* (With both empty the code shows "Data" and not the hash.)
EvmReviewIsComplete ==
    phase = "review" /\ (doc.to \/ doc.data) =>
        /\ getNumItems(doc) = Len(Items(doc))
        /\ getItem(doc, idx) = Items(doc)[idx + 1]
==============================================================================
