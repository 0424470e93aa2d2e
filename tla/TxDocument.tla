------------------------------ MODULE TxDocument ------------------------------
(***************************************************************************)
(* From the bytes to the screens: the parser of TxParser on a document     *)
(* whose outputs are kept, and the transaction of TxItems it leaves.  The  *)
(* parser stores of a list its place, its counts and its sum; the screens  *)
(* take the number of items from the counts, the fee from the sums and the *)
(* outputs from the place.  Here the three meet.                           *)
(***************************************************************************)
EXTENDS TxParser, TxItems

VARIABLE outs    \* history: the outputs with items of their own, as read

docVars == <<vars, outs>>

\* The list each printer shows; the outputs of a staking transaction have no items.
ShownList(t) ==
    CASE t \in {"base_tx", "p_import_tx"} -> {"base_secp_outs"}
      [] t \in {"p_export_tx", "c_export_tx"} -> {"secp_outs"}
      [] t = "c_import_tx" -> {"evm_outs"}
      [] t \in StakingTypes -> {}

\* An EVM output has one address, which is not counted.
AddrsOf(l, n) == IF l = "evm_outs" THEN 1 ELSE n

\* The amount and the addresses of the element this step adds to list l.
NewOutputs(l) ==
    [amount : {seen'[l].sum - seen[l].sum},
     addrs  : [1..AddrsOf(l, seen'[l].addrs - seen[l].addrs) -> Addrs]]

\* The addresses of an output are chosen when it is read.
KeepOutput ==
    LET read == {l \in ShownList(tx_type) : seen'[l].n = seen[l].n + 1}
    IN  IF read = {} THEN UNCHANGED outs
        ELSE \E l \in read : \E out \in NewOutputs(l) : outs' = Append(outs, out)

DocInit == Init /\ outs = <<>>

DocNext ==
    \/ tx_parse /\ outs' = <<>>
    \/ Parse /\ KeepOutput

DocSpec == DocInit /\ [][DocNext]_docVars

------------------------------------------------------------------------------
(* What is left of the document *)

\* What the printers take from tx_obj: the sums that enter the fee of each type.
In  == CASE tx_type = "c_export_tx" -> obj["evm_inputs"].sum
         [] tx_type = "c_import_tx" -> obj["secp_ins"].sum
         [] OTHER -> obj["base_secp_ins"].sum

In2 == IF tx_type = "p_import_tx" THEN obj["secp_ins"].sum ELSE 0

\* Mutant: the base outputs of a staking transaction are not subtracted.
Out_NotStaking == IF tx_type = "p_export_tx" THEN obj["base_secp_outs"].sum ELSE 0

Out == IF tx_type \in {"p_export_tx"} \cup StakingTypes
       THEN obj["base_secp_outs"].sum ELSE 0

\* The weight, which stands for the sum of the stake outputs it was compared with.
StakeSum == IF tx_type \in StakingTypes THEN weight ELSE 0

\* The transaction the screens show; known says whether the other chain or the
\* times can be printed.
Document(known) ==
    [type |-> tx_type, known |-> known, outs |-> outs,
     in |-> In, in2 |-> In2, out |-> Out, stake |-> StakeSum]

------------------------------------------------------------------------------
(* Properties *)

\* What the screens compute from the counts and sums in tx_obj agrees with the
\* outputs of the accepted document: getNumItems, which adds up counts, says how
\* many items the outputs have, with and without the hash, and never fails; the
\* out_sum subtracted for the fee is the sum of the amounts shown.  The
\* transaction is one TxItems is about, so what is proved of its screens holds
\* for what was read.
AcceptedIsDocument ==
    status = "ok" =>
        \A known, withHash \in BOOLEAN :
            LET d == Document(known)
            IN  /\ IsDocument(d)
                /\ getNumItems(d, withHash) = ItemTotal(IF withHash THEN 1 ELSE 0)
                /\ getNumItems(d, withHash) = Len(Items(d, withHash))
                /\ \A l \in ShownList(tx_type) : OutSum(d) = obj[l].sum

\* Of an accepted document that parser_validate lets pass, the screen at each index
\* shows that item of the outputs as they were read.
AcceptedIsShown ==
    status = "ok" =>
        \A known, withHash \in BOOLEAN :
            LET d == Document(known)
            IN  Validated(d, withHash) =>
                    \A i \in 0..getNumItems(d, withHash) - 1 :
                        tx_getItem(d, withHash, i) = Items(d, withHash)[i + 1]

\* The fee of the printers, each with its own choice of lists, is what all inputs
\* of the document leave of all its outputs, those without a screen included: no
\* list of any type is forgotten or counted twice.
FeeIsWhole ==
    status = "ok" =>
        TrueFee(Document(TRUE)) =
            (seen["base_secp_ins"].sum + seen["secp_ins"].sum + seen["evm_inputs"].sum)
          - (seen["base_secp_outs"].sum + seen["secp_outs"].sum
               + seen["stake_outs"].sum + seen["evm_outs"].sum)
================================================================================
