-------------------------------- MODULE TxItems --------------------------------
(***************************************************************************)
(* The items of a parsed P-chain or C-chain transaction, as functions of   *)
(* the transaction.  Nothing is stored per item: every screen walks the    *)
(* outputs again (parser_get_secp_output_for_index) and converts the item  *)
(* index between uint8_t and int8_t on the way (tx_getItem).  Items is     *)
(* what the screens have to show, in order.                                *)
(*                                                                         *)
(* A transaction is described by what tx_obj holds of it: a record with    *)
(*   type   the transaction type                                           *)
(*   outs   the outputs shown, each an amount and addresses                *)
(*   in     in_sum of the base or EVM inputs                               *)
(*   in2    in_sum of what a P-chain import imports, else 0                *)
(*   out    out_sum of base outputs that are not shown, else 0             *)
(*   stake  validator.weight, the sum of the stake outputs                 *)
(*   known  the other chain, or the times, can be printed                  *)
(***************************************************************************)
EXTENDS Naturals, Integers, Sequences, SequencesExt, RunningTotals,
        TxDefinitions

CONSTANT Addrs   \* the addresses of outputs

ASSUME WidthsAssumption == UINT64_MAX \in Nat /\ UINT8_MAX \in Nat

\* What TxParser leaves of an accepted document: numbers of 64 bits, and one
\* address in each EVM output.
IsDocument(d) ==
    /\ d \in [type: TxTypes, known: BOOLEAN,
             outs: Seq([amount: 0..UINT64_MAX, addrs: Seq(Addrs)]),
             in: 0..UINT64_MAX, in2: 0..UINT64_MAX,
             out: 0..UINT64_MAX, stake: 0..UINT64_MAX]
    /\ d.type = "c_import_tx" => \A k \in DOMAIN d.outs : Len(d.outs[k].addrs) = 1

------------------------------------------------------------------------------
(* What the transaction says *)

NOuts(d)  == Len(d.outs)
OutSum(d) == Totals([k \in 1..NOuts(d) |-> d.outs[k].amount], NOuts(d))[NOuts(d)]
NAddrs(d) == Totals([k \in 1..NOuts(d) |-> Len(d.outs[k].addrs)], NOuts(d))[NOuts(d)]

\* An item: its key and what it stands for, a number or a position.
Amount(x)  == <<"Amount", x, "">>
To(a)      == <<"Address", 0, a>>
Fee(x)     == <<"Fee", x, "">>
Stake(x)   == <<"Total stake", x, "">>
Other(key) == <<key, 0, "">>
Hash       == Other("Hash")
NoItem     == Other("?")
Failed     == Other("!")    \* CHECK_ERROR: the item cannot be shown

\* The fee the inputs leave, in unbounded arithmetic.
TrueFee(d) == (d.in + d.in2) - (d.out + d.stake + OutSum(d))

OutputItems(d) ==
    FlattenSeq([k \in 1..NOuts(d) |->
        <<Amount(d.outs[k].amount)>>
          \o [j \in 1..Len(d.outs[k].addrs) |-> To(d.outs[k].addrs[j])]])

Title(d) == Other(CASE d.type \in {"p_export_tx", "c_export_tx"} -> "Export"
                    [] d.type \in {"p_import_tx", "c_import_tx"} -> "Import"
                    [] d.type = "base_tx" -> "Send")

Items(d, withHash) ==
    (IF d.type \in StakingTypes
     THEN <<Other("Validator"), Other("Start time"), Other("End time"),
            Stake(d.stake), Other("Rewards to")>>
          \o (IF d.type = "add_permissionless_validator_tx"
              THEN <<Other("Delegate fee")>> ELSE <<>>)
     ELSE <<Title(d)>> \o OutputItems(d))
    \o <<Fee(TrueFee(d))>>
    \o (IF withHash THEN <<Hash>> ELSE <<>>)

------------------------------------------------------------------------------
(* What the code shows *)

\* getNumItems; 0 is parser_unexpected_number_items.
getNumItems(d, withHash) ==
    LET total ==
            (CASE d.type = "c_import_tx" -> 2 + 2 * NOuts(d)
               [] d.type = "add_permissionless_delegator_tx" -> 6
               [] d.type = "add_permissionless_validator_tx" -> 7
               [] OTHER -> 2 + NAddrs(d) + NOuts(d))
            + (IF withHash THEN 1 ELSE 0)
    IN  IF total > UINT8_MAX THEN 0 ELSE total

\* The item at inner when the first k outputs have counts[k] items: the outputs
\* are passed until the one that has it, element 0 being the amount.
ItemAmong(d, counts, inner) ==
    LET hits == {k \in 1..NOuts(d) : inner - counts[k - 1] <= Len(d.outs[k].addrs)}
        hit  == Min(hits)
        element == inner - counts[hit - 1]
    IN  IF hits = {} THEN NoItem
        ELSE IF element = 0 THEN Amount(d.outs[hit].amount)
        ELSE To(d.outs[hit].addrs[element])

\* Mutant: the amount of an output passed over is not counted.
SecpOutputForIndex_SkipsAmount(d, inner) ==
    ItemAmong(d, Totals([k \in 1..NOuts(d) |-> Len(d.outs[k].addrs)], NOuts(d)), inner)

\* parser_get_secp_output_for_index: walk the outputs counting the items, an
\* amount and some addresses each, until the wanted one.
SecpOutputForIndex(d, inner) ==
    ItemAmong(d, Totals([k \in 1..NOuts(d) |-> 1 + Len(d.outs[k].addrs)], NOuts(d)),
              inner)

\* parser_get_evm_output_index, then the amount or the address of that output.
EvmOutputForIndex(d, displayIdx) ==
    LET out == d.outs[(displayIdx - 1) \div 2 + 1]
    IN  IF (displayIdx - 1) % 2 = 0 THEN Amount(out.amount) ELSE To(out.addrs[1])

\* The fee item, with the checks against overflow and underflow.
FeeItem(d) ==
    LET spent == d.in + d.in2
        paid  == d.out + d.stake + OutSum(d)
    IN  IF spent > UINT64_MAX \/ paid > UINT64_MAX \/ paid > spent
        THEN Failed ELSE Fee(spent - paid)

\* What the printers of the transfers have in common: the title, the given
\* number of output items, the fee and the hash.
PrintTransfer(d, displayIdx, shown, outputItem) ==
    CASE displayIdx = 0 -> IF d.type = "base_tx" \/ d.known THEN Title(d) ELSE Failed
      [] displayIdx # 0 /\ displayIdx <= shown -> outputItem
      [] displayIdx = shown + 1 -> FeeItem(d)
      [] displayIdx = shown + 2 -> Hash
      [] OTHER -> Failed

print_base_tx(d, displayIdx) ==
    PrintTransfer(d, displayIdx, NAddrs(d) + NOuts(d),
                  SecpOutputForIndex(d, displayIdx - 1))

print_p_export_tx(d, displayIdx) ==
    PrintTransfer(d, displayIdx, NAddrs(d) + NOuts(d),
                  SecpOutputForIndex(d, displayIdx - 1))

print_p_import_tx(d, displayIdx) ==
    PrintTransfer(d, displayIdx, NAddrs(d) + NOuts(d),
                  SecpOutputForIndex(d, displayIdx - 1))

print_c_export_tx(d, displayIdx) ==
    PrintTransfer(d, displayIdx, NAddrs(d) + NOuts(d),
                  SecpOutputForIndex(d, displayIdx - 1))

print_c_import_tx(d, displayIdx) ==
    PrintTransfer(d, displayIdx, 2 * NOuts(d), EvmOutputForIndex(d, displayIdx))

\* One printer for delegators and validators, which have one item more.
print_add_permissionless_del_val_tx(d, displayIdx) ==
    LET validator == d.type = "add_permissionless_validator_tx"
    IN  CASE displayIdx = 0 -> Other("Validator")
          [] displayIdx = 1 -> IF d.known THEN Other("Start time") ELSE Failed
          [] displayIdx = 2 -> Other("End time")
          [] displayIdx = 3 -> Stake(d.stake)
          [] displayIdx = 4 -> Other("Rewards to")
          [] displayIdx = 5 -> IF validator THEN Other("Delegate fee") ELSE FeeItem(d)
          [] displayIdx = 6 -> IF validator THEN FeeItem(d) ELSE Hash
          [] displayIdx = 7 -> IF validator THEN Hash ELSE Failed
          [] OTHER -> Failed

\* parser_getItem (_getItemFlr with checkSanity).
parser_getItem(d, withHash, displayIdx) ==
    IF displayIdx >= getNumItems(d, withHash) THEN Failed
    ELSE CASE d.type = "base_tx" -> print_base_tx(d, displayIdx)
           [] d.type = "p_export_tx" -> print_p_export_tx(d, displayIdx)
           [] d.type = "p_import_tx" -> print_p_import_tx(d, displayIdx)
           [] d.type = "c_export_tx" -> print_c_export_tx(d, displayIdx)
           [] d.type = "c_import_tx" -> print_c_import_tx(d, displayIdx)
           [] d.type \in StakingTypes ->
                 print_add_permissionless_del_val_tx(d, displayIdx)

\* parser_validate lets a document pass: it has items, and none of them fails.
Validated(d, withHash) ==
    /\ getNumItems(d, withHash) # 0
    /\ \A i \in 0..getNumItems(d, withHash) - 1 : parser_getItem(d, withHash, i) # Failed

\* The conversions of an item index between the screens (uint8_t), tx_getItem
\* (int8_t) and parser_getItem (uint8_t).
ToInt8(n)  == IF n > UINT8_MAX \div 2 THEN n - (UINT8_MAX + 1) ELSE n
ToUint8(n) == IF n < 0 THEN n + UINT8_MAX + 1 ELSE n

\* tx_getItem.
tx_getItem(d, withHash, i) ==
    LET displayIdx == ToInt8(i)
    IN  IF displayIdx > getNumItems(d, withHash) THEN Failed
        ELSE parser_getItem(d, withHash, ToUint8(displayIdx))
================================================================================
