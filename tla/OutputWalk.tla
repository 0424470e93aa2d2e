------------------------------ MODULE OutputWalk ------------------------------
(***************************************************************************)
(* How a screen finds an output in the document.  tx_obj keeps only where  *)
(* a list of outputs starts; to print one amount or one address the        *)
(* printers make a new context over the rest of the document and walk from *)
(* the start of the list, reading address counts on the way                *)
(* (parser_get_secp_output_for_index, parser_get_evm_output_index).        *)
(*                                                                         *)
(* The context has more bytes than are left: one too many, and for base    *)
(* outputs, whose outs_offset is never set, all those before the list too. *)
(* The checks of the walk therefore do not keep it inside the document.    *)
(*                                                                         *)
(* TxItems takes the walk for a function of the outputs                    *)
(* (SecpOutputForIndex, EvmOutputForIndex); here it is the code's walk     *)
(* over positions, and a field read from a wrong position has any value.   *)
(***************************************************************************)
EXTENDS TxItems

CONSTANTS
    MAX_OUTPUTS,
    SecpLists,   \* lists parse_transferable_secp_output accepts: a sequence
                 \*   with the number of addresses of each output
    EvmLists,    \* the lengths of lists parse_evm_output accepts
    Places       \* where a list can be: its start, the bytes after it, and
                 \*   whether outs_offset was set

ASSUME ListsAssumption ==
    /\ MAX_OUTPUTS \in Nat
    /\ \A list \in SecpLists : list \in Seq(0..MAX_OUTPUTS)
    /\ EvmLists \subseteq Nat

ASSUME PlacesAssumption ==
    Places \subseteq [start: Nat, tail: Nat, outs_offset_set: BOOLEAN]

U32_LEN == 4
U64_LEN == 8
ASSET_ID_LEN == 32
ADDRESS_LEN == 20
AMOUNT_OFFSET == ASSET_ID_LEN + 4    \* ASSET_ID_LEN + TYPE_ID_LEN

\* Mutant: ADDRESS_OFFSET, which includes the address count, is skipped.
N_ADDRESS_OFFSET_Long == 8 + 4 + 4

N_ADDRESS_OFFSET == 8 + 4            \* LOCKTIME_LEN + THRESHOLD_LEN

VARIABLES
    kind,        \* "secp" or "evm"
    outs,        \* the list: the number of addresses of each output
    place,
    wanted,      \* inner_displayIdx, or out_index of an EVM output
    pc,          \* "idle", "output", "addresses", "found" or "failed"
    offset,      \* of output_ctx: its buffer starts at the list
    count,
    i,           \* outputs begun
    out_n_addr,  \* addresses of the present output
    j,           \* those of them that were read
    amount_at,   \* the position *amount was last read from, 0 before
    address_at,  \* the position address was last read from, 0 before
    element_idx  \* 0 for the amount of an output, else one of its addresses

docVars == <<kind, outs, place, wanted>>
vars == <<docVars, pc, offset, count, i, out_n_addr, j, amount_at, address_at,
          element_idx>>

------------------------------------------------------------------------------
(* The document: where its fields are *)

SecpLen(n) == AMOUNT_OFFSET + U64_LEN + 8 + 4 + U32_LEN + n * ADDRESS_LEN
EvmLen == ADDRESS_LEN + U64_LEN + ASSET_ID_LEN

\* The bytes of the outputs before the k-th.
Before(k) ==
    IF kind = "evm" THEN (k - 1) * EvmLen
    ELSE Totals([m \in 1..Len(outs) |-> SecpLen(outs[m])], Len(outs))[k - 1]

OutputAt(k) == place.start + Before(k)
ListEnd == OutputAt(Len(outs) + 1)
DocLen  == ListEnd + place.tail

AmountField(k) == OutputAt(k) + (IF kind = "evm" THEN ADDRESS_LEN ELSE AMOUNT_OFFSET)
CountField(k)  == AmountField(k) + U64_LEN + 8 + 4
AddressField(k, e) ==
    IF kind = "evm" THEN OutputAt(k)
    ELSE CountField(k) + U32_LEN + (e - 1) * ADDRESS_LEN

\* The address counts that can be read at a position.
CountsAt(pos) ==
    LET fields == {k \in DOMAIN outs : CountField(k) = pos}
    IN  IF fields = {} THEN 0..(MAX_OUTPUTS + 1) ELSE {outs[k] : k \in fields}

\* The items getNumItems counts for a list of outputs.
NItems(list) == Totals(list, Len(list))[Len(list)] + Len(list)

------------------------------------------------------------------------------
(* The walk *)

\* The bufferLen of output_ctx in the printers.
bufferLen ==
    DocLen - (IF place.outs_offset_set THEN place.start ELSE 0) + 1

Avail(size) == offset + size <= bufferLen

\* A position in the document.
Here(ahead) == place.start + offset + ahead

Init ==
    /\ kind = "secp" /\ outs = <<>> /\ wanted = 0
    /\ place \in Places
    /\ pc = "idle"
    /\ offset = 0 /\ count = 0 /\ i = 0 /\ out_n_addr = 0 /\ j = 0
    /\ amount_at = 0 /\ address_at = 0 /\ element_idx = 0

\* A screen asks for an item of a list: any of those getNumItems counts.
StartWalk ==
    /\ pc \in {"idle", "found", "failed"}
    /\ place' \in Places
    /\ \/ kind' = "secp" /\ outs' \in SecpLists
       \/ kind' = "evm" /\ outs' \in {[k \in 1..n |-> 1] : n \in EvmLists}
    /\ wanted' \in
          0..(IF kind' = "evm" THEN Len(outs') ELSE NItems(outs')) - 1
    /\ pc' = "output"
    /\ offset' = 0 /\ count' = 0 /\ i' = 0 /\ out_n_addr' = 0 /\ j' = 0
    /\ amount_at' = 0 /\ address_at' = 0 /\ element_idx' = 0

\* CHECK_ERROR, and the end of the list without a hit.
Fail ==
    /\ pc' = "failed"
    /\ UNCHANGED <<docVars, offset, count, i, out_n_addr, j, amount_at, address_at,
                   element_idx>>

ToAmount == AMOUNT_OFFSET + U64_LEN
ToCount  == ToAmount + N_ADDRESS_OFFSET + U32_LEN

\* The next output of parser_get_secp_output_for_index: its amount, which may be
\* what is wanted.  What follows the address count depends on the count found.
SecpOutput ==
    /\ kind = "secp" /\ pc = "output"
    /\ IF i = Len(outs) \/ ~Avail(ToAmount) THEN Fail
       ELSE IF count = wanted
       THEN /\ pc' = "found"
            /\ offset' = offset + ToAmount
            /\ amount_at' = Here(AMOUNT_OFFSET)
            /\ element_idx' = 0
            /\ i' = i + 1
            /\ UNCHANGED <<docVars, count, out_n_addr, j, address_at>>
       ELSE \E n \in CountsAt(Here(ToCount - U32_LEN)) :
            IF ~Avail(ToCount) \/ n > MAX_OUTPUTS \/ ~Avail(ToCount + n * ADDRESS_LEN)
            THEN Fail
            ELSE /\ pc' = IF n = 0 THEN "output" ELSE "addresses"
                 /\ offset' = offset + ToCount
                 /\ amount_at' = Here(AMOUNT_OFFSET)
                 /\ count' = count + 1
                 /\ i' = i + 1
                 /\ out_n_addr' = n /\ j' = 0
                 /\ UNCHANGED <<docVars, address_at, element_idx>>

\* Mutant: the loop over the addresses runs once too often.
LastAddress_OneMore == j = out_n_addr

\* The address being read is the last of its output.
LastAddress == j + 1 = out_n_addr

\* Mutant: only amounts are counted.
PassAddress_NotCounted == UNCHANGED count

\* An address that is not wanted counts as an item all the same.
PassAddress == count' = count + 1

\* One address of the present output.
SecpAddress ==
    /\ kind = "secp" /\ pc = "addresses"
    /\ IF ~Avail(ADDRESS_LEN) THEN Fail
       ELSE /\ offset' = offset + ADDRESS_LEN
            /\ address_at' = Here(0)
            /\ j' = j + 1
            /\ \/ /\ count = wanted
                  /\ pc' = "found"
                  /\ element_idx' = j + 1
                  /\ UNCHANGED count
               \/ /\ count # wanted
                  /\ pc' = IF LastAddress THEN "output" ELSE "addresses"
                  /\ PassAddress
                  /\ UNCHANGED element_idx
            /\ UNCHANGED <<docVars, i, out_n_addr, amount_at>>

\* The next output of parser_get_evm_output_index.
EvmOutput ==
    /\ kind = "evm" /\ pc = "output"
    /\ IF i = Len(outs) \/ ~Avail(EvmLen) THEN Fail
       ELSE /\ offset' = offset + EvmLen
            /\ address_at' = Here(0)
            /\ amount_at' = Here(ADDRESS_LEN)
            /\ i' = i + 1
            /\ pc' = IF count = wanted THEN "found" ELSE "output"
            /\ count' = IF count = wanted THEN count ELSE count + 1
            /\ UNCHANGED <<docVars, out_n_addr, j, element_idx>>

Walk == SecpOutput \/ SecpAddress \/ EvmOutput

Next == StartWalk \/ Walk

Spec == Init /\ [][Next]_vars

------------------------------------------------------------------------------
(* Properties *)

\* The loop variables stay within the bounds of their loops, whatever list is
\* walked; positions and the count of items are numbers, which StaysInList and
\* FindsItsField bound further.
TypeOK ==
    /\ kind \in {"secp", "evm"}
    /\ outs \in SecpLists \cup {[k \in 1..n |-> 1] : n \in EvmLists \cup {0}}
    /\ place \in Places
    /\ pc \in {"idle", "output", "addresses", "found", "failed"}
    /\ wanted \in Nat /\ offset \in Nat /\ count \in Nat
    /\ i \in 0..Len(outs)
    /\ out_n_addr \in 0..MAX_OUTPUTS /\ j \in 0..out_n_addr
    /\ amount_at \in Nat /\ address_at \in Nat /\ element_idx \in 0..MAX_OUTPUTS

\* The walk never reads past the list it walks, nor then past the document,
\* although the bound its checks use is larger than what is left of it
\* (tx_pchain.c:249-252 and :494).
StaysInList == place.start + offset <= ListEnd

\* The list as a document of TxItems; amounts and addresses are positions.
Doc == [outs |-> [k \in DOMAIN outs |->
                    [amount |-> AmountField(k),
                     addrs |-> [e \in 1..outs[k] |-> AddressField(k, e)]]]]

\* Every walk for an item the review counts ends at that item: the amount or the
\* address on the screen is read from the field that holds it, in the output that
\* holds it, and the screen is told which of the two it is.  So the walk implements
\* SecpOutputForIndex and EvmOutputForIndex of TxItems.
FindsItsField ==
    /\ pc # "failed"
    /\ pc = "found" /\ kind = "secp" =>
          SecpOutputForIndex(Doc, wanted) =
              IF element_idx = 0 THEN Amount(amount_at)
                                 ELSE To(address_at)
    /\ pc = "found" /\ kind = "evm" =>
          /\ EvmOutputForIndex(Doc, 2 * wanted + 1) = Amount(amount_at)
          /\ EvmOutputForIndex(Doc, 2 * wanted + 2) = To(address_at)
==============================================================================
