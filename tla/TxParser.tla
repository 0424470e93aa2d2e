------------------------------- MODULE TxParser -------------------------------
(***************************************************************************)
(* The parser of Flare P-chain and C-chain transactions: _read of          *)
(* parser_impl.c with parser_pchain, parser_cchain and the list parsers of *)
(* parser_impl_common.c, run by tx_parse on one document after another.    *)
(*                                                                         *)
(* A document is chosen as it is read: each step picks the values of the   *)
(* next fields on the wire, among legal and illegal ones, then advances    *)
(* the offset or rejects the document.  One step reads a header, a count   *)
(* or one element of a list; within it the code's order of checks has no   *)
(* effect but the error code, which is left out.  Field lengths are those  *)
(* of parser_txdef.h, limits and integer widths are constants.             *)
(***************************************************************************)
EXTENDS Naturals, Sequences, FiniteSets, TxDefinitions

CONSTANTS
    UINT16_MAX,    \* largest buffer length and largest skip
    UINT32_MAX,    \* largest count of a list
    MAX_OUTPUTS,   \* longest list of outputs
    MAX_INPUTS,    \* longest list of inputs
    MAX_MEMO_LEN,  \* longest memo, 256 in the code
    MAX_SHARES,    \* 1000000 in add_permissionless_validator
    BufferLens,    \* the lengths a document can have
    Assets,        \* the asset IDs on the wire
    NoAsset        \* expected_asset_id == NULL

U16_LEN == 2
U32_LEN == 4
U64_LEN == 8
BLOCKCHAIN_ID_LEN == 32
ASSET_ID_LEN == 32
TX_ID_LEN == 32
UTXOINDEX == 4
NONCE_LEN == 8
NODE_ID_LEN == 20
ADDRESS_LEN == 20
LOCKTIME_LEN == 8
POP_LEN == 48 + 96   \* BLS public key and signature of a proof of possession

\* Mutant: room is left for every item but the addresses.
MaxAddrs_NoCap == UINT8_MAX

\* parse_transferable_secp_output: the aggregate address count a list may have.
MaxAddrs == UINT8_MAX - MAX_OUTPUTS - 3

ASSUME ConstantsAssumption ==
    /\ UINT64_MAX \in Nat /\ UINT32_MAX \in Nat /\ UINT16_MAX \in Nat /\ UINT8_MAX \in Nat
    /\ MAX_OUTPUTS \in Nat /\ MAX_INPUTS \in Nat /\ MAX_SHARES \in Nat
    /\ MAX_MEMO_LEN \in 0..UINT32_MAX
    /\ UINT8_MAX <= UINT32_MAX /\ MAX_INPUTS <= UINT32_MAX
    /\ 2 * MAX_OUTPUTS + 3 <= UINT8_MAX
    /\ 8 <= UINT8_MAX                  \* the items of a validator with its hash
    /\ 20 * MAX_OUTPUTS <= UINT16_MAX  \* uint16_t argument of checkAvailableBytes
    /\ BufferLens \subseteq 0..UINT16_MAX
    /\ NoAsset \notin Assets

OutLists == {"base_secp_outs", "secp_outs", "stake_outs"}
InLists  == {"base_secp_ins", "secp_ins"}
Lists    == OutLists \cup InLists \cup {"evm_inputs", "evm_outs"}
Fields   == {"memo", "other chain", "validator", "signer", "shares",
             "validator_rewards_owner", "delegator_rewards_owner"}
Sections == Lists \cup Fields

\* What follows the header, in the order parser_pchain and parser_cchain read it.
Layout(t) ==
    CASE t = "base_tx" -> <<"base_secp_outs", "base_secp_ins", "memo">>
      [] t = "p_export_tx" ->
            <<"base_secp_outs", "base_secp_ins", "memo", "other chain", "secp_outs">>
      [] t = "p_import_tx" ->
            <<"base_secp_outs", "base_secp_ins", "memo", "other chain", "secp_ins">>
      [] t = "add_permissionless_delegator_tx" ->
            <<"base_secp_outs", "base_secp_ins", "memo", "validator", "stake_outs",
              "delegator_rewards_owner">>
      [] t = "add_permissionless_validator_tx" ->
            <<"base_secp_outs", "base_secp_ins", "memo", "validator", "signer",
              "stake_outs", "validator_rewards_owner", "delegator_rewards_owner",
              "shares">>
      [] t = "c_export_tx" -> <<"other chain", "evm_inputs", "secp_outs">>
      [] t = "c_import_tx" -> <<"other chain", "secp_ins", "evm_outs">>

VARIABLES
    status,             \* "idle", "header", "body", "ok" or "error"
    bufferLen,
    offset,
    tx_type,
    todo,               \* the sections still to be read
    left,               \* elements left in the list being read, 0 outside one
    inList,             \* the count of the list at the head of todo was read
    expected_asset_id,
    weight,             \* validator.weight
    obj,                \* per list of tx_obj: its count, addresses and sum
    seen,               \* history: the same, counted without width or limit
    assets,             \* history: the asset IDs of this document
    memo,               \* history: the declared length of the memo, 0 without one
    spent               \* history: the bytes the fields read so far claim to have

ctxVars == <<bufferLen, offset>>
vars == <<status, bufferLen, offset, tx_type, todo, left, inList,
          expected_asset_id, weight, obj, seen, assets, memo, spent>>

Tally == [n: Nat, addrs: Nat, sum: Nat]
Zero  == [l \in Lists |-> [n |-> 0, addrs |-> 0, sum |-> 0]]

Init ==
    /\ status = "idle"
    /\ bufferLen = 0 /\ offset = 0
    /\ tx_type = "base_tx"
    /\ todo = <<>> /\ left = 0 /\ inList = FALSE
    /\ expected_asset_id = NoAsset
    /\ weight = 0
    /\ obj = Zero
    /\ seen = Zero /\ assets = {} /\ memo = 0 /\ spent = 0

------------------------------------------------------------------------------

\* parser_init_context, parser_parse: a new document, which may be empty.
parser_init_context ==
    /\ status \in {"idle", "ok", "error"}
    /\ \E len \in BufferLens :
          /\ bufferLen' = len
          /\ status' = IF len = 0 THEN "error" ELSE "header"
    /\ offset' = 0
    /\ todo' = <<>> /\ left' = 0 /\ inList' = FALSE

\* Mutant: tx_obj is not zeroed.
tx_parse_KeepsObj ==
    /\ parser_init_context
    /\ tx_type' = "base_tx"
    /\ expected_asset_id' = NoAsset
    /\ weight' = 0
    /\ UNCHANGED obj
    /\ seen' = Zero /\ assets' = {} /\ memo' = 0 /\ spent' = 0

\* tx_parse: tx_obj is zeroed before the document is read.
tx_parse ==
    /\ parser_init_context
    /\ tx_type' = "base_tx"
    /\ expected_asset_id' = NoAsset
    /\ weight' = 0
    /\ obj' = Zero
    /\ seen' = Zero /\ assets' = {} /\ memo' = 0 /\ spent' = 0

\* CHECK_ERROR: the first failing check ends the parse.  How far the offset and
\* tx_obj got within the step no longer matters: both are reset by the next parse.
Reject ==
    /\ status' = "error"
    /\ UNCHANGED <<bufferLen, offset, tx_type, todo, left, inList,
                   expected_asset_id, weight, obj, seen, assets, memo, spent>>

\* Mutant: one byte past the end is available.
Avail_OffByOne(size) == offset + size <= bufferLen + 1

\* CTX_CHECK_AVAIL.
Avail(size) == offset + size <= bufferLen

\* CTX_CHECK_AND_ADVANCE past a field, or past several that follow each other.
Advance(size) ==
    /\ offset' = offset + size
    /\ spent' = spent + size
    /\ UNCHANGED <<status, bufferLen, memo>>

HeaderLen == U16_LEN + 2 * U32_LEN + BLOCKCHAIN_ID_LEN

\* parser_verify_codec, parser_map_tx_type, parser_get_network_id and
\* parser_get_chain_id, then the type against the chain's parser.
ReadHeader ==
    /\ status = "header"
    /\ \E codec, network \in {"known", "unknown"},
          t \in TxTypes \cup {"unknown"},
          chain \in {"p_chain", "c_chain", "unknown"} :
          LET ok == /\ Avail(HeaderLen)
                    /\ codec = "known" /\ network = "known"
                    /\ \/ chain = "c_chain" /\ t \in CTypes
                       \/ chain = "p_chain" /\ t \in PTypes
          IN  \/ ~ok /\ Reject
              \/ /\ ok
                 /\ status' = "body"
                 /\ offset' = offset + HeaderLen
                 /\ spent' = spent + HeaderLen
                 /\ tx_type' = t
                 /\ todo' = Layout(t)
                 /\ UNCHANGED <<bufferLen, left, inList, expected_asset_id,
                                weight, obj, seen, assets, memo>>

------------------------------------------------------------------------------
(* Lists: a count, its elements, the end *)

At(section) == status = "body" /\ todo # <<>> /\ Head(todo) = section

NextSection == todo' = Tail(todo)

Limit(l) == IF l \in OutLists \cup {"evm_outs"} THEN MAX_OUTPUTS ELSE MAX_INPUTS

\* The count, and its limit; a C-chain export without inputs is refused.
ReadCount(l) ==
    /\ At(l) /\ ~inList
    /\ \E n \in 0..(Limit(l) + 1) :
          LET ok == /\ Avail(U32_LEN)
                    /\ n <= Limit(l)
                    /\ l = "evm_inputs" => n # 0
          IN  \/ ~ok /\ Reject
              \/ /\ ok
                 /\ Advance(U32_LEN)
                 /\ inList' = TRUE
                 /\ left' = n
                 /\ obj' = [obj EXCEPT ![l].n = n]
                 /\ UNCHANGED <<tx_type, todo, expected_asset_id, weight, seen,
                                assets>>

\* The end of a list.  After the stake outputs the weight must be their sum.
EndList(l) ==
    /\ At(l) /\ inList /\ left = 0
    /\ \/ l = "stake_outs" /\ weight # obj[l].sum /\ Reject
       \/ /\ l = "stake_outs" => weight = obj[l].sum
          /\ inList' = FALSE
          /\ NextSection
          /\ UNCHANGED <<status, ctxVars, tx_type, left, expected_asset_id,
                         weight, obj, seen, assets, memo, spent>>

\* Mutant: only one asset ID is remembered, and none compared.
SameAsset_Any(asset) == asset \in Assets

\* verify_asset_id: the first asset ID is kept, the others must match it.
SameAsset(asset) == expected_asset_id \in {NoAsset, asset}

TakeAsset(asset) ==
    /\ expected_asset_id' =
          IF expected_asset_id = NoAsset THEN asset ELSE expected_asset_id
    /\ assets' = assets \cup {asset}

\* uint64_t addition.
Plus64(x, y) == IF x + y <= UINT64_MAX THEN x + y ELSE x + y - (UINT64_MAX + 1)

NoOverflow(l, amount) == obj[l].sum <= UINT64_MAX - amount

\* One element with an amount and some addresses is added to its list.
AddElement(l, amount, addrs) ==
    /\ left' = left - 1
    /\ obj' = [obj EXCEPT ![l].sum = Plus64(@, amount), ![l].addrs = @ + addrs]
    /\ seen' = [seen EXCEPT ![l].n = @ + 1, ![l].sum = @ + amount,
                            ![l].addrs = @ + addrs]

\* Mutant: the loop runs once too often.
InElement_OneMore(l) == At(l) /\ inList /\ left >= 0

\* Another element of list l is to be read.
InElement(l) == At(l) /\ inList /\ left > 0

OutputLen(n) ==
    ASSET_ID_LEN + U32_LEN + 2 * U64_LEN + 2 * U32_LEN + n * ADDRESS_LEN

\* verify_locktime: TRUE for the base outputs and for a P-chain export.
LocktimeVerified(l) ==
    l = "base_secp_outs" \/ (l = "secp_outs" /\ tx_type = "p_export_tx")

\* One round of parse_transferable_secp_output.
ReadOutput(l) ==
    /\ InElement(l)
    /\ \E asset \in Assets, secp, locked \in BOOLEAN, amount \in 0..UINT64_MAX,
          n, threshold \in 0..(MAX_OUTPUTS + 1) :
          LET ok == /\ SameAsset(asset)
                    /\ secp
                    /\ NoOverflow(l, amount)
                    /\ ~(LocktimeVerified(l) /\ locked)
                    /\ threshold <= n /\ n <= MAX_OUTPUTS
                    /\ Avail(OutputLen(n))
                    /\ obj[l].addrs + n <= MaxAddrs
          IN  \/ ~ok /\ Reject
              \/ /\ ok
                 /\ Advance(OutputLen(n))
                 /\ TakeAsset(asset)
                 /\ AddElement(l, amount, n)
                 /\ UNCHANGED <<tx_type, todo, inList, weight>>

InputLen(n) ==
    TX_ID_LEN + UTXOINDEX + ASSET_ID_LEN + U32_LEN + U64_LEN + U32_LEN + n * U32_LEN

\* One round of parse_transferable_secp_input.
ReadInput(l) ==
    /\ InElement(l)
    /\ \E asset \in Assets, secp \in BOOLEAN, amount \in 0..UINT64_MAX,
          n \in 0..(MAX_OUTPUTS + 1) :
          LET ok == /\ SameAsset(asset)
                    /\ secp
                    /\ NoOverflow(l, amount)
                    /\ U32_LEN * n <= UINT16_MAX /\ n <= MAX_OUTPUTS
                    /\ Avail(InputLen(n))
          IN  \/ ~ok /\ Reject
              \/ /\ ok
                 /\ Advance(InputLen(n))
                 /\ TakeAsset(asset)
                 /\ AddElement(l, amount, 0)
                 /\ UNCHANGED <<tx_type, todo, inList, weight>>

EvmInputLen == ADDRESS_LEN + U64_LEN + ASSET_ID_LEN + NONCE_LEN

\* One round of parse_evm_inputs.
ReadEvmInput ==
    /\ InElement("evm_inputs")
    /\ \E asset \in Assets, amount \in 0..UINT64_MAX :
          LET ok == /\ SameAsset(asset)
                    /\ NoOverflow("evm_inputs", amount)
                    /\ Avail(EvmInputLen)
          IN  \/ ~ok /\ Reject
              \/ /\ ok
                 /\ Advance(EvmInputLen)
                 /\ TakeAsset(asset)
                 /\ AddElement("evm_inputs", amount, 0)
                 /\ UNCHANGED <<tx_type, todo, inList, weight>>

\* One round of parse_evm_output.  The result of the verifyBytes that skips the
\* address is not looked at: when the address is cut off the offset stays and
\* the amount and asset ID are read from there.
ReadEvmOutput ==
    /\ InElement("evm_outs")
    /\ \E asset \in Assets, amount \in 0..UINT64_MAX :
          LET skipped == IF Avail(ADDRESS_LEN) THEN ADDRESS_LEN ELSE 0
              ok == /\ SameAsset(asset)
                    /\ NoOverflow("evm_outs", amount)
                    /\ Avail(skipped + U64_LEN + ASSET_ID_LEN)
          IN  \/ ~ok /\ Reject
              \/ /\ ok
                 /\ offset' = offset + skipped + U64_LEN + ASSET_ID_LEN
                 /\ spent' = spent + ADDRESS_LEN + U64_LEN + ASSET_ID_LEN
                 /\ TakeAsset(asset)
                 /\ AddElement("evm_outs", amount, 0)
                 /\ UNCHANGED <<status, bufferLen, tx_type, todo, inList, weight, memo>>

------------------------------------------------------------------------------
(* The other sections *)

\* Past a section of the given size.
PassField(size) ==
    /\ Advance(size)
    /\ NextSection
    /\ UNCHANGED <<tx_type, left, inList, expected_asset_id, obj, seen, assets>>

\* A section accepted or rejected by a check.
ReadField(section, size, ok) ==
    /\ At(section)
    /\ \/ ~(ok /\ Avail(size)) /\ Reject
       \/ ok /\ Avail(size) /\ PassField(size) /\ UNCHANGED weight

\* The end of parser_base_tx: the memo's length is read and limited, its bytes are
\* not skipped.  What comes next is read from where the memo begins.
ReadMemo ==
    /\ At("memo")
    /\ \E memoLen \in 0..(MAX_MEMO_LEN + 1) :
          LET ok == Avail(U32_LEN) /\ memoLen <= MAX_MEMO_LEN
          IN  \/ ~ok /\ Reject
              \/ /\ ok
                 /\ offset' = offset + U32_LEN
                 /\ spent' = spent + U32_LEN + memoLen
                 /\ memo' = memoLen
                 /\ NextSection
                 /\ UNCHANGED <<status, bufferLen, tx_type, left, inList,
                                expected_asset_id, weight, obj, seen, assets>>

\* The other end of an export or import must be another chain.
ReadOtherChain ==
    \E same \in BOOLEAN : ReadField("other chain", BLOCKCHAIN_ID_LEN, ~same)

ValidatorLen == NODE_ID_LEN + 3 * U64_LEN + BLOCKCHAIN_ID_LEN

\* Node, start and end time, weight and subnet.
ReadValidator ==
    /\ At("validator")
    /\ \E start, end \in 0..1, w \in 0..UINT64_MAX :
          LET ok == start < end /\ Avail(ValidatorLen)
          IN  \/ ~ok /\ Reject
              \/ ok /\ PassField(ValidatorLen) /\ weight' = w

\* An empty signer or a proof of possession.
ReadSigner ==
    \E kind \in {"empty", "proof", "unknown"} :
        ReadField("signer", U32_LEN + (IF kind = "proof" THEN POP_LEN ELSE 0),
                  kind # "unknown")

\* parse_secp_owners_output: one owner, one address.
ReadOwner(section) ==
    \E secp \in BOOLEAN, threshold, n \in 0..2 :
        ReadField(section, U32_LEN + LOCKTIME_LEN + 2 * U32_LEN + n * ADDRESS_LEN,
                  secp /\ threshold = 1 /\ n = 1)

\* delegation_shares.
ReadShares ==
    \E shares \in 0..(MAX_SHARES + 1) :
        ReadField("shares", U32_LEN, shares <= MAX_SHARES)

\* Mutant: bytes may be left over.
Finish_AllowsTrailing ==
    /\ status = "body" /\ todo = <<>>
    /\ status' = "ok"
    /\ UNCHANGED <<bufferLen, offset, tx_type, todo, left, inList,
                   expected_asset_id, weight, obj, seen, assets, memo, spent>>

\* The end of _read: nothing may be left over.
Finish ==
    /\ status = "body" /\ todo = <<>>
    /\ status' = IF offset = bufferLen THEN "ok" ELSE "error"
    /\ UNCHANGED <<bufferLen, offset, tx_type, todo, left, inList,
                   expected_asset_id, weight, obj, seen, assets, memo, spent>>

Parse ==
    \/ ReadHeader
    \/ \E l \in Lists : ReadCount(l) \/ EndList(l)
    \/ \E l \in OutLists : ReadOutput(l)
    \/ \E l \in InLists : ReadInput(l)
    \/ ReadEvmInput \/ ReadEvmOutput
    \/ ReadMemo \/ ReadOtherChain \/ ReadValidator \/ ReadSigner
    \/ \E s \in {"validator_rewards_owner", "delegator_rewards_owner"} : ReadOwner(s)
    \/ ReadShares
    \/ Finish

Next == tx_parse \/ Parse

Spec == Init /\ [][Next]_vars

------------------------------------------------------------------------------
(* getNumItems of parser_impl.c *)

\* The total before it is cut to uint8_t; expert is 1 in expert mode, else 0.
ItemTotal(expert) ==
    CASE tx_type \in {"base_tx", "p_import_tx"} ->
            2 + obj["base_secp_outs"].addrs + obj["base_secp_outs"].n + expert
      [] tx_type \in {"p_export_tx", "c_export_tx"} ->
            2 + obj["secp_outs"].addrs + obj["secp_outs"].n + expert
      [] tx_type = "c_import_tx" -> 2 + 2 * obj["evm_outs"].n + expert
      [] tx_type = "add_permissionless_delegator_tx" -> 6 + expert
      [] tx_type = "add_permissionless_validator_tx" -> 7 + expert

------------------------------------------------------------------------------
(* Properties *)

\* The offset, the counters and the sums stay in their C types: the offset and
\* the buffer's length are uint16_t, the counts of lists and of addresses and
\* the elements left are uint32_t, sums and the weight are uint64_t.  The loop
\* over a list ends at its count and never runs below zero.  The histories seen
\* and spent are numbers without a width, to compare the others with.
TypeOK ==
    /\ status \in {"idle", "header", "body", "ok", "error"}
    /\ bufferLen \in 0..UINT16_MAX
    /\ offset \in 0..UINT16_MAX
    /\ tx_type \in TxTypes
    /\ todo \in Seq(Sections)
    /\ left \in 0..UINT32_MAX
    /\ inList \in BOOLEAN
    /\ expected_asset_id \in Assets \cup {NoAsset}
    /\ weight \in 0..UINT64_MAX
    /\ obj \in [Lists -> [n: 0..UINT32_MAX, addrs: 0..UINT32_MAX, sum: 0..UINT64_MAX]]
    /\ seen \in [Lists -> Tally]
    /\ assets \subseteq Assets
    /\ memo \in 0..MAX_MEMO_LEN
    /\ spent \in Nat

\* The offset never passes the end of the buffer: a read at offset + i stays
\* inside it whatever a document claims to contain.
OffsetInBounds == offset <= bufferLen

\* An accepted document is read to its last byte, and of all that its fields claim
\* to be, only the bytes of the memo are not where the document has them: the skip
\* whose result parse_evm_output ignores is never missed, whereas a memo is never
\* skipped (parser_base_tx), so that with one the fields behind it are not read
\* from where they are.
AcceptedIsAligned ==
    status = "ok" => offset = bufferLen /\ spent = offset + memo

\* The counts and sums the screens and the fee are computed from are those of
\* the document: no uint64_t sum has wrapped, no count is left over from an
\* earlier document, every announced element was read, and the weight shown as
\* the stake is what the stake outputs lock.
TallyIsExact ==
    status = "ok" =>
        /\ obj = seen
        /\ tx_type \in StakingTypes => weight = seen["stake_outs"].sum

\* All amounts of an accepted document are of one asset, as the screens, which
\* label every amount with the native symbol, assume.
OneAsset == status = "ok" => Cardinality(assets) <= 1

\* An accepted document never has more items than a uint8_t counts: getNumItems
\* does not fail, and item indices do not wrap.
ItemsFitInByte == status = "ok" => ItemTotal(1) <= UINT8_MAX
==============================================================================
