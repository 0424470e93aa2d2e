----------------------------- MODULE TxParserProofs -----------------------------
(***************************************************************************)
(* Proofs about TxParser, for every width, limit and set of document       *)
(* lengths and asset IDs: the type invariant and the five invariants       *)
(* MCTxDocument checks on a small instance; and about TxDocument: what the *)
(* parser leaves of an accepted document is what the screens are about.    *)
(***************************************************************************)
EXTENDS TxDocument, TxItemsProofs, FiniteSetTheorems, SequenceTheorems, TLAPS

\* What the steps compute with is numbers.  That they fit their C types follows
\* from the checks, which the other parts of the invariant remember.
InNat ==
    /\ status \in {"idle", "header", "body", "ok", "error"}
    /\ bufferLen \in 0..UINT16_MAX
    /\ offset \in Nat
    /\ tx_type \in TxTypes
    /\ todo \in Seq(Sections)
    /\ left \in Nat
    /\ inList \in BOOLEAN
    /\ expected_asset_id \in Assets \cup {NoAsset}
    /\ weight \in 0..UINT64_MAX
    /\ obj \in [Lists -> Tally]
    /\ seen \in [Lists -> Tally]
    /\ assets \subseteq Assets
    /\ memo \in 0..MAX_MEMO_LEN
    /\ spent \in Nat

\* No skip but the memo's is ever missed: where the address of an EVM output is cut
\* off, the amount and asset ID, which are longer, are not there either.
SpentIsOffset == spent = offset + memo

FinishedIsRead == status = "ok" => offset = bufferLen /\ todo = <<>>

\* verify_asset_id: the asset IDs so far are the expected one, once there is one.
AssetsAreExpected ==
    assets = IF expected_asset_id = NoAsset THEN {} ELSE {expected_asset_id}

HeaderIsFresh ==
    status = "header" =>
        ~inList /\ todo = <<>> /\ obj = Zero /\ seen = Zero /\ memo = 0

\* NoOverflow kept every sum from wrapping.
SumsAreSeen ==
    \A l \in Lists : obj[l].sum = seen[l].sum /\ obj[l].addrs = seen[l].addrs

\* NoOverflow kept every sum within its width.
SumsFit == \A l \in Lists : seen[l].sum <= UINT64_MAX

Reading(l) == inList /\ todo # <<>> /\ Head(todo) = l

\* Of an announced count, what is not yet read is left.
CountsAreSeen ==
    \A l \in Lists : obj[l].n = seen[l].n + (IF Reading(l) THEN left ELSE 0)

\* The lists still to be read have no elements.
UnreadIsEmpty ==
    \A i \in 1..Len(todo) : todo[i] \in Lists /\ ~(i = 1 /\ inList) =>
        obj[todo[i]].n = 0 /\ seen[todo[i]].n = 0

Pending(section) == \E i \in 1..Len(todo) : todo[i] = section

\* There is no memo before it is read.
MemoIsRead == Pending("memo") => memo = 0

\* No section is read twice, and the validator before its stake.
InOrder(sections) ==
    /\ \A i, j \in 1..Len(sections) : sections[i] = sections[j] => i = j
    /\ \A i \in 1..Len(sections) : sections[i] = "validator" =>
          \E j \in i + 1..Len(sections) : sections[j] = "stake_outs"

TodoInOrder == InOrder(todo) /\ (inList => todo # <<>> /\ Head(todo) \in Lists)

\* parse_add_permissionless_...: the weight is compared after the stake outputs
\* and does not change any more.
StakeIsWeight ==
    tx_type \in StakingTypes /\ ~Pending("stake_outs") =>
        weight = obj["stake_outs"].sum

\* The counts have been compared with their limits, the addresses with the cap; only
\* outputs have addresses that are counted.
WithinLimits ==
    /\ \A l \in Lists : obj[l].n <= Limit(l)
    /\ \A l \in OutLists : obj[l].addrs <= MaxAddrs
    /\ \A l \in Lists \ OutLists : obj[l].addrs = 0
    /\ left <= UINT32_MAX

IInv ==
    /\ InNat
    /\ OffsetInBounds /\ SpentIsOffset /\ FinishedIsRead
    /\ AssetsAreExpected
    /\ HeaderIsFresh
    /\ SumsAreSeen /\ SumsFit /\ CountsAreSeen /\ UnreadIsEmpty
    /\ TodoInOrder /\ MemoIsRead /\ StakeIsWeight
    /\ WithinLimits

------------------------------------------------------------------------------
(* The sections of a transaction *)

LEMMA LayoutInOrder ==
  ASSUME NEW t \in TxTypes
  PROVE  /\ Layout(t) \in Seq(Sections)
         /\ InOrder(Layout(t))
         /\ t \in StakingTypes =>
               \E i \in 1..Len(Layout(t)) : Layout(t)[i] = "stake_outs"
<1>1. CASE t = "base_tx"
  <2> DEFINE L ==
        <<"base_secp_outs", "base_secp_ins", "memo">>
  <2>1. Layout(t) = L
    BY <1>1 DEF Layout
  <2>2. L \in Seq(Sections)
    BY DEF Sections, Lists, Fields, OutLists, InLists
  <2>3. /\ Len(L) = 3
        /\ L[1] = "base_secp_outs" /\ L[2] = "base_secp_ins"
        /\ L[3] = "memo"
    OBVIOUS
  <2> HIDE DEF L
  <2>4. Len(L) = 3
    BY <2>3
  <2>5. \A i \in 1..Len(L) : i = 1 \/ i = 2 \/ i = 3
    BY <2>4
  <2>6. \A i, j \in 1..Len(L) : L[i] = L[j] => i = j
    BY <2>3, <2>5
  <2>7. \A i \in 1..Len(L) : L[i] # "validator"
    BY <2>3, <2>5
  <2>8. InOrder(L)
    BY <2>6, <2>7 DEF InOrder
  <2> QED
    BY <1>1, <2>1, <2>2, <2>8 DEF StakingTypes
<1>2. CASE t = "p_export_tx"
  <2> DEFINE L ==
        <<"base_secp_outs", "base_secp_ins", "memo", "other chain",
          "secp_outs">>
  <2>1. Layout(t) = L
    BY <1>2 DEF Layout
  <2>2. L \in Seq(Sections)
    BY DEF Sections, Lists, Fields, OutLists, InLists
  <2>3. /\ Len(L) = 5
        /\ L[1] = "base_secp_outs" /\ L[2] = "base_secp_ins"
        /\ L[3] = "memo" /\ L[4] = "other chain" /\ L[5] = "secp_outs"
    OBVIOUS
  <2> HIDE DEF L
  <2>4. Len(L) = 5
    BY <2>3
  <2>5. \A i \in 1..Len(L) : i = 1 \/ i = 2 \/ i = 3 \/ i = 4 \/ i = 5
    BY <2>4
  <2>6. \A i, j \in 1..Len(L) : L[i] = L[j] => i = j
    BY <2>3, <2>5
  <2>7. \A i \in 1..Len(L) : L[i] # "validator"
    BY <2>3, <2>5
  <2>8. InOrder(L)
    BY <2>6, <2>7 DEF InOrder
  <2> QED
    BY <1>2, <2>1, <2>2, <2>8 DEF StakingTypes
<1>3. CASE t = "p_import_tx"
  <2> DEFINE L ==
        <<"base_secp_outs", "base_secp_ins", "memo", "other chain",
          "secp_ins">>
  <2>1. Layout(t) = L
    BY <1>3 DEF Layout
  <2>2. L \in Seq(Sections)
    BY DEF Sections, Lists, Fields, OutLists, InLists
  <2>3. /\ Len(L) = 5
        /\ L[1] = "base_secp_outs" /\ L[2] = "base_secp_ins"
        /\ L[3] = "memo" /\ L[4] = "other chain" /\ L[5] = "secp_ins"
    OBVIOUS
  <2> HIDE DEF L
  <2>4. Len(L) = 5
    BY <2>3
  <2>5. \A i \in 1..Len(L) : i = 1 \/ i = 2 \/ i = 3 \/ i = 4 \/ i = 5
    BY <2>4
  <2>6. \A i, j \in 1..Len(L) : L[i] = L[j] => i = j
    BY <2>3, <2>5
  <2>7. \A i \in 1..Len(L) : L[i] # "validator"
    BY <2>3, <2>5
  <2>8. InOrder(L)
    BY <2>6, <2>7 DEF InOrder
  <2> QED
    BY <1>3, <2>1, <2>2, <2>8 DEF StakingTypes
<1>4. CASE t = "add_permissionless_delegator_tx"
  <2> DEFINE L ==
        <<"base_secp_outs", "base_secp_ins", "memo", "validator",
          "stake_outs", "delegator_rewards_owner">>
  <2>1. Layout(t) = L
    BY <1>4 DEF Layout
  <2>2. L \in Seq(Sections)
    BY DEF Sections, Lists, Fields, OutLists, InLists
  <2>3. /\ Len(L) = 6
        /\ L[1] = "base_secp_outs" /\ L[2] = "base_secp_ins"
        /\ L[3] = "memo" /\ L[4] = "validator" /\ L[5] = "stake_outs"
        /\ L[6] = "delegator_rewards_owner"
    OBVIOUS
  <2> HIDE DEF L
  <2>4. Len(L) = 6
    BY <2>3
  <2>5. \A i \in 1..Len(L) : i = 1 \/ i = 2 \/ i = 3 \/ i = 4 \/ i = 5 \/ i = 6
    BY <2>4
  <2>6. \A i, j \in 1..Len(L) : L[i] = L[j] => i = j
    BY <2>3, <2>5
  <2>7. \A i \in 1..Len(L) : L[i] = "validator" => i = 4
    BY <2>3, <2>5
  <2>8. 5 \in 4 + 1..Len(L) /\ L[5] = "stake_outs"
    BY <2>3, <2>4
  <2>9. InOrder(L)
    BY <2>6, <2>7, <2>8 DEF InOrder
  <2> QED
    BY <2>1, <2>2, <2>4, <2>8, <2>9
<1>5. CASE t = "add_permissionless_validator_tx"
  <2> DEFINE L ==
        <<"base_secp_outs", "base_secp_ins", "memo", "validator",
          "signer", "stake_outs", "validator_rewards_owner",
          "delegator_rewards_owner", "shares">>
  <2>1. Layout(t) = L
    BY <1>5 DEF Layout
  <2>2. L \in Seq(Sections)
    BY DEF Sections, Lists, Fields, OutLists, InLists
  <2>3. /\ Len(L) = 9
        /\ L[1] = "base_secp_outs" /\ L[2] = "base_secp_ins"
        /\ L[3] = "memo" /\ L[4] = "validator" /\ L[5] = "signer"
        /\ L[6] = "stake_outs" /\ L[7] = "validator_rewards_owner"
        /\ L[8] = "delegator_rewards_owner" /\ L[9] = "shares"
    OBVIOUS
  <2> HIDE DEF L
  <2>4. Len(L) = 9
    BY <2>3
  <2>5. \A i \in 1..Len(L) : i = 1 \/ i = 2 \/ i = 3 \/ i = 4 \/ i = 5 \/ i = 6 \/ i = 7
            \/ i = 8 \/ i = 9
    BY <2>4
  <2>6. \A i, j \in 1..Len(L) : L[i] = L[j] => i = j
    BY <2>3, <2>5
  <2>7. \A i \in 1..Len(L) : L[i] = "validator" => i = 4
    BY <2>3, <2>5
  <2>8. 6 \in 4 + 1..Len(L) /\ L[6] = "stake_outs"
    BY <2>3, <2>4
  <2>9. InOrder(L)
    BY <2>6, <2>7, <2>8 DEF InOrder
  <2> QED
    BY <2>1, <2>2, <2>4, <2>8, <2>9
<1>6. CASE t = "c_export_tx"
  <2> DEFINE L ==
        <<"other chain", "evm_inputs", "secp_outs">>
  <2>1. Layout(t) = L
    BY <1>6 DEF Layout
  <2>2. L \in Seq(Sections)
    BY DEF Sections, Lists, Fields, OutLists, InLists
  <2>3. /\ Len(L) = 3
        /\ L[1] = "other chain" /\ L[2] = "evm_inputs"
        /\ L[3] = "secp_outs"
    OBVIOUS
  <2> HIDE DEF L
  <2>4. Len(L) = 3
    BY <2>3
  <2>5. \A i \in 1..Len(L) : i = 1 \/ i = 2 \/ i = 3
    BY <2>4
  <2>6. \A i, j \in 1..Len(L) : L[i] = L[j] => i = j
    BY <2>3, <2>5
  <2>7. \A i \in 1..Len(L) : L[i] # "validator"
    BY <2>3, <2>5
  <2>8. InOrder(L)
    BY <2>6, <2>7 DEF InOrder
  <2> QED
    BY <1>6, <2>1, <2>2, <2>8 DEF StakingTypes
<1>7. CASE t = "c_import_tx"
  <2> DEFINE L ==
        <<"other chain", "secp_ins", "evm_outs">>
  <2>1. Layout(t) = L
    BY <1>7 DEF Layout
  <2>2. L \in Seq(Sections)
    BY DEF Sections, Lists, Fields, OutLists, InLists
  <2>3. /\ Len(L) = 3
        /\ L[1] = "other chain" /\ L[2] = "secp_ins" /\ L[3] = "evm_outs"
    OBVIOUS
  <2> HIDE DEF L
  <2>4. Len(L) = 3
    BY <2>3
  <2>5. \A i \in 1..Len(L) : i = 1 \/ i = 2 \/ i = 3
    BY <2>4
  <2>6. \A i, j \in 1..Len(L) : L[i] = L[j] => i = j
    BY <2>3, <2>5
  <2>7. \A i \in 1..Len(L) : L[i] # "validator"
    BY <2>3, <2>5
  <2>8. InOrder(L)
    BY <2>6, <2>7 DEF InOrder
  <2> QED
    BY <1>7, <2>1, <2>2, <2>8 DEF StakingTypes
<1> QED
  BY <1>1, <1>2, <1>3, <1>4, <1>5, <1>6, <1>7 DEF TxTypes, CTypes, PTypes

\* What is left after the first section.
LEMMA TailInOrder ==
  ASSUME NEW q \in Seq(Sections), q # <<>>, InOrder(q)
  PROVE  /\ Len(q) \in Nat \ {0} /\ Len(Tail(q)) = Len(q) - 1
         /\ Head(q) = q[1]
         /\ Tail(q) \in Seq(Sections)
         /\ \A i \in 1..Len(Tail(q)) : Tail(q)[i] = q[i + 1] /\ Tail(q)[i] # Head(q)
         /\ InOrder(Tail(q))
<1>1. /\ Len(q) \in Nat \ {0} /\ Len(Tail(q)) = Len(q) - 1
      /\ Head(q) = q[1]
      /\ Tail(q) \in Seq(Sections)
      /\ \A i \in 1..Len(Tail(q)) : Tail(q)[i] = q[i + 1]
  BY HeadTailProperties, EmptySeq
<1>2. \A i \in 1..Len(Tail(q)) : i + 1 \in 1..Len(q) /\ i + 1 # 1 /\ 1 \in 1..Len(q)
  BY <1>1
<1>3. \A i \in 1..Len(Tail(q)) : Tail(q)[i] # Head(q)
  BY <1>1, <1>2 DEF InOrder
<1>4. \A i, j \in 1..Len(Tail(q)) : Tail(q)[i] = Tail(q)[j] => i = j
  BY <1>1, <1>2 DEF InOrder
<1>5. ASSUME NEW i \in 1..Len(Tail(q)), Tail(q)[i] = "validator"
      PROVE  \E j \in i + 1..Len(Tail(q)) : Tail(q)[j] = "stake_outs"
  <2>1. PICK j \in i + 2..Len(q) : q[j] = "stake_outs"
    BY <1>1, <1>2, <1>5 DEF InOrder
  <2>2. j - 1 \in i + 1..Len(Tail(q)) /\ (j - 1) + 1 = j
    BY <1>1, <2>1
  <2> QED
    BY <1>1, <2>1, <2>2
<1> QED
  BY <1>1, <1>3, <1>4, <1>5 DEF InOrder

------------------------------------------------------------------------------
(* The lists of tx_obj *)

LEMMA ZeroIsTally == Zero \in [Lists -> Tally]
BY DEF Zero, Tally

\* A count that is written changes nothing else.
LEMMA Counted ==
  ASSUME NEW f \in [Lists -> Tally], NEW l \in Lists, NEW n \in Nat
  PROVE  LET g == [f EXCEPT ![l].n = n]
         IN  /\ g \in [Lists -> Tally]
             /\ g[l].n = n /\ g[l].addrs = f[l].addrs /\ g[l].sum = f[l].sum
             /\ \A k \in Lists \ {l} : g[k] = f[k]
BY DEF Tally

\* What AddElement does to the list it adds to, and to the others.
LEMMA Added ==
  ASSUME obj \in [Lists -> Tally], seen \in [Lists -> Tally],
         NEW l \in Lists, NEW amount \in 0..UINT64_MAX, NEW addrs \in Nat,
         NoOverflow(l, amount), AddElement(l, amount, addrs)
  PROVE  /\ obj' \in [Lists -> Tally] /\ seen' \in [Lists -> Tally]
         /\ obj'[l].n = obj[l].n /\ seen'[l].n = seen[l].n + 1
         /\ obj'[l].addrs = obj[l].addrs + addrs /\ seen'[l].addrs = seen[l].addrs + addrs
         /\ obj'[l].sum = obj[l].sum + amount /\ seen'[l].sum = seen[l].sum + amount
         /\ \A k \in Lists \ {l} : obj'[k] = obj[k] /\ seen'[k] = seen[k]
<1>1. /\ obj[l] \in Tally /\ seen[l] \in Tally
      /\ UINT64_MAX \in Nat /\ amount \in Nat
  BY ConstantsAssumption
<1>2. obj[l].sum \in Nat /\ obj[l].addrs \in Nat /\ seen[l].sum \in Nat
      /\ seen[l].addrs \in Nat /\ seen[l].n \in Nat /\ obj[l].n \in Nat
  BY <1>1 DEF Tally
<1>3. Plus64(obj[l].sum, amount) = obj[l].sum + amount
  BY <1>1, <1>2 DEF NoOverflow, Plus64
<1>4. /\ obj'[l].n = obj[l].n /\ obj'[l].addrs = obj[l].addrs + addrs
      /\ obj'[l].sum = obj[l].sum + amount
  BY <1>1, <1>3 DEF AddElement, Tally
<1>5. /\ seen'[l].n = seen[l].n + 1 /\ seen'[l].addrs = seen[l].addrs + addrs
      /\ seen'[l].sum = seen[l].sum + amount
  BY <1>1 DEF AddElement, Tally
<1>6. \A k \in Lists \ {l} : obj'[k] = obj[k] /\ seen'[k] = seen[k]
  BY DEF AddElement
<1>7. obj' \in [Lists -> Tally]
  <2>1. obj'[l] = [n |-> obj[l].n, addrs |-> obj[l].addrs + addrs,
                   sum |-> Plus64(obj[l].sum, amount)]
    BY <1>1 DEF AddElement, Tally
  <2>2. obj'[l] \in Tally
    BY <1>1, <1>2, <1>3, <2>1 DEF Tally
  <2>3. obj' = [k \in Lists |-> obj'[k]]
    BY DEF AddElement
  <2> QED
    BY <1>6, <2>2, <2>3
<1>8. seen' \in [Lists -> Tally]
  <2>1. seen'[l] = [n |-> seen[l].n + 1, addrs |-> seen[l].addrs + addrs,
                    sum |-> seen[l].sum + amount]
    BY <1>1 DEF AddElement, Tally
  <2>2. seen'[l] \in Tally
    BY <1>1, <1>2, <2>1 DEF Tally
  <2>3. seen' = [k \in Lists |-> seen'[k]]
    BY DEF AddElement
  <2> QED
    BY <1>6, <2>2, <2>3
<1> QED
  BY <1>1, <1>2, <1>4, <1>5, <1>6, <1>7, <1>8

------------------------------------------------------------------------------
(* Before the lists *)

\* A document of which nothing has been read.
Fresh ==
    /\ bufferLen \in BufferLens \cup {0} /\ offset = 0 /\ spent = 0
    /\ status \in {"idle", "header", "error"}
    /\ tx_type = "base_tx" /\ todo = <<>> /\ left = 0 /\ inList = FALSE
    /\ expected_asset_id = NoAsset /\ weight = 0
    /\ obj = Zero /\ seen = Zero /\ assets = {} /\ memo = 0

LEMMA FreshState == Fresh => IInv
<1> SUFFICES ASSUME Fresh PROVE IInv
  OBVIOUS
<1> USE DEF Fresh
<1>1. /\ bufferLen \in 0..UINT16_MAX /\ 0 \in 0..UINT64_MAX
      /\ 0 <= bufferLen /\ 0 \in 0..MAX_MEMO_LEN /\ 0 <= UINT64_MAX
  BY ConstantsAssumption
<1>2. InNat
  <2>1. todo \in Seq(Sections)
    OBVIOUS
  <2>2. obj \in [Lists -> Tally] /\ seen \in [Lists -> Tally]
    BY ZeroIsTally
  <2>3. tx_type \in TxTypes /\ weight \in 0..UINT64_MAX
    BY <1>1 DEF TxTypes, PTypes
  <2> QED
    BY <1>1, <2>1, <2>2, <2>3 DEF InNat
<1>3. OffsetInBounds /\ SpentIsOffset /\ FinishedIsRead /\ AssetsAreExpected
         /\ HeaderIsFresh
  BY <1>1 DEF OffsetInBounds, SpentIsOffset, FinishedIsRead, AssetsAreExpected,
              HeaderIsFresh
<1>4. SumsAreSeen /\ SumsFit /\ CountsAreSeen
  BY <1>1 DEF SumsAreSeen, SumsFit, CountsAreSeen, Zero, Reading
<1>5. UnreadIsEmpty /\ TodoInOrder /\ MemoIsRead /\ StakeIsWeight
  BY DEF UnreadIsEmpty, TodoInOrder, InOrder, MemoIsRead, StakeIsWeight, StakingTypes
<1>6. WithinLimits
  <2>1. /\ 0 <= MAX_OUTPUTS /\ 0 <= MAX_INPUTS /\ 0 <= MaxAddrs /\ 0 <= UINT32_MAX
    BY ConstantsAssumption DEF MaxAddrs
  <2> QED
    BY <2>1 DEF WithinLimits, Zero, Limit, Lists
<1> QED
  BY <1>2, <1>3, <1>4, <1>5, <1>6 DEF IInv

LEMMA InitIInv == Init => IInv
BY FreshState DEF Init, Fresh

\* After tx_parse nothing has been read of the new document.
LEMMA ParseStep == tx_parse => IInv'
<1>1. tx_parse => Fresh'
  BY DEF tx_parse, parser_init_context, Fresh
<1>2. Fresh' => IInv'
  BY FreshState, PTL
<1> QED
  BY <1>1, <1>2

LEMMA RejectStep ==
  ASSUME IInv, Reject
  PROVE  IInv'
<1> USE DEF Reject
<1>1. InNat'
  BY DEF IInv, InNat
<1>2. (OffsetInBounds /\ SpentIsOffset /\ FinishedIsRead /\ AssetsAreExpected
         /\ HeaderIsFresh)'
  BY DEF IInv, OffsetInBounds, SpentIsOffset, FinishedIsRead, AssetsAreExpected,
         HeaderIsFresh
<1>3. (SumsAreSeen /\ SumsFit /\ CountsAreSeen /\ UnreadIsEmpty)'
  BY DEF IInv, SumsAreSeen, SumsFit, CountsAreSeen, Reading, UnreadIsEmpty
<1>4. (TodoInOrder /\ MemoIsRead /\ StakeIsWeight /\ WithinLimits)'
  BY DEF IInv, TodoInOrder, MemoIsRead, StakeIsWeight, Pending, WithinLimits
<1> QED
  BY <1>1, <1>2, <1>3, <1>4 DEF IInv

LEMMA HeaderStep ==
  ASSUME IInv, ReadHeader
  PROVE  IInv'
<1>1. CASE Reject
  BY <1>1, RejectStep
<1>2. CASE ~Reject
  <2>1. PICK t \in TxTypes :
           /\ status = "header" /\ status' = "body"
           /\ Avail(HeaderLen)
           /\ offset' = offset + HeaderLen /\ spent' = spent + HeaderLen
           /\ tx_type' = t /\ todo' = Layout(t)
           /\ UNCHANGED <<bufferLen, left, inList, expected_asset_id, weight, obj,
                          seen, assets, memo>>
    BY <1>2 DEF ReadHeader, TxTypes
  <2> DEFINE L == Layout(t)
  <2>2. /\ obj = Zero /\ seen = Zero /\ memo = 0 /\ ~inList /\ inList \in BOOLEAN
        /\ obj \in [Lists -> Tally] /\ seen \in [Lists -> Tally]
    BY <2>1 DEF IInv, HeaderIsFresh, InNat
  <2>3. /\ L \in Seq(Sections) /\ InOrder(L)
        /\ t \in StakingTypes => \E i \in 1..Len(L) : L[i] = "stake_outs"
    BY LayoutInOrder
  <2> HIDE DEF L
  <2>4. todo' = L /\ ~inList' /\ inList' \in BOOLEAN
    BY <2>1, <2>2 DEF L
  <2>5. /\ offset \in Nat /\ spent = offset + memo /\ memo = 0
        /\ offset + HeaderLen \in Nat /\ spent + HeaderLen = offset + HeaderLen
    BY <2>2 DEF IInv, InNat, SpentIsOffset, HeaderLen, U16_LEN, U32_LEN,
           BLOCKCHAIN_ID_LEN
  <2>6. InNat'
    BY <2>1, <2>3, <2>4, <2>5 DEF IInv, InNat
  <2>7. (OffsetInBounds /\ SpentIsOffset /\ FinishedIsRead /\ AssetsAreExpected
           /\ HeaderIsFresh)'
    BY <2>1, <2>5 DEF IInv, OffsetInBounds, SpentIsOffset, FinishedIsRead,
                      AssetsAreExpected, HeaderIsFresh, Avail
  <2>8. (SumsAreSeen /\ SumsFit /\ CountsAreSeen)'
    BY <2>1, <2>2, <2>4 DEF IInv, SumsAreSeen, SumsFit, CountsAreSeen, Zero, Reading
  <2>9. UnreadIsEmpty'
    BY <2>1, <2>2 DEF UnreadIsEmpty, Zero
  <2>10. (TodoInOrder /\ MemoIsRead /\ StakeIsWeight)'
    BY <2>1, <2>2, <2>3, <2>4 DEF TodoInOrder, MemoIsRead, StakeIsWeight, Pending
  <2>11. WithinLimits'
    BY <2>1 DEF IInv, WithinLimits
  <2> QED
    BY <2>6, <2>7, <2>8, <2>9, <2>10, <2>11 DEF IInv
<1> QED
  BY <1>1, <1>2

------------------------------------------------------------------------------
(* Lists *)

\* The section being read is the first, and no other section equals it.
LEMMA AtHead ==
  ASSUME IInv, NEW section, At(section)
  PROVE  /\ todo \in Seq(Sections) /\ todo # <<>>
         /\ Len(todo) \in Nat /\ 1 \in 1..Len(todo)
         /\ todo[1] = section /\ Head(todo) = section
         /\ \A i \in 1..Len(todo) : i # 1 => todo[i] # section
<1>1. todo \in Seq(Sections) /\ todo # <<>> /\ InOrder(todo) /\ Head(todo) = section
  BY DEF IInv, InNat, TodoInOrder, At
<1>2. Len(todo) \in Nat \ {0} /\ Head(todo) = todo[1]
  BY <1>1, TailInOrder
<1> QED
  BY <1>1, <1>2 DEF InOrder

LEMMA LimitIsNat == \A l \in Lists : Limit(l) \in Nat /\ Limit(l) <= UINT32_MAX
BY ConstantsAssumption DEF Limit

\* A field read from where it is: as many bytes as it claims to have.
LEMMA SpentAdvances ==
  ASSUME IInv, NEW size \in Nat, Advance(size)
  PROVE  SpentIsOffset'
<1>1. offset \in Nat /\ memo \in Nat /\ spent = offset + memo
  BY ConstantsAssumption DEF IInv, InNat, SpentIsOffset
<1>2. offset' = offset + size /\ spent' = spent + size /\ memo' = memo
  BY DEF Advance
<1> QED
  BY <1>1, <1>2 DEF SpentIsOffset

LEMMA CountStep ==
  ASSUME IInv, NEW l \in Lists, ReadCount(l)
  PROVE  IInv'
<1>1. CASE Reject
  BY <1>1, RejectStep
<1>2. CASE ~Reject
  <2>1. PICK n \in 0..Limit(l) :
           /\ Avail(U32_LEN) /\ Advance(U32_LEN)
           /\ inList' = TRUE /\ left' = n
           /\ obj' = [obj EXCEPT ![l].n = n]
           /\ UNCHANGED <<tx_type, todo, expected_asset_id, weight, seen, assets>>
    BY <1>2, LimitIsNat DEF ReadCount
  <2>2. At(l) /\ ~inList /\ status = "body"
    BY DEF ReadCount, At
  <2>3. n \in Nat /\ n <= Limit(l)
    BY <2>1, LimitIsNat
  <2>4. obj \in [Lists -> Tally] /\ seen \in [Lists -> Tally]
    BY DEF IInv, InNat
  <2>5. /\ obj' \in [Lists -> Tally]
        /\ obj'[l].n = n /\ obj'[l].addrs = obj[l].addrs
        /\ obj'[l].sum = obj[l].sum
        /\ \A k \in Lists \ {l} : obj'[k] = obj[k]
    BY <2>1, <2>3, <2>4, Counted
  <2>6. /\ todo' = todo /\ todo # <<>> /\ Head(todo) = l
        /\ 1 \in 1..Len(todo) /\ todo[1] = l
        /\ \A i \in 1..Len(todo) : i # 1 => todo[i] # l
    BY <2>1, <2>2, AtHead
  <2>7. InNat' /\ SpentIsOffset'
    <3>1. InNat'
      BY <2>1, <2>3, <2>5 DEF IInv, InNat, Advance, U32_LEN
    <3> QED
      BY <2>1, <3>1, SpentAdvances DEF U32_LEN
  <2>8. (OffsetInBounds /\ FinishedIsRead /\ AssetsAreExpected
           /\ HeaderIsFresh)'
    BY <2>1, <2>2 DEF IInv, OffsetInBounds, FinishedIsRead, AssetsAreExpected,
                      HeaderIsFresh, Avail, Advance
  <2>9. (SumsAreSeen /\ SumsFit)'
    BY <2>1, <2>5 DEF IInv, SumsAreSeen, SumsFit
  <2>10. CountsAreSeen'
    <3>1. seen[l].n = 0
      BY <2>2, <2>6 DEF IInv, UnreadIsEmpty
    <3>2. Reading(l)' /\ \A k \in Lists \ {l} : ~Reading(k)' /\ ~Reading(k)
      BY <2>1, <2>2, <2>6 DEF Reading
    <3>3. \A k \in Lists : ~Reading(k)
      BY <2>2 DEF Reading
    <3>4. \A k \in Lists : obj[k].n = seen[k].n + 0
      BY <3>3 DEF IInv, CountsAreSeen
    <3>5. obj'[l].n = seen'[l].n + left'
      BY <2>1, <2>3, <2>5, <3>1
    <3>6. \A k \in Lists \ {l} : obj'[k].n = seen'[k].n + 0
      BY <2>1, <2>5, <3>4
    <3> QED
      BY <3>2, <3>5, <3>6 DEF CountsAreSeen
  <2>11. UnreadIsEmpty'
    BY <2>1, <2>5, <2>6 DEF IInv, UnreadIsEmpty
  <2>12. (TodoInOrder /\ MemoIsRead /\ StakeIsWeight)'
    BY <2>1, <2>5, <2>6 DEF IInv, TodoInOrder, MemoIsRead, StakeIsWeight, Pending,
                            Advance, Lists, OutLists
  <2>13. WithinLimits'
    <3>1. \A k \in Lists : obj'[k].n <= Limit(k)
      BY <2>3, <2>5 DEF IInv, WithinLimits
    <3>2. /\ \A k \in OutLists : obj'[k].addrs <= MaxAddrs
          /\ \A k \in Lists \ OutLists : obj'[k].addrs = 0
      BY <2>5 DEF IInv, WithinLimits, Lists
    <3>3. left' <= UINT32_MAX
      BY <2>1, <2>3, LimitIsNat, ConstantsAssumption
    <3> QED
      BY <3>1, <3>2, <3>3 DEF WithinLimits
  <2> QED
    BY <2>7, <2>8, <2>9, <2>10, <2>11, <2>12, <2>13 DEF IInv
<1> QED
  BY <1>1, <1>2

LEMMA EndListStep ==
  ASSUME IInv, NEW l \in Lists, EndList(l)
  PROVE  IInv'
<1>1. CASE Reject
  BY <1>1, RejectStep
<1>2. CASE ~Reject
  <2>1. /\ l = "stake_outs" => weight = obj[l].sum
        /\ inList' = FALSE
        /\ todo' = Tail(todo)
        /\ UNCHANGED <<status, bufferLen, offset, tx_type, left,
                       expected_asset_id, weight, obj, seen, assets, memo, spent>>
    BY <1>2 DEF EndList, NextSection, ctxVars
  <2>2. At(l) /\ status = "body" /\ inList /\ left = 0
    BY DEF EndList, At
  <2>3. /\ todo \in Seq(Sections) /\ todo # <<>> /\ Head(todo) = l
        /\ InOrder(todo)
    BY <2>2, AtHead DEF IInv, TodoInOrder
  <2>4. /\ Len(todo) \in Nat \ {0} /\ Len(todo') = Len(todo) - 1
        /\ todo[1] = l
        /\ todo' \in Seq(Sections)
        /\ \A i \in 1..Len(todo') : todo'[i] = todo[i + 1]
        /\ InOrder(todo')
    BY <2>1, <2>3, TailInOrder
  <2>5. InNat'
    BY <2>1, <2>4 DEF IInv, InNat
  <2>6. (OffsetInBounds /\ SpentIsOffset /\ FinishedIsRead /\ AssetsAreExpected
           /\ HeaderIsFresh)'
    BY <2>1, <2>2 DEF IInv, OffsetInBounds, SpentIsOffset, FinishedIsRead,
                      AssetsAreExpected, HeaderIsFresh
  <2>7. (SumsAreSeen /\ SumsFit)'
    BY <2>1 DEF IInv, SumsAreSeen, SumsFit
  <2>8. CountsAreSeen'
    BY <2>1, <2>2 DEF IInv, CountsAreSeen, Reading
  <2>9. \A i \in 1..Len(todo') : i + 1 \in 1..Len(todo) /\ i + 1 # 1
    BY <2>4
  <2>10. UnreadIsEmpty'
    BY <2>1, <2>4, <2>9 DEF IInv, UnreadIsEmpty
  <2>11. (TodoInOrder /\ MemoIsRead)'
    BY <2>1, <2>4, <2>9 DEF IInv, TodoInOrder, MemoIsRead, Pending
  <2>12. StakeIsWeight'
    <3>1. SUFFICES ASSUME tx_type \in StakingTypes, ~Pending("stake_outs")'
                   PROVE  weight = obj["stake_outs"].sum
      BY <2>1 DEF StakeIsWeight
    <3>2. CASE l = "stake_outs"
      BY <2>1, <3>2
    <3>3. CASE l # "stake_outs"
      <4>1. ASSUME NEW i \in 1..Len(todo), todo[i] = "stake_outs"
            PROVE  FALSE
        <5>1. i # 1 /\ i - 1 \in 1..Len(todo') /\ (i - 1) + 1 = i
          BY <2>4, <3>3, <4>1
        <5> QED
          BY <2>4, <3>1, <4>1, <5>1 DEF Pending
      <4> QED
        BY <3>1, <4>1 DEF IInv, StakeIsWeight, Pending
    <3> QED
      BY <3>2, <3>3
  <2>13. WithinLimits'
    BY <2>1 DEF IInv, WithinLimits
  <2> QED
    BY <2>5, <2>6, <2>7, <2>8, <2>10, <2>11, <2>12, <2>13 DEF IInv
<1> QED
  BY <1>1, <1>2

\* An element read, of any list: size bytes, an amount and some addresses.
LEMMA ElementStep ==
  ASSUME IInv, NEW l \in Lists, InElement(l),
         NEW asset \in Assets, NEW amount \in 0..UINT64_MAX,
         NEW addrs \in Nat, NEW size \in Nat,
         SameAsset(asset), NoOverflow(l, amount), Avail(size),
         l \in OutLists => obj[l].addrs + addrs <= MaxAddrs,
         l \notin OutLists => addrs = 0,
         Advance(size), TakeAsset(asset), AddElement(l, amount, addrs),
         UNCHANGED <<tx_type, todo, inList, weight>>
  PROVE  IInv'
<1>1. At(l) /\ status = "body" /\ inList /\ left \in Nat /\ left - 1 \in Nat
  BY DEF InElement, At, IInv, InNat
<1>2. /\ todo' = todo /\ todo # <<>> /\ Head(todo) = l
      /\ 1 \in 1..Len(todo) /\ todo[1] = l
      /\ \A i \in 1..Len(todo) : i # 1 => todo[i] # l
  BY <1>1, AtHead
<1>3. obj \in [Lists -> Tally] /\ seen \in [Lists -> Tally]
  BY DEF IInv, InNat
<1>4. /\ obj' \in [Lists -> Tally] /\ seen' \in [Lists -> Tally]
      /\ obj'[l].n = obj[l].n /\ seen'[l].n = seen[l].n + 1
      /\ obj'[l].addrs = obj[l].addrs + addrs /\ seen'[l].addrs = seen[l].addrs + addrs
      /\ obj'[l].sum = obj[l].sum + amount /\ seen'[l].sum = seen[l].sum + amount
      /\ \A k \in Lists \ {l} : obj'[k] = obj[k] /\ seen'[k] = seen[k]
  BY <1>3, Added
<1>5. /\ expected_asset_id' = asset /\ assets' = {asset} /\ asset # NoAsset
      /\ expected_asset_id' \in Assets \cup {NoAsset} /\ assets' \subseteq Assets
  BY ConstantsAssumption DEF TakeAsset, SameAsset, IInv, AssetsAreExpected
<1>6. left' = left - 1
  BY DEF AddElement
<1>7. /\ offset' = offset + size /\ spent' = spent + size
      /\ UNCHANGED <<status, bufferLen, memo>>
  BY DEF Advance
<1>8. InNat'
  BY <1>1, <1>4, <1>5, <1>6, <1>7 DEF IInv, InNat
<1>9. (OffsetInBounds /\ SpentIsOffset /\ FinishedIsRead /\ HeaderIsFresh)'
  BY <1>1, <1>7, SpentAdvances DEF IInv, OffsetInBounds, FinishedIsRead,
                                   HeaderIsFresh, Avail
<1>10. AssetsAreExpected'
  BY <1>5 DEF AssetsAreExpected
<1>11. (SumsAreSeen /\ SumsFit)'
  <2>1. SumsAreSeen'
    BY <1>3, <1>4 DEF IInv, SumsAreSeen
  <2>2. obj[l].sum = seen[l].sum /\ seen[l].sum \in Nat
    BY <1>3 DEF IInv, SumsAreSeen, Tally
  <2>3. seen'[l].sum <= UINT64_MAX
    BY <1>4, <2>2, ConstantsAssumption DEF NoOverflow
  <2>4. SumsFit'
    BY <1>4, <2>3 DEF IInv, SumsFit
  <2> QED
    BY <2>1, <2>4
<1>12. CountsAreSeen'
  <2>1. Reading(l) /\ Reading(l)' /\ \A k \in Lists \ {l} : ~Reading(k)' /\ ~Reading(k)
    BY <1>1, <1>2 DEF Reading
  <2>2. obj[l].n = seen[l].n + left
    BY <2>1 DEF IInv, CountsAreSeen
  <2>3. \A k \in Lists \ {l} : obj[k].n = seen[k].n + 0
    BY <2>1 DEF IInv, CountsAreSeen
  <2>4. seen[l].n \in Nat
    BY <1>3 DEF Tally
  <2>5. obj'[l].n = seen'[l].n + left'
    BY <1>1, <1>4, <1>6, <2>2, <2>4
  <2>6. \A k \in Lists \ {l} : obj'[k].n = seen'[k].n + 0
    BY <1>4, <2>3
  <2> QED
    BY <2>1, <2>5, <2>6 DEF CountsAreSeen
<1>13. UnreadIsEmpty'
  BY <1>1, <1>2, <1>4 DEF IInv, UnreadIsEmpty
<1>14. (TodoInOrder /\ MemoIsRead)'
  BY <1>2, <1>7 DEF IInv, TodoInOrder, MemoIsRead, Pending
<1>15. StakeIsWeight'
  <2>1. CASE l = "stake_outs"
    BY <1>2, <2>1 DEF StakeIsWeight, Pending
  <2>2. CASE l # "stake_outs"
    <3>1. obj'["stake_outs"] = obj["stake_outs"]
      BY <1>4, <2>2 DEF Lists, OutLists
    <3> QED
      BY <1>2, <3>1 DEF IInv, StakeIsWeight, Pending
  <2> QED
    BY <2>1, <2>2
<1>16. WithinLimits'
  <2>1. \A k \in Lists : obj'[k].n <= Limit(k)
    BY <1>4 DEF IInv, WithinLimits
  <2>2. \A k \in OutLists : obj'[k].addrs <= MaxAddrs
    BY <1>4 DEF IInv, WithinLimits, Lists
  <2>3. \A k \in Lists \ OutLists : obj'[k].addrs = 0
    BY <1>4 DEF IInv, WithinLimits
  <2>4. left' <= UINT32_MAX
    BY <1>1, <1>6, ConstantsAssumption DEF IInv, WithinLimits
  <2> QED
    BY <2>1, <2>2, <2>3, <2>4 DEF WithinLimits
<1> QED
  BY <1>8, <1>9, <1>10, <1>11, <1>12, <1>13, <1>14, <1>15, <1>16 DEF IInv

LEMMA OutputStep ==
  ASSUME IInv, NEW l \in OutLists, ReadOutput(l)
  PROVE  IInv'
<1>1. CASE Reject
  BY <1>1, RejectStep
<1>2. CASE ~Reject
  <2>1. PICK asset \in Assets, amount \in 0..UINT64_MAX, n \in 0..(MAX_OUTPUTS + 1) :
           /\ SameAsset(asset) /\ NoOverflow(l, amount) /\ Avail(OutputLen(n))
           /\ obj[l].addrs + n <= MaxAddrs
           /\ Advance(OutputLen(n)) /\ TakeAsset(asset) /\ AddElement(l, amount, n)
           /\ UNCHANGED <<tx_type, todo, inList, weight>>
    BY <1>2 DEF ReadOutput
  <2>2. InElement(l) /\ l \in Lists
    BY DEF ReadOutput, Lists
  <2>3. n \in Nat /\ OutputLen(n) \in Nat
    BY ConstantsAssumption DEF OutputLen, ASSET_ID_LEN, U32_LEN, U64_LEN, ADDRESS_LEN
  <2> QED
    BY <2>1, <2>2, <2>3, ElementStep
<1> QED
  BY <1>1, <1>2

LEMMA InputStep ==
  ASSUME IInv, NEW l \in InLists, ReadInput(l)
  PROVE  IInv'
<1>1. CASE Reject
  BY <1>1, RejectStep
<1>2. CASE ~Reject
  <2>1. PICK asset \in Assets, amount \in 0..UINT64_MAX, n \in 0..(MAX_OUTPUTS + 1) :
           /\ SameAsset(asset) /\ NoOverflow(l, amount) /\ Avail(InputLen(n))
           /\ Advance(InputLen(n)) /\ TakeAsset(asset) /\ AddElement(l, amount, 0)
           /\ UNCHANGED <<tx_type, todo, inList, weight>>
    BY <1>2 DEF ReadInput
  <2>2. InElement(l) /\ l \in Lists /\ l \notin OutLists
    BY DEF ReadInput, Lists, InLists, OutLists
  <2>3. n \in Nat /\ InputLen(n) \in Nat
    BY ConstantsAssumption DEF InputLen, TX_ID_LEN, UTXOINDEX, ASSET_ID_LEN,
                               U32_LEN, U64_LEN
  <2> QED
    BY <2>1, <2>2, <2>3, ElementStep
<1> QED
  BY <1>1, <1>2

LEMMA EvmInputStep ==
  ASSUME IInv, ReadEvmInput
  PROVE  IInv'
<1>1. CASE Reject
  BY <1>1, RejectStep
<1>2. CASE ~Reject
  <2>1. PICK asset \in Assets, amount \in 0..UINT64_MAX :
           /\ SameAsset(asset) /\ NoOverflow("evm_inputs", amount)
           /\ Avail(EvmInputLen)
           /\ Advance(EvmInputLen) /\ TakeAsset(asset)
           /\ AddElement("evm_inputs", amount, 0)
           /\ UNCHANGED <<tx_type, todo, inList, weight>>
    BY <1>2 DEF ReadEvmInput
  <2>2. /\ InElement("evm_inputs") /\ "evm_inputs" \in Lists
        /\ "evm_inputs" \notin OutLists
    BY DEF ReadEvmInput, Lists, OutLists
  <2>3. EvmInputLen \in Nat
    BY DEF EvmInputLen, ADDRESS_LEN, U64_LEN, ASSET_ID_LEN, NONCE_LEN
  <2> QED
    BY <2>1, <2>2, <2>3, ElementStep
<1> QED
  BY <1>1, <1>2

\* Where the address is cut off, so are the longer fields that are checked.
LEMMA EvmOutputStep ==
  ASSUME IInv, ReadEvmOutput
  PROVE  IInv'
<1>1. CASE Reject
  BY <1>1, RejectStep
<1>2. CASE ~Reject
  <2> DEFINE size == ADDRESS_LEN + U64_LEN + ASSET_ID_LEN
             skipped == IF Avail(ADDRESS_LEN) THEN ADDRESS_LEN ELSE 0
  <2>1. PICK asset \in Assets, amount \in 0..UINT64_MAX :
           /\ SameAsset(asset) /\ NoOverflow("evm_outs", amount)
           /\ Avail(skipped + U64_LEN + ASSET_ID_LEN)
           /\ offset' = offset + skipped + U64_LEN + ASSET_ID_LEN
           /\ spent' = spent + ADDRESS_LEN + U64_LEN + ASSET_ID_LEN
           /\ TakeAsset(asset)
           /\ AddElement("evm_outs", amount, 0)
           /\ UNCHANGED <<status, bufferLen, tx_type, todo, inList, weight, memo>>
    BY <1>2 DEF ReadEvmOutput
  <2>2. offset \in Nat /\ spent \in Nat /\ bufferLen \in Nat
    BY ConstantsAssumption DEF IInv, InNat
  <2>3. Avail(ADDRESS_LEN)
    BY <2>1, <2>2 DEF Avail, ADDRESS_LEN, U64_LEN, ASSET_ID_LEN
  <2>4. size \in Nat /\ Avail(size) /\ Advance(size)
    BY <2>1, <2>2, <2>3 DEF Avail, Advance, ADDRESS_LEN, U64_LEN, ASSET_ID_LEN
  <2>5. /\ InElement("evm_outs") /\ "evm_outs" \in Lists
        /\ "evm_outs" \notin OutLists
    BY DEF ReadEvmOutput, Lists, OutLists
  <2> HIDE DEF size, skipped
  <2> QED
    BY <2>1, <2>4, <2>5, ElementStep
<1> QED
  BY <1>1, <1>2

------------------------------------------------------------------------------
(* The other sections *)

\* A section passed.  Only the validator's sets the weight, and the stake
\* outputs, which it is compared with, come after it.  Only the memo's sets the
\* memo, and it is read once.
LEMMA SectionStep ==
  ASSUME IInv, NEW section \in Fields, At(section),
         NEW size \in Nat, Avail(size), NEW m \in 0..MAX_MEMO_LEN,
         offset' = offset + size, memo' = m, spent' + memo = spent + size + m,
         spent' \in Nat,
         NextSection,
         UNCHANGED <<status, bufferLen, tx_type, left, inList, expected_asset_id,
                     obj, seen, assets>>,
         weight' \in 0..UINT64_MAX,
         weight' = weight \/ section = "validator",
         m = memo \/ section = "memo"
  PROVE  IInv'
<1>1. /\ todo \in Seq(Sections) /\ todo # <<>> /\ InOrder(todo)
      /\ Head(todo) = section /\ todo[1] = section
  BY AtHead DEF IInv, TodoInOrder
<1>2. section \notin Lists
  BY DEF Fields, Lists, OutLists, InLists
<1>3. inList = FALSE /\ status = "body"
  BY <1>1, <1>2 DEF IInv, TodoInOrder, InNat, At
<1>4. /\ todo' = Tail(todo)
      /\ offset' = offset + size /\ memo' = m
      /\ UNCHANGED <<status, bufferLen, tx_type, left, inList, expected_asset_id,
                     obj, seen, assets>>
  BY DEF NextSection
<1>5. /\ Len(todo) \in Nat \ {0} /\ Len(todo') = Len(todo) - 1
      /\ todo' \in Seq(Sections)
      /\ \A i \in 1..Len(todo') : todo'[i] = todo[i + 1]
      /\ \A i \in 1..Len(todo') : todo'[i] # section
      /\ InOrder(todo')
  BY <1>1, <1>4, TailInOrder
<1>6. InNat'
  BY <1>4, <1>5 DEF IInv, InNat
<1>7. (OffsetInBounds /\ FinishedIsRead /\ AssetsAreExpected /\ HeaderIsFresh)'
  BY <1>3, <1>4 DEF IInv, OffsetInBounds, FinishedIsRead, AssetsAreExpected,
                    HeaderIsFresh, Avail
<1>8. SpentIsOffset'
  <2>1. spent = offset + memo /\ spent \in Nat /\ offset \in Nat /\ memo \in Nat
    BY ConstantsAssumption DEF IInv, SpentIsOffset, InNat
  <2>2. m \in Nat
    BY ConstantsAssumption
  <2>3. \A x \in Nat : x + memo = offset + memo + size + m => x = offset + size + m
    BY <2>1, <2>2
  <2>4. spent' = offset + size + m
    BY <2>1, <2>3
  <2> QED
    BY <1>4, <2>4 DEF SpentIsOffset
<1>9. (SumsAreSeen /\ SumsFit /\ CountsAreSeen)'
  BY <1>3, <1>4 DEF IInv, SumsAreSeen, SumsFit, CountsAreSeen, Reading
<1>10. \A i \in 1..Len(todo') : i + 1 \in 1..Len(todo) /\ i + 1 # 1
  BY <1>5
<1>11. UnreadIsEmpty'
  BY <1>4, <1>5, <1>10 DEF IInv, UnreadIsEmpty
<1>12. (TodoInOrder /\ MemoIsRead)'
  <2>1. Pending("memo")' => Pending("memo") /\ section # "memo"
    BY <1>5, <1>10 DEF Pending
  <2> QED
    BY <1>3, <1>4, <1>5, <2>1 DEF IInv, TodoInOrder, MemoIsRead
<1>13. \A i \in 1..Len(todo) : i # 1 => i - 1 \in 1..Len(todo') /\ (i - 1) + 1 = i
  BY <1>5
<1>14. Pending("stake_outs") => Pending("stake_outs")'
  <2>1. SUFFICES ASSUME NEW i \in 1..Len(todo), todo[i] = "stake_outs"
                 PROVE  Pending("stake_outs")'
    BY DEF Pending
  <2>2. i # 1
    BY <1>1, <1>2, <2>1 DEF Lists, OutLists
  <2>3. i - 1 \in 1..Len(todo') /\ todo'[i - 1] = "stake_outs"
    BY <1>5, <1>13, <2>1, <2>2
  <2> QED
    BY <2>3 DEF Pending
<1>15. section = "validator" => Pending("stake_outs")'
  <2>1. SUFFICES ASSUME section = "validator" PROVE Pending("stake_outs")
    BY <1>14
  <2>2. PICK j \in 1 + 1..Len(todo) : todo[j] = "stake_outs"
    BY <1>1, <1>5, <2>1 DEF InOrder
  <2> QED
    BY <1>5, <2>2 DEF Pending
<1>16. StakeIsWeight'
  BY <1>4, <1>14, <1>15 DEF IInv, StakeIsWeight
<1>17. WithinLimits'
  BY <1>4 DEF IInv, WithinLimits
<1> QED
  BY <1>6, <1>7, <1>8, <1>9, <1>11, <1>12, <1>16, <1>17 DEF IInv

LEMMA FieldStep ==
  ASSUME IInv, NEW section \in Fields, At(section),
         NEW size \in Nat, Avail(size), PassField(size),
         weight' \in 0..UINT64_MAX,
         weight' = weight \/ section = "validator"
  PROVE  IInv'
<1>1. /\ offset' = offset + size /\ spent' = spent + size /\ memo' = memo
      /\ NextSection
      /\ UNCHANGED <<status, bufferLen, tx_type, left, inList, expected_asset_id,
                     obj, seen, assets>>
  BY DEF PassField, Advance
<1>2. memo \in 0..MAX_MEMO_LEN /\ memo \in Nat /\ spent \in Nat
  BY ConstantsAssumption DEF IInv, InNat
<1>3. spent' + memo = spent + size + memo /\ spent' \in Nat
  BY <1>1, <1>2
<1> QED
  BY <1>1, <1>2, <1>3, SectionStep

\* The memo's bytes are what the offset stays behind.
LEMMA MemoStep ==
  ASSUME IInv, ReadMemo
  PROVE  IInv'
<1>1. CASE Reject
  BY <1>1, RejectStep
<1>2. CASE ~Reject
  <2>1. PICK memoLen \in 0..MAX_MEMO_LEN :
           /\ At("memo") /\ Avail(U32_LEN)
           /\ offset' = offset + U32_LEN /\ spent' = spent + U32_LEN + memoLen
           /\ memo' = memoLen /\ NextSection
           /\ UNCHANGED <<status, bufferLen, tx_type, left, inList,
                          expected_asset_id, weight, obj, seen, assets>>
    BY <1>2, ConstantsAssumption DEF ReadMemo
  <2>2. memo = 0
    BY <2>1, AtHead DEF IInv, MemoIsRead, Pending
  <2>3. spent \in Nat /\ memoLen \in Nat /\ U32_LEN \in Nat
    BY ConstantsAssumption DEF IInv, InNat, U32_LEN
  <2>4. spent' + memo = spent + U32_LEN + memoLen /\ spent' \in Nat
    BY <2>1, <2>2, <2>3
  <2>5. "memo" \in Fields /\ weight' \in 0..UINT64_MAX /\ weight' = weight
    BY <2>1 DEF Fields, IInv, InNat
  <2> QED
    BY <2>1, <2>3, <2>4, <2>5, SectionStep
<1> QED
  BY <1>1, <1>2

\* A section that does not set the weight.
LEMMA ReadFieldStep ==
  ASSUME IInv, NEW section \in Fields, NEW size \in Nat, NEW ok \in BOOLEAN,
         ReadField(section, size, ok)
  PROVE  IInv'
<1>1. CASE Reject
  BY <1>1, RejectStep
<1>2. CASE ~Reject
  BY <1>2, FieldStep DEF ReadField, IInv, InNat
<1> QED
  BY <1>1, <1>2

LEMMA ValidatorStep ==
  ASSUME IInv, ReadValidator
  PROVE  IInv'
<1>1. CASE Reject
  BY <1>1, RejectStep
<1>2. CASE ~Reject
  <2>1. PICK w \in 0..UINT64_MAX :
           At("validator") /\ Avail(ValidatorLen) /\ PassField(ValidatorLen)
             /\ weight' = w
    BY <1>2 DEF ReadValidator
  <2>2. "validator" \in Fields /\ ValidatorLen \in Nat
    BY DEF Fields, ValidatorLen, NODE_ID_LEN, U64_LEN, BLOCKCHAIN_ID_LEN
  <2> QED
    BY <2>1, <2>2, FieldStep
<1> QED
  BY <1>1, <1>2

LEMMA OtherFieldsStep ==
  ASSUME IInv,
         \/ ReadMemo \/ ReadOtherChain \/ ReadSigner \/ ReadShares
         \/ \E s \in {"validator_rewards_owner", "delegator_rewards_owner"} : ReadOwner(s)
  PROVE  IInv'
<1> USE DEF Fields, U32_LEN
<1>1. CASE ReadMemo
  BY <1>1, MemoStep
<1>2. CASE ReadOtherChain
  <2>1. PICK same \in BOOLEAN : ReadField("other chain", BLOCKCHAIN_ID_LEN, ~same)
    BY <1>2 DEF ReadOtherChain
  <2> QED
    BY <2>1, ReadFieldStep DEF BLOCKCHAIN_ID_LEN
<1>3. CASE ReadSigner
  <2>1. PICK kind \in {"empty", "proof", "unknown"} :
           ReadField("signer", U32_LEN + (IF kind = "proof" THEN POP_LEN ELSE 0),
                     kind # "unknown")
    BY <1>3 DEF ReadSigner
  <2>2. U32_LEN + (IF kind = "proof" THEN POP_LEN ELSE 0) \in Nat
    BY DEF POP_LEN
  <2> QED
    BY <2>1, <2>2, ReadFieldStep
<1>4. CASE ReadShares
  <2>1. PICK shares \in 0..(MAX_SHARES + 1) :
           ReadField("shares", U32_LEN, shares <= MAX_SHARES)
    BY <1>4 DEF ReadShares
  <2>2. (shares <= MAX_SHARES) \in BOOLEAN
    OBVIOUS
  <2> QED
    BY <2>1, <2>2, ReadFieldStep
<1>5. ASSUME NEW s \in {"validator_rewards_owner", "delegator_rewards_owner"},
             ReadOwner(s)
      PROVE  IInv'
  <2>1. PICK secp \in BOOLEAN, threshold \in 0..2, n \in 0..2 :
           ReadField(s, U32_LEN + LOCKTIME_LEN + 2 * U32_LEN + n * ADDRESS_LEN,
                     secp /\ threshold = 1 /\ n = 1)
    BY <1>5 DEF ReadOwner
  <2>2. U32_LEN + LOCKTIME_LEN + 2 * U32_LEN + n * ADDRESS_LEN \in Nat
    BY DEF LOCKTIME_LEN, ADDRESS_LEN
  <2> QED
    BY <2>1, <2>2, ReadFieldStep
<1> QED
  BY <1>1, <1>2, <1>3, <1>4, <1>5

LEMMA FinishStep ==
  ASSUME IInv, Finish
  PROVE  IInv'
<1> USE DEF Finish
<1>1. InNat'
  BY DEF IInv, InNat
<1>2. (OffsetInBounds /\ SpentIsOffset /\ FinishedIsRead /\ AssetsAreExpected
         /\ HeaderIsFresh)'
  BY DEF IInv, OffsetInBounds, SpentIsOffset, FinishedIsRead, AssetsAreExpected,
         HeaderIsFresh
<1>3. (SumsAreSeen /\ SumsFit /\ CountsAreSeen /\ UnreadIsEmpty)'
  BY DEF IInv, SumsAreSeen, SumsFit, CountsAreSeen, Reading, UnreadIsEmpty
<1>4. (TodoInOrder /\ MemoIsRead /\ StakeIsWeight /\ WithinLimits)'
  BY DEF IInv, TodoInOrder, MemoIsRead, StakeIsWeight, Pending, WithinLimits
<1> QED
  BY <1>1, <1>2, <1>3, <1>4 DEF IInv

LEMMA StutterStep ==
  ASSUME IInv, UNCHANGED vars
  PROVE  IInv'
<1> USE DEF vars
<1>1. InNat'
  BY DEF IInv, InNat
<1>2. (OffsetInBounds /\ SpentIsOffset /\ FinishedIsRead /\ AssetsAreExpected
         /\ HeaderIsFresh)'
  BY DEF IInv, OffsetInBounds, SpentIsOffset, FinishedIsRead, AssetsAreExpected,
         HeaderIsFresh
<1>3. (SumsAreSeen /\ SumsFit /\ CountsAreSeen /\ UnreadIsEmpty)'
  BY DEF IInv, SumsAreSeen, SumsFit, CountsAreSeen, Reading, UnreadIsEmpty
<1>4. (TodoInOrder /\ MemoIsRead /\ StakeIsWeight /\ WithinLimits)'
  BY DEF IInv, TodoInOrder, MemoIsRead, StakeIsWeight, Pending, WithinLimits
<1> QED
  BY <1>1, <1>2, <1>3, <1>4 DEF IInv

------------------------------------------------------------------------------
(* The invariants *)

LEMMA NextIInv == IInv /\ [Next]_vars => IInv'
<1> SUFFICES ASSUME IInv, [Next]_vars PROVE IInv'
  OBVIOUS
<1>1. CASE tx_parse
  BY <1>1, ParseStep
<1>2. CASE ReadHeader
  BY <1>2, HeaderStep
<1>3. ASSUME NEW l \in Lists, ReadCount(l) \/ EndList(l) PROVE IInv'
  BY <1>3, CountStep, EndListStep
<1>4. ASSUME NEW l \in OutLists, ReadOutput(l) PROVE IInv'
  BY <1>4, OutputStep
<1>5. ASSUME NEW l \in InLists, ReadInput(l) PROVE IInv'
  BY <1>5, InputStep
<1>6. CASE ReadEvmInput
  BY <1>6, EvmInputStep
<1>7. CASE ReadEvmOutput
  BY <1>7, EvmOutputStep
<1>8. CASE ReadValidator
  BY <1>8, ValidatorStep
<1>9. CASE \/ ReadMemo \/ ReadOtherChain \/ ReadSigner \/ ReadShares
           \/ \E s \in {"validator_rewards_owner", "delegator_rewards_owner"} :
                 ReadOwner(s)
  BY <1>9, OtherFieldsStep
<1>10. CASE Finish
  BY <1>10, FinishStep
<1>11. CASE UNCHANGED vars
  BY <1>11, StutterStep
<1> QED
  BY <1>1, <1>2, <1>3, <1>4, <1>5, <1>6, <1>7, <1>8, <1>9, <1>10, <1>11
  DEF Next, Parse

\* Everything below is read off one inductive invariant.
THEOREM InductiveInvariant == Spec => []IInv
BY InitIInv, NextIInv, PTL DEF Spec

\* The checks of the parser keep what it stores within its C types.
LEMMA TypeFollows == IInv => TypeOK
<1> SUFFICES ASSUME IInv PROVE TypeOK
  OBVIOUS
<1>1. InNat /\ OffsetInBounds /\ WithinLimits
  BY DEF IInv
<1>2. offset \in 0..UINT16_MAX
  BY <1>1, ConstantsAssumption DEF InNat, OffsetInBounds
<1>3. left \in 0..UINT32_MAX
  BY <1>1, ConstantsAssumption DEF InNat, WithinLimits
<1>4. obj \in [Lists -> Tally] /\ seen \in [Lists -> Tally]
  BY <1>1 DEF InNat
<1>5. ASSUME NEW l \in Lists
      PROVE  obj[l] \in [n: 0..UINT32_MAX, addrs: 0..UINT32_MAX, sum: 0..UINT64_MAX]
  <2>1. obj[l] \in Tally
    BY <1>4
  <2>2. obj[l].n \in 0..UINT32_MAX
    <3>1. obj[l].n \in Nat /\ obj[l].n <= Limit(l)
      BY <1>1, <2>1 DEF Tally, WithinLimits
    <3> QED
      BY <3>1, LimitIsNat, ConstantsAssumption
  <2>3. obj[l].addrs \in 0..UINT32_MAX
    <3>1. obj[l].addrs \in Nat
      BY <2>1 DEF Tally
    <3>2. obj[l].addrs <= MaxAddrs \/ obj[l].addrs = 0
      BY <1>1 DEF WithinLimits
    <3> QED
      BY <3>1, <3>2, ConstantsAssumption DEF MaxAddrs
  <2>4. obj[l].sum \in 0..UINT64_MAX
    <3>1. obj[l].sum \in Nat /\ obj[l].sum <= UINT64_MAX
      BY <2>1 DEF IInv, SumsAreSeen, SumsFit, Tally
    <3> QED
      BY <3>1, ConstantsAssumption
  <2> QED
    BY <2>1, <2>2, <2>3, <2>4 DEF Tally
<1>6. obj \in [Lists -> [n: 0..UINT32_MAX, addrs: 0..UINT32_MAX, sum: 0..UINT64_MAX]]
  BY <1>4, <1>5
<1> QED
  BY <1>1, <1>2, <1>3, <1>6 DEF InNat, TypeOK

\* The offset, the counts, addresses and sums in tx_obj and the loop counter stay
\* within their C types: the checks of the parser let nothing wrap.
THEOREM TypeCorrect == Spec => []TypeOK
BY TypeFollows, InductiveInvariant, PTL

\* CTX_CHECK_AVAIL: no field is read past the end of the buffer.
THEOREM ReadsInBounds == Spec => []OffsetInBounds
<1>1. IInv => OffsetInBounds
  BY DEF IInv
<1> QED
  BY <1>1, InductiveInvariant, PTL

\* _read, parse_evm_output and parser_base_tx: an accepted document is read to its
\* last byte, the skip whose result is ignored is never missed in it, and the
\* fields are exactly as much longer than what was read as its memo is long.
THEOREM AlignedWhenAccepted == Spec => []AcceptedIsAligned
<1>1. IInv => AcceptedIsAligned
  BY DEF IInv, SpentIsOffset, FinishedIsRead, AcceptedIsAligned
<1> QED
  BY <1>1, InductiveInvariant, PTL

\* The invariant at the end of a document, where no list is left to be read.
LEMMA TallyFollows == IInv => TallyIsExact
<1> SUFFICES ASSUME IInv, status = "ok" PROVE TallyIsExact
  BY DEF TallyIsExact
<1>1. todo = <<>> /\ obj \in [Lists -> Tally] /\ seen \in [Lists -> Tally]
  BY DEF IInv, FinishedIsRead, InNat
<1>2. \A l \in Lists : obj[l] = seen[l]
  <2>1. TAKE l \in Lists
  <2>2. obj[l] \in Tally /\ seen[l] \in Tally
    BY <1>1
  <2>3. obj[l].n = seen[l].n + 0
    BY <1>1 DEF IInv, CountsAreSeen, Reading
  <2>4. obj[l].sum = seen[l].sum /\ obj[l].addrs = seen[l].addrs
    BY DEF IInv, SumsAreSeen
  <2> QED
    BY <2>2, <2>3, <2>4 DEF Tally
<1>3. obj = seen
  BY <1>1, <1>2
<1>4. tx_type \in StakingTypes => weight = obj["stake_outs"].sum
  BY <1>1 DEF IInv, StakeIsWeight, Pending
<1> QED
  BY <1>3, <1>4 DEF TallyIsExact

\* The list parsers: the counts and sums of an accepted document are those of
\* its elements, and the weight shown is what the stake outputs lock.
THEOREM TallyExactWhenAccepted == Spec => []TallyIsExact
BY TallyFollows, InductiveInvariant, PTL

\* verify_asset_id: all amounts of an accepted document are of one asset.
THEOREM OneAssetWhenAccepted == Spec => []OneAsset
<1>1. IInv => OneAsset
  <2> SUFFICES ASSUME IInv PROVE Cardinality(assets) <= 1
    BY DEF OneAsset
  <2>1. CASE expected_asset_id = NoAsset
    <3>1. assets = {}
      BY <2>1 DEF IInv, AssetsAreExpected
    <3> QED
      BY <3>1, FS_EmptySet
  <2>2. CASE expected_asset_id # NoAsset
    <3>1. assets = {expected_asset_id}
      BY <2>2 DEF IInv, AssetsAreExpected
    <3>2. Cardinality(assets) = 1
      BY <3>1, FS_Singleton, Zenon
    <3> QED
      BY <3>2
  <2> QED
    BY <2>1, <2>2
<1> QED
  BY <1>1, InductiveInvariant, PTL

\* The limits of the lists, which every count has passed, and the cap of addresses.
LEMMA ItemsFollow == IInv => ItemsFitInByte
<1> SUFFICES ASSUME IInv PROVE ItemTotal(1) <= UINT8_MAX
  BY DEF ItemsFitInByte
<1>1. /\ UINT8_MAX \in Nat /\ MAX_OUTPUTS \in Nat
      /\ 2 * MAX_OUTPUTS + 3 <= UINT8_MAX /\ 8 <= UINT8_MAX
  BY ConstantsAssumption
<1>2. \A l \in Lists : obj[l].n \in Nat /\ obj[l].addrs \in Nat
  BY DEF IInv, InNat, Tally
<1>3. ASSUME NEW l \in OutLists
      PROVE  2 + obj[l].addrs + obj[l].n + 1 <= UINT8_MAX
  <2>1. l \in Lists /\ obj[l].n <= MAX_OUTPUTS /\ obj[l].addrs <= MaxAddrs
    BY DEF IInv, WithinLimits, Limit, Lists
  <2> QED
    BY <1>1, <1>2, <2>1 DEF MaxAddrs
<1>4. 2 + 2 * obj["evm_outs"].n + 1 <= UINT8_MAX
  <2>1. "evm_outs" \in Lists /\ obj["evm_outs"].n <= MAX_OUTPUTS
    BY DEF IInv, WithinLimits, Limit, Lists
  <2> QED
    BY <1>1, <1>2, <2>1
<1>5. 6 + 1 <= UINT8_MAX /\ 7 + 1 <= UINT8_MAX
  BY <1>1
<1>6. tx_type \in TxTypes
  BY DEF IInv, InNat
<1> QED
  BY <1>3, <1>4, <1>5, <1>6 DEF ItemTotal, TxTypes, CTypes, PTypes, OutLists

\* getNumItems: the limits of the lists keep the items within a uint8_t.
THEOREM ItemsFitWhenAccepted == Spec => []ItemsFitInByte
BY ItemsFollow, InductiveInvariant, PTL

------------------------------------------------------------------------------
(* TxDocument: the outputs beside the tally                                    *)

Output == [amount: 0..UINT64_MAX, addrs: Seq(Addrs)]

AmountsIn(s) == [k \in 1..Len(s) |-> s[k].amount]
AddrsIn(s)   == [k \in 1..Len(s) |-> Len(s[k].addrs)]

\* The sum of the amounts of some outputs, and the number of their addresses.
SumOf(s)  == Totals(AmountsIn(s), Len(s))[Len(s)]
NAddrsOf(s) == Totals(AddrsIn(s), Len(s))[Len(s)]

\* The outputs kept are those of the list that is shown, all of them as they were
\* counted.
OutsAreRead ==
    /\ outs \in Seq(Output)
    /\ tx_type = "c_import_tx" => \A k \in 1..Len(outs) : Len(outs[k].addrs) = 1
    /\ tx_type \in StakingTypes => outs = <<>>
    /\ \A l \in ShownList(tx_type) :
          /\ Len(outs) = seen[l].n /\ SumOf(outs) = seen[l].sum
          /\ l # "evm_outs" => NAddrsOf(outs) = seen[l].addrs

\* A document starts with no outputs.
HeaderHasNoOuts == status = "header" => outs = <<>>

Has(t, section) == \E i \in 1..Len(Layout(t)) : Layout(t)[i] = section

\* Only the lists of the type are read.
OnlyItsLists ==
    /\ \A i \in 1..Len(todo) : Has(tx_type, todo[i])
    /\ \A l \in Lists : ~Has(tx_type, l) => seen[l].sum = 0

DInv ==
    /\ IInv
    /\ OutsAreRead /\ HeaderHasNoOuts
    /\ OnlyItsLists

------------------------------------------------------------------------------
(* One more output *)

\* The running totals of numbers that begin with others begin with theirs.
LEMMA TotalsAppend ==
  ASSUME NEW n \in Nat, NEW v \in [1..n -> Nat], NEW w \in [1..n + 1 -> Nat],
         \A k \in 1..n : w[k] = v[k]
  PROVE  Totals(w, n + 1)[n + 1] = Totals(v, n)[n] + w[n + 1]
<1> DEFINE t == Totals(w, n + 1)
           u == Totals(v, n)
           V == {m \in 0..n : t[m] = u[m]}
<1>1. /\ t \in [0..n + 1 -> Nat] /\ t[0] = 0
      /\ \A k \in 1..n + 1 : t[k] = t[k - 1] + w[k]
  <2>1. n + 1 \in Nat
    OBVIOUS
  <2> QED
    BY <2>1, TotalsDefined
<1>2. u \in [0..n -> Nat] /\ u[0] = 0 /\ \A k \in 1..n : u[k] = u[k - 1] + v[k]
  BY TotalsDefined
<1> HIDE DEF t, u
<1>3. V \in SUBSET (0..n) /\ 0 \in V
  BY <1>1, <1>2
<1>4. ASSUME NEW m \in V, m < n
      PROVE  m + 1 \in V
  <2>1. /\ m + 1 \in 1..n /\ m + 1 \in 1..n + 1 /\ m + 1 \in 0..n
        /\ (m + 1) - 1 = m /\ t[m] = u[m]
    BY <1>4
  <2> QED
    BY <1>1, <1>2, <2>1
<1>5. V = 0..n
  <2> HIDE DEF V
  <2> QED
    BY <1>3, <1>4, BoundedInduction
<1>6. n \in V /\ n + 1 \in 1..n + 1 /\ (n + 1) - 1 = n
  BY <1>5
<1> QED
  BY <1>1, <1>6 DEF t, u

LEMMA OutputsAreNumbers ==
  ASSUME NEW s \in Seq(Output)
  PROVE  /\ Len(s) \in Nat /\ DOMAIN s = 1..Len(s)
         /\ \A k \in 1..Len(s) : s[k] \in Output
         /\ AmountsIn(s) \in [1..Len(s) -> Nat]
         /\ AddrsIn(s) \in [1..Len(s) -> Nat]
<1>1. Len(s) \in Nat /\ DOMAIN s = 1..Len(s) /\ \A k \in 1..Len(s) : s[k] \in Output
  BY LenProperties, ElementOfSeq
<1>2. \A o \in Output : o.amount \in Nat /\ Len(o.addrs) \in Nat
  BY ConstantsAssumption DEF Output
<1>3. \A k \in 1..Len(s) : s[k].amount \in Nat /\ Len(s[k].addrs) \in Nat
  BY <1>1, <1>2
<1> QED
  BY <1>1, <1>3 DEF AmountsIn, AddrsIn

LEMMA NoOutputs ==
  /\ <<>> \in Seq(Output) /\ Len(<<>>) = 0
  /\ SumOf(<<>>) = 0 /\ NAddrsOf(<<>>) = 0
<1>1. <<>> \in Seq(Output) /\ Len(<<>>) = 0
  OBVIOUS
<1>2. AmountsIn(<<>>) \in [1..0 -> Nat] /\ AddrsIn(<<>>) \in [1..0 -> Nat]
  BY <1>1, OutputsAreNumbers
<1>3. Totals(AmountsIn(<<>>), 0)[0] = 0 /\ Totals(AddrsIn(<<>>), 0)[0] = 0
  BY <1>2, TotalsDefined
<1> QED
  BY <1>1, <1>3 DEF SumOf, NAddrsOf

LEMMA OneOutputMore ==
  ASSUME NEW s \in Seq(Output), NEW o \in Output
  PROVE  LET t == Append(s, o)
         IN  /\ t \in Seq(Output) /\ Len(t) = Len(s) + 1
             /\ SumOf(t) = SumOf(s) + o.amount
             /\ NAddrsOf(t) = NAddrsOf(s) + Len(o.addrs)
             /\ \A k \in 1..Len(t) : t[k] = o \/ \E j \in 1..Len(s) : t[k] = s[j]
<1> DEFINE t == Append(s, o)
           n == Len(s)
<1>1. n \in Nat /\ AmountsIn(s) \in [1..n -> Nat] /\ AddrsIn(s) \in [1..n -> Nat]
  BY OutputsAreNumbers
<1>2. /\ t \in Seq(Output) /\ Len(t) = n + 1 /\ t[n + 1] = o
      /\ \A k \in 1..n : t[k] = s[k]
  BY AppendProperties
<1> HIDE DEF t
<1>3. AmountsIn(t) \in [1..n + 1 -> Nat] /\ AddrsIn(t) \in [1..n + 1 -> Nat]
  BY <1>2, OutputsAreNumbers
<1> HIDE DEF n
<1>4. n + 1 \in 1..n + 1 /\ \A k \in 1..n : k \in 1..n + 1
  BY <1>1
<1>5. /\ AmountsIn(t)[n + 1] = o.amount /\ AddrsIn(t)[n + 1] = Len(o.addrs)
      /\ \A k \in 1..n : AmountsIn(t)[k] = AmountsIn(s)[k]
                         /\ AddrsIn(t)[k] = AddrsIn(s)[k]
  BY <1>2, <1>4 DEF AmountsIn, AddrsIn, n
<1>6. SumOf(t) = SumOf(s) + o.amount
  <2>1. Totals(AmountsIn(t), n + 1)[n + 1] = Totals(AmountsIn(s), n)[n] + AmountsIn(t)[n + 1]
    BY <1>1, <1>3, <1>5, TotalsAppend
  <2> QED
    BY <1>2, <1>5, <2>1 DEF SumOf, n
<1>7. NAddrsOf(t) = NAddrsOf(s) + Len(o.addrs)
  <2>1. Totals(AddrsIn(t), n + 1)[n + 1] = Totals(AddrsIn(s), n)[n] + AddrsIn(t)[n + 1]
    BY <1>1, <1>3, <1>5, TotalsAppend
  <2> QED
    BY <1>2, <1>5, <2>1 DEF NAddrsOf, n
<1>8. \A k \in 1..n + 1 : k = n + 1 \/ k \in 1..n
  BY <1>1
<1>9. \A k \in 1..Len(t) : t[k] = o \/ \E j \in 1..n : t[k] = s[j]
  BY <1>2, <1>8
<1> QED
  BY <1>2, <1>6, <1>7, <1>9 DEF t, n

------------------------------------------------------------------------------
(* What a step of the parser does to the lists *)

\* The header read: the sections of the type are to come.
HeaderRead ==
    /\ status = "header" /\ status' = "body"
    /\ tx_type' \in TxTypes /\ todo' = Layout(tx_type')
    /\ UNCHANGED seen

\* No element read.
NothingAdded ==
    /\ status' # "header"
    /\ UNCHANGED <<seen, tx_type>>
    /\ \/ UNCHANGED todo
       \/ todo # <<>> /\ todo' = Tail(todo)

\* An element of list l read.
ElementAdded(l, amount, addrs) ==
    /\ At(l)
    /\ l = "evm_outs" => addrs = 0
    /\ seen[l].sum + amount <= UINT64_MAX
    /\ seen' = [seen EXCEPT ![l].n = @ + 1, ![l].sum = @ + amount,
                            ![l].addrs = @ + addrs]
    /\ UNCHANGED <<status, tx_type, todo>>

LEMMA RejectAddsNothing == Reject => NothingAdded
BY DEF Reject, NothingAdded

\* NoOverflow is a check against the unbounded sum.
LEMMA AddElementAdds ==
  ASSUME IInv, NEW l \in Lists, InElement(l),
         NEW amount \in 0..UINT64_MAX, NEW addrs \in Nat, l = "evm_outs" => addrs = 0,
         NoOverflow(l, amount), AddElement(l, amount, addrs),
         UNCHANGED <<status, tx_type, todo>>
  PROVE  ElementAdded(l, amount, addrs)
<1>1. obj[l].sum = seen[l].sum /\ seen[l] \in Tally
  BY DEF IInv, SumsAreSeen, InNat
<1>2. seen[l].sum \in Nat /\ UINT64_MAX \in Nat /\ amount \in Nat
  BY <1>1, ConstantsAssumption DEF Tally
<1>3. seen[l].sum <= UINT64_MAX - amount
  BY <1>1 DEF NoOverflow
<1>4. \A x, y, z \in Nat : x <= z - y => x + y <= z
  OBVIOUS
<1>5. seen[l].sum + amount <= UINT64_MAX
  BY <1>2, <1>3, <1>4
<1> QED
  BY <1>5 DEF ElementAdded, InElement, AddElement

LEMMA ParseEffects ==
  ASSUME IInv, Parse
  PROVE  \/ HeaderRead
         \/ NothingAdded
         \/ \E l \in Lists, amount \in 0..UINT64_MAX, addrs \in Nat :
               ElementAdded(l, amount, addrs)
<1> DEFINE Goal == \/ HeaderRead
                   \/ NothingAdded
                   \/ \E l \in Lists, amount \in 0..UINT64_MAX, addrs \in Nat :
                         ElementAdded(l, amount, addrs)
<1>1. ASSUME Reject PROVE Goal
  BY <1>1, RejectAddsNothing
<1>2. ASSUME ReadHeader PROVE Goal
  <2>1. CASE ~Reject
    BY <1>2, <2>1 DEF ReadHeader, HeaderRead, TxTypes
  <2> QED
    BY <1>1, <2>1
<1>3. ASSUME NEW l \in Lists, ReadCount(l) PROVE Goal
  <2>1. CASE ~Reject
    <3>1. At(l) /\ UNCHANGED <<status, tx_type, todo, seen>>
      BY <1>3, <2>1 DEF ReadCount, Advance
    <3> QED
      BY <3>1 DEF NothingAdded, At
  <2> QED
    BY <1>1, <2>1
<1>4. ASSUME NEW l \in Lists, EndList(l) PROVE Goal
  <2>1. CASE ~Reject
    <3>1. At(l) /\ todo' = Tail(todo) /\ UNCHANGED <<status, tx_type, seen>>
      BY <1>4, <2>1 DEF EndList, NextSection
    <3> QED
      BY <3>1 DEF NothingAdded, At
  <2> QED
    BY <1>1, <2>1
<1>5. ASSUME NEW l \in OutLists, ReadOutput(l) PROVE Goal
  <2>1. CASE ~Reject
    <3>1. PICK amount \in 0..UINT64_MAX, n \in 0..(MAX_OUTPUTS + 1) :
             /\ NoOverflow(l, amount) /\ AddElement(l, amount, n)
             /\ UNCHANGED <<status, tx_type, todo>>
      BY <1>5, <2>1 DEF ReadOutput, Advance
    <3>2. InElement(l) /\ l \in Lists /\ l # "evm_outs" /\ n \in Nat
      BY <1>5, ConstantsAssumption DEF ReadOutput, Lists, OutLists
    <3>3. ElementAdded(l, amount, n)
      BY <3>1, <3>2, AddElementAdds
    <3> QED
      BY <3>2, <3>3
  <2> QED
    BY <1>1, <2>1
<1>6. ASSUME NEW l \in InLists, ReadInput(l) PROVE Goal
  <2>1. CASE ~Reject
    <3>1. PICK amount \in 0..UINT64_MAX :
             /\ NoOverflow(l, amount) /\ AddElement(l, amount, 0)
             /\ UNCHANGED <<status, tx_type, todo>>
      BY <1>6, <2>1 DEF ReadInput, Advance
    <3>2. InElement(l) /\ l \in Lists /\ 0 \in Nat
      BY <1>6 DEF ReadInput, Lists
    <3>3. ElementAdded(l, amount, 0)
      BY <3>1, <3>2, AddElementAdds
    <3> QED
      BY <3>2, <3>3
  <2> QED
    BY <1>1, <2>1
<1>7. ASSUME ReadEvmInput PROVE Goal
  <2>1. CASE ~Reject
    <3>1. PICK amount \in 0..UINT64_MAX :
             /\ NoOverflow("evm_inputs", amount) /\ AddElement("evm_inputs", amount, 0)
             /\ UNCHANGED <<status, tx_type, todo>>
      BY <1>7, <2>1 DEF ReadEvmInput, Advance
    <3>2. InElement("evm_inputs") /\ "evm_inputs" \in Lists /\ 0 \in Nat
      BY <1>7 DEF ReadEvmInput, Lists
    <3>3. ElementAdded("evm_inputs", amount, 0)
      BY <3>1, <3>2, AddElementAdds
    <3> QED
      BY <3>2, <3>3
  <2> QED
    BY <1>1, <2>1
<1>8. ASSUME ReadEvmOutput PROVE Goal
  <2>1. CASE ~Reject
    <3>1. PICK amount \in 0..UINT64_MAX :
             /\ NoOverflow("evm_outs", amount) /\ AddElement("evm_outs", amount, 0)
             /\ UNCHANGED <<status, tx_type, todo>>
      BY <1>8, <2>1 DEF ReadEvmOutput
    <3>2. InElement("evm_outs") /\ "evm_outs" \in Lists /\ 0 \in Nat
      BY <1>8 DEF ReadEvmOutput, Lists
    <3>3. ElementAdded("evm_outs", amount, 0)
      BY <3>1, <3>2, AddElementAdds
    <3> QED
      BY <3>2, <3>3
  <2> QED
    BY <1>1, <2>1
<1>9. ASSUME NEW section, NEW size, At(section), PassField(size) PROVE Goal
  BY <1>9 DEF PassField, Advance, NextSection, NothingAdded, At
<1>10. ASSUME NEW section, NEW size, NEW ok, ReadField(section, size, ok) PROVE Goal
  BY <1>1, <1>9, <1>10 DEF ReadField
<1>11. ASSUME ReadValidator PROVE Goal
  BY <1>1, <1>9, <1>11 DEF ReadValidator
<1>12. ASSUME \/ ReadOtherChain \/ ReadSigner \/ ReadShares
              \/ \E s \in {"validator_rewards_owner", "delegator_rewards_owner"} :
                    ReadOwner(s)
       PROVE  Goal
  BY <1>10, <1>12 DEF ReadOtherChain, ReadSigner, ReadShares, ReadOwner
<1>13. ASSUME ReadMemo PROVE Goal
  <2>1. CASE ~Reject
    <3>1. At("memo") /\ todo' = Tail(todo) /\ UNCHANGED <<status, tx_type, seen>>
      BY <1>13, <2>1 DEF ReadMemo, NextSection
    <3> QED
      BY <3>1 DEF NothingAdded, At
  <2> QED
    BY <1>1, <2>1
<1>14. ASSUME Finish PROVE Goal
  BY <1>14 DEF Finish, NothingAdded
<1> HIDE DEF Goal
<1> QED
  BY <1>2, <1>3, <1>4, <1>5, <1>6, <1>7, <1>8, <1>11, <1>12, <1>13, <1>14 DEF Parse, Goal

------------------------------------------------------------------------------
(* The outputs stay those of the tally *)

LEMMA OneListShown ==
  ASSUME NEW t \in TxTypes
  PROVE  /\ ShownList(t) \subseteq Lists
         /\ \A l, k \in ShownList(t) : l = k
         /\ \A l \in ShownList(t) : l = "evm_outs" <=> t = "c_import_tx"
         /\ t \in StakingTypes => ShownList(t) = {}
BY DEF TxTypes, CTypes, PTypes, StakingTypes, ShownList, Lists, OutLists, InLists

\* No list of the document was read.
NothingRead ==
    /\ IInv
    /\ outs = <<>> /\ seen = Zero /\ tx_type \in TxTypes
    /\ \A i \in 1..Len(todo) : Has(tx_type, todo[i])

LEMMA NothingReadIsFine == NothingRead => DInv
<1> SUFFICES ASSUME NothingRead PROVE DInv
  OBVIOUS
<1> USE DEF NothingRead
<1>1. \A l \in Lists : seen[l].n = 0 /\ seen[l].sum = 0 /\ seen[l].addrs = 0
  BY DEF Zero
<1>2. OutsAreRead
  BY <1>1, NoOutputs, OneListShown DEF OutsAreRead
<1>3. OnlyItsLists
  BY <1>1 DEF OnlyItsLists
<1> QED
  BY <1>2, <1>3 DEF DInv, HeaderHasNoOuts

LEMMA DocInitDInv == DocInit => DInv
<1> SUFFICES ASSUME DocInit PROVE DInv
  OBVIOUS
<1>1. IInv
  BY InitIInv DEF DocInit
<1>2. outs = <<>> /\ seen = Zero /\ tx_type \in TxTypes /\ Len(todo) = 0
  BY DEF DocInit, Init, TxTypes, PTypes
<1> QED
  BY <1>1, <1>2, NothingReadIsFine DEF NothingRead

\* tx_parse: the next document.
LEMMA NextDocument ==
  ASSUME IInv, tx_parse, outs' = <<>>
  PROVE  DInv'
<1>1. IInv'
  BY ParseStep
<1>2. seen' = Zero /\ tx_type' \in TxTypes /\ Len(todo') = 0
  BY DEF tx_parse, parser_init_context, TxTypes, PTypes
<1>3. \A i \in 1..Len(todo') : Has(tx_type', todo'[i])
  BY <1>2
<1>4. NothingRead'
  BY <1>1, <1>2, <1>3 DEF NothingRead
<1> QED
  BY <1>4, NothingReadIsFine, PTL

\* No count grows: no output is kept.
LEMMA NoOutputKept ==
  ASSUME IInv, UNCHANGED seen, KeepOutput
  PROVE  outs' = outs
<1>1. \A l \in Lists : seen[l].n \in Nat
  BY DEF IInv, InNat, Tally
<1>2. tx_type \in TxTypes
  BY DEF IInv, InNat
<1>3. \A l \in ShownList(tx_type) : seen'[l].n # seen[l].n + 1
  BY <1>1, <1>2, OneListShown
<1> QED
  BY <1>3 DEF KeepOutput

LEMMA HeaderKeeps ==
  ASSUME DInv, IInv', HeaderRead, KeepOutput
  PROVE  DInv'
<1>1. outs' = outs /\ outs = <<>> /\ seen = Zero
  BY NoOutputKept DEF DInv, HeaderRead, HeaderHasNoOuts, IInv, HeaderIsFresh
<1>2. tx_type' \in TxTypes /\ todo' = Layout(tx_type') /\ seen' = Zero
  BY <1>1 DEF HeaderRead
<1>3. \A i \in 1..Len(todo') : Has(tx_type', todo'[i])
  BY <1>2 DEF Has
<1>4. NothingRead'
  BY <1>1, <1>2, <1>3 DEF NothingRead, Zero
<1> QED
  BY <1>4, NothingReadIsFine, PTL

LEMMA NothingKept ==
  ASSUME DInv, IInv', NothingAdded, KeepOutput
  PROVE  DInv'
<1>1. UNCHANGED <<outs, seen, tx_type>> /\ status' # "header"
  BY NoOutputKept DEF DInv, NothingAdded
<1>2. (OutsAreRead /\ HeaderHasNoOuts)'
  BY <1>1 DEF DInv, OutsAreRead, HeaderHasNoOuts
<1>3. \A i \in 1..Len(todo') : Has(tx_type, todo'[i])
  <2>1. CASE todo' = todo
    BY <2>1 DEF DInv, OnlyItsLists
  <2>2. CASE todo # <<>> /\ todo' = Tail(todo)
    <3>1. todo \in Seq(Sections) /\ InOrder(todo)
      BY DEF DInv, IInv, InNat, TodoInOrder
    <3>2. \A i \in 1..Len(todo') : i + 1 \in 1..Len(todo) /\ todo'[i] = todo[i + 1]
      BY <2>2, <3>1, TailInOrder
    <3> QED
      BY <3>2 DEF DInv, OnlyItsLists
  <2> QED
    BY <2>1, <2>2 DEF NothingAdded
<1>4. OnlyItsLists'
  BY <1>1, <1>3 DEF DInv, OnlyItsLists, Has
<1> QED
  BY <1>2, <1>4 DEF DInv

\* An element of the list that is shown is kept, one of another list is not.
LEMMA ElementKept ==
  ASSUME DInv, IInv', KeepOutput,
         NEW l \in Lists, NEW amount \in 0..UINT64_MAX, NEW addrs \in Nat,
         ElementAdded(l, amount, addrs)
  PROVE  DInv'
<1>1. tx_type \in TxTypes /\ seen \in [Lists -> Tally]
  BY DEF DInv, IInv, InNat
<1>2. /\ seen[l].n \in Nat /\ seen[l].sum \in Nat /\ seen[l].addrs \in Nat
      /\ \A k \in Lists : seen[k].n \in Nat
  BY <1>1 DEF Tally
<1>3. /\ seen'[l].n = seen[l].n + 1 /\ seen'[l].sum = seen[l].sum + amount
      /\ seen'[l].addrs = seen[l].addrs + addrs
      /\ \A k \in Lists \ {l} : seen'[k] = seen[k]
      /\ seen[l].sum + amount <= UINT64_MAX
      /\ UNCHANGED <<status, tx_type, todo>>
  <2>1. seen[l] \in Tally
    BY <1>1
  <2>2. seen' = [seen EXCEPT ![l].n = @ + 1, ![l].sum = @ + amount,
                             ![l].addrs = @ + addrs]
    BY DEF ElementAdded
  <2>3. seen'[l].n = seen[l].n + 1 /\ seen'[l].sum = seen[l].sum + amount
        /\ seen'[l].addrs = seen[l].addrs + addrs
    BY <1>1, <2>1, <2>2 DEF Tally
  <2> QED
    BY <1>1, <2>2, <2>3 DEF ElementAdded
<1>4. Has(tx_type, l) /\ status = "body"
  BY AtHead DEF DInv, OnlyItsLists, ElementAdded, At
<1>5. OnlyItsLists'
  <2>1. \A section : Has(tx_type', section) <=> Has(tx_type, section)
    BY <1>3 DEF Has
  <2> QED
    BY <1>3, <1>4, <2>1 DEF DInv, OnlyItsLists
<1>6. HeaderHasNoOuts'
  BY <1>3, <1>4 DEF HeaderHasNoOuts
<1>7. OutsAreRead'
  <2>1. CASE l \notin ShownList(tx_type)
    <3>1. \A k \in ShownList(tx_type) : seen'[k] = seen[k] /\ seen'[k].n # seen[k].n + 1
      BY <1>1, <1>2, <1>3, <2>1, OneListShown
    <3>2. outs' = outs
      BY <3>1 DEF KeepOutput
    <3> QED
      BY <1>3, <3>1, <3>2 DEF DInv, OutsAreRead
  <2>2. CASE l \in ShownList(tx_type)
    <3>1. ShownList(tx_type) = {l} /\ tx_type \notin StakingTypes
          /\ (l = "evm_outs" <=> tx_type = "c_import_tx")
      BY <1>1, <2>2, OneListShown
    <3>2. {k \in ShownList(tx_type) : seen'[k].n = seen[k].n + 1} = {l}
      BY <1>3, <3>1
    <3>3. PICK out \in NewOutputs(l) : outs' = Append(outs, out)
      BY <3>2 DEF KeepOutput
    <3> DEFINE m == AddrsOf(l, seen'[l].addrs - seen[l].addrs)
    <3>4. m \in Nat /\ m = (IF l = "evm_outs" THEN 1 ELSE addrs)
      BY <1>2, <1>3 DEF AddrsOf
    <3>5. seen'[l].sum - seen[l].sum = amount
      BY <1>2, <1>3
    <3>6. out.amount = amount /\ out.addrs \in [1..m -> Addrs]
          /\ out \in [amount: {amount}, addrs: [1..m -> Addrs]]
      BY <3>5 DEF NewOutputs
    <3> HIDE DEF m
    <3>7. out.addrs \in Seq(Addrs) /\ Len(out.addrs) = m
      BY <3>4, <3>6, FunctionIsSeq
    <3>8. out \in Output
      BY <3>6, <3>7 DEF Output
    <3>9. outs \in Seq(Output) /\ Len(outs) = seen[l].n /\ SumOf(outs) = seen[l].sum
          /\ (l # "evm_outs" => NAddrsOf(outs) = seen[l].addrs)
          /\ (l = "evm_outs" => \A k \in 1..Len(outs) : Len(outs[k].addrs) = 1)
      BY <2>2, <3>1 DEF DInv, OutsAreRead
    <3>10. /\ outs' \in Seq(Output) /\ Len(outs') = Len(outs) + 1
           /\ SumOf(outs') = SumOf(outs) + amount
           /\ NAddrsOf(outs') = NAddrsOf(outs) + m
           /\ \A k \in 1..Len(outs') :
                 outs'[k] = out \/ \E j \in 1..Len(outs) : outs'[k] = outs[j]
      BY <3>3, <3>6, <3>7, <3>8, <3>9, OneOutputMore
    <3>11. l = "evm_outs" => \A k \in 1..Len(outs') : Len(outs'[k].addrs) = 1
      BY <3>4, <3>7, <3>9, <3>10
    <3>12. Len(outs') = seen'[l].n /\ SumOf(outs') = seen'[l].sum
           /\ (l # "evm_outs" => NAddrsOf(outs') = seen'[l].addrs)
      BY <1>3, <3>4, <3>9, <3>10
    <3>13. tx_type' = tx_type
      BY <1>3
    <3> QED
      BY <3>1, <3>10, <3>11, <3>12, <3>13 DEF OutsAreRead
  <2> QED
    BY <2>1, <2>2
<1> QED
  BY <1>5, <1>6, <1>7 DEF DInv

\* What is parsed is what TxParser parses.
LEMMA DocNextIsNext == [DocNext]_docVars => [Next]_vars
BY DEF DocNext, docVars, Next

LEMMA DocNextDInv == DInv /\ [DocNext]_docVars => DInv'
<1> SUFFICES ASSUME DInv, [DocNext]_docVars PROVE DInv'
  OBVIOUS
<1>1. IInv /\ IInv'
  BY DocNextIsNext, NextIInv DEF DInv
<1>2. CASE tx_parse /\ outs' = <<>>
  BY <1>1, <1>2, NextDocument
<1>3. CASE Parse /\ KeepOutput
  <2>1. CASE HeaderRead
    BY <1>1, <1>3, <2>1, HeaderKeeps
  <2>2. CASE NothingAdded
    BY <1>1, <1>3, <2>2, NothingKept
  <2>3. ASSUME NEW l \in Lists, NEW amount \in 0..UINT64_MAX, NEW addrs \in Nat,
               ElementAdded(l, amount, addrs)
        PROVE  DInv'
    BY <1>1, <1>3, <2>3, ElementKept
  <2> QED
    BY <1>1, <1>3, <2>1, <2>2, <2>3, ParseEffects
<1>4. CASE UNCHANGED docVars
  <2>1. UNCHANGED <<outs, seen, tx_type, todo, status>>
    BY <1>4 DEF docVars, vars
  <2> QED
    BY <1>1, <2>1 DEF DInv, OutsAreRead, HeaderHasNoOuts, OnlyItsLists, Has
<1> QED
  BY <1>2, <1>3, <1>4 DEF DocNext

------------------------------------------------------------------------------
(* An accepted document *)

\* The sums the fee is computed from are 64 bits wide, and outs is the list shown.
LEMMA DocumentIsDocument ==
  ASSUME DInv, status = "ok", NEW known \in BOOLEAN
  PROVE  LET d == Document(known)
         IN  /\ IsDocument(d)
             /\ d.type = tx_type
             /\ NOuts(d) = Len(outs)
             /\ OutSum(d) = SumOf(outs) /\ NAddrs(d) = NAddrsOf(outs)
<1> DEFINE d == Document(known)
<1>1. obj = seen /\ tx_type \in TxTypes /\ weight \in 0..UINT64_MAX
  BY TallyFollows DEF DInv, TallyIsExact, IInv, InNat
<1>2. \A l \in Lists : obj[l].sum \in 0..UINT64_MAX
  BY <1>1, ConstantsAssumption DEF DInv, IInv, InNat, Tally, SumsFit
<1>3. In \in 0..UINT64_MAX /\ In2 \in 0..UINT64_MAX /\ Out \in 0..UINT64_MAX
      /\ StakeSum \in 0..UINT64_MAX
  BY <1>1, <1>2, ConstantsAssumption
  DEF In, In2, Out, StakeSum, Lists, OutLists, InLists
<1>4. outs \in Seq(Output)
      /\ (tx_type = "c_import_tx" => \A k \in 1..Len(outs) : Len(outs[k].addrs) = 1)
  BY DEF DInv, OutsAreRead
<1>5. DOMAIN outs = 1..Len(outs)
  BY <1>4, OutputsAreNumbers
<1>6. /\ d.type = tx_type /\ d.known = known /\ d.outs = outs
      /\ d.in = In /\ d.in2 = In2 /\ d.out = Out /\ d.stake = StakeSum
  BY DEF Document
<1>7. d \in [type: TxTypes, known: BOOLEAN, outs: Seq(Output), in: 0..UINT64_MAX,
             in2: 0..UINT64_MAX, out: 0..UINT64_MAX, stake: 0..UINT64_MAX]
  BY <1>1, <1>3, <1>4 DEF Document
<1> HIDE DEF d
<1>8. IsDocument(d)
  BY <1>4, <1>5, <1>6, <1>7 DEF IsDocument, Output
<1>9. NOuts(d) = Len(outs) /\ OutSum(d) = SumOf(outs) /\ NAddrs(d) = NAddrsOf(outs)
  BY <1>6 DEF NOuts, OutSum, NAddrs, SumOf, NAddrsOf, AmountsIn, AddrsIn
<1> QED
  BY <1>6, <1>8, <1>9 DEF d

\* getNumItems adds up counts of the list that is shown.
LEMMA CountsAreItems ==
  ASSUME DInv, status = "ok", NEW known \in BOOLEAN, NEW withHash \in BOOLEAN
  PROVE  /\ getNumItems(Document(known), withHash)
              = ItemTotal(IF withHash THEN 1 ELSE 0)
         /\ getNumItems(Document(known), withHash) # 0
<1> DEFINE d == Document(known)
           h == IF withHash THEN 1 ELSE 0
<1>1. /\ d.type = tx_type /\ NOuts(d) = Len(outs) /\ NAddrs(d) = NAddrsOf(outs)
  BY DocumentIsDocument
<1>2. obj = seen /\ tx_type \in TxTypes /\ ItemTotal(1) <= UINT8_MAX
  BY TallyFollows, ItemsFollow DEF DInv, TallyIsExact, ItemsFitInByte, IInv, InNat
<1>3. \A l \in Lists : obj[l].n \in Nat /\ obj[l].addrs \in Nat
  BY DEF DInv, IInv, InNat, Tally
<1>4. \A l \in ShownList(tx_type) :
         NOuts(d) = obj[l].n /\ (l # "evm_outs" => NAddrs(d) = obj[l].addrs)
  BY <1>1, <1>2 DEF DInv, OutsAreRead
<1>5. h \in {0, 1} /\ UINT8_MAX \in Nat
  BY ConstantsAssumption
<1> HIDE DEF d, h
<1> SUFFICES getNumItems(d, withHash) = ItemTotal(h) /\ getNumItems(d, withHash) # 0
  BY DEF d, h
<1>6. CASE tx_type \in {"base_tx", "p_import_tx"}
  <2>1. NOuts(d) = obj["base_secp_outs"].n /\ NAddrs(d) = obj["base_secp_outs"].addrs
        /\ "base_secp_outs" \in Lists
    <3>1. ShownList(tx_type) = {"base_secp_outs"}
      BY <1>6 DEF ShownList, StakingTypes
    <3> QED
      BY <1>4, <3>1 DEF Lists, OutLists
  <2>2. ItemTotal(h) = 2 + NAddrs(d) + NOuts(d) + h
        /\ ItemTotal(1) = 2 + NAddrs(d) + NOuts(d) + 1
    BY <1>6, <2>1 DEF ItemTotal
  <2> QED
    BY <1>1, <1>2, <1>3, <1>5, <1>6, <2>1, <2>2 DEF getNumItems, h
<1>7. CASE tx_type \in {"p_export_tx", "c_export_tx"}
  <2>1. NOuts(d) = obj["secp_outs"].n /\ NAddrs(d) = obj["secp_outs"].addrs
        /\ "secp_outs" \in Lists
    <3>1. ShownList(tx_type) = {"secp_outs"}
      BY <1>7 DEF ShownList, StakingTypes
    <3> QED
      BY <1>4, <3>1 DEF Lists, OutLists
  <2>2. ItemTotal(h) = 2 + NAddrs(d) + NOuts(d) + h
        /\ ItemTotal(1) = 2 + NAddrs(d) + NOuts(d) + 1
    BY <1>7, <2>1 DEF ItemTotal
  <2> QED
    BY <1>1, <1>2, <1>3, <1>5, <1>7, <2>1, <2>2 DEF getNumItems, h
<1>8. CASE tx_type = "c_import_tx"
  <2>1. NOuts(d) = obj["evm_outs"].n /\ "evm_outs" \in Lists
    <3>1. ShownList(tx_type) = {"evm_outs"}
      BY <1>8 DEF ShownList, StakingTypes
    <3> QED
      BY <1>4, <3>1 DEF Lists
  <2>2. ItemTotal(h) = 2 + 2 * NOuts(d) + h /\ ItemTotal(1) = 2 + 2 * NOuts(d) + 1
    BY <1>8, <2>1 DEF ItemTotal
  <2> QED
    BY <1>1, <1>2, <1>3, <1>5, <1>8, <2>1, <2>2 DEF getNumItems, h
<1>9. CASE tx_type \in StakingTypes
  BY <1>1, <1>2, <1>5, <1>9, ConstantsAssumption
  DEF getNumItems, ItemTotal, StakingTypes, h
<1> QED
  BY <1>2, <1>6, <1>7, <1>8, <1>9 DEF TxTypes, CTypes, PTypes, StakingTypes

LEMMA AcceptedFollows == DInv => AcceptedIsDocument
<1> SUFFICES ASSUME DInv, status = "ok", NEW known \in BOOLEAN, NEW withHash \in BOOLEAN
             PROVE  LET d == Document(known)
                    IN  /\ IsDocument(d)
                        /\ getNumItems(d, withHash)
                             = ItemTotal(IF withHash THEN 1 ELSE 0)
                        /\ getNumItems(d, withHash) = Len(Items(d, withHash))
                        /\ \A l \in ShownList(tx_type) : OutSum(d) = obj[l].sum
  BY DEF AcceptedIsDocument
<1> DEFINE d == Document(known)
<1>1. IsDocument(d) /\ OutSum(d) = SumOf(outs)
  BY DocumentIsDocument
<1>2. getNumItems(d, withHash) = ItemTotal(IF withHash THEN 1 ELSE 0)
      /\ getNumItems(d, withHash) # 0
  BY CountsAreItems
<1>3. getNumItems(d, withHash) = Len(Items(d, withHash))
  <2> HIDE DEF d
  <2> QED
    BY <1>1, <1>2, CountIsLength
<1>4. \A l \in ShownList(tx_type) : OutSum(d) = obj[l].sum
  BY <1>1, TallyFollows DEF DInv, TallyIsExact, OutsAreRead
<1> QED
  BY <1>1, <1>2, <1>3, <1>4

LEMMA ShownFollows == DInv => AcceptedIsShown
<1> SUFFICES ASSUME DInv, status = "ok", NEW known \in BOOLEAN, NEW withHash \in BOOLEAN,
                    Validated(Document(known), withHash)
             PROVE  \A i \in 0..getNumItems(Document(known), withHash) - 1 :
                       tx_getItem(Document(known), withHash, i)
                         = Items(Document(known), withHash)[i + 1]
  BY DEF AcceptedIsShown
<1>1. IsDocument(Document(known))
  BY DocumentIsDocument
<1> QED
  BY <1>1, ScreensAreItems

------------------------------------------------------------------------------
(* The fee *)

\* The lists of each type.
LEMMA ListsOfTypes ==
  ASSUME NEW t \in TxTypes, NEW l \in Lists, Has(t, l)
  PROVE  /\ t = "base_tx" => l \in {"base_secp_outs", "base_secp_ins"}
         /\ t = "p_export_tx" => l \in {"base_secp_outs", "base_secp_ins", "secp_outs"}
         /\ t = "p_import_tx" => l \in {"base_secp_outs", "base_secp_ins", "secp_ins"}
         /\ t \in StakingTypes => l \in {"base_secp_outs", "base_secp_ins", "stake_outs"}
         /\ t = "c_export_tx" => l \in {"evm_inputs", "secp_outs"}
         /\ t = "c_import_tx" => l \in {"secp_ins", "evm_outs"}
<1>1. PICK i \in 1..Len(Layout(t)) : Layout(t)[i] = l
  BY DEF Has
<1> USE DEF Lists, OutLists, InLists, StakingTypes
<1>2. CASE t = "base_tx"
  <2> DEFINE L ==
        <<"base_secp_outs", "base_secp_ins", "memo">>
  <2>1. Layout(t) = L
    BY <1>2 DEF Layout
  <2>2. Len(L) = 3
    OBVIOUS
  <2>3. L[1] = "base_secp_outs" /\ L[2] = "base_secp_ins" /\ L[3] = "memo"
    OBVIOUS
  <2> HIDE DEF L
  <2>4. i = 1 \/ i = 2 \/ i = 3
    BY <1>1, <2>1, <2>2
  <2> QED
    BY <1>1, <1>2, <2>1, <2>3, <2>4
<1>3. CASE t = "p_export_tx"
  <2> DEFINE L ==
        <<"base_secp_outs", "base_secp_ins", "memo", "other chain", "secp_outs">>
  <2>1. Layout(t) = L
    BY <1>3 DEF Layout
  <2>2. Len(L) = 5
    OBVIOUS
  <2>3. L[1] = "base_secp_outs" /\ L[2] = "base_secp_ins" /\ L[3] = "memo" /\
        L[4] = "other chain" /\ L[5] = "secp_outs"
    OBVIOUS
  <2> HIDE DEF L
  <2>4. i = 1 \/ i = 2 \/ i = 3 \/ i = 4 \/ i = 5
    BY <1>1, <2>1, <2>2
  <2> QED
    BY <1>1, <1>3, <2>1, <2>3, <2>4
<1>4. CASE t = "p_import_tx"
  <2> DEFINE L ==
        <<"base_secp_outs", "base_secp_ins", "memo", "other chain", "secp_ins">>
  <2>1. Layout(t) = L
    BY <1>4 DEF Layout
  <2>2. Len(L) = 5
    OBVIOUS
  <2>3. L[1] = "base_secp_outs" /\ L[2] = "base_secp_ins" /\ L[3] = "memo" /\
        L[4] = "other chain" /\ L[5] = "secp_ins"
    OBVIOUS
  <2> HIDE DEF L
  <2>4. i = 1 \/ i = 2 \/ i = 3 \/ i = 4 \/ i = 5
    BY <1>1, <2>1, <2>2
  <2> QED
    BY <1>1, <1>4, <2>1, <2>3, <2>4
<1>5. CASE t = "add_permissionless_delegator_tx"
  <2> DEFINE L ==
        <<"base_secp_outs", "base_secp_ins", "memo", "validator", "stake_outs",
          "delegator_rewards_owner">>
  <2>1. Layout(t) = L
    BY <1>5 DEF Layout
  <2>2. Len(L) = 6
    OBVIOUS
  <2>3. L[1] = "base_secp_outs" /\ L[2] = "base_secp_ins" /\ L[3] = "memo" /\
        L[4] = "validator" /\ L[5] = "stake_outs" /\ L[6] = "delegator_rewards_owner"
    OBVIOUS
  <2> HIDE DEF L
  <2>4. i = 1 \/ i = 2 \/ i = 3 \/ i = 4 \/ i = 5 \/ i = 6
    BY <1>1, <2>1, <2>2
  <2> QED
    BY <1>1, <1>5, <2>1, <2>3, <2>4
<1>6. CASE t = "add_permissionless_validator_tx"
  <2> DEFINE L ==
        <<"base_secp_outs", "base_secp_ins", "memo", "validator", "signer",
          "stake_outs", "validator_rewards_owner", "delegator_rewards_owner", "shares">>
  <2>1. Layout(t) = L
    BY <1>6 DEF Layout
  <2>2. Len(L) = 9
    OBVIOUS
  <2>3. L[1] = "base_secp_outs" /\ L[2] = "base_secp_ins" /\ L[3] = "memo" /\
        L[4] = "validator" /\ L[5] = "signer" /\ L[6] = "stake_outs" /\
        L[7] = "validator_rewards_owner" /\ L[8] = "delegator_rewards_owner" /\
        L[9] = "shares"
    OBVIOUS
  <2> HIDE DEF L
  <2>4. i = 1 \/ i = 2 \/ i = 3 \/ i = 4 \/ i = 5 \/ i = 6 \/ i = 7 \/ i = 8 \/ i = 9
    BY <1>1, <2>1, <2>2
  <2> QED
    BY <1>1, <1>6, <2>1, <2>3, <2>4
<1>7. CASE t = "c_export_tx"
  <2> DEFINE L ==
        <<"other chain", "evm_inputs", "secp_outs">>
  <2>1. Layout(t) = L
    BY <1>7 DEF Layout
  <2>2. Len(L) = 3
    OBVIOUS
  <2>3. L[1] = "other chain" /\ L[2] = "evm_inputs" /\ L[3] = "secp_outs"
    OBVIOUS
  <2> HIDE DEF L
  <2>4. i = 1 \/ i = 2 \/ i = 3
    BY <1>1, <2>1, <2>2
  <2> QED
    BY <1>1, <1>7, <2>1, <2>3, <2>4
<1>8. CASE t = "c_import_tx"
  <2> DEFINE L ==
        <<"other chain", "secp_ins", "evm_outs">>
  <2>1. Layout(t) = L
    BY <1>8 DEF Layout
  <2>2. Len(L) = 3
    OBVIOUS
  <2>3. L[1] = "other chain" /\ L[2] = "secp_ins" /\ L[3] = "evm_outs"
    OBVIOUS
  <2> HIDE DEF L
  <2>4. i = 1 \/ i = 2 \/ i = 3
    BY <1>1, <2>1, <2>2
  <2> QED
    BY <1>1, <1>8, <2>1, <2>3, <2>4
<1> QED
  BY <1>2, <1>3, <1>4, <1>5, <1>6, <1>7, <1>8 DEF TxTypes, CTypes, PTypes

LEMMA FeeFollows == DInv => FeeIsWhole
<1> SUFFICES ASSUME DInv, status = "ok" PROVE FeeIsWhole
  BY DEF FeeIsWhole
<1> DEFINE d == Document(TRUE)
           bi == seen["base_secp_ins"].sum
           si == seen["secp_ins"].sum
           ei == seen["evm_inputs"].sum
           bo == seen["base_secp_outs"].sum
           so == seen["secp_outs"].sum
           st == seen["stake_outs"].sum
           eo == seen["evm_outs"].sum
<1>1. OutSum(d) = SumOf(outs) /\ d.in = In /\ d.in2 = In2 /\ d.out = Out
      /\ d.stake = StakeSum
  BY DocumentIsDocument DEF Document
<1>2. obj = seen /\ tx_type \in TxTypes /\ (tx_type \in StakingTypes => weight = st)
  BY TallyFollows DEF DInv, TallyIsExact, IInv, InNat
<1>3. /\ bi \in Nat /\ si \in Nat /\ ei \in Nat
      /\ bo \in Nat /\ so \in Nat /\ st \in Nat /\ eo \in Nat
  BY DEF DInv, IInv, InNat, Tally, Lists, OutLists, InLists
<1>4. \A l \in Lists : ~Has(tx_type, l) => seen[l].sum = 0
  BY DEF DInv, OnlyItsLists
<1>5. /\ \A l \in ShownList(tx_type) : SumOf(outs) = seen[l].sum
      /\ tx_type \in StakingTypes => SumOf(outs) = 0
  BY NoOutputs DEF DInv, OutsAreRead
<1>6. TrueFee(d) = (In + In2) - (Out + StakeSum + SumOf(outs))
  BY <1>1 DEF TrueFee
<1> USE DEF Lists, OutLists, InLists
<1> HIDE DEF d
<1> DEFINE Goal == TrueFee(d) = (bi + si + ei) - (bo + so + st + eo)
<1>7. ASSUME tx_type = "base_tx" PROVE Goal
  <2>1. si = 0 /\ ei = 0 /\ so = 0 /\ st = 0 /\ eo = 0
    BY <1>2, <1>4, <1>7, ListsOfTypes
  <2>2. In = bi /\ In2 = 0 /\ Out = 0 /\ StakeSum = 0 /\ SumOf(outs) = bo
    BY <1>2, <1>5, <1>7 DEF In, In2, Out, StakeSum, ShownList, StakingTypes
  <2> QED
    BY <1>3, <1>6, <2>1, <2>2
<1>8. ASSUME tx_type = "p_export_tx" PROVE Goal
  <2>1. si = 0 /\ ei = 0 /\ st = 0 /\ eo = 0
    BY <1>2, <1>4, <1>8, ListsOfTypes
  <2>2. In = bi /\ In2 = 0 /\ Out = bo /\ StakeSum = 0 /\ SumOf(outs) = so
    BY <1>2, <1>5, <1>8 DEF In, In2, Out, StakeSum, ShownList, StakingTypes
  <2> QED
    BY <1>3, <1>6, <2>1, <2>2
<1>9. ASSUME tx_type = "p_import_tx" PROVE Goal
  <2>1. ei = 0 /\ so = 0 /\ st = 0 /\ eo = 0
    BY <1>2, <1>4, <1>9, ListsOfTypes
  <2>2. In = bi /\ In2 = si /\ Out = 0 /\ StakeSum = 0 /\ SumOf(outs) = bo
    BY <1>2, <1>5, <1>9 DEF In, In2, Out, StakeSum, ShownList, StakingTypes
  <2> QED
    BY <1>3, <1>6, <2>1, <2>2
<1>10. ASSUME tx_type \in StakingTypes PROVE Goal
  <2>1. si = 0 /\ ei = 0 /\ so = 0 /\ eo = 0
    BY <1>2, <1>4, <1>10, ListsOfTypes
  <2>2. In = bi /\ In2 = 0 /\ Out = bo /\ StakeSum = st /\ SumOf(outs) = 0
    BY <1>2, <1>5, <1>10 DEF In, In2, Out, StakeSum, StakingTypes
  <2> QED
    BY <1>3, <1>6, <2>1, <2>2
<1>11. ASSUME tx_type = "c_export_tx" PROVE Goal
  <2>1. bi = 0 /\ si = 0 /\ bo = 0 /\ st = 0 /\ eo = 0
    BY <1>2, <1>4, <1>11, ListsOfTypes
  <2>2. In = ei /\ In2 = 0 /\ Out = 0 /\ StakeSum = 0 /\ SumOf(outs) = so
    BY <1>2, <1>5, <1>11 DEF In, In2, Out, StakeSum, ShownList, StakingTypes
  <2> QED
    BY <1>3, <1>6, <2>1, <2>2
<1>12. ASSUME tx_type = "c_import_tx" PROVE Goal
  <2>1. bi = 0 /\ ei = 0 /\ bo = 0 /\ so = 0 /\ st = 0
    BY <1>2, <1>4, <1>12, ListsOfTypes
  <2>2. In = si /\ In2 = 0 /\ Out = 0 /\ StakeSum = 0 /\ SumOf(outs) = eo
    BY <1>2, <1>5, <1>12 DEF In, In2, Out, StakeSum, ShownList, StakingTypes
  <2> QED
    BY <1>3, <1>6, <2>1, <2>2
<1>13. Goal
  <2> HIDE DEF Goal
  <2> QED
    BY <1>2, <1>7, <1>8, <1>9, <1>10, <1>11, <1>12 DEF TxTypes, CTypes, PTypes, StakingTypes
<1> QED
  BY <1>13 DEF FeeIsWhole, d

------------------------------------------------------------------------------
(* The invariants of TxDocument *)

\* Keeping the outputs changes nothing of the parser: its invariants hold here.
THEOREM DocumentIsParsed == DocSpec => Spec
<1>1. DocInit => Init
  BY DEF DocInit
<1> QED
  BY <1>1, DocNextIsNext, PTL DEF DocSpec, Spec

\* The parser's invariant with what it says of the outputs.
THEOREM DocInductiveInvariant == DocSpec => []DInv
BY DocInitDInv, DocNextDInv, PTL DEF DocSpec

\* The counts, sums and outputs that parsing leaves agree: an accepted document is
\* one TxItems is about, and getNumItems counts its items.
THEOREM AcceptedDocuments == DocSpec => []AcceptedIsDocument
BY AcceptedFollows, DocInductiveInvariant, PTL

\* From the bytes to the screens: the screens show the outputs as they were read.
THEOREM AcceptedReviews == DocSpec => []AcceptedIsShown
BY ShownFollows, DocInductiveInvariant, PTL

\* The fee printers: all inputs of the document less all its outputs.
THEOREM WholeFee == DocSpec => []FeeIsWhole
BY FeeFollows, DocInductiveInvariant, PTL
==============================================================================
