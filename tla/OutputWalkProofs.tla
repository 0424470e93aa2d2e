--------------------------- MODULE OutputWalkProofs ---------------------------
(***************************************************************************)
(* Proofs about OutputWalk, for lists of any length: the walk over byte    *)
(* positions, whose checks do not bound it, stays in the list it walks and *)
(* ends at the field that SecpOutputForIndex and EvmOutputForIndex of      *)
(* TxItems name.                                                           *)
(***************************************************************************)
EXTENDS OutputWalk, TxItemsProofs

\* The list: its outputs' lengths, and where each of them starts.
NList     == Len(outs)
Lens      == [m \in 1..NList |-> SecpLen(outs[m])]
Positions == Totals(Lens, NList)

\* The items of each output, and of the first k of them.
ListSizes     == [m \in 1..NList |-> 1 + outs[m]]
Counted   == Totals(ListSizes, NList)

\* The items that can be asked for.
NWanted   == IF kind = "evm" THEN NList ELSE NItems(outs)

USE DEF U32_LEN, U64_LEN, ASSET_ID_LEN, ADDRESS_LEN, AMOUNT_OFFSET,
        N_ADDRESS_OFFSET, ToAmount, ToCount, EvmLen

------------------------------------------------------------------------------
(* The inductive invariant *)

\* Lists and items are those StartWalk chooses.
ListIsAccepted ==
    /\ kind = "secp" => outs \in SecpLists \cup {<<>>}
    /\ kind = "evm" => outs \in {[k \in 1..n |-> 1] : n \in EvmLists}
    /\ pc # "idle" => wanted < NWanted

\* Before an output, all items of the outputs passed are counted, the wanted one
\* is not among them, and the offset is where they end.
AtOutput ==
    pc = "output" =>
        /\ offset = Before(i + 1)
        /\ count = IF kind = "evm" THEN i ELSE Counted[i]
        /\ count <= wanted

\* Among the addresses of an output, its amount and those addresses are counted
\* and passed too.
AtAddress ==
    pc = "addresses" =>
        /\ kind = "secp" /\ i >= 1
        /\ out_n_addr = outs[i] /\ j < out_n_addr
        /\ offset = Before(i) + ToCount + j * ADDRESS_LEN
        /\ count = Counted[i - 1] + 1 + j
        /\ count <= wanted

\* The output and the element that were found are those of the wanted item, and
\* the field was read where it is.
AtItem ==
    /\ pc = "found" => i >= 1
    /\ pc = "found" /\ kind = "evm" =>
          /\ i = wanted + 1
          /\ offset = Before(i + 1)
          /\ amount_at = AmountField(i) /\ address_at = AddressField(i, 1)
    /\ pc = "found" /\ kind = "secp" =>
          /\ element_idx \in 0..outs[i]
          /\ wanted = Counted[i - 1] + element_idx
          /\ IF element_idx = 0
             THEN offset = Before(i) + ToAmount /\ amount_at = AmountField(i)
             ELSE /\ offset = Before(i) + ToCount + element_idx * ADDRESS_LEN
                  /\ address_at = AddressField(i, element_idx)

IInv ==
    /\ TypeOK
    /\ ListIsAccepted
    /\ pc # "failed"
    /\ pc = "idle" => offset = 0
    /\ AtOutput /\ AtAddress /\ AtItem

------------------------------------------------------------------------------
(* The list *)

LEMMA Numbers ==
  ASSUME IInv
  PROVE  /\ NList \in Nat /\ i \in 0..NList
         /\ outs \in [1..NList -> Nat]
         /\ kind = "secp" => outs \in [1..NList -> 0..MAX_OUTPUTS]
         /\ kind = "evm" => \A k \in 1..NList : outs[k] = 1
         /\ kind \in {"secp", "evm"} /\ MAX_OUTPUTS \in Nat
         /\ place.start \in Nat /\ place.tail \in Nat
         /\ place.outs_offset_set \in BOOLEAN
         /\ wanted \in Nat /\ offset \in Nat /\ count \in Nat
<1>1. kind \in {"secp", "evm"} /\ MAX_OUTPUTS \in Nat
      /\ wanted \in Nat /\ offset \in Nat /\ count \in Nat /\ i \in 0..NList
  BY ListsAssumption DEF IInv, TypeOK, NList
<1>2. place.start \in Nat /\ place.tail \in Nat /\ place.outs_offset_set \in BOOLEAN
  BY PlacesAssumption DEF IInv, TypeOK
<1>3. CASE kind = "secp"
  <2>1. outs \in Seq(0..MAX_OUTPUTS)
    <3>1. <<>> \in Seq(0..MAX_OUTPUTS)
      OBVIOUS
    <3> QED
      BY <1>3, <3>1, ListsAssumption DEF IInv, ListIsAccepted
  <2>2. NList \in Nat /\ outs \in [1..NList -> 0..MAX_OUTPUTS]
    BY <2>1, LenProperties DEF NList
  <2>3. outs \in [1..NList -> Nat]
    BY <1>1, <2>2
  <2> QED
    BY <1>1, <1>2, <1>3, <2>2, <2>3
<1>4. CASE kind = "evm"
  <2>1. PICK n \in EvmLists : outs = [k \in 1..n |-> 1]
    BY <1>4 DEF IInv, ListIsAccepted
  <2>2. n \in Nat
    BY ListsAssumption
  <2>3. outs \in [1..n -> Nat] /\ \A k \in 1..n : outs[k] = 1
    BY <2>1
  <2>4. NList = n
    BY <2>2, <2>3, FunctionIsSeq DEF NList
  <2> QED
    BY <1>1, <1>2, <1>4, <2>2, <2>3, <2>4
<1> QED
  BY <1>1, <1>3, <1>4

\* The totals a walk over an array of secp outputs agrees with.
LEMMA Sums ==
  ASSUME IInv
  PROVE  /\ Positions \in [0..NList -> Nat] /\ Positions[0] = 0
         /\ Counted \in [0..NList -> Nat] /\ Counted[0] = 0
         /\ \A k \in 1..NList :
               /\ Positions[k] = Positions[k - 1] + (60 + outs[k] * 20)
               /\ Counted[k] = Counted[k - 1] + (1 + outs[k])
<1>1. NList \in Nat /\ outs \in [1..NList -> Nat]
  BY Numbers
<1>2. Lens \in [1..NList -> Nat]
      /\ \A k \in 1..NList : Lens[k] = 60 + outs[k] * 20
  <2>1. \A x \in Nat : SecpLen(x) = 60 + x * 20 /\ SecpLen(x) \in Nat
    BY DEF SecpLen
  <2> QED
    BY <1>1, <2>1 DEF Lens
<1>3. ListSizes \in [1..NList -> Nat]
      /\ \A k \in 1..NList : ListSizes[k] = 1 + outs[k]
  BY <1>1 DEF ListSizes
<1> QED
  BY <1>1, <1>2, <1>3, TotalsDefined DEF Positions, Counted

LEMMA SecpBefore ==
  ASSUME kind = "secp"
  PROVE  \A k : Before(k) = Positions[k - 1]
BY DEF Before, Positions, Lens, NList

LEMMA EvmBefore ==
  ASSUME kind = "evm"
  PROVE  \A k : Before(k) = (k - 1) * 60
BY DEF Before

\* The outputs passed end where the next one starts, and within the list.
LEMMA ListGrows ==
  ASSUME IInv, NEW k \in 1..NList
  PROVE  /\ Before(k) \in Nat /\ Before(k + 1) \in Nat /\ Before(NList + 1) \in Nat
         /\ Before(k + 1) = Before(k) + (IF kind = "evm" THEN 60 ELSE 60 + outs[k] * 20)
         /\ Before(k + 1) <= Before(NList + 1)
<1>1. NList \in Nat /\ k \in 1..NList /\ k - 1 \in 0..NList /\ k \in 0..NList
      /\ NList \in 0..NList /\ (k + 1) - 1 = k /\ (NList + 1) - 1 = NList
      /\ NList \in k..NList
  BY Numbers
<1>2. CASE kind = "secp"
  <2>1. Before(k) = Positions[k - 1] /\ Before(k + 1) = Positions[k]
        /\ Before(NList + 1) = Positions[NList]
    BY <1>1, <1>2, SecpBefore
  <2>2. Positions[k] <= Positions[NList]
    <3>1. Lens \in [1..NList -> Nat]
      <4>1. \A x \in Nat : SecpLen(x) \in Nat
        BY DEF SecpLen
      <4> QED
        BY <4>1, Numbers DEF Lens
    <3> QED
      BY <1>1, <3>1, TotalsGrow DEF Positions
  <2>3. kind # "evm"
    BY <1>2
  <2> QED
    BY <1>1, <2>1, <2>2, <2>3, Sums
<1>3. CASE kind = "evm"
  <2>1. Before(k) = (k - 1) * 60 /\ Before(k + 1) = k * 60
        /\ Before(NList + 1) = NList * 60
    BY <1>1, <1>3, EvmBefore
  <2> QED
    BY <1>1, <1>3, <2>1
<1> QED
  BY <1>2, <1>3, Numbers

\* The bound of the context is beyond the end of the list.
LEMMA BoundIsLarge ==
  ASSUME IInv
  PROVE  /\ ListEnd = place.start + Before(NList + 1)
         /\ Before(NList + 1) \in Nat
         /\ bufferLen \in Nat /\ bufferLen > Before(NList + 1)
<1>1. ListEnd = place.start + Before(NList + 1)
  BY DEF ListEnd, OutputAt, NList
<1>2. Before(NList + 1) \in Nat
  <2>1. NList \in Nat /\ (NList + 1) - 1 = NList /\ NList \in 0..NList
    BY Numbers
  <2>2. CASE kind = "secp"
    BY <2>1, <2>2, SecpBefore, Sums
  <2>3. CASE kind = "evm"
    BY <2>1, <2>3, EvmBefore
  <2> QED
    BY <2>2, <2>3, Numbers
<1>3. place.start \in Nat /\ place.tail \in Nat
  BY Numbers
<1>4. bufferLen = ((place.start + Before(NList + 1)) + place.tail)
                    - (IF place.outs_offset_set THEN place.start ELSE 0) + 1
  BY <1>1 DEF bufferLen, DocLen
<1>5. bufferLen \in Nat /\ bufferLen > Before(NList + 1)
  BY ONLY <1>2, <1>3, <1>4
<1> QED
  BY <1>1, <1>2, <1>5

\* Address counts are where one output only has its own.
LEMMA CountIsRead ==
  ASSUME IInv, kind = "secp", NEW k \in 1..NList
  PROVE  CountsAt(CountField(k)) = {outs[k]}
<1>1. \A m \in 1..NList : CountField(m) = place.start + Positions[m - 1] + 56
  <2>1. \A m \in 1..NList : Positions[m - 1] \in Nat
    <3>1. NList \in Nat /\ Positions \in [0..NList -> Nat]
      BY Numbers, Sums
    <3> QED
      BY ONLY <3>1
  <2>2. \A m : CountField(m) = ((place.start + Positions[m - 1]) + (32 + 4)) + 8 + 8 + 4
    BY SecpBefore DEF CountField, AmountField, OutputAt
  <2> QED
    <3>1. place.start \in Nat
      BY Numbers
    <3> QED
      BY ONLY <2>1, <2>2, <3>1
<1>2. ASSUME NEW m \in 1..NList, NEW q \in 1..NList, m < q
      PROVE  CountField(m) # CountField(q)
  <2>1. m \in 0..NList /\ q - 1 \in m..NList /\ q - 1 \in 0..NList /\ m - 1 \in 0..NList
    BY <1>2, Numbers
  <2>2. Positions[m] <= Positions[q - 1]
    <3>1. Lens \in [1..NList -> Nat]
      <4>1. \A x \in Nat : SecpLen(x) \in Nat
        BY DEF SecpLen
      <4> QED
        BY <4>1, Numbers DEF Lens
    <3> QED
      BY <2>1, <3>1, Numbers, TotalsGrow DEF Positions
  <2>3. Positions[m - 1] < Positions[q - 1]
    <3>1. Positions[m] = Positions[m - 1] + (60 + outs[m] * 20)
      BY Sums
    <3>2. Positions[m - 1] \in Nat /\ Positions[q - 1] \in Nat /\ outs[m] \in Nat
      BY <2>1, Numbers, Sums
    <3>3. outs[m] * 20 \in Nat
      BY <3>2
    <3> QED
      BY ONLY <2>2, <3>1, <3>2, <3>3
  <2>4. Positions[m - 1] \in Nat /\ Positions[q - 1] \in Nat /\ place.start \in Nat
    BY <2>1, Numbers, Sums
  <2>5. CountField(m) = place.start + Positions[m - 1] + 56
        /\ CountField(q) = place.start + Positions[q - 1] + 56
    BY <1>1
  <2> QED
    BY ONLY <2>3, <2>4, <2>5
<1>3. DOMAIN outs = 1..NList
  BY Numbers
<1>4. {m \in DOMAIN outs : CountField(m) = CountField(k)} = {k}
  <2>1. \A m \in 1..NList : m # k => CountField(m) # CountField(k)
    BY <1>2, Numbers
  <2> QED
    BY <1>3, <2>1
<1> QED
  BY <1>4 DEF CountsAt

\* There are as many items as getNumItems counts.
LEMMA ItemsOfList ==
  ASSUME IInv, kind = "secp"
  PROVE  NWanted = Counted[NList]
<1>1. NList \in Nat /\ outs \in [1..NList -> Nat] /\ NList \in 0..NList
  BY Numbers
<1>2. Counted[NList] = Totals(outs, NList)[NList] + NList
  BY <1>1, OneMoreEach DEF Counted, ListSizes
<1>3. NWanted = Totals(outs, NList)[NList] + NList
  BY DEF NWanted, NItems, NList
<1> QED
  BY <1>2, <1>3

\* A walk does not change what it walks over.
LEMMA SameList ==
  ASSUME kind' = kind, outs' = outs, place' = place
  PROVE  /\ NList' = NList /\ Counted' = Counted /\ NWanted' = NWanted
         /\ \A k : /\ Before(k)' = Before(k) /\ AmountField(k)' = AmountField(k)
                   /\ \A e : AddressField(k, e)' = AddressField(k, e)
<1>1. NList' = NList /\ NWanted' = NWanted
  BY DEF NList, NWanted, NItems
<1>2. Counted' = Counted
  BY DEF Counted, ListSizes, NList
<1>3. \A k : Before(k)' = Before(k)
  BY DEF Before
<1>4. \A k : OutputAt(k)' = OutputAt(k)
  BY <1>3 DEF OutputAt
<1>5. \A k : AmountField(k)' = AmountField(k)
  BY <1>4 DEF AmountField
<1>6. \A k : CountField(k)' = CountField(k)
  BY <1>5 DEF CountField
<1>7. \A k, e : AddressField(k, e)' = AddressField(k, e)
  BY <1>4, <1>6 DEF AddressField
<1> QED
  BY <1>1, <1>2, <1>3, <1>5, <1>7

\* Every field of an output starts in it, and the context has room for it.
LEMMA FieldsOfOutput ==
  ASSUME IInv, kind = "secp", NEW k \in 1..NList
  PROVE  /\ outs[k] \in 0..MAX_OUTPUTS /\ outs[k] \in Nat /\ MAX_OUTPUTS \in Nat
         /\ Before(k) \in Nat /\ bufferLen \in Nat
         /\ Before(k + 1) = Before(k) + 60 + outs[k] * 20
         /\ Before(k) + 60 + outs[k] * 20 <= bufferLen
         /\ AmountField(k) = place.start + Before(k) + 36
         /\ CountField(k) = place.start + Before(k) + 56
         /\ \A e : AddressField(k, e) = (place.start + Before(k) + 60) + (e - 1) * 20
         /\ Counted[k - 1] \in Nat
         /\ Counted[k] = Counted[k - 1] + 1 + outs[k]
<1>1. outs[k] \in 0..MAX_OUTPUTS /\ MAX_OUTPUTS \in Nat /\ outs[k] \in Nat
      /\ place.start \in Nat
  BY Numbers
<1>2. /\ Before(k) \in Nat /\ Before(k + 1) = Before(k) + (60 + outs[k] * 20)
      /\ Before(k + 1) <= Before(NList + 1)
  BY ListGrows
<1>3. bufferLen \in Nat /\ bufferLen > Before(NList + 1) /\ Before(NList + 1) \in Nat
  BY BoundIsLarge
<1>4. outs[k] * 20 \in Nat
  BY <1>1
<1>5. Before(k + 1) = Before(k) + 60 + outs[k] * 20
      /\ Before(k) + 60 + outs[k] * 20 <= bufferLen
  BY ONLY <1>2, <1>3, <1>4
<1>6. /\ AmountField(k) = place.start + Before(k) + 36
      /\ CountField(k) = place.start + Before(k) + 56
  BY <1>1, <1>2 DEF CountField, AmountField, OutputAt
<1>7. \A e : AddressField(k, e) = (place.start + Before(k) + 60) + (e - 1) * 20
  <2>1. CountField(k) + 4 = place.start + Before(k) + 60
    BY <1>1, <1>2, <1>6
  <2> QED
    BY ONLY <2>1, kind = "secp" DEF AddressField, U32_LEN, ADDRESS_LEN
<1>8. Counted[k - 1] \in Nat /\ Counted[k] = Counted[k - 1] + (1 + outs[k])
  <2>1. k - 1 \in 0..NList
    BY Numbers
  <2> QED
    BY <2>1, Sums
<1>9. Counted[k] = Counted[k - 1] + 1 + outs[k]
  BY <1>1, <1>8
<1> QED
  BY <1>1, <1>2, <1>3, <1>5, <1>6, <1>7, <1>8, <1>9

------------------------------------------------------------------------------
(* Every step keeps the invariant *)

\* The first screen: nothing is walked over yet.
LEMMA InitIInv == Init => IInv
<1> SUFFICES ASSUME Init PROVE IInv
  OBVIOUS
<1>1. kind = "secp" /\ outs = <<>> /\ pc = "idle" /\ offset = 0 /\ i = 0
  BY DEF Init
<1>2. <<>> = [k \in 1..0 |-> 1] /\ Len(outs) = 0
  BY <1>1
<1>3. TypeOK
  <2>1. outs \in {[k \in 1..n |-> 1] : n \in EvmLists \cup {0}}
    BY <1>1, <1>2
  <2>2. /\ kind \in {"secp", "evm"} /\ place \in Places
        /\ pc \in {"idle", "output", "addresses", "found", "failed"}
        /\ wanted \in Nat /\ offset \in Nat /\ count \in Nat
        /\ i \in 0..Len(outs)
        /\ out_n_addr \in 0..MAX_OUTPUTS /\ j \in 0..out_n_addr
        /\ amount_at \in Nat /\ address_at \in Nat /\ element_idx \in 0..MAX_OUTPUTS
    BY <1>1, <1>2, ListsAssumption DEF Init
  <2> QED
    BY <2>1, <2>2 DEF TypeOK
<1>4. ListIsAccepted
  BY <1>1 DEF ListIsAccepted
<1> QED
  BY <1>1, <1>3, <1>4 DEF IInv, AtOutput, AtAddress, AtItem

\* A walk begins before the first output of an accepted list.
LEMMA StartStep ==
  ASSUME StartWalk
  PROVE  IInv'
<1>1. /\ place' \in Places /\ pc' = "output" /\ offset' = 0 /\ count' = 0 /\ i' = 0
      /\ out_n_addr' = 0 /\ j' = 0 /\ amount_at' = 0 /\ address_at' = 0
      /\ element_idx' = 0
      /\ wanted' \in 0..(IF kind' = "evm" THEN Len(outs') ELSE NItems(outs')) - 1
      /\ \/ kind' = "secp" /\ outs' \in SecpLists
         \/ kind' = "evm" /\ outs' \in {[k \in 1..n |-> 1] : n \in EvmLists}
  BY DEF StartWalk
<1>2. Len(outs') \in Nat /\ outs' \in [1..Len(outs') -> Nat]
  <2>1. CASE kind' = "secp"
    <3>1. outs' \in SecpLists
      BY <1>1, <2>1
    <3>2. outs' \in Seq(0..MAX_OUTPUTS) /\ MAX_OUTPUTS \in Nat
      BY <3>1, ListsAssumption
    <3>3. Len(outs') \in Nat /\ outs' \in [1..Len(outs') -> 0..MAX_OUTPUTS]
      BY <3>2, LenProperties
    <3> QED
      BY <3>2, <3>3
  <2>2. CASE kind' = "evm"
    <3>1. outs' \in {[k \in 1..n |-> 1] : n \in EvmLists}
      BY <1>1, <2>2
    <3>2. PICK n \in EvmLists : outs' = [k \in 1..n |-> 1]
      BY <3>1
    <3>3. n \in Nat /\ outs' \in [1..n -> Nat]
      BY <3>2, ListsAssumption
    <3>4. Len(outs') = n
      BY <3>3, FunctionIsSeq
    <3> QED
      BY <3>3, <3>4
  <2> QED
    BY <1>1, <2>1, <2>2
<1>3. NItems(outs') \in Nat
  <2>1. Totals(outs', Len(outs'))[Len(outs')] \in Nat
    BY <1>2, TotalsDefined
  <2> QED
    BY <1>2, <2>1 DEF NItems
<1>4. wanted' \in Nat /\ wanted' < NWanted'
  BY <1>1, <1>2, <1>3 DEF NWanted, NList
<1>5. TypeOK'
  <2>1. (outs \in SecpLists \cup {[k \in 1..n |-> 1] : n \in EvmLists \cup {0}})'
    BY <1>1
  <2>2. (i \in 0..Len(outs))'
    BY <1>1, <1>2
  <2> QED
    BY <1>1, <1>4, <2>1, <2>2, ListsAssumption DEF TypeOK
<1>6. ListIsAccepted'
  BY <1>1, <1>4 DEF ListIsAccepted
<1>7. AtOutput'
  <2>1. kind' = "secp" => Before(1)' = 0 /\ Counted'[0] = 0
    <3>1. \A x \in Nat : SecpLen(x) \in Nat
      BY DEF SecpLen
    <3>2. [m \in 1..Len(outs') |-> SecpLen(outs'[m])] \in [1..Len(outs') -> Nat]
      BY <1>2, <3>1
    <3>3. Totals([m \in 1..Len(outs') |-> SecpLen(outs'[m])], Len(outs'))[0] = 0
      BY <1>2, <3>2, TotalsDefined
    <3>4. [m \in 1..Len(outs') |-> 1 + outs'[m]] \in [1..Len(outs') -> Nat]
      BY <1>2
    <3>5. Counted'[0] = 0
      BY <1>2, <3>4, TotalsDefined DEF Counted, ListSizes, NList
    <3>6. kind' = "secp" =>
            Before(1)' = Totals([m \in 1..Len(outs') |-> SecpLen(outs'[m])],
                                Len(outs'))[1 - 1]
      BY DEF Before
    <3>7. 1 - 1 = 0
      OBVIOUS
    <3> QED
      BY <3>3, <3>5, <3>6, <3>7
  <2>2. kind' = "evm" => Before(1)' = 0
    BY DEF Before
  <2>3. i' + 1 = 1 /\ count' = 0 /\ offset' = 0 /\ count' <= wanted'
    BY <1>1, <1>4
  <2>4. (offset = Before(i + 1))'
    BY <1>1, <2>1, <2>2, <2>3
  <2>5. (count = IF kind = "evm" THEN i ELSE Counted[i])'
    BY <1>1, <2>1
  <2> QED
    BY <2>3, <2>4, <2>5 DEF AtOutput
<1> QED
  BY <1>1, <1>5, <1>6, <1>7 DEF IInv, AtAddress, AtItem

\* What a step of a walk leaves as it is, which is common to all of them.
LEMMA WalkKeepsList ==
  ASSUME IInv, UNCHANGED docVars, pc # "idle",
         pc' \in {"output", "addresses", "found"},
         offset' \in Nat, count' \in Nat, i' \in 0..NList,
         out_n_addr' \in 0..MAX_OUTPUTS, j' \in 0..out_n_addr',
         amount_at' \in Nat, address_at' \in Nat, element_idx' \in 0..MAX_OUTPUTS
  PROVE  /\ TypeOK' /\ ListIsAccepted'
         /\ AtOutput' /\ AtAddress' /\ AtItem' => IInv'
         /\ kind' = kind /\ wanted' = wanted /\ outs' = outs
         /\ NList' = NList /\ Counted' = Counted
         /\ \A k : /\ Before(k)' = Before(k) /\ AmountField(k)' = AmountField(k)
                   /\ \A e : AddressField(k, e)' = AddressField(k, e)
<1>1. kind' = kind /\ outs' = outs /\ place' = place /\ wanted' = wanted
  BY DEF docVars
<1>2. TypeOK'
  BY <1>1 DEF IInv, TypeOK, NList
<1>3. ListIsAccepted'
  BY <1>1, SameList DEF IInv, ListIsAccepted
<1> QED
  BY <1>1, <1>2, <1>3, SameList DEF IInv

LEMMA SecpOutputStep ==
  ASSUME IInv, SecpOutput
  PROVE  IInv'
<1>1. kind = "secp" /\ pc = "output" /\ kind # "evm" /\ pc # "idle"
  BY DEF SecpOutput
<1>2. NList \in Nat /\ i \in 0..NList /\ wanted \in Nat /\ count \in Nat
      /\ offset \in Nat /\ place.start \in Nat
  BY Numbers
<1>3. offset = Before(i + 1) /\ count = Counted[i] /\ count <= wanted
  BY <1>1 DEF IInv, AtOutput
<1>4. i # NList
  <2>1. wanted < Counted[NList]
    BY <1>1, ItemsOfList DEF IInv, ListIsAccepted
  <2> QED
    BY <1>2, <1>3, <2>1
<1>5. PICK k \in 1..NList : k = i + 1
  BY <1>2, <1>4
<1>6. k - 1 = i /\ k >= 1 /\ k \in 0..NList
      /\ offset = Before(k) /\ count = Counted[k - 1]
  BY <1>2, <1>3, <1>5
<1>7. /\ outs[k] \in 0..MAX_OUTPUTS /\ outs[k] \in Nat /\ MAX_OUTPUTS \in Nat
      /\ Before(k) \in Nat /\ bufferLen \in Nat
      /\ Before(k + 1) = Before(k) + 60 + outs[k] * 20
      /\ Before(k) + 60 + outs[k] * 20 <= bufferLen
      /\ AmountField(k) = place.start + Before(k) + 36
      /\ CountField(k) = place.start + Before(k) + 56
      /\ Counted[k] = Counted[k - 1] + 1 + outs[k]
  BY <1>1, FieldsOfOutput
<1>8. outs[k] * 20 \in Nat
  BY <1>7
<1>9. /\ Avail(ToAmount) /\ Avail(ToCount) /\ Avail(ToCount + outs[k] * ADDRESS_LEN)
  BY <1>6, <1>7, <1>8 DEF Avail
<1>10. Here(AMOUNT_OFFSET) = AmountField(k)
       /\ Here(ToCount - U32_LEN) = CountField(k)
       /\ AmountField(k) \in Nat
  BY <1>2, <1>6, <1>7 DEF Here
<1>11. /\ out_n_addr \in 0..MAX_OUTPUTS /\ j \in 0..out_n_addr
       /\ amount_at \in Nat /\ address_at \in Nat /\ element_idx \in 0..MAX_OUTPUTS
  BY DEF IInv, TypeOK
<1>12. CASE count = wanted
  <2>1. /\ pc' = "found" /\ offset' = offset + 44 /\ amount_at' = AmountField(k)
        /\ element_idx' = 0 /\ i' = k
        /\ UNCHANGED <<docVars, count, out_n_addr, j, address_at>>
    BY <1>1, <1>4, <1>5, <1>9, <1>10, <1>12 DEF SecpOutput, NList
  <2>2. /\ UNCHANGED docVars /\ pc' \in {"output", "addresses", "found"}
        /\ offset' \in Nat /\ count' \in Nat /\ i' \in 0..NList
        /\ out_n_addr' \in 0..MAX_OUTPUTS /\ j' \in 0..out_n_addr'
        /\ amount_at' \in Nat /\ address_at' \in Nat /\ element_idx' \in 0..MAX_OUTPUTS
    BY <1>2, <1>6, <1>7, <1>10, <1>11, <2>1
  <2>3. /\ kind' = kind /\ wanted' = wanted /\ outs' = outs /\ Counted' = Counted
        /\ Before(k)' = Before(k) /\ AmountField(k)' = AmountField(k)
        /\ AtOutput' /\ AtAddress' /\ AtItem' => IInv'
    BY <1>1, <2>2, WalkKeepsList
  <2>4. AtOutput' /\ AtAddress'
    BY <2>1 DEF AtOutput, AtAddress
  <2>5. (offset = Before(i) + ToAmount /\ amount_at = AmountField(i))'
    BY <1>6, <2>1, <2>3
  <2>6. (i >= 1 /\ element_idx \in 0..outs[i] /\ wanted = Counted[i - 1] + element_idx)'
    <3>1. 0 \in 0..outs[k] /\ wanted = Counted[k - 1] + 0
      BY <1>2, <1>6, <1>7, <1>12
    <3> QED
      BY <1>6, <2>1, <2>3, <3>1
  <2>7. AtItem'
    BY <1>1, <2>1, <2>3, <2>5, <2>6 DEF AtItem
  <2> QED
    BY <2>3, <2>4, <2>7
<1>13. CASE count # wanted
  <2>1. \E n \in CountsAt(CountField(k)) :
           IF ~Avail(ToCount) \/ n > MAX_OUTPUTS \/ ~Avail(ToCount + n * ADDRESS_LEN)
           THEN Fail
           ELSE /\ pc' = IF n = 0 THEN "output" ELSE "addresses"
                /\ offset' = offset + ToCount
                /\ amount_at' = Here(AMOUNT_OFFSET)
                /\ count' = count + 1
                /\ i' = i + 1
                /\ out_n_addr' = n /\ j' = 0
                /\ UNCHANGED <<docVars, address_at, element_idx>>
    BY <1>1, <1>4, <1>9, <1>10, <1>13 DEF SecpOutput, NList
  <2>2. CountsAt(CountField(k)) = {outs[k]}
    BY <1>1, CountIsRead
  <2>3. /\ pc' = IF outs[k] = 0 THEN "output" ELSE "addresses"
        /\ offset' = offset + 60 /\ amount_at' = AmountField(k)
        /\ count' = count + 1 /\ i' = k
        /\ out_n_addr' = outs[k] /\ j' = 0
        /\ UNCHANGED <<docVars, address_at, element_idx>>
    BY <1>5, <1>7, <1>9, <1>10, <2>1, <2>2
  <2>4. /\ UNCHANGED docVars /\ pc' \in {"output", "addresses", "found"}
        /\ offset' \in Nat /\ count' \in Nat /\ i' \in 0..NList
        /\ out_n_addr' \in 0..MAX_OUTPUTS /\ j' \in 0..out_n_addr'
        /\ amount_at' \in Nat /\ address_at' \in Nat /\ element_idx' \in 0..MAX_OUTPUTS
    BY <1>2, <1>6, <1>7, <1>10, <1>11, <2>3
  <2>5. /\ kind' = kind /\ wanted' = wanted /\ outs' = outs /\ Counted' = Counted
        /\ Before(k)' = Before(k) /\ Before(k + 1)' = Before(k + 1)
        /\ AtOutput' /\ AtAddress' /\ AtItem' => IInv'
    BY <1>1, <2>4, WalkKeepsList
  <2>6. AtItem'
    BY <2>3 DEF AtItem
  <2>7. count' <= wanted' /\ count' = Counted[k - 1] + 1 /\ Counted[k - 1] \in Nat
    BY <1>2, <1>3, <1>6, <1>13, <2>3, <2>5
  <2>8. AtOutput'
    <3>1. outs[k] = 0 => offset' = Before(k + 1) /\ count' = Counted[k]
      BY <1>6, <1>7, <2>3, <2>7
    <3> QED
      BY <1>1, <2>3, <2>5, <2>7, <3>1 DEF AtOutput
  <2>9. AtAddress'
    <3>1. j' * 20 = 0 /\ offset' = Before(k) + 60 + j' * 20
          /\ count' = Counted[k - 1] + 1 + j'
      BY <1>6, <1>7, <2>3, <2>7
    <3>2. outs[k] # 0 => j' < out_n_addr'
      BY <1>7, <2>3
    <3> QED
      BY <1>1, <1>6, <2>3, <2>5, <2>7, <3>1, <3>2 DEF AtAddress
  <2> QED
    BY <2>5, <2>6, <2>8, <2>9
<1> QED
  BY <1>12, <1>13

LEMMA SecpAddressStep ==
  ASSUME IInv, SecpAddress
  PROVE  IInv'
<1>1. kind = "secp" /\ pc = "addresses" /\ kind # "evm" /\ pc # "idle"
  BY DEF SecpAddress
<1>2. NList \in Nat /\ i \in 0..NList /\ wanted \in Nat /\ count \in Nat
      /\ offset \in Nat /\ place.start \in Nat
  BY Numbers
<1>3. /\ i >= 1 /\ out_n_addr = outs[i] /\ j < out_n_addr
      /\ offset = Before(i) + 60 + j * 20
      /\ count = Counted[i - 1] + 1 + j /\ count <= wanted
  BY <1>1 DEF IInv, AtAddress
<1>4. PICK k \in 1..NList : k = i
  BY <1>2, <1>3
<1>5. /\ outs[k] \in 0..MAX_OUTPUTS /\ outs[k] \in Nat /\ MAX_OUTPUTS \in Nat
      /\ Before(k) \in Nat /\ bufferLen \in Nat
      /\ Before(k + 1) = Before(k) + 60 + outs[k] * 20
      /\ Before(k) + 60 + outs[k] * 20 <= bufferLen
      /\ \A e : AddressField(k, e) = (place.start + Before(k) + 60) + (e - 1) * 20
      /\ Counted[k - 1] \in Nat
      /\ Counted[k] = Counted[k - 1] + 1 + outs[k]
  BY <1>1, FieldsOfOutput
<1>6. /\ out_n_addr \in 0..MAX_OUTPUTS /\ j \in 0..out_n_addr
      /\ amount_at \in Nat /\ address_at \in Nat /\ element_idx \in 0..MAX_OUTPUTS
  BY DEF IInv, TypeOK
<1>7. /\ k >= 1 /\ k \in 0..NList /\ out_n_addr = outs[k] /\ j \in Nat
      /\ j + 1 <= outs[k]
      /\ offset = Before(k) + 60 + j * 20
      /\ count = Counted[k - 1] + 1 + j
  BY <1>3, <1>4, <1>5, <1>6
<1>8. j * 20 + 20 = (j + 1) * 20 /\ (j + 1) * 20 <= outs[k] * 20
      /\ (j + 1) * 20 \in Nat /\ j * 20 \in Nat /\ outs[k] * 20 \in Nat
  BY <1>5, <1>7
<1>9. Avail(ADDRESS_LEN)
  BY <1>5, <1>7, <1>8 DEF Avail
<1>10. Here(0) = AddressField(k, j + 1) /\ AddressField(k, j + 1) \in Nat
  <2>1. AddressField(k, j + 1) = (place.start + Before(k) + 60) + ((j + 1) - 1) * 20
    BY <1>5
  <2>2. ((j + 1) - 1) * 20 = j * 20
    BY <1>7
  <2>3. Here(0) = place.start + (Before(k) + 60 + j * 20) + 0
    BY <1>7 DEF Here
  <2> QED
    BY <1>2, <1>5, <1>8, <2>1, <2>2, <2>3
<1>11. /\ offset' = offset + 20 /\ address_at' = AddressField(k, j + 1) /\ j' = j + 1
       /\ UNCHANGED <<docVars, i, out_n_addr, amount_at>>
       /\ \/ /\ count = wanted /\ pc' = "found" /\ element_idx' = j + 1
             /\ UNCHANGED count
          \/ /\ count # wanted
             /\ pc' = IF j + 1 = out_n_addr THEN "output" ELSE "addresses"
             /\ count' = count + 1
             /\ UNCHANGED element_idx
  BY <1>9, <1>10 DEF SecpAddress, LastAddress, PassAddress
<1>12. i' = k /\ offset' = Before(k) + 60 + (j + 1) * 20
  BY <1>4, <1>5, <1>7, <1>8, <1>11
<1>13. /\ UNCHANGED docVars /\ pc' \in {"output", "addresses", "found"}
       /\ offset' \in Nat /\ count' \in Nat /\ i' \in 0..NList
       /\ out_n_addr' \in 0..MAX_OUTPUTS /\ j' \in 0..out_n_addr'
       /\ amount_at' \in Nat /\ address_at' \in Nat /\ element_idx' \in 0..MAX_OUTPUTS
  BY <1>2, <1>5, <1>6, <1>7, <1>10, <1>11, <1>12
<1>14. /\ kind' = kind /\ wanted' = wanted /\ outs' = outs /\ Counted' = Counted
       /\ Before(k)' = Before(k) /\ Before(k + 1)' = Before(k + 1)
       /\ \A e : AddressField(k, e)' = AddressField(k, e)
       /\ AtOutput' /\ AtAddress' /\ AtItem' => IInv'
  BY <1>1, <1>13, WalkKeepsList
<1>15. CASE count = wanted
  <2>1. pc' = "found" /\ element_idx' = j + 1
    BY <1>11, <1>15
  <2>2. AtOutput' /\ AtAddress'
    BY <2>1 DEF AtOutput, AtAddress
  <2>3. /\ j + 1 \in 0..outs[k] /\ wanted = Counted[k - 1] + (j + 1) /\ j + 1 # 0
    BY <1>5, <1>7, <1>15
  <2>4. (i >= 1 /\ element_idx \in 0..outs[i] /\ wanted = Counted[i - 1] + element_idx)'
    BY <1>7, <1>12, <1>14, <2>1, <2>3
  <2>5. (element_idx # 0 /\ offset = Before(i) + 60 + element_idx * 20)'
    BY <1>12, <1>14, <2>1, <2>3
  <2>6. (address_at = AddressField(i, element_idx))'
    BY <1>11, <1>12, <1>14, <2>1
  <2>7. AtItem'
    BY <1>1, <1>14, <2>1, <2>4, <2>5, <2>6 DEF AtItem
  <2> QED
    BY <1>14, <2>2, <2>7
<1>16. CASE count # wanted
  <2>1. pc' = (IF j + 1 = outs[k] THEN "output" ELSE "addresses") /\ count' = count + 1
    BY <1>7, <1>11, <1>16
  <2>2. AtItem'
    BY <2>1 DEF AtItem
  <2>3. count' <= wanted' /\ count' = Counted[k - 1] + 1 + (j + 1)
    BY <1>2, <1>3, <1>5, <1>7, <1>14, <1>16, <2>1
  <2>4. AtOutput'
    <3>1. j + 1 = outs[k] => offset' = Before(k + 1) /\ count' = Counted[k]
      BY <1>5, <1>12, <2>3
    <3> QED
      BY <1>1, <1>12, <1>14, <2>1, <2>3, <3>1 DEF AtOutput
  <2>5. AtAddress'
    <3>1. j + 1 # outs[k] => j' < out_n_addr'
      BY <1>5, <1>7, <1>11
    <3> QED
      BY <1>1, <1>7, <1>11, <1>12, <1>14, <2>1, <2>3, <3>1 DEF AtAddress
  <2> QED
    BY <1>14, <2>2, <2>4, <2>5
<1> QED
  BY <1>15, <1>16

LEMMA EvmOutputStep ==
  ASSUME IInv, EvmOutput
  PROVE  IInv'
<1>1. kind = "evm" /\ pc = "output" /\ kind # "secp" /\ pc # "idle"
  BY DEF EvmOutput
<1>2. NList \in Nat /\ i \in 0..NList /\ wanted \in Nat /\ count \in Nat
      /\ offset \in Nat /\ place.start \in Nat
  BY Numbers
<1>3. offset = Before(i + 1) /\ count = i /\ count <= wanted
  BY <1>1 DEF IInv, AtOutput
<1>4. i # NList
  <2>1. wanted < NList
    BY <1>1 DEF IInv, ListIsAccepted, NWanted
  <2> QED
    BY <1>2, <1>3, <2>1
<1>5. PICK k \in 1..NList : k = i + 1
  BY <1>2, <1>4
<1>6. k - 1 = i /\ k >= 1 /\ k \in 0..NList /\ k = count + 1 /\ offset = Before(k)
  BY <1>2, <1>3, <1>5
<1>7. /\ Before(k) \in Nat /\ Before(k + 1) = Before(k) + 60
      /\ Before(k + 1) <= Before(NList + 1)
  BY <1>1, ListGrows
<1>8. bufferLen \in Nat /\ bufferLen > Before(NList + 1) /\ Before(NList + 1) \in Nat
  BY BoundIsLarge
<1>9. Avail(EvmLen)
  BY <1>6, <1>7, <1>8 DEF Avail
<1>10. /\ Here(0) = AddressField(k, 1) /\ Here(ADDRESS_LEN) = AmountField(k)
       /\ AddressField(k, 1) \in Nat /\ AmountField(k) \in Nat
  BY <1>1, <1>2, <1>6, <1>7 DEF Here, AddressField, AmountField, OutputAt
<1>11. /\ out_n_addr \in 0..MAX_OUTPUTS /\ j \in 0..out_n_addr
       /\ amount_at \in Nat /\ address_at \in Nat /\ element_idx \in 0..MAX_OUTPUTS
  BY DEF IInv, TypeOK
<1>12. /\ offset' = offset + 60
       /\ address_at' = AddressField(k, 1) /\ amount_at' = AmountField(k)
       /\ i' = k
       /\ pc' = (IF count = wanted THEN "found" ELSE "output")
       /\ count' = (IF count = wanted THEN count ELSE count + 1)
       /\ UNCHANGED <<docVars, out_n_addr, j, element_idx>>
  BY <1>4, <1>5, <1>9, <1>10 DEF EvmOutput, NList
<1>13. /\ UNCHANGED docVars /\ pc' \in {"output", "addresses", "found"}
       /\ offset' \in Nat /\ count' \in Nat /\ i' \in 0..NList
       /\ out_n_addr' \in 0..MAX_OUTPUTS /\ j' \in 0..out_n_addr'
       /\ amount_at' \in Nat /\ address_at' \in Nat /\ element_idx' \in 0..MAX_OUTPUTS
  BY <1>2, <1>6, <1>10, <1>11, <1>12
<1>14. /\ kind' = kind /\ wanted' = wanted
       /\ Before(k + 1)' = Before(k + 1) /\ AmountField(k)' = AmountField(k)
       /\ AddressField(k, 1)' = AddressField(k, 1)
       /\ AtOutput' /\ AtAddress' /\ AtItem' => IInv'
  BY <1>1, <1>13, WalkKeepsList
<1>15. (offset = Before(i + 1))'
  <2>1. offset' = Before(k + 1)
    BY <1>6, <1>7, <1>12
  <2> QED
    BY <1>12, <1>14, <2>1
<1>16. AtOutput'
  <2>1. pc' = "output" => count' = k /\ count' <= wanted
    BY <1>2, <1>3, <1>6, <1>12
  <2> QED
    BY <1>1, <1>12, <1>14, <1>15, <2>1 DEF AtOutput
<1>17. AtAddress'
  BY <1>12 DEF AtAddress
<1>18. AtItem'
  <2>1. pc' = "found" => k = wanted + 1
    BY <1>6, <1>12
  <2>2. (amount_at = AmountField(i) /\ address_at = AddressField(i, 1))'
    BY <1>12, <1>14
  <2> QED
    BY <1>1, <1>6, <1>12, <1>14, <1>15, <2>1, <2>2 DEF AtItem
<1> QED
  BY <1>14, <1>16, <1>17, <1>18

LEMMA NextIInv == IInv /\ [Next]_vars => IInv'
<1> SUFFICES ASSUME IInv, [Next]_vars PROVE IInv'
  OBVIOUS
<1>1. CASE StartWalk
  BY <1>1, StartStep
<1>2. CASE SecpOutput
  BY <1>2, SecpOutputStep
<1>3. CASE SecpAddress
  BY <1>3, SecpAddressStep
<1>4. CASE EvmOutput
  BY <1>4, EvmOutputStep
<1>5. CASE UNCHANGED vars
  <2>1. /\ kind' = kind /\ outs' = outs /\ place' = place /\ wanted' = wanted
        /\ pc' = pc /\ offset' = offset /\ count' = count /\ i' = i
        /\ out_n_addr' = out_n_addr /\ j' = j /\ amount_at' = amount_at
        /\ address_at' = address_at /\ element_idx' = element_idx
    BY <1>5 DEF vars, docVars
  <2>2. TypeOK' /\ ListIsAccepted'
    BY <2>1, SameList DEF IInv, TypeOK, ListIsAccepted
  <2>3. AtOutput' /\ AtAddress'
    BY <2>1, SameList DEF IInv, AtOutput, AtAddress
  <2>4. AtItem'
    BY <2>1, SameList DEF IInv, AtItem
  <2> QED
    BY <2>1, <2>2, <2>3, <2>4 DEF IInv
<1> QED
  BY <1>1, <1>2, <1>3, <1>4, <1>5 DEF Next, Walk

------------------------------------------------------------------------------
(* The theorems *)

\* At every step of every walk, the items counted are those of the bytes passed
\* (parser_get_secp_output_for_index, parser_get_evm_output_index).
THEOREM InductiveInvariant == Spec => []IInv
<1> QED
  BY InitIInv, NextIInv, PTL DEF Spec

\* The loop variables of the walk stay within the bounds of their loops
\* (parser_get_secp_output_for_index, parser_get_evm_output_index).
THEOREM TypeCorrect == Spec => []TypeOK
<1>1. IInv => TypeOK
  BY DEF IInv
<1> QED
  BY <1>1, InductiveInvariant, PTL

\* Wherever a walk is, that is in the list.
LEMMA InList == IInv => StaysInList
<1> SUFFICES ASSUME IInv PROVE StaysInList
  OBVIOUS
<1>1. NList \in Nat /\ i \in 0..NList /\ place.start \in Nat /\ wanted \in Nat
      /\ kind \in {"secp", "evm"}
  BY Numbers
<1>2. ListEnd = place.start + Before(NList + 1) /\ Before(NList + 1) \in Nat
  BY BoundIsLarge
<1>3. SUFFICES offset \in Nat /\ offset <= Before(NList + 1)
  <2>1. \A x, y, z \in Nat : x <= y => z + x <= z + y
    OBVIOUS
  <2> QED
    BY <1>1, <1>2, <2>1 DEF StaysInList
<1>4. offset \in Nat
  BY Numbers
<1>5. CASE pc = "idle"
  BY <1>2, <1>5 DEF IInv
<1>6. CASE pc = "output"
  <2>1. offset = Before(i + 1)
    BY <1>6 DEF IInv, AtOutput
  <2>2. CASE i = NList
    BY <1>2, <2>1, <2>2
  <2>3. CASE i # NList
    <3>1. PICK k \in 1..NList : k = i + 1
      BY <1>1, <2>3
    <3>2. Before(k) \in Nat /\ Before(k) <= Before(k + 1)
          /\ Before(k + 1) \in Nat /\ Before(k + 1) <= Before(NList + 1)
      <4>1. outs[k] \in Nat /\ outs[k] * 20 \in Nat
        BY Numbers
      <4> QED
        BY <4>1, ListGrows
    <3> QED
      BY <1>2, <1>4, <2>1, <3>1, <3>2
  <2> QED
    BY <2>2, <2>3
<1>7. CASE pc = "addresses"
  <2>1. /\ kind = "secp" /\ i >= 1 /\ out_n_addr = outs[i] /\ j < out_n_addr
        /\ offset = Before(i) + 60 + j * 20
    BY <1>7 DEF IInv, AtAddress
  <2>2. PICK k \in 1..NList : k = i
    BY <1>1, <2>1
  <2>3. outs[k] \in Nat /\ Before(k) \in Nat /\ Before(k + 1) = Before(k) + 60 + outs[k] * 20
        /\ Before(k + 1) <= Before(NList + 1)
    BY <2>1, FieldsOfOutput, ListGrows
  <2>4. j \in Nat /\ j * 20 <= outs[k] * 20 /\ j * 20 \in Nat /\ outs[k] * 20 \in Nat
    <3>1. j \in 0..out_n_addr /\ out_n_addr \in Nat
      BY <2>1, <2>2, <2>3 DEF IInv, TypeOK
    <3> QED
      BY <2>1, <2>2, <2>3, <3>1
  <2> QED
    BY <1>2, <1>4, <2>1, <2>2, <2>3, <2>4
<1>8. CASE pc = "found" /\ kind = "secp"
  <2>1. i >= 1 /\ element_idx \in 0..outs[i]
        /\ (offset = Before(i) + 44 \/ offset = Before(i) + 60 + element_idx * 20)
    BY <1>8 DEF IInv, AtItem
  <2>2. PICK k \in 1..NList : k = i
    BY <1>1, <2>1
  <2>3. outs[k] \in Nat /\ Before(k) \in Nat /\ Before(k + 1) = Before(k) + 60 + outs[k] * 20
        /\ Before(k + 1) <= Before(NList + 1)
    BY <1>8, FieldsOfOutput, ListGrows
  <2>4. element_idx \in Nat /\ element_idx * 20 <= outs[k] * 20
        /\ element_idx * 20 \in Nat /\ outs[k] * 20 \in Nat
    BY <2>1, <2>2, <2>3
  <2> QED
    BY <1>2, <1>4, <2>1, <2>2, <2>3, <2>4
<1>9. CASE pc = "found" /\ kind = "evm"
  <2>1. i >= 1 /\ offset = Before(i + 1)
    BY <1>9 DEF IInv, AtItem
  <2>2. PICK k \in 1..NList : k = i
    BY <1>1, <2>1
  <2> QED
    BY <1>4, <2>1, <2>2, ListGrows
<1> QED
  BY <1>1, <1>5, <1>6, <1>7, <1>8, <1>9 DEF IInv, TypeOK

\* The walk reads nothing behind the list, for lists of any length and wherever
\* the list is in the document, although the bound of its context is larger.
THEOREM WalkInList == Spec => []StaysInList
BY InList, InductiveInvariant, PTL

\* Doc, as TxItems sees it.
LEMMA DocOutputs ==
  ASSUME IInv
  PROVE  /\ Len(Doc.outs) = NList
         /\ \A k \in 1..NList :
               /\ Doc.outs[k].amount = AmountField(k)
               /\ Len(Doc.outs[k].addrs) = outs[k]
               /\ \A e \in 1..outs[k] : Doc.outs[k].addrs[e] = AddressField(k, e)
<1>1. NList \in Nat /\ outs \in [1..NList -> Nat]
  BY Numbers
<1> DEFINE Output(k) == [amount |-> AmountField(k),
                         addrs |-> [e \in 1..outs[k] |-> AddressField(k, e)]]
<1>2. Doc.outs = [k \in 1..NList |-> Output(k)]
  BY <1>1 DEF Doc
<1>3. Len(Doc.outs) = NList
  <2>1. [k \in 1..NList |-> Output(k)] \in [1..NList -> {Output(k) : k \in 1..NList}]
    OBVIOUS
  <2> HIDE DEF Output
  <2> QED
    BY <1>1, <1>2, <2>1, FunctionIsSeq
<1>4. ASSUME NEW k \in 1..NList
      PROVE  /\ Doc.outs[k].amount = AmountField(k)
             /\ Len(Doc.outs[k].addrs) = outs[k]
             /\ \A e \in 1..outs[k] : Doc.outs[k].addrs[e] = AddressField(k, e)
  <2>1. Doc.outs[k] = Output(k)
    BY <1>2
  <2> DEFINE a == [e \in 1..outs[k] |-> AddressField(k, e)]
  <2>2. Doc.outs[k].amount = AmountField(k) /\ Doc.outs[k].addrs = a
    BY <2>1
  <2>3. a \in [1..outs[k] -> {AddressField(k, e) : e \in 1..outs[k]}]
        /\ \A e \in 1..outs[k] : a[e] = AddressField(k, e)
    OBVIOUS
  <2>4. outs[k] \in Nat
    BY <1>1
  <2> HIDE DEF a
  <2>5. Len(a) = outs[k]
    BY <2>3, <2>4, FunctionIsSeq
  <2> QED
    BY <2>2, <2>3, <2>5
<1> QED
  BY <1>3, <1>4

\* What TxItems computes for the wanted item of a secp list: the element of the
\* output it is in.
LEMMA ItemInList ==
  ASSUME IInv, NEW k \in 1..NList, NEW e \in 0..outs[k],
         wanted = Counted[k - 1] + e
  PROVE  SecpOutputForIndex(Doc, wanted)
           = IF e = 0 THEN Amount(AmountField(k))
                      ELSE To(AddressField(k, e))
<1>1. NList \in Nat /\ outs \in [1..NList -> Nat]
  BY Numbers
<1>2. Len(Doc.outs) = NList /\ \A m \in 1..NList : Len(Doc.outs[m].addrs) = outs[m]
  BY DocOutputs
<1> DEFINE hits == {m \in 1..NList : wanted - Counted[m - 1] <= outs[m]}
<1>3. k \in hits /\ Min(hits) = k
  <2>1. Counted = Totals([m \in 1..NList |-> 1 + outs[m]], NList)
    BY DEF Counted, ListSizes
  <2>2. /\ k \in Reached(outs, NList, Counted[k - 1] + e)
        /\ Min(Reached(outs, NList, Counted[k - 1] + e)) = k
    BY <1>1, <2>1, FirstReached
  <2>3. Reached(outs, NList, wanted) = hits
    BY <2>1 DEF Reached
  <2> QED
    BY <2>2, <2>3
<1>4. SecpOutputForIndex(Doc, wanted) = ItemAmong(Doc, Counted, wanted)
  <2>1. [m \in 1..Len(Doc.outs) |-> 1 + Len(Doc.outs[m].addrs)] = ListSizes
    BY <1>2 DEF ListSizes
  <2>2. NOuts(Doc) = NList
    BY <1>2 DEF NOuts
  <2>3. [m \in 1..NOuts(Doc) |-> 1 + Len(Doc.outs[m].addrs)] = ListSizes
    BY <1>2, <2>1, <2>2
  <2>4. Totals(ListSizes, NList) = Counted
    BY DEF Counted
  <2> QED
    BY <2>2, <2>3, <2>4 DEF SecpOutputForIndex
<1>5. {m \in 1..NOuts(Doc) : wanted - Counted[m - 1] <= Len(Doc.outs[m].addrs)} = hits
  <2>1. NOuts(Doc) = NList
    BY <1>2 DEF NOuts
  <2> QED
    BY <1>2, <2>1
<1>6. Min(hits) = k
  BY <1>3 DEF Min
<1> HIDE DEF hits
<1>7. ItemAmong(Doc, Counted, wanted)
        = IF wanted - Counted[k - 1] = 0 THEN Amount(Doc.outs[k].amount)
          ELSE To(Doc.outs[k].addrs[wanted - Counted[k - 1]])
  BY <1>3, <1>5, <1>6 DEF ItemAmong
<1>8. wanted - Counted[k - 1] = e
  <2>1. k - 1 \in 0..NList /\ Counted \in [0..NList -> Nat]
    <3>1. Counted \in [0..NList -> Nat]
      BY Sums
    <3>2. k - 1 \in 0..NList
      BY <1>1
    <3> QED
      BY <3>1, <3>2
  <2>2. Counted[k - 1] \in Nat /\ e \in Nat
    BY <1>1, <2>1
  <2>3. \A p, q \in Nat : (p + q) - p = q
    OBVIOUS
  <2> QED
    BY <2>2, <2>3
<1>9. e # 0 => e \in 1..outs[k]
  BY <1>1
<1> QED
  BY <1>4, <1>7, <1>8, <1>9, DocOutputs

LEMMA FindsField == IInv => FindsItsField
<1> SUFFICES ASSUME IInv PROVE FindsItsField
  OBVIOUS
<1>1. NList \in Nat /\ i \in 0..NList /\ wanted \in Nat /\ pc # "failed"
  BY Numbers DEF IInv
<1>2. ASSUME pc = "found", kind = "secp"
      PROVE  SecpOutputForIndex(Doc, wanted)
               = IF element_idx = 0 THEN Amount(amount_at)
                                    ELSE To(address_at)
  <2>1. /\ i >= 1 /\ element_idx \in 0..outs[i]
        /\ wanted = Counted[i - 1] + element_idx
        /\ element_idx = 0 => amount_at = AmountField(i)
        /\ element_idx # 0 => address_at = AddressField(i, element_idx)
    BY <1>2 DEF IInv, AtItem
  <2>2. i \in 1..NList
    BY <1>1, <2>1
  <2>3. SecpOutputForIndex(Doc, wanted)
          = IF element_idx = 0 THEN Amount(AmountField(i))
                               ELSE To(AddressField(i, element_idx))
    BY <2>1, <2>2, ItemInList
  <2> QED
    BY <2>1, <2>3
<1>3. ASSUME pc = "found", kind = "evm"
      PROVE  /\ EvmOutputForIndex(Doc, 2 * wanted + 1) = Amount(amount_at)
             /\ EvmOutputForIndex(Doc, 2 * wanted + 2) = To(address_at)
  <2>1. /\ i >= 1 /\ i = wanted + 1
        /\ amount_at = AmountField(i) /\ address_at = AddressField(i, 1)
    BY <1>3 DEF IInv, AtItem
  <2>2. i \in 1..NList /\ outs[i] = 1
    BY <1>1, <1>3, <2>1, Numbers
  <2>3. Doc.outs[i].amount = AmountField(i) /\ Doc.outs[i].addrs[1] = AddressField(i, 1)
    BY <2>2, DocOutputs
  <2>4. /\ ((2 * wanted + 1) - 1) \div 2 + 1 = i /\ ((2 * wanted + 1) - 1) % 2 = 0
        /\ ((2 * wanted + 2) - 1) \div 2 + 1 = i /\ ((2 * wanted + 2) - 1) % 2 # 0
    BY <1>1, <2>1
  <2>5. EvmOutputForIndex(Doc, 2 * wanted + 1) = Amount(Doc.outs[i].amount)
    BY ONLY <2>4 DEF EvmOutputForIndex
  <2>6. EvmOutputForIndex(Doc, 2 * wanted + 2) = To(Doc.outs[i].addrs[1])
    BY ONLY <2>4 DEF EvmOutputForIndex
  <2> QED
    BY <2>1, <2>3, <2>5, <2>6
<1> QED
  BY <1>1, <1>2, <1>3 DEF FindsItsField

\* Every walk ends at the item that was asked for: over any list the walk over
\* bytes computes SecpOutputForIndex and EvmOutputForIndex of TxItems.
THEOREM WalkFindsItem == Spec => []FindsItsField
BY FindsField, InductiveInvariant, PTL
==============================================================================
