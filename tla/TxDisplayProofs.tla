---------------------------- MODULE TxDisplayProofs ----------------------------
(***************************************************************************)
(* Proofs about TxDisplay: what parser_validate let pass is shown whole,   *)
(* with the fee the inputs leave.                                          *)
(***************************************************************************)
EXTENDS TxDisplay, TxItemsProofs

\* While parser_validate runs, the items before idx did not fail; a document
\* under review passed it whole.
ValidatedSoFar ==
    phase = "validate" =>
        /\ idx <= getNumItems(doc, expert)
        /\ \A i \in 0..idx - 1 : parser_getItem(doc, expert, i) # Failed

ReviewedIsValidated == phase = "review" => Validated(doc, expert)

IInv == TypeOK /\ ValidatedSoFar /\ ReviewedIsValidated

LEMMA DocumentTypes ==
  ASSUME TypeOK
  PROVE  /\ IsDocument(doc)
         /\ getNumItems(doc, expert) \in 0..UINT8_MAX
<1>1. IsDocument(doc)
  BY DocsAssumption, WidthsAssumption DEF TypeOK
<1>2. CASE getNumItems(doc, expert) = 0
  BY <1>1, <1>2, WidthsAssumption
<1>3. CASE getNumItems(doc, expert) # 0
  <2>1. getNumItems(doc, expert) \in 1..UINT8_MAX
    BY <1>1, <1>3, CountIsLength DEF TypeOK
  <2> QED
    BY <1>1, <2>1, WidthsAssumption
<1> QED
  BY <1>1, <1>2, <1>3

LEMMA NoDocType == NoDoc \in Docs
  BY DocsAssumption DEF NoDoc

\* The invariant holds of every reachable state.
THEOREM InductiveInvariant == Spec => []IInv
<1>1. Init => IInv
  BY NoDocType, DocsAssumption, WidthsAssumption
  DEF Init, IInv, TypeOK, ValidatedSoFar, ReviewedIsValidated
<1>2. IInv /\ [Next]_vars => IInv'
  <2> SUFFICES ASSUME IInv, [Next]_vars
               PROVE  IInv'
    OBVIOUS
  <2> DEFINE g == getNumItems(doc, expert)
  <2>1. /\ TypeOK /\ ValidatedSoFar /\ ReviewedIsValidated
        /\ g \in 0..UINT8_MAX /\ UINT8_MAX \in Nat
    BY DocumentTypes, WidthsAssumption DEF IInv
  <2>2. ASSUME Idle, UNCHANGED expert
        PROVE  IInv'
    BY <2>1, <2>2, NoDocType
    DEF Idle, IInv, TypeOK, ValidatedSoFar, ReviewedIsValidated
  <2>3. CASE StartValidate
    <3>1. getNumItems(doc, expert)' \in 0..UINT8_MAX
      <4>1. doc' \in Docs /\ expert' = expert
        BY <2>3 DEF StartValidate
      <4>2. IsDocument(doc') /\ expert' \in BOOLEAN
        BY <2>1, <4>1, DocsAssumption, WidthsAssumption DEF TypeOK
      <4>3. getNumItems(doc', expert') # 0 => getNumItems(doc', expert') \in 1..UINT8_MAX
        BY <4>2, CountIsLength
      <4> QED
        BY <2>1, <4>3
    <3> QED
      BY <2>1, <2>3, <3>1
      DEF StartValidate, IInv, TypeOK, ValidatedSoFar, ReviewedIsValidated
  <2>4. CASE ValidateItem
    <3>1. phase = "validate" /\ idx < g /\ expert' = expert /\ idx \in 0..UINT8_MAX
      BY <2>1, <2>4 DEF ValidateItem, TypeOK
    <3>2. CASE parser_getItem(doc, expert, idx) = Failed
      BY <2>2, <2>4, <3>2 DEF ValidateItem
    <3>3. CASE parser_getItem(doc, expert, idx) # Failed
      <4>1. idx' = idx + 1 /\ doc' = doc /\ phase' = phase
        BY <2>4, <3>3 DEF ValidateItem
      <4>2. idx' \in 0..UINT8_MAX /\ idx' <= g
        <5> HIDE DEF g
        <5> QED
          BY <2>1, <3>1, <4>1
      <4>3. \A i \in 0..idx' - 1 : parser_getItem(doc, expert, i) # Failed
        <5>1. \A i \in 0..idx' - 1 : i \in 0..idx - 1 \/ i = idx
          BY <3>1, <4>1
        <5> QED
          BY <2>1, <3>1, <3>3, <5>1 DEF ValidatedSoFar
      <4> QED
        BY <2>1, <3>1, <4>1, <4>2, <4>3
        DEF IInv, TypeOK, ValidatedSoFar, ReviewedIsValidated
    <3> QED
      BY <3>2, <3>3
  <2>5. CASE EndValidate
    <3>1. phase = "validate" /\ idx >= g /\ expert' = expert /\ idx \in 0..UINT8_MAX
      BY <2>1, <2>5 DEF EndValidate, TypeOK
    <3>2. CASE g = 0
      BY <2>2, <2>5, <3>2 DEF EndValidate
    <3>3. CASE g # 0
      <4>1. phase' = "review" /\ idx' = 0 /\ doc' = doc
        BY <2>5, <3>3 DEF EndValidate
      <4>2. idx = g
        <5>1. idx <= g
          BY <2>1, <3>1 DEF ValidatedSoFar
        <5> HIDE DEF g
        <5> QED
          BY <2>1, <3>1, <5>1
      <4>3. Validated(doc, expert)
        BY <2>1, <3>1, <3>3, <4>2 DEF Validated, ValidatedSoFar
      <4>4. 0 < g
        <5> HIDE DEF g
        <5> QED
          BY <2>1, <3>3
      <4> QED
        BY <2>1, <3>1, <4>1, <4>3, <4>4
        DEF IInv, TypeOK, ValidatedSoFar, ReviewedIsValidated
    <3> QED
      BY <3>2, <3>3
  <2>6. CASE Scroll
    <3>1. phase = "review" /\ idx' \in 0..g - 1 /\ UNCHANGED <<doc, expert, phase>>
      BY <2>6 DEF Scroll
    <3>2. idx' \in 0..UINT8_MAX /\ idx' < g
      <4> HIDE DEF g
      <4> QED
        BY <2>1, <3>1
    <3> QED
      BY <2>1, <3>1, <3>2
      DEF IInv, TypeOK, ValidatedSoFar, ReviewedIsValidated
  <2>7. CASE EndReview
    BY <2>2, <2>7 DEF EndReview
  <2>8. CASE ToggleExpert
    BY <2>1, <2>8 DEF ToggleExpert, IInv, TypeOK, ValidatedSoFar, ReviewedIsValidated
  <2>9. CASE UNCHANGED vars
    BY <2>1, <2>9 DEF vars, IInv, TypeOK, ValidatedSoFar, ReviewedIsValidated
  <2> QED
    BY <2>3, <2>4, <2>5, <2>6, <2>7, <2>8, <2>9 DEF Next
<1> QED
  BY <1>1, <1>2, PTL DEF Spec

\* The item on the screen is one of the document's, and within its type.
THEOREM TypeCorrect == Spec => []TypeOK
<1>1. IInv => TypeOK
  BY DEF IInv
<1> QED
  BY <1>1, InductiveInvariant, PTL

\* The screens show every item of the transaction once and in order, for
\* outputs of any number with any number of addresses.
THEOREM ScreensComplete == Spec => []ReviewIsComplete
<1>1. IInv => ReviewIsComplete
  <2> SUFFICES ASSUME IInv, phase = "review"
               PROVE  /\ getNumItems(doc, expert) = Len(Items(doc, expert))
                      /\ \A i \in 0..getNumItems(doc, expert) - 1 :
                            tx_getItem(doc, expert, i) = Items(doc, expert)[i + 1]
    BY DEF ReviewIsComplete
  <2>1. IsDocument(doc) /\ expert \in BOOLEAN /\ Validated(doc, expert)
    BY DocumentTypes DEF IInv, TypeOK, ReviewedIsValidated
  <2> QED
    BY <2>1, ScreensAreItems
<1> QED
  BY <1>1, InductiveInvariant, PTL

\* The fee shown is what the inputs leave, with no overflow on the way.
THEOREM FeeTrue == Spec => []FeeIsTrue
<1>1. IInv => FeeIsTrue
  <2> SUFFICES ASSUME IInv, phase = "review"
               PROVE  /\ 0 <= TrueFee(doc) /\ TrueFee(doc) <= UINT64_MAX
                      /\ doc.in + doc.in2 <= UINT64_MAX
    BY DEF FeeIsTrue
  <2>1. IsDocument(doc) /\ expert \in BOOLEAN /\ Validated(doc, expert)
    BY DocumentTypes DEF IInv, TypeOK, ReviewedIsValidated
  <2>2. TrueFee(doc) \in 0..UINT64_MAX /\ doc.in + doc.in2 <= UINT64_MAX
    BY <2>1, ValidatedFee, FeeItemIsTrue
  <2> QED
    BY <2>1, <2>2, WidthsAssumption
<1> QED
  BY <1>1, InductiveInvariant, PTL
==============================================================================
