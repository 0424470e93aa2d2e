------------------------------ MODULE PrintCommon ------------------------------
(***************************************************************************)
(* What the user reads of an amount, an address or the network.  The       *)
(* network id of the document chooses the symbol of every amount and the   *)
(* prefix of every Bech32 address (parser_get_network_id, printAmount64,   *)
(* printAddress); an amount is formatted in place in one buffer, by        *)
(* functions of the library and by remove_fraction.                        *)
(*                                                                         *)
(* An amount is the sequence of its decimal digits: it has 64 bits.        *)
(***************************************************************************)
EXTENDS Naturals, Integers, Sequences, FiniteSets, SequencesExt

CONSTANTS
    Amounts,     \* decimal digits of uint64_t values, without leading zeros
    PubKeys,     \* hashed public keys an output can name
    NodeIds,     \* sequences of NODE_ID_LEN + CB58_CHECKSUM_LEN bytes: a node id
                 \*   and its checksum
    NetworkIds   \* network ids a document can carry, known or not

Digits == {"0", "1", "2", "3", "4", "5", "6", "7", "8", "9"}
UINT64_DIGITS == 20        \* digits of the largest uint64_t
NODE_ID_LEN == 20
CB58_CHECKSUM_LEN == 4

ASSUME AmountsAssumption ==
    \A a \in Amounts : /\ a \in Seq(Digits) /\ Len(a) \in 1..UINT64_DIGITS
                       /\ a[1] = "0" => Len(a) = 1

ASSUME NodeIdsAssumption ==
    \A id \in NodeIds : id \in [1..NODE_ID_LEN + CB58_CHECKSUM_LEN -> 0..255]

MAINNET_ID == 14
COSTON_ID == 7
COSTON2_ID == 114
SONGBIRD_ID == 5

AMOUNT_DECIMAL_PLACES == 9
STR_AMOUNT_LEN == 33       \* sizeof(strAmount)
PREFIX_LEN == 7            \* "NodeID-"

\* Mutant: no room for the terminating zero of the longest node id.
NODE_ID_MAX_SIZE_NoNul == 40

NODE_ID_MAX_SIZE == 41

VARIABLES
    netword_id,   \* the network id in the document, 0 before one is read
    status,       \* "header", "ok", or an error
    shown         \* what the last screen was asked for, and its text

vars == <<netword_id, status, shown>>

Blank == [what |-> "nothing", value |-> <<>>, text |-> <<>>]

------------------------------------------------------------------------------
(* The network *)

\* Mutant: the case of COSTON2_ID falls through into that of SONGBIRD_ID.
NetworkOf_FallsThrough(id) ==
    CASE id = MAINNET_ID -> "mainnet"
      [] id = COSTON_ID -> "coston"
      [] id \in {SONGBIRD_ID, COSTON2_ID} -> "songbird"
      [] OTHER -> "unknown"

\* parser_get_network_id.
NetworkOf(id) ==
    CASE id = MAINNET_ID -> "mainnet"
      [] id = COSTON_ID -> "coston"
      [] id = COSTON2_ID -> "coston2"
      [] id = SONGBIRD_ID -> "songbird"
      [] OTHER -> "unknown"

network_id == NetworkOf(netword_id)

\* The symbol of a network, and its length.
Symbol(network) ==
    CASE network = "songbird" -> [name |-> " SGB", len |-> 4]
      [] network = "coston" -> [name |-> " CFLR", len |-> 5]
      [] network = "coston2" -> [name |-> " C2FLR", len |-> 6]
      [] network = "mainnet" -> [name |-> " FLR", len |-> 4]

Hrp(network) ==
    CASE network = "songbird" -> "song"
      [] network = "coston" -> "coston"
      [] network = "coston2" -> "costwo"
      [] network = "mainnet" -> "flare"

------------------------------------------------------------------------------
(* The number *)

Zeros(n) == [k \in 1..n |-> "0"]

\* External: intstr_to_fpstr_inplace puts a point before the last decimals.
intstr_to_fpstr_inplace(s, decimals) ==
    LET padded == IF Len(s) > decimals THEN s ELSE Zeros(decimals + 1 - Len(s)) \o s
        point  == Len(padded) - decimals
    IN  SubSeq(padded, 1, point) \o <<".">> \o SubSeq(padded, point + 1, Len(padded))

Point(s) == SelectInSeq(s, LAMBDA c : c = ".")

\* External: number_inplace_trimming drops the zeros at the end, down to the given
\* number of characters after the point.
number_inplace_trimming(s, non_trimmed) ==
    LET nonZero == SelectLastInSeq(s, LAMBDA c : c # "0")
        last    == IF nonZero > Point(s) + non_trimmed
                   THEN nonZero ELSE Point(s) + non_trimmed
    IN  IF Point(s) = 0 \/ last > Len(s) THEN s ELSE SubSeq(s, 1, last)

\* Mutant: the fraction goes when its first digit is a zero.
remove_fraction_FirstDigit(s) ==
    IF Point(s) = 0 THEN s
    ELSE IF s[Point(s) + 1] = "0" THEN SubSeq(s, 1, Point(s) - 1) ELSE s

\* Mutant: non_zero_index > len, which never holds.
remove_fraction_KeepsZero(s) == s

\* A fraction of zeros only is cut off, with the point.
remove_fraction(s) ==
    IF Point(s) = 0 THEN s
    ELSE IF \A k \in Point(s) + 1..Len(s) : s[k] = "0"
         THEN SubSeq(s, 1, Point(s) - 1) ELSE s

\* External: z_str3join appends the symbol if the buffer has room for it.
z_str3join(s, symbol) ==
    IF Len(s) + symbol.len < STR_AMOUNT_LEN THEN Append(s, symbol.name) ELSE s

printAmount64(amount, network) ==
    z_str3join(
        remove_fraction(
            number_inplace_trimming(
                intstr_to_fpstr_inplace(amount, AMOUNT_DECIMAL_PLACES), 1)),
        Symbol(network))

\* External: Bech32 text can be told from that of another prefix or another key.
bech32EncodeFromBytes(hrp, pubkey) == <<hrp, "1", pubkey>>

printAddress(pubkey, network) == bech32EncodeFromBytes(Hrp(network), pubkey)

------------------------------------------------------------------------------
(* A node id *)

\* The division of a number of base 256 by 58, up to its k-th byte.
Division(bytes) ==
    LET upTo[k \in 0..Len(bytes)] ==
            IF k = 0 THEN [quotient |-> <<>>, rest |-> 0]
            ELSE LET before == upTo[k - 1]
                     digit  == before.rest * 256 + bytes[k]
                 IN  [quotient |-> Append(before.quotient, digit \div 58),
                      rest |-> digit % 58]
    IN  upTo

Div58(bytes) == Division(bytes)[Len(bytes)].quotient

\* What is left of a number after k divisions.
Divided(bytes) ==
    LET number[k \in 0..2 * Len(bytes)] ==
            IF k = 0 THEN bytes ELSE Div58(number[k - 1])
    IN  number

IsZero(number) == \A i \in DOMAIN number : number[i] = 0

\* External: the length of what encode_base58 writes, a digit for each zero byte
\* in front and one for each division until nothing is left.
Base58Len(bytes) ==
    LET number == Divided(bytes)
        front  == {k \in 1..Len(bytes) : \A i \in 1..k : bytes[i] = 0}
        digits == {k \in 0..2 * Len(bytes) : ~IsZero(number[k])}
    IN  Cardinality(front) + Cardinality(digits)

\* The room printNodeId says encode_base58 has (sizeof(prefix) counts its zero),
\* and the length of the text, 0 when that room is too small: CHECK_ERROR.
outlen == NODE_ID_MAX_SIZE - (PREFIX_LEN + 1) + 1

printNodeId(bytes) ==
    IF Base58Len(bytes) <= outlen THEN PREFIX_LEN + Base58Len(bytes) ELSE 0

------------------------------------------------------------------------------
(* One document after another *)

Init == netword_id = 0 /\ status = "header" /\ shown = Blank

\* Mutant: an unknown network is not an error.
ReadNetwork_Accepts ==
    /\ netword_id' \in NetworkIds
    /\ status' = "ok"
    /\ shown' = Blank

\* The header of a document: an unknown network ends the parsing.
ReadNetwork ==
    /\ netword_id' \in NetworkIds
    /\ status' = IF NetworkOf(netword_id') = "unknown"
                 THEN "parser_unexpected_network" ELSE "ok"
    /\ shown' = Blank

\* A screen with an amount of the document.  One screen leaves nothing behind for
\* the next, so each document is looked at through one.
ShowAmount ==
    /\ status = "ok" /\ shown = Blank
    /\ \E a \in Amounts :
          shown' = [what |-> "Amount", value |-> a,
                    text |-> printAmount64(a, network_id)]
    /\ UNCHANGED <<netword_id, status>>

\* A screen with an address of the document.
ShowAddress ==
    /\ status = "ok" /\ shown = Blank
    /\ \E k \in PubKeys :
          shown' = [what |-> "Address", value |-> k,
                    text |-> printAddress(k, network_id)]
    /\ UNCHANGED <<netword_id, status>>

\* The first screen of a staking transaction.
ShowNodeId ==
    /\ status = "ok" /\ shown = Blank
    /\ \E bytes \in NodeIds :
          shown' = [what |-> "NodeID", value |-> bytes, text |-> printNodeId(bytes)]
    /\ UNCHANGED <<netword_id, status>>

Next == ReadNetwork \/ ShowAmount \/ ShowAddress \/ ShowNodeId

Spec == Init /\ [][Next]_vars

------------------------------------------------------------------------------
(* Properties *)

\* Every variable has a value of its type; only a known network gets to the screens.
TypeOK ==
    /\ netword_id \in NetworkIds \cup {0}
    /\ status \in {"header", "ok", "parser_unexpected_network"}
    /\ shown.what \in {"nothing", "Amount", "Address", "NodeID"}
    /\ status = "ok" => network_id # "unknown"
    /\ shown.what # "nothing" => status = "ok"

Number == SubSeq(shown.text, 1, Len(shown.text) - 1)
Whole  == IF Point(Number) = 0 THEN Number ELSE SubSeq(Number, 1, Point(Number) - 1)
Decimals == SubSeq(Number, Len(Whole) + 2, Len(Number))

\* A number without the zeros it starts with.
Significant(s) ==
    LET first == SelectInSeq(s, LAMBDA c : c # "0")
    IN  IF first = 0 THEN <<"0">> ELSE SubSeq(s, first, Len(s))

\* The number on the screen is the amount in the document: shifting its point by
\* nine places gives back every digit of the uint64_t, whatever was cut off
\* (printAmount64, remove_fraction).
AmountIsExact ==
    shown.what = "Amount" =>
        Significant(Whole \o Decimals \o Zeros(AMOUNT_DECIMAL_PLACES - Len(Decimals)))
            = shown.value

\* The number is in lowest form: no zero at the end of the fraction, no point
\* without a fraction, no superfluous zero in front; and a symbol always follows,
\* strAmount being large enough for every amount.
AmountIsReadable ==
    shown.what = "Amount" =>
        /\ Last(shown.text) = Symbol(network_id).name
        /\ Whole = Significant(Whole)
        /\ Point(Number) # 0 => Decimals # <<>> /\ Last(Decimals) # "0"

\* A reader who sees an amount or an address can tell which network the document
\* is for: for every other network id the screen would have been another.
NetworkIsVisible ==
    \A id \in NetworkIds \ {netword_id} :
        NetworkOf(id) # "unknown" =>
            /\ shown.what = "Amount" =>
                  printAmount64(shown.value, NetworkOf(id)) # shown.text
            /\ shown.what = "Address" =>
                  printAddress(shown.value, NetworkOf(id)) # shown.text

\* Every node id can be shown, whatever its digest: the longest Base58 text of a
\* node id with its checksum fits in node_id behind the prefix, with the zero byte
\* pageString looks for (NODE_ID_MAX_SIZE).
NodeIdFits ==
    shown.what = "NodeID" =>
        /\ shown.text # 0
        /\ shown.text < NODE_ID_MAX_SIZE
==============================================================================
