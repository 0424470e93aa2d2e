---------------------------- MODULE MCPrintCommon ----------------------------
(* A small instance of PrintCommon for TLC: amounts up to the largest uint64_t *)
(* with every pattern of zeros in their decimals.                              *)
EXTENDS PrintCommon

\* The whole part and the decimals of an amount, then the amount itself.
Wholes ==
    {<<>>, <<"1">>, <<"7">>, <<"1", "0">>, <<"9", "0", "0">>,
     <<"1","8","4","4","6","7","4","4","0","7","3">>}
Fractions == [1..9 -> {"0", "5"}]

MCAmounts ==
    {Significant(w \o f) : w \in Wholes, f \in Fractions}
      \cup {<<"1","8","4","4","6","7","4","4","0","7","3",
              "7","0","9","5","5","1","6","1","5">>}

MCNetworkIds == {MAINNET_ID, COSTON_ID, COSTON2_ID, SONGBIRD_ID, 1}

\* Node ids with any number of zero bytes in front, the rest as small and as large
\* as it can be: the shortest and the longest of each kind.
MCNodeIds ==
    {[k \in 1..24 |-> IF k <= z THEN 0 ELSE IF k = z + 1 THEN first ELSE other] :
        z \in 0..24, first \in {1, 255}, other \in {0, 255}}
==============================================================================
