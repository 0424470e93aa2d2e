------------------------------ MODULE MCTxDisplay ------------------------------
(* A small instance of TxDisplay for TLC. *)
EXTENDS TxDisplay

MCAddrs == {"a", "b"}

\* Outputs with no, one or two addresses.
MCOutput == [amount: 1..2, addrs: {<<>>, <<"a">>, <<"b", "a">>}]
MCEvmOutput == [amount: 1..2, addrs: {<<"a">>, <<"b">>}]

Shape(t, outs, in2, out, stake) ==
    [type: {t}, outs: outs, in: 0..UINT64_MAX, in2: in2, out: out,
     stake: stake, known: BOOLEAN]

\* Transactions the parser can deliver: no list sum exceeds UINT64_MAX.
MCDocs ==
    LET amounts == 0..UINT64_MAX
        zero == {0}
        secp == BoundedSeq(MCOutput, 2)
        evm == BoundedSeq(MCEvmOutput, 3)
        all == Shape("base_tx", secp, zero, zero, zero)
                 \cup Shape("p_export_tx", secp, zero, {0, 2}, zero)
                 \cup Shape("p_import_tx", secp, {0, 2}, zero, zero)
                 \cup Shape("c_export_tx", secp, zero, zero, zero)
                 \cup Shape("c_import_tx", evm, zero, zero, zero)
                 \cup UNION {Shape(t, {<<>>}, zero, amounts, amounts) :
                                t \in StakingTypes}
    IN  {d \in all : OutSum(d) <= UINT64_MAX}
==============================================================================
