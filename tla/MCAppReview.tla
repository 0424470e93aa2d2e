----------------------------- MODULE MCAppReview -----------------------------
(* Small instances of AppReview for TLC. *)
EXTENDS AppReview, TLC

CONSTANTS a, b, p, q, eth

MCByte == {a, b}
MCChunks == {<<a>>, <<b>>}
MCPaths == {p, q}
MCFlarePaths == {p}
MCEthPaths == {eth}
MCTransactions == {<<b>>, <<a, b>>}

\* Two transfers that differ in their outputs, with and without addresses.
Transfer(outs, in) ==
    [type |-> "p_export_tx", outs |-> outs, in |-> in, in2 |-> 0, out |-> 0,
     stake |-> 0, known |-> TRUE]

MCMeaning ==
    (<<b>> :> Transfer(<<[amount |-> 1, addrs |-> <<"x">>]>>, 2))
      @@ (<<a, b>> :> Transfer(<<[amount |-> 2, addrs |-> <<>>],
                                 [amount |-> 1, addrs |-> <<>>]>>, 3))
==============================================================================
