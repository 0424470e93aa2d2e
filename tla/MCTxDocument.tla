----------------------------- MODULE MCTxDocument -----------------------------
(* A small instance of TxDocument for TLC. *)
EXTENDS TxDocument

CONSTANTS flr, token,   \* two asset IDs
          a             \* an address

MCAssets == {flr, token}
MCAddrs  == {a}

\* Documents of every type with lists of up to two elements, some cut short and
\* some too long.
MCBufferLens ==
    {0, 41, 42}                       \* no document, cut in the header
      \cup {54, 133, 134, 222, 242}   \* base transaction
      \cup {170, 178, 250, 258, 266} \* P-chain export and import
      \cup {174, 254, 334}            \* delegator
      \cup {222, 302}                 \* validator
      \cup {150, 230, 250}            \* C-chain export
      \cup {82, 142, 161, 202}        \* C-chain import

\* parser_txdef.h:225-230: the comparison of asset IDs is there so that every one
\* is the network's native asset, which the screens label all amounts with.
NativeOnly == status = "ok" => assets \subseteq {flr}
================================================================================
