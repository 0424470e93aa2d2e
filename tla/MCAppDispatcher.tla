---------------------------- MODULE MCAppDispatcher ----------------------------
(* A small instance of AppDispatcher for TLC. *)
EXTENDS AppDispatcher

CONSTANTS
    a, b,    \* two bytes
    p, q,    \* two paths under 44'/60'
    other,   \* a path under 44'/9000'
    eth      \* a path of the EVM handlers

MCByte == {a, b}
MCChunks == {<<>>, <<a>>, <<b>>}
MCPaths == {p, q, other}
MCFlarePaths == {p, q}
MCEthPaths == {eth}
MCTransactions == {<<b>>, <<a, b>>}
==============================================================================
