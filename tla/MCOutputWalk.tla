----------------------------- MODULE MCOutputWalk -----------------------------
(* A small instance of OutputWalk for TLC. *)
EXTENDS OutputWalk

MCSecpLists == UNION {[1..n -> 0..MAX_OUTPUTS] : n \in 0..3}
MCEvmLists == 0..3

\* Base outputs start at 46, are followed by the inputs and the memo length, and
\* their outs_offset is not set; exported outputs end the document.
MCPlaces ==
    {[start |-> 46, tail |-> 8, outs_offset_set |-> FALSE],
     [start |-> 90, tail |-> 0, outs_offset_set |-> TRUE]}
==============================================================================
