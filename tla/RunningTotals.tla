----------------------------- MODULE RunningTotals -----------------------------
(* Sums over a sequence, for the modules that count items and bytes. *)
EXTENDS Naturals

\* The sum of the first k of n numbers, for each k.
Totals(w, n) ==
    LET sum[k \in 0..n] == IF k = 0 THEN 0 ELSE sum[k - 1] + w[k]
    IN  sum
==============================================================================
