-------------------------------- MODULE Sums --------------------------------
(***************************************************************************)
(* Adding up a sequence of numbers, as a recursive function: what a loop   *)
(* with a running total has after each of its rounds.                      *)
(***************************************************************************)
EXTENDS Integers, Sequences

(* Sums(s)[k] is the sum of the first k elements of s. *)
Sums(s) ==
  LET sum[k \in 0..Len(s)] == IF k = 0 THEN 0 ELSE sum[k - 1] + s[k]
  IN  sum

Total(s) == Sums(s)[Len(s)]
=============================================================================
