------------------------------ MODULE PowersOfTwo ------------------------------
(***************************************************************************)
(* The powers of two the kernels shift by (1 << d): the distances of the   *)
(* rounds of a warp's scan, and the sizes a binary search halves.          *)
(***************************************************************************)
EXTENDS Integers

Pow2[n \in Nat] == IF n = 0 THEN 1 ELSE 2 * Pow2[n - 1]
=============================================================================
