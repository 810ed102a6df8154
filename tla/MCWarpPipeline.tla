---------------------------- MODULE MCWarpPipeline ----------------------------
(***************************************************************************)
(* Two threads stand for the producer warpgroup and two warps for the      *)
(* consumers.                                                              *)
(***************************************************************************)
EXTENDS WarpPipeline

CONSTANTS p1, p2, c0, c1
=============================================================================
