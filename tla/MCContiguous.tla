---------------------------- MODULE MCContiguous ----------------------------
(***************************************************************************)
(* A vector of two values, a heap of three in both orders, a buffer of four *)
(* items and the ranges of small containers.                                *)
(***************************************************************************)
EXTENDS Contiguous

ThreeElements == 1 .. 3
BothOrders == {1, -1}
SignedValues == -1 .. 1
=============================================================================
