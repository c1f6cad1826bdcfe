---------------------------- MODULE MCPromotion ----------------------------
(* Instance of Promotion for TLC: the bounds are given in the cfg files.   *)
EXTENDS Promotion
=============================================================================
