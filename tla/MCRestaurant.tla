---------------------------- MODULE MCRestaurant ----------------------------
(***************************************************************************)
(* Restaurant for TLC.                                                     *)
(***************************************************************************)
EXTENDS Restaurant, TLC
=============================================================================
