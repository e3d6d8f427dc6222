---------------------------- MODULE MCAttraction ----------------------------
(***************************************************************************)
(* Attraction for TLC.                                                     *)
(***************************************************************************)
EXTENDS Attraction, TLC

\* Clients that visit once and are of the same kind can be exchanged (used for safety only).
ClientSymmetry ==
  Permutations(Clients \ (Parents \cup Unfit \cup Returning))
=============================================================================
