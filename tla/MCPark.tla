------------------------------- MODULE MCPark -------------------------------
(***************************************************************************)
(* Park for TLC.  The cfg files choose who the clients are, which of them  *)
(* are VIPs and which come with a child.                                   *)
(***************************************************************************)
EXTENDS Park, TLC

\* Clients of the same kind can be exchanged (used for safety only).
ClientSymmetry ==
  Permutations(Clients \ (Vips \cup Parents))
    \cup Permutations(Vips \ Parents) \cup Permutations(Parents \ Vips)
=============================================================================
