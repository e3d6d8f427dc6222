----------------------------- MODULE MCStartup -----------------------------
(***************************************************************************)
(* The start and the end of the park with two attractions of two handlers  *)
(* and one, the cashier and the restaurant.                                *)
(***************************************************************************)
EXTENDS Startup

MCHandlerCounts == [i \in 0 .. 2 |-> IF i = 0 THEN 2 ELSE 1]
=============================================================================
