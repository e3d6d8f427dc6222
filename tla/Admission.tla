----------------------------- MODULE Admission -----------------------------
(***************************************************************************)
(* What the cashier promises, without queues, messages and semaphores: who *)
(* is where, whose entry it has still to note, and whom it has on its list *)
(* of guests.  A client is noted at most once, only after it entered and   *)
(* only while there is room for it, and is forgotten only after it left    *)
(* or, all at once, in a closed park.                                      *)
(***************************************************************************)
EXTENDS Integers, FiniteSets

CONSTANTS
  Clients,     \* the clients
  Parents,     \* those who bring a child
  ParkSize     \* how many people the list may stand for

VARIABLES
  open,        \* is the park open?
  where,       \* per client, outside, inside or gone
  arrivals,    \* clients whose entry is still to be noted
  guests       \* the cashier's list

avars == <<open, where, arrivals, guests>>

AdmissionOccupancy(S) == Cardinality(S) + Cardinality(S \cap Parents)

AdmissionInit ==
  /\ open = TRUE
  /\ where = [c \in Clients |-> "outside"]
  /\ arrivals = {}
  /\ guests = {}

CloseDown ==
  /\ open
  /\ open' = FALSE
  /\ UNCHANGED <<where, arrivals, guests>>

\* The client may be inside without the cashier hearing of it.
Enter(c) ==
  /\ where[c] = "outside"
  /\ where' = [where EXCEPT ![c] = "inside"]
  /\ arrivals' \in {arrivals \cup {c}, arrivals \ {c}}
  /\ UNCHANGED <<open, guests>>

TurnAway(c) ==
  /\ where[c] = "outside"
  /\ where' = [where EXCEPT ![c] = "gone"]
  /\ UNCHANGED <<open, arrivals, guests>>

Leave(c) ==
  /\ where[c] = "inside"
  /\ where' = [where EXCEPT ![c] = "gone"]
  /\ UNCHANGED <<open, arrivals, guests>>

Note(c) ==
  /\ c \in arrivals
  /\ guests' = guests \cup {c}
  /\ AdmissionOccupancy(guests') <= ParkSize
  /\ arrivals' = arrivals \ {c}
  /\ UNCHANGED <<open, where>>

\* An arrival is never noted.
Miss(c) ==
  /\ arrivals' = arrivals \ {c}
  /\ UNCHANGED <<open, where, guests>>

Forget(c) ==
  /\ where[c] = "gone"
  /\ guests' = guests \ {c}
  /\ UNCHANGED <<open, where, arrivals>>

ForgetAll ==
  /\ ~open
  /\ guests' = {}
  /\ UNCHANGED <<open, where, arrivals>>

AdmissionNext ==
  \/ CloseDown \/ ForgetAll
  \/ \E c \in Clients :
       Enter(c) \/ TurnAway(c) \/ Leave(c) \/ Note(c) \/ Miss(c) \/ Forget(c)

AdmissionSpec == AdmissionInit /\ [][AdmissionNext]_avars
=============================================================================
