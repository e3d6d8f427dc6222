----------------------------- MODULE Restaurant -----------------------------
(***************************************************************************)
(* The restaurant, its diners and main's closing of the park, with what a  *)
(* visit and a sitting must satisfy.                                       *)
(***************************************************************************)
EXTENDS RestaurantProc, ClientRestaurant

\* The restaurant is registered and main signalled every event semaphore.
Init ==
  /\ mpc = "run"
  /\ eventSem = 1
  /\ restaurantMQ = <<>>
  /\ leaveSem = 0
  /\ replyMQ = [c \in Clients |-> "empty"]
  /\ linked = {}
  /\ rpc = "check"
  /\ paused = FALSE /\ evac = FALSE /\ noTimeout = FALSE
  /\ m_handler = FALSE /\ over = FALSE /\ released = FALSE
  /\ m_clientList = [c \in Clients |-> "absent"]
  /\ m_enterQueue = <<>>
  /\ cur = NoClient
  /\ attached = FALSE
  /\ orphan = "empty"
  /\ pc = [c \in Clients |-> "idle"]
  /\ fromPark = [c \in Clients |-> FALSE]
  /\ visits = [c \in Clients |-> 0]

\* HandleSigint clears isOpen, sends SIGINT to the restaurant and signals every
\* event semaphore; pCloseImpl signals them again.
MainSigint ==
  /\ SigintSent
  /\ mpc = "run"
  /\ mpc' = "kill"
  /\ UNCHANGED <<sharedVars, restaurantVars, clientVars>>

\* The restaurant is in the registry until it ends; what the call does when it is not,
\* kill(0, SIGINT), is in Startup (HandlerRestaurant).
MainKillRestaurant ==
  /\ mpc = "kill"
  /\ mpc' = "open"
  /\ \/ rpc # "done" /\ RestaurantSigInt
     \/ rpc = "done" /\ UNCHANGED restaurantVars
  /\ UNCHANGED <<sharedVars, clientVars>>

MainOpenSemaphores_NoEvent ==
  /\ mpc \in {"open", "close"}
  /\ mpc' = IF mpc = "open" THEN "close" ELSE "wait"
  /\ UNCHANGED <<sharedVars, restaurantVars, clientVars>>

MainOpenSemaphores ==
  /\ mpc \in {"open", "close"}
  /\ mpc' = IF mpc = "open" THEN "close" ELSE "wait"
  /\ SignalEvent
  /\ UNCHANGED <<restaurantMQ, leaveSem, replyMQ, linked, restaurantVars,
                 clientVars>>

Ended ==
  /\ mpc = "wait"
  /\ rpc = "done"
  /\ \A c \in Clients : pc[c] = "idle"
  /\ UNCHANGED vars

Next ==
  \/ MainSigint \/ MainKillRestaurant \/ MainOpenSemaphores
  \/ RestaurantStep \/ SittingEnds
  \/ RestaurantSigUsr1 \/ RestaurantSigUsr2
  \/ \E c \in Clients : VisitStart(c) \/ VisitStep(c)
  \/ Ended

Spec == Init /\ [][Next]_vars

\* Every process that can run does run, and the time of a sitting passes.
Fairness ==
  /\ WF_mpc(MainKillRestaurant \/ MainOpenSemaphores)
  /\ WF_restaurantVars(RestaurantStep)
  /\ WF_over(SittingEnds)
  /\ \A c \in Clients : WF_pc(VisitStep(c))

FairSpec == Spec /\ Fairness

-----------------------------------------------------------------------------
(* Safety *)

\* The values the variables take; a list is one of a sitting or of the sitting
\* being filled, and only a sitting can be over or released.
TypeOK ==
  /\ mpc \in {"run", "kill", "open", "close", "wait"}
  /\ eventSem \in Nat
  /\ restaurantMQ \in Seq(RestaurantMQMessage)
  /\ leaveSem \in Nat
  /\ replyMQ \in [Clients -> Slot]
  /\ linked \subseteq Clients
  /\ rpc \in RestaurantPC
  /\ paused \in BOOLEAN /\ evac \in BOOLEAN /\ noTimeout \in BOOLEAN
  /\ m_handler \in BOOLEAN
  /\ over \in BOOLEAN /\ (over => m_handler)
  /\ released \in BOOLEAN /\ (released => m_handler)
  /\ m_clientList \in [Clients -> ListEntry]
  /\ ~m_handler /\ rpc \notin Serving => Listed = {}
  /\ m_enterQueue \in Seq(RestaurantMQMessage)
  /\ cur \in Clients \cup {NoClient}
  /\ attached \in BOOLEAN
  /\ orphan \in Slot
  /\ pc \in [Clients -> VisitPC]
  /\ fromPark \in [Clients -> BOOLEAN]
  /\ visits \in [Clients -> 0 .. MaxVisits]

\* No sitting has more people on its list than the restaurant has seats, although
\* the seats are counted before the client answers (pRegisterClient).
SeatsRespected == People(Listed) <= MaxClients

\* While a sitting is filled, and until it is released, the leave semaphore is 0:
\* units given to a former sitting, or by a pause, send nobody of this one away
\* (the SetValue of the handler's constructor and of StartAttraction, m_released).
NoStaleRelease ==
  rpc \in Serving \/ (m_handler /\ ~released) => leaveSem = 0

\* Each message in the queue is matched by a unit of the event semaphore, by a
\* client about to give one, or by the restaurant being on its way to the queue,
\* pauses, signals and timeouts notwithstanding: one message is read for each
\* unit taken (RestaurantProc::Run, pHandleRestaurantMQ).
EventCovered ==
  rpc \notin {"close", "done"} =>
    MessageCount <= eventSem + Cardinality(Signalling)
                      + (IF rpc \in {"sweep", "recv"} THEN 1 ELSE 0)

ExitPending(c) ==
  \E i \in DOMAIN restaurantMQ :
    /\ restaurantMQ[i].senderPID = c
    /\ restaurantMQ[i].mType = "EXIT_RESTAURANT"

\* Who is on the list is in the restaurant, or its exit is under way or being
\* handled, also when the queue is full and when the park closes: the loop of
\* Run, which does not end before the list is empty, waits for nobody who left
\* (pRegisterClient, pLeaveRestaurant, pRemoveClient).
RosterHonest ==
  \A c \in Listed :
    \/ pc[c] \in {"seated", "exitConnect", "exitSend"}
    \/ ExitPending(c)
    \/ rpc \in {"openBill", "bill", "billAck"} /\ cur = c

-----------------------------------------------------------------------------
(* Liveness *)

\* Every visit ends, although leaving has no timeout, as long as the queue of the
\* restaurant has room when it closes: as nobody visits for ever, everybody who
\* comes is out some day (pVisitRestaurant).
VisitEnds ==
  (\E c \in Clients : pc[c] # "idle") ~> (\A c \in Clients : pc[c] = "idle")

\* Once the park is closed the restaurant ends, although it sweeps no sitting
\* after SIGINT or when paused and waits for the exits of those listed
\* (RestaurantProc::Run).
RestaurantEnds == ~isOpen ~> rpc = "done"

-----------------------------------------------------------------------------
(* What the repository's documents say and the code does not do *)

\* docs/temat.md: who uses the restaurant before or after the visit to the park
\* pays at the restaurant's till.  Only what follows pSendBill takes a client from
\* outside off the list; one that is off the list is never billed.
DinersPay ==
  [][\A c \in Clients :
       m_clientList[c] = "outside" /\ m_clientList'[c] = "absent"
         => rpc \in {"openBill", "bill", "billAck"}]_vars
=============================================================================
