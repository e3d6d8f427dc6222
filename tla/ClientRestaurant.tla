-------------------------- MODULE ClientRestaurant --------------------------
(***************************************************************************)
(* A client's visits to the restaurant, from the park or from outside:     *)
(* ClientProc::pVisitRestaurant, pEnterRestaurant, pLeaveRestaurant.       *)
(*                                                                         *)
(*   idle                        between two visits                        *)
(*   connect, request, signal    the restaurant's queue, ENTER_RESTAURANT  *)
(*   receive, blocked            waiting for the permit                    *)
(*   permitted, seated           the ACK, waiting for the leave semaphore  *)
(*   exitConnect, exitSend, exitSignal     EXIT_RESTAURANT and its event   *)
(*   billReceive, billBlocked, billed      waiting for the bill, the ACK   *)
(*   cleanup                     pRemoveAllMQs                             *)
(***************************************************************************)
EXTENDS RestaurantState

VisitPC == {"idle", "connect", "request", "signal", "receive", "blocked",
            "permitted", "seated", "exitConnect", "exitSend", "exitSignal",
            "billReceive", "billBlocked", "billed", "cleanup"}

Goes(c, from, to) == pc[c] = from /\ pc' = [pc EXCEPT ![c] = to]

\* pRemoveAllMQs unlinks the reply queue.  The restaurant keeps the queue, with
\* the message left in it, if it has it open.
RemoveReplyQueue(c, left) ==
  /\ linked' = linked \ {c}
  /\ replyMQ' = [replyMQ EXCEPT ![c] = "empty"]
  /\ IF cur = c /\ attached
     THEN orphan' = left /\ attached' = FALSE
     ELSE UNCHANGED <<orphan, attached>>

\* pCreateReplyMQ
CreateReplyQueue(c) == linked' = linked \cup {c}

\* A step of the client alone.
Alone(c, from, to) ==
  /\ Goes(c, from, to)
  /\ UNCHANGED <<mpc, sharedVars, restaurantVars, fromPark, visits>>

-----------------------------------------------------------------------------
(* pEnterRestaurant *)

VisitStart(c) ==
  /\ visits[c] < IF c \in Returning THEN MaxVisits ELSE 1
  /\ isOpen
  /\ visits' = [visits EXCEPT ![c] = @ + 1]
  /\ \E inPark \in BOOLEAN :
       /\ c \in IF inPark THEN Parkgoers ELSE Outsiders
       /\ fromPark' = [fromPark EXCEPT ![c] = inPark]
  /\ Goes(c, "idle", "connect")
  /\ UNCHANGED <<mpc, sharedVars, restaurantVars>>

VisitConnect(c) ==
  /\ RestaurantLinked
  /\ CreateReplyQueue(c)
  /\ Goes(c, "connect", "request")
  /\ UNCHANGED <<mpc, eventSem, restaurantMQ, leaveSem, replyMQ,
                 restaurantVars, fromPark, visits>>

VisitConnectFails(c) ==
  (~RestaurantLinked \/ QueueFails) /\ Alone(c, "connect", "cleanup")

VisitRequest(c) ==
  /\ SendRestaurant(c, "ENTER_RESTAURANT")
  /\ Goes(c, "request", "signal")
  /\ UNCHANGED <<mpc, eventSem, leaveSem, replyMQ, linked, restaurantVars,
                 fromPark, visits>>

\* CLIENT_MQ_TIMEOUT
VisitRequestTimeout(c) ==
  MessageCount >= MaxMsq /\ Alone(c, "request", "cleanup")

VisitSignal(c) ==
  /\ \/ Goes(c, "signal", "receive")
     \/ Goes(c, "exitSignal", IF fromPark[c] \/ c \notin linked
                              THEN "cleanup" ELSE "billReceive")
  /\ SignalEvent
  /\ UNCHANGED <<mpc, restaurantMQ, leaveSem, replyMQ, linked, restaurantVars,
                 fromPark, visits>>

\* mq_timedreceive takes what is in the queue, or blocks.
VisitReceive(c) ==
  /\ \/ Goes(c, "receive", IF replyMQ[c] = "empty" THEN "blocked"
                           ELSE AfterReading("receive", replyMQ[c]))
     \/ Goes(c, "billReceive", IF replyMQ[c] = "empty" THEN "billBlocked"
                               ELSE AfterReading("billReceive", replyMQ[c]))
  /\ replyMQ' = [replyMQ EXCEPT ![c] = "empty"]
  /\ UNCHANGED <<mpc, eventSem, restaurantMQ, leaveSem, linked,
                 restaurantVars, fromPark, visits>>

VisitGiveUp_PermitOnly(c) == Alone(c, "blocked", "cleanup")

\* CLIENT_MQ_TIMEOUT; the request, or the exit, stays where it is.
VisitGiveUp(c) ==
  Alone(c, "blocked", "cleanup") \/ Alone(c, "billBlocked", "cleanup")

\* The ACK of a permit or of a bill; the queue goes right after it.
VisitAck(c) ==
  /\ \/ Goes(c, "permitted", "seated")
     \/ Goes(c, "billed", "idle")
  /\ replyMQ[c] = "empty"
  /\ RemoveReplyQueue(c, "ack")
  /\ UNCHANGED <<mpc, eventSem, restaurantMQ, leaveSem, rpc, flagVars,
                 handlerVars, m_enterQueue, cur, fromPark, visits>>

\* Nobody took what is in the queue, until CLIENT_MQ_TIMEOUT.
VisitAckTimeout(c) ==
  /\ replyMQ[c] # "empty"
  /\ Alone(c, "permitted", "cleanup") \/ Alone(c, "billed", "cleanup")

VisitCleanup(c) ==
  /\ Goes(c, "cleanup", "idle")
  /\ RemoveReplyQueue(c, replyMQ[c])
  /\ UNCHANGED <<mpc, eventSem, restaurantMQ, leaveSem, rpc, flagVars,
                 handlerVars, m_enterQueue, cur, fromPark, visits>>

-----------------------------------------------------------------------------
(* The sitting and pLeaveRestaurant *)

SittingReleased(c) ==
  /\ leaveSem > 0
  /\ leaveSem' = leaveSem - 1
  /\ Goes(c, "seated", "exitConnect")
  /\ UNCHANGED <<mpc, eventSem, restaurantMQ, replyMQ, linked, restaurantVars,
                 fromPark, visits>>

\* The client's own time is over, or a signal ended the wait.
SittingTimeout(c) == Alone(c, "seated", "exitConnect")

\* Without a reply queue the client goes on.
VisitExitConnect(c) ==
  /\ Goes(c, "exitConnect", IF RestaurantLinked THEN "exitSend" ELSE "cleanup")
  /\ CreateReplyQueue(c) \/ (QueueFails /\ UNCHANGED linked)
  /\ UNCHANGED <<mpc, eventSem, restaurantMQ, leaveSem, replyMQ,
                 restaurantVars, fromPark, visits>>

VisitExitSend_Timeout(c) ==
  /\ \/ SendRestaurant(c, "EXIT_RESTAURANT")
     \/ MessageCount >= MaxMsq /\ UNCHANGED restaurantMQ
  /\ Goes(c, "exitSend", "exitSignal")
  /\ UNCHANGED <<mpc, eventSem, leaveSem, replyMQ, linked, restaurantVars,
                 fromPark, visits>>

\* No timeout: a full queue holds the client until there is room.
VisitExitSend(c) ==
  /\ SendRestaurant(c, "EXIT_RESTAURANT")
  /\ Goes(c, "exitSend", "exitSignal")
  /\ UNCHANGED <<mpc, eventSem, leaveSem, replyMQ, linked, restaurantVars,
                 fromPark, visits>>

VisitStep(c) ==
  \/ VisitConnect(c) \/ VisitConnectFails(c) \/ VisitRequest(c)
  \/ VisitRequestTimeout(c) \/ VisitSignal(c) \/ VisitReceive(c)
  \/ VisitGiveUp(c) \/ VisitAck(c) \/ VisitAckTimeout(c) \/ VisitCleanup(c)
  \/ SittingReleased(c) \/ SittingTimeout(c) \/ VisitExitConnect(c)
  \/ VisitExitSend(c)
=============================================================================
