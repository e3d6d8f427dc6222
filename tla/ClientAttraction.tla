-------------------------- MODULE ClientAttraction --------------------------
(***************************************************************************)
(* A client's visits to the attraction: ClientProc::pVisitAttraction with  *)
(* pEnterAttraction and pLeaveAttraction.                                  *)
(*                                                                         *)
(*   idle                        between two visits                        *)
(*   connect, request, signal    the attraction's queue, ENTER_ATTRACTION  *)
(*   receive, blocked            waiting for the permit                    *)
(*   permitted                   the permit was read                       *)
(*   riding                      waiting for the leave semaphore           *)
(*   exitConnect, exitSend, exitSignal     EXIT_ATTRACTION and its event   *)
(*   cleanup                     pRemoveAllMQs, no visit                   *)
(***************************************************************************)
EXTENDS RideState

VisitPC == {"idle", "connect", "request", "signal", "receive", "blocked",
            "permitted", "riding", "exitConnect", "exitSend", "exitSignal",
            "cleanup"}

GoTo(c, next) == pc' = [pc EXCEPT ![c] = next]

\* pRemoveAllMQs unlinks the reply queue.  The attraction keeps the queue, with
\* the message left in it, if it has it open.
RemoveReplyQueue(c, left) ==
  /\ linked' = linked \ {c}
  /\ replyMQ' = [replyMQ EXCEPT ![c] = Empty]
  /\ IF cur = c /\ attached
     THEN orphan' = left /\ attached' = FALSE
     ELSE UNCHANGED <<orphan, attached>>

-----------------------------------------------------------------------------
(* pEnterAttraction *)

\* The loop of ClientProc::Run chose this attraction; pCreateAttractionReplyMQ.
VisitStart(c) ==
  /\ pc[c] = "idle"
  /\ visits[c] < IF c \in Returning THEN MaxVisits ELSE 1
  /\ isOpen
  /\ ~m_evac[c]
  /\ visits' = [visits EXCEPT ![c] = @ + 1]
  /\ linked' = linked \cup {c}
  /\ GoTo(c, "connect")
  /\ UNCHANGED <<mpc, eventSem, attractionMQ, leaveSem, replyMQ,
                 attractionVars, semID, m_evac>>

VisitConnect(c) ==
  /\ pc[c] = "connect"
  /\ GoTo(c, IF AttractionLinked THEN "request" ELSE "cleanup")
  /\ UNCHANGED <<mpc, sharedVars, attractionVars, semID, visits, m_evac>>

VisitRequest(c) ==
  /\ pc[c] = "request"
  /\ SendAttraction(c, "ENTER_ATTRACTION")
  /\ GoTo(c, "signal")
  /\ UNCHANGED <<mpc, eventSem, leaveSem, replyMQ, linked, attractionVars,
                 semID, visits, m_evac>>

\* CLIENT_MQ_TIMEOUT, or a signal: the send is not retried.
VisitRequestTimeout(c) ==
  /\ pc[c] = "request"
  /\ MessageCount >= MaxMsq
  /\ GoTo(c, "cleanup")
  /\ UNCHANGED <<mpc, sharedVars, attractionVars, semID, visits, m_evac>>

VisitSignal(c) ==
  /\ pc[c] = "signal"
  /\ SignalEvent
  /\ GoTo(c, "receive")
  /\ UNCHANGED <<mpc, attractionMQ, leaveSem, replyMQ, linked, attractionVars,
                 semID, visits, m_evac>>

\* mq_timedreceive takes what is in the queue, or blocks.
VisitReceive(c) ==
  /\ pc[c] = "receive"
  /\ LET msg == replyMQ[c] IN
       /\ GoTo(c, CASE msg.mType = "permit" -> "permitted"
                    [] msg = Empty          -> "blocked"
                    [] OTHER                -> "cleanup")
       /\ semID' = IF msg.mType = "permit"
                   THEN [semID EXCEPT ![c] = msg.leaveSemaphoreID] ELSE semID
  /\ replyMQ' = [replyMQ EXCEPT ![c] = Empty]
  /\ UNCHANGED <<mpc, eventSem, attractionMQ, leaveSem, linked, attractionVars,
                 visits, m_evac>>

\* CLIENT_MQ_TIMEOUT; the request stays where it is.
VisitGiveUp(c) ==
  /\ pc[c] = "blocked"
  /\ GoTo(c, "cleanup")
  /\ UNCHANGED <<mpc, sharedVars, attractionVars, semID, visits, m_evac>>

\* The ACK is sent without a timeout, then the queue goes.
VisitAck(c) ==
  /\ pc[c] = "permitted"
  /\ replyMQ[c] = Empty
  /\ RemoveReplyQueue(c, Ack)
  /\ GoTo(c, "riding")
  /\ UNCHANGED <<mpc, eventSem, attractionMQ, leaveSem, apc, paused, noTimeout,
                 handlerVars, m_enterQueue, cur, allowed, semID, visits, m_evac>>

VisitCleanup(c) ==
  /\ pc[c] = "cleanup"
  /\ RemoveReplyQueue(c, replyMQ[c])
  /\ GoTo(c, "idle")
  /\ UNCHANGED <<mpc, eventSem, attractionMQ, leaveSem, apc, paused, noTimeout,
                 handlerVars, m_enterQueue, cur, allowed, semID, visits, m_evac>>

-----------------------------------------------------------------------------
(* The ride *)

\* The handler released its clients.
RideReleased(c) ==
  /\ pc[c] = "riding"
  /\ leaveSem[semID[c]] > 0
  /\ leaveSem' = [leaveSem EXCEPT ![semID[c]] = @ - 1]
  /\ GoTo(c, "idle")
  /\ UNCHANGED <<mpc, eventSem, attractionMQ, replyMQ, linked, attractionVars,
                 semID, visits, m_evac>>

RideTimeout_EvacuatedOnly(c) ==
  /\ pc[c] = "riding"
  /\ m_evac[c]
  /\ GoTo(c, "idle")
  /\ UNCHANGED <<mpc, sharedVars, attractionVars, semID, visits, m_evac>>

\* The wait timed out or was interrupted; an evacuated client just goes.
RideTimeout(c) ==
  /\ pc[c] = "riding"
  /\ GoTo(c, IF m_evac[c] THEN "idle" ELSE "exitConnect")
  /\ UNCHANGED <<mpc, sharedVars, attractionVars, semID, visits, m_evac>>

-----------------------------------------------------------------------------
(* pLeaveAttraction *)

VisitExitConnect(c) ==
  /\ pc[c] = "exitConnect"
  /\ GoTo(c, IF AttractionLinked THEN "exitSend" ELSE "idle")
  /\ UNCHANGED <<mpc, sharedVars, attractionVars, semID, visits, m_evac>>

\* A full queue ends the send by CLIENT_MQ_TIMEOUT, without the message.
VisitExitSend(c) ==
  /\ pc[c] = "exitSend"
  /\ \/ SendAttraction(c, "EXIT_ATTRACTION")
     \/ MessageCount >= MaxMsq /\ UNCHANGED attractionMQ
  /\ GoTo(c, "exitSignal")
  /\ UNCHANGED <<mpc, eventSem, leaveSem, replyMQ, linked, attractionVars,
                 semID, visits, m_evac>>

VisitExitSignal_Silent(c) ==
  /\ pc[c] = "exitSignal"
  /\ GoTo(c, "idle")
  /\ UNCHANGED <<mpc, sharedVars, attractionVars, semID, visits, m_evac>>

VisitExitSignal(c) ==
  /\ pc[c] = "exitSignal"
  /\ SignalEvent
  /\ GoTo(c, "idle")
  /\ UNCHANGED <<mpc, attractionMQ, leaveSem, replyMQ, linked, attractionVars,
                 semID, visits, m_evac>>

\* SIGUSR1 from the cashier or the restaurant, once the park is closed.
VisitEvacuate(c) ==
  /\ ~isOpen
  /\ ~m_evac[c]
  /\ m_evac' = [m_evac EXCEPT ![c] = TRUE]
  /\ UNCHANGED <<mpc, sharedVars, attractionVars, pc, semID, visits>>

VisitStep(c) ==
  \/ VisitConnect(c) \/ VisitRequest(c) \/ VisitRequestTimeout(c)
  \/ VisitSignal(c) \/ VisitReceive(c) \/ VisitGiveUp(c) \/ VisitAck(c)
  \/ VisitCleanup(c) \/ RideReleased(c) \/ RideTimeout(c)
  \/ VisitExitConnect(c) \/ VisitExitSend(c) \/ VisitExitSignal(c)
=============================================================================
