----------------------------- MODULE ClientProc -----------------------------
(***************************************************************************)
(* The client process (app/client), without the restaurant visits outside  *)
(* the park.  pc follows ClientProc::Run, pEnterPark and pLeavePark:       *)
(*                                                                         *)
(*   start                       the first test, the queue for entering    *)
(*   connect, request, signal    pEnterPark up to the event                *)
(*   receive, blocked            waiting for the permit                    *)
(*   permitted                   the permit was read                       *)
(*   inPark, visiting            the loop over the attractions             *)
(*   exitConnect                 pLeavePark: the cashier's queue           *)
(*   exitSend, exitSignal        EXIT_PARK and its event                   *)
(*   exitReceive, exitBlocked, billed     the bill                         *)
(*   cleanup                     pRemoveAllMQs on the way out              *)
(*   done, crashed               the process is gone                       *)
(*                                                                         *)
(* Between "blocked" and "permitted" (and between "exitBlocked" and        *)
(* "billed") the cashier hands the message over: see CashierSendPermit.    *)
(***************************************************************************)
EXTENDS ParkState

ClientPC ==
  {"start", "connect", "request", "signal", "receive", "blocked", "permitted",
   "inPark", "visiting", "exitConnect", "exitSend", "exitSignal",
   "exitReceive", "exitBlocked", "billed", "cleanup", "done", "crashed"}

\* A queue, and the message in it, lives on after mq_unlink only while the
\* cashier has it open.
IfHeld(c, message) == IF cur = c THEN message ELSE "empty"

GoTo(c, next) == pc' = [pc EXCEPT ![c] = next]

-----------------------------------------------------------------------------
(* Run up to pEnterPark *)

\* The first test of Run, then pCreateReplyMQ: a system out of queues ends the
\* visit.  Nobody looks at the queue before the client sends its request.
ClientStart(c) ==
  /\ pc[c] = "start"
  /\ \/ /\ isOpen
        /\ linked' = [linked EXCEPT ![c] = "enter"]
        /\ GoTo(c, "connect")
     \/ /\ ~isOpen \/ MqOpenMayFail
        /\ GoTo(c, "done")
        /\ UNCHANGED linked
  /\ UNCHANGED <<mainVars, isOpen, eventSem, registerMQ, enterMQ, exitMQ,
                 cashierVars, m_evac, m_visitedRestaurant>>

-----------------------------------------------------------------------------
(* pEnterPark *)

\* pGetRegisterMQ: ENOENT when the cashier has no queue.
ClientConnect(c) ==
  /\ pc[c] = "connect"
  /\ GoTo(c, IF RegisterLinked THEN "request" ELSE "cleanup")
  /\ UNCHANGED <<mainVars, ipcVars, cashierVars, m_evac, m_visitedRestaurant>>

ClientRequest(c) ==
  /\ pc[c] = "request"
  /\ SendRegister(c, "ENTER_PARK")
  /\ GoTo(c, "signal")
  /\ UNCHANGED <<mainVars, isOpen, eventSem, enterMQ, exitMQ, linked,
                 cashierVars, m_evac, m_visitedRestaurant>>

\* CLIENT_MQ_TIMEOUT expires on a full queue.
ClientRequestTimeout(c) ==
  /\ pc[c] = "request"
  /\ RegisterFull
  /\ GoTo(c, "cleanup")
  /\ UNCHANGED <<mainVars, ipcVars, cashierVars, m_evac, m_visitedRestaurant>>

ClientSignal(c) ==
  /\ pc[c] = "signal"
  /\ SignalEvent
  /\ GoTo(c, "receive")
  /\ UNCHANGED <<mainVars, isOpen, registerMQ, enterMQ, exitMQ, linked,
                 cashierVars, m_evac, m_visitedRestaurant>>

\* mq_timedreceive takes what is in the queue, or blocks.
ClientReceive(c) ==
  /\ pc[c] = "receive"
  /\ GoTo(c, CASE enterMQ[c] = "permit"  -> "permitted"
               [] enterMQ[c] = "refusal" -> "cleanup"
               [] OTHER                  -> "blocked")
  /\ enterMQ' = [enterMQ EXCEPT ![c] = "empty"]
  /\ UNCHANGED <<mainVars, isOpen, eventSem, registerMQ, exitMQ, linked,
                 cashierVars, m_evac, m_visitedRestaurant>>

\* CLIENT_MQ_TIMEOUT expires: no entry.
ClientGiveUp(c) ==
  /\ pc[c] = "blocked"
  /\ GoTo(c, "cleanup")
  /\ UNCHANGED <<mainVars, ipcVars, cashierVars, m_evac, m_visitedRestaurant>>

\* The ACK is sent and the queue unlinked; from here the client is inside.
ClientAck(c) ==
  /\ pc[c] = "permitted"
  /\ enterMQ' = [enterMQ EXCEPT ![c] = IfHeld(c, "ack")]
  /\ linked' = [linked EXCEPT ![c] = "none"]
  /\ GoTo(c, "inPark")
  /\ UNCHANGED <<mainVars, isOpen, eventSem, registerMQ, exitMQ, cashierVars,
                 m_evac, m_visitedRestaurant>>

-----------------------------------------------------------------------------
(* The loop of Run.  How many attractions a client visits, and for how long, *)
(* depends on random choices and on the clock, so any number of visits is a  *)
(* behaviour; a closed park and an evacuation end the loop.                  *)

ClientVisit(c) ==
  /\ pc[c] = "inPark"
  /\ isOpen
  /\ ~m_evac[c]
  /\ GoTo(c, "visiting")
  /\ UNCHANGED <<mainVars, ipcVars, cashierVars, m_evac, m_visitedRestaurant>>

\* The end of a visit to an attraction, or to the restaurant.  Only the flag
\* of a VIP is ever read (in pLeavePark), so only that one is kept.
ClientVisitEnd(c) ==
  /\ pc[c] = "visiting"
  /\ GoTo(c, "inPark")
  /\ \/ UNCHANGED m_visitedRestaurant
     \/ /\ c \in Vips
        /\ m_visitedRestaurant' = [m_visitedRestaurant EXCEPT ![c] = TRUE]
  /\ UNCHANGED <<mainVars, ipcVars, cashierVars, m_evac>>

-----------------------------------------------------------------------------
(* pLeavePark *)

\* A VIP creates no queue; a client that cannot have one goes on without.
\* m_enteredPark is false from here on, and m_evac, which only the loop reads,
\* is not kept any longer.
ClientLeave(c) ==
  /\ pc[c] = "inPark"
  /\ \/ /\ c \notin Vips
        /\ linked' = [linked EXCEPT ![c] = "exit"]
     \/ /\ c \in Vips \/ MqOpenMayFail
        /\ UNCHANGED linked
  /\ GoTo(c, "exitConnect")
  /\ m_evac' = [m_evac EXCEPT ![c] = FALSE]
  /\ UNCHANGED <<mainVars, isOpen, eventSem, registerMQ, enterMQ, exitMQ,
                 cashierVars, m_visitedRestaurant>>

ClientExitConnect(c) ==
  /\ pc[c] = "exitConnect"
  /\ GoTo(c, IF RegisterLinked THEN "exitSend" ELSE "cleanup")
  /\ UNCHANGED <<mainVars, ipcVars, cashierVars, m_evac, m_visitedRestaurant>>

\* "leaving is BLOCKING": mq_send without a timeout, retried on EINTR.
ClientExitSend(c) ==
  /\ pc[c] = "exitSend"
  /\ SendRegister(c, "EXIT_PARK")
  /\ GoTo(c, "exitSignal")
  /\ UNCHANGED <<mainVars, isOpen, eventSem, enterMQ, exitMQ, linked,
                 cashierVars, m_evac, m_visitedRestaurant>>

ClientExitSignal_VipSilent(c) ==
  /\ pc[c] = "exitSignal"
  /\ IF c \in Vips THEN UNCHANGED eventSem ELSE SignalEvent
  /\ GoTo(c, CASE c \in Vips /\ ~m_visitedRestaurant[c] -> "cleanup"
               [] linked[c] = "exit"                    -> "exitReceive"
               [] OTHER                                 -> "crashed")
  /\ UNCHANGED <<mainVars, isOpen, registerMQ, enterMQ, exitMQ, linked,
                 cashierVars, m_evac, m_visitedRestaurant>>

\* After the event a VIP that did not eat is through.  Anybody else reads
\* m_clientQueue, which is a null pointer if no queue was created.
ClientExitSignal(c) ==
  /\ pc[c] = "exitSignal"
  /\ SignalEvent
  /\ GoTo(c, CASE c \in Vips /\ ~m_visitedRestaurant[c] -> "cleanup"
               [] linked[c] = "exit"                    -> "exitReceive"
               [] OTHER                                 -> "crashed")
  /\ UNCHANGED <<mainVars, isOpen, registerMQ, enterMQ, exitMQ, linked,
                 cashierVars, m_evac, m_visitedRestaurant>>

ClientExitReceive(c) ==
  /\ pc[c] = "exitReceive"
  /\ GoTo(c, IF exitMQ[c] = "bill" THEN "billed" ELSE "exitBlocked")
  /\ exitMQ' = [exitMQ EXCEPT ![c] = "empty"]
  /\ UNCHANGED <<mainVars, isOpen, eventSem, registerMQ, enterMQ, linked,
                 cashierVars, m_evac, m_visitedRestaurant>>

ClientBillTimeout(c) ==
  /\ pc[c] = "exitBlocked"
  /\ GoTo(c, "cleanup")
  /\ UNCHANGED <<mainVars, ipcVars, cashierVars, m_evac, m_visitedRestaurant>>

ClientBillAck(c) ==
  /\ pc[c] = "billed"
  /\ exitMQ' = [exitMQ EXCEPT ![c] = "ack"]
  /\ GoTo(c, "cleanup")
  /\ UNCHANGED <<mainVars, isOpen, eventSem, registerMQ, enterMQ, linked,
                 cashierVars, m_evac, m_visitedRestaurant>>

\* pRemoveAllMQs, the rest of Run and pCloseImpl.
ClientCleanup(c) ==
  /\ pc[c] = "cleanup"
  /\ linked' = [linked EXCEPT ![c] = "none"]
  /\ enterMQ' = [enterMQ EXCEPT ![c] = IfHeld(c, @)]
  /\ exitMQ' = [exitMQ EXCEPT ![c] = IfHeld(c, @)]
  /\ m_evac' = [m_evac EXCEPT ![c] = FALSE]
  /\ GoTo(c, "done")
  /\ UNCHANGED <<mainVars, isOpen, eventSem, registerMQ, cashierVars,
                 m_visitedRestaurant>>

ClientStep(c) ==
  \/ ClientStart(c)
  \/ ClientConnect(c) \/ ClientRequest(c) \/ ClientRequestTimeout(c)
  \/ ClientSignal(c) \/ ClientReceive(c) \/ ClientGiveUp(c) \/ ClientAck(c)
  \/ ClientVisit(c) \/ ClientVisitEnd(c) \/ ClientLeave(c)
  \/ ClientExitConnect(c) \/ ClientExitSend(c)
  \/ ClientExitSignal(c) \/ ClientExitReceive(c) \/ ClientBillTimeout(c)
  \/ ClientBillAck(c) \/ ClientCleanup(c)
=============================================================================
