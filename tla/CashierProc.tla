---------------------------- MODULE CashierProc ----------------------------
(***************************************************************************)
(* The cashier process (app/cashier).  cpc follows pInitImpl, Run and      *)
(* pCloseImpl; a call that can block or that touches a queue shared with a *)
(* client is a step of its own.                                            *)
(*                                                                         *)
(*   init, claimed            pInitImpl                                    *)
(*   check, semwait, recv     the loop test, the event semaphore, the queue*)
(*   openBill, bill, billAck  pHandleExitPark                              *)
(*   serve, permit, permitAck the two admission loops and pRegisterClient  *)
(*   close, unlinked, done    pCloseImpl                                   *)
(***************************************************************************)
EXTENDS ParkState

CashierLoop == {"check", "semwait", "recv", "openBill", "bill", "billAck",
                "serve", "permit", "permitAck"}

\* pInitImpl: refuses to start in a closed park, else publishes its PID.  That it
\* also refuses to be a second cashier is in Registry (ProcRefused).
CashierClaim ==
  /\ cpc = "init"
  /\ cpc' = IF isOpen THEN "claimed" ELSE "done"
  /\ UNCHANGED <<mainVars, ipcVars, clientVars, m_clients, m_clientCounter,
                 m_enterVipQueue, m_enterQueue, m_terminated, cur, allowed,
                 sigusr1>>

CashierCreateQueue ==
  /\ cpc = "claimed"
  /\ cpc' = "check"
  /\ UNCHANGED <<mainVars, ipcVars, clientVars, m_clients, m_clientCounter,
                 m_enterVipQueue, m_enterQueue, m_terminated, cur, allowed,
                 sigusr1>>

\* The loop test of Run.
KeepsRunning_WhileOpen ==
  /\ isOpen \/ MessageCount > 0
  /\ ~m_terminated

KeepsRunning ==
  /\ isOpen \/ m_clients # {} \/ MessageCount > 0
  /\ ~m_terminated

CashierCheck ==
  /\ cpc = "check"
  /\ cpc' = IF KeepsRunning THEN "semwait" ELSE "close"
  /\ UNCHANGED <<mainVars, ipcVars, clientVars, m_clients, m_clientCounter,
                 m_enterVipQueue, m_enterQueue, m_terminated, cur, allowed,
                 sigusr1>>

CashierWait_NeverBlocks ==
  /\ cpc = "semwait"
  /\ eventSem' = eventSem - 1
  /\ cpc' = "recv"
  /\ UNCHANGED <<mainVars, clientVars, isOpen, registerMQ, enterMQ, exitMQ,
                 linked, m_clients, m_clientCounter, m_enterVipQueue,
                 m_enterQueue, m_terminated, cur, allowed, sigusr1>>

\* Wait(1, true) on CashierEvent.
CashierWait ==
  /\ cpc = "semwait"
  /\ eventSem > 0
  /\ eventSem' = eventSem - 1
  /\ cpc' = "recv"
  /\ UNCHANGED <<mainVars, clientVars, isOpen, registerMQ, enterMQ, exitMQ,
                 linked, m_clients, m_clientCounter, m_enterVipQueue,
                 m_enterQueue, m_terminated, cur, allowed, sigusr1>>

-----------------------------------------------------------------------------
(* pHandleRegisterMQ *)

\* DEFAULT_MQ_TIMEOUT expires on an empty queue.
CashierReceiveTimeout ==
  /\ cpc = "recv"
  /\ MessageCount = 0
  /\ cpc' = "serve"
  /\ UNCHANGED <<mainVars, ipcVars, clientVars, m_clients, m_clientCounter,
                 m_enterVipQueue, m_enterQueue, m_terminated, cur, allowed,
                 sigusr1>>

\* ENTER_PARK: pHandleEnterPark sorts the request by the client's status.
CashierReceiveEnter ==
  /\ cpc = "recv"
  /\ MessageCount > 0
  /\ TopMessage.mType = "ENTER_PARK"
  /\ ReceiveRegister
  /\ LET c == TopMessage.senderPID IN
       IF c \in Vips
       THEN /\ m_enterVipQueue' = Append(m_enterVipQueue, c)
            /\ UNCHANGED m_enterQueue
       ELSE /\ m_enterQueue' = Append(m_enterQueue, c)
            /\ UNCHANGED m_enterVipQueue
  /\ cpc' = "serve"
  /\ UNCHANGED <<mainVars, clientVars, isOpen, eventSem, enterMQ, exitMQ,
                 linked, m_clients, m_clientCounter, m_terminated, cur,
                 allowed, sigusr1>>

\* pRemoveClient does nothing for a client the map does not hold.
RemoveClient_Recount(c) ==
  /\ m_clients' = m_clients \ {c}
  /\ m_clientCounter' = m_clientCounter - People(c)

RemoveClient(c) ==
  /\ m_clients' = m_clients \ {c}
  /\ m_clientCounter' =
       IF c \in m_clients THEN m_clientCounter - People(c) ELSE m_clientCounter

\* EXIT_PARK that needs no bill: a client the cashier never registered, or a
\* VIP (ExitPark::visitedRestaurant is always sent as false).
CashierReceiveExit ==
  /\ cpc = "recv"
  /\ MessageCount > 0
  /\ TopMessage.mType = "EXIT_PARK"
  /\ TopMessage.senderPID \notin m_clients \/ TopMessage.senderPID \in Vips
  /\ ReceiveRegister
  /\ RemoveClient(TopMessage.senderPID)
  /\ cpc' = "serve"
  /\ UNCHANGED <<mainVars, clientVars, isOpen, eventSem, enterMQ, exitMQ,
                 linked, m_enterVipQueue, m_enterQueue, m_terminated, cur,
                 allowed, sigusr1>>

\* EXIT_PARK of a registered client with a ticket: a bill is due.
CashierReceiveExitBill ==
  /\ cpc = "recv"
  /\ MessageCount > 0
  /\ TopMessage.mType = "EXIT_PARK"
  /\ TopMessage.senderPID \in m_clients \ Vips
  /\ ReceiveRegister
  /\ cur' = TopMessage.senderPID
  /\ cpc' = "openBill"
  /\ UNCHANGED <<mainVars, clientVars, isOpen, eventSem, enterMQ, exitMQ,
                 linked, m_clients, m_clientCounter, m_enterVipQueue,
                 m_enterQueue, m_terminated, allowed, sigusr1>>

FinishExit_Unnoted ==
  /\ cur' = NoClient
  /\ cpc' = "serve"
  /\ UNCHANGED <<m_clients, m_clientCounter, m_enterVipQueue, m_enterQueue,
                 m_terminated, allowed, sigusr1>>

\* The exit is over, whatever happened to the bill.
FinishExit ==
  /\ RemoveClient(cur)
  /\ cur' = NoClient
  /\ cpc' = "serve"
  /\ UNCHANGED <<m_enterVipQueue, m_enterQueue, m_terminated, allowed, sigusr1>>

\* pCreateReplyMQ on the way out: ENOENT ends the exit without a bill.
CashierOpenBill ==
  /\ cpc = "openBill"
  /\ \/ /\ linked[cur] = "exit"
        /\ cpc' = "bill"
        /\ UNCHANGED <<m_clients, m_clientCounter, m_enterVipQueue,
                       m_enterQueue, m_terminated, cur, allowed, sigusr1>>
     \/ /\ linked[cur] # "exit"
        /\ FinishExit
  /\ UNCHANGED <<mainVars, ipcVars, clientVars>>

\* A client blocked in mq_timedreceive gets the message; otherwise it stays
\* in the queue, where the next receiver, the cashier included, finds it.
CashierSendBill ==
  /\ cpc = "bill"
  /\ IF pc[cur] = "exitBlocked"
     THEN /\ pc' = [pc EXCEPT ![cur] = "billed"]
          /\ UNCHANGED exitMQ
     ELSE /\ exitMQ' = [exitMQ EXCEPT ![cur] = "bill"]
          /\ UNCHANGED pc
  /\ cpc' = "billAck"
  /\ UNCHANGED <<mainVars, isOpen, eventSem, registerMQ, enterMQ, linked,
                 m_clients, m_clientCounter, m_enterVipQueue, m_enterQueue,
                 m_terminated, cur, allowed, sigusr1, m_evac,
                 m_visitedRestaurant>>

\* The reply to the bill: any message, or none before DEFAULT_MQ_TIMEOUT.
CashierBillAck ==
  /\ cpc = "billAck"
  /\ exitMQ' = [exitMQ EXCEPT ![cur] = "empty"]
  /\ FinishExit
  /\ UNCHANGED <<mainVars, clientVars, isOpen, eventSem, registerMQ, enterMQ,
                 linked>>

-----------------------------------------------------------------------------
(* The two admission loops of Run, and pRegisterClient *)

NextRequest_RegularFirst ==
  IF m_enterQueue # <<>> THEN Head(m_enterQueue) ELSE Head(m_enterVipQueue)

NextRequest ==
  IF m_enterVipQueue # <<>> THEN Head(m_enterVipQueue) ELSE Head(m_enterQueue)

Requests == {m_enterVipQueue[i] : i \in DOMAIN m_enterVipQueue}
              \cup {m_enterQueue[i] : i \in DOMAIN m_enterQueue}

EraseRequest(c) ==
  IF c \in Vips
  THEN /\ m_enterVipQueue' = Tail(m_enterVipQueue)
       /\ UNCHANGED m_enterQueue
  ELSE /\ m_enterQueue' = Tail(m_enterQueue)
       /\ UNCHANGED m_enterVipQueue

Fits_IgnoresChild(c) == m_clientCounter + 1 <= ParkSize
Fits(c) == m_clientCounter + People(c) <= ParkSize

\* No request is left, or the first one finds an open park full.
CashierServeEnd ==
  /\ cpc = "serve"
  /\ \/ m_enterVipQueue = <<>> /\ m_enterQueue = <<>>
     \/ /\ m_enterVipQueue # <<>> \/ m_enterQueue # <<>>
        /\ isOpen
        /\ ~Fits(NextRequest)
  /\ cpc' = "check"
  /\ UNCHANGED <<mainVars, ipcVars, clientVars, m_clients, m_clientCounter,
                 m_enterVipQueue, m_enterQueue, m_terminated, cur, allowed,
                 sigusr1>>

\* The start of pRegisterClient: read isOpen, check the space, open the
\* client's queue.  A client that has gone (ENOENT) loses its turn.
CashierServe ==
  /\ cpc = "serve"
  /\ m_enterVipQueue # <<>> \/ m_enterQueue # <<>>
  /\ isOpen => Fits(NextRequest)
  /\ \/ /\ linked[NextRequest] = "enter"
        /\ cur' = NextRequest
        /\ allowed' = isOpen
        /\ cpc' = "permit"
        /\ UNCHANGED <<m_enterVipQueue, m_enterQueue>>
     \/ /\ linked[NextRequest] # "enter"
        /\ EraseRequest(NextRequest)
        /\ UNCHANGED <<cur, allowed, cpc>>
  /\ UNCHANGED <<mainVars, ipcVars, clientVars, m_clients, m_clientCounter,
                 m_terminated, sigusr1>>

FinishRequest_OnePerEvent ==
  /\ EraseRequest(cur)
  /\ cur' = NoClient
  /\ allowed' = FALSE
  /\ cpc' = "check"

FinishRequest_NotErased ==
  /\ UNCHANGED <<m_enterVipQueue, m_enterQueue>>
  /\ cur' = NoClient
  /\ allowed' = FALSE
  /\ cpc' = "serve"

\* pRegisterClient returned true; its local variables are gone.
FinishRequest ==
  /\ EraseRequest(cur)
  /\ cur' = NoClient
  /\ allowed' = FALSE
  /\ cpc' = "serve"

\* pSendReply: after a refusal nobody waits for an ACK, and the queue is gone
\* if the client unlinked it meanwhile.
CashierSendPermit ==
  /\ cpc = "permit"
  /\ IF pc[cur] = "blocked"
     THEN /\ pc' = [pc EXCEPT ![cur] = IF allowed THEN "permitted" ELSE "cleanup"]
          /\ UNCHANGED enterMQ
     ELSE /\ enterMQ' = [enterMQ EXCEPT ![cur] =
                           CASE allowed                  -> "permit"
                             [] linked[cur] = "enter"    -> "refusal"
                             [] OTHER                    -> "empty"]
          /\ UNCHANGED pc
  /\ \/ /\ allowed
        /\ cpc' = "permitAck"
        /\ UNCHANGED <<m_enterVipQueue, m_enterQueue, cur, allowed>>
     \/ /\ ~allowed
        /\ FinishRequest
  /\ UNCHANGED <<mainVars, isOpen, eventSem, registerMQ, exitMQ, linked,
                 m_clients, m_clientCounter, m_terminated, sigusr1, m_evac,
                 m_visitedRestaurant>>

RegisterClient(c) ==
  /\ m_clients' = m_clients \cup {c}
  /\ m_clientCounter' = m_clientCounter + People(c)

\* The ACK arrived: the client is registered.
CashierAdmit ==
  /\ cpc = "permitAck"
  /\ enterMQ[cur] = "ack"
  /\ enterMQ' = [enterMQ EXCEPT ![cur] = "empty"]
  /\ RegisterClient(cur)
  /\ FinishRequest
  /\ UNCHANGED <<mainVars, clientVars, isOpen, eventSem, registerMQ, exitMQ,
                 linked, m_terminated, sigusr1>>

CashierNoAck_Registered ==
  /\ cpc = "permitAck"
  /\ enterMQ[cur] # "ack"
  /\ enterMQ' = [enterMQ EXCEPT ![cur] = "empty"]
  /\ RegisterClient(cur)
  /\ FinishRequest
  /\ UNCHANGED <<mainVars, clientVars, isOpen, eventSem, registerMQ, exitMQ,
                 linked, m_terminated, sigusr1>>

\* No ACK: nothing came before DEFAULT_MQ_TIMEOUT, or the cashier received
\* its own permit back.  The request is dropped.
CashierNoAck ==
  /\ cpc = "permitAck"
  /\ enterMQ[cur] # "ack"
  /\ enterMQ' = [enterMQ EXCEPT ![cur] = "empty"]
  /\ FinishRequest
  /\ UNCHANGED <<mainVars, clientVars, isOpen, eventSem, registerMQ, exitMQ,
                 linked, m_clients, m_clientCounter, m_terminated, sigusr1>>

-----------------------------------------------------------------------------
(* pCloseImpl *)

CashierUnlink ==
  /\ cpc = "close"
  /\ cpc' = "unlinked"
  /\ UNCHANGED <<mainVars, ipcVars, clientVars, m_clients, m_clientCounter,
                 m_enterVipQueue, m_enterQueue, m_terminated, cur, allowed,
                 sigusr1>>

\* A signal that is still pending goes with the process.
CashierDeregister ==
  /\ cpc = "unlinked"
  /\ cpc' = "done"
  /\ sigusr1' = FALSE
  /\ UNCHANGED <<mainVars, ipcVars, clientVars, m_clients, m_clientCounter,
                 m_enterVipQueue, m_enterQueue, m_terminated, cur, allowed>>

-----------------------------------------------------------------------------
(* Signal handlers.  A signal that finds the cashier blocked on CashierEvent *)
(* makes Wait return: with timeout -1 SemSignal computes an end time in the  *)
(* past, so it gives up on EINTR although retryOnInterrupt is set.  A signal *)
(* that arrives just before semop is handled first, and semop still blocks.  *)

Interrupt ==
  cpc' \in IF cpc = "semwait" /\ eventSem = 0 THEN {"semwait", "recv"} ELSE {cpc}

\* pSignalAllClients; a client that is past its loop ignores the signal.
CashierSigUsr1 ==
  /\ CashierRegistered
  /\ sigusr1
  /\ sigusr1' = FALSE
  /\ m_evac' = [c \in Clients |-> m_evac[c] \/ c \in m_clients \cap InPark]
  /\ Interrupt
  /\ UNCHANGED <<mainVars, ipcVars, m_clients, m_clientCounter,
                 m_enterVipQueue, m_enterQueue, m_terminated, cur, allowed, pc,
                 m_visitedRestaurant>>

\* One SIGTERM is enough: a second one changes nothing but eventSem.  One that
\* comes before m_eventSemaphore is set kills the cashier of a closed park; that is
\* in Startup (Endangered), here the signal comes to the loop.
CashierSigTerm ==
  /\ SigTermSent
  /\ cpc \in CashierLoop
  /\ ~isOpen
  /\ ~m_terminated
  /\ m_clients' = {}
  /\ m_terminated' = TRUE
  /\ m_clientCounter' = 0
  /\ SignalEvent
  /\ Interrupt
  /\ UNCHANGED <<mainVars, clientVars, isOpen, registerMQ, enterMQ, exitMQ,
                 linked, m_enterVipQueue, m_enterQueue, cur, allowed, sigusr1>>

CashierStep ==
  \/ CashierClaim \/ CashierCreateQueue
  \/ CashierCheck \/ CashierWait
  \/ CashierReceiveTimeout \/ CashierReceiveEnter
  \/ CashierReceiveExit \/ CashierReceiveExitBill
  \/ CashierOpenBill \/ CashierSendBill \/ CashierBillAck
  \/ CashierServeEnd \/ CashierServe \/ CashierSendPermit
  \/ CashierAdmit \/ CashierNoAck
  \/ CashierUnlink \/ CashierDeregister
=============================================================================
