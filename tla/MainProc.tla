------------------------------ MODULE MainProc ------------------------------
(***************************************************************************)
(* The part of the main process (app/main) that closes the park: the       *)
(* SIGINT/SIGTERM handler and pCloseImpl.                                  *)
(*                                                                         *)
(*   run      MainProc::Run                                                *)
(*   kill     HandleSigint cleared isOpen                                  *)
(*   open     the cashier was signalled                                    *)
(*   close    the handler returned, Run ended                              *)
(*   wait     pCloseImpl waits for every child                             *)
(*   end      the logger is stopped, the semaphores and the memory removed *)
(*                                                                         *)
(* One closing signal is modelled.  The restaurant is taken to be          *)
(* registered, so that the SIGINT sent to it stays there.                  *)
(***************************************************************************)
EXTENDS ParkState

MainPC == {"run", "kill", "open", "close", "wait", "end"}

MainSigint ==
  /\ SigintSent
  /\ mpc = "run"
  /\ isOpen' = FALSE
  /\ mpc' = "kill"
  /\ UNCHANGED <<eventSem, registerMQ, enterMQ, exitMQ, linked, cashierVars,
                 clientVars>>

\* kill(cashierPID, SIGUSR1).  With cashierPID 0 this is kill(0, SIGUSR1): the
\* signal goes to every process of the group, so to every client; the flag is of
\* use to those on their way in and those inside.
MainKillCashier ==
  /\ mpc = "kill"
  /\ IF CashierRegistered
     THEN sigusr1' = TRUE /\ UNCHANGED m_evac
     ELSE /\ m_evac' = [c \in Clients |->
                          m_evac[c] \/ c \in Entering \cup InPark]
          /\ UNCHANGED sigusr1
  /\ mpc' = "open"
  /\ UNCHANGED <<ipcVars, cpc, m_clients, m_clientCounter, m_enterVipQueue,
                 m_enterQueue, m_terminated, cur, allowed, pc,
                 m_visitedRestaurant>>

MainOpenSemaphores_NoEvent ==
  /\ mpc \in {"open", "close"}
  /\ mpc' = IF mpc = "open" THEN "close" ELSE "wait"
  /\ UNCHANGED <<ipcVars, cashierVars, clientVars>>

\* pOpenAllLoopSemaphores, at the end of the handler and again in pCloseImpl.
MainOpenSemaphores ==
  /\ mpc \in {"open", "close"}
  /\ SignalEvent
  /\ mpc' = IF mpc = "open" THEN "close" ELSE "wait"
  /\ UNCHANGED <<isOpen, registerMQ, enterMQ, exitMQ, linked, cashierVars,
                 clientVars>>

\* wait(NULL) returns -1 once no child is left.
MainEnd ==
  /\ mpc = "wait"
  /\ cpc = "done"
  /\ Exited = Clients
  /\ mpc' = "end"
  /\ UNCHANGED <<ipcVars, cashierVars, clientVars>>

\* What main does once the closing signal arrived.
MainClosing == MainKillCashier \/ MainOpenSemaphores \/ MainEnd
=============================================================================
