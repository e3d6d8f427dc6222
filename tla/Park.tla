-------------------------------- MODULE Park --------------------------------
(***************************************************************************)
(* The park: main, the cashier and the clients together, and what entering,*)
(* leaving and closing the park must satisfy.                              *)
(***************************************************************************)
EXTENDS CashierProc, ClientProc, MainProc

\* Main has opened the park and signalled every event semaphore once.
Init ==
  /\ isOpen = TRUE
  /\ eventSem = 1
  /\ registerMQ = [p \in {0, 1} |-> <<>>]
  /\ enterMQ = [c \in Clients |-> "empty"]
  /\ exitMQ = [c \in Clients |-> "empty"]
  /\ linked = [c \in Clients |-> "none"]
  /\ mpc = "run"
  /\ cpc = "init"
  /\ m_clients = {}
  /\ m_clientCounter = 0
  /\ m_enterVipQueue = <<>>
  /\ m_enterQueue = <<>>
  /\ m_terminated = FALSE
  /\ cur = NoClient
  /\ allowed = FALSE
  /\ sigusr1 = FALSE
  /\ pc = [c \in Clients |-> "start"]
  /\ m_evac = [c \in Clients |-> FALSE]
  /\ m_visitedRestaurant = [c \in Clients |-> FALSE]

\* Every process is gone and main removed the shared memory.
Ended == mpc = "end" /\ UNCHANGED vars

Next ==
  \/ MainSigint \/ MainClosing
  \/ CashierStep \/ CashierSigUsr1 \/ CashierSigTerm
  \/ \E c \in Clients : ClientStep(c)
  \/ Ended

Spec == Init /\ [][Next]_vars

\* Every process that can run does run; each of its steps changes variables of
\* its own, which the formulas name.  A client's loop over the attractions ends
\* because its time in the park does, however often it visits one.  Neither that
\* the park is ever closed nor that the cashier's signal arrives is assumed.
Fairness ==
  /\ WF_mpc(MainClosing)
  /\ WF_cashierVars(CashierStep)
  /\ \A c \in Clients : WF_pc(ClientStep(c)) /\ SF_pc(ClientLeave(c))

FairSpec == Spec /\ Fairness

-----------------------------------------------------------------------------
(* Types *)

CashierPC == CashierLoop \cup {"init", "claimed", "close", "unlinked", "done"}

\* The values the variables of the three processes take; the two request
\* queues of the cashier hold the clients pHandleEnterPark sorted into them.
TypeOK ==
  /\ isOpen \in BOOLEAN
  /\ eventSem \in Nat
  /\ registerMQ \in [{0, 1} -> Seq(RegisterMQMessage)]
  /\ enterMQ \in [Clients -> Slot]
  /\ exitMQ \in [Clients -> Slot]
  /\ linked \in [Clients -> {"none", "enter", "exit"}]
  /\ mpc \in MainPC
  /\ cpc \in CashierPC
  /\ m_clients \in SUBSET Clients
  /\ m_clientCounter \in Int
  /\ m_enterVipQueue \in Seq(Vips)
  /\ m_enterQueue \in Seq(Clients \ Vips)
  /\ m_terminated \in BOOLEAN
  /\ cur \in Clients \cup {NoClient}
  /\ allowed \in BOOLEAN
  /\ sigusr1 \in BOOLEAN
  /\ pc \in [Clients -> ClientPC]
  /\ m_evac \in [Clients -> BOOLEAN]
  /\ m_visitedRestaurant \in [Clients -> BOOLEAN]

-----------------------------------------------------------------------------
(* Safety *)

\* People in a set of clients, children included.
Occupancy(S) == Cardinality(S) + Cardinality(S \cap Parents)

\* The cashier never registers more people than the park holds, although the
\* space was checked two message exchanges before the client is registered
\* and SIGTERM may reset the counter in between (pRegisterClient,
\* pRemoveClient, HandleSigTerm).
CapacityRespected ==
  /\ Occupancy(m_clients) <= ParkSize
  /\ m_clientCounter <= ParkSize

\* m_clientCounter, which every admission relies on, always is the number of
\* people behind the entries of m_clients: nobody is counted in or out twice,
\* whichever exit, timeout or signal removed the client.
CounterMatches == m_clientCounter = Occupancy(m_clients)

\* Each message in the register queue is matched by a unit of CashierEvent, by
\* a client that is about to signal it, or by the cashier being on its way to
\* the queue: the cashier never sleeps on CashierEvent over a message, however
\* its waits were interrupted (CashierProc::Run, ClientProc::pEnterPark,
\* pLeavePark).
NoLostWakeup ==
  MessageCount <= eventSem + Cardinality(Signalling)
                    + (IF cpc = "recv" THEN 1 ELSE 0)

\* EXIT_PARK of c waits in the register queue.
ExitPending(c) ==
  \E p \in {0, 1} : \E i \in DOMAIN registerMQ[p] :
    registerMQ[p][i] = [senderPID |-> c, mType |-> "EXIT_PARK"]

\* While the cashier works, every client it has registered is still inside, is
\* on its way to say that it leaves, or has said so in a message the cashier
\* will read or is reading: no entry of m_clients stands for a client that is
\* gone for good, which would take up space for ever and keep Run alive.
NoGhosts ==
  cpc \in CashierLoop =>
    \A c \in m_clients :
      \/ pc[c] \in {"inPark", "visiting", "exitConnect", "exitSend"}
      \/ ExitPending(c)
      \/ cur = c /\ cpc \in {"openBill", "bill", "billAck"}

\* Between two rounds of admission no request is left that fits: an exit that
\* makes room for several clients lets all of them in (the loops of
\* CashierProc::Run).
NoIdleSpace ==
  cpc \in {"check", "semwait", "recv"} /\ ~m_terminated /\ Requests # {} =>
    ~Fits(NextRequest)

\* The reply queue has room for one message and both ends write to it.  When
\* one of them is about to send, the queue is empty: neither send ever runs
\* into its timeout (CashierProc::pSendReply, the ACKs of the client).
ReplySlotFree ==
  /\ cpc = "permit" => enterMQ[cur] = "empty"
  /\ cpc = "bill" => exitMQ[cur] = "empty"
  /\ \A c \in Clients : /\ pc[c] = "permitted" => enterMQ[c] = "empty"
                        /\ pc[c] = "billed" => exitMQ[c] = "empty"

\* A client without VIP status is registered only when no request of a VIP is
\* waiting (Run serves m_enterQueue only while m_enterVipQueue is empty).
VipsFirst ==
  [][ m_clients' \ m_clients \subseteq Vips \/ m_enterVipQueue = <<>> ]_vars

-----------------------------------------------------------------------------
(* The specification of the cashier that Park implements *)

\* m_enteredPark is set by the ACK and cleared on the way out.
Whereabouts ==
  [c \in Clients |-> CASE c \in InPark                      -> "inside"
                      [] c \in Entering \/ pc[c] = "start" -> "outside"
                      [] OTHER                            -> "gone"]

Promise == INSTANCE Admission WITH
  open     <- isOpen,
  where    <- Whereabouts,
  arrivals <- {c \in Clients : enterMQ[c] = "ack"},
  guests   <- m_clients

\* The cashier keeps its promise: m_clients gets a client only by the ACK that
\* client sent when it entered, once, and only when the park has room for it;
\* it loses a client only after that client has left, or by SIGTERM.
KeepsPromise == Promise!AdmissionSpec

-----------------------------------------------------------------------------
(* Liveness *)

\* The cashier eventually notes the exit of every client it registered.
EveryExitNoted == \A c \in Clients : c \in m_clients ~> c \notin m_clients

\* Once the park is closed every process ends and main tears the park down.
ClosingTerminates == ~isOpen ~> mpc = "end"

-----------------------------------------------------------------------------
(* What the repository's documents say and the code does not do *)

\* docs/temat.md: at most N people are in the park at any time.
AtMostNPeople == Occupancy(InPark) <= ParkSize
=============================================================================
