----------------------------- MODULE ParkState -----------------------------
(***************************************************************************)
(* What the processes of the park share while clients enter and leave:     *)
(* the SimulationData segment, the CashierEvent semaphore, the cashier's   *)
(* register queue and the one-message reply queue every client creates.    *)
(*                                                                         *)
(* The message queues are POSIX queues.  A queue outlives its name: a      *)
(* process that opened it before mq_unlink keeps reading and writing it.   *)
(* A client creates its reply queue twice, once to enter and once to leave *)
(* the park, so the two queues are two variables and `linked' says which   *)
(* of them the name resolves to.  A message sent while a receiver is       *)
(* blocked goes straight to that receiver and never enters the queue.      *)
(***************************************************************************)
EXTENDS Integers, Sequences, FiniteSets

CONSTANTS
  Clients,        \* the client processes main creates
  Vips,           \* clients with m_data.isVip
  Parents,        \* clients with m_data.hasChild
  NoClient,       \* the cashier is handling nobody
  ParkSize,       \* PARK_SIZE, copied to SimulationData::parkSize
  MaxMsq,         \* DEFAULT_MAX_MSQ_SIZE, capacity of the register queue
  MqOpenMayFail,  \* may a client run out of queues (ENOSPC, EMFILE)?
  SigTermSent,    \* does an operator ever send SIGTERM to the cashier?
  SigintSent      \* does an operator ever send SIGINT to main?

ASSUME ParkAssumption ==
  /\ IsFiniteSet(Clients)
  /\ Vips \subseteq Clients
  /\ Parents \subseteq Clients
  /\ NoClient \notin Clients
  /\ ParkSize \in Nat \ {0}
  /\ MaxMsq \in Nat \ {0}
  /\ MqOpenMayFail \in BOOLEAN
  /\ SigTermSent \in BOOLEAN
  /\ SigintSent \in BOOLEAN

VARIABLES
  isOpen,           \* SimulationData::isOpen
  eventSem,         \* value of the CashierEvent semaphore
  registerMQ,       \* the register queue: one FIFO per message priority
  enterMQ,          \* per client, the slot of its queue for entering
  exitMQ,           \* per client, the slot of its queue for leaving
  linked,           \* per client, the queue its reply name resolves to
  mpc,              \* where MainProc is in closing the park
  cpc,              \* where CashierProc::Run is
  m_clients,        \* keys of CashierProc::m_clients
  m_clientCounter,  \* people the cashier counts inside
  m_enterVipQueue,  \* requests of VIP clients not served yet
  m_enterQueue,     \* requests of the other clients not served yet
  m_terminated,     \* SIGTERM handled
  cur,              \* client whose message is being handled
  allowed,          \* isOpen as pRegisterClient read it
  sigusr1,          \* SIGUSR1 pending at the cashier
  pc,               \* per client, where ClientProc::Run is
  m_evac,           \* per client, evacuation signal received
  m_visitedRestaurant

mainVars    == <<mpc>>
ipcVars     == <<isOpen, eventSem, registerMQ, enterMQ, exitMQ, linked>>
cashierVars == <<cpc, m_clients, m_clientCounter, m_enterVipQueue,
                 m_enterQueue, m_terminated, cur, allowed, sigusr1>>
clientVars  == <<pc, m_evac, m_visitedRestaurant>>
vars        == <<mainVars, ipcVars, cashierVars, clientVars>>

-----------------------------------------------------------------------------
(* Messages *)

RegisterMessageType == {"ENTER_PARK", "EXIT_PARK"}
RegisterMQMessage == [senderPID : Clients, mType : RegisterMessageType]

\* What a reply queue holds: nothing, a ParkEntryPermit (allowed or not), a
\* Bill, or the client's ACK.  Both ends use the same queue of capacity 1.
ClientMQMessage == {"permit", "refusal", "bill", "ack"}
Slot == ClientMQMessage \cup {"empty"}

People(c) == IF c \in Parents THEN 2 ELSE 1

-----------------------------------------------------------------------------
(* The register queue *)

\* pSendRegisterMQMessage sends with priority m_data.isVip.
Priority(c) == IF c \in Vips THEN 1 ELSE 0

MessageCount == Len(registerMQ[0]) + Len(registerMQ[1])

RegisterFull == MessageCount >= MaxMsq

SendRegister(c, type) ==
  /\ ~RegisterFull
  /\ registerMQ' = [registerMQ EXCEPT ![Priority(c)] =
                      Append(@, [senderPID |-> c, mType |-> type])]

\* mq_receive takes the oldest of the messages of highest priority.
TopPriority == IF registerMQ[1] # <<>> THEN 1 ELSE 0
TopMessage == Head(registerMQ[TopPriority])
ReceiveRegister ==
  registerMQ' = [registerMQ EXCEPT ![TopPriority] = Tail(@)]

\* CashierEvent->Signal().
SignalEvent == eventSem' = eventSem + 1

-----------------------------------------------------------------------------
(* Program points that other processes can observe *)

\* cashierPID is set from the claim in pInitImpl to the end of pCloseImpl.
CashierRegistered == cpc \notin {"init", "done"}

\* The register queue has its name from GetRegisterMQ to pCloseImpl.
RegisterLinked == cpc \notin {"init", "claimed", "unlinked", "done"}

\* Clients between sending a register message and signalling CashierEvent.
Signalling == {c \in Clients : pc[c] \in {"signal", "exitSignal"}}

\* The client processes main no longer has to wait for.
Exited == {c \in Clients : pc[c] \in {"done", "crashed"}}

\* Clients in pEnterPark.
Entering == {c \in Clients : pc[c] \in {"connect", "request", "signal",
                                        "receive", "blocked", "permitted"}}

\* Clients whose m_enteredPark is true.
InPark == {c \in Clients : pc[c] \in {"inPark", "visiting"}}
=============================================================================
