----------------------------- MODULE RideState -----------------------------
(***************************************************************************)
(* What one attraction and the clients that visit it share: the event      *)
(* semaphore and the queue of the attraction, the leave semaphore of each  *)
(* of its handlers, and the reply queue of each client.                    *)
(*                                                                         *)
(* A handler is a ride: it collects clients, starts, and when it is        *)
(* destroyed gives one unit of its leave semaphore for every client on its *)
(* list.  m_attractionHandlers maps semaphore numbers to handlers; here    *)
(* `running' is the set of numbers that have one.                          *)
(***************************************************************************)
EXTENDS Integers, Sequences, FiniteSets

CONSTANTS
  Clients,       \* the clients that visit the attraction
  Parents,       \* clients with m_data.hasChild
  Unfit,         \* clients that fail MeetsAttractionCriteria
  NoClient,      \* the attraction is handling nobody
  HandlerCount,  \* __AttractionConfig::handlerCount
  MaxClients,    \* __AttractionConfig::maxClientsPerHandler
  MaxMsq,        \* DEFAULT_MAX_MSQ_SIZE, capacity of the attraction's queue
  Returning,     \* clients that visit the attraction more than once
  MaxVisits,     \* bound: visits of each of these
  SigintSent,    \* does an operator ever close the park?
  PauseSent      \* does an operator ever send SIGUSR1 and SIGUSR2?

Handlers == 1 .. HandlerCount

ASSUME RideAssumption ==
  /\ IsFiniteSet(Clients)
  /\ Parents \subseteq Clients
  /\ Unfit \subseteq Clients
  /\ Returning \subseteq Clients
  /\ NoClient \notin Clients
  /\ HandlerCount \in Nat \ {0}
  /\ MaxClients \in Nat \ {0}
  /\ MaxMsq \in Nat \ {0}
  /\ MaxVisits \in Nat \ {0}
  /\ SigintSent \in BOOLEAN
  /\ PauseSent \in BOOLEAN

VARIABLES
  mpc,             \* where main is in closing the park
  eventSem,        \* value of the attraction's event semaphore
  attractionMQ,    \* the attraction's queue, a FIFO
  leaveSem,        \* per handler, value of its leave semaphore
  replyMQ,         \* per client, the slot of its reply queue
  linked,          \* clients whose reply queue has its name
  apc,             \* where AttractionProc::Run is
  paused,          \* SIGUSR1 received, SIGUSR2 not yet
  noTimeout,       \* pGetNextTimeout returned -1
  running,         \* handlers in m_attractionHandlers
  over,            \* running handlers whose m_finishTime has passed
  m_clientList,    \* per handler, the clients on its list
  newHandlerID,    \* local variable of pCreateNewHandler
  newClients,      \* list of the handler being filled
  m_enterQueue,    \* requests not served yet
  cur,             \* client whose request is being served
  allowed,         \* local variable of pRegisterClient
  attached,        \* the queue the attraction opened is still the client's
  orphan,          \* the slot of that queue once the client unlinked it
  pc,              \* per client, where ClientProc::pVisitAttraction is
  semID,           \* per client, the leave semaphore it was given
  visits,          \* per client, number of visits begun
  m_evac           \* per client, evacuation signal received

sharedVars     == <<eventSem, attractionMQ, leaveSem, replyMQ, linked>>
handlerVars    == <<running, over, m_clientList, newHandlerID, newClients>>
replyVars      == <<cur, allowed, attached, orphan>>
attractionVars == <<apc, paused, noTimeout, handlerVars, m_enterQueue, replyVars>>
clientVars     == <<pc, semID, visits, m_evac>>
vars           == <<mpc, sharedVars, attractionVars, clientVars>>

-----------------------------------------------------------------------------
(* Messages *)

AttractionMessageType == {"ENTER_ATTRACTION", "EXIT_ATTRACTION"}
AttractionMQMessage == [senderPID : Clients, mType : AttractionMessageType]

\* What a reply queue of capacity 1 holds: a permit names the leave semaphore.
Permit(h) == [mType |-> "permit", leaveSemaphoreID |-> h]
Refusal == [mType |-> "refusal", leaveSemaphoreID |-> 0]
Ack == [mType |-> "ack", leaveSemaphoreID |-> 0]
Empty == [mType |-> "empty", leaveSemaphoreID |-> 0]
Slot == {Permit(h) : h \in Handlers} \cup {Refusal, Ack, Empty}

\* GetClientCount: children count.
People(S) == Cardinality(S) + Cardinality(S \cap Parents)

-----------------------------------------------------------------------------
(* The attraction's queue and event semaphore *)

MessageCount == Len(attractionMQ)

SendAttraction(c, type) ==
  /\ MessageCount < MaxMsq
  /\ attractionMQ' = Append(attractionMQ, [senderPID |-> c, mType |-> type])

SignalEvent == eventSem' = eventSem + 1

-----------------------------------------------------------------------------
(* Program points other processes can observe *)

isOpen == mpc = "run"

\* The queue has its name from pInitImpl to pCloseImpl; a crash leaves it.
AttractionLinked == apc # "done"

\* Clients between sending a message and signalling the event semaphore.
Signalling == {c \in Clients : pc[c] \in {"signal", "exitSignal"}}
=============================================================================
