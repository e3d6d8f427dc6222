-------------------------- MODULE RestaurantState --------------------------
(***************************************************************************)
(* What the restaurant and its diners share: the event semaphore and the   *)
(* queue of the restaurant, the leave semaphore of its only handler, and   *)
(* the reply queue of each client.                                         *)
(*                                                                         *)
(* A sitting is filled, starts, and is over after a time; `m_handler' says *)
(* whether there is one, m_clientList who is on its list (or on that of    *)
(* the sitting being filled) and where from.                               *)
(***************************************************************************)
EXTENDS Integers, Sequences, FiniteSets

CONSTANTS
  Clients,       \* the clients that visit the restaurant
  Parents,       \* clients with m_data.hasChild
  Parkgoers,     \* clients that may visit it from the park
  Outsiders,     \* clients that may visit it before or after the park
  NoClient,      \* the restaurant is answering nobody
  MaxClients,    \* cm_attractionConfig.maxClientsPerHandler
  MaxMsq,        \* DEFAULT_MAX_MSQ_SIZE, capacity of the restaurant's queue
  Returning,     \* clients that visit the restaurant more than once
  MaxVisits,     \* bound: visits of each of these
  QueueFails,    \* may creating a reply queue fail (ENOSPC, EMFILE)?
  SigintSent,    \* does an operator ever close the park?
  PauseSent      \* does an operator ever send SIGUSR1 and SIGUSR2?

ASSUME RestaurantAssumption ==
  /\ IsFiniteSet(Clients)
  /\ Parents \subseteq Clients
  /\ Clients = Parkgoers \cup Outsiders
  /\ Returning \subseteq Clients
  /\ NoClient \notin Clients
  /\ MaxClients \in Nat \ {0}
  /\ MaxMsq \in Nat \ {0}
  /\ MaxVisits \in Nat \ {0}
  /\ {QueueFails, SigintSent, PauseSent} \subseteq BOOLEAN

VARIABLES
  mpc,             \* where main is in closing the park
  eventSem,        \* value of the restaurant's event semaphore
  restaurantMQ,    \* the restaurant's queue, a FIFO
  leaveSem,        \* value of the handler's leave semaphore
  replyMQ,         \* per client, the slot of its reply queue
  linked,          \* clients whose reply queue has its name
  rpc,             \* where RestaurantProc::Run is
  paused,          \* SIGUSR1 received, SIGUSR2 not yet
  evac,            \* SIGINT received
  noTimeout,       \* pGetNextTimeout returned -1
  m_handler,       \* is there a sitting?
  over,            \* its m_finishTime has passed
  released,        \* its m_released
  m_clientList,    \* per client, absent from the list or where it came from
  m_enterQueue,    \* requests not served yet
  cur,             \* client being answered
  attached,        \* the queue the restaurant opened is still the client's
  orphan,          \* the slot of that queue once the client unlinked it
  pc,              \* per client, where ClientProc::pVisitRestaurant is
  fromPark,        \* per client, m_enteredPark during this visit
  visits           \* per client, number of visits begun

sharedVars     == <<eventSem, restaurantMQ, leaveSem, replyMQ, linked>>
handlerVars    == <<m_handler, over, released, m_clientList>>
flagVars       == <<paused, evac, noTimeout>>
replyVars      == <<cur, attached, orphan>>
restaurantVars == <<rpc, flagVars, handlerVars, m_enterQueue, replyVars>>
clientVars     == <<pc, fromPark, visits>>
vars           == <<mpc, sharedVars, restaurantVars, clientVars>>

-----------------------------------------------------------------------------
RestaurantMessageType == {"ENTER_RESTAURANT", "EXIT_RESTAURANT"}
RestaurantMQMessage ==
  [senderPID : Clients, mType : RestaurantMessageType, fromPark : BOOLEAN]

\* What a reply queue of capacity 1 holds.
Slot == {"empty", "permit", "refusal", "bill", "ack"}

\* What the client does with a message it reads at point `at'.
AfterReading(at, msg) ==
  CASE at \in {"receive", "blocked"} /\ msg = "permit"     -> "permitted"
    [] at \in {"billReceive", "billBlocked"} /\ msg = "bill" -> "billed"
    [] OTHER                                               -> "cleanup"

ListEntry == {"absent", "outside", "park"}
Listed == {c \in Clients : m_clientList[c] # "absent"}

\* GetClientCount: children count.
People(S) == Cardinality(S) + Cardinality(S \cap Parents)

MessageCount == Len(restaurantMQ)

SendRestaurant(c, type) ==
  /\ MessageCount < MaxMsq
  /\ restaurantMQ' = Append(restaurantMQ, [senderPID |-> c, mType |-> type,
                                           fromPark |-> fromPark[c]])

SignalEvent == eventSem' = eventSem + 1

isOpen == mpc = "run"

\* The restaurant is registered and its queue has a name.
RestaurantLinked == rpc # "done"

\* Clients between sending a message and signalling the event semaphore.
Signalling == {c \in Clients : pc[c] \in {"signal", "exitSignal"}}
=============================================================================
