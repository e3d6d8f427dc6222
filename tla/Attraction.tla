----------------------------- MODULE Attraction -----------------------------
(***************************************************************************)
(* One attraction, the clients that visit it, and main's closing of the    *)
(* park, with what a visit and a ride must satisfy.                        *)
(***************************************************************************)
EXTENDS AttractionProc, ClientAttraction

\* The attraction is registered and main signalled every event semaphore.
Init ==
  /\ mpc = "run"
  /\ eventSem = 1
  /\ attractionMQ = <<>>
  /\ leaveSem = [h \in Handlers |-> 0]
  /\ replyMQ = [c \in Clients |-> Empty]
  /\ linked = {}
  /\ apc = "check"
  /\ paused = FALSE
  /\ noTimeout = FALSE
  /\ running = {}
  /\ over = {}
  /\ m_clientList = [h \in Handlers |-> {}]
  /\ newHandlerID = 1
  /\ newClients = {}
  /\ m_enterQueue = <<>>
  /\ cur = NoClient
  /\ allowed = FALSE
  /\ attached = FALSE
  /\ orphan = Empty
  /\ pc = [c \in Clients |-> "idle"]
  /\ semID = [c \in Clients |-> 1]
  /\ visits = [c \in Clients |-> 0]
  /\ m_evac = [c \in Clients |-> FALSE]

\* HandleSigint clears isOpen; the handler and pCloseImpl each signal every
\* event semaphore.
MainSigint ==
  /\ SigintSent
  /\ mpc = "run"
  /\ mpc' = "open"
  /\ UNCHANGED <<sharedVars, attractionVars, clientVars>>

MainOpenSemaphores_NoEvent ==
  /\ mpc \in {"open", "close"}
  /\ mpc' = IF mpc = "open" THEN "close" ELSE "wait"
  /\ UNCHANGED <<sharedVars, attractionVars, clientVars>>

MainOpenSemaphores ==
  /\ mpc \in {"open", "close"}
  /\ mpc' = IF mpc = "open" THEN "close" ELSE "wait"
  /\ SignalEvent
  /\ UNCHANGED <<attractionMQ, leaveSem, replyMQ, linked, attractionVars,
                 clientVars>>

Ended ==
  /\ mpc = "wait"
  /\ apc = "done"
  /\ \A c \in Clients : pc[c] = "idle"
  /\ UNCHANGED vars

Next ==
  \/ MainSigint \/ MainOpenSemaphores
  \/ AttractionStep \/ AttractionSigUsr1 \/ AttractionSigUsr2
  \/ \E h \in Handlers : RideTimeEnds(h)
  \/ \E c \in Clients : VisitStart(c) \/ VisitStep(c) \/ VisitEvacuate(c)
  \/ Ended

Spec == Init /\ [][Next]_vars

\* Every process that can run does run, and the time of a ride passes.
Fairness ==
  /\ WF_mpc(MainOpenSemaphores)
  /\ WF_attractionVars(AttractionStep)
  /\ \A h \in Handlers : WF_over(RideTimeEnds(h))
  /\ \A c \in Clients : WF_pc(VisitStep(c))

FairSpec == Spec /\ Fairness

-----------------------------------------------------------------------------
(* Safety *)

\* The values the variables take; only a running handler can be over.
TypeOK ==
  /\ mpc \in {"run", "open", "close", "wait"}
  /\ eventSem \in Nat
  /\ attractionMQ \in Seq(AttractionMQMessage)
  /\ leaveSem \in [Handlers -> Nat]
  /\ replyMQ \in [Clients -> Slot]
  /\ linked \subseteq Clients
  /\ apc \in AttractionPC
  /\ {paused, noTimeout, allowed, attached} \subseteq BOOLEAN
  /\ running \subseteq Handlers
  /\ over \subseteq running
  /\ m_clientList \in [Handlers -> SUBSET Clients]
  /\ newHandlerID \in Handlers
  /\ newClients \subseteq Clients
  /\ m_enterQueue \in Seq(Clients)
  /\ cur \in Clients \cup {NoClient}
  /\ orphan \in Slot
  /\ pc \in [Clients -> VisitPC]
  /\ semID \in [Clients -> Handlers]
  /\ visits \in [Clients -> 0 .. MaxVisits]
  /\ m_evac \in [Clients -> BOOLEAN]

\* No ride takes more people than it has seats, although the seats are counted
\* before the client answers (pRegisterClient).
RideCapacity ==
  /\ People(newClients) <= MaxClients
  /\ \A h \in Handlers : People(m_clientList[h]) <= MaxClients

\* While a handler is being filled or its ride runs, its leave semaphore is 0:
\* units a former ride left over release nobody from this one (SetValue in the
\* handler's constructor, ReleaseClients).
NobodyReleasedEarly ==
  /\ \A h \in running : leaveSem[h] = 0
  /\ apc \in {"serve", "permit", "ack", "finish"} => leaveSem[newHandlerID] = 0

\* As long as the attraction is never paused, each message in its queue is
\* matched by a unit of its event semaphore, by a client about to give one, or
\* by the attraction being on its way to the queue.
EventCovered ==
  apc \notin {"close", "done"} =>
    MessageCount <= eventSem + Cardinality(Signalling)
                      + (IF apc \in {"sweep", "recv"} THEN 1 ELSE 0)

Listed(c) == \E h \in running : c \in m_clientList[h]

ExitPending(c) ==
  \E i \in DOMAIN attractionMQ :
    attractionMQ[i] = [senderPID |-> c, mType |-> "EXIT_ATTRACTION"]

\* A client on the list of a ride is on it, or its exit is under way, as long as
\* the park is open and the attraction has one handler and a queue with room for
\* every exit: nobody is kept on the list of a ride it left, however late the ACK
\* that put it there was read (pRegisterClient, pRemoveClient, pLeaveAttraction).
RosterHonest ==
  isOpen =>
    \A c \in Clients : Listed(c) =>
      pc[c] \in {"riding", "exitConnect", "exitSend"} \/ ExitPending(c)

-----------------------------------------------------------------------------
(* Liveness *)

\* Every visit to the attraction ends, although the permit may be lost, the
\* ACK may come too late to be read and a unit of the leave semaphore may be
\* taken by a client that is on no list (pVisitAttraction).
VisitEnds == \A c \in Clients : pc[c] # "idle" ~> pc[c] = "idle"

\* Once the park is closed the attraction leaves its loop and releases its
\* riders, wherever the closing finds it (AttractionProc::Run, pCloseImpl).
AttractionEnds == ~isOpen ~> apc = "done"

-----------------------------------------------------------------------------
(* What the repository's documents say and the code does not do *)

\* docs/temat.md: after signal 2 clients may use the attraction again.  It does
\* not wait for ever while there are messages and nobody is about to wake it.
AwakeForMessages ==
  apc = "wait" /\ noTimeout /\ ~paused /\ MessageCount > 0 =>
    eventSem > 0 \/ Signalling # {}
=============================================================================
