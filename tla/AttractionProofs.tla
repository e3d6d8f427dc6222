-------------------------- MODULE AttractionProofs --------------------------
(***************************************************************************)
(* Proofs about Attraction, for any set of clients, any number of rides,   *)
(* seats and visits and any capacity of the queue.                         *)
(***************************************************************************)
EXTENDS Attraction, FiniteSetTheorems, TLAPS

USE DEF sharedVars, handlerVars, replyVars, attractionVars, clientVars

Filling == {"serve", "permit", "ack", "finish"}

\* A client being answered is known and has its request at the head of the
\* queue; the handler being filled is not in the map yet.
AnsweredIsKnown ==
  /\ apc \in {"permit", "ack"} => cur \in Clients /\ m_enterQueue # <<>>
  /\ apc \in Filling => newHandlerID \notin running

TypeInv == TypeOK /\ AnsweredIsKnown

-----------------------------------------------------------------------------
(* Helpers                                                                  *)

LEMMA SlotType ==
  /\ Refusal \in Slot /\ Ack \in Slot /\ Empty \in Slot
  /\ \A h \in Handlers : Permit(h) \in Slot
  /\ \A m \in Slot : m.mType = "permit" => m.leaveSemaphoreID \in Handlers
BY DEF Slot, Permit, Refusal, Ack, Empty

LEMMA SendType ==
  ASSUME TypeInv, NEW c \in Clients, NEW type \in AttractionMessageType,
         SendAttraction(c, type)
  PROVE  attractionMQ' \in Seq(AttractionMQMessage)
<1>1. [senderPID |-> c, mType |-> type] \in AttractionMQMessage
  BY DEF AttractionMQMessage
<1> QED
  BY <1>1 DEF TypeInv, TypeOK, SendAttraction

\* What is received is a message of a client.
LEMMA ReceiveType ==
  ASSUME TypeInv, MessageCount > 0, attractionMQ' = Tail(attractionMQ)
  PROVE  /\ attractionMQ' \in Seq(AttractionMQMessage)
         /\ Head(attractionMQ) \in AttractionMQMessage
         /\ Head(attractionMQ).senderPID \in Clients
         /\ Len(attractionMQ') = Len(attractionMQ) - 1
<1>1. attractionMQ \in Seq(AttractionMQMessage) /\ attractionMQ # <<>>
  BY DEF TypeInv, TypeOK, MessageCount
<1>2. /\ Tail(attractionMQ) \in Seq(AttractionMQMessage)
      /\ Head(attractionMQ) \in AttractionMQMessage
      /\ Len(Tail(attractionMQ)) = Len(attractionMQ) - 1
  BY <1>1
<1> QED
  BY <1>2 DEF AttractionMQMessage

LEMMA RequestType ==
  ASSUME TypeInv, m_enterQueue # <<>>
  PROVE  Head(m_enterQueue) \in Clients /\ Tail(m_enterQueue) \in Seq(Clients)
BY DEF TypeInv, TypeOK

LEMMA ListedFinite ==
  ASSUME NEW S \in SUBSET Clients
  PROVE  /\ IsFiniteSet(S) /\ IsFiniteSet(S \cap Parents)
         /\ Cardinality(S) \in Nat /\ People(S) \in Nat
<1>1. IsFiniteSet(S)
  BY FS_Subset, RideAssumption
<1>2. IsFiniteSet(S \cap Parents)
  BY <1>1, FS_Intersection
<1> QED
  BY <1>1, <1>2, FS_CardinalityType DEF People

\* Destroying handlers.
LEMMA ReleaseType ==
  ASSUME TypeInv, NEW S, ReleaseClients(S)
  PROVE  /\ leaveSem' \in [Handlers -> Nat]
         /\ m_clientList' \in [Handlers -> SUBSET Clients]
<1>1. \A h \in Handlers : Cardinality(m_clientList[h]) \in Nat
  BY ListedFinite DEF TypeInv, TypeOK
<1>2. leaveSem' \in [Handlers -> Nat]
  BY <1>1 DEF ReleaseClients, TypeInv, TypeOK
<1>3. m_clientList' \in [Handlers -> SUBSET Clients]
  BY DEF ReleaseClients, TypeInv, TypeOK
<1> QED
  BY <1>2, <1>3

\* The types that a step need not touch, Booleans apart from the rest.
Flags == /\ paused \in BOOLEAN /\ noTimeout \in BOOLEAN
         /\ allowed \in BOOLEAN /\ attached \in BOOLEAN

LEMMA FlagsType == TypeOK => Flags
BY DEF TypeOK, Flags

LEMMA FlagsSet == Flags => {paused, noTimeout, allowed, attached} \subseteq BOOLEAN
BY DEF Flags

-----------------------------------------------------------------------------
(* The attraction                                                           *)

LEMMA ContinueType ==
  ASSUME TypeInv, NEW from, NEW to \in AttractionPC, Continue(from, to),
         to \notin {"permit", "ack"}, to \in Filling => from \in Filling
  PROVE  TypeInv'
<1>1. TypeOK'
  BY DEF Continue, TypeInv, TypeOK
<1>2. AnsweredIsKnown'
  BY DEF Continue, TypeInv, AnsweredIsKnown, Filling
<1> QED
  BY <1>1, <1>2 DEF TypeInv

\* Going on, with the flags, the handlers or the semaphores changed.
LEMMA LoopType ==
  ASSUME TypeInv,
         \/ AttractionCheck \/ AttractionStop \/ AttractionWait
         \/ AttractionWaitTimeout \/ AttractionSweep
         \/ AttractionReceiveTimeout \/ AttractionReceiveEnter
         \/ AttractionReceiveExit \/ AttractionDecide \/ AttractionClose
  PROVE  TypeInv'
<1> USE DEF TypeInv, AnsweredIsKnown, AttractionPC, Filling
<1>1. CASE AttractionCheck
  <2>1. noTimeout' \in BOOLEAN
    BY <1>1, Zenon DEF AttractionCheck, NextTimeoutIsNone
  <2> QED
    BY <1>1, <2>1 DEF AttractionCheck, TypeOK
<1>2. CASE \/ AttractionStop \/ AttractionWaitTimeout
           \/ AttractionReceiveTimeout \/ AttractionDecide
  BY <1>2, ContinueType DEF AttractionStop, AttractionWaitTimeout,
       AttractionReceiveTimeout, AttractionDecide
<1>3. CASE AttractionWait
  BY <1>3 DEF AttractionWait, TypeOK
<1>4. CASE AttractionSweep
  <2>1. /\ leaveSem' \in [Handlers -> Nat]
        /\ m_clientList' \in [Handlers -> SUBSET Clients]
    BY <1>4, ReleaseType DEF AttractionSweep
  <2>2. apc' \in {"check", "recv"}
    BY <1>4 DEF AttractionSweep
  <2>3. running' \subseteq Handlers /\ over' \subseteq running'
    BY <1>4 DEF AttractionSweep, TypeOK
  <2> QED
    BY <1>4, <2>1, <2>2, <2>3 DEF AttractionSweep, TypeOK
<1>5. CASE AttractionReceiveEnter
  <2>1. /\ attractionMQ' \in Seq(AttractionMQMessage)
        /\ Head(attractionMQ).senderPID \in Clients
    BY <1>5, ReceiveType DEF AttractionReceiveEnter
  <2>2. m_enterQueue' \in Seq(Clients)
    BY <1>5, <2>1 DEF AttractionReceiveEnter, TypeOK
  <2> QED
    BY <1>5, <2>1, <2>2 DEF AttractionReceiveEnter, TypeOK
<1>6. CASE AttractionReceiveExit
  <2>1. attractionMQ' \in Seq(AttractionMQMessage)
    BY <1>6, ReceiveType DEF AttractionReceiveExit
  <2>2. m_clientList' \in [Handlers -> SUBSET Clients]
    BY <1>6 DEF AttractionReceiveExit, RemoveClient, TypeOK
  <2> QED
    BY <1>6, <2>1, <2>2 DEF AttractionReceiveExit, TypeOK
<1>7. CASE AttractionClose
  <2>1. /\ leaveSem' \in [Handlers -> Nat]
        /\ m_clientList' \in [Handlers -> SUBSET Clients]
    BY <1>7, ReleaseType DEF AttractionClose
  <2> QED
    BY <1>7, <2>1 DEF AttractionClose, TypeOK
<1> QED
  BY <1>1, <1>2, <1>3, <1>4, <1>5, <1>6, <1>7

LEMMA HandlerType ==
  ASSUME TypeInv,
         \/ AttractionNoHandler \/ AttractionCreate \/ AttractionServeEnd
         \/ AttractionDiscard \/ AttractionAssign \/ AttractionStart
         \/ AttractionStarted \/ AttractionCrash
  PROVE  TypeInv'
<1> USE DEF TypeInv, AnsweredIsKnown, AttractionPC, Filling
<1>1. CASE \/ AttractionNoHandler \/ AttractionServeEnd \/ AttractionDiscard
           \/ AttractionStarted \/ AttractionCrash
  BY <1>1, ContinueType DEF AttractionNoHandler, AttractionServeEnd,
       AttractionDiscard, AttractionStarted, AttractionCrash, Continue
<1>2. CASE AttractionCreate
  <2>1. /\ newHandlerID' \in Handlers \ running
        /\ leaveSem' \in [Handlers -> Nat]
    BY <1>2 DEF AttractionCreate, ResetSemaphore, TypeOK
  <2> QED
    BY <1>2, <2>1 DEF AttractionCreate, TypeOK
<1>3. CASE AttractionAssign
  <2>1. m_clientList' \in [Handlers -> SUBSET Clients]
    BY <1>3 DEF AttractionAssign, TypeOK
  <2> QED
    BY <1>3, <2>1 DEF AttractionAssign, TypeOK
<1>4. CASE AttractionStart
  <2>1. leaveSem' \in [Handlers -> Nat]
    BY <1>4 DEF AttractionStart, ResetSemaphore, TypeOK
  <2> QED
    BY <1>4, <2>1 DEF AttractionStart, TypeOK
<1> QED
  BY <1>1, <1>2, <1>3, <1>4

\* The answer to a request.
LEMMA FinishType ==
  ASSUME TypeInv, m_enterQueue # <<>>, apc \in Filling, FinishRequest,
         pc' \in [Clients -> VisitPC], semID' \in [Clients -> Handlers],
         replyMQ' \in [Clients -> Slot], newClients' \subseteq Clients,
         UNCHANGED <<mpc, eventSem, attractionMQ, leaveSem, linked, paused,
                     noTimeout, running, over, m_clientList, newHandlerID,
                     visits, m_evac>>
  PROVE  TypeInv'
<1>1. m_enterQueue' \in Seq(Clients)
  BY RequestType DEF FinishRequest
<1>2. orphan' \in Slot
  BY SlotType DEF FinishRequest
<1>3. AnsweredIsKnown'
  BY DEF FinishRequest, TypeInv, AnsweredIsKnown, Filling
<1>4. TypeOK'
  BY <1>1, <1>2 DEF FinishRequest, TypeInv, TypeOK, AttractionPC
<1> QED
  BY <1>3, <1>4 DEF TypeInv

LEMMA AnswerType ==
  ASSUME TypeInv,
         \/ AttractionServe \/ AttractionReplyHanded \/ AttractionReplyQueued
         \/ AttractionReplyTimeout \/ AttractionAck
  PROVE  TypeInv'
<1> USE DEF TypeInv, AnsweredIsKnown, Filling
<1>1. CASE AttractionServe
  <2> DEFINE c == Head(m_enterQueue)
  <2>1. c \in Clients /\ Tail(m_enterQueue) \in Seq(Clients) /\ apc = "serve"
        /\ m_enterQueue # <<>>
    BY <1>1, RequestType DEF AttractionServe
  <2>2. /\ UNCHANGED <<mpc, sharedVars, paused, noTimeout, handlerVars, clientVars>>
        /\ \/ /\ cur' = c /\ allowed' = Admissible(c) /\ attached' = TRUE
              /\ apc' = "permit" /\ UNCHANGED <<m_enterQueue, orphan>>
           \/ /\ m_enterQueue' = Tail(m_enterQueue)
              /\ UNCHANGED <<apc, replyVars>>
    BY <1>1, Zenon DEF AttractionServe
  <2>3. Admissible(c) \in BOOLEAN
    BY DEF Admissible
  <2>4. allowed' \in BOOLEAN /\ attached' \in BOOLEAN
    BY <2>2, <2>3, FlagsType DEF Flags
  <2>5. /\ cur' \in Clients \cup {NoClient} /\ m_enterQueue' \in Seq(Clients)
        /\ orphan' \in Slot /\ apc' \in AttractionPC
    BY <2>1, <2>2 DEF TypeOK, AttractionPC
  <2>6. AnsweredIsKnown'
    BY <2>1, <2>2
  <2>7. {paused, noTimeout, allowed, attached}' \subseteq BOOLEAN
    BY <2>2, <2>4, FlagsType DEF Flags
  <2> HIDE DEF AnsweredIsKnown
  <2> QED
    BY <2>2, <2>5, <2>6, <2>7 DEF TypeOK
<1>2. CASE AttractionReplyHanded
  <2>1. /\ pc' \in [Clients -> VisitPC] /\ semID' \in [Clients -> Handlers]
    <3>1. \E to \in VisitPC : pc' = [pc EXCEPT ![cur] = to]
      BY <1>2 DEF AttractionReplyHanded, VisitPC
    <3>2. CASE allowed
      BY <1>2, <3>1, <3>2 DEF AttractionReplyHanded, TypeOK
    <3>3. CASE ~allowed
      BY <1>2, <3>1, <3>3 DEF AttractionReplyHanded, TypeOK
    <3> QED
      BY <3>2, <3>3
  <2>2. CASE FinishRequest
    BY <1>2, <2>1, <2>2, FinishType DEF AttractionReplyHanded, TypeOK
  <2>3. CASE apc' = "ack" /\ UNCHANGED <<m_enterQueue, replyVars>>
    <3>1. AnsweredIsKnown'
      BY <1>2, <2>3 DEF AttractionReplyHanded
    <3> QED
      BY <1>2, <2>1, <2>3, <3>1 DEF AttractionReplyHanded, TypeOK, AttractionPC
  <2> QED
    BY <1>2, <2>2, <2>3 DEF AttractionReplyHanded
<1>3. CASE AttractionReplyQueued
  <2>1. Reply \in Slot /\ Empty \in Slot
    BY SlotType, Zenon DEF Reply, TypeOK
  <2>2. replyMQ' \in [Clients -> Slot]
    BY <1>3, <2>1 DEF AttractionReplyQueued, TypeOK
  <2>3. CASE FinishRequest
    BY <1>3, <2>2, <2>3, FinishType DEF AttractionReplyQueued, TypeOK
  <2>4. CASE /\ orphan' = (IF attached THEN Empty ELSE Reply) /\ apc' = "ack"
             /\ UNCHANGED <<m_enterQueue, cur, allowed, attached>>
    <3>1. orphan' \in Slot
      BY <2>1, <2>4
    <3>2. AnsweredIsKnown'
      BY <1>3, <2>4 DEF AttractionReplyQueued
    <3> QED
      BY <1>3, <2>2, <2>4, <3>1, <3>2 DEF AttractionReplyQueued, TypeOK, AttractionPC
  <2> QED
    BY <1>3, <2>3, <2>4 DEF AttractionReplyQueued
<1>4. CASE AttractionReplyTimeout
  BY <1>4, FinishType DEF AttractionReplyTimeout, TypeOK
<1>5. CASE AttractionAck
  <2>1. replyMQ' \in [Clients -> Slot]
    BY <1>5, SlotType DEF AttractionAck, TypeOK
  <2>2. newClients' \subseteq Clients
    BY <1>5 DEF AttractionAck, TypeOK
  <2> QED
    BY <1>5, <2>1, <2>2, FinishType DEF AttractionAck, TypeOK
<1> QED
  BY <1>1, <1>2, <1>3, <1>4, <1>5

-----------------------------------------------------------------------------
(* The clients, the signals and main                                        *)

\* A client goes on, with messages, events and its own variables.
LEMMA ClientMoves ==
  ASSUME TypeInv, NEW c \in Clients, NEW to \in VisitPC,
         pc' = [pc EXCEPT ![c] = to],
         attractionMQ' \in Seq(AttractionMQMessage),
         eventSem' \in Nat, leaveSem' \in [Handlers -> Nat],
         replyMQ' \in [Clients -> Slot], linked' \subseteq Clients,
         semID' \in [Clients -> Handlers], visits' \in [Clients -> 0 .. MaxVisits],
         attached' \in BOOLEAN, orphan' \in Slot,
         UNCHANGED <<mpc, apc, paused, noTimeout, handlerVars, m_enterQueue, cur,
                     allowed, m_evac>>
  PROVE  TypeInv'
<1>1. pc' \in [Clients -> VisitPC]
  BY DEF TypeInv, TypeOK
<1>2. {paused, noTimeout, allowed, attached}' \subseteq BOOLEAN
  BY FlagsType DEF TypeInv, Flags
<1>3. AnsweredIsKnown'
  BY DEF TypeInv, AnsweredIsKnown, Filling
<1> QED
  BY <1>1, <1>2, <1>3 DEF TypeInv, TypeOK

\* What the unlinking of a reply queue leaves.
LEMMA RemoveType ==
  ASSUME TypeInv, NEW c \in Clients, NEW left \in Slot, RemoveReplyQueue(c, left)
  PROVE  /\ linked' \subseteq Clients /\ replyMQ' \in [Clients -> Slot]
         /\ orphan' \in Slot /\ attached' \in BOOLEAN
<1>1. linked' \subseteq Clients /\ replyMQ' \in [Clients -> Slot]
  BY SlotType DEF RemoveReplyQueue, TypeInv, TypeOK
<1>2. orphan' \in Slot
  BY DEF RemoveReplyQueue, TypeInv, TypeOK
<1>3. attached \in BOOLEAN
  BY FlagsType DEF TypeInv, Flags
<1>4. attached' \in BOOLEAN
  BY <1>3, Zenon DEF RemoveReplyQueue
<1> QED
  BY <1>1, <1>2, <1>4

LEMMA ClientType ==
  ASSUME TypeInv, NEW c \in Clients, VisitStart(c) \/ VisitStep(c) \/ VisitEvacuate(c)
  PROVE  TypeInv'
<1> USE DEF GoTo
<1>1. /\ attractionMQ \in Seq(AttractionMQMessage)
      /\ eventSem \in Nat /\ leaveSem \in [Handlers -> Nat]
      /\ replyMQ \in [Clients -> Slot] /\ linked \subseteq Clients
      /\ semID \in [Clients -> Handlers] /\ visits \in [Clients -> 0 .. MaxVisits]
      /\ orphan \in Slot
  BY DEF TypeInv, TypeOK
<1>2. attached \in BOOLEAN
  BY FlagsType DEF TypeInv, Flags
<1>3. CASE VisitStart(c)
  <2>1. visits' \in [Clients -> 0 .. MaxVisits]
    BY <1>1, <1>3, RideAssumption DEF VisitStart
  <2>2. linked' \subseteq Clients /\ "connect" \in VisitPC
    BY <1>1, <1>3 DEF VisitStart, VisitPC
  <2> QED
    BY <1>1, <1>2, <1>3, <2>1, <2>2, ClientMoves DEF VisitStart
<1>4. CASE VisitRequest(c)
  BY <1>1, <1>2, <1>4, SendType, ClientMoves
     DEF VisitRequest, AttractionMessageType, VisitPC
<1>5. CASE VisitExitSend(c)
  <2>1. attractionMQ' \in Seq(AttractionMQMessage)
    BY <1>1, <1>5, SendType DEF VisitExitSend, AttractionMessageType
  <2> QED
    BY <1>1, <1>2, <1>5, <2>1, ClientMoves DEF VisitExitSend, VisitPC
<1>6. CASE VisitSignal(c) \/ VisitExitSignal(c)
  <2>1. eventSem' \in Nat
    BY <1>1, <1>6 DEF VisitSignal, VisitExitSignal, SignalEvent
  <2>2. \E to \in VisitPC : pc' = [pc EXCEPT ![c] = to]
    BY <1>6 DEF VisitSignal, VisitExitSignal, VisitPC
  <2> QED
    BY <1>1, <1>2, <1>6, <2>1, <2>2, ClientMoves DEF VisitSignal, VisitExitSignal
<1>7. CASE VisitReceive(c)
  <2>1. \E to \in VisitPC : pc' = [pc EXCEPT ![c] = to]
    <3>1. /\ "permitted" \in VisitPC /\ "blocked" \in VisitPC
          /\ "cleanup" \in VisitPC
      BY DEF VisitPC
    <3>2. Empty.mType # "permit"
      BY DEF Empty
    <3> DEFINE m == replyMQ[c]
    <3>3. pc' = [pc EXCEPT ![c] = CASE m.mType = "permit" -> "permitted"
                                    [] m = Empty          -> "blocked"
                                    [] OTHER              -> "cleanup"]
      BY <1>7 DEF VisitReceive
    <3> HIDE DEF m
    <3>4. CASE m.mType = "permit"
      <4>1. m # Empty
        BY <3>2, <3>4
      <4> QED
        BY <3>1, <3>3, <3>4, <4>1
    <3>5. CASE m.mType # "permit" /\ m = Empty
      BY <3>1, <3>3, <3>5
    <3>6. CASE m.mType # "permit" /\ m # Empty
      BY <3>1, <3>3, <3>6
    <3> QED
      BY <3>4, <3>5, <3>6
  <2>2. replyMQ' \in [Clients -> Slot]
    BY <1>1, <1>7, SlotType DEF VisitReceive
  <2>3. semID' \in [Clients -> Handlers]
    <3>1. replyMQ[c] \in Slot
      BY <1>1
    <3>2. \/ semID' = semID
          \/ /\ replyMQ[c].mType = "permit"
             /\ semID' = [semID EXCEPT ![c] = replyMQ[c].leaveSemaphoreID]
      BY <1>7 DEF VisitReceive
    <3> QED
      BY <1>1, <3>1, <3>2, SlotType
  <2> QED
    BY <1>1, <1>2, <1>7, <2>1, <2>2, <2>3, ClientMoves DEF VisitReceive
<1>8. CASE VisitAck(c)
  <2>1. /\ linked' \subseteq Clients /\ replyMQ' \in [Clients -> Slot]
        /\ orphan' \in Slot /\ attached' \in BOOLEAN
    BY <1>8, SlotType, RemoveType DEF VisitAck
  <2> QED
    BY <1>1, <1>8, <2>1, ClientMoves DEF VisitAck, VisitPC
<1>9. CASE VisitCleanup(c)
  <2>1. /\ linked' \subseteq Clients /\ replyMQ' \in [Clients -> Slot]
        /\ orphan' \in Slot /\ attached' \in BOOLEAN
    BY <1>1, <1>9, RemoveType DEF VisitCleanup
  <2> QED
    BY <1>1, <1>9, <2>1, ClientMoves DEF VisitCleanup, VisitPC
<1>10. CASE RideReleased(c)
  <2>1. leaveSem' \in [Handlers -> Nat]
    BY <1>1, <1>10 DEF RideReleased
  <2> QED
    BY <1>1, <1>2, <1>10, <2>1, ClientMoves DEF RideReleased, VisitPC
<1>11. CASE VisitConnect(c)
  <2>1. \E to \in VisitPC : pc' = [pc EXCEPT ![c] = to]
    BY <1>11 DEF VisitConnect, VisitPC
  <2> QED
    BY <1>1, <1>2, <1>11, <2>1, ClientMoves DEF VisitConnect
<1>12. CASE VisitExitConnect(c)
  <2>1. \E to \in VisitPC : pc' = [pc EXCEPT ![c] = to]
    BY <1>12 DEF VisitExitConnect, VisitPC
  <2> QED
    BY <1>1, <1>2, <1>12, <2>1, ClientMoves DEF VisitExitConnect
<1>13. CASE RideTimeout(c)
  <2>1. \E to \in VisitPC : pc' = [pc EXCEPT ![c] = to]
    <3>1. "idle" \in VisitPC /\ "exitConnect" \in VisitPC
      BY DEF VisitPC
    <3> QED
      BY <1>13, <3>1, Zenon DEF RideTimeout
  <2> QED
    BY <1>1, <1>2, <1>13, <2>1, ClientMoves DEF RideTimeout
<1>14. CASE VisitRequestTimeout(c) \/ VisitGiveUp(c)
  BY <1>1, <1>2, <1>14, ClientMoves DEF VisitRequestTimeout, VisitGiveUp, VisitPC
<1>15. CASE VisitEvacuate(c)
  <2>1. m_evac' \in [Clients -> BOOLEAN]
    BY <1>15 DEF VisitEvacuate, TypeInv, TypeOK
  <2> QED
    BY <1>15, <2>1 DEF VisitEvacuate, TypeInv, TypeOK, AnsweredIsKnown, Filling
<1> QED
  BY <1>3, <1>4, <1>5, <1>6, <1>7, <1>8, <1>9, <1>10, <1>11, <1>12, <1>13, <1>14,
     <1>15 DEF VisitStep

LEMMA SignalType ==
  ASSUME TypeInv, AttractionSigUsr1 \/ AttractionSigUsr2
  PROVE  TypeInv'
<1> USE DEF TypeInv, AnsweredIsKnown, Filling
<1>1. \/ apc' = apc
      \/ apc' \in {"sweep", "crashed"}
  BY DEF AttractionSigUsr1, AttractionSigUsr2, Interrupted
<1>2. apc' \in AttractionPC
  BY <1>1 DEF TypeOK, AttractionPC
<1>3. {paused, noTimeout, allowed, attached}' \subseteq BOOLEAN
  BY FlagsType DEF AttractionSigUsr1, AttractionSigUsr2, Flags
<1>4. CASE AttractionSigUsr1
  <2>1. /\ leaveSem' \in [Handlers -> Nat]
        /\ m_clientList' \in [Handlers -> SUBSET Clients]
    BY <1>4, ReleaseType DEF AttractionSigUsr1
  <2>2. AnsweredIsKnown'
    BY <1>1, <1>4 DEF AttractionSigUsr1
  <2> QED
    BY <1>2, <1>3, <1>4, <2>1, <2>2 DEF AttractionSigUsr1, TypeOK
<1>5. CASE AttractionSigUsr2
  <2>1. AnsweredIsKnown'
    BY <1>1, <1>5 DEF AttractionSigUsr2
  <2> QED
    BY <1>2, <1>3, <1>5, <2>1 DEF AttractionSigUsr2, TypeOK
<1> QED
  BY <1>4, <1>5

LEMMA InitType == Init => TypeInv
<1> SUFFICES ASSUME Init PROVE TypeInv
  OBVIOUS
<1>1. /\ replyMQ \in [Clients -> Slot] /\ orphan \in Slot
      /\ pc \in [Clients -> VisitPC]
      /\ semID \in [Clients -> Handlers] /\ newHandlerID \in Handlers
      /\ visits \in [Clients -> 0 .. MaxVisits]
  BY SlotType, RideAssumption DEF Init, VisitPC, Handlers
<1>2. /\ {paused, noTimeout, allowed, attached} \subseteq BOOLEAN
      /\ m_evac \in [Clients -> BOOLEAN]
  BY DEF Init
<1>3. /\ attractionMQ \in Seq(AttractionMQMessage) /\ m_enterQueue \in Seq(Clients)
      /\ apc \in AttractionPC /\ AnsweredIsKnown
  BY DEF Init, AttractionPC, AnsweredIsKnown, Filling
<1> QED
  BY <1>1, <1>2, <1>3 DEF Init, TypeInv, TypeOK

LEMMA NextType == TypeInv /\ [Next]_vars => TypeInv'
<1> SUFFICES ASSUME TypeInv, [Next]_vars PROVE TypeInv'
  OBVIOUS
<1>1. CASE UNCHANGED vars
  BY <1>1 DEF vars, TypeInv, TypeOK, AnsweredIsKnown, Filling
<1>2. CASE MainSigint \/ MainOpenSemaphores
  BY <1>2 DEF MainSigint, MainOpenSemaphores, SignalEvent, TypeInv, TypeOK,
              AnsweredIsKnown, Filling
<1>3. ASSUME NEW h \in Handlers, RideTimeEnds(h) PROVE TypeInv'
  BY <1>3 DEF RideTimeEnds, TypeInv, TypeOK, AnsweredIsKnown, Filling
<1> QED
  BY <1>1, <1>2, <1>3, LoopType, HandlerType, AnswerType, ClientType, SignalType
     DEF Next, AttractionStep, Ended

\* Type correctness of an attraction for any clients, rides, seats and queue: the
\* semaphores never go below zero and what is over is running.
THEOREM RideTypeCorrect == Spec => []TypeOK
<1>1. TypeInv => TypeOK
  BY DEF TypeInv
<1> QED
  BY <1>1, InitType, NextType, PTL DEF Spec

-----------------------------------------------------------------------------
(* The leave semaphores                                                     *)

\* A handler gives its units when it is taken out of the map, and a number is
\* reset before a handler is filled under it.
LEMMA ReleaseInductive ==
  TypeInv /\ NobodyReleasedEarly /\ [Next]_vars => NobodyReleasedEarly'
<1> SUFFICES ASSUME TypeInv, NobodyReleasedEarly, [Next]_vars
             PROVE  NobodyReleasedEarly'
  OBVIOUS
<1>1. /\ leaveSem \in [Handlers -> Nat] /\ running \subseteq Handlers
      /\ newHandlerID \in Handlers
      /\ apc \in Filling => newHandlerID \notin running
      /\ \A h \in running : leaveSem[h] = 0
      /\ apc \in Filling => leaveSem[newHandlerID] = 0
  BY DEF TypeInv, TypeOK, AnsweredIsKnown, NobodyReleasedEarly, Filling
<1>2. SUFFICES /\ \A h \in running' : leaveSem'[h] = 0
               /\ apc' \in Filling => leaveSem'[newHandlerID'] = 0
  BY DEF NobodyReleasedEarly, Filling
<1>3. ASSUME UNCHANGED <<leaveSem, running, newHandlerID>>,
             apc' \in Filling => apc \in Filling
      PROVE  /\ \A h \in running' : leaveSem'[h] = 0
             /\ apc' \in Filling => leaveSem'[newHandlerID'] = 0
  BY <1>1, <1>3
<1>4. \A S : ReleaseClients(S) =>
        \A h \in Handlers \ S : leaveSem'[h] = leaveSem[h]
  <2> SUFFICES ASSUME NEW S, ReleaseClients(S), NEW h \in Handlers \ S
               PROVE  leaveSem'[h] = leaveSem[h]
    OBVIOUS
  <2>1. leaveSem'[h] = leaveSem[h] + 0
    BY DEF ReleaseClients
  <2> QED
    BY <1>1, <2>1
<1>5. CASE AttractionSweep
  <2>1. running' = running \ Finished /\ ReleaseClients(Finished)
        /\ apc' \notin Filling
    BY <1>5 DEF AttractionSweep, Filling
  <2> QED
    BY <1>1, <1>4, <2>1
<1>6. CASE AttractionClose
  BY <1>6 DEF AttractionClose, Filling
<1>7. CASE AttractionCreate
  <2>1. /\ newHandlerID' \in Handlers \ running /\ running' = running
        /\ leaveSem' = [leaveSem EXCEPT ![newHandlerID'] = 0]
    BY <1>7 DEF AttractionCreate, ResetSemaphore
  <2> QED
    BY <1>1, <2>1
<1>8. CASE AttractionAssign
  BY <1>1, <1>8 DEF AttractionAssign, Filling
<1>9. CASE AttractionStart
  BY <1>1, <1>9 DEF AttractionStart, ResetSemaphore, Filling
<1>10. CASE AttractionSigUsr1
  <2>1. apc' = apc \/ apc' \in {"sweep", "crashed"}
    BY <1>10 DEF AttractionSigUsr1, Interrupted
  <2>2. running' = {} /\ newHandlerID' = newHandlerID
    BY <1>10 DEF AttractionSigUsr1
  <2>3. CASE apc \in Filling
    <3>1. ReleaseClients(running)
      BY <1>10, <2>3 DEF AttractionSigUsr1, Filling
    <3> QED
      BY <1>1, <1>4, <2>2, <2>3, <3>1
  <2>4. CASE apc \notin Filling
    BY <2>1, <2>2, <2>4 DEF Filling
  <2> QED
    BY <2>3, <2>4
<1>11. CASE AttractionSigUsr2
  BY <1>3, <1>11 DEF AttractionSigUsr2, Interrupted, Filling
<1>12. ASSUME NEW c \in Clients, VisitStart(c) \/ VisitStep(c) \/ VisitEvacuate(c)
       PROVE  /\ \A h \in running' : leaveSem'[h] = 0
              /\ apc' \in Filling => leaveSem'[newHandlerID'] = 0
  <2>1. CASE RideReleased(c)
    <3>1. /\ leaveSem[semID[c]] > 0 /\ UNCHANGED <<running, apc, newHandlerID>>
          /\ leaveSem' = [leaveSem EXCEPT ![semID[c]] = @ - 1]
      BY <2>1 DEF RideReleased
    <3>2. /\ semID[c] \notin running
          /\ apc \in Filling => semID[c] # newHandlerID
      BY <1>1, <3>1
    <3> QED
      BY <1>1, <3>1, <3>2
  <2>2. CASE ~RideReleased(c)
    <3>1. UNCHANGED <<leaveSem, running, newHandlerID, apc>>
      BY <1>12, <2>2 DEF VisitStart, VisitStep, VisitEvacuate, VisitConnect,
           VisitRequest, VisitRequestTimeout, VisitSignal, VisitReceive,
           VisitGiveUp, VisitAck, VisitCleanup, RideTimeout, VisitExitConnect,
           VisitExitSend, VisitExitSignal
    <3> QED
      BY <1>3, <3>1
  <2> QED
    BY <2>1, <2>2
<1>13. CASE \/ AttractionCheck \/ AttractionWait \/ AttractionReceiveEnter
            \/ AttractionReceiveExit \/ AttractionServe \/ AttractionAck
            \/ AttractionReplyHanded \/ AttractionReplyQueued
            \/ AttractionReplyTimeout
  BY <1>3, <1>13 DEF AttractionCheck, AttractionWait, AttractionReceiveEnter,
       AttractionReceiveExit, AttractionServe, AttractionAck, AttractionReplyHanded,
       AttractionReplyQueued, AttractionReplyTimeout, Filling
<1>14. CASE \/ AttractionStop \/ AttractionWaitTimeout
            \/ AttractionReceiveTimeout \/ AttractionDecide
            \/ AttractionNoHandler \/ AttractionServeEnd \/ AttractionDiscard
            \/ AttractionStarted \/ AttractionCrash
  BY <1>3, <1>14 DEF AttractionStop, AttractionWaitTimeout,
       AttractionReceiveTimeout, AttractionDecide, AttractionNoHandler,
       AttractionServeEnd, AttractionDiscard, AttractionStarted, AttractionCrash,
       Continue, Filling
<1>15. CASE \/ MainSigint \/ MainOpenSemaphores \/ Ended \/ UNCHANGED vars
            \/ \E h \in Handlers : RideTimeEnds(h)
  BY <1>3, <1>15 DEF MainSigint, MainOpenSemaphores, Ended, vars, RideTimeEnds
<1> QED
  BY <1>5, <1>6, <1>7, <1>8, <1>9, <1>10, <1>11, <1>12, <1>13, <1>14, <1>15
     DEF Next, AttractionStep

\* Nobody on a ride, or about to get on one, is released by what was left in its
\* leave semaphore, for any number of rides and clients, pauses and crashes
\* included.
THEOREM NobodyReleasedTooEarly == Spec => []NobodyReleasedEarly
<1>1. Init => NobodyReleasedEarly
  BY DEF Init, NobodyReleasedEarly
<1> QED
  BY <1>1, InitType, NextType, ReleaseInductive, PTL DEF Spec

-----------------------------------------------------------------------------
(* The seats                                                                *)

\* The client being admitted has a seat on top of those taken.
SeatInv ==
  /\ RideCapacity
  /\ apc = "ack" \/ (apc = "permit" /\ allowed)
       => People(newClients) + People({cur}) <= MaxClients

\* Whoever is added brings no more people than it counts for alone.
LEMMA PeopleAdd ==
  ASSUME NEW S \in SUBSET Clients, NEW c \in Clients
  PROVE  People(S \cup {c}) <= People(S) + People({c})
<1> DEFINE P == S \cap Parents
           D == {c} \cap Parents
<1>1. \A A, B : IsFiniteSet(A) /\ IsFiniteSet(B) =>
        /\ Cardinality(A \cup B) \in Nat
        /\ Cardinality(A \cup B) <= Cardinality(A) + Cardinality(B)
  <2> SUFFICES ASSUME NEW A, NEW B, IsFiniteSet(A), IsFiniteSet(B)
               PROVE  /\ Cardinality(A \cup B) \in Nat
                      /\ Cardinality(A \cup B) <= Cardinality(A) + Cardinality(B)
    OBVIOUS
  <2>1. IsFiniteSet(A \cup B) /\ IsFiniteSet(A \cap B)
    BY FS_Union, FS_Intersection
  <2>2. Cardinality(A \cup B)
          = Cardinality(A) + Cardinality(B) - Cardinality(A \cap B)
    BY FS_Union
  <2> QED
    BY <2>1, <2>2, FS_CardinalityType
<1>2. {c} \in SUBSET Clients
  OBVIOUS
<1>3. /\ IsFiniteSet(S) /\ IsFiniteSet(P)
      /\ IsFiniteSet({c}) /\ IsFiniteSet(D)
  BY <1>2, ListedFinite
<1>4. /\ Cardinality(S) \in Nat /\ Cardinality(P) \in Nat
      /\ Cardinality({c}) \in Nat /\ Cardinality(D) \in Nat
  BY <1>3, FS_CardinalityType
<1>5. (S \cup {c}) \cap Parents = P \cup D
  OBVIOUS
<1>6. /\ Cardinality(S \cup {c}) \in Nat
      /\ Cardinality(S \cup {c}) <= Cardinality(S) + Cardinality({c})
  BY <1>1, <1>3
<1>7. /\ Cardinality(P \cup D) \in Nat
      /\ Cardinality(P \cup D) <= Cardinality(P) + Cardinality(D)
  <2> HIDE DEF P, D
  <2> QED
    BY <1>1, <1>3
<1>8. /\ People(S \cup {c}) = Cardinality(S \cup {c}) + Cardinality(P \cup D)
      /\ People(S) = Cardinality(S) + Cardinality(P)
      /\ People({c}) = Cardinality({c}) + Cardinality(D)
  BY <1>5, Zenon DEF People
<1> HIDE DEF P, D
<1> QED
  BY <1>4, <1>6, <1>7, <1>8

\* A part of the people is no more than all of them.
LEMMA PeopleSubset ==
  ASSUME NEW S \in SUBSET Clients, NEW T \in SUBSET S
  PROVE  People(T) <= People(S)
<1>1. /\ IsFiniteSet(S) /\ IsFiniteSet(S \cap Parents)
      /\ IsFiniteSet(T) /\ IsFiniteSet(T \cap Parents)
  BY ListedFinite
<1>2. T \cap Parents \subseteq S \cap Parents
  OBVIOUS
<1>3. /\ Cardinality(T) <= Cardinality(S)
      /\ Cardinality(T \cap Parents) <= Cardinality(S \cap Parents)
  BY <1>1, <1>2, FS_Subset
<1> QED
  BY <1>1, <1>3, FS_CardinalityType DEF People

\* Steps that add nobody.
LEMMA SeatsKept ==
  ASSUME TypeInv, SeatInv, newClients' \in SUBSET newClients,
         \A h \in Handlers : m_clientList'[h] \in SUBSET m_clientList[h],
         apc' = "ack" \/ (apc' = "permit" /\ allowed') =>
           /\ apc = "ack" \/ (apc = "permit" /\ allowed)
           /\ UNCHANGED <<newClients, cur>>
  PROVE  SeatInv'
<1>1. /\ newClients \in SUBSET Clients /\ MaxClients \in Nat
      /\ \A h \in Handlers : m_clientList[h] \in SUBSET Clients
  BY RideAssumption DEF TypeInv, TypeOK
<1>2. \A S \in SUBSET Clients : \A T \in SUBSET S :
        People(S) <= MaxClients => People(T) <= MaxClients
  <2> SUFFICES ASSUME NEW S \in SUBSET Clients, NEW T \in SUBSET S,
                      People(S) <= MaxClients
               PROVE  People(T) <= MaxClients
    OBVIOUS
  <2>1. T \in SUBSET Clients
    OBVIOUS
  <2>2. People(S) \in Nat /\ People(T) \in Nat /\ People(T) <= People(S)
    BY <2>1, ListedFinite, PeopleSubset
  <2> QED
    BY <1>1, <2>2
<1>3. People(newClients') <= MaxClients
  BY <1>1, <1>2 DEF SeatInv, RideCapacity
<1>4. \A h \in Handlers : People(m_clientList'[h]) <= MaxClients
  BY <1>1, <1>2 DEF SeatInv, RideCapacity
<1>5. RideCapacity'
  BY <1>3, <1>4 DEF RideCapacity, People
<1>6. apc' = "ack" \/ (apc' = "permit" /\ allowed') =>
        (People(newClients) + People({cur}) <= MaxClients)'
  BY DEF SeatInv, People
<1> QED
  BY <1>5, <1>6 DEF SeatInv

\* Filling a ride.
LEMMA ServingKeepsSeats ==
  ASSUME TypeInv, SeatInv,
         \/ AttractionServe \/ AttractionReplyHanded \/ AttractionReplyQueued
         \/ AttractionReplyTimeout \/ AttractionAck \/ AttractionAssign
         \/ AttractionCreate
  PROVE  SeatInv'
<1>1. /\ newClients \in SUBSET Clients /\ MaxClients \in Nat
      /\ m_clientList \in [Handlers -> SUBSET Clients]
  BY RideAssumption DEF TypeInv, TypeOK
<1>2. CASE AttractionServe
  <2> DEFINE c == Head(m_enterQueue)
  <2>1. UNCHANGED <<newClients, m_clientList>>
    BY <1>2 DEF AttractionServe
  <2>2. CASE UNCHANGED <<apc, replyVars>>
    BY <2>1, <2>2, SeatsKept
  <2>3. CASE cur' = c /\ allowed' = Admissible(c) /\ apc' = "permit"
    <3>1. Admissible(c) => Fits(c)
      BY <1>2 DEF AttractionServe
    <3>2. RideCapacity'
      BY <2>1 DEF SeatInv, RideCapacity, People
    <3>3. allowed' => (People(newClients) + People({cur}) <= MaxClients)'
      <4>1. ASSUME allowed' PROVE People(newClients) + People({c}) <= MaxClients
        BY <2>3, <3>1, <4>1 DEF Fits
      <4>2. (People(newClients) + People({cur}))' = People(newClients) + People({c})
        BY <2>1, <2>3 DEF People
      <4> QED
        BY <4>1, <4>2
    <3> QED
      BY <2>3, <3>2, <3>3 DEF SeatInv
  <2> QED
    BY <1>2, <2>2, <2>3, Zenon DEF AttractionServe
<1>3. CASE AttractionReplyHanded \/ AttractionReplyQueued
  <2>1. /\ UNCHANGED <<newClients, m_clientList>> /\ apc = "permit"
        /\ \/ allowed /\ UNCHANGED cur
           \/ apc' = "serve"
    BY <1>3 DEF AttractionReplyHanded, AttractionReplyQueued, FinishRequest
  <2> QED
    BY <2>1, SeatsKept
<1>4. CASE AttractionReplyTimeout
  BY <1>4, SeatsKept DEF AttractionReplyTimeout, FinishRequest
<1>5. CASE AttractionAck
  <2>1. apc = "ack" /\ apc' = "serve" /\ UNCHANGED m_clientList /\ cur \in Clients
    BY <1>5 DEF AttractionAck, FinishRequest, TypeInv, AnsweredIsKnown
  <2>2. CASE newClients' = newClients
    BY <2>1, <2>2, SeatsKept
  <2>3. CASE newClients' = newClients \cup {cur}
    <3>1. {cur} \in SUBSET Clients /\ newClients \cup {cur} \in SUBSET Clients
      BY <1>1, <2>1
    <3>2. /\ People(newClients) \in Nat /\ People({cur}) \in Nat
          /\ People(newClients \cup {cur}) \in Nat
      BY <1>1, <3>1, ListedFinite
    <3>3. People(newClients \cup {cur}) <= People(newClients) + People({cur})
      BY <1>1, <2>1, PeopleAdd
    <3>4. People(newClients) + People({cur}) <= MaxClients
      BY <2>1 DEF SeatInv
    <3>5. People(newClients \cup {cur}) <= MaxClients
      BY <1>1, <3>2, <3>3, <3>4
    <3>6. People(newClients)' <= MaxClients
      BY <2>3, <3>5 DEF People
    <3>7. RideCapacity'
      BY <2>1, <3>6 DEF SeatInv, RideCapacity, People
    <3> QED
      BY <2>1, <3>7 DEF SeatInv
  <2> QED
    BY <1>5, <2>2, <2>3 DEF AttractionAck
<1>6. People({}) <= MaxClients
  <2>1. {} \cap Parents = {}
    OBVIOUS
  <2> QED
    BY <1>1, <2>1, FS_EmptySet DEF People
<1>7. CASE AttractionAssign
  <2>1. /\ newClients' = {} /\ apc' = "start"
        /\ m_clientList' = [m_clientList EXCEPT ![newHandlerID] = newClients]
    BY <1>7 DEF AttractionAssign
  <2>2. \A h \in Handlers : People(m_clientList'[h]) <= MaxClients
    BY <1>1, <2>1 DEF SeatInv, RideCapacity
  <2>3. RideCapacity'
    BY <1>6, <2>1, <2>2 DEF RideCapacity, People
  <2> QED
    BY <2>1, <2>3 DEF SeatInv
<1>8. CASE AttractionCreate
  <2>1. newClients' = {} /\ apc' = "serve" /\ UNCHANGED m_clientList
    BY <1>8 DEF AttractionCreate
  <2>2. RideCapacity'
    BY <1>6, <2>1 DEF SeatInv, RideCapacity, People
  <2> QED
    BY <2>1, <2>2 DEF SeatInv
<1> QED
  BY <1>2, <1>3, <1>4, <1>5, <1>7, <1>8

LEMMA SeatInductive == TypeInv /\ SeatInv /\ [Next]_vars => SeatInv'
<1> SUFFICES ASSUME TypeInv, SeatInv, [Next]_vars PROVE SeatInv'
  OBVIOUS
<1>1. CASE UNCHANGED <<apc, allowed, cur, newClients, m_clientList>>
  BY <1>1, SeatsKept
<1>2. ASSUME UNCHANGED <<newClients, m_clientList>>, apc' \notin {"permit", "ack"}
      PROVE  SeatInv'
  BY <1>2, SeatsKept
<1>3. \A S : ReleaseClients(S) =>
        \A h \in Handlers : m_clientList'[h] \in SUBSET m_clientList[h]
  BY DEF ReleaseClients
<1>4. CASE AttractionSweep \/ AttractionClose
  <2>1. /\ \E S : ReleaseClients(S)
        /\ UNCHANGED newClients /\ apc' \notin {"permit", "ack"}
    BY <1>4 DEF AttractionSweep, AttractionClose
  <2> QED
    BY <1>3, <2>1, SeatsKept
<1>5. CASE AttractionReceiveExit
  <2>1. \A h \in Handlers : m_clientList'[h] \in SUBSET m_clientList[h]
    BY <1>5 DEF AttractionReceiveExit, RemoveClient
  <2> QED
    BY <1>5, <2>1, SeatsKept DEF AttractionReceiveExit
<1>6. CASE AttractionSigUsr1 \/ AttractionSigUsr2
  <2>1. \A h \in Handlers : m_clientList'[h] \in SUBSET m_clientList[h]
    BY <1>3, <1>6 DEF AttractionSigUsr1, AttractionSigUsr2
  <2>2. /\ UNCHANGED <<newClients, cur, allowed>>
        /\ apc' = apc \/ apc' \in {"sweep", "crashed"}
    BY <1>6 DEF AttractionSigUsr1, AttractionSigUsr2, Interrupted
  <2> QED
    BY <2>1, <2>2, SeatsKept
<1>7. ASSUME NEW c \in Clients, VisitStart(c) \/ VisitStep(c) \/ VisitEvacuate(c)
      PROVE  SeatInv'
  <2>1. UNCHANGED <<apc, allowed, cur, newClients, m_clientList>>
    BY <1>7 DEF VisitStart, VisitStep, VisitEvacuate, VisitConnect,
         VisitRequest, VisitRequestTimeout, VisitSignal, VisitReceive,
         VisitGiveUp, VisitAck, VisitCleanup, RideReleased, RideTimeout,
         VisitExitConnect, VisitExitSend, VisitExitSignal
  <2> QED
    BY <1>1, <2>1
<1>8. CASE AttractionCheck \/ AttractionWait \/ AttractionReceiveEnter \/ AttractionStart
  BY <1>2, <1>8 DEF AttractionCheck, AttractionWait, AttractionReceiveEnter,
                    AttractionStart
<1>9. CASE \/ AttractionStop \/ AttractionWaitTimeout
           \/ AttractionReceiveTimeout \/ AttractionDecide
           \/ AttractionNoHandler \/ AttractionServeEnd \/ AttractionDiscard
           \/ AttractionStarted \/ AttractionCrash
  BY <1>2, <1>9 DEF AttractionStop, AttractionWaitTimeout,
       AttractionReceiveTimeout, AttractionDecide, AttractionNoHandler,
       AttractionServeEnd, AttractionDiscard, AttractionStarted, AttractionCrash,
       Continue
<1>10. CASE \/ MainSigint \/ MainOpenSemaphores \/ Ended \/ UNCHANGED vars
            \/ \E h \in Handlers : RideTimeEnds(h)
  BY <1>1, <1>10 DEF MainSigint, MainOpenSemaphores, Ended, vars, RideTimeEnds
<1> QED
  BY <1>4, <1>5, <1>6, <1>7, <1>8, <1>9, <1>10, ServingKeepsSeats
     DEF Next, AttractionStep

\* No ride takes more people than it has seats, children included, for any number
\* of rides and clients, whatever becomes of a client between permit and ACK.
THEOREM RidesNeverOverfull == Spec => []RideCapacity
<1>1. Init => SeatInv
  <2> SUFFICES ASSUME Init PROVE SeatInv
    OBVIOUS
  <2>1. newClients = {} /\ (\A h \in Handlers : m_clientList[h] = {}) /\ apc = "check"
    BY DEF Init
  <2>2. {} \cap Parents = {}
    OBVIOUS
  <2>3. People({}) = 0
    BY <2>2, FS_EmptySet DEF People
  <2> QED
    BY <2>1, <2>3, RideAssumption DEF SeatInv, RideCapacity
<1>2. SeatInv => RideCapacity
  BY DEF SeatInv
<1> QED
  BY <1>1, <1>2, InitType, NextType, SeatInductive, PTL DEF Spec

-----------------------------------------------------------------------------
(* Events *)

LEMMA EventTypes ==
  ASSUME TypeInv
  PROVE  /\ eventSem \in Nat /\ MessageCount \in Nat
         /\ IsFiniteSet(Signalling) /\ Cardinality(Signalling) \in Nat
<1>1. Signalling \in SUBSET Clients
  BY DEF Signalling
<1>2. IsFiniteSet(Signalling)
  BY <1>1, FS_Subset, RideAssumption
<1> QED
  BY <1>2, FS_CardinalityType DEF TypeInv, TypeOK, MessageCount

Signals == {"signal", "exitSignal"}

\* A client gives its unit after its message, and also when the message did not
\* fit into the queue.
LEMMA ClientCovers ==
  ASSUME TypeInv, EventCovered, NEW c \in Clients, VisitStart(c) \/ VisitStep(c)
  PROVE  EventCovered'
<1>1. /\ eventSem \in Nat /\ MessageCount \in Nat
      /\ IsFiniteSet(Signalling) /\ Cardinality(Signalling) \in Nat
      /\ pc \in [Clients -> VisitPC]
  BY EventTypes DEF TypeInv, TypeOK
<1>2. ASSUME NEW type, \/ SendAttraction(c, type)
                       \/ UNCHANGED attractionMQ,
             pc[c] \notin Signals, NEW to \in Signals,
             pc' = [pc EXCEPT ![c] = to], UNCHANGED <<eventSem, apc>>
      PROVE  EventCovered'
  <2>1. Signalling' = Signalling \cup {c} /\ c \notin Signalling
    BY <1>1, <1>2 DEF Signalling, Signals
  <2>2. Cardinality(Signalling') = Cardinality(Signalling) + 1
    BY <1>1, <2>1, FS_AddElement
  <2>3. MessageCount' \in {MessageCount, MessageCount + 1}
    BY <1>2 DEF SendAttraction, MessageCount, TypeInv, TypeOK
  <2> QED
    BY <1>1, <1>2, <2>2, <2>3 DEF EventCovered
<1>3. ASSUME SignalEvent, pc[c] \in Signals, NEW to, to \notin Signals,
             pc' = [pc EXCEPT ![c] = to], UNCHANGED <<attractionMQ, apc>>
      PROVE  EventCovered'
  <2>1. Signalling' = Signalling \ {c} /\ c \in Signalling
    BY <1>1, <1>3 DEF Signalling, Signals
  <2>2. Cardinality(Signalling') = Cardinality(Signalling) - 1
    BY <1>1, <2>1, FS_RemoveElement
  <2>3. MessageCount' = MessageCount /\ eventSem' = eventSem + 1
    BY <1>3 DEF MessageCount, SignalEvent
  <2> QED
    BY <1>1, <1>3, <2>2, <2>3 DEF EventCovered
<1>4. ASSUME pc[c] \notin Signals, NEW to, to \notin Signals,
             pc' = [pc EXCEPT ![c] = to],
             UNCHANGED <<attractionMQ, eventSem, apc>>
      PROVE  EventCovered'
  <2>1. Signalling' = Signalling
    BY <1>1, <1>4 DEF Signalling, Signals
  <2> QED
    BY <1>4, <2>1 DEF EventCovered, MessageCount
<1> USE DEF GoTo, Signals
<1>5. CASE VisitRequest(c)
  BY <1>2, <1>5 DEF VisitRequest
<1>6. CASE VisitExitSend(c)
  BY <1>2, <1>6 DEF VisitExitSend
<1>7. CASE VisitSignal(c)
  BY <1>3, <1>7 DEF VisitSignal
<1>8. CASE VisitExitSignal(c)
  BY <1>3, <1>8 DEF VisitExitSignal
<1>9. CASE VisitReceive(c)
  BY <1>4, <1>9 DEF VisitReceive
<1>10. CASE VisitAck(c) \/ VisitCleanup(c)
  BY <1>4, <1>10 DEF VisitAck, VisitCleanup
<1>11. CASE VisitStart(c) \/ RideReleased(c)
  BY <1>4, <1>11 DEF VisitStart, RideReleased
<1>12. CASE VisitConnect(c) \/ RideTimeout(c) \/ VisitExitConnect(c)
  BY <1>4, <1>12 DEF VisitConnect, RideTimeout, VisitExitConnect
<1>13. CASE VisitRequestTimeout(c) \/ VisitGiveUp(c)
  BY <1>4, <1>13 DEF VisitRequestTimeout, VisitGiveUp
<1> QED
  BY <1>5, <1>6, <1>7, <1>8, <1>9, <1>10, <1>11, <1>12, <1>13 DEF VisitStep

\* A unit taken covers the message that is read next; an attraction that is not
\* paused always goes on to read it.
LEMMA AttractionCovers ==
  ASSUME TypeInv, EventCovered, ~paused, AttractionStep
  PROVE  EventCovered'
<1>1. /\ eventSem \in Nat /\ MessageCount \in Nat
      /\ Cardinality(Signalling) \in Nat
  BY EventTypes
<1> USE DEF EventCovered
<1>2. ASSUME UNCHANGED <<eventSem, attractionMQ, pc>>,
             apc \notin {"close", "done"},
             apc \in {"sweep", "recv"} => apc' \in {"sweep", "recv"}
      PROVE  EventCovered'
  <2>1. Signalling' = Signalling /\ MessageCount' = MessageCount
    BY <1>2 DEF Signalling, MessageCount
  <2> QED
    BY <1>1, <1>2, <2>1
<1>3. CASE AttractionStop \/ AttractionClose
  BY <1>3 DEF AttractionStop, AttractionClose, Continue
<1>4. CASE AttractionWait
  <2>1. Signalling' = Signalling /\ MessageCount' = MessageCount
    BY <1>4 DEF AttractionWait, Signalling, MessageCount
  <2> QED
    BY <1>1, <1>4, <2>1 DEF AttractionWait
<1>5. CASE AttractionReceiveTimeout
  <2>1. MessageCount' = 0 /\ Signalling' = Signalling /\ eventSem' = eventSem
    BY <1>5 DEF AttractionReceiveTimeout, Continue, Signalling, MessageCount
  <2> QED
    BY <1>1, <2>1
<1>6. CASE AttractionReceiveEnter \/ AttractionReceiveExit
  <2>1. /\ apc = "recv" /\ MessageCount > 0
        /\ attractionMQ' = Tail(attractionMQ)
    BY <1>6 DEF AttractionReceiveEnter, AttractionReceiveExit
  <2>2. MessageCount' = MessageCount - 1
    BY <2>1, ReceiveType DEF MessageCount
  <2>3. Signalling' = Signalling /\ eventSem' = eventSem /\ apc' = "decide"
    BY <1>6 DEF AttractionReceiveEnter, AttractionReceiveExit, Signalling
  <2> QED
    BY <1>1, <2>1, <2>2, <2>3
<1>7. CASE AttractionReplyHanded
  <2>1. PICK to \in {"permitted", "cleanup"} : pc' = [pc EXCEPT ![cur] = to]
    BY <1>7 DEF AttractionReplyHanded
  <2>2. pc[cur] = "blocked" /\ pc \in [Clients -> VisitPC]
    BY <1>7 DEF AttractionReplyHanded, TypeInv, TypeOK
  <2>3. Signalling' = Signalling
    BY <2>1, <2>2 DEF Signalling
  <2>4. /\ apc = "permit" /\ apc' \in {"ack", "serve"}
        /\ UNCHANGED <<eventSem, MessageCount>>
    BY <1>7 DEF AttractionReplyHanded, FinishRequest, MessageCount
  <2> QED
    BY <1>1, <2>3, <2>4
<1>8. CASE \/ AttractionReplyQueued \/ AttractionReplyTimeout \/ AttractionAck
           \/ AttractionCreate \/ AttractionServe
  BY <1>2, <1>8 DEF AttractionReplyQueued, AttractionReplyTimeout, AttractionAck,
                    AttractionCreate, AttractionServe
<1>9. CASE \/ AttractionCheck \/ AttractionSweep \/ AttractionAssign
           \/ AttractionStart
  BY <1>2, <1>9 DEF AttractionCheck, AttractionSweep, AttractionAssign,
                    AttractionStart
<1>10. CASE \/ AttractionWaitTimeout \/ AttractionDecide \/ AttractionNoHandler
            \/ AttractionServeEnd \/ AttractionDiscard \/ AttractionStarted
            \/ AttractionCrash
  BY <1>2, <1>10 DEF AttractionWaitTimeout, AttractionDecide,
       AttractionNoHandler, AttractionServeEnd, AttractionDiscard,
       AttractionStarted, AttractionCrash, Continue
<1> QED
  BY <1>3, <1>4, <1>5, <1>6, <1>7, <1>8, <1>9, <1>10 DEF AttractionStep

\* An attraction nobody pauses stays open.
LEMMA NeverPaused ==
  ASSUME ~PauseSent, ~paused, [Next]_vars
  PROVE  ~paused'
<1>1. CASE AttractionStep
  BY <1>1 DEF AttractionStep, AttractionCheck, AttractionStop, AttractionWait,
       AttractionWaitTimeout, AttractionSweep, AttractionReceiveTimeout,
       AttractionReceiveEnter, AttractionReceiveExit, AttractionDecide,
       AttractionNoHandler, AttractionCreate, AttractionServeEnd,
       AttractionServe, AttractionReplyHanded, AttractionReplyQueued,
       AttractionReplyTimeout, AttractionAck, AttractionDiscard,
       AttractionAssign, AttractionStart, AttractionStarted, AttractionCrash,
       AttractionClose, Continue
<1>2. ASSUME NEW c \in Clients, VisitStart(c) \/ VisitStep(c) \/ VisitEvacuate(c)
      PROVE  paused' = paused
  BY <1>2 DEF VisitStart, VisitStep, VisitEvacuate, VisitConnect, VisitRequest,
       VisitRequestTimeout, VisitSignal, VisitReceive, VisitGiveUp, VisitAck,
       VisitCleanup, RideReleased, RideTimeout, VisitExitConnect,
       VisitExitSend, VisitExitSignal
<1>3. CASE \/ MainSigint \/ MainOpenSemaphores \/ Ended \/ UNCHANGED vars
           \/ \E h \in Handlers : RideTimeEnds(h)
  BY <1>3 DEF MainSigint, MainOpenSemaphores, Ended, vars, RideTimeEnds
<1> QED
  BY <1>1, <1>2, <1>3 DEF Next, AttractionSigUsr1, AttractionSigUsr2

\* Main only adds units.
LEMMA OthersCover ==
  ASSUME TypeInv, EventCovered,
         \/ MainSigint \/ MainOpenSemaphores \/ Ended \/ UNCHANGED vars
         \/ \E h \in Handlers : RideTimeEnds(h)
         \/ \E c \in Clients : VisitEvacuate(c)
  PROVE  EventCovered'
<1>1. /\ eventSem \in Nat /\ MessageCount \in Nat
      /\ Cardinality(Signalling) \in Nat
  BY EventTypes
<1>2. /\ Signalling' = Signalling /\ MessageCount' = MessageCount /\ apc' = apc
      /\ eventSem' \in {eventSem, eventSem + 1}
  BY DEF MainSigint, MainOpenSemaphores, Ended, vars, RideTimeEnds,
         VisitEvacuate, SignalEvent, Signalling, MessageCount
<1> QED
  BY <1>1, <1>2 DEF EventCovered

\* While no operator pauses it, no message to the attraction is left without an
\* event that makes the attraction read it, for any number of clients and any
\* capacity of the queue, whichever sends time out.
THEOREM RideEventsCovered == ~PauseSent => (Spec => []EventCovered)
<1> SUFFICES ASSUME ~PauseSent PROVE Spec => []EventCovered
  OBVIOUS
<1> DEFINE Inv == ~paused /\ EventCovered
<1>1. Init => Inv
  <2> SUFFICES ASSUME Init PROVE Inv
    OBVIOUS
  <2>1. ~paused
    BY DEF Init
  <2>2. MessageCount = 0 /\ eventSem = 1 /\ apc = "check"
    BY DEF Init, MessageCount
  <2>3. Cardinality(Signalling) \in Nat
    BY InitType, EventTypes
  <2> QED
    BY <2>1, <2>2, <2>3 DEF EventCovered
<1>2. TypeInv /\ Inv /\ [Next]_vars => Inv'
  <2> SUFFICES ASSUME TypeInv, Inv, [Next]_vars PROVE Inv'
    OBVIOUS
  <2>1. ~paused'
    BY NeverPaused
  <2>2. EventCovered'
    BY ClientCovers, AttractionCovers, OthersCover
       DEF Next, AttractionSigUsr1, AttractionSigUsr2
  <2> QED
    BY <2>1, <2>2
<1> HIDE DEF Inv
<1>3. Inv => EventCovered
  BY DEF Inv
<1> QED
  BY <1>1, <1>2, <1>3, InitType, NextType, PTL DEF Spec

-----------------------------------------------------------------------------
(* Who is on the list of a ride, for an attraction of one handler whose      *)
(* queue has room for every exit.  RosterHonest is not inductive: a client   *)
(* gets on the list by an ACK that waits in a queue without a name, and      *)
(* waits among newClients until the ride starts.  Named says who is on the   *)
(* list or on the way to it.                                                 *)

\* No EXIT_ATTRACTION is given up for a full queue.
ExitsFit == \A c \in Clients : pc[c] = "exitSend" => MessageCount < MaxMsq

OnRide(c) == pc[c] \in {"riding", "exitConnect", "exitSend"} \/ ExitPending(c)

Named(c) ==
  \/ Listed(c)
  \/ apc \in Filling /\ c \in newClients
  \/ apc = "ack" /\ ReplySlot = Ack /\ cur = c

RosterInv ==
  isOpen =>
    /\ apc \notin {"close", "done"}
    /\ \A c \in Clients : /\ ~m_evac[c] /\ replyMQ[c] # Ack
                          /\ Named(c) => OnRide(c)

LEMMA SlotsDiffer ==
  /\ Empty # Ack /\ Refusal # Ack
  /\ \A h : Permit(h) # Ack
  /\ Reply # Ack
<1>1. /\ Empty.mType = "empty" /\ Refusal.mType = "refusal" /\ Ack.mType = "ack"
      /\ \A h : Permit(h).mType = "permit"
  BY DEF Empty, Refusal, Ack, Permit
<1>2. Empty # Ack /\ Refusal # Ack /\ \A h : Permit(h) # Ack
  BY <1>1
<1> QED
  BY <1>2 DEF Reply

\* An exit waits until it is received.
LEMMA ExitKept ==
  ASSUME TypeInv, NEW d \in Clients, ExitPending(d),
         \/ UNCHANGED attractionMQ
         \/ \E c \in Clients : \E type \in AttractionMessageType : SendAttraction(c, type)
         \/ /\ MessageCount > 0
            /\ attractionMQ' = Tail(attractionMQ)
            /\ Head(attractionMQ) # [senderPID |-> d, mType |-> "EXIT_ATTRACTION"]
  PROVE  ExitPending(d)'
<1>1. attractionMQ \in Seq(AttractionMQMessage)
  BY DEF TypeInv, TypeOK
<1> DEFINE exit == [senderPID |-> d, mType |-> "EXIT_ATTRACTION"]
<1> PICK i \in DOMAIN attractionMQ : attractionMQ[i] = exit
  BY DEF ExitPending
<1> SUFFICES \E j \in DOMAIN attractionMQ' : attractionMQ'[j] = exit
  BY DEF ExitPending
<1> HIDE DEF exit
<1>2. CASE UNCHANGED attractionMQ
  BY <1>2
<1>3. CASE \E c \in Clients : \E type \in AttractionMessageType : SendAttraction(c, type)
  <2> PICK c \in Clients, type \in AttractionMessageType : SendAttraction(c, type)
    BY <1>3
  <2> DEFINE m == [senderPID |-> c, mType |-> type]
  <2>1. m \in AttractionMQMessage /\ attractionMQ' = Append(attractionMQ, m)
    BY DEF AttractionMQMessage, SendAttraction
  <2> HIDE DEF m
  <2> QED
    BY <1>1, <2>1
<1>4. CASE /\ MessageCount > 0
           /\ attractionMQ' = Tail(attractionMQ)
           /\ Head(attractionMQ) # exit
  <2>1. attractionMQ # <<>>
    BY <1>1, <1>4 DEF MessageCount
  <2>2. i # 1
    BY <1>1, <1>4, <2>1
  <2>3. i - 1 \in DOMAIN attractionMQ' /\ attractionMQ'[i - 1] = attractionMQ[i]
    BY <1>1, <1>4, <2>1, <2>2
  <2> QED
    BY <2>3
<1> QED
  BY <1>2, <1>3, <1>4 DEF exit

\* Who is on a ride and is not released from it goes by way of the exit it sends.
LEMMA OnRideKept ==
  ASSUME TypeInv, RosterInv, isOpen, ExitsFit, NEW c \in Clients,
         VisitStart(c) \/ VisitStep(c), ~RideReleased(c),
         NEW d \in Clients, OnRide(d)
  PROVE  OnRide(d)'
<1> USE DEF GoTo
<1>1. pc \in [Clients -> VisitPC] /\ ~m_evac[c] /\ apc # "done"
  BY DEF TypeInv, TypeOK, RosterInv
<1>2. CASE ExitPending(d)
  <2>1. \/ UNCHANGED attractionMQ
        \/ \E type \in AttractionMessageType : SendAttraction(c, type)
    BY DEF VisitStart, VisitStep, VisitConnect, VisitRequest,
           VisitRequestTimeout, VisitSignal, VisitReceive, VisitGiveUp, VisitAck,
           VisitCleanup, RideTimeout, VisitExitConnect, VisitExitSend,
           VisitExitSignal, AttractionMessageType
  <2> QED
    BY <1>2, <2>1, ExitKept DEF OnRide
<1>3. CASE pc[d] \in {"riding", "exitConnect", "exitSend"} /\ d # c
  <2>1. pc'[d] = pc[d]
    BY <1>1, <1>3
       DEF VisitStart, VisitStep, VisitConnect, VisitRequest,
           VisitRequestTimeout, VisitSignal, VisitReceive, VisitGiveUp, VisitAck,
           VisitCleanup, RideTimeout, VisitExitConnect, VisitExitSend,
           VisitExitSignal
  <2> QED
    BY <1>3, <2>1 DEF OnRide
<1>4. CASE pc[d] \in {"riding", "exitConnect", "exitSend"} /\ d = c
  <2>1. CASE RideTimeout(c) \/ VisitExitConnect(c)
    BY <1>1, <1>4, <2>1 DEF RideTimeout, VisitExitConnect, AttractionLinked, OnRide
  <2>2. CASE VisitExitSend(c)
    <3> DEFINE m == [senderPID |-> c, mType |-> "EXIT_ATTRACTION"]
    <3>1. MessageCount < MaxMsq
      BY <2>2 DEF ExitsFit, VisitExitSend
    <3>2. ~(MessageCount >= MaxMsq)
      <4>1. MessageCount \in Nat /\ MaxMsq \in Nat
        BY RideAssumption DEF TypeInv, TypeOK, MessageCount
      <4> QED
        BY <3>1, <4>1
    <3>3. /\ attractionMQ' = Append(attractionMQ, m)
          /\ attractionMQ \in Seq(AttractionMQMessage)
          /\ m \in AttractionMQMessage
      BY <2>2, <3>2 DEF VisitExitSend, SendAttraction, TypeInv, TypeOK,
                        AttractionMQMessage, AttractionMessageType
    <3> HIDE DEF m
    <3>4. /\ Len(attractionMQ) + 1 \in DOMAIN attractionMQ'
          /\ attractionMQ'[Len(attractionMQ) + 1] = m
      BY <3>3
    <3> QED
      BY <1>4, <3>4 DEF OnRide, ExitPending, m
  <2> QED
    BY <1>4, <2>1, <2>2
       DEF VisitStart, VisitStep, VisitConnect, VisitRequest,
           VisitRequestTimeout, VisitSignal, VisitReceive, VisitGiveUp, VisitAck,
           VisitCleanup, VisitExitSignal
<1> QED
  BY <1>2, <1>3, <1>4 DEF OnRide

\* Whoever is released is on no list and on the way to none: the one semaphore
\* has a unit only while no ride is filled or runs.
LEMMA ReleasedIsNotNamed ==
  ASSUME HandlerCount = 1, TypeInv, NobodyReleasedEarly, NEW c \in Clients,
         RideReleased(c), NEW d
  PROVE  ~Named(d)
<1>1. /\ Handlers = {1} /\ semID[c] \in Handlers /\ newHandlerID \in Handlers
      /\ running \subseteq Handlers /\ leaveSem[semID[c]] > 0
      /\ leaveSem \in [Handlers -> Nat]
  BY DEF Handlers, RideReleased, TypeInv, TypeOK
<1>2. leaveSem[1] > 0 /\ leaveSem[1] # 0
  BY <1>1
<1>3. running = {} /\ apc \notin Filling
  BY <1>1, <1>2 DEF NobodyReleasedEarly, Filling
<1> QED
  BY <1>3 DEF Named, Listed, Filling

\* A step of a client: only the ACK of one that sits down names it.
LEMMA ClientKeepsRoster ==
  ASSUME HandlerCount = 1, TypeInv, NobodyReleasedEarly, RosterInv, ExitsFit,
         NEW c \in Clients, VisitStart(c) \/ VisitStep(c)
  PROVE  RosterInv'
<1> SUFFICES ASSUME isOpen' PROVE RosterInv'
  BY DEF RosterInv
<1> USE DEF GoTo
<1>1. /\ isOpen
      /\ UNCHANGED <<apc, m_evac, running, m_clientList, newClients, cur>>
  BY DEF VisitStart, VisitStep, VisitConnect, VisitRequest,
         VisitRequestTimeout, VisitSignal, VisitReceive, VisitGiveUp, VisitAck,
         VisitCleanup, RideReleased, RideTimeout, VisitExitConnect,
         VisitExitSend, VisitExitSignal, isOpen
<1>2. /\ apc \notin {"close", "done"}
      /\ \A d \in Clients : ~m_evac[d] /\ replyMQ[d] # Ack
      /\ \A d \in Clients : Named(d) => OnRide(d)
      /\ replyMQ \in [Clients -> Slot] /\ pc \in [Clients -> VisitPC]
  BY <1>1 DEF RosterInv, TypeInv, TypeOK
<1>3. \A d \in Clients : replyMQ'[d] # Ack
  BY <1>2, SlotsDiffer
     DEF VisitStart, VisitStep, VisitConnect, VisitRequest,
         VisitRequestTimeout, VisitSignal, VisitReceive, VisitGiveUp, VisitAck,
         VisitCleanup, RideReleased, RideTimeout, VisitExitConnect,
         VisitExitSend, VisitExitSignal, RemoveReplyQueue
<1>4. ASSUME NEW d \in Clients, Named(d)'
      PROVE  Named(d) \/ (VisitAck(c) /\ d = c)
  <2>1. CASE Listed(d)'
    BY <1>1, <2>1 DEF Named, Listed
  <2>2. CASE apc' \in Filling /\ d \in newClients'
    BY <1>1, <2>2 DEF Named
  <2>3. CASE apc' = "ack" /\ ReplySlot' = Ack /\ cur' = d
    <3>1. ~attached' /\ orphan' = Ack
      BY <1>1, <1>3, <2>3 DEF ReplySlot
    <3>2. CASE UNCHANGED <<attached, orphan>>
      BY <1>1, <2>3, <3>1, <3>2 DEF ReplySlot, Named
    <3>3. CASE cur = c /\ VisitAck(c)
      BY <1>1, <2>3, <3>3
    <3>4. CASE VisitCleanup(c) /\ orphan' = replyMQ[c]
      BY <1>2, <3>1, <3>4
    <3> QED
      BY <3>2, <3>3, <3>4
         DEF VisitStart, VisitStep, VisitConnect, VisitRequest,
             VisitRequestTimeout, VisitSignal, VisitReceive, VisitGiveUp,
             VisitAck, VisitCleanup, RideReleased, RideTimeout,
             VisitExitConnect, VisitExitSend, VisitExitSignal, RemoveReplyQueue
  <2> QED
    BY <1>4, <2>1, <2>2, <2>3 DEF Named
<1>5. ASSUME NEW d \in Clients, Named(d)' PROVE OnRide(d)'
  <2>1. CASE VisitAck(c) /\ d = c
    BY <1>2, <2>1 DEF VisitAck, OnRide
  <2>2. CASE Named(d)
    BY <1>1, <1>2, <2>2, OnRideKept, ReleasedIsNotNamed
  <2> QED
    BY <1>4, <1>5, <2>1, <2>2
<1> QED
  BY <1>1, <1>2, <1>3, <1>5 DEF RosterInv

\* A step that names nobody and takes nobody off a ride.
LEMMA QuietKeepsRoster ==
  ASSUME TypeInv, RosterInv, isOpen' => isOpen, UNCHANGED m_evac,
         isOpen /\ apc \notin {"close", "done"} => apc' \notin {"close", "done"},
         \A d \in Clients : replyMQ'[d] # replyMQ[d] => replyMQ'[d] # Ack,
         UNCHANGED attractionMQ,
         \A d \in Clients : pc'[d] = pc[d] \/ pc[d] = "blocked",
         \A d \in Clients : (\A e \in Clients : replyMQ[e] # Ack) /\ Named(d)'
                              => Named(d)
  PROVE  RosterInv'
<1>1. \A d \in Clients : OnRide(d) => OnRide(d)'
  BY DEF OnRide, ExitPending
<1> QED
  BY <1>1 DEF RosterInv

\* The attraction reads its queue: an exit takes its client off the one list.
LEMMA ReceiveKeepsRoster ==
  ASSUME HandlerCount = 1, TypeInv, RosterInv,
         AttractionReceiveEnter \/ AttractionReceiveExit
  PROVE  RosterInv'
<1> SUFFICES ASSUME isOpen' PROVE RosterInv'
  BY DEF RosterInv
<1>1. /\ isOpen /\ apc = "recv" /\ apc' = "decide" /\ MessageCount > 0
      /\ attractionMQ' = Tail(attractionMQ)
      /\ UNCHANGED <<m_evac, replyMQ, pc, running>>
  BY DEF AttractionReceiveEnter, AttractionReceiveExit, isOpen
<1>2. PICK c \in Clients : c = Head(attractionMQ).senderPID
  BY <1>1, ReceiveType
<1>3. ASSUME NEW d \in Clients, Named(d)' PROVE OnRide(d)'
  <2>1. Listed(d)'
    BY <1>1, <1>3 DEF Named, Filling
  <2>2. CASE AttractionReceiveExit /\ d = c
    <3>1. Handlers = {1} /\ running \subseteq Handlers /\ RemoveClient(c)
      BY <1>2, <2>2 DEF AttractionReceiveExit, Handlers, TypeInv, TypeOK
    <3>2. PICK h \in running : c \in m_clientList'[h]
      BY <1>1, <2>1, <2>2 DEF Listed
    <3>3. h = 1 /\ running = {1}
      BY <3>1
    <3>4. c \in m_clientList[1]
      BY <3>1, <3>2, <3>3 DEF RemoveClient
    <3>5. ListedOn(c) = {1}
      BY <3>3, <3>4 DEF ListedOn
    <3>6. m_clientList'[1] = m_clientList[1] \ {c}
      BY <3>1, <3>5 DEF RemoveClient
    <3> QED
      BY <3>2, <3>3, <3>6
  <2>3. CASE ~(AttractionReceiveExit /\ d = c)
    <3>1. Listed(d)
      <4>1. CASE AttractionReceiveEnter
        BY <2>1, <4>1 DEF AttractionReceiveEnter, Listed
      <4>2. CASE AttractionReceiveExit
        <5>1. RemoveClient(c)
          BY <1>2, <4>2 DEF AttractionReceiveExit
        <5>2. \A h \in Handlers : m_clientList'[h] \subseteq m_clientList[h]
          BY <5>1 DEF RemoveClient
        <5> QED
          BY <1>1, <2>1, <5>2 DEF Listed, TypeInv, TypeOK
      <4> QED
        BY <4>1, <4>2
    <3>2. OnRide(d)
      BY <1>1, <3>1 DEF RosterInv, Named
    <3>3. Head(attractionMQ) # [senderPID |-> d, mType |-> "EXIT_ATTRACTION"]
      BY <1>2, <2>3 DEF AttractionReceiveEnter, AttractionReceiveExit
    <3>4. ExitPending(d) => ExitPending(d)'
      BY <1>1, <3>3, ExitKept
    <3> QED
      BY <1>1, <3>2, <3>4 DEF OnRide
  <2> QED
    BY <2>2, <2>3
<1> QED
  BY <1>1, <1>3 DEF RosterInv

\* The attraction answers: of the clients it answers, it puts on its list those
\* whose ACK it finds.
LEMMA AnswerKeepsRoster ==
  ASSUME TypeInv, RosterInv,
         \/ AttractionReplyHanded \/ AttractionReplyQueued
         \/ AttractionReplyTimeout \/ AttractionAck
  PROVE  RosterInv'
<1>1. /\ isOpen' => isOpen
      /\ UNCHANGED <<m_evac, attractionMQ, running, m_clientList>>
      /\ apc \in {"permit", "ack"} /\ apc' \in {"ack", "serve"}
  BY DEF AttractionReplyHanded, AttractionReplyQueued, AttractionReplyTimeout,
         AttractionAck, FinishRequest, isOpen
<1>2. pc \in [Clients -> VisitPC] /\ replyMQ \in [Clients -> Slot] /\ cur \in Clients
  BY <1>1 DEF TypeInv, TypeOK, AnsweredIsKnown
<1>3. \A d \in Clients : pc'[d] = pc[d] \/ pc[d] = "blocked"
  BY <1>2 DEF AttractionReplyHanded, AttractionReplyQueued,
              AttractionReplyTimeout, AttractionAck
<1>4. \A d \in Clients : replyMQ'[d] # replyMQ[d] => replyMQ'[d] # Ack
  BY <1>2, SlotsDiffer
     DEF AttractionReplyHanded, AttractionReplyQueued, AttractionReplyTimeout,
         AttractionAck
<1>5. ASSUME NEW d \in Clients, \A e \in Clients : replyMQ[e] # Ack, Named(d)'
      PROVE  Named(d)
  <2>1. CASE Listed(d)'
    BY <1>1, <2>1 DEF Named, Listed
  <2>2. CASE d \in newClients'
    <3>1. d \in newClients \/ (AttractionAck /\ ReplySlot = Ack /\ cur = d)
      BY <2>2 DEF AttractionReplyHanded, AttractionReplyQueued,
                  AttractionReplyTimeout, AttractionAck
    <3> QED
      BY <1>1, <3>1 DEF Named, Filling, AttractionAck
  <2>3. CASE apc' = "ack" /\ ReplySlot' = Ack
    <3>1. PICK c \in Clients : c = cur
      BY <1>2
    <3>2. CASE AttractionReplyHanded
      <4>1. UNCHANGED <<cur, attached, replyMQ>> /\ attached
        BY <2>3, <3>2 DEF AttractionReplyHanded, FinishRequest
      <4>2. ReplySlot' = replyMQ[c]
        BY <3>1, <4>1 DEF ReplySlot
      <4> QED
        BY <1>5, <2>3, <4>2
    <3>3. CASE AttractionReplyQueued
      <4>1. /\ UNCHANGED <<cur, attached>>
            /\ replyMQ' = IF attached THEN [replyMQ EXCEPT ![c] = Reply] ELSE replyMQ
            /\ orphan' = IF attached THEN Empty ELSE Reply
        BY <2>3, <3>1, <3>3 DEF AttractionReplyQueued, FinishRequest
      <4>2. ReplySlot' = Reply
        BY <1>2, <3>1, <4>1 DEF ReplySlot
      <4> QED
        BY <2>3, <4>2, SlotsDiffer
    <3> QED
      BY <2>3, <3>2, <3>3 DEF AttractionReplyHanded, AttractionReplyQueued,
                              AttractionReplyTimeout, AttractionAck, FinishRequest
  <2> QED
    BY <1>5, <2>1, <2>2, <2>3 DEF Named
<1> QED
  BY <1>1, <1>3, <1>4, <1>5, QuietKeepsRoster

\* The other steps of the attraction, the signals, main and the time.
LEMMA OtherKeepsRoster ==
  ASSUME TypeInv, RosterInv, [Next]_vars,
         ~\E c \in Clients : VisitStart(c) \/ VisitStep(c) \/ VisitEvacuate(c),
         ~(AttractionReceiveEnter \/ AttractionReceiveExit),
         ~(\/ AttractionReplyHanded \/ AttractionReplyQueued
           \/ AttractionReplyTimeout \/ AttractionAck)
  PROVE  RosterInv'
<1> USE DEF Continue, isOpen
<1>1. ASSUME isOpen' => isOpen,
             isOpen /\ apc \notin {"close", "done"} => apc' \notin {"close", "done"},
             UNCHANGED <<m_evac, replyMQ, attractionMQ, pc>>,
             \A d \in Clients : Named(d)' => Named(d)
      PROVE  RosterInv'
  BY <1>1, QuietKeepsRoster
<1>2. ASSUME isOpen' => isOpen,
             isOpen /\ apc \notin {"close", "done"} => apc' \notin {"close", "done"},
             UNCHANGED <<m_evac, replyMQ, attractionMQ, pc, running, m_clientList,
                         newClients, cur, attached, orphan>>,
             apc' \in Filling => apc \in Filling,
             apc' = "ack" => apc = "ack"
      PROVE  RosterInv'
  <2>1. ReplySlot' = ReplySlot
    BY <1>2 DEF ReplySlot
  <2>2. \A d \in Clients : Named(d)' => Named(d)
    BY <1>2, <2>1 DEF Named, Listed
  <2> QED
    BY <1>1, <1>2, <2>2
<1>3. CASE \/ AttractionCheck \/ AttractionStop \/ AttractionWait
           \/ AttractionWaitTimeout \/ AttractionReceiveTimeout \/ AttractionDecide
           \/ AttractionNoHandler \/ AttractionServeEnd \/ AttractionDiscard
           \/ AttractionStart \/ AttractionStarted \/ AttractionCrash
  BY <1>2, <1>3
     DEF AttractionCheck, AttractionStop, AttractionWait, AttractionWaitTimeout,
         AttractionReceiveTimeout, AttractionDecide, AttractionNoHandler,
         AttractionServeEnd, AttractionDiscard, AttractionStart,
         AttractionStarted, AttractionCrash, Filling
<1>4. CASE \/ MainSigint \/ MainOpenSemaphores \/ Ended \/ UNCHANGED vars
           \/ \E h \in Handlers : RideTimeEnds(h)
  BY <1>2, <1>4 DEF MainSigint, MainOpenSemaphores, Ended, vars, RideTimeEnds
<1>5. CASE AttractionSigUsr2
  <2>1. apc' = apc \/ apc' = "sweep"
    BY <1>5 DEF AttractionSigUsr2, Interrupted
  <2> QED
    BY <1>2, <1>5, <2>1 DEF AttractionSigUsr2, Filling
<1>6. CASE AttractionSigUsr1
  <2>1. apc' = apc \/ apc' \in {"sweep", "crashed"}
    BY <1>6 DEF AttractionSigUsr1, Interrupted
  <2>2. /\ UNCHANGED <<mpc, m_evac, replyMQ, attractionMQ, pc, newClients, cur,
                       attached, orphan>>
        /\ running' = {}
    BY <1>6 DEF AttractionSigUsr1
  <2>3. ReplySlot' = ReplySlot
    BY <2>2 DEF ReplySlot
  <2>4. \A d \in Clients : Named(d)' => Named(d)
    BY <2>1, <2>2, <2>3 DEF Named, Listed, Filling
  <2> QED
    BY <1>1, <2>1, <2>2, <2>4
<1>7. CASE AttractionSweep
  <2>1. /\ apc = "sweep" /\ apc' \in {"check", "recv"}
        /\ UNCHANGED <<mpc, m_evac, replyMQ, attractionMQ, pc>>
        /\ running' \subseteq running /\ running \subseteq Handlers
        /\ ReleaseClients(Finished)
    BY <1>7 DEF AttractionSweep, TypeInv, TypeOK
  <2>2. \A h \in running' : m_clientList'[h] \subseteq m_clientList[h]
    BY <2>1 DEF ReleaseClients
  <2>3. \A d \in Clients : Named(d)' => Named(d)
    BY <2>1, <2>2 DEF Named, Listed, Filling
  <2> QED
    BY <1>1, <2>1, <2>3
<1>8. CASE AttractionCreate
  <2>1. /\ apc = "create" /\ apc' = "serve" /\ newClients' = {}
        /\ UNCHANGED <<mpc, m_evac, replyMQ, attractionMQ, pc, running, m_clientList>>
    BY <1>8 DEF AttractionCreate
  <2>2. \A d \in Clients : Named(d)' => Named(d)
    BY <2>1 DEF Named, Listed
  <2> QED
    BY <1>1, <2>1, <2>2
<1>9. CASE AttractionServe
  <2>1. /\ apc = "serve" /\ apc' \in {"serve", "permit"}
        /\ UNCHANGED <<mpc, m_evac, replyMQ, attractionMQ, pc, running,
                       m_clientList, newClients>>
    BY <1>9 DEF AttractionServe
  <2>2. \A d \in Clients : Named(d)' => Named(d)
    BY <2>1 DEF Named, Listed, Filling
  <2> QED
    BY <1>1, <2>1, <2>2
<1>10. CASE AttractionAssign
  <2>1. /\ apc = "finish" /\ apc' = "start"
        /\ UNCHANGED <<mpc, m_evac, replyMQ, attractionMQ, pc>>
        /\ running' = running \cup {newHandlerID}
        /\ m_clientList' = [m_clientList EXCEPT ![newHandlerID] = newClients]
        /\ running \subseteq Handlers /\ newHandlerID \in Handlers
        /\ m_clientList \in [Handlers -> SUBSET Clients]
    BY <1>10 DEF AttractionAssign, TypeInv, TypeOK
  <2>2. \A d \in Clients : Named(d)' => Named(d)
    BY <2>1 DEF Named, Listed, Filling
  <2> QED
    BY <1>1, <2>1, <2>2
<1>11. CASE AttractionClose
  BY <1>11 DEF AttractionClose, RosterInv
<1> QED
  BY <1>3, <1>4, <1>5, <1>6, <1>7, <1>8, <1>9, <1>10, <1>11 DEF Next, AttractionStep

LEMMA RosterInductive ==
  ASSUME HandlerCount = 1, TypeInv, NobodyReleasedEarly, RosterInv, ExitsFit,
         [Next]_vars
  PROVE  RosterInv'
<1>1. ASSUME NEW c \in Clients, VisitEvacuate(c) PROVE RosterInv'
  BY <1>1 DEF VisitEvacuate, RosterInv, isOpen
<1> QED
  BY <1>1, ClientKeepsRoster, ReceiveKeepsRoster, AnswerKeepsRoster,
     OtherKeepsRoster

\* Nobody stays on the list of a ride it left, for an attraction with one handler
\* (handlerCount of AttractionConfig) and any numbers of clients, seats and
\* visits, as long as no exit finds the attraction's queue full: the ACK that
\* names a client is the one of the visit it is in, however many requests, ACKs
\* and exits of earlier visits are unread, and it is read before the exit that
\* follows it (pRegisterClient, pLeaveAttraction, pRemoveClient).
THEOREM RideRosterHonest ==
  HandlerCount = 1 => (Spec /\ []ExitsFit => []RosterHonest)
<1> SUFFICES ASSUME HandlerCount = 1
             PROVE  Spec /\ []ExitsFit => []RosterHonest
  OBVIOUS
<1>1. Init => RosterInv
  <2>1. Init => \A c \in Clients : ~m_evac[c] /\ replyMQ[c] # Ack /\ ~Named(c)
    BY SlotsDiffer DEF Init, Named, Listed, Filling
  <2> QED
    BY <2>1 DEF Init, RosterInv
<1>2. TypeInv /\ NobodyReleasedEarly /\ RosterInv /\ ExitsFit /\ [Next]_vars
        => RosterInv'
  BY RosterInductive
<1>3. RosterInv => RosterHonest
  BY DEF RosterInv, RosterHonest, Named, OnRide
<1>4. Init => NobodyReleasedEarly
  BY DEF Init, NobodyReleasedEarly
<1> QED
  BY <1>1, <1>2, <1>3, <1>4, InitType, NextType, ReleaseInductive, PTL DEF Spec
=============================================================================
