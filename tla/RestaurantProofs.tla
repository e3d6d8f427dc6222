-------------------------- MODULE RestaurantProofs --------------------------
(***************************************************************************)
(* Proofs about Restaurant, for any set of clients, any number of seats    *)
(* and any capacity of the queue.                                          *)
(***************************************************************************)
EXTENDS Restaurant, FiniteSetTheorems, TLAPS

USE DEF sharedVars, flagVars, handlerVars, replyVars, clientVars, restaurantVars

\* A client being answered is known, one being admitted has its request at the
\* head of the queue, and a sitting is only filled when there is none.
AnsweredIsKnown ==
  /\ rpc \in {"permit", "refuse", "ack", "openBill", "bill", "billAck"}
       => cur \in Clients
  /\ rpc \in {"permit", "refuse", "ack"} => m_enterQueue # <<>>
  /\ rpc \in Serving => ~m_handler

TypeInv == TypeOK /\ AnsweredIsKnown

-----------------------------------------------------------------------------
(* The restaurant                                                           *)

LEMMA SendType ==
  ASSUME TypeInv, NEW c \in Clients, NEW type \in RestaurantMessageType,
         SendRestaurant(c, type)
  PROVE  restaurantMQ' \in Seq(RestaurantMQMessage)
<1>1. [senderPID |-> c, mType |-> type, fromPark |-> fromPark[c]]
        \in RestaurantMQMessage
  BY DEF TypeInv, TypeOK, RestaurantMQMessage
<1> QED
  BY <1>1 DEF TypeInv, TypeOK, SendRestaurant

\* What is received is a message of a client.
LEMMA ReceiveType ==
  ASSUME TypeInv, NEW type, Receives(type)
  PROVE  /\ restaurantMQ' \in Seq(RestaurantMQMessage)
         /\ Head(restaurantMQ) \in RestaurantMQMessage
         /\ Head(restaurantMQ).senderPID \in Clients
         /\ Len(restaurantMQ') = Len(restaurantMQ) - 1
<1>1. restaurantMQ \in Seq(RestaurantMQMessage) /\ restaurantMQ # <<>>
  BY DEF TypeInv, TypeOK, Receives, MessageCount
<1>2. /\ Tail(restaurantMQ) \in Seq(RestaurantMQMessage)
      /\ Head(restaurantMQ) \in RestaurantMQMessage
      /\ Len(Tail(restaurantMQ)) = Len(restaurantMQ) - 1
  BY <1>1
<1> QED
  BY <1>2 DEF Receives, RestaurantMQMessage

\* Who is at the head of the queue of requests.
LEMMA RequestType ==
  ASSUME TypeInv, m_enterQueue # <<>>
  PROVE  /\ Head(m_enterQueue) \in RestaurantMQMessage
         /\ Head(m_enterQueue).senderPID \in Clients
         /\ Tail(m_enterQueue) \in Seq(RestaurantMQMessage)
<1>1. m_enterQueue \in Seq(RestaurantMQMessage)
  BY DEF TypeInv, TypeOK
<1>2. /\ Head(m_enterQueue) \in RestaurantMQMessage
      /\ Tail(m_enterQueue) \in Seq(RestaurantMQMessage)
  BY <1>1
<1> QED
  BY <1>2 DEF RestaurantMQMessage

\* Adding the sum of a sitting's list to the leave semaphore.
LEMMA ListedFinite ==
  ASSUME NEW S \in SUBSET Clients
  PROVE  /\ IsFiniteSet(S) /\ IsFiniteSet(S \cap Parents)
         /\ Cardinality(S) \in Nat /\ People(S) \in Nat
<1>1. IsFiniteSet(S)
  BY FS_Subset, RestaurantAssumption
<1>2. IsFiniteSet(S \cap Parents)
  BY <1>1, FS_Intersection
<1> QED
  BY <1>1, <1>2, FS_CardinalityType DEF People

LEMMA ReleaseType ==
  ASSUME TypeInv, ReleaseClients
  PROVE  leaveSem' \in Nat
<1>1. Cardinality(Listed) \in Nat
  BY ListedFinite DEF Listed
<1> QED
  BY <1>1 DEF ReleaseClients, TypeInv, TypeOK

\* The steps that only move the restaurant on.
LEMMA ContinueType ==
  ASSUME TypeInv, NEW from \in RestaurantPC, NEW to \in RestaurantPC,
         Continue(from, to),
         to \notin {"permit", "refuse", "ack", "openBill", "bill", "billAck"},
         to \in Serving => ~m_handler,
         ~m_handler /\ to \notin Serving => Listed = {}
  PROVE  TypeInv'
  BY DEF Continue, TypeInv, TypeOK, AnsweredIsKnown, Listed

\* Answering a client: what FinishRequest and FinishBill leave.
LEMMA FinishType ==
  ASSUME TypeInv, NEW list \in [Clients -> ListEntry],
         m_enterQueue # <<>>, rpc \in Serving, FinishRequest(list),
         UNCHANGED <<mpc, eventSem, restaurantMQ, leaveSem, linked, flagVars,
                     m_handler, over, released, clientVars>>,
         replyMQ' \in [Clients -> Slot]
  PROVE  TypeInv'
<1>1. m_enterQueue' \in Seq(RestaurantMQMessage)
  BY RequestType DEF FinishRequest
<1>2. /\ rpc' = "serve" /\ m_clientList' = list
      /\ cur' = NoClient /\ attached' = FALSE /\ orphan' = "empty"
  BY DEF FinishRequest, Detach
<1>3. AnsweredIsKnown'
  BY <1>2 DEF TypeInv, AnsweredIsKnown, Serving
<1> QED
  BY <1>1, <1>2, <1>3 DEF TypeInv, TypeOK, AnsweredIsKnown, RestaurantPC, Serving, Slot

LEMMA FinishBillType ==
  ASSUME TypeInv, cur \in Clients, rpc \in {"openBill", "bill", "billAck"}, FinishBill,
         UNCHANGED <<mpc, eventSem, restaurantMQ, leaveSem, linked, flagVars,
                     m_handler, over, released, clientVars>>,
         replyMQ' \in [Clients -> Slot]
  PROVE  TypeInv'
<1>1. /\ rpc' = "decide" /\ UNCHANGED m_enterQueue
      /\ cur' = NoClient /\ attached' = FALSE /\ orphan' = "empty"
      /\ m_clientList' = IF m_handler THEN [m_clientList EXCEPT ![cur] = "absent"]
                                      ELSE m_clientList
  BY DEF FinishBill, Detach, RemoveClient
<1>2. m_clientList' \in [Clients -> ListEntry]
  BY <1>1 DEF TypeInv, TypeOK, ListEntry
<1>3. ~m_handler' /\ rpc' \notin Serving => Listed' = {}
  BY <1>1 DEF TypeInv, TypeOK, Listed, Serving
<1>4. AnsweredIsKnown'
  BY <1>1 DEF AnsweredIsKnown, Serving
<1> QED
  BY <1>1, <1>2, <1>3, <1>4 DEF TypeInv, TypeOK, RestaurantPC, Slot

\* The loop and the queue.
LEMMA LoopType ==
  ASSUME TypeInv,
         \/ RestaurantCheck \/ RestaurantStop \/ RestaurantWait
         \/ RestaurantWaitTimeout \/ RestaurantSweep \/ RestaurantKeep
         \/ RestaurantReceiveTimeout \/ RestaurantReceiveEnter
         \/ RestaurantReceiveExit \/ RestaurantClose
  PROVE  TypeInv'
<1> USE DEF TypeInv, TypeOK, AnsweredIsKnown, RestaurantPC, Serving, Replying, Listed
<1>1. CASE RestaurantCheck
  BY <1>1 DEF RestaurantCheck
<1>2. CASE RestaurantStop \/ RestaurantClose
  BY <1>2, ContinueType DEF RestaurantStop, RestaurantClose, Continue
<1>3. CASE RestaurantWait
  BY <1>3 DEF RestaurantWait
<1>4. CASE RestaurantWaitTimeout \/ RestaurantKeep \/ RestaurantReceiveTimeout
  BY <1>4, ContinueType
     DEF RestaurantWaitTimeout, RestaurantKeep, RestaurantReceiveTimeout, Continue
<1>5. CASE RestaurantSweep
  <2>1. leaveSem' \in Nat
    BY <1>5, ReleaseType DEF RestaurantSweep
  <2> QED
    BY <1>5, <2>1 DEF RestaurantSweep, ListEntry
<1>6. CASE RestaurantReceiveEnter
  <2>1. /\ restaurantMQ' \in Seq(RestaurantMQMessage)
        /\ Head(restaurantMQ) \in RestaurantMQMessage
    BY <1>6, ReceiveType DEF RestaurantReceiveEnter
  <2>2. m_enterQueue' \in Seq(RestaurantMQMessage)
    BY <1>6, <2>1 DEF RestaurantReceiveEnter
  <2> QED
    BY <1>6, <2>1, <2>2 DEF RestaurantReceiveEnter, Receives
<1>7. CASE RestaurantReceiveExit
  <2>1. /\ restaurantMQ' \in Seq(RestaurantMQMessage)
        /\ Head(restaurantMQ).senderPID \in Clients
    BY <1>7, ReceiveType DEF RestaurantReceiveExit
  <2> QED
    BY <1>7, <2>1 DEF RestaurantReceiveExit, Receives, RemoveClient, ListEntry
<1> QED
  BY <1>1, <1>2, <1>3, <1>4, <1>5, <1>6, <1>7

\* Answering a client.
LEMMA AnswerType ==
  ASSUME TypeInv,
         \/ RestaurantOpenBill \/ RestaurantReplyHanded \/ RestaurantReplyQueued
         \/ RestaurantReplyTimeout \/ RestaurantAck
  PROVE  TypeInv'
<1> USE DEF TypeInv, RestaurantPC, Serving, Replying
<1>1. CASE RestaurantOpenBill
  <2>1. CASE FinishBill
    BY <1>1, <2>1, FinishBillType DEF RestaurantOpenBill, TypeOK, AnsweredIsKnown
  <2>2. CASE rpc' = "bill"
    BY <1>1, <2>2 DEF RestaurantOpenBill, TypeOK, AnsweredIsKnown, Listed, FinishBill
  <2> QED
    BY <1>1, <2>1, <2>2 DEF RestaurantOpenBill
<1>2. ASSUME NEW slot \in Slot, Sent(slot), rpc \in Replying,
             UNCHANGED <<mpc, eventSem, restaurantMQ, leaveSem, linked, flagVars,
                         m_handler, over, released, fromPark, visits>>,
             pc' \in [Clients -> VisitPC], replyMQ' \in [Clients -> Slot]
      PROVE  TypeInv'
  <2>1. cur \in Clients
    BY <1>2 DEF AnsweredIsKnown
  <2>2. CASE rpc = "refuse"
    <3>1. /\ rpc' = "serve" /\ UNCHANGED m_clientList
          /\ cur' = NoClient /\ attached' = FALSE /\ orphan' = "empty"
      BY <1>2, <2>2 DEF Sent, FinishRequest, Detach
    <3>2. m_enterQueue' \in Seq(RestaurantMQMessage)
      BY <1>2, <2>2, RequestType DEF Sent, FinishRequest, AnsweredIsKnown
    <3> QED
      BY <1>2, <2>2, <3>1, <3>2 DEF TypeOK, AnsweredIsKnown, Slot
  <2>3. CASE rpc # "refuse"
    BY <1>2, <2>1, <2>3 DEF Sent, TypeOK, AnsweredIsKnown, Listed
  <2> QED
    BY <2>2, <2>3
<1>3. CASE RestaurantReplyHanded
  <2>1. AfterReading(pc[cur], Message) \in VisitPC
    BY DEF AfterReading, VisitPC
  <2>2. pc' \in [Clients -> VisitPC]
    BY <1>3, <2>1 DEF RestaurantReplyHanded, TypeOK
  <2>3. replyMQ' \in [Clients -> Slot]
    BY <1>3 DEF RestaurantReplyHanded, TypeOK
  <2> QED
    BY <1>2, <1>3, <2>2, <2>3 DEF RestaurantReplyHanded, Slot
<1>4. CASE RestaurantReplyQueued
  <2>1. Message \in Slot /\ "empty" \in Slot
    BY DEF Message, Slot
  <2>2. pc' \in [Clients -> VisitPC] /\ replyMQ' \in [Clients -> Slot]
    BY <1>4, <2>1 DEF RestaurantReplyQueued, TypeOK
  <2> QED
    BY <1>2, <1>4, <2>1, <2>2 DEF RestaurantReplyQueued
<1>5. CASE RestaurantReplyTimeout
  <2>1. replyMQ' \in [Clients -> Slot] /\ m_clientList \in [Clients -> ListEntry]
    BY <1>5 DEF RestaurantReplyTimeout, TypeOK
  <2> QED
    BY <1>5, <2>1, FinishType, FinishBillType
       DEF RestaurantReplyTimeout, AnsweredIsKnown
<1>6. CASE RestaurantAck
  <2>1. replyMQ' \in [Clients -> Slot]
    BY <1>6 DEF RestaurantAck, TypeOK, Slot
  <2>2. CASE rpc = "ack"
    <3> DEFINE list == IF ReplySlot = "ack"
                       THEN AddClient(cur, Head(m_enterQueue).fromPark)
                       ELSE m_clientList
    <3>1. list \in [Clients -> ListEntry]
      BY DEF TypeOK, AddClient, ListEntry
    <3>2. FinishRequest(list) /\ m_enterQueue # <<>>
      BY <1>6, <2>2 DEF RestaurantAck, AnsweredIsKnown
    <3> HIDE DEF list
    <3> QED
      BY <1>6, <2>1, <2>2, <3>1, <3>2, FinishType DEF RestaurantAck
  <2>3. CASE rpc = "billAck"
    BY <1>6, <2>1, <2>3, FinishBillType DEF RestaurantAck, AnsweredIsKnown
  <2> QED
    BY <1>6, <2>2, <2>3 DEF RestaurantAck
<1> QED
  BY <1>1, <1>3, <1>4, <1>5, <1>6

\* Filling a sitting.
LEMMA SittingType ==
  ASSUME TypeInv,
         \/ RestaurantDecide \/ RestaurantCreate \/ RestaurantServeEnd
         \/ RestaurantServe \/ RestaurantDiscard \/ RestaurantAssign
         \/ RestaurantStart \/ SittingEnds
  PROVE  TypeInv'
<1> USE DEF TypeInv, RestaurantPC, Serving
<1>1. CASE RestaurantDecide \/ RestaurantServeEnd \/ RestaurantDiscard
  BY <1>1, ContinueType
     DEF RestaurantDecide, RestaurantServeEnd, RestaurantDiscard, Continue,
         TypeOK, AnsweredIsKnown
<1>2. CASE RestaurantCreate
  BY <1>2 DEF RestaurantCreate, TypeOK, AnsweredIsKnown
<1>3. CASE RestaurantServe
  <2> DEFINE c == Head(m_enterQueue).senderPID
  <2>1. m_enterQueue # <<>> /\ rpc = "serve" /\ c \in Clients
    BY <1>3, RequestType DEF RestaurantServe
  <2>2. CASE FinishRequest(m_clientList)
    BY <1>3, <2>1, <2>2, FinishType DEF RestaurantServe, TypeOK
  <2>3. CASE ~FinishRequest(m_clientList)
    BY <1>3, <2>1, <2>3 DEF RestaurantServe, TypeOK, AnsweredIsKnown
  <2> QED
    BY <2>2, <2>3
<1>4. CASE RestaurantAssign
  BY <1>4 DEF RestaurantAssign, TypeOK, AnsweredIsKnown
<1>5. CASE RestaurantStart
  BY <1>5 DEF RestaurantStart, TypeOK, AnsweredIsKnown, Listed
<1>6. CASE SittingEnds
  BY <1>6 DEF SittingEnds, TypeOK, AnsweredIsKnown, Listed
<1> QED
  BY <1>1, <1>2, <1>3, <1>4, <1>5, <1>6

-----------------------------------------------------------------------------
(* The clients, the signals and main *)

\* What the unlinking of a reply queue leaves.
LEMMA RemoveType ==
  ASSUME TypeInv, NEW c \in Clients, NEW left \in Slot, RemoveReplyQueue(c, left)
  PROVE  /\ linked' \subseteq Clients
         /\ replyMQ' \in [Clients -> Slot]
         /\ orphan' \in Slot
         /\ attached' \in BOOLEAN
<1>1. linked' \subseteq Clients /\ replyMQ' \in [Clients -> Slot]
  BY DEF RemoveReplyQueue, TypeInv, TypeOK, Slot
<1>2. orphan' \in Slot
  BY DEF RemoveReplyQueue, TypeInv, TypeOK
<1>3. attached' \in BOOLEAN
  BY Zenon DEF RemoveReplyQueue, TypeInv, TypeOK
<1> QED
  BY <1>1, <1>2, <1>3

\* Nothing else of the state is disturbed by it.
LEMMA RemovedType ==
  ASSUME TypeInv,
         pc' \in [Clients -> VisitPC],
         linked' \subseteq Clients, replyMQ' \in [Clients -> Slot],
         orphan' \in Slot, attached' \in BOOLEAN,
         UNCHANGED <<mpc, eventSem, restaurantMQ, leaveSem, rpc, flagVars,
                     handlerVars, m_enterQueue, cur, fromPark, visits>>
  PROVE  TypeInv'
<1>1. AnsweredIsKnown'
  BY DEF TypeInv, AnsweredIsKnown, Serving
<1>2. Listed' = Listed
  BY DEF Listed
<1>3. TypeOK'
  BY <1>2, Zenon DEF TypeInv, TypeOK
<1> QED
  BY <1>1, <1>3 DEF TypeInv

LEMMA ClientType ==
  ASSUME TypeInv, NEW c \in Clients, VisitStart(c) \/ VisitStep(c)
  PROVE  TypeInv'
<1> USE DEF TypeInv, AnsweredIsKnown, Goes
<1>1. ASSUME NEW from, NEW to \in VisitPC, Alone(c, from, to)
      PROVE  TypeInv'
  BY <1>1 DEF Alone, TypeOK, Listed
<1>2. CASE VisitStart(c)
  <2>1. pc' \in [Clients -> VisitPC]
    BY <1>2 DEF VisitStart, TypeOK, VisitPC
  <2>2. fromPark' \in [Clients -> BOOLEAN]
    BY <1>2 DEF VisitStart, TypeOK
  <2>3. visits' \in [Clients -> 0 .. MaxVisits]
    BY <1>2, RestaurantAssumption DEF VisitStart, TypeOK
  <2> QED
    BY <1>2, <2>1, <2>2, <2>3 DEF VisitStart, TypeOK, Listed
<1>3. CASE VisitConnect(c)
  <2>1. linked' \subseteq Clients /\ pc' \in [Clients -> VisitPC]
    BY <1>3 DEF VisitConnect, CreateReplyQueue, TypeOK, VisitPC
  <2> QED
    BY <1>3, <2>1 DEF VisitConnect, TypeOK, Listed
<1>4. CASE VisitConnectFails(c)
  BY <1>1, <1>4 DEF VisitConnectFails, VisitPC
<1>5. CASE VisitRequest(c)
  <2>1. restaurantMQ' \in Seq(RestaurantMQMessage)
    BY <1>5, SendType DEF VisitRequest, RestaurantMessageType
  <2>2. pc' \in [Clients -> VisitPC]
    BY <1>5 DEF VisitRequest, TypeOK, VisitPC
  <2> QED
    BY <1>5, <2>1, <2>2 DEF VisitRequest, TypeOK, Listed
<1>6. CASE VisitRequestTimeout(c)
  BY <1>1, <1>6 DEF VisitRequestTimeout, VisitPC
<1>7. CASE VisitSignal(c)
  <2>1. \E to \in VisitPC : pc' = [pc EXCEPT ![c] = to]
    <3>1. CASE Goes(c, "signal", "receive")
      BY <3>1 DEF VisitPC
    <3>2. CASE Goes(c, "exitSignal", "cleanup")
      BY <3>2 DEF VisitPC
    <3>3. CASE Goes(c, "exitSignal", "billReceive")
      BY <3>3 DEF VisitPC
    <3> QED
      BY <1>7, <3>1, <3>2, <3>3, Zenon DEF VisitSignal
  <2>2. eventSem' \in Nat
    BY <1>7 DEF VisitSignal, SignalEvent, TypeOK
  <2>3. pc' \in [Clients -> VisitPC]
    BY <2>1 DEF TypeOK
  <2> QED
    BY <1>7, <2>2, <2>3 DEF VisitSignal, TypeOK, Listed
<1>8. CASE VisitReceive(c)
  <2>1. \A at, msg : AfterReading(at, msg) \in VisitPC
    BY DEF AfterReading, VisitPC
  <2>2. pc' \in [Clients -> VisitPC]
    <3>1. \E to \in VisitPC : pc' = [pc EXCEPT ![c] = to]
      <4>1. "blocked" \in VisitPC /\ "billBlocked" \in VisitPC
        BY DEF VisitPC
      <4> QED
        BY <1>8, <2>1, <4>1 DEF VisitReceive
    <3> QED
      BY <3>1 DEF TypeOK
  <2>3. replyMQ' \in [Clients -> Slot]
    BY <1>8 DEF VisitReceive, TypeOK, Slot
  <2> QED
    BY <1>8, <2>2, <2>3 DEF VisitReceive, TypeOK, Listed
<1>9. CASE VisitGiveUp(c)
  BY <1>1, <1>9 DEF VisitGiveUp, VisitPC
<1>10. CASE VisitAck(c)
  <2>1. pc' \in [Clients -> VisitPC]
    BY <1>10 DEF VisitAck, TypeOK, VisitPC
  <2>2. /\ linked' \subseteq Clients /\ replyMQ' \in [Clients -> Slot]
        /\ orphan' \in Slot /\ attached' \in BOOLEAN
    BY <1>10, RemoveType DEF VisitAck, Slot
  <2> QED
    BY <1>10, <2>1, <2>2, RemovedType DEF VisitAck
<1>11. CASE VisitAckTimeout(c)
  BY <1>1, <1>11 DEF VisitAckTimeout, VisitPC
<1>12. CASE VisitCleanup(c)
  <2>1. pc' \in [Clients -> VisitPC] /\ replyMQ[c] \in Slot
    BY <1>12 DEF VisitCleanup, TypeOK, VisitPC
  <2>2. /\ linked' \subseteq Clients /\ replyMQ' \in [Clients -> Slot]
        /\ orphan' \in Slot /\ attached' \in BOOLEAN
    BY <1>12, <2>1, RemoveType DEF VisitCleanup
  <2> QED
    BY <1>12, <2>1, <2>2, RemovedType DEF VisitCleanup
<1>13. CASE SittingReleased(c)
  <2>1. pc' \in [Clients -> VisitPC] /\ leaveSem' \in Nat
    BY <1>13 DEF SittingReleased, TypeOK, VisitPC
  <2> QED
    BY <1>13, <2>1 DEF SittingReleased, TypeOK, Listed
<1>14. CASE SittingTimeout(c)
  BY <1>1, <1>14 DEF SittingTimeout, VisitPC
<1>15. CASE VisitExitConnect(c)
  <2>1. pc' \in [Clients -> VisitPC] /\ linked' \subseteq Clients
    BY <1>15 DEF VisitExitConnect, CreateReplyQueue, TypeOK, VisitPC
  <2> QED
    BY <1>15, <2>1 DEF VisitExitConnect, TypeOK, Listed
<1>16. CASE VisitExitSend(c)
  <2>1. restaurantMQ' \in Seq(RestaurantMQMessage)
    BY <1>16, SendType DEF VisitExitSend, RestaurantMessageType
  <2>2. pc' \in [Clients -> VisitPC]
    BY <1>16 DEF VisitExitSend, TypeOK, VisitPC
  <2> QED
    BY <1>16, <2>1, <2>2 DEF VisitExitSend, TypeOK, Listed
<1> QED
  BY <1>2, <1>3, <1>4, <1>5, <1>6, <1>7, <1>8, <1>9, <1>10, <1>11, <1>12, <1>13,
     <1>14, <1>15, <1>16 DEF VisitStep

LEMMA SignalType ==
  ASSUME TypeInv, RestaurantSigUsr1 \/ RestaurantSigUsr2
  PROVE  TypeInv'
<1> USE DEF TypeInv, AnsweredIsKnown, Serving, Interrupted
<1>1. CASE RestaurantSigUsr1
  <2>1. leaveSem' \in Nat
    BY <1>1, ReleaseType DEF RestaurantSigUsr1, TypeOK
  <2>2. released' \in BOOLEAN /\ (released' => m_handler')
    BY <1>1 DEF RestaurantSigUsr1, TypeOK
  <2>3. rpc' \in RestaurantPC
    BY <1>1 DEF RestaurantSigUsr1, TypeOK, RestaurantPC
  <2>4. AnsweredIsKnown'
    BY <1>1 DEF RestaurantSigUsr1
  <2> QED
    BY <1>1, <2>1, <2>2, <2>3, <2>4 DEF RestaurantSigUsr1, TypeOK, Listed
<1>2. CASE RestaurantSigUsr2
  <2>1. rpc' \in RestaurantPC /\ (rpc' = rpc \/ (rpc = "wait" /\ rpc' = "sweep"))
    BY <1>2 DEF RestaurantSigUsr2, TypeOK, RestaurantPC
  <2>2. paused' \in BOOLEAN /\ Listed' = Listed
    BY <1>2 DEF RestaurantSigUsr2, Listed
  <2>3. AnsweredIsKnown'
    BY <1>2, <2>1 DEF RestaurantSigUsr2
  <2> QED
    BY <1>2, <2>1, <2>2, <2>3 DEF RestaurantSigUsr2, TypeOK
<1> QED
  BY <1>1, <1>2

LEMMA MainType ==
  ASSUME TypeInv, MainSigint \/ MainKillRestaurant \/ MainOpenSemaphores
  PROVE  TypeInv'
<1> USE DEF TypeInv, AnsweredIsKnown, Serving
<1>1. CASE MainSigint
  BY <1>1 DEF MainSigint, TypeOK, Listed
<1>2. CASE MainKillRestaurant
  <2>1. CASE RestaurantSigInt
    BY <1>2, <2>1 DEF MainKillRestaurant, RestaurantSigInt, Interrupted, TypeOK,
                      Listed, RestaurantPC
  <2>2. CASE UNCHANGED restaurantVars
    BY <1>2, <2>2 DEF MainKillRestaurant, TypeOK, Listed
  <2> QED
    BY <1>2, <2>1, <2>2 DEF MainKillRestaurant
<1>3. CASE MainOpenSemaphores
  BY <1>3 DEF MainOpenSemaphores, SignalEvent, TypeOK, Listed
<1> QED
  BY <1>1, <1>2, <1>3

LEMMA InitType == Init => TypeInv
<1> SUFFICES ASSUME Init PROVE TypeInv
  OBVIOUS
<1>1. /\ replyMQ \in [Clients -> Slot] /\ m_clientList \in [Clients -> ListEntry]
      /\ pc \in [Clients -> VisitPC] /\ fromPark \in [Clients -> BOOLEAN]
      /\ visits \in [Clients -> 0 .. MaxVisits]
  BY RestaurantAssumption DEF Init, Slot, ListEntry, VisitPC
<1>2. /\ restaurantMQ \in Seq(RestaurantMQMessage)
      /\ m_enterQueue \in Seq(RestaurantMQMessage)
      /\ rpc \in RestaurantPC /\ Listed = {} /\ orphan \in Slot
  BY DEF Init, RestaurantPC, Listed, Slot
<1>3. /\ paused \in BOOLEAN /\ evac \in BOOLEAN /\ noTimeout \in BOOLEAN
      /\ attached \in BOOLEAN /\ ~m_handler /\ ~over /\ ~released
  BY DEF Init
<1>4. AnsweredIsKnown
  BY DEF Init, AnsweredIsKnown, Serving
<1> QED
  BY <1>1, <1>2, <1>3, <1>4 DEF Init, TypeInv, TypeOK

LEMMA NextType == TypeInv /\ [Next]_vars => TypeInv'
<1> SUFFICES ASSUME TypeInv, [Next]_vars PROVE TypeInv'
  OBVIOUS
<1>1. CASE UNCHANGED vars
  BY <1>1 DEF vars, TypeInv, TypeOK, AnsweredIsKnown, Listed
<1> QED
  BY <1>1, LoopType, AnswerType, SittingType, ClientType, SignalType, MainType
     DEF Next, RestaurantStep, Ended

\* Type correctness of the restaurant for any clients, seats and queue: a list
\* belongs to a sitting or to the one being filled, and a sitting over or released
\* exists.
THEOREM RestaurantTypeCorrect == Spec => []TypeOK
<1>1. TypeInv => TypeOK
  BY DEF TypeInv
<1> QED
  BY <1>1, InitType, NextType, PTL DEF Spec

-----------------------------------------------------------------------------
(* The leave semaphore *)

ReleaseInv ==
  rpc \in Serving \/ (m_handler /\ ~released) => leaveSem = 0

\* The restaurant sets the semaphore to 0 before it fills a sitting; what raises
\* it later ends the sitting or marks it released.
LEMMA ReleaseInductive == TypeInv /\ ReleaseInv /\ [Next]_vars => ReleaseInv'
<1> SUFFICES ASSUME TypeInv, ReleaseInv, [Next]_vars PROVE ReleaseInv'
  OBVIOUS
<1>1. rpc \in Serving => ~m_handler
  BY DEF TypeInv, AnsweredIsKnown
<1>2. CASE UNCHANGED <<rpc, m_handler, released, leaveSem>>
  BY <1>2 DEF ReleaseInv, Serving
<1>3. ASSUME NEW c \in Clients, VisitStart(c) \/ VisitStep(c) PROVE ReleaseInv'
  <2>1. CASE SittingReleased(c)
    BY <2>1 DEF SittingReleased, ReleaseInv, Serving, TypeInv, TypeOK
  <2>2. CASE ~SittingReleased(c)
    <3>1. UNCHANGED <<rpc, m_handler, released, leaveSem>>
      BY <1>3, <2>2 DEF VisitStart, VisitStep, Alone, VisitConnect,
           VisitConnectFails, VisitRequest, VisitRequestTimeout, VisitSignal,
           VisitReceive, VisitGiveUp, VisitAck, VisitAckTimeout, VisitCleanup,
           SittingTimeout, VisitExitConnect, VisitExitSend
    <3> QED
      BY <1>2, <3>1
  <2> QED
    BY <2>1, <2>2
<1>4. CASE RestaurantStep
  <2> USE DEF ReleaseInv, Serving, Replying
  <2>1. CASE RestaurantSweep
    BY <2>1 DEF RestaurantSweep
  <2>2. CASE RestaurantCreate \/ RestaurantStart
    BY <2>2 DEF RestaurantCreate, RestaurantStart
  <2>3. CASE RestaurantAssign
    BY <2>3 DEF RestaurantAssign
  <2>4. CASE RestaurantReplyHanded \/ RestaurantReplyQueued
    BY <2>4 DEF RestaurantReplyHanded, RestaurantReplyQueued, Sent, FinishRequest
  <2>5. CASE RestaurantReplyTimeout \/ RestaurantAck
    BY <2>5 DEF RestaurantReplyTimeout, RestaurantAck, FinishRequest, FinishBill
  <2>6. CASE RestaurantServe
    BY <2>6 DEF RestaurantServe, FinishRequest
  <2>7. CASE RestaurantServeEnd \/ RestaurantDiscard
    BY <2>7 DEF RestaurantServeEnd, RestaurantDiscard, Continue
  <2>8. CASE \/ RestaurantCheck \/ RestaurantStop \/ RestaurantWait
             \/ RestaurantWaitTimeout \/ RestaurantKeep
             \/ RestaurantReceiveTimeout \/ RestaurantReceiveEnter
             \/ RestaurantDecide \/ RestaurantClose
    BY <2>8 DEF RestaurantCheck, RestaurantStop, RestaurantWait,
         RestaurantWaitTimeout, RestaurantKeep, RestaurantReceiveTimeout,
         RestaurantReceiveEnter, RestaurantDecide, RestaurantClose, Continue
  <2>9. CASE RestaurantReceiveExit \/ RestaurantOpenBill
    BY <2>9 DEF RestaurantReceiveExit, RestaurantOpenBill, FinishBill
  <2> QED
    BY <1>4, <2>1, <2>2, <2>3, <2>4, <2>5, <2>6, <2>7, <2>8, <2>9
       DEF RestaurantStep
<1>5. CASE RestaurantSigUsr1
  <2>1. CASE m_handler
    BY <1>1, <1>5, <2>1 DEF RestaurantSigUsr1, Interrupted, ReleaseInv, Serving
  <2>2. CASE ~m_handler
    BY <1>5, <2>2 DEF RestaurantSigUsr1, Interrupted, ReleaseInv, Serving
  <2> QED
    BY <2>1, <2>2
<1>6. CASE RestaurantSigUsr2
  BY <1>6 DEF RestaurantSigUsr2, Interrupted, ReleaseInv, Serving
<1>7. CASE MainKillRestaurant
  BY <1>2, <1>7 DEF MainKillRestaurant, RestaurantSigInt, Interrupted,
                    ReleaseInv, Serving
<1>8. CASE \/ MainSigint \/ MainOpenSemaphores \/ SittingEnds \/ Ended
           \/ UNCHANGED vars
  BY <1>2, <1>8 DEF MainSigint, MainOpenSemaphores, SittingEnds, Ended, vars
<1> QED
  BY <1>3, <1>4, <1>5, <1>6, <1>7, <1>8 DEF Next

\* Nobody of a sitting is sent away by what was left in the leave semaphore by a
\* former sitting or by a pause, whatever the signals and timeouts.
THEOREM NobodySentAwayEarly == Spec => []NoStaleRelease
<1>1. Init => ReleaseInv
  BY DEF Init, ReleaseInv
<1>2. ReleaseInv => NoStaleRelease
  BY DEF ReleaseInv, NoStaleRelease
<1> QED
  BY <1>1, <1>2, InitType, NextType, ReleaseInductive, PTL DEF Spec

-----------------------------------------------------------------------------
(* The seats *)

\* The client being admitted has a seat on top of those taken.
SeatInv ==
  /\ People(Listed) <= MaxClients
  /\ rpc \in {"permit", "ack"} => People(Listed) + People({cur}) <= MaxClients

\* Whoever is added brings no more people than it counts for alone.
LEMMA PeopleAdd ==
  ASSUME NEW S \in SUBSET Clients, NEW c \in Clients
  PROVE  People(S \cup {c}) <= People(S) + People({c})
<1> DEFINE P == S \cap Parents
           D == {c} \cap Parents
<1>1. \A A, B : IsFiniteSet(A) /\ IsFiniteSet(B) =>
        /\ Cardinality(A \cup B) \in Nat
        /\ Cardinality(A \cup B) <= Cardinality(A) + Cardinality(B)
  <2> SUFFICES ASSUME NEW A, NEW B, IsFiniteSet(A), IsFiniteSet(B)
               PROVE  /\ Cardinality(A \cup B) \in Nat
                      /\ Cardinality(A \cup B) <= Cardinality(A) + Cardinality(B)
    OBVIOUS
  <2>1. IsFiniteSet(A \cup B) /\ IsFiniteSet(A \cap B)
    BY FS_Union, FS_Intersection
  <2>2. Cardinality(A \cup B)
          = Cardinality(A) + Cardinality(B) - Cardinality(A \cap B)
    BY FS_Union
  <2> QED
    BY <2>1, <2>2, FS_CardinalityType
<1>2. {c} \in SUBSET Clients
  OBVIOUS
<1>3. /\ IsFiniteSet(S) /\ IsFiniteSet(P)
      /\ IsFiniteSet({c}) /\ IsFiniteSet(D)
  BY <1>2, ListedFinite
<1>4. /\ Cardinality(S) \in Nat /\ Cardinality(P) \in Nat
      /\ Cardinality({c}) \in Nat /\ Cardinality(D) \in Nat
  BY <1>3, FS_CardinalityType
<1>5. (S \cup {c}) \cap Parents = P \cup D
  OBVIOUS
<1>6. /\ Cardinality(S \cup {c}) \in Nat
      /\ Cardinality(S \cup {c}) <= Cardinality(S) + Cardinality({c})
  BY <1>1, <1>3
<1>7. /\ Cardinality(P \cup D) \in Nat
      /\ Cardinality(P \cup D) <= Cardinality(P) + Cardinality(D)
  <2> HIDE DEF P, D
  <2> QED
    BY <1>1, <1>3
<1>8. /\ People(S \cup {c}) = Cardinality(S \cup {c}) + Cardinality(P \cup D)
      /\ People(S) = Cardinality(S) + Cardinality(P)
      /\ People({c}) = Cardinality({c}) + Cardinality(D)
  BY <1>5, Zenon DEF People
<1> HIDE DEF P, D
<1> QED
  BY <1>4, <1>6, <1>7, <1>8

\* A part of the people is no more than all of them.
LEMMA PeopleSubset ==
  ASSUME NEW S \in SUBSET Clients, NEW T \in SUBSET S
  PROVE  People(T) <= People(S)
<1>1. /\ IsFiniteSet(S) /\ IsFiniteSet(S \cap Parents)
      /\ IsFiniteSet(T) /\ IsFiniteSet(T \cap Parents)
  BY ListedFinite
<1>2. T \cap Parents \subseteq S \cap Parents
  OBVIOUS
<1>3. /\ Cardinality(T) <= Cardinality(S)
      /\ Cardinality(T \cap Parents) <= Cardinality(S \cap Parents)
  BY <1>1, <1>2, FS_Subset
<1> QED
  BY <1>1, <1>3, FS_CardinalityType DEF People

\* Steps that add nobody.
LEMMA SeatsKept ==
  ASSUME TypeInv, SeatInv, Listed' \subseteq Listed,
         rpc' \in {"permit", "ack"} =>
           rpc \in {"permit", "ack"} /\ UNCHANGED cur
  PROVE  SeatInv'
<1> DEFINE L == Listed
           M == Listed'
<1>1. L \in SUBSET Clients /\ M \in SUBSET L /\ MaxClients \in Nat
  BY RestaurantAssumption DEF Listed
<1>2. People(L) \in Nat /\ People(M) \in Nat /\ People(M) <= People(L)
  <2> HIDE DEF L, M
  <2>1. M \in SUBSET Clients
    BY <1>1
  <2> QED
    BY <1>1, <2>1, PeopleSubset, ListedFinite
<1>3. People(M) = People(Listed)'
  BY DEF People
<1>4. People(M) <= MaxClients
  BY <1>1, <1>2 DEF SeatInv
<1>5. ASSUME rpc' \in {"permit", "ack"}
      PROVE  (People(Listed) + People({cur}) <= MaxClients)'
  <2>1. cur' = cur /\ cur \in Clients
    BY <1>5 DEF TypeInv, AnsweredIsKnown
  <2>2. {cur} \in SUBSET Clients
    BY <2>1
  <2>3. People({cur}) \in Nat
    BY <2>2, ListedFinite
  <2>4. People(L) + People({cur}) <= MaxClients
    BY <1>5 DEF SeatInv
  <2>5. People(M) + People({cur}) <= MaxClients
    BY <1>1, <1>2, <2>3, <2>4
  <2>6. People({cur})' = People({cur})
    BY <2>1 DEF People
  <2> QED
    BY <1>3, <2>5, <2>6
<1> QED
  BY <1>3, <1>4, <1>5 DEF SeatInv

\* Filling a sitting and answering its clients.
LEMMA ServingKeepsSeats ==
  ASSUME TypeInv, SeatInv,
         \/ RestaurantReplyHanded \/ RestaurantReplyQueued
         \/ RestaurantReplyTimeout \/ RestaurantAck
         \/ RestaurantServe
  PROVE  SeatInv'
<1> USE DEF TypeInv, AnsweredIsKnown
<1>1. ASSUME NEW slot, Sent(slot), rpc \in Replying PROVE SeatInv'
  <2>1. /\ m_clientList' = m_clientList
        /\ rpc' \in {"permit", "ack"} => rpc = "permit" /\ UNCHANGED cur
    BY <1>1 DEF Sent, FinishRequest, Replying
  <2> QED
    BY <2>1, SeatsKept DEF Listed
<1>2. CASE RestaurantReplyHanded
  BY <1>1, <1>2 DEF RestaurantReplyHanded
<1>3. CASE RestaurantReplyQueued
  BY <1>1, <1>3 DEF RestaurantReplyQueued
<1>4. ASSUME FinishBill PROVE SeatInv'
  <2>1. rpc' = "decide" /\ RemoveClient(cur)
    BY <1>4 DEF FinishBill
  <2>2. Listed' \subseteq Listed
    BY <2>1 DEF RemoveClient, Listed, TypeOK
  <2> QED
    BY <2>1, <2>2, SeatsKept
<1>5. ASSUME FinishRequest(m_clientList) PROVE SeatInv'
  <2>1. rpc' = "serve" /\ m_clientList' = m_clientList
    BY <1>5 DEF FinishRequest
  <2> QED
    BY <2>1, SeatsKept DEF Listed
<1>6. CASE RestaurantReplyTimeout
  BY <1>4, <1>5, <1>6 DEF RestaurantReplyTimeout
<1>7. CASE RestaurantAck
  <2>1. CASE FinishBill \/ FinishRequest(m_clientList)
    BY <1>4, <1>5, <2>1
  <2>2. ASSUME NEW from \in BOOLEAN, rpc = "ack", FinishRequest(AddClient(cur, from))
        PROVE  SeatInv'
    <3>1. /\ cur \in Clients /\ Listed \in SUBSET Clients
          /\ MaxClients \in Nat
      BY <2>2, RestaurantAssumption DEF Listed
    <3>2. rpc' = "serve" /\ m_clientList' = AddClient(cur, from)
      BY <2>2 DEF FinishRequest
    <3>3. Listed' = Listed \cup {cur}
      BY <3>1, <3>2 DEF AddClient, Listed, TypeOK
    <3>4. /\ People(Listed \cup {cur}) <= People(Listed) + People({cur})
          /\ People(Listed) + People({cur}) <= MaxClients
      BY <2>2, <3>1, PeopleAdd DEF SeatInv
    <3>5. /\ People(Listed \cup {cur}) \in Nat
          /\ People(Listed) \in Nat /\ People({cur}) \in Nat
      <4>1. Listed \cup {cur} \in SUBSET Clients /\ {cur} \in SUBSET Clients
        BY <3>1
      <4> QED
        BY <3>1, <4>1, ListedFinite
    <3>6. People(Listed \cup {cur}) <= MaxClients
      BY <3>1, <3>4, <3>5
    <3>7. People(Listed)' = People(Listed \cup {cur})
      BY <3>3 DEF People
    <3> QED
      BY <3>2, <3>6, <3>7 DEF SeatInv
  <2>3. rpc = "ack" => Head(m_enterQueue).fromPark \in BOOLEAN
    BY RequestType DEF RestaurantMQMessage
  <2> QED
    BY <1>7, <2>1, <2>2, <2>3 DEF RestaurantAck
<1>8. CASE RestaurantServe
  <2> DEFINE c == Head(m_enterQueue).senderPID
  <2>1. CASE FinishRequest(m_clientList)
    BY <1>5, <2>1
  <2>2. CASE rpc' = "refuse" /\ m_clientList' = m_clientList
    BY <2>2, SeatsKept DEF Listed
  <2>3. CASE Fits(c) /\ cur' = c /\ m_clientList' = m_clientList
    <3>1. Listed' = Listed /\ People(Listed) + People({c}) <= MaxClients
      BY <2>3 DEF Listed, Fits
    <3>2. (People(Listed) + People({cur}))' = People(Listed) + People({c})
      BY <2>3, <3>1 DEF People
    <3>3. People(Listed)' = People(Listed)
      BY <3>1 DEF People
    <3> QED
      BY <3>1, <3>2, <3>3 DEF SeatInv
  <2> QED
    BY <1>8, <2>1, <2>2, <2>3, Zenon DEF RestaurantServe
<1> QED
  BY <1>2, <1>3, <1>6, <1>7, <1>8

LEMMA SeatInductive == TypeInv /\ SeatInv /\ [Next]_vars => SeatInv'
<1> SUFFICES ASSUME TypeInv, SeatInv, [Next]_vars PROVE SeatInv'
  OBVIOUS
<1>1. CASE UNCHANGED <<rpc, cur, m_clientList>>
  BY <1>1, SeatsKept DEF Listed
<1>2. ASSUME NEW c \in Clients, VisitStart(c) \/ VisitStep(c) PROVE SeatInv'
  <2>1. UNCHANGED <<rpc, cur, m_clientList>>
    BY <1>2 DEF VisitStart, VisitStep, Alone, VisitConnect,
         VisitConnectFails, VisitRequest, VisitRequestTimeout, VisitSignal,
         VisitReceive, VisitGiveUp, VisitAck, VisitAckTimeout, VisitCleanup,
         SittingReleased, SittingTimeout, VisitExitConnect, VisitExitSend
  <2> QED
    BY <1>1, <2>1
<1>3. CASE RestaurantStep
  <2>1. CASE RestaurantSweep
    BY <2>1, SeatsKept DEF RestaurantSweep, Listed
  <2>2. CASE \/ RestaurantCreate \/ RestaurantStart \/ RestaurantAssign
             \/ RestaurantServeEnd \/ RestaurantDiscard
             \/ RestaurantCheck \/ RestaurantStop \/ RestaurantWait
             \/ RestaurantWaitTimeout \/ RestaurantKeep
             \/ RestaurantReceiveTimeout \/ RestaurantReceiveEnter
             \/ RestaurantDecide \/ RestaurantClose
    <3>1. rpc' \notin {"permit", "ack"} /\ m_clientList' = m_clientList
      BY <2>2 DEF RestaurantCheck, RestaurantStop, RestaurantWait,
           RestaurantWaitTimeout, RestaurantKeep, RestaurantReceiveTimeout,
           RestaurantReceiveEnter, RestaurantDecide, RestaurantClose, Continue,
           RestaurantCreate, RestaurantStart, RestaurantAssign,
           RestaurantServeEnd, RestaurantDiscard
    <3> QED
      BY <3>1, SeatsKept DEF Listed
  <2>3. CASE RestaurantReceiveExit \/ RestaurantOpenBill
    <3>1. /\ rpc' \notin {"permit", "ack"}
          /\ \/ m_clientList' = m_clientList
             \/ \E c : RemoveClient(c)
      BY <2>3 DEF RestaurantReceiveExit, RestaurantOpenBill, FinishBill
    <3>2. Listed' \subseteq Listed
      BY <3>1 DEF RemoveClient, Listed, TypeInv, TypeOK
    <3> QED
      BY <3>1, <3>2, SeatsKept
  <2> QED
    BY <1>3, <2>1, <2>2, <2>3, ServingKeepsSeats DEF RestaurantStep
<1>4. CASE RestaurantSigUsr1 \/ RestaurantSigUsr2 \/ MainKillRestaurant
  <2>1. /\ UNCHANGED <<cur, m_clientList>>
        /\ rpc' = rpc \/ rpc' \in {"wait", "sweep"}
    BY <1>4 DEF RestaurantSigUsr1, RestaurantSigUsr2, MainKillRestaurant,
                RestaurantSigInt, Interrupted
  <2> QED
    BY <2>1, SeatsKept DEF Listed
<1>5. CASE \/ MainSigint \/ MainOpenSemaphores \/ SittingEnds \/ Ended
           \/ UNCHANGED vars
  BY <1>1, <1>5 DEF MainSigint, MainOpenSemaphores, SittingEnds, Ended, vars
<1> QED
  BY <1>2, <1>3, <1>4, <1>5 DEF Next

\* A sitting never has more people than the restaurant has seats, children
\* included, whatever becomes of the clients between their permit and their ACK.
THEOREM SeatsAlwaysRespected == Spec => []SeatsRespected
<1>1. Init => SeatInv
  <2> SUFFICES ASSUME Init PROVE SeatInv
    OBVIOUS
  <2>1. Listed = {} /\ rpc = "check"
    BY DEF Init, Listed
  <2>2. People({}) = 0
    <3>1. {} \cap Parents = {}
      OBVIOUS
    <3> QED
      BY <3>1, FS_EmptySet DEF People
  <2> QED
    BY <2>1, <2>2, RestaurantAssumption DEF SeatInv
<1>2. SeatInv => SeatsRespected
  BY DEF SeatInv, SeatsRespected
<1> QED
  BY <1>1, <1>2, InitType, NextType, SeatInductive, PTL DEF Spec

-----------------------------------------------------------------------------
(* The event: EventCovered is inductive together with TypeInv.              *)

LEMMA EventTypes ==
  ASSUME TypeInv
  PROVE  /\ eventSem \in Nat /\ MessageCount \in Nat
         /\ IsFiniteSet(Signalling) /\ Cardinality(Signalling) \in Nat
<1>1. Signalling \in SUBSET Clients
  BY DEF Signalling
<1>2. IsFiniteSet(Signalling)
  BY <1>1, FS_Subset, RestaurantAssumption
<1> QED
  BY <1>2, FS_CardinalityType DEF TypeInv, TypeOK, MessageCount

Signals == {"signal", "exitSignal"}

\* A client gives its unit after its message.
LEMMA ClientCovers ==
  ASSUME TypeInv, EventCovered, NEW c \in Clients, VisitStart(c) \/ VisitStep(c)
  PROVE  EventCovered'
<1>1. /\ eventSem \in Nat /\ MessageCount \in Nat
      /\ IsFiniteSet(Signalling) /\ Cardinality(Signalling) \in Nat
      /\ pc \in [Clients -> VisitPC]
  BY EventTypes DEF TypeInv, TypeOK
<1>2. ASSUME NEW type, SendRestaurant(c, type), pc[c] \notin Signals,
             NEW to \in Signals, pc' = [pc EXCEPT ![c] = to],
             UNCHANGED <<eventSem, rpc>>
      PROVE  EventCovered'
  <2>1. Signalling' = Signalling \cup {c} /\ c \notin Signalling
    BY <1>1, <1>2 DEF Signalling, Signals
  <2>2. Cardinality(Signalling') = Cardinality(Signalling) + 1
    BY <1>1, <2>1, FS_AddElement
  <2>3. MessageCount' = MessageCount + 1
    BY <1>2 DEF SendRestaurant, MessageCount, TypeInv, TypeOK
  <2> QED
    BY <1>1, <1>2, <2>2, <2>3 DEF EventCovered
<1>3. ASSUME SignalEvent, pc[c] \in Signals, NEW to, to \notin Signals,
             pc' = [pc EXCEPT ![c] = to], UNCHANGED <<restaurantMQ, rpc>>
      PROVE  EventCovered'
  <2>1. Signalling' = Signalling \ {c} /\ c \in Signalling
    BY <1>1, <1>3 DEF Signalling, Signals
  <2>2. Cardinality(Signalling') = Cardinality(Signalling) - 1
    BY <1>1, <2>1, FS_RemoveElement
  <2>3. MessageCount' = MessageCount /\ eventSem' = eventSem + 1
    BY <1>3 DEF MessageCount, SignalEvent
  <2> QED
    BY <1>1, <1>3, <2>2, <2>3 DEF EventCovered
<1>4. ASSUME pc[c] \notin Signals, NEW to, to \notin Signals,
             pc' = [pc EXCEPT ![c] = to],
             UNCHANGED <<restaurantMQ, eventSem, rpc>>
      PROVE  EventCovered'
  <2>1. Signalling' = Signalling
    BY <1>1, <1>4 DEF Signalling, Signals
  <2> QED
    BY <1>4, <2>1 DEF EventCovered, MessageCount
<1> USE DEF Goes, Signals
<1>5. CASE VisitRequest(c)
  BY <1>2, <1>5 DEF VisitRequest
<1>6. CASE VisitExitSend(c)
  BY <1>2, <1>6 DEF VisitExitSend
<1>7. CASE VisitSignal(c)
  <2>1. CASE Goes(c, "signal", "receive")
    BY <1>3, <1>7, <2>1 DEF VisitSignal
  <2>2. CASE Goes(c, "exitSignal", "cleanup")
    BY <1>3, <1>7, <2>2 DEF VisitSignal
  <2>3. CASE Goes(c, "exitSignal", "billReceive")
    BY <1>3, <1>7, <2>3 DEF VisitSignal
  <2> QED
    BY <1>7, <2>1, <2>2, <2>3, Zenon DEF VisitSignal
<1>8. CASE VisitReceive(c)
  <2>1. \A at, msg : AfterReading(at, msg) \notin Signals
    BY DEF AfterReading
  <2> QED
    BY <1>4, <1>8, <2>1 DEF VisitReceive
<1>9. CASE VisitAck(c) \/ VisitCleanup(c)
  BY <1>4, <1>9 DEF VisitAck, VisitCleanup
<1>10. CASE SittingReleased(c) \/ VisitStart(c) \/ VisitConnect(c)
  BY <1>4, <1>10 DEF SittingReleased, VisitStart, VisitConnect
<1>11. CASE VisitExitConnect(c)
  BY <1>4, <1>11 DEF VisitExitConnect
<1>12. CASE \/ VisitConnectFails(c) \/ VisitRequestTimeout(c) \/ VisitGiveUp(c)
            \/ VisitAckTimeout(c) \/ SittingTimeout(c)
  BY <1>4, <1>12 DEF VisitConnectFails, VisitRequestTimeout, VisitGiveUp,
                     VisitAckTimeout, SittingTimeout, Alone
<1> QED
  BY <1>5, <1>6, <1>7, <1>8, <1>9, <1>10, <1>11, <1>12 DEF VisitStep

\* A unit taken covers the message that is read next; a timeout reads one too.
LEMMA RestaurantCovers ==
  ASSUME TypeInv, EventCovered, RestaurantStep
  PROVE  EventCovered'
<1>1. /\ eventSem \in Nat /\ MessageCount \in Nat
      /\ Cardinality(Signalling) \in Nat
  BY EventTypes
<1> USE DEF EventCovered
<1>2. ASSUME UNCHANGED <<eventSem, restaurantMQ, pc>>,
             rpc \notin {"close", "done"},
             rpc \in {"sweep", "recv"} => rpc' \in {"sweep", "recv"}
      PROVE  EventCovered'
  <2>1. Signalling' = Signalling /\ MessageCount' = MessageCount
    BY <1>2 DEF Signalling, MessageCount
  <2> QED
    BY <1>1, <1>2, <2>1
<1>3. CASE RestaurantStop \/ RestaurantClose
  BY <1>3 DEF RestaurantStop, RestaurantClose, Continue
<1>4. CASE RestaurantWait
  <2>1. Signalling' = Signalling /\ MessageCount' = MessageCount
    BY <1>4 DEF RestaurantWait, Signalling, MessageCount
  <2> QED
    BY <1>1, <1>4, <2>1 DEF RestaurantWait
<1>5. CASE RestaurantReceiveTimeout
  <2>1. MessageCount' = 0 /\ Signalling' = Signalling /\ eventSem' = eventSem
    BY <1>5 DEF RestaurantReceiveTimeout, Continue, Signalling, MessageCount
  <2> QED
    BY <1>1, <2>1
<1>6. CASE RestaurantReceiveEnter \/ RestaurantReceiveExit
  <2>1. \E type : Receives(type)
    BY <1>6 DEF RestaurantReceiveEnter, RestaurantReceiveExit
  <2>2. MessageCount' = MessageCount - 1 /\ rpc = "recv"
    BY <2>1, ReceiveType DEF MessageCount, Receives
  <2>3. /\ Signalling' = Signalling /\ eventSem' = eventSem
        /\ rpc' \in {"decide", "openBill"}
    BY <1>6 DEF RestaurantReceiveEnter, RestaurantReceiveExit, Signalling
  <2> QED
    BY <1>1, <2>2, <2>3
<1>7. CASE RestaurantReplyHanded
  <2>1. \A at, msg : AfterReading(at, msg) \notin {"signal", "exitSignal"}
    BY DEF AfterReading
  <2>2. Signalling' = Signalling
    BY <1>7, <2>1 DEF RestaurantReplyHanded, Signalling, TypeInv, TypeOK
  <2>3. /\ rpc \in Replying /\ rpc' \notin {"sweep", "recv"}
        /\ UNCHANGED <<eventSem, MessageCount>>
    BY <1>7 DEF RestaurantReplyHanded, Sent, FinishRequest, Replying, MessageCount
  <2> QED
    BY <1>1, <2>2, <2>3 DEF Replying
<1>8. CASE RestaurantReplyQueued \/ RestaurantReplyTimeout \/ RestaurantAck
  BY <1>2, <1>8 DEF RestaurantReplyQueued, RestaurantReplyTimeout, RestaurantAck,
                    Replying
<1>9. CASE \/ RestaurantCheck \/ RestaurantOpenBill \/ RestaurantCreate
           \/ RestaurantServe \/ RestaurantAssign \/ RestaurantStart
  BY <1>2, <1>9 DEF RestaurantCheck, RestaurantOpenBill, RestaurantCreate,
                    RestaurantServe, RestaurantAssign, RestaurantStart
<1>10. CASE \/ RestaurantWaitTimeout \/ RestaurantKeep \/ RestaurantDecide
            \/ RestaurantServeEnd \/ RestaurantDiscard
  BY <1>2, <1>10 DEF RestaurantWaitTimeout, RestaurantKeep, RestaurantDecide,
                     RestaurantServeEnd, RestaurantDiscard, Continue
<1>11. CASE RestaurantSweep
  BY <1>2, <1>11 DEF RestaurantSweep
<1> QED
  BY <1>3, <1>4, <1>5, <1>6, <1>7, <1>8, <1>9, <1>10, <1>11 DEF RestaurantStep

\* A signal at the wait sends the restaurant to the queue; main only adds units.
LEMMA SignalsCover ==
  ASSUME TypeInv, EventCovered,
         \/ RestaurantSigUsr1 \/ RestaurantSigUsr2 \/ SittingEnds
         \/ MainSigint \/ MainKillRestaurant \/ MainOpenSemaphores
  PROVE  EventCovered'
<1>1. /\ eventSem \in Nat /\ MessageCount \in Nat
      /\ Cardinality(Signalling) \in Nat
  BY EventTypes
<1>2. Signalling' = Signalling /\ MessageCount' = MessageCount
  BY DEF RestaurantSigUsr1, RestaurantSigUsr2, SittingEnds, MainSigint,
         MainKillRestaurant, MainOpenSemaphores, Signalling, MessageCount
<1>3. eventSem' \in {eventSem, eventSem + 1}
  BY DEF RestaurantSigUsr1, RestaurantSigUsr2, SittingEnds, MainSigint,
         MainKillRestaurant, MainOpenSemaphores, SignalEvent
<1>4. rpc' = rpc \/ (rpc = "wait" /\ rpc' = "sweep")
  BY DEF RestaurantSigUsr1, RestaurantSigUsr2, SittingEnds, MainSigint,
         MainKillRestaurant, MainOpenSemaphores, RestaurantSigInt, Interrupted
<1> QED
  BY <1>1, <1>2, <1>3, <1>4 DEF EventCovered

\* No message of a diner is left without an event that makes the restaurant read
\* it, for any number of diners, whatever pauses, signals and timeouts do.
THEOREM EventsAlwaysCovered == Spec => []EventCovered
<1>1. Init => EventCovered
  <2> SUFFICES ASSUME Init PROVE EventCovered
    OBVIOUS
  <2>1. MessageCount = 0 /\ eventSem = 1 /\ rpc = "check"
    BY DEF Init, MessageCount
  <2>2. Cardinality(Signalling) \in Nat
    BY InitType, EventTypes
  <2> QED
    BY <2>1, <2>2 DEF EventCovered
<1>2. TypeInv /\ EventCovered /\ [Next]_vars => EventCovered'
  <2> SUFFICES ASSUME TypeInv, EventCovered, [Next]_vars PROVE EventCovered'
    OBVIOUS
  <2>1. CASE UNCHANGED vars
    BY <2>1 DEF vars, EventCovered, Signalling, MessageCount
  <2> QED
    BY <2>1, ClientCovers, RestaurantCovers, SignalsCover DEF Next, Ended
<1> QED
  BY <1>1, <1>2, InitType, NextType, PTL DEF Spec

-----------------------------------------------------------------------------
(* Who is on the list.  RosterHonest is not inductive: a client gets on the  *)
(* list by an ACK the restaurant finds in a queue the client may have        *)
(* unlinked, and it sends ACKs for bills, too.  RosterInv says whose ACK it  *)
(* is.                                                                       *)

AtTable == {"seated", "exitConnect", "exitSend"}
Within(c) == pc[c] \in AtTable \/ ExitPending(c)
BillingStage == {"openBill", "bill", "billAck"}

RosterInv ==
  /\ rpc \in {"close", "done"} => Listed = {}
  /\ \A c \in Clients :
       /\ replyMQ[c] # "ack"
       /\ pc[c] \in {"blocked", "billBlocked"} => replyMQ[c] = "empty"
       /\ c \in Listed => Within(c) \/ (rpc \in BillingStage /\ cur = c)
  /\ rpc = "ack" =>
       IF attached
       THEN replyMQ[cur] # "bill" /\ (pc[cur] = "billed" => replyMQ[cur] # "empty")
       ELSE orphan = "ack" => Within(cur)

\* An exit waits until it is received.
LEMMA ExitKept ==
  ASSUME TypeInv, NEW d \in Clients, ExitPending(d),
         \/ UNCHANGED restaurantMQ
         \/ \E c \in Clients : \E type \in RestaurantMessageType : SendRestaurant(c, type)
         \/ \E type : /\ Receives(type)
                      /\ ~(type = "EXIT_RESTAURANT" /\ Head(restaurantMQ).senderPID = d)
  PROVE  ExitPending(d)'
<1>1. restaurantMQ \in Seq(RestaurantMQMessage)
  BY DEF TypeInv, TypeOK
<1> PICK i \in DOMAIN restaurantMQ : /\ restaurantMQ[i].senderPID = d
                                     /\ restaurantMQ[i].mType = "EXIT_RESTAURANT"
  BY DEF ExitPending
<1>2. CASE UNCHANGED restaurantMQ
  BY <1>2 DEF ExitPending
<1>3. CASE \E c \in Clients : \E type \in RestaurantMessageType : SendRestaurant(c, type)
  <2> PICK c \in Clients, type \in RestaurantMessageType : SendRestaurant(c, type)
    BY <1>3
  <2> DEFINE m == [senderPID |-> c, mType |-> type, fromPark |-> fromPark[c]]
  <2>1. m \in RestaurantMQMessage
    BY DEF RestaurantMQMessage, TypeInv, TypeOK
  <2>2. restaurantMQ' = Append(restaurantMQ, m)
    BY DEF SendRestaurant
  <2> HIDE DEF m
  <2>3. i \in DOMAIN restaurantMQ' /\ restaurantMQ'[i] = restaurantMQ[i]
    BY <1>1, <2>1, <2>2
  <2> QED
    BY <2>3 DEF ExitPending
<1>4. CASE \E type : /\ Receives(type)
                     /\ ~(type = "EXIT_RESTAURANT" /\ Head(restaurantMQ).senderPID = d)
  <2> PICK type : /\ Receives(type)
                  /\ ~(type = "EXIT_RESTAURANT" /\ Head(restaurantMQ).senderPID = d)
    BY <1>4
  <2>1. /\ restaurantMQ # <<>> /\ restaurantMQ' = Tail(restaurantMQ)
        /\ Head(restaurantMQ).mType = type
    BY <1>1 DEF Receives, MessageCount
  <2>2. i # 1
    BY <1>1, <2>1
  <2>3. i - 1 \in DOMAIN restaurantMQ' /\ restaurantMQ'[i - 1] = restaurantMQ[i]
    BY <1>1, <2>1, <2>2
  <2> QED
    BY <2>3 DEF ExitPending
<1> QED
  BY <1>2, <1>3, <1>4

\* Who is at a table goes by way of the exit it sends, as long as the
\* restaurant has its queue.
LEMMA WithinKept ==
  ASSUME TypeInv, NEW c \in Clients, VisitStart(c) \/ VisitStep(c),
         rpc # "done", NEW d \in Clients, Within(d)
  PROVE  Within(d)'
<1>1. pc \in [Clients -> VisitPC]
  BY DEF TypeInv, TypeOK
<1>2. \/ UNCHANGED restaurantMQ
      \/ \E type \in RestaurantMessageType : SendRestaurant(c, type)
  BY DEF VisitStart, VisitStep, VisitConnect, VisitConnectFails, VisitRequest,
         VisitRequestTimeout, VisitSignal, VisitReceive, VisitGiveUp, VisitAck,
         VisitAckTimeout, VisitCleanup, SittingReleased, SittingTimeout,
         VisitExitConnect, VisitExitSend, Alone, RestaurantMessageType
<1>3. CASE ExitPending(d)
  BY <1>2, <1>3, ExitKept DEF Within
<1>4. CASE pc[d] \in AtTable /\ d # c
  <2>1. \E from, to : Goes(c, from, to)
    BY DEF VisitStart, VisitStep, VisitConnect, VisitConnectFails, VisitRequest,
           VisitRequestTimeout, VisitSignal, VisitReceive, VisitGiveUp, VisitAck,
           VisitAckTimeout, VisitCleanup, SittingReleased, SittingTimeout,
           VisitExitConnect, VisitExitSend, Alone
  <2> QED
    BY <1>1, <1>4, <2>1 DEF Within, Goes
<1>5. CASE pc[d] \in AtTable /\ d = c
  <2> USE DEF AtTable, Goes, Alone
  <2>1. CASE VisitExitSend(c)
    <3> DEFINE m == [senderPID |-> c, mType |-> "EXIT_RESTAURANT",
                     fromPark |-> fromPark[c]]
    <3>1. /\ restaurantMQ' = Append(restaurantMQ, m)
          /\ restaurantMQ \in Seq(RestaurantMQMessage)
          /\ m \in RestaurantMQMessage
      BY <2>1 DEF VisitExitSend, SendRestaurant, TypeInv, TypeOK,
                  RestaurantMQMessage, RestaurantMessageType
    <3>2. m.senderPID = c /\ m.mType = "EXIT_RESTAURANT"
      OBVIOUS
    <3> HIDE DEF m
    <3>3. /\ Len(restaurantMQ) + 1 \in DOMAIN restaurantMQ'
          /\ restaurantMQ'[Len(restaurantMQ) + 1] = m
      BY <3>1
    <3> QED
      BY <1>5, <3>2, <3>3 DEF Within, ExitPending
  <2>2. CASE VisitExitConnect(c)
    BY <1>1, <1>5, <2>2 DEF VisitExitConnect, RestaurantLinked, Within
  <2>3. CASE SittingReleased(c) \/ SittingTimeout(c)
    BY <1>1, <1>5, <2>3 DEF SittingReleased, SittingTimeout, Within
  <2> QED
    BY <1>5, <2>1, <2>2, <2>3
       DEF VisitStart, VisitStep, VisitConnect, VisitConnectFails, VisitRequest,
           VisitRequestTimeout, VisitSignal, VisitReceive, VisitGiveUp,
           VisitAck, VisitAckTimeout, VisitCleanup
<1> QED
  BY <1>3, <1>4, <1>5 DEF Within

\* A step of a client: an ACK is that of a permit, or finds no empty queue.
LEMMA ClientKeepsRoster ==
  ASSUME TypeInv, RosterInv, NEW c \in Clients, VisitStart(c) \/ VisitStep(c)
  PROVE  RosterInv'
<1>1. /\ pc \in [Clients -> VisitPC] /\ replyMQ \in [Clients -> Slot]
      /\ rpc = "ack" => cur \in Clients
  BY DEF TypeInv, TypeOK, AnsweredIsKnown
<1>2. UNCHANGED <<rpc, m_clientList, cur>> /\ Listed' = Listed
  BY DEF VisitStart, VisitStep, VisitConnect, VisitConnectFails, VisitRequest,
         VisitRequestTimeout, VisitSignal, VisitReceive, VisitGiveUp, VisitAck,
         VisitAckTimeout, VisitCleanup, SittingReleased, SittingTimeout,
         VisitExitConnect, VisitExitSend, Alone, Listed
<1> USE DEF Goes, Alone
<1>3. \A d \in Clients : d # c => pc'[d] = pc[d] /\ replyMQ'[d] = replyMQ[d]
  BY <1>1
     DEF VisitStart, VisitStep, VisitConnect, VisitConnectFails, VisitRequest,
         VisitRequestTimeout, VisitSignal, VisitReceive, VisitGiveUp, VisitAck,
         VisitAckTimeout, VisitCleanup, SittingReleased, SittingTimeout,
         VisitExitConnect, VisitExitSend, RemoveReplyQueue
<1>4. /\ replyMQ'[c] \in {"empty", replyMQ[c]}
      /\ pc'[c] \in {"blocked", "billBlocked"} => replyMQ'[c] = "empty"
      /\ pc'[c] = "billed" => replyMQ[c] = "bill"
  <2>1. CASE VisitReceive(c)
    <3>1. \A msg : /\ AfterReading("receive", msg) \in {"permitted", "cleanup"}
                   /\ AfterReading("billReceive", msg) \in {"billed", "cleanup"}
                   /\ msg # "bill" => AfterReading("billReceive", msg) = "cleanup"
      BY DEF AfterReading
    <3>2. replyMQ'[c] = "empty"
      BY <1>1, <2>1 DEF VisitReceive
    <3>3. pc'[c] = "billed" => replyMQ[c] = "bill"
      BY <1>1, <2>1, <3>1 DEF VisitReceive
    <3> QED
      BY <3>2, <3>3
  <2>2. CASE ~VisitReceive(c)
    BY <1>1, <2>2
       DEF VisitStart, VisitStep, VisitConnect, VisitConnectFails,
           VisitRequest, VisitRequestTimeout, VisitSignal, VisitGiveUp,
           VisitAck, VisitAckTimeout, VisitCleanup, SittingReleased,
           SittingTimeout, VisitExitConnect, VisitExitSend, RemoveReplyQueue
  <2> QED
    BY <2>1, <2>2
<1>5. \A d \in Clients :
        /\ replyMQ'[d] # "ack"
        /\ pc'[d] \in {"blocked", "billBlocked"} => replyMQ'[d] = "empty"
        /\ d \in Listed => Within(d)' \/ (rpc \in BillingStage /\ cur = d)
  BY <1>3, <1>4, WithinKept DEF RosterInv
<1>6. ASSUME rpc = "ack"
      PROVE  IF attached'
             THEN replyMQ'[cur] # "bill" /\ (pc'[cur] = "billed" => replyMQ'[cur] # "empty")
             ELSE orphan' = "ack" => Within(cur)'
  <2> PICK k \in Clients : k = cur
    BY <1>1, <1>6
  <2> SUFFICES IF attached'
               THEN replyMQ'[k] # "bill" /\ (pc'[k] = "billed" => replyMQ'[k] # "empty")
               ELSE orphan' = "ack" => Within(k)'
    BY <1>2 DEF Within, ExitPending
  <2>1. Within(k) => Within(k)'
    BY <1>6, WithinKept
  <2>2. CASE UNCHANGED <<attached, orphan>>
    <3>1. CASE attached
      BY <1>3, <1>4, <1>6, <2>1, <2>2, <3>1 DEF RosterInv
    <3>2. CASE ~attached
      BY <1>6, <2>1, <2>2, <3>2 DEF RosterInv
    <3> QED
      BY <2>2, <3>1, <3>2
  <2>3. CASE k = c /\ attached /\ VisitAck(c)
    <3>1. ~attached' /\ replyMQ[c] = "empty"
      BY <2>3 DEF VisitAck, RemoveReplyQueue
    <3>2. pc[c] # "billed"
      BY <1>6, <2>3, <3>1 DEF RosterInv
    <3>3. pc'[c] = "seated"
      BY <1>1, <2>3, <3>2 DEF VisitAck
    <3> QED
      BY <2>3, <3>1, <3>3 DEF Within, AtTable
  <2>4. CASE k = c /\ attached /\ VisitCleanup(c)
    <3>1. ~attached' /\ orphan' = replyMQ[c]
      BY <2>4 DEF VisitCleanup, RemoveReplyQueue
    <3> QED
      BY <3>1 DEF RosterInv
  <2> QED
    BY <2>2, <2>3, <2>4
       DEF VisitStart, VisitStep, VisitConnect, VisitConnectFails,
           VisitRequest, VisitRequestTimeout, VisitSignal, VisitReceive,
           VisitGiveUp, VisitAck, VisitAckTimeout, VisitCleanup,
           SittingReleased, SittingTimeout, VisitExitConnect, VisitExitSend,
           RemoveReplyQueue
<1> QED
  BY <1>2, <1>5, <1>6 DEF RosterInv

\* pRemoveClient, for a client whose exit was handled, leaves it off the list.
LEMMA RemovedFromList ==
  ASSUME TypeInv, NEW c \in Clients, rpc \notin Serving, RemoveClient(c)
  PROVE  Listed' = Listed \ {c}
<1>1. m_clientList \in [Clients -> ListEntry] /\ (~m_handler => Listed = {})
  BY DEF TypeInv, TypeOK
<1>2. CASE m_handler
  BY <1>1, <1>2 DEF RemoveClient, Listed
<1>3. CASE ~m_handler
  <2>1. Listed = {} /\ m_clientList' = m_clientList
    BY <1>1, <1>3 DEF RemoveClient
  <2> QED
    BY <2>1 DEF Listed
<1> QED
  BY <1>2, <1>3

\* Steps of the restaurant that neither read its queue nor use a reply queue.
LEMMA QuietKeepsRoster ==
  ASSUME TypeInv, RosterInv,
         UNCHANGED <<restaurantMQ, replyMQ, pc>>,
         Listed' \subseteq Listed,
         rpc' = "ack" => UNCHANGED <<rpc, cur, attached, orphan>>,
         \A d \in Listed' : rpc \in BillingStage /\ cur = d
                              => rpc' \in BillingStage /\ cur' = d,
         rpc' \in {"close", "done"} => Listed' = {}
  PROVE  RosterInv'
<1>1. \A d : Within(d)' <=> Within(d)
  BY DEF Within, ExitPending
<1>2. \A d \in Clients :
        /\ replyMQ'[d] # "ack"
        /\ pc'[d] \in {"blocked", "billBlocked"} => replyMQ'[d] = "empty"
        /\ d \in Listed' => Within(d)' \/ (rpc' \in BillingStage /\ cur' = d)
  BY <1>1 DEF RosterInv
<1>3. ASSUME rpc' = "ack"
      PROVE  IF attached'
             THEN replyMQ'[cur'] # "bill" /\ (pc'[cur'] = "billed" => replyMQ'[cur'] # "empty")
             ELSE orphan' = "ack" => Within(cur)'
  <2>1. rpc = "ack" /\ UNCHANGED <<cur, attached, orphan>>
    BY <1>3
  <2>2. Within(cur)' <=> Within(cur)
    BY <2>1 DEF Within, ExitPending
  <2> QED
    BY <2>1, <2>2 DEF RosterInv
<1> QED
  BY <1>2, <1>3 DEF RosterInv

\* The restaurant reads its queue.
LEMMA ReceiveKeepsRoster ==
  ASSUME TypeInv, RosterInv, RestaurantReceiveEnter \/ RestaurantReceiveExit
  PROVE  RosterInv'
<1>1. /\ rpc = "recv" /\ rpc' \in {"decide", "openBill"}
      /\ UNCHANGED <<replyMQ, pc>>
  BY DEF RestaurantReceiveEnter, RestaurantReceiveExit, Receives
<1>2. PICK type \in RestaurantMessageType : Receives(type)
  BY DEF RestaurantReceiveEnter, RestaurantReceiveExit, RestaurantMessageType
<1>3. PICK c \in Clients : c = Head(restaurantMQ).senderPID
  BY <1>2, ReceiveType
<1>4. ASSUME NEW d \in Clients, d \in Listed'
      PROVE  Within(d)' \/ (rpc' \in BillingStage /\ cur' = d)
  <2>1. CASE RestaurantReceiveExit /\ d = c
    <3>1. CASE m_handler /\ m_clientList[c] = "outside"
      BY <1>3, <2>1, <3>1 DEF RestaurantReceiveExit, BillingStage
    <3>2. CASE ~(m_handler /\ m_clientList[c] = "outside")
      <4>1. RemoveClient(c)
        BY <1>3, <2>1, <3>2 DEF RestaurantReceiveExit
      <4> QED
        BY <1>1, <1>4, <2>1, <4>1, RemovedFromList DEF Serving
    <3> QED
      BY <3>1, <3>2
  <2>2. CASE ~(RestaurantReceiveExit /\ d = c)
    <3>1. d \in Listed
      <4>1. CASE RestaurantReceiveEnter
        BY <1>4, <4>1 DEF RestaurantReceiveEnter, Listed
      <4>2. CASE RestaurantReceiveExit
        <5>1. RemoveClient(c) \/ UNCHANGED m_clientList
          BY <1>3, <4>2 DEF RestaurantReceiveExit
        <5> QED
          BY <1>1, <1>4, <5>1, RemovedFromList DEF Serving, Listed
      <4> QED
        BY <4>1, <4>2
    <3>2. Within(d)
      BY <1>1, <3>1 DEF RosterInv, BillingStage
    <3>3. ExitPending(d) => ExitPending(d)'
      <4>1. RestaurantReceiveEnter => Receives("ENTER_RESTAURANT")
        BY DEF RestaurantReceiveEnter
      <4> QED
        BY <1>2, <1>3, <2>2, <4>1, ExitKept
    <3> QED
      BY <1>1, <3>2, <3>3 DEF Within
  <2> QED
    BY <2>1, <2>2
<1> QED
  BY <1>1, <1>4 DEF RosterInv

\* A reply is sent.
LEMMA ReplyKeepsRoster ==
  ASSUME TypeInv, RosterInv, RestaurantReplyHanded \/ RestaurantReplyQueued
  PROVE  RosterInv'
<1>1. /\ rpc \in {"permit", "refuse", "bill"} /\ cur \in Clients
      /\ pc \in [Clients -> VisitPC] /\ replyMQ \in [Clients -> Slot]
      /\ UNCHANGED restaurantMQ
  BY DEF RestaurantReplyHanded, RestaurantReplyQueued, Replying, TypeInv, TypeOK,
         AnsweredIsKnown
<1> PICK c \in Clients : c = cur
  BY <1>1
<1>2. /\ UNCHANGED m_clientList /\ Listed' = Listed
      /\ rpc' = CASE rpc = "permit" -> "ack" [] rpc = "bill" -> "billAck"
                  [] OTHER -> "serve"
      /\ rpc # "refuse" => UNCHANGED <<cur, attached>>
  BY <1>1 DEF RestaurantReplyHanded, RestaurantReplyQueued, Sent, FinishRequest,
              Listed
<1>3. Message \in {"permit", "refusal", "bill"} /\ (rpc = "permit" => Message = "permit")
  BY DEF Message
<1>4. CASE RestaurantReplyHanded
  <2>1. /\ UNCHANGED replyMQ /\ attached
        /\ pc[c] \in {"blocked", "billBlocked"}
        /\ pc' = [pc EXCEPT ![c] = AfterReading(@, Message)]
    BY <1>4 DEF RestaurantReplyHanded
  <2>2. /\ pc'[c] \in {"permitted", "billed", "cleanup"}
        /\ rpc = "permit" => pc'[c] # "billed"
    BY <1>1, <1>3, <2>1 DEF AfterReading
  <2>3. ASSUME NEW d \in Clients
        PROVE  /\ Within(d) => Within(d)'
               /\ pc'[d] \in {"blocked", "billBlocked"} => replyMQ'[d] = "empty"
    <3>1. pc'[d] = pc[d] \/ (d = c /\ pc[d] \notin AtTable)
      BY <1>1, <2>1 DEF AtTable
    <3>2. pc'[d] \in {"blocked", "billBlocked"} => pc[d] = pc'[d]
      BY <1>1, <2>1, <2>2
    <3> QED
      BY <1>1, <2>1, <3>1, <3>2 DEF Within, ExitPending, RosterInv
  <2>4. rpc' = "ack" =>
          /\ attached' /\ cur' = c /\ replyMQ'[c] = "empty" /\ pc'[c] # "billed"
    BY <1>1, <1>2, <2>1, <2>2 DEF RosterInv
  <2>5. \A d \in Clients : d \in Listed' =>
          Within(d)' \/ (rpc' \in BillingStage /\ cur' = d)
    BY <1>1, <1>2, <2>3 DEF RosterInv, BillingStage
  <2> QED
    BY <1>1, <1>2, <2>1, <2>3, <2>4, <2>5 DEF RosterInv
<1>5. CASE RestaurantReplyQueued
  <2>1. /\ UNCHANGED pc
        /\ attached => pc[c] \notin {"blocked", "billBlocked"}
        /\ replyMQ' = IF attached THEN [replyMQ EXCEPT ![c] = Message] ELSE replyMQ
        /\ rpc = "permit" => orphan' = IF attached THEN "empty" ELSE Message
    BY <1>5 DEF RestaurantReplyQueued, Sent
  <2>2. ASSUME NEW d \in Clients
        PROVE  /\ Within(d) => Within(d)'
               /\ replyMQ'[d] # "ack"
               /\ pc'[d] \in {"blocked", "billBlocked"} => replyMQ'[d] = "empty"
    BY <1>1, <1>3, <2>1 DEF Within, ExitPending, RosterInv
  <2>3. rpc' = "ack" =>
          /\ cur' = c
          /\ IF attached' THEN replyMQ'[c] = "permit" ELSE orphan' = "permit"
    BY <1>1, <1>2, <1>3, <2>1
  <2>4. \A d \in Clients : d \in Listed' =>
          Within(d)' \/ (rpc' \in BillingStage /\ cur' = d)
    BY <1>1, <1>2, <2>2 DEF RosterInv, BillingStage
  <2> QED
    BY <1>1, <1>2, <2>1, <2>2, <2>3, <2>4 DEF RosterInv
<1> QED
  BY <1>4, <1>5

\* The wait for the answer is over: an ACK puts the client on the list.
LEMMA AckKeepsRoster ==
  ASSUME TypeInv, RosterInv, RestaurantAck
  PROVE  RosterInv'
<1>1. /\ rpc \in {"ack", "billAck"} /\ cur \in Clients
      /\ rpc' \in {"serve", "decide"}
      /\ UNCHANGED <<pc, restaurantMQ>> /\ replyMQ \in [Clients -> Slot]
      /\ \A d \in Clients : replyMQ'[d] \in {"empty", replyMQ[d]}
  BY DEF RestaurantAck, FinishRequest, FinishBill, TypeInv, TypeOK, AnsweredIsKnown
<1>2. \A d : Within(d)' <=> Within(d)
  BY <1>1 DEF Within, ExitPending
<1> PICK c \in Clients : c = cur
  BY <1>1
<1>3. ASSUME NEW d \in Clients, d \in Listed' PROVE Within(d)
  <2>1. CASE rpc = "billAck"
    <3>1. Listed' = Listed \ {c}
      BY <2>1, RemovedFromList DEF RestaurantAck, FinishBill, Serving
    <3> QED
      BY <1>3, <3>1 DEF RosterInv
  <2>2. CASE rpc = "ack" /\ d \in Listed
    BY <2>2 DEF RosterInv, BillingStage
  <2>3. CASE rpc = "ack" /\ d \notin Listed
    <3>1. m_clientList' # m_clientList
      BY <1>3, <2>3 DEF Listed
    <3>2. /\ ReplySlot = "ack"
          /\ m_clientList' = AddClient(c, Head(m_enterQueue).fromPark)
      BY <2>3, <3>1 DEF RestaurantAck, FinishRequest
    <3>3. d = c
      BY <1>3, <2>3, <3>2 DEF AddClient, Listed, TypeInv, TypeOK
    <3>4. ~attached /\ orphan = "ack"
      BY <1>1, <3>2 DEF ReplySlot, RosterInv
    <3> QED
      BY <2>3, <3>3, <3>4 DEF RosterInv
  <2> QED
    BY <1>1, <2>1, <2>2, <2>3
<1> QED
  BY <1>1, <1>2, <1>3 DEF RosterInv

\* The other steps of the restaurant, the signals and main.
LEMMA OtherKeepsRoster ==
  ASSUME TypeInv, RosterInv, [Next]_vars,
         ~\E c \in Clients : VisitStart(c) \/ VisitStep(c),
         ~(RestaurantReceiveEnter \/ RestaurantReceiveExit),
         ~(RestaurantReplyHanded \/ RestaurantReplyQueued), ~RestaurantAck
  PROVE  RosterInv'
<1> USE DEF Continue
<1>1. ~m_handler /\ rpc \notin Serving => Listed = {}
  BY DEF TypeInv, TypeOK
<1>2. ASSUME UNCHANGED <<restaurantMQ, replyMQ, pc, m_clientList, cur, attached,
                         orphan>>,
             rpc' = "ack" => rpc = "ack",
             rpc \in BillingStage => rpc' \in BillingStage,
             rpc' \in {"close", "done"} => Listed = {}
      PROVE  RosterInv'
  <2>1. Listed' = Listed
    BY <1>2 DEF Listed
  <2> QED
    BY <1>2, <2>1, QuietKeepsRoster
<1>3. CASE \/ RestaurantCheck \/ RestaurantWait \/ RestaurantWaitTimeout
           \/ RestaurantKeep \/ RestaurantReceiveTimeout \/ RestaurantDecide
           \/ RestaurantCreate \/ RestaurantServeEnd \/ RestaurantDiscard
           \/ RestaurantAssign \/ RestaurantStart
  BY <1>2, <1>3
     DEF RestaurantCheck, RestaurantWait, RestaurantWaitTimeout,
         RestaurantKeep, RestaurantReceiveTimeout, RestaurantDecide,
         RestaurantCreate, RestaurantServeEnd, RestaurantDiscard,
         RestaurantAssign, RestaurantStart, BillingStage
<1>4. CASE RestaurantStop
  <2>1. Listed = {}
    BY <1>1, <1>4 DEF RestaurantStop, LoopTest, Serving
  <2> QED
    BY <1>2, <1>4, <2>1 DEF RestaurantStop, BillingStage
<1>5. CASE RestaurantClose
  BY <1>2, <1>5 DEF RestaurantClose, RosterInv, BillingStage
<1>6. CASE \/ SittingEnds \/ RestaurantSigUsr1 \/ RestaurantSigUsr2
           \/ MainSigint \/ MainKillRestaurant \/ MainOpenSemaphores
           \/ UNCHANGED vars
  <2>1. /\ UNCHANGED <<restaurantMQ, replyMQ, pc, m_clientList, cur, attached,
                       orphan>>
        /\ rpc' \in Interrupted \cup {rpc}
    BY <1>6
       DEF SittingEnds, RestaurantSigUsr1, RestaurantSigUsr2, MainSigint,
           MainKillRestaurant, RestaurantSigInt, MainOpenSemaphores, vars
  <2>2. rpc' = rpc \/ (rpc = "wait" /\ rpc' = "sweep")
    BY <2>1 DEF Interrupted
  <2> QED
    BY <1>2, <2>1, <2>2 DEF RosterInv, BillingStage
<1>7. CASE RestaurantSweep
  <2>1. Listed' = {}
    BY <1>7 DEF RestaurantSweep, Listed
  <2> QED
    BY <1>7, <2>1, QuietKeepsRoster DEF RestaurantSweep
<1>8. CASE RestaurantServe \/ (RestaurantReplyTimeout /\ rpc # "bill")
  <2>1. /\ UNCHANGED <<restaurantMQ, replyMQ, pc, m_clientList>>
        /\ rpc \in {"serve", "permit", "refuse"}
        /\ rpc' \in {"serve", "permit", "refuse"}
    BY <1>8 DEF RestaurantServe, RestaurantReplyTimeout, Replying, FinishRequest
  <2>2. Listed' = Listed
    BY <2>1 DEF Listed
  <2> QED
    BY <2>1, <2>2, QuietKeepsRoster DEF BillingStage
<1>9. CASE RestaurantOpenBill \/ (RestaurantReplyTimeout /\ rpc = "bill")
  <2>1. /\ UNCHANGED <<restaurantMQ, replyMQ, pc>> /\ cur \in Clients
        /\ rpc \in {"openBill", "bill"}
        /\ \/ FinishBill
           \/ rpc' = "bill" /\ UNCHANGED <<m_clientList, cur>>
    BY <1>9 DEF RestaurantOpenBill, RestaurantReplyTimeout, TypeInv, AnsweredIsKnown
  <2>2. CASE FinishBill
    <3>1. Listed' = Listed \ {cur} /\ rpc' = "decide"
      BY <2>1, <2>2, RemovedFromList DEF FinishBill, Serving
    <3> QED
      BY <2>1, <3>1, QuietKeepsRoster
  <2>3. CASE rpc' = "bill" /\ UNCHANGED <<m_clientList, cur>>
    <3>1. Listed' = Listed
      BY <2>3 DEF Listed
    <3> QED
      BY <2>1, <2>3, <3>1, QuietKeepsRoster DEF BillingStage
  <2> QED
    BY <2>1, <2>2, <2>3
<1> QED
  BY <1>3, <1>4, <1>5, <1>6, <1>7, <1>8, <1>9 DEF Next, RestaurantStep, Ended

\* Nobody stays on the list of a sitting after it left: the ACK that puts a
\* client on it is the one it sent when it sat down, for every other reply of
\* the client is found in a queue that is not empty or is not awaited, and
\* EXIT_RESTAURANT, which is sent without a timeout, takes it off. So the loop
\* of Run, which goes on until the list is empty, waits for nobody who is gone,
\* for any number of diners, seats and visits and any capacity of the queue
\* (pRegisterClient, pLeaveRestaurant, pRemoveClient).
THEOREM RosterAlwaysHonest == Spec => []RosterHonest
<1>1. Init => RosterInv
  BY DEF Init, RosterInv, Listed
<1>2. TypeInv /\ RosterInv /\ [Next]_vars => RosterInv'
  BY ClientKeepsRoster, ReceiveKeepsRoster, ReplyKeepsRoster, AckKeepsRoster,
     OtherKeepsRoster
<1>3. RosterInv => RosterHonest
  BY DEF RosterInv, RosterHonest, Within, AtTable, BillingStage, Listed
<1> QED
  BY <1>1, <1>2, <1>3, InitType, NextType, PTL DEF Spec
=============================================================================
