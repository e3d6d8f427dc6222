----------------------------- MODULE ParkProofs -----------------------------
(***************************************************************************)
(* Proofs about Park, for any set of clients, any size of the park and any *)
(* capacity of the register queue.                                         *)
(***************************************************************************)
EXTENDS Park, FiniteSetTheorems, TLAPS

\* Where the cashier is handling a client's message.
Admitting == cpc \in {"permit", "permitAck"}
Billing == cpc \in {"openBill", "bill", "billAck"}

\* A client being handled is known, and its request still heads its queue.
HandledIsKnown ==
  /\ Admitting \/ Billing => cur \in Clients
  /\ Admitting => IF cur \in Vips THEN m_enterVipQueue # <<>>
                                  ELSE m_enterQueue # <<>>

TypeInv == TypeOK /\ HandledIsKnown

-----------------------------------------------------------------------------
(* The register queue and the queues of requests *)

\* What mq_receive finds in a queue that is not empty.
LEMMA TopOfQueue ==
  ASSUME registerMQ \in [{0, 1} -> Seq(RegisterMQMessage)], MessageCount > 0
  PROVE  /\ TopPriority \in {0, 1}
         /\ registerMQ[TopPriority] # <<>>
         /\ TopMessage \in RegisterMQMessage
         /\ TopMessage.senderPID \in Clients
<1>1. /\ registerMQ[0] \in Seq(RegisterMQMessage)
      /\ registerMQ[1] \in Seq(RegisterMQMessage)
  OBVIOUS
<1>2. registerMQ[1] = <<>> => registerMQ[0] # <<>>
  BY <1>1 DEF MessageCount
<1>3. TopPriority \in {0, 1} /\ registerMQ[TopPriority] # <<>>
  BY <1>2 DEF TopPriority
<1>4. TopMessage \in RegisterMQMessage
  BY <1>1, <1>3 DEF TopMessage
<1> QED
  BY <1>3, <1>4 DEF RegisterMQMessage

\* Receiving keeps the register queue well-formed.
LEMMA ReceiveType ==
  ASSUME registerMQ \in [{0, 1} -> Seq(RegisterMQMessage)], MessageCount > 0,
         ReceiveRegister
  PROVE  registerMQ' \in [{0, 1} -> Seq(RegisterMQMessage)]
<1>1. TopPriority \in {0, 1} /\ registerMQ[TopPriority] # <<>>
  BY TopOfQueue
<1>2. Tail(registerMQ[TopPriority]) \in Seq(RegisterMQMessage)
  BY <1>1
<1> QED
  BY <1>1, <1>2 DEF ReceiveRegister

\* Sending keeps the register queue well-formed.
LEMMA SendType ==
  ASSUME registerMQ \in [{0, 1} -> Seq(RegisterMQMessage)],
         NEW c \in Clients, NEW type \in RegisterMessageType,
         SendRegister(c, type)
  PROVE  registerMQ' \in [{0, 1} -> Seq(RegisterMQMessage)]
<1>1. Priority(c) \in {0, 1}
  BY DEF Priority
<1>2. Append(registerMQ[Priority(c)], [senderPID |-> c, mType |-> type])
        \in Seq(RegisterMQMessage)
  BY <1>1 DEF RegisterMQMessage
<1> QED
  BY <1>1, <1>2 DEF SendRegister

\* The request served next is at the head of the queue it is erased from.
LEMMA NextRequestType ==
  ASSUME TypeOK, m_enterVipQueue # <<>> \/ m_enterQueue # <<>>
  PROVE  /\ NextRequest \in Clients
         /\ IF NextRequest \in Vips THEN m_enterVipQueue # <<>>
                                    ELSE m_enterQueue # <<>>
<1>1. m_enterVipQueue # <<>> => Head(m_enterVipQueue) \in Vips
  BY DEF TypeOK
<1>2. m_enterQueue # <<>> => Head(m_enterQueue) \in Clients \ Vips
  BY DEF TypeOK
<1> QED
  BY <1>1, <1>2, ParkAssumption DEF NextRequest

\* Erasing a request keeps both queues well-formed.
LEMMA EraseType ==
  ASSUME TypeOK, NEW c \in Clients, EraseRequest(c),
         IF c \in Vips THEN m_enterVipQueue # <<>> ELSE m_enterQueue # <<>>
  PROVE  /\ m_enterVipQueue' \in Seq(Vips)
         /\ m_enterQueue' \in Seq(Clients \ Vips)
<1>1. /\ m_enterVipQueue \in Seq(Vips)
      /\ m_enterQueue \in Seq(Clients \ Vips)
  BY DEF TypeOK
<1>2. CASE c \in Vips
  <2>1. Tail(m_enterVipQueue) \in Seq(Vips)
    BY <1>1, <1>2
  <2> QED
    BY <1>1, <1>2, <2>1 DEF EraseRequest
<1>3. CASE c \notin Vips
  <2>1. Tail(m_enterQueue) \in Seq(Clients \ Vips)
    BY <1>1, <1>3
  <2> QED
    BY <1>1, <1>3, <2>1 DEF EraseRequest
<1> QED
  BY <1>2, <1>3

-----------------------------------------------------------------------------
(* Type correctness *)

USE DEF mainVars, ipcVars, cashierVars, clientVars

\* The steps of main.
LEMMA MainType ==
  ASSUME TypeInv, MainSigint \/ MainClosing
  PROVE  TypeInv'
<1> USE DEF TypeInv, TypeOK, HandledIsKnown, Admitting, Billing, MainPC
<1>1. CASE MainSigint
  BY <1>1 DEF MainSigint
<1>2. CASE MainKillCashier
  BY <1>2 DEF MainKillCashier
<1>3. CASE MainOpenSemaphores
  BY <1>3 DEF MainOpenSemaphores, SignalEvent
<1>4. CASE MainEnd
  BY <1>4 DEF MainEnd
<1> QED
  BY <1>1, <1>2, <1>3, <1>4 DEF MainClosing

\* The steps of a client; none of them touches the cashier's variables.
LEMMA ClientType ==
  ASSUME TypeInv, NEW c \in Clients, ClientStep(c)
  PROVE  TypeInv'
<1> USE DEF GoTo, ClientPC, Slot, ClientMQMessage, IfHeld
<1>1. /\ UNCHANGED <<mainVars, cashierVars, isOpen>>
      /\ eventSem' \in Nat
      /\ registerMQ' \in [{0, 1} -> Seq(RegisterMQMessage)]
      /\ enterMQ' \in [Clients -> Slot]
      /\ exitMQ' \in [Clients -> Slot]
      /\ linked' \in [Clients -> {"none", "enter", "exit"}]
      /\ pc' \in [Clients -> ClientPC]
      /\ m_evac' \in [Clients -> BOOLEAN]
      /\ m_visitedRestaurant' \in [Clients -> BOOLEAN]
  <2> USE DEF TypeInv, TypeOK
  <2>1. CASE ClientStart(c)
    BY <2>1 DEF ClientStart
  <2>2. CASE ClientConnect(c)
    BY <2>2 DEF ClientConnect
  <2>3. CASE ClientRequest(c)
    <3>1. registerMQ' \in [{0, 1} -> Seq(RegisterMQMessage)]
      BY <2>3, SendType DEF ClientRequest, RegisterMessageType
    <3> QED
      BY <2>3, <3>1 DEF ClientRequest
  <2>4. CASE ClientRequestTimeout(c)
    BY <2>4 DEF ClientRequestTimeout
  <2>5. CASE ClientSignal(c)
    BY <2>5 DEF ClientSignal, SignalEvent
  <2>6. CASE ClientReceive(c)
    BY <2>6 DEF ClientReceive
  <2>7. CASE ClientGiveUp(c)
    BY <2>7 DEF ClientGiveUp
  <2>8. CASE ClientAck(c)
    BY <2>8 DEF ClientAck
  <2>9. CASE ClientVisit(c)
    BY <2>9 DEF ClientVisit
  <2>10. CASE ClientVisitEnd(c)
    BY <2>10 DEF ClientVisitEnd
  <2>11. CASE ClientLeave(c)
    BY <2>11 DEF ClientLeave
  <2>12. CASE ClientExitConnect(c)
    BY <2>12 DEF ClientExitConnect
  <2>13. CASE ClientExitSend(c)
    <3>1. registerMQ' \in [{0, 1} -> Seq(RegisterMQMessage)]
      BY <2>13, SendType DEF ClientExitSend, RegisterMessageType
    <3> QED
      BY <2>13, <3>1 DEF ClientExitSend
  <2>14. CASE ClientExitSignal(c)
    BY <2>14 DEF ClientExitSignal, SignalEvent
  <2>15. CASE ClientExitReceive(c)
    BY <2>15 DEF ClientExitReceive
  <2>16. CASE ClientBillTimeout(c)
    BY <2>16 DEF ClientBillTimeout
  <2>17. CASE ClientBillAck(c)
    BY <2>17 DEF ClientBillAck
  <2>18. CASE ClientCleanup(c)
    BY <2>18 DEF ClientCleanup
  <2> QED
    BY <2>1, <2>2, <2>3, <2>4, <2>5, <2>6, <2>7, <2>8, <2>9, <2>10, <2>11, <2>12, <2>13, <2>14, <2>15, <2>16, <2>17, <2>18
       DEF ClientStep
<1> QED
  BY <1>1 DEF TypeInv, TypeOK, HandledIsKnown, Admitting, Billing

\* The cashier's actions that touch neither a queue nor m_clients.
LEMMA CashierLocalType ==
  ASSUME TypeInv,
         \/ CashierClaim \/ CashierCreateQueue \/ CashierCheck \/ CashierWait
         \/ CashierReceiveTimeout \/ CashierServeEnd
         \/ CashierUnlink \/ CashierDeregister
  PROVE  TypeInv'
<1> USE DEF TypeInv, TypeOK, HandledIsKnown, Admitting, Billing, CashierPC,
            CashierLoop
<1>1. CASE CashierClaim
  BY <1>1 DEF CashierClaim
<1>2. CASE CashierCreateQueue
  BY <1>2 DEF CashierCreateQueue
<1>3. CASE CashierCheck
  BY <1>3 DEF CashierCheck
<1>4. CASE CashierWait
  BY <1>4 DEF CashierWait
<1>5. CASE CashierReceiveTimeout
  BY <1>5 DEF CashierReceiveTimeout
<1>6. CASE CashierServeEnd
  BY <1>6 DEF CashierServeEnd
<1>7. CASE CashierUnlink
  BY <1>7 DEF CashierUnlink
<1>8. CASE CashierDeregister
  BY <1>8 DEF CashierDeregister
<1> QED
  BY <1>1, <1>2, <1>3, <1>4, <1>5, <1>6, <1>7, <1>8

\* Reading the register queue.
LEMMA CashierReceiveType ==
  ASSUME TypeInv,
         CashierReceiveEnter \/ CashierReceiveExit \/ CashierReceiveExitBill
  PROVE  TypeInv'
<1> DEFINE c == TopMessage.senderPID
<1>1. c \in Clients /\ registerMQ' \in [{0, 1} -> Seq(RegisterMQMessage)]
  BY TopOfQueue, ReceiveType
     DEF TypeInv, TypeOK, CashierReceiveEnter, CashierReceiveExit,
         CashierReceiveExitBill
<1> HIDE DEF c
<1> USE DEF TypeInv, TypeOK, HandledIsKnown, Admitting, Billing, CashierPC,
            CashierLoop
<1>2. CASE CashierReceiveEnter
  <2>1. /\ m_enterVipQueue' \in Seq(Vips)
        /\ m_enterQueue' \in Seq(Clients \ Vips)
    <3>1. CASE c \in Vips
      <4>1. Append(m_enterVipQueue, c) \in Seq(Vips)
        BY <3>1
      <4> QED
        BY <1>2, <3>1, <4>1 DEF CashierReceiveEnter, c
    <3>2. CASE c \notin Vips
      <4>1. Append(m_enterQueue, c) \in Seq(Clients \ Vips)
        BY <1>1, <3>2
      <4> QED
        BY <1>2, <3>2, <4>1 DEF CashierReceiveEnter, c
    <3> QED
      BY <3>1, <3>2
  <2> QED
    BY <1>1, <1>2, <2>1 DEF CashierReceiveEnter
<1>3. CASE CashierReceiveExit
  BY <1>1, <1>3 DEF CashierReceiveExit, RemoveClient, People, c
<1>4. CASE CashierReceiveExitBill
  BY <1>1, <1>4 DEF CashierReceiveExitBill, c
<1> QED
  BY <1>2, <1>3, <1>4

\* pHandleExitPark.
LEMMA CashierBillType ==
  ASSUME TypeInv, CashierOpenBill \/ CashierSendBill \/ CashierBillAck
  PROVE  TypeInv'
<1> USE DEF TypeInv, TypeOK, HandledIsKnown, Admitting, Billing, CashierPC,
            CashierLoop
<1>1. CASE CashierOpenBill
  BY <1>1 DEF CashierOpenBill, FinishExit, RemoveClient, People
<1>2. CASE CashierSendBill
  BY <1>2 DEF CashierSendBill, ClientPC, Slot, ClientMQMessage
<1>3. CASE CashierBillAck
  BY <1>3 DEF CashierBillAck, FinishExit, RemoveClient, People, Slot
<1> QED
  BY <1>1, <1>2, <1>3

\* pRegisterClient.
LEMMA CashierAdmissionType ==
  ASSUME TypeInv,
         CashierServe \/ CashierSendPermit \/ CashierAdmit \/ CashierNoAck
  PROVE  TypeInv'
<1>1. CASE CashierServe
  <2>1. /\ NextRequest \in Clients
        /\ IF NextRequest \in Vips THEN m_enterVipQueue # <<>>
                                   ELSE m_enterQueue # <<>>
    BY <1>1, NextRequestType DEF TypeInv, CashierServe
  <2>2. CASE linked[NextRequest] = "enter"
    BY <1>1, <2>1, <2>2
       DEF CashierServe, TypeInv, TypeOK, HandledIsKnown, Admitting, Billing,
           CashierPC, CashierLoop
  <2>3. CASE linked[NextRequest] # "enter"
    <3>1. EraseRequest(NextRequest)
      BY <1>1, <2>3 DEF CashierServe
    <3>2. /\ m_enterVipQueue' \in Seq(Vips)
          /\ m_enterQueue' \in Seq(Clients \ Vips)
      BY <2>1, <3>1, EraseType DEF TypeInv
    <3> QED
      BY <1>1, <2>3, <3>2
         DEF CashierServe, TypeInv, TypeOK, HandledIsKnown, Admitting, Billing
  <2> QED
    BY <2>2, <2>3
<1>2. ASSUME Admitting, FinishRequest
      PROVE  /\ m_enterVipQueue' \in Seq(Vips)
             /\ m_enterQueue' \in Seq(Clients \ Vips)
             /\ cur' = NoClient /\ cpc' = "serve" /\ allowed' = FALSE
  BY <1>2, EraseType DEF TypeInv, HandledIsKnown, FinishRequest
<1> USE DEF TypeInv, TypeOK, HandledIsKnown, Admitting, Billing, CashierPC,
            CashierLoop, Slot, ClientMQMessage
<1>3. CASE CashierSendPermit
  <2>1. pc' \in [Clients -> ClientPC] /\ enterMQ' \in [Clients -> Slot]
    <3>1. CASE pc[cur] = "blocked"
      BY <1>3, <3>1 DEF CashierSendPermit, ClientPC
    <3>2. CASE pc[cur] # "blocked"
      BY <1>3, <3>2 DEF CashierSendPermit
    <3> QED
      BY <3>1, <3>2
  <2>2. CASE allowed
    BY <1>3, <2>1, <2>2 DEF CashierSendPermit
  <2>3. CASE ~allowed
    BY <1>2, <1>3, <2>1, <2>3 DEF CashierSendPermit
  <2> QED
    BY <2>2, <2>3
<1>4. CASE CashierAdmit
  BY <1>2, <1>4 DEF CashierAdmit, RegisterClient, People
<1>5. CASE CashierNoAck
  BY <1>2, <1>5 DEF CashierNoAck
<1> QED
  BY <1>1, <1>3, <1>4, <1>5

\* The signal handlers of the cashier.
LEMMA CashierSignalType ==
  ASSUME TypeInv, CashierSigUsr1 \/ CashierSigTerm
  PROVE  TypeInv'
<1> USE DEF TypeInv, TypeOK, HandledIsKnown, Admitting, Billing, CashierPC,
            CashierLoop, Interrupt
<1>1. CASE CashierSigUsr1
  BY <1>1 DEF CashierSigUsr1
<1>2. CASE CashierSigTerm
  BY <1>2 DEF CashierSigTerm, SignalEvent
<1> QED
  BY <1>1, <1>2

\* The invariant that goes with the types is inductive.
LEMMA TypeInvInductive ==
  /\ Init => TypeInv
  /\ TypeInv /\ [Next]_vars => TypeInv'
<1>1. Init => TypeInv
  <2> SUFFICES ASSUME Init PROVE TypeInv
    OBVIOUS
  <2> USE DEF Init
  <2>1. /\ registerMQ \in [{0, 1} -> Seq(RegisterMQMessage)]
        /\ m_enterVipQueue \in Seq(Vips)
        /\ m_enterQueue \in Seq(Clients \ Vips)
    OBVIOUS
  <2>2. /\ enterMQ \in [Clients -> Slot]
        /\ exitMQ \in [Clients -> Slot]
        /\ linked \in [Clients -> {"none", "enter", "exit"}]
        /\ pc \in [Clients -> ClientPC]
        /\ m_evac \in [Clients -> BOOLEAN]
        /\ m_visitedRestaurant \in [Clients -> BOOLEAN]
    BY DEF Slot, ClientPC
  <2>3. HandledIsKnown
    BY DEF HandledIsKnown, Admitting, Billing
  <2> QED
    BY <2>1, <2>2, <2>3 DEF TypeInv, TypeOK, CashierPC, MainPC
<1>2. TypeInv /\ [Next]_vars => TypeInv'
  <2> SUFFICES ASSUME TypeInv, [Next]_vars PROVE TypeInv'
    OBVIOUS
  <2>1. CASE CashierStep
    BY <2>1, CashierLocalType, CashierReceiveType, CashierBillType,
       CashierAdmissionType DEF CashierStep
  <2>2. CASE \E c \in Clients : ClientStep(c)
    BY <2>2, ClientType
  <2>3. CASE UNCHANGED vars
    BY <2>3 DEF vars, TypeInv, TypeOK, HandledIsKnown, Admitting, Billing
  <2> QED
    BY <2>1, <2>2, <2>3, MainType, CashierSignalType DEF Next, Ended
<1> QED
  BY <1>1, <1>2

\* Every variable of every process always has its type, whatever the set of
\* clients: in particular the cashier never erases a request from an empty
\* queue, takes a message from an empty one or mixes VIPs with the others
\* (CashierProc::Run, pHandleEnterPark).
THEOREM TypeCorrect == Spec => []TypeOK
<1>1. TypeInv => TypeOK
  BY DEF TypeInv
<1> QED
  BY <1>1, TypeInvInductive, PTL DEF Spec

-----------------------------------------------------------------------------
(* The capacity of the park.  CapacityRespected is not inductive: the space   *)
(* is checked when a request is taken up, the client is counted when its ACK  *)
(* arrives, and SIGTERM may come between the two.  CapacityInv carries the    *)
(* space that was checked through the exchange, and bounds the counter from   *)
(* below so that it still suffices once SIGTERM has reset the counter.        *)

CapacityInv ==
  /\ Occupancy(m_clients) <= m_clientCounter
  /\ m_clientCounter <= ParkSize
  /\ cpc = "permitAck" => allowed
  /\ Admitting /\ allowed => m_clientCounter + People(cur) <= ParkSize

\* A set of clients holds at least as many people as clients.
LEMMA OccupancyType ==
  ASSUME NEW S \in SUBSET Clients
  PROVE  /\ IsFiniteSet(S) /\ IsFiniteSet(S \cap Parents)
         /\ Occupancy(S) \in Nat
<1>1. IsFiniteSet(S)
  BY FS_Subset, ParkAssumption
<1>2. IsFiniteSet(S \cap Parents)
  BY <1>1, FS_Intersection
<1> QED
  BY <1>1, <1>2, FS_CardinalityType DEF Occupancy

\* A client that joins brings at most itself and its child.
LEMMA OccupancyAdd ==
  ASSUME NEW S \in SUBSET Clients, NEW c \in Clients
  PROVE  Occupancy(S \cup {c}) <= Occupancy(S) + People(c)
<1>1. /\ IsFiniteSet(S) /\ Cardinality(S) \in Nat
      /\ IsFiniteSet(S \cap Parents) /\ Cardinality(S \cap Parents) \in Nat
  BY OccupancyType, FS_CardinalityType
<1>2. \A T : IsFiniteSet(T) =>
        /\ IsFiniteSet(T \cup {c})
        /\ Cardinality(T \cup {c}) =
             IF c \in T THEN Cardinality(T) ELSE Cardinality(T) + 1
  BY FS_AddElement
<1>3. /\ Cardinality(S \cup {c}) \in Nat
      /\ Cardinality(S \cup {c}) <= Cardinality(S) + 1
  BY <1>1, <1>2
<1>4. CASE c \in Parents
  <2> DEFINE P == S \cap Parents
  <2>1. (S \cup {c}) \cap Parents = P \cup {c}
    BY <1>4
  <2>2. /\ Cardinality(P \cup {c}) \in Nat
        /\ Cardinality(P \cup {c}) <= Cardinality(P) + 1
    <3> HIDE DEF P
    <3>1. IsFiniteSet(P) /\ Cardinality(P) \in Nat
      BY <1>1 DEF P
    <3> QED
      BY <1>2, <3>1
  <2> QED
    BY <1>1, <1>3, <1>4, <2>1, <2>2 DEF Occupancy, People
<1>5. CASE c \notin Parents
  <2>1. (S \cup {c}) \cap Parents = S \cap Parents
    BY <1>5
  <2> QED
    BY <1>1, <1>3, <1>5, <2>1 DEF Occupancy, People
<1> QED
  BY <1>4, <1>5

\* A client that leaves takes its child along.
LEMMA OccupancyRemove ==
  ASSUME NEW S \in SUBSET Clients, NEW c \in S
  PROVE  Occupancy(S \ {c}) = Occupancy(S) - People(c)
<1>1. /\ IsFiniteSet(S) /\ Cardinality(S) \in Nat
      /\ IsFiniteSet(S \cap Parents) /\ Cardinality(S \cap Parents) \in Nat
  BY OccupancyType, FS_CardinalityType
<1>2. Cardinality(S \ {c}) = Cardinality(S) - 1
  BY <1>1, FS_RemoveElement
<1>3. CASE c \in Parents
  <2>1. (S \ {c}) \cap Parents = (S \cap Parents) \ {c}
    OBVIOUS
  <2>2. Cardinality((S \ {c}) \cap Parents) = Cardinality(S \cap Parents) - 1
    BY <1>1, <1>3, <2>1, FS_RemoveElement
  <2> QED
    BY <1>1, <1>2, <1>3, <2>2 DEF Occupancy, People
<1>4. CASE c \notin Parents
  <2>1. (S \ {c}) \cap Parents = S \cap Parents
    BY <1>4
  <2>2. Cardinality((S \ {c}) \cap Parents) = Cardinality(S \cap Parents)
    BY <2>1
  <2>3. People(c) = 1
    BY <1>4 DEF People
  <2> QED
    BY <1>1, <1>2, <2>2, <2>3 DEF Occupancy
<1> QED
  BY <1>3, <1>4

\* pRemoveClient keeps the counter above the people registered.
LEMMA RemoveKeepsCapacity ==
  ASSUME TypeOK, CapacityInv, NEW c \in Clients, RemoveClient(c)
  PROVE  /\ Occupancy(m_clients') <= m_clientCounter'
         /\ m_clientCounter' <= ParkSize
<1>1. /\ m_clients \in SUBSET Clients /\ m_clientCounter \in Int
      /\ Occupancy(m_clients) \in Nat
      /\ ParkSize \in Nat
  BY OccupancyType, ParkAssumption DEF TypeOK
<1>2. CASE c \in m_clients
  <2>1. Occupancy(m_clients \ {c}) = Occupancy(m_clients) - People(c)
    BY <1>1, <1>2, OccupancyRemove
  <2> QED
    BY <1>1, <1>2, <2>1 DEF RemoveClient, CapacityInv, People
<1>3. CASE c \notin m_clients
  <2>1. m_clients \ {c} = m_clients
    BY <1>3
  <2> QED
    BY <1>3, <2>1 DEF RemoveClient, CapacityInv
<1> QED
  BY <1>2, <1>3

\* The cashier's actions keep CapacityInv.
LEMMA CashierKeepsCapacity ==
  ASSUME TypeInv, CapacityInv, CashierStep
  PROVE  CapacityInv'
<1>1. /\ m_clients \in SUBSET Clients /\ m_clientCounter \in Int
      /\ Occupancy(m_clients) \in Nat
      /\ ParkSize \in Nat /\ allowed \in BOOLEAN
      /\ \A c \in Clients : People(c) \in {1, 2}
  BY OccupancyType, ParkAssumption DEF TypeInv, TypeOK, People
\* While nothing is admitted and m_clients is left alone there is little to show.
<1>2. ASSUME UNCHANGED <<m_clients, m_clientCounter>>, ~Admitting'
      PROVE  CapacityInv'
  BY <1>2 DEF CapacityInv, Admitting
<1>3. ASSUME NEW c \in Clients, RemoveClient(c), ~Admitting'
      PROVE  CapacityInv'
  BY <1>3, RemoveKeepsCapacity DEF TypeInv, CapacityInv, Admitting
<1>4. CASE \/ CashierClaim \/ CashierCreateQueue \/ CashierCheck
           \/ CashierWait \/ CashierReceiveTimeout \/ CashierReceiveEnter
           \/ CashierReceiveExitBill \/ CashierSendBill \/ CashierServeEnd
           \/ CashierUnlink \/ CashierDeregister
  BY <1>2, <1>4
     DEF CashierClaim, CashierCreateQueue, CashierCheck, CashierWait,
         CashierReceiveTimeout, CashierReceiveEnter, CashierReceiveExitBill,
         CashierSendBill, CashierServeEnd, CashierUnlink, CashierDeregister,
         Admitting
<1>5. CASE CashierReceiveExit
  <2>1. TopMessage.senderPID \in Clients
    BY <1>5, TopOfQueue DEF TypeInv, TypeOK, CashierReceiveExit
  <2> QED
    BY <1>3, <1>5, <2>1 DEF CashierReceiveExit, Admitting
<1>6. CASE CashierOpenBill
  <2>1. cur \in Clients
    BY <1>6 DEF CashierOpenBill, TypeInv, HandledIsKnown, Billing
  <2>2. CASE linked[cur] = "exit"
    BY <1>2, <1>6, <2>2 DEF CashierOpenBill, Admitting
  <2>3. CASE linked[cur] # "exit"
    BY <1>3, <1>6, <2>1, <2>3 DEF CashierOpenBill, FinishExit, Admitting
  <2> QED
    BY <2>2, <2>3
<1>7. CASE CashierBillAck
  <2>1. cur \in Clients
    BY <1>7 DEF CashierBillAck, TypeInv, HandledIsKnown, Billing
  <2> QED
    BY <1>3, <1>7, <2>1 DEF CashierBillAck, FinishExit, Admitting
<1>8. CASE CashierServe
  <2>1. CASE linked[NextRequest] = "enter"
    <3>1. allowed' => m_clientCounter + People(NextRequest) <= ParkSize
      BY <1>8, <2>1 DEF CashierServe, Fits
    <3> QED
      BY <1>8, <2>1, <3>1 DEF CashierServe, CapacityInv, Admitting, People
  <2>2. CASE linked[NextRequest] # "enter"
    BY <1>2, <1>8, <2>2 DEF CashierServe, Admitting
  <2> QED
    BY <2>1, <2>2
<1>9. CASE CashierSendPermit
  <2>1. CASE allowed
    BY <1>9, <2>1 DEF CashierSendPermit, CapacityInv, Admitting, People
  <2>2. CASE ~allowed
    BY <1>2, <1>9, <2>2 DEF CashierSendPermit, FinishRequest, Admitting
  <2> QED
    BY <2>1, <2>2
<1>10. CASE CashierAdmit
  <2>1. cur \in Clients /\ allowed /\ Admitting
    BY <1>10 DEF CashierAdmit, TypeInv, HandledIsKnown, CapacityInv, Admitting
  <2>2. /\ m_clientCounter + People(cur) <= ParkSize
        /\ Occupancy(m_clients) <= m_clientCounter
    BY <2>1 DEF CapacityInv
  <2>3. /\ m_clients' = m_clients \cup {cur}
        /\ m_clientCounter' = m_clientCounter + People(cur)
        /\ cpc' = "serve"
    BY <1>10 DEF CashierAdmit, RegisterClient, FinishRequest
  <2>4. Occupancy(m_clients \cup {cur}) <= Occupancy(m_clients) + People(cur)
    BY <1>1, <2>1, OccupancyAdd
  <2>5. Occupancy(m_clients \cup {cur}) \in Nat
    BY <1>1, <2>1, OccupancyType
  <2>6. Occupancy(m_clients') <= m_clientCounter'
    BY <1>1, <2>1, <2>2, <2>3, <2>4, <2>5
  <2> QED
    BY <2>2, <2>3, <2>6 DEF CapacityInv, Admitting
<1>11. CASE CashierNoAck
  BY <1>2, <1>11 DEF CashierNoAck, FinishRequest, Admitting
<1> QED
  BY <1>4, <1>5, <1>6, <1>7, <1>8, <1>9, <1>10, <1>11 DEF CashierStep

\* SIGTERM empties m_clients and resets the counter; what was checked for the
\* request being handled still fits.
LEMMA SignalsKeepCapacity ==
  ASSUME TypeInv, CapacityInv, CashierSigUsr1 \/ CashierSigTerm
  PROVE  CapacityInv'
<1>1. cpc' = "permitAck" => cpc = "permitAck"
  BY DEF CashierSigUsr1, CashierSigTerm, Interrupt
<1>2. Admitting' => Admitting
  BY DEF CashierSigUsr1, CashierSigTerm, Interrupt, Admitting
<1>3. CASE CashierSigUsr1
  BY <1>1, <1>2, <1>3 DEF CashierSigUsr1, CapacityInv, People
<1>4. CASE CashierSigTerm
  <2>1. m_clients' = {} /\ m_clientCounter' = 0 /\ UNCHANGED <<cur, allowed>>
    BY <1>4 DEF CashierSigTerm
  <2>2. Occupancy({}) = 0
    <3>1. {} \cap Parents = {}
      OBVIOUS
    <3> QED
      BY <3>1, FS_EmptySet DEF Occupancy
  <2>3. /\ Occupancy(m_clients) \in Nat /\ m_clientCounter \in Int
        /\ ParkSize \in Nat /\ People(cur) \in {1, 2}
    BY OccupancyType, ParkAssumption DEF TypeInv, TypeOK, People
  <2>4. Admitting /\ allowed => People(cur) <= ParkSize
    BY <2>3 DEF CapacityInv
  <2>5. People(cur)' = People(cur)
    BY <2>1 DEF People
  <2>6. Occupancy(m_clients') <= m_clientCounter' /\ m_clientCounter' <= ParkSize
    BY <2>1, <2>2, <2>3
  <2>7. cpc' = "permitAck" => allowed'
    BY <1>1, <2>1 DEF CapacityInv
  <2>8. (Admitting /\ allowed)' => m_clientCounter' + People(cur)' <= ParkSize
    BY <1>2, <2>1, <2>3, <2>4, <2>5
  <2> QED
    BY <2>6, <2>7, <2>8 DEF CapacityInv
<1> QED
  BY <1>3, <1>4

\* The strengthened bound is inductive.
LEMMA CapacityInvInductive ==
  /\ Init => CapacityInv
  /\ TypeInv /\ CapacityInv /\ [Next]_vars => CapacityInv'
<1>1. Init => CapacityInv
  <2> SUFFICES ASSUME Init PROVE CapacityInv
    OBVIOUS
  <2>1. {} \cap Parents = {}
    OBVIOUS
  <2>2. Occupancy(m_clients) = 0
    BY <2>1, FS_EmptySet DEF Init, Occupancy
  <2> QED
    BY <2>2, ParkAssumption DEF Init, CapacityInv, Admitting
<1>2. TypeInv /\ CapacityInv /\ [Next]_vars => CapacityInv'
  <2> SUFFICES ASSUME TypeInv, CapacityInv, [Next]_vars PROVE CapacityInv'
    OBVIOUS
  <2>1. CASE UNCHANGED <<cpc, m_clients, m_clientCounter, cur, allowed>>
    BY <2>1 DEF CapacityInv, Admitting, People
  <2>2. CASE MainSigint \/ MainClosing
    BY <2>1, <2>2
       DEF MainSigint, MainClosing, MainKillCashier, MainOpenSemaphores, MainEnd
  <2>3. ASSUME NEW c \in Clients, ClientStep(c)
        PROVE  CapacityInv'
    <3>1. UNCHANGED cashierVars
      BY <2>3
         DEF ClientStep, ClientStart, ClientConnect, ClientRequest,
             ClientRequestTimeout, ClientSignal, ClientReceive, ClientGiveUp,
             ClientAck, ClientVisit, ClientVisitEnd, ClientLeave,
             ClientExitConnect, ClientExitSend, ClientExitSignal,
             ClientExitReceive, ClientBillTimeout, ClientBillAck, ClientCleanup
    <3> QED
      BY <2>1, <3>1
  <2> QED
    BY <2>1, <2>2, <2>3, CashierKeepsCapacity, SignalsKeepCapacity
       DEF Next, Ended, vars
<1> QED
  BY <1>1, <1>2

\* What it says of the cashier's books.
LEMMA CapacityFollows == TypeInv /\ CapacityInv => CapacityRespected
<1> SUFFICES ASSUME TypeInv, CapacityInv PROVE CapacityRespected
  OBVIOUS
<1>1. /\ Occupancy(m_clients) \in Nat /\ m_clientCounter \in Int
      /\ ParkSize \in Nat
  BY OccupancyType, ParkAssumption DEF TypeInv, TypeOK
<1> QED
  BY <1>1 DEF CapacityInv, CapacityRespected

\* The cashier never registers more people than the park holds, for any size
\* of the park and any mix of parents, VIPs, lost ACKs, timeouts and signals.
THEOREM CapacityAlwaysRespected == Spec => []CapacityRespected
BY CapacityInvInductive, CapacityFollows, TypeInvInductive, PTL DEF Spec

-----------------------------------------------------------------------------
(* No wake-up is lost.  NoLostWakeup is inductive given the types: sending    *)
(* adds a message and a client that is about to signal, signalling turns that *)
(* client into a unit of the semaphore, waiting turns the unit into the       *)
(* cashier being on its way, and receiving spends that.                       *)

\* The number of clients about to signal is a number.
LEMMA SignallingFinite == IsFiniteSet(Signalling) /\ Cardinality(Signalling) \in Nat
<1>1. Signalling \in SUBSET Clients
  BY DEF Signalling
<1>2. IsFiniteSet(Signalling)
  BY <1>1, FS_Subset, ParkAssumption
<1> QED
  BY <1>2, FS_CardinalityType

\* One message more after a send.
LEMMA SendCount ==
  ASSUME registerMQ \in [{0, 1} -> Seq(RegisterMQMessage)],
         NEW c \in Clients, NEW type, SendRegister(c, type)
  PROVE  MessageCount' = MessageCount + 1
<1> DEFINE m == [senderPID |-> c, mType |-> type]
<1>1. /\ registerMQ[0] \in Seq(RegisterMQMessage)
      /\ registerMQ[1] \in Seq(RegisterMQMessage)
      /\ Priority(c) \in {0, 1}
  BY DEF Priority
<1>2. registerMQ' = [registerMQ EXCEPT ![Priority(c)] = Append(@, m)]
  BY DEF SendRegister
<1> HIDE DEF m
<1>3. /\ Len(Append(registerMQ[0], m)) = Len(registerMQ[0]) + 1
      /\ Len(Append(registerMQ[1], m)) = Len(registerMQ[1]) + 1
  BY <1>1
<1>4. Len(registerMQ[0]) \in Nat /\ Len(registerMQ[1]) \in Nat
  BY <1>1
<1>5. CASE Priority(c) = 0
  BY <1>2, <1>3, <1>4, <1>5 DEF MessageCount
<1>6. CASE Priority(c) = 1
  BY <1>2, <1>3, <1>4, <1>6 DEF MessageCount
<1> QED
  BY <1>1, <1>5, <1>6

\* One message less after a receive.
LEMMA ReceiveCount ==
  ASSUME registerMQ \in [{0, 1} -> Seq(RegisterMQMessage)], MessageCount > 0,
         ReceiveRegister
  PROVE  MessageCount' = MessageCount - 1
<1>1. /\ registerMQ[0] \in Seq(RegisterMQMessage)
      /\ registerMQ[1] \in Seq(RegisterMQMessage)
      /\ TopPriority \in {0, 1} /\ registerMQ[TopPriority] # <<>>
  BY TopOfQueue
<1>2. Len(registerMQ[0]) \in Nat /\ Len(registerMQ[1]) \in Nat
  BY <1>1
<1>3. CASE TopPriority = 0
  <2>1. Len(Tail(registerMQ[0])) = Len(registerMQ[0]) - 1
    BY <1>1, <1>3
  <2>2. registerMQ'[0] = Tail(registerMQ[0]) /\ registerMQ'[1] = registerMQ[1]
    BY <1>3 DEF ReceiveRegister
  <2>3. /\ Len(registerMQ'[0]) = Len(registerMQ[0]) - 1
        /\ Len(registerMQ'[1]) = Len(registerMQ[1])
    BY <2>1, <2>2
  <2> QED
    BY <1>2, <2>3 DEF MessageCount
<1>4. CASE TopPriority = 1
  <2>1. Len(Tail(registerMQ[1])) = Len(registerMQ[1]) - 1
    BY <1>1, <1>4
  <2>2. registerMQ'[1] = Tail(registerMQ[1]) /\ registerMQ'[0] = registerMQ[0]
    BY <1>4 DEF ReceiveRegister
  <2>3. /\ Len(registerMQ'[1]) = Len(registerMQ[1]) - 1
        /\ Len(registerMQ'[0]) = Len(registerMQ[0])
    BY <2>1, <2>2
  <2> QED
    BY <1>2, <2>3 DEF MessageCount
<1> QED
  BY <1>1, <1>3, <1>4

\* The length of the register queue is a number.
LEMMA MessageCountType ==
  ASSUME registerMQ \in [{0, 1} -> Seq(RegisterMQMessage)]
  PROVE  MessageCount \in Nat
BY DEF MessageCount

\* A client's step keeps NoLostWakeup.
LEMMA ClientKeepsWakeup ==
  ASSUME TypeInv, NoLostWakeup, NEW c \in Clients, ClientStep(c)
  PROVE  NoLostWakeup'
<1>1. /\ eventSem \in Nat /\ MessageCount \in Nat
      /\ registerMQ \in [{0, 1} -> Seq(RegisterMQMessage)]
      /\ pc \in [Clients -> ClientPC]
  BY MessageCountType DEF TypeInv, TypeOK
<1>2. IsFiniteSet(Signalling) /\ Cardinality(Signalling) \in Nat
  BY SignallingFinite
<1>3. ASSUME NEW type, SendRegister(c, type), pc[c] \notin {"signal", "exitSignal"},
             NEW next \in {"signal", "exitSignal"}, GoTo(c, next),
             UNCHANGED <<eventSem, cpc>>
      PROVE  NoLostWakeup'
  <2>1. Signalling' = Signalling \cup {c} /\ c \notin Signalling
    BY <1>1, <1>3 DEF Signalling, GoTo
  <2>2. Cardinality(Signalling') = Cardinality(Signalling) + 1
    BY <1>2, <2>1, FS_AddElement
  <2>3. MessageCount' = MessageCount + 1
    BY <1>1, <1>3, SendCount
  <2> QED
    BY <1>1, <1>2, <1>3, <2>2, <2>3 DEF NoLostWakeup
<1>4. ASSUME SignalEvent, pc[c] \in {"signal", "exitSignal"},
             NEW next \in ClientPC \ {"signal", "exitSignal"}, GoTo(c, next),
             UNCHANGED <<registerMQ, cpc>>
      PROVE  NoLostWakeup'
  <2>1. Signalling' = Signalling \ {c} /\ c \in Signalling
    BY <1>1, <1>4 DEF Signalling, GoTo
  <2>2. Cardinality(Signalling') = Cardinality(Signalling) - 1
    BY <1>2, <2>1, FS_RemoveElement
  <2>3. MessageCount' = MessageCount /\ eventSem' = eventSem + 1
    BY <1>4 DEF MessageCount, SignalEvent
  <2> QED
    BY <1>1, <1>2, <1>4, <2>2, <2>3 DEF NoLostWakeup
<1>5. ASSUME pc[c] \notin {"signal", "exitSignal"},
             NEW next \in ClientPC \ {"signal", "exitSignal"}, GoTo(c, next),
             UNCHANGED <<registerMQ, eventSem, cpc>>
      PROVE  NoLostWakeup'
  <2>1. Signalling' = Signalling
    BY <1>1, <1>5 DEF Signalling, GoTo
  <2> QED
    BY <1>5, <2>1 DEF NoLostWakeup, MessageCount
<1>6. CASE ClientRequest(c)
  BY <1>3, <1>6 DEF ClientRequest
<1>7. CASE ClientExitSend(c)
  BY <1>3, <1>7 DEF ClientExitSend
<1>8. CASE ClientSignal(c)
  BY <1>4, <1>8 DEF ClientSignal, ClientPC
<1>9. CASE ClientExitSignal(c)
  BY <1>4, <1>9 DEF ClientExitSignal, ClientPC
<1>10. CASE ~(\/ ClientRequest(c) \/ ClientExitSend(c)
              \/ ClientSignal(c) \/ ClientExitSignal(c))
  <2> USE DEF ClientPC
  <2>1. CASE ClientStart(c)
    BY <1>5, <2>1 DEF ClientStart
  <2>2. CASE ClientConnect(c)
    BY <1>5, <2>2 DEF ClientConnect
  <2>3. CASE ClientRequestTimeout(c)
    BY <1>5, <2>3 DEF ClientRequestTimeout
  <2>4. CASE ClientReceive(c)
    BY <1>5, <2>4 DEF ClientReceive
  <2>5. CASE ClientGiveUp(c)
    BY <1>5, <2>5 DEF ClientGiveUp
  <2>6. CASE ClientAck(c)
    BY <1>5, <2>6 DEF ClientAck
  <2>7. CASE ClientVisit(c)
    BY <1>5, <2>7 DEF ClientVisit
  <2>8. CASE ClientVisitEnd(c)
    BY <1>5, <2>8 DEF ClientVisitEnd
  <2>9. CASE ClientLeave(c)
    BY <1>5, <2>9 DEF ClientLeave
  <2>10. CASE ClientExitConnect(c)
    BY <1>5, <2>10 DEF ClientExitConnect
  <2>11. CASE ClientExitReceive(c)
    BY <1>5, <2>11 DEF ClientExitReceive
  <2>12. CASE ClientBillTimeout(c)
    BY <1>5, <2>12 DEF ClientBillTimeout
  <2>13. CASE ClientBillAck(c)
    BY <1>5, <2>13 DEF ClientBillAck
  <2>14. CASE ClientCleanup(c)
    BY <1>5, <2>14 DEF ClientCleanup
  <2> QED
    BY <1>10, <2>1, <2>2, <2>3, <2>4, <2>5, <2>6, <2>7, <2>8, <2>9, <2>10, <2>11, <2>12, <2>13, <2>14
       DEF ClientStep
<1> QED
  BY <1>6, <1>7, <1>8, <1>9, <1>10

\* A step of the cashier keeps NoLostWakeup.
LEMMA CashierKeepsWakeup ==
  ASSUME TypeInv, NoLostWakeup, CashierStep \/ CashierSigUsr1 \/ CashierSigTerm
  PROVE  NoLostWakeup'
<1>1. /\ eventSem \in Nat /\ MessageCount \in Nat
      /\ registerMQ \in [{0, 1} -> Seq(RegisterMQMessage)]
      /\ pc \in [Clients -> ClientPC]
  BY MessageCountType DEF TypeInv, TypeOK
<1>2. IsFiniteSet(Signalling) /\ Cardinality(Signalling) \in Nat
  BY SignallingFinite
<1>3. Signalling' = Signalling
  <2>1. CASE CashierSendBill
    BY <1>1, <2>1 DEF CashierSendBill, Signalling
  <2>2. CASE CashierSendPermit
    BY <1>1, <2>2 DEF CashierSendPermit, Signalling
  <2>3. CASE ~CashierSendBill /\ ~CashierSendPermit
    <3>1. UNCHANGED pc
      BY <2>3
         DEF CashierStep, CashierClaim, CashierCreateQueue, CashierCheck,
             CashierWait, CashierReceiveTimeout, CashierReceiveEnter,
             CashierReceiveExit, CashierReceiveExitBill, CashierOpenBill,
             CashierBillAck, CashierServeEnd, CashierServe, CashierAdmit,
             CashierNoAck, CashierUnlink, CashierDeregister, CashierSigUsr1,
             CashierSigTerm
    <3> QED
      BY <3>1 DEF Signalling
  <2> QED
    BY <2>1, <2>2, <2>3
<1>4. CASE CashierReceiveEnter \/ CashierReceiveExit \/ CashierReceiveExitBill
  <2>1. /\ MessageCount' = MessageCount - 1
        /\ cpc = "recv" /\ cpc' # "recv" /\ eventSem' = eventSem
    BY <1>1, <1>4, ReceiveCount
       DEF CashierReceiveEnter, CashierReceiveExit, CashierReceiveExitBill
  <2> QED
    BY <1>1, <1>2, <1>3, <2>1 DEF NoLostWakeup
<1>5. CASE CashierReceiveTimeout
  <2>1. MessageCount' = 0 /\ eventSem' = eventSem
    BY <1>5 DEF CashierReceiveTimeout, MessageCount
  <2> QED
    BY <1>1, <1>2, <1>3, <2>1 DEF NoLostWakeup
<1>6. CASE CashierWait
  BY <1>1, <1>2, <1>3, <1>6 DEF CashierWait, NoLostWakeup, MessageCount
<1>7. CASE CashierSigUsr1 \/ CashierSigTerm
  <2>1. /\ MessageCount' = MessageCount
        /\ eventSem' \in {eventSem, eventSem + 1}
        /\ cpc = "recv" => cpc' = "recv"
    BY <1>7
       DEF CashierSigUsr1, CashierSigTerm, SignalEvent, Interrupt, MessageCount
  <2> QED
    BY <1>1, <1>2, <1>3, <2>1 DEF NoLostWakeup
<1>8. CASE \/ CashierClaim \/ CashierCreateQueue \/ CashierCheck
           \/ CashierOpenBill \/ CashierSendBill \/ CashierBillAck
           \/ CashierServeEnd \/ CashierServe \/ CashierSendPermit
           \/ CashierAdmit \/ CashierNoAck \/ CashierUnlink \/ CashierDeregister
  <2>1. UNCHANGED <<registerMQ, eventSem>> /\ cpc # "recv"
    BY <1>8
       DEF CashierClaim, CashierCreateQueue, CashierCheck, CashierOpenBill,
           CashierSendBill, CashierBillAck, CashierServeEnd, CashierServe,
           CashierSendPermit, CashierAdmit, CashierNoAck, CashierUnlink,
           CashierDeregister
  <2> QED
    BY <1>1, <1>2, <1>3, <2>1 DEF NoLostWakeup, MessageCount
<1> QED
  BY <1>4, <1>5, <1>6, <1>7, <1>8 DEF CashierStep

\* The cashier never sleeps on CashierEvent over a message in its queue, for any
\* number of clients and whatever signals interrupt its waits.
THEOREM WakeupsNeverLost == Spec => []NoLostWakeup
<1>1. Init => NoLostWakeup
  <2> SUFFICES ASSUME Init PROVE NoLostWakeup
    OBVIOUS
  <2>1. MessageCount = 0
    BY DEF Init, MessageCount
  <2> QED
    BY <2>1, SignallingFinite DEF Init, NoLostWakeup
<1>2. TypeInv /\ NoLostWakeup /\ [Next]_vars => NoLostWakeup'
  <2> SUFFICES ASSUME TypeInv, NoLostWakeup, [Next]_vars PROVE NoLostWakeup'
    OBVIOUS
  <2>1. CASE MainSigint \/ MainClosing
    <3>1. eventSem \in Nat /\ MessageCount \in Nat
      BY MessageCountType DEF TypeInv, TypeOK
    <3>2. /\ UNCHANGED <<registerMQ, pc, cpc>>
          /\ eventSem' \in {eventSem, eventSem + 1}
      BY <2>1
         DEF MainSigint, MainClosing, MainKillCashier, MainOpenSemaphores,
             MainEnd, SignalEvent
    <3>3. MessageCount' = MessageCount /\ Signalling' = Signalling
      BY <3>2 DEF MessageCount, Signalling
    <3> QED
      BY <3>1, <3>2, <3>3, SignallingFinite DEF NoLostWakeup
  <2>2. CASE UNCHANGED vars
    BY <2>2 DEF vars, NoLostWakeup, MessageCount, Signalling
  <2> QED
    BY <2>1, <2>2, ClientKeepsWakeup, CashierKeepsWakeup DEF Next, Ended
<1> QED
  BY <1>1, <1>2, TypeInvInductive, PTL DEF Spec
=============================================================================
