-------------------------- MODULE AdmissionProofs --------------------------
(***************************************************************************)
(* Park implements Admission: each step of the processes is a step of the  *)
(* cashier's promise or leaves it unchanged.                               *)
(***************************************************************************)
EXTENDS ParkProofs

USE DEF mainVars, ipcVars, cashierVars, clientVars

\* Where a client is once it has left, or has given up.
Gone == {"exitConnect", "exitSend", "exitSignal", "exitReceive",
         "exitBlocked", "billed", "cleanup", "done", "crashed"}

\* An EXIT_PARK that waits in the queue or is being handled is that of a client
\* that has left: without this the cashier could forget a client inside.
QueueLeft ==
  \A p \in {0, 1} : \A i \in DOMAIN registerMQ[p] :
    registerMQ[p][i].mType = "EXIT_PARK"
      => pc[registerMQ[p][i].senderPID] \in Gone

LeftInv == QueueLeft /\ (Billing => pc[cur] \in Gone)

\* Nobody comes back once gone.
GoneForGood == \A c \in Clients : pc[c] \in Gone => pc'[c] \in Gone

\* A step of a client takes that client only, and never back from Gone.
LEMMA ClientGone ==
  ASSUME TypeInv, NEW c \in Clients, ClientStep(c)
  PROVE  GoneForGood /\ UNCHANGED cashierVars
<1>1. pc \in [Clients -> ClientPC]
  BY DEF TypeInv, TypeOK
<1>2. UNCHANGED cashierVars
  BY DEF ClientStep, ClientStart, ClientConnect, ClientRequest,
         ClientRequestTimeout, ClientSignal, ClientReceive, ClientGiveUp,
         ClientAck, ClientVisit, ClientVisitEnd, ClientLeave,
         ClientExitConnect, ClientExitSend, ClientExitSignal,
         ClientExitReceive, ClientBillTimeout, ClientBillAck, ClientCleanup
<1>3. ASSUME NEW next, GoTo(c, next), pc[c] \in Gone => next \in Gone
      PROVE  GoneForGood
  BY <1>1, <1>3 DEF GoTo, GoneForGood
<1>4. CASE ClientStart(c)
  BY <1>2, <1>3, <1>4 DEF ClientStart, Gone
<1>5. CASE ClientConnect(c) \/ ClientRequest(c) \/ ClientRequestTimeout(c)
           \/ ClientSignal(c) \/ ClientReceive(c) \/ ClientGiveUp(c)
           \/ ClientAck(c) \/ ClientVisit(c) \/ ClientVisitEnd(c)
  <2>1. pc[c] \notin Gone
    BY <1>5 DEF ClientConnect, ClientRequest, ClientRequestTimeout,
                ClientSignal, ClientReceive, ClientGiveUp, ClientAck,
                ClientVisit, ClientVisitEnd, Gone
  <2>2. \E next : GoTo(c, next)
    BY <1>5 DEF ClientConnect, ClientRequest, ClientRequestTimeout,
                ClientSignal, ClientReceive, ClientGiveUp, ClientAck,
                ClientVisit, ClientVisitEnd
  <2> QED
    BY <1>2, <1>3, <2>1, <2>2
<1>6. CASE ClientLeave(c)
  BY <1>2, <1>3, <1>6 DEF ClientLeave, Gone
<1>7. CASE ClientExitConnect(c)
  BY <1>2, <1>3, <1>7 DEF ClientExitConnect, Gone
<1>8. CASE ClientExitSend(c)
  BY <1>2, <1>3, <1>8 DEF ClientExitSend, Gone
<1>9. CASE ClientExitSignal(c)
  BY <1>2, <1>3, <1>9 DEF ClientExitSignal, Gone
<1>10. CASE ClientExitReceive(c)
  BY <1>2, <1>3, <1>10 DEF ClientExitReceive, Gone
<1>11. CASE ClientBillTimeout(c)
  BY <1>2, <1>3, <1>11 DEF ClientBillTimeout, Gone
<1>12. CASE ClientBillAck(c)
  BY <1>2, <1>3, <1>12 DEF ClientBillAck, Gone
<1>13. CASE ClientCleanup(c)
  BY <1>2, <1>3, <1>13 DEF ClientCleanup, Gone
<1> QED
  BY <1>2, <1>4, <1>5, <1>6, <1>7, <1>8, <1>9, <1>10, <1>11, <1>12, <1>13
     DEF ClientStep

\* What a client sends is an EXIT_PARK only once it has left.
LEMMA ClientKeepsLeft ==
  ASSUME TypeInv, LeftInv, NEW c \in Clients, ClientStep(c)
  PROVE  LeftInv'
<1>1. GoneForGood /\ UNCHANGED <<cpc, cur>>
  BY ClientGone
<1>2. /\ registerMQ \in [{0, 1} -> Seq(RegisterMQMessage)]
      /\ Billing => cur \in Clients
      /\ pc \in [Clients -> ClientPC]
  BY DEF TypeInv, TypeOK, HandledIsKnown
<1>3. (Billing => pc[cur] \in Gone)'
  BY <1>1, <1>2 DEF LeftInv, QueueLeft, Billing, GoneForGood
<1>4. \A p \in {0, 1} : \A i \in DOMAIN registerMQ[p] :
        registerMQ[p][i].senderPID \in Clients
  <2> SUFFICES ASSUME NEW p \in {0, 1}, NEW i \in DOMAIN registerMQ[p]
               PROVE  registerMQ[p][i].senderPID \in Clients
    OBVIOUS
  <2>1. registerMQ[p] \in Seq(RegisterMQMessage)
    BY <1>2
  <2>2. registerMQ[p][i] \in RegisterMQMessage
    BY <2>1
  <2> QED
    BY <2>2 DEF RegisterMQMessage
<1>5. CASE UNCHANGED registerMQ
  BY <1>1, <1>3, <1>4, <1>5 DEF LeftInv, QueueLeft, GoneForGood
<1>6. ASSUME NEW type \in RegisterMessageType, SendRegister(c, type),
             type = "EXIT_PARK" => pc'[c] \in Gone
      PROVE  LeftInv'
  <2> SUFFICES ASSUME NEW p \in {0, 1}, NEW i \in DOMAIN registerMQ'[p],
                      registerMQ'[p][i].mType = "EXIT_PARK"
               PROVE  pc'[registerMQ'[p][i].senderPID] \in Gone
    BY <1>3 DEF LeftInv, QueueLeft
  <2> DEFINE m == [senderPID |-> c, mType |-> type]
  <2>1. registerMQ[p] \in Seq(RegisterMQMessage) /\ m \in RegisterMQMessage
    BY <1>2 DEF RegisterMQMessage
  <2>2. registerMQ'[p] \in {registerMQ[p], Append(registerMQ[p], m)}
    BY <1>2, <1>6 DEF SendRegister
  <2>3. m.mType = type /\ m.senderPID = c
    OBVIOUS
  <2> HIDE DEF m
  <2>4. \/ i \in DOMAIN registerMQ[p] /\ registerMQ'[p][i] = registerMQ[p][i]
        \/ registerMQ'[p][i] = m
    <3>1. CASE registerMQ'[p] = registerMQ[p]
      BY <3>1
    <3>2. CASE registerMQ'[p] = Append(registerMQ[p], m)
      <4> DEFINE q == registerMQ[p]
      <4>1. q \in Seq(RegisterMQMessage)
        BY <2>1
      <4>2. i \in DOMAIN Append(q, m) /\ registerMQ'[p][i] = Append(q, m)[i]
        BY <3>2
      <4> HIDE DEF q
      <4>3. /\ DOMAIN Append(q, m) = 1 .. Len(q) + 1 /\ Len(q) \in Nat
            /\ DOMAIN q = 1 .. Len(q)
            /\ \A k \in 1 .. Len(q) : Append(q, m)[k] = q[k]
            /\ Append(q, m)[Len(q) + 1] = m
        BY <2>1, <4>1
      <4>4. i \in 1 .. Len(q) \/ i = Len(q) + 1
        BY <4>2, <4>3
      <4>5. i \in 1 .. Len(q) => i \in DOMAIN q /\ registerMQ'[p][i] = q[i]
        BY <4>2, <4>3
      <4>6. i = Len(q) + 1 => registerMQ'[p][i] = m
        BY <4>2, <4>3
      <4> QED
        BY <4>4, <4>5, <4>6 DEF q
    <3> QED
      BY <2>2, <3>1, <3>2
  <2> QED
    BY <1>1, <1>4, <1>6, <2>3, <2>4 DEF LeftInv, QueueLeft, GoneForGood
<1>7. CASE ClientRequest(c)
  BY <1>6, <1>7 DEF ClientRequest, RegisterMessageType
<1>8. CASE ClientExitSend(c)
  <2>1. pc'[c] \in Gone
    BY <1>2, <1>8 DEF ClientExitSend, GoTo, Gone
  <2> QED
    BY <1>6, <1>8, <2>1 DEF ClientExitSend, RegisterMessageType
<1> QED
  BY <1>5, <1>7, <1>8
     DEF ClientStep, ClientStart, ClientConnect, ClientRequestTimeout,
         ClientSignal, ClientReceive, ClientGiveUp, ClientAck, ClientVisit,
         ClientVisitEnd, ClientLeave, ClientExitConnect, ClientExitSignal,
         ClientExitReceive, ClientBillTimeout, ClientBillAck, ClientCleanup

\* The cashier hands messages to blocked clients, and takes messages out.
LEMMA CashierKeepsLeft ==
  ASSUME TypeInv, LeftInv, CashierStep \/ CashierSigUsr1 \/ CashierSigTerm
  PROVE  LeftInv' /\ GoneForGood
<1>1. /\ registerMQ \in [{0, 1} -> Seq(RegisterMQMessage)]
      /\ Admitting \/ Billing => cur \in Clients
      /\ pc \in [Clients -> ClientPC]
  BY DEF TypeInv, TypeOK, HandledIsKnown
<1>2. GoneForGood
  <2>1. CASE CashierSendPermit
    BY <1>1, <2>1 DEF CashierSendPermit, GoneForGood, Gone
  <2>2. CASE CashierSendBill
    BY <1>1, <2>2 DEF CashierSendBill, GoneForGood, Gone
  <2>3. CASE UNCHANGED pc
    BY <2>3 DEF GoneForGood
  <2> QED
    BY <2>1, <2>2, <2>3
       DEF CashierStep, CashierClaim, CashierCreateQueue, CashierCheck,
           CashierWait, CashierReceiveTimeout, CashierReceiveEnter,
           CashierReceiveExit, CashierReceiveExitBill, CashierOpenBill,
           CashierBillAck, CashierServeEnd, CashierServe, CashierAdmit,
           CashierNoAck, CashierUnlink, CashierDeregister, CashierSigUsr1,
           CashierSigTerm
<1>3. \A p \in {0, 1} : \A i \in DOMAIN registerMQ[p] :
        registerMQ[p][i].senderPID \in Clients
  <2> SUFFICES ASSUME NEW p \in {0, 1}, NEW i \in DOMAIN registerMQ[p]
               PROVE  registerMQ[p][i].senderPID \in Clients
    OBVIOUS
  <2>1. registerMQ[p] \in Seq(RegisterMQMessage)
    BY <1>1
  <2>2. registerMQ[p][i] \in RegisterMQMessage
    BY <2>1
  <2> QED
    BY <2>2 DEF RegisterMQMessage
<1>4. CASE CashierReceiveEnter \/ CashierReceiveExit \/ CashierReceiveExitBill
  <2>1. /\ TopPriority \in {0, 1} /\ registerMQ[TopPriority] # <<>>
        /\ ReceiveRegister /\ UNCHANGED pc
    BY <1>1, <1>4, TopOfQueue
       DEF CashierReceiveEnter, CashierReceiveExit, CashierReceiveExitBill
  <2>2. QueueLeft'
    <3> SUFFICES ASSUME NEW p \in {0, 1}, NEW i \in DOMAIN registerMQ'[p]
                 PROVE  \E j \in DOMAIN registerMQ[p] :
                          registerMQ'[p][i] = registerMQ[p][j]
      BY <2>1 DEF LeftInv, QueueLeft
    <3>1. registerMQ[p] \in Seq(RegisterMQMessage)
      BY <1>1
    <3>2. CASE p = TopPriority
      <4>1. registerMQ'[p] = Tail(registerMQ[p]) /\ registerMQ[p] # <<>>
        BY <1>1, <2>1, <3>2 DEF ReceiveRegister
      <4>2. /\ i + 1 \in DOMAIN registerMQ[p]
            /\ registerMQ'[p][i] = registerMQ[p][i + 1]
        BY <3>1, <4>1
      <4> QED
        BY <4>2
    <3>3. CASE p # TopPriority
      BY <1>1, <2>1, <3>3 DEF ReceiveRegister
    <3> QED
      BY <3>2, <3>3
  <2>3. (Billing => pc[cur] \in Gone)'
    <3>1. CASE CashierReceiveExitBill
      <4>1. /\ 1 \in DOMAIN registerMQ[TopPriority]
            /\ TopMessage = registerMQ[TopPriority][1]
        BY <1>1, <2>1 DEF TopMessage
      <4> QED
        BY <2>1, <3>1, <4>1 DEF CashierReceiveExitBill, LeftInv, QueueLeft, Billing
    <3>2. CASE CashierReceiveEnter \/ CashierReceiveExit
      BY <3>2 DEF CashierReceiveEnter, CashierReceiveExit, Billing
    <3> QED
      BY <1>4, <3>1, <3>2
  <2> QED
    BY <1>2, <2>2, <2>3 DEF LeftInv
<1>5. CASE ~(CashierReceiveEnter \/ CashierReceiveExit \/ CashierReceiveExitBill)
  <2>1. UNCHANGED registerMQ /\ (Billing' => Billing /\ UNCHANGED cur)
    BY <1>5
       DEF CashierStep, CashierClaim, CashierCreateQueue, CashierCheck,
           CashierWait, CashierReceiveTimeout, CashierOpenBill,
           CashierSendBill, CashierBillAck, CashierServeEnd, CashierServe,
           CashierSendPermit, CashierAdmit, CashierNoAck, CashierUnlink,
           CashierDeregister, CashierSigUsr1, CashierSigTerm, Interrupt,
           FinishExit, FinishRequest, Billing
  <2> QED
    BY <1>1, <1>2, <1>3, <2>1 DEF LeftInv, QueueLeft, GoneForGood
<1> QED
  BY <1>2, <1>4, <1>5

\* LeftInv is inductive.
LEMMA LeftInvInductive ==
  /\ Init => LeftInv
  /\ TypeInv /\ LeftInv /\ [Next]_vars => LeftInv'
<1>1. Init => LeftInv
  BY DEF Init, LeftInv, QueueLeft, Billing
<1>2. TypeInv /\ LeftInv /\ [Next]_vars => LeftInv'
  <2> SUFFICES ASSUME TypeInv, LeftInv, [Next]_vars PROVE LeftInv'
    OBVIOUS
  <2>1. CASE UNCHANGED <<registerMQ, pc, cpc, cur>>
    BY <2>1 DEF LeftInv, QueueLeft, Billing
  <2>2. CASE MainSigint \/ MainClosing
    BY <2>1, <2>2
       DEF MainSigint, MainClosing, MainKillCashier, MainOpenSemaphores, MainEnd
  <2> QED
    BY <2>1, <2>2, ClientKeepsLeft, CashierKeepsLeft DEF Next, Ended, vars
<1> QED
  BY <1>1, <1>2

-----------------------------------------------------------------------------
(* The refinement *)

\* The variables of the promise, as Park has them.
Arrivals == {c \in Clients : enterMQ[c] = "ack"}

Place(at) == CASE at \in Gone                   -> "gone"
               [] at \in {"inPark", "visiting"} -> "inside"
               [] OTHER                         -> "outside"

Keeps == Promise!AdmissionNext \/ UNCHANGED Promise!avars

\* What the mapping makes of a client depends on its pc only.
LEMMA WhereIs ==
  /\ pc \in [Clients -> ClientPC] =>
       Whereabouts = [c \in Clients |-> Place(pc[c])]
  /\ pc' \in [Clients -> ClientPC] =>
       Whereabouts' = [c \in Clients |-> Place(pc'[c])]
BY DEF Whereabouts, Place, InPark, Entering, Gone, ClientPC

\* A step of one client, seen through the mapping.
LEMMA ClientRefines ==
  ASSUME TypeInv, NEW c \in Clients, ClientStep(c)
  PROVE  Keeps
<1>1. /\ pc \in [Clients -> ClientPC] /\ enterMQ \in [Clients -> Slot]
      /\ pc' \in [Clients -> ClientPC]
  BY ClientType DEF TypeInv, TypeOK
<1>2. UNCHANGED <<isOpen, m_clients>>
  BY DEF ClientStep, ClientStart, ClientConnect, ClientRequest,
         ClientRequestTimeout, ClientSignal, ClientReceive, ClientGiveUp,
         ClientAck, ClientVisit, ClientVisitEnd, ClientLeave,
         ClientExitConnect, ClientExitSend, ClientExitSignal,
         ClientExitReceive, ClientBillTimeout, ClientBillAck, ClientCleanup
<1>3. ASSUME NEW next, GoTo(c, next)
      PROVE  /\ Whereabouts' = [Whereabouts EXCEPT ![c] = Place(next)]
             /\ Whereabouts[c] = Place(pc[c])
  BY <1>1, <1>3, WhereIs DEF GoTo
<1> USE DEF Arrivals
<1>4. ASSUME NEW next, GoTo(c, next), Place(next) = Place(pc[c]),
             Arrivals' \in {Arrivals, Arrivals \ {c}}
      PROVE  Keeps
  <2>1. Whereabouts' = Whereabouts
    BY <1>1, <1>3, <1>4, WhereIs
  <2> QED
    BY <1>2, <1>4, <2>1
       DEF Keeps, Promise!AdmissionNext, Promise!avars, Promise!Miss
<1>5. ASSUME NEW next, GoTo(c, next), Place(pc[c]) = "outside",
             Place(next) = "gone", Arrivals' = Arrivals
      PROVE  Keeps
  BY <1>2, <1>3, <1>5 DEF Keeps, Promise!AdmissionNext, Promise!TurnAway
<1>6. CASE ClientStart(c)
  <2>1. pc[c] = "start" /\ Arrivals' = Arrivals
    BY <1>6 DEF ClientStart
  <2>2. CASE GoTo(c, "connect")
    BY <1>4, <2>1, <2>2 DEF Place, Gone
  <2>3. CASE GoTo(c, "done")
    BY <1>5, <2>1, <2>3 DEF Place, Gone
  <2> QED
    BY <1>6, <2>2, <2>3 DEF ClientStart
<1>7. CASE ClientConnect(c)
  <2>1. pc[c] = "connect" /\ Arrivals' = Arrivals
    BY <1>7 DEF ClientConnect
  <2>2. CASE GoTo(c, "request")
    BY <1>4, <2>1, <2>2 DEF Place, Gone
  <2>3. CASE GoTo(c, "cleanup")
    BY <1>5, <2>1, <2>3 DEF Place, Gone
  <2> QED
    BY <1>7, <2>2, <2>3 DEF ClientConnect
<1>8. CASE ClientRequest(c)
  BY <1>4, <1>8 DEF ClientRequest, Place, Gone
<1>9. CASE ClientRequestTimeout(c)
  BY <1>5, <1>9 DEF ClientRequestTimeout, Place, Gone
<1>10. CASE ClientSignal(c)
  BY <1>4, <1>10 DEF ClientSignal, Place, Gone
<1>11. CASE ClientReceive(c)
  <2>1. pc[c] = "receive" /\ Arrivals' = Arrivals \ {c}
    BY <1>1, <1>11 DEF ClientReceive
  <2>2. CASE enterMQ[c] = "refusal"
    <3>1. GoTo(c, "cleanup") /\ Arrivals' = Arrivals
      BY <1>11, <2>1, <2>2 DEF ClientReceive
    <3> QED
      BY <1>5, <2>1, <3>1 DEF Place, Gone
  <2>3. CASE enterMQ[c] # "refusal"
    <3>1. GoTo(c, "permitted") \/ GoTo(c, "blocked")
      BY <1>11, <2>3 DEF ClientReceive
    <3> QED
      BY <1>4, <2>1, <3>1 DEF Place, Gone
  <2> QED
    BY <2>2, <2>3
<1>12. CASE ClientGiveUp(c)
  BY <1>5, <1>12 DEF ClientGiveUp, Place, Gone
<1>13. CASE ClientAck(c)
  <2>1. /\ Place(pc[c]) = "outside"
        /\ GoTo(c, "inPark") /\ Place("inPark") = "inside"
        /\ Arrivals' \in {Arrivals \cup {c}, Arrivals \ {c}}
    BY <1>1, <1>13 DEF ClientAck, IfHeld, Place, Gone
  <2> QED
    BY <1>2, <1>3, <2>1 DEF Keeps, Promise!AdmissionNext, Promise!Enter
<1>14. CASE ClientVisit(c)
  BY <1>4, <1>14 DEF ClientVisit, Place, Gone
<1>15. CASE ClientVisitEnd(c)
  BY <1>4, <1>15 DEF ClientVisitEnd, Place, Gone
<1>16. CASE ClientLeave(c)
  <2>1. /\ Place(pc[c]) = "inside"
        /\ GoTo(c, "exitConnect") /\ Place("exitConnect") = "gone"
        /\ Arrivals' = Arrivals
    BY <1>16 DEF ClientLeave, Place, Gone
  <2> QED
    BY <1>2, <1>3, <2>1 DEF Keeps, Promise!AdmissionNext, Promise!Leave
<1>17. CASE \/ ClientExitConnect(c) \/ ClientExitSend(c) \/ ClientExitSignal(c)
            \/ ClientExitReceive(c) \/ ClientBillTimeout(c)
            \/ ClientBillAck(c) \/ ClientCleanup(c)
  <2>1. /\ pc[c] \in Gone
        /\ \E next : GoTo(c, next)
        /\ Arrivals' \in {Arrivals, Arrivals \ {c}}
    BY <1>1, <1>17
       DEF ClientExitConnect, ClientExitSend, ClientExitSignal,
           ClientExitReceive, ClientBillTimeout, ClientBillAck, ClientCleanup,
           IfHeld, Gone
  <2>2. PICK next : GoTo(c, next)
    BY <2>1
  <2>3. next = pc'[c] /\ pc'[c] \in Gone
    BY <1>1, <2>1, <2>2, ClientGone DEF GoTo, GoneForGood
  <2>4. Place(next) = "gone" /\ Place(pc[c]) = "gone"
    BY <2>1, <2>3 DEF Place, Gone
  <2> QED
    BY <1>4, <2>1, <2>2, <2>4
<1> QED
  BY <1>6, <1>7, <1>8, <1>9, <1>10, <1>11, <1>12, <1>13, <1>14, <1>15, <1>16, <1>17
     DEF ClientStep

\* A step of the cashier, seen through the mapping.
LEMMA CashierRefines ==
  ASSUME TypeInv, TypeInv', LeftInv, CapacityRespected',
         CashierStep \/ CashierSigUsr1 \/ CashierSigTerm
  PROVE  Keeps
<1>1. /\ pc \in [Clients -> ClientPC] /\ enterMQ \in [Clients -> Slot]
      /\ pc' \in [Clients -> ClientPC]
      /\ Admitting \/ Billing => cur \in Clients
      /\ UNCHANGED isOpen
  BY DEF TypeInv, TypeOK, HandledIsKnown, CashierStep, CashierClaim,
         CashierCreateQueue, CashierCheck, CashierWait, CashierReceiveTimeout,
         CashierReceiveEnter, CashierReceiveExit, CashierReceiveExitBill,
         CashierOpenBill, CashierSendBill, CashierBillAck, CashierServeEnd,
         CashierServe, CashierSendPermit, CashierAdmit, CashierNoAck,
         CashierUnlink, CashierDeregister, CashierSigUsr1, CashierSigTerm
<1>2. UNCHANGED pc => UNCHANGED Whereabouts
  BY <1>1, WhereIs
<1> USE DEF Keeps, Promise!AdmissionNext, Promise!avars, Arrivals
<1>3. ASSUME NEW c \in Clients, pc[c] \in Gone, RemoveClient(c),
             UNCHANGED <<pc, enterMQ>>
      PROVE  Keeps
  <2>1. Whereabouts[c] = "gone"
    BY <1>1, <1>3, WhereIs DEF Place, Gone
  <2> QED
    BY <1>1, <1>2, <1>3, <2>1 DEF Promise!Forget, RemoveClient
<1>4. CASE CashierReceiveExit
  <2>1. /\ TopPriority \in {0, 1} /\ registerMQ[TopPriority] # <<>>
        /\ registerMQ \in [{0, 1} -> Seq(RegisterMQMessage)]
        /\ TopMessage.senderPID \in Clients
    BY <1>4, TopOfQueue DEF CashierReceiveExit, TypeInv, TypeOK
  <2>2. /\ 1 \in DOMAIN registerMQ[TopPriority]
        /\ TopMessage = registerMQ[TopPriority][1]
    BY <2>1 DEF TopMessage
  <2>3. pc[TopMessage.senderPID] \in Gone
    BY <1>4, <2>1, <2>2 DEF CashierReceiveExit, LeftInv, QueueLeft
  <2> QED
    BY <1>3, <1>4, <2>1, <2>3 DEF CashierReceiveExit
<1>5. CASE CashierOpenBill
  <2>1. cur \in Clients /\ pc[cur] \in Gone /\ UNCHANGED <<pc, enterMQ>>
    BY <1>1, <1>5 DEF CashierOpenBill, LeftInv, Billing
  <2>2. CASE linked[cur] = "exit"
    BY <1>1, <1>2, <1>5, <2>1, <2>2 DEF CashierOpenBill
  <2>3. CASE linked[cur] # "exit"
    BY <1>3, <1>5, <2>1, <2>3 DEF CashierOpenBill, FinishExit
  <2> QED
    BY <2>2, <2>3
<1>6. CASE CashierBillAck
  <2>1. cur \in Clients /\ pc[cur] \in Gone /\ UNCHANGED <<pc, enterMQ>>
    BY <1>1, <1>6 DEF CashierBillAck, LeftInv, Billing
  <2> QED
    BY <1>3, <1>6, <2>1 DEF CashierBillAck, FinishExit
<1>7. CASE CashierSendBill
  <2>1. UNCHANGED Whereabouts
    BY <1>1, <1>7, WhereIs DEF CashierSendBill, Place, Gone
  <2> QED
    BY <1>1, <1>7, <2>1 DEF CashierSendBill
<1>8. CASE CashierSendPermit
  <2>1. cur \in Clients /\ UNCHANGED m_clients
    BY <1>1, <1>8 DEF CashierSendPermit, Admitting
  <2>2. Arrivals' \in {Arrivals, Arrivals \ {cur}}
    BY <1>1, <1>8, <2>1 DEF CashierSendPermit
  <2>3. CASE pc[cur] = "blocked"
    <3>1. /\ UNCHANGED enterMQ
          /\ pc' = [pc EXCEPT ![cur] = IF allowed THEN "permitted" ELSE "cleanup"]
      BY <1>8, <2>3 DEF CashierSendPermit
    <3>2. CASE allowed
      <4>1. UNCHANGED Whereabouts
        BY <1>1, <2>1, <2>3, <3>1, <3>2, WhereIs DEF Place, Gone
      <4> QED
        BY <1>1, <2>1, <3>1, <4>1
    <3>3. CASE ~allowed
      <4>1. /\ Whereabouts' = [Whereabouts EXCEPT ![cur] = "gone"]
            /\ Whereabouts[cur] = "outside"
        BY <1>1, <2>1, <2>3, <3>1, <3>3, WhereIs DEF Place, Gone
      <4> QED
        BY <1>1, <2>1, <3>1, <4>1 DEF Promise!TurnAway
    <3> QED
      BY <3>2, <3>3
  <2>4. CASE pc[cur] # "blocked"
    BY <1>1, <1>2, <1>8, <2>1, <2>2, <2>4 DEF CashierSendPermit, Promise!Miss
  <2> QED
    BY <2>3, <2>4
<1>9. CASE CashierAdmit
  <2>1. /\ cur \in Arrivals /\ m_clients' = m_clients \cup {cur}
        /\ Arrivals' = Arrivals \ {cur} /\ UNCHANGED pc
    BY <1>1, <1>9 DEF CashierAdmit, RegisterClient, Admitting
  <2>2. Promise!AdmissionOccupancy(m_clients') <= ParkSize
    <3>1. Occupancy(m_clients)' = Promise!AdmissionOccupancy(m_clients')
      BY DEF Occupancy, Promise!AdmissionOccupancy, Cardinality,
             Promise!Cardinality
    <3> QED
      BY <3>1 DEF CapacityRespected
  <2> QED
    BY <1>1, <1>2, <2>1, <2>2 DEF Promise!Note
<1>10. CASE CashierNoAck
  BY <1>1, <1>2, <1>10 DEF CashierNoAck, Admitting
<1>11. CASE CashierSigTerm
  BY <1>1, <1>2, <1>11 DEF CashierSigTerm, Promise!ForgetAll
<1>12. CASE \/ CashierClaim \/ CashierCreateQueue \/ CashierCheck
            \/ CashierWait \/ CashierReceiveTimeout \/ CashierReceiveEnter
            \/ CashierReceiveExitBill \/ CashierServeEnd \/ CashierServe
            \/ CashierUnlink \/ CashierDeregister \/ CashierSigUsr1
  <2>1. UNCHANGED <<pc, enterMQ, m_clients>>
    BY <1>12
       DEF CashierClaim, CashierCreateQueue, CashierCheck, CashierWait,
           CashierReceiveTimeout, CashierReceiveEnter, CashierReceiveExitBill,
           CashierServeEnd, CashierServe, CashierUnlink, CashierDeregister,
           CashierSigUsr1
  <2> QED
    BY <1>1, <1>2, <2>1
<1> QED
  BY <1>4, <1>5, <1>6, <1>7, <1>8, <1>9, <1>10, <1>11, <1>12 DEF CashierStep

\* Park implements Admission: for any set of clients and any size of the park,
\* whatever messages, timeouts and signals interleave, the cashier registers a
\* client only by the ACK it sent when it entered, within the capacity, and
\* forgets it only after it left or by SIGTERM in a closed park.
THEOREM ParkImplementsAdmission == Spec => KeepsPromise
<1>1. Init => Promise!AdmissionInit
  BY DEF Init, Promise!AdmissionInit, Whereabouts, InPark, Entering
<1>2. TypeInv /\ TypeInv' /\ CapacityRespected' /\ LeftInv /\ [Next]_vars
        => [Promise!AdmissionNext]_(Promise!avars)
  <2> SUFFICES ASSUME TypeInv, TypeInv', CapacityRespected', LeftInv,
                      [Next]_vars
               PROVE  Keeps
    BY DEF Keeps
  <2>1. CASE /\ UNCHANGED <<pc, enterMQ, m_clients>>
             /\ UNCHANGED isOpen \/ (isOpen /\ ~isOpen')
    <3>1. UNCHANGED <<Whereabouts, Arrivals>>
      BY <2>1, WhereIs DEF TypeInv, TypeOK, Arrivals
    <3>2. CASE UNCHANGED isOpen
      BY <2>1, <3>1, <3>2 DEF Keeps, Promise!avars, Arrivals
    <3>3. CASE isOpen /\ ~isOpen'
      BY <2>1, <3>1, <3>3 DEF TypeInv, TypeOK, Keeps, Promise!AdmissionNext,
                              Promise!CloseDown, Arrivals
    <3> QED
      BY <2>1, <3>2, <3>3
  <2>2. CASE MainSigint \/ MainClosing
    BY <2>1, <2>2
       DEF TypeInv, TypeOK, MainSigint, MainClosing, MainKillCashier,
           MainOpenSemaphores, MainEnd
  <2> QED
    BY <2>1, <2>2, ClientRefines, CashierRefines DEF Next, Ended, vars
<1> QED
  BY <1>1, <1>2, TypeInvInductive, CapacityAlwaysRespected, LeftInvInductive, PTL
     DEF Spec, KeepsPromise, Promise!AdmissionSpec
=============================================================================
