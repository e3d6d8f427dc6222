--------------------------- MODULE ExchangeProofs ---------------------------
(***************************************************************************)
(* The exchanges of the cashier with one client.  A client asks once and   *)
(* leaves once, so every message in a queue and every entry of the         *)
(* cashier's books belongs to the exchange it was meant for (ExchangeInv). *)
(* From it: the reply queues are never full, the counter is right, and     *)
(* nobody stays registered after leaving.  At the end, whose turn it is.   *)
(***************************************************************************)
EXTENDS AdmissionProofs, QueueTheorems

USE DEF mainVars, ipcVars, cashierVars, clientVars

Enter(c) == [senderPID |-> c, mType |-> "ENTER_PARK"]
Exit(c) == [senderPID |-> c, mType |-> "EXIT_PARK"]

\* The queues in which a message and a request of c may wait.
MessagesOf(c) == registerMQ[Priority(c)]
RequestsOf(c) == IF c \in Vips THEN m_enterVipQueue ELSE m_enterQueue

Asks(c) == Holds(MessagesOf(c), Enter(c))
Exits(c) == Holds(MessagesOf(c), Exit(c))
Waits(c) == Holds(RequestsOf(c), c)

AskOnce(c) == Once(MessagesOf(c), Enter(c))
ExitOnce(c) == Once(MessagesOf(c), Exit(c))
WaitOnce(c) == Once(RequestsOf(c), c)

\* c has asked and the cashier has sent no answer.
Unanswered(c) == Asks(c) \/ (Waits(c) /\ ~(cpc = "permitAck" /\ cur = c))

\* The cashier will still send a bill to c, or is handling the exit of c.
BillDue(c) == Exits(c) \/ (cpc \in {"openBill", "bill"} /\ cur = c)
Leaving(c) == Exits(c) \/ (Billing /\ cur = c)

BeforeAsking == {"start", "connect", "request"}
Asking == {"signal", "receive", "blocked", "cleanup", "done"}
BeforeExit == BeforeAsking \cup {"signal", "receive", "blocked", "permitted",
                                 "inPark", "visiting", "exitConnect", "exitSend"}
AfterExit == {"exitSignal", "exitReceive", "exitBlocked", "billed", "cleanup",
              "done", "crashed"}

\* c asks at most once, and it is registered only after that.
AsksOnce(c) ==
  /\ AskOnce(c) /\ WaitOnce(c)
  /\ ~(Asks(c) /\ Waits(c))
  /\ Asks(c) \/ Waits(c) => c \notin m_clients
  /\ pc[c] \in BeforeAsking => ~Asks(c) /\ ~Waits(c) /\ c \notin m_clients

\* Nothing is in the queue for entering before the answer, and no permit once
\* the client read it; an ACK is there only for the cashier that waits for it.
EntrySlot(c) ==
  /\ Unanswered(c) => enterMQ[c] = "empty" /\ pc[c] \in Asking
  /\ pc[c] \in BeforeAsking \cup {"permitted"} => enterMQ[c] = "empty"
  /\ enterMQ[c] = "ack" => cpc = "permitAck" /\ cur = c

\* c leaves once; nothing is in the queue for leaving before the bill.
ExitSlot(c) ==
  /\ ExitOnce(c)
  /\ Billing /\ cur = c => ~Exits(c)
  /\ Leaving(c) => pc[c] \in AfterExit
  /\ BillDue(c) => exitMQ[c] = "empty" /\ pc[c] # "billed"
  /\ pc[c] \in BeforeExit \cup {"billed"} => exitMQ[c] = "empty"

Books(c) == AsksOnce(c) /\ EntrySlot(c) /\ ExitSlot(c)

\* Messages wait in the queue of their sender's priority.
Sorted ==
  \A p \in {0, 1} : \A i \in DOMAIN registerMQ[p] :
    Priority(registerMQ[p][i].senderPID) = p

\* The request being handled is the first of its queue.
InHand ==
  /\ Admitting => Head(RequestsOf(cur)) = cur
  /\ cur # NoClient => Admitting \/ Billing

ExchangeInv == Sorted /\ InHand /\ \A c \in Clients : Books(c)

-----------------------------------------------------------------------------
(* What sending and receiving do to the messages and requests of a client *)

\* Where the messages and the requests of a client wait.
LEMMA QueuesOf ==
  ASSUME TypeInv, NEW c \in Clients
  PROVE  /\ Priority(c) \in {0, 1}
         /\ MessagesOf(c) \in Seq(RegisterMQMessage)
         /\ RequestsOf(c) \in Seq(Clients)
         /\ Enter(c) \in RegisterMQMessage /\ Exit(c) \in RegisterMQMessage
<1>1. Priority(c) \in {0, 1}
  BY DEF Priority
<1>2. registerMQ \in [{0, 1} -> Seq(RegisterMQMessage)]
  BY DEF TypeInv, TypeOK
<1>3. RequestsOf(c) \in Seq(Clients)
  <2>1. /\ m_enterVipQueue \in Seq(Vips) /\ m_enterQueue \in Seq(Clients \ Vips)
        /\ Vips \subseteq Clients
    BY ParkAssumption DEF TypeInv, TypeOK
  <2>2. m_enterVipQueue \in Seq(Clients) /\ m_enterQueue \in Seq(Clients)
    BY <2>1
  <2> QED
    BY <2>2 DEF RequestsOf
<1>4. Enter(c) \in RegisterMQMessage /\ Exit(c) \in RegisterMQMessage
  BY DEF Enter, Exit, RegisterMQMessage, RegisterMessageType
<1> QED
  BY <1>1, <1>2, <1>3, <1>4 DEF MessagesOf

\* Different clients and different kinds of messages are different messages.
LEMMA MessagesDiffer ==
  ASSUME NEW c, NEW d
  PROVE  /\ Enter(c) # Exit(d)
         /\ Enter(c) = Enter(d) <=> c = d
         /\ Exit(c) = Exit(d) <=> c = d
<1>1. Enter(c).mType = "ENTER_PARK" /\ Exit(d).mType = "EXIT_PARK"
  BY DEF Enter, Exit
<1>2. Enter(c).senderPID = c /\ Enter(d).senderPID = d
  BY DEF Enter
<1>3. Exit(c).senderPID = c /\ Exit(d).senderPID = d
  BY DEF Exit
<1> QED
  BY <1>1, <1>2, <1>3 DEF Enter, Exit

\* A message is ENTER_PARK or EXIT_PARK of its sender.
LEMMA MessageIs ==
  ASSUME NEW m \in RegisterMQMessage
  PROVE  /\ m.mType = "ENTER_PARK" => m = Enter(m.senderPID)
         /\ m.mType = "EXIT_PARK" => m = Exit(m.senderPID)
         /\ m.mType \in {"ENTER_PARK", "EXIT_PARK"}
BY DEF RegisterMQMessage, RegisterMessageType, Enter, Exit

\* c sends m, which it has not sent before.
LEMMA SendEffect ==
  ASSUME TypeInv, Sorted, NEW c \in Clients, NEW type \in RegisterMessageType,
         SendRegister(c, type)
  PROVE  /\ Sorted'
         /\ \A d \in Clients :
              \A m \in {Enter(d), Exit(d)} :
                LET sent == m = [senderPID |-> c, mType |-> type] IN
                  /\ Holds(MessagesOf(d), m)' <=> Holds(MessagesOf(d), m) \/ sent
                  /\ Once(MessagesOf(d), m) /\ (sent => ~Holds(MessagesOf(d), m))
                       => Once(MessagesOf(d), m)'
<1> DEFINE new == [senderPID |-> c, mType |-> type]
<1>1. new \in RegisterMQMessage /\ Priority(c) \in {0, 1}
  BY QueuesOf DEF RegisterMQMessage
<1>2. /\ registerMQ \in [{0, 1} -> Seq(RegisterMQMessage)]
      /\ registerMQ' = [registerMQ EXCEPT ![Priority(c)] = Append(@, new)]
  BY DEF TypeInv, TypeOK, SendRegister
<1>3. Sorted'
  <2> SUFFICES ASSUME NEW p \in {0, 1}, NEW i \in DOMAIN registerMQ'[p]
               PROVE  Priority(registerMQ'[p][i].senderPID) = p
    BY DEF Sorted, Priority
  <2>1. CASE p # Priority(c)
    BY <1>2, <2>1 DEF Sorted
  <2>2. CASE p = Priority(c)
    <3>1. registerMQ'[p] = Append(registerMQ[p], new)
      BY <1>2, <2>2
    <3>2. registerMQ[p] \in Seq(RegisterMQMessage)
      BY <1>2
    <3> HIDE DEF new
    <3>3. CASE i \in DOMAIN registerMQ[p]
      <4>1. registerMQ'[p][i] = registerMQ[p][i]
        BY <1>1, <3>1, <3>2, <3>3
      <4> QED
        BY <3>3, <4>1 DEF Sorted
    <3>4. CASE i \notin DOMAIN registerMQ[p]
      <4>1. registerMQ'[p][i] = new
        BY <1>1, <3>1, <3>2, <3>4
      <4> QED
        BY <2>2, <4>1 DEF new
    <3> QED
      BY <3>3, <3>4
  <2> QED
    BY <2>1, <2>2
<1>4. ASSUME NEW d \in Clients, NEW m \in {Enter(d), Exit(d)}
      PROVE  /\ Holds(MessagesOf(d), m)' <=> Holds(MessagesOf(d), m) \/ m = new
             /\ Once(MessagesOf(d), m) /\ (m = new => ~Holds(MessagesOf(d), m))
                  => Once(MessagesOf(d), m)'
  <2>1. MessagesOf(d) \in Seq(RegisterMQMessage) /\ Priority(d) \in {0, 1}
    BY QueuesOf
  <2>2. CASE Priority(d) = Priority(c)
    <3>1. MessagesOf(d)' = Append(MessagesOf(d), new)
      BY <1>2, <2>1, <2>2 DEF MessagesOf, Priority
    <3> HIDE DEF new
    <3>2. Holds(MessagesOf(d)', m) <=> Holds(MessagesOf(d), m) \/ m = new
      BY <1>1, <2>1, <3>1, AppendHolds
    <3>3. Once(MessagesOf(d), m) /\ (m = new => ~Holds(MessagesOf(d), m))
            => Once(MessagesOf(d)', m)
      BY <1>1, <2>1, <3>1, AppendOnce
    <3> QED
      BY <3>2, <3>3 DEF Holds, Once
  <2>3. CASE Priority(d) # Priority(c)
    <3>1. MessagesOf(d)' = MessagesOf(d)
      BY <1>2, <2>1, <2>3 DEF MessagesOf, Priority
    <3>2. m # new
      BY <2>3 DEF Enter, Exit
    <3> QED
      BY <3>1, <3>2 DEF Holds, Once
  <2> QED
    BY <2>2, <2>3
<1> QED
  BY <1>3, <1>4

\* The cashier takes the first message of the queue, and nothing else.
LEMMA ReceiveEffect ==
  ASSUME TypeInv, Sorted, MessageCount > 0, ReceiveRegister
  PROVE  /\ Sorted'
         /\ \A d \in Clients :
              \A m \in {Enter(d), Exit(d)} :
                /\ Holds(MessagesOf(d), m)' => Holds(MessagesOf(d), m)
                /\ Holds(MessagesOf(d), m) /\ m # TopMessage
                     => Holds(MessagesOf(d), m)'
                /\ m = TopMessage => Holds(MessagesOf(d), m)
                /\ Once(MessagesOf(d), m)
                     => /\ Once(MessagesOf(d), m)'
                        /\ m = TopMessage => ~Holds(MessagesOf(d), m)'
<1> DEFINE top == TopPriority
<1>1. /\ top \in {0, 1} /\ registerMQ[top] # <<>>
      /\ registerMQ \in [{0, 1} -> Seq(RegisterMQMessage)]
      /\ registerMQ' = [registerMQ EXCEPT ![top] = Tail(@)]
      /\ TopMessage = Head(registerMQ[top])
  BY TopOfQueue DEF TypeInv, TypeOK, ReceiveRegister, TopMessage
<1> HIDE DEF top
<1>2. Sorted'
  <2> SUFFICES ASSUME NEW p \in {0, 1}, NEW i \in DOMAIN registerMQ'[p]
               PROVE  Priority(registerMQ'[p][i].senderPID) = p
    BY DEF Sorted, Priority
  <2>1. CASE p # top
    BY <1>1, <2>1 DEF Sorted
  <2>2. CASE p = top
    <3>1. /\ registerMQ'[p] = Tail(registerMQ[p]) /\ registerMQ[p] # <<>>
          /\ registerMQ[p] \in Seq(RegisterMQMessage)
      BY <1>1, <2>2
    <3>2. /\ i + 1 \in DOMAIN registerMQ[p]
          /\ registerMQ'[p][i] = registerMQ[p][i + 1]
      BY <3>1
    <3> QED
      BY <3>2 DEF Sorted
  <2> QED
    BY <2>1, <2>2
<1>3. Priority(TopMessage.senderPID) = top
  <2>1. /\ 1 \in DOMAIN registerMQ[top] /\ TopMessage = registerMQ[top][1]
    BY <1>1
  <2> QED
    BY <1>1, <2>1 DEF Sorted
<1>4. ASSUME NEW d \in Clients, NEW m \in {Enter(d), Exit(d)}
      PROVE  /\ Holds(MessagesOf(d), m)' => Holds(MessagesOf(d), m)
             /\ Holds(MessagesOf(d), m) /\ m # TopMessage
                  => Holds(MessagesOf(d), m)'
             /\ m = TopMessage => Holds(MessagesOf(d), m)
             /\ Once(MessagesOf(d), m)
                  => /\ Once(MessagesOf(d), m)'
                     /\ m = TopMessage => ~Holds(MessagesOf(d), m)'
  <2>1. MessagesOf(d) \in Seq(RegisterMQMessage) /\ Priority(d) \in {0, 1}
    BY QueuesOf
  <2>2. CASE Priority(d) = top
    <3>1. /\ MessagesOf(d)' = Tail(MessagesOf(d)) /\ MessagesOf(d) # <<>>
          /\ TopMessage = Head(MessagesOf(d))
      BY <1>1, <2>1, <2>2 DEF MessagesOf, Priority
    <3>2. /\ Holds(MessagesOf(d)', m) => Holds(MessagesOf(d), m)
          /\ Holds(MessagesOf(d), m) /\ m # TopMessage
               => Holds(MessagesOf(d)', m)
      BY <2>1, <3>1, TailHolds
    <3>3. m = TopMessage => Holds(MessagesOf(d), m)
      BY <2>1, <3>1, HeadHeld
    <3>4. Once(MessagesOf(d), m)
            => /\ Once(MessagesOf(d)', m)
               /\ m = TopMessage => ~Holds(MessagesOf(d)', m)
      BY <2>1, <3>1, TailOnce
    <3> QED
      BY <3>2, <3>3, <3>4 DEF Holds, Once
  <2>3. CASE Priority(d) # top
    <3>1. MessagesOf(d)' = MessagesOf(d)
      BY <1>1, <2>1, <2>3 DEF MessagesOf, Priority
    <3>2. m # TopMessage
      <4>1. m.senderPID = d
        BY DEF Enter, Exit
      <4> QED
        BY <1>3, <2>3, <4>1
    <3> QED
      BY <3>1, <3>2 DEF Holds, Once
  <2> QED
    BY <2>2, <2>3
<1> QED
  BY <1>2, <1>4

\* The cashier sorts in the request of c, which was not waiting.
LEMMA RequestEffect ==
  ASSUME TypeInv, NEW c \in Clients,
         IF c \in Vips
         THEN /\ m_enterVipQueue' = Append(m_enterVipQueue, c)
              /\ UNCHANGED m_enterQueue
         ELSE /\ m_enterQueue' = Append(m_enterQueue, c)
              /\ UNCHANGED m_enterVipQueue
  PROVE  \A d \in Clients :
           /\ Waits(d)' <=> Waits(d) \/ d = c
           /\ WaitOnce(d) /\ (d = c => ~Waits(d)) => WaitOnce(d)'
<1> SUFFICES ASSUME NEW d \in Clients
             PROVE  /\ Waits(d)' <=> Waits(d) \/ d = c
                    /\ WaitOnce(d) /\ (d = c => ~Waits(d)) => WaitOnce(d)'
  OBVIOUS
<1>1. RequestsOf(d) \in Seq(Clients)
  BY QueuesOf
<1>2. CASE c \in Vips <=> d \in Vips
  <2>1. RequestsOf(d)' = Append(RequestsOf(d), c)
    BY <1>2 DEF RequestsOf
  <2>2. Holds(RequestsOf(d)', d) <=> Holds(RequestsOf(d), d) \/ d = c
    BY <1>1, <2>1, AppendHolds
  <2>3. Once(RequestsOf(d), d) /\ (d = c => ~Holds(RequestsOf(d), d))
          => Once(RequestsOf(d)', d)
    BY <1>1, <2>1, AppendOnce
  <2> QED
    BY <2>2, <2>3 DEF Waits, WaitOnce, Holds, Once
<1>3. CASE ~(c \in Vips <=> d \in Vips)
  <2>1. RequestsOf(d)' = RequestsOf(d) /\ d # c
    BY <1>3 DEF RequestsOf
  <2> QED
    BY <2>1 DEF Waits, WaitOnce, Holds, Once
<1> QED
  BY <1>2, <1>3

\* The request the cashier takes up next heads its queue.
LEMMA NextIsHead ==
  ASSUME TypeInv, m_enterVipQueue # <<>> \/ m_enterQueue # <<>>
  PROVE  /\ NextRequest \in Clients /\ RequestsOf(NextRequest) # <<>>
         /\ Head(RequestsOf(NextRequest)) = NextRequest
<1>1. m_enterVipQueue # <<>> => Head(m_enterVipQueue) \in Vips
  BY DEF TypeInv, TypeOK
<1>2. m_enterQueue # <<>> => Head(m_enterQueue) \in Clients \ Vips
  BY DEF TypeInv, TypeOK
<1> QED
  BY <1>1, <1>2, ParkAssumption DEF NextRequest, RequestsOf

\* The cashier drops the request of c, the first of its queue.
LEMMA EraseEffect ==
  ASSUME TypeInv, NEW c \in Clients, RequestsOf(c) # <<>>,
         Head(RequestsOf(c)) = c, EraseRequest(c)
  PROVE  /\ Waits(c)
         /\ \A d \in Clients :
              /\ Waits(d)' => Waits(d)
              /\ Waits(d) /\ d # c => Waits(d)'
              /\ WaitOnce(d) => WaitOnce(d)' /\ (d = c => ~Waits(d)')
<1>1. Waits(c)
  BY QueuesOf, HeadHeld DEF Waits
<1>2. ASSUME NEW d \in Clients
      PROVE  /\ Waits(d)' => Waits(d)
             /\ Waits(d) /\ d # c => Waits(d)'
             /\ WaitOnce(d) => WaitOnce(d)' /\ (d = c => ~Waits(d)')
  <2>1. RequestsOf(d) \in Seq(Clients)
    BY QueuesOf
  <2>2. CASE c \in Vips <=> d \in Vips
    <3>1. /\ RequestsOf(d)' = Tail(RequestsOf(d)) /\ RequestsOf(d) # <<>>
          /\ Head(RequestsOf(d)) = c
      BY <2>2 DEF RequestsOf, EraseRequest
    <3>2. /\ Holds(RequestsOf(d)', d) => Holds(RequestsOf(d), d)
          /\ Holds(RequestsOf(d), d) /\ d # c => Holds(RequestsOf(d)', d)
      BY <2>1, <3>1, TailHolds
    <3>3. Once(RequestsOf(d), d)
            => Once(RequestsOf(d)', d) /\ (d = c => ~Holds(RequestsOf(d)', d))
      BY <2>1, <3>1, TailOnce
    <3> QED
      BY <3>2, <3>3 DEF Waits, WaitOnce, Holds, Once
  <2>3. CASE ~(c \in Vips <=> d \in Vips)
    <3>1. RequestsOf(d)' = RequestsOf(d) /\ d # c
      BY <2>3 DEF RequestsOf, EraseRequest
    <3> QED
      BY <3>1 DEF Waits, WaitOnce, Holds, Once
  <2> QED
    BY <2>2, <2>3
<1> QED
  BY <1>1, <1>2

-----------------------------------------------------------------------------
(* ExchangeInv is inductive *)

\* A step does not concern d: nothing of d changes, but that messages and
\* requests of d may be taken away.
Bystander(d) ==
  /\ pc'[d] = pc[d] /\ enterMQ'[d] = enterMQ[d] /\ exitMQ'[d] = exitMQ[d]
  /\ Asks(d)' => Asks(d)
  /\ Exits(d)' => Exits(d)
  /\ Waits(d)' => Waits(d)
  /\ AskOnce(d) => AskOnce(d)'
  /\ ExitOnce(d) => ExitOnce(d)'
  /\ WaitOnce(d) => WaitOnce(d)'
  /\ d \in m_clients' => d \in m_clients
  /\ UNCHANGED <<cpc, cur>> \/ (cur # d /\ cur' # d)

LEMMA BystanderKeepsBooks ==
  ASSUME NEW d \in Clients, Books(d), Bystander(d)
  PROVE  Books(d)'
<1>1. /\ Unanswered(d)' => Unanswered(d)
      /\ BillDue(d)' => BillDue(d)
      /\ Leaving(d)' => Leaving(d)
      /\ (Billing /\ cur = d)' => Billing /\ cur = d
      /\ cpc = "permitAck" /\ cur = d => (cpc = "permitAck" /\ cur = d)'
  BY DEF Bystander, Unanswered, BillDue, Leaving, Billing
<1>2. AsksOnce(d)'
  BY DEF Books, AsksOnce, Bystander
<1>3. EntrySlot(d)'
  BY <1>1 DEF Books, EntrySlot, Bystander
<1>4. ExitSlot(d)'
  BY <1>1 DEF Books, ExitSlot, Bystander
<1> QED
  BY <1>2, <1>3, <1>4 DEF Books

\* What depends on the register queue and on the two request queues only.
LEMMA MessagesKept ==
  ASSUME UNCHANGED registerMQ
  PROVE  /\ Sorted' <=> Sorted
         /\ \A d : /\ Asks(d)' <=> Asks(d)
                   /\ Exits(d)' <=> Exits(d)
                   /\ AskOnce(d)' <=> AskOnce(d)
                   /\ ExitOnce(d)' <=> ExitOnce(d)
BY DEF Sorted, Priority, Asks, Exits, AskOnce, ExitOnce, MessagesOf, Holds, Once,
       Enter, Exit

LEMMA RequestsKept ==
  ASSUME UNCHANGED <<m_enterVipQueue, m_enterQueue>>
  PROVE  \A d : /\ RequestsOf(d)' = RequestsOf(d)
                /\ Waits(d)' <=> Waits(d)
                /\ WaitOnce(d)' <=> WaitOnce(d)
BY DEF RequestsOf, Waits, WaitOnce, Holds, Once

\* A client's step keeps the books of that client.
LEMMA ClientKeepsOwnBooks ==
  ASSUME TypeInv, ExchangeInv, NEW c \in Clients, ClientStep(c)
  PROVE  Books(c)'
<1>1. /\ Books(c) /\ InHand /\ Sorted
      /\ pc[c] \in ClientPC
      /\ pc \in [Clients -> ClientPC] /\ enterMQ \in [Clients -> Slot]
      /\ exitMQ \in [Clients -> Slot]
      /\ cur = c => cur # NoClient
  BY ParkAssumption DEF ExchangeInv, TypeInv, TypeOK
<1>2. /\ UNCHANGED cashierVars
      /\ Waits(c)' <=> Waits(c)
      /\ WaitOnce(c)' <=> WaitOnce(c)
  BY ClientGone, RequestsKept
<1>3. /\ Admitting /\ cur = c => Waits(c)
      /\ Billing' <=> Billing
  <2>1. ASSUME Admitting, cur = c PROVE RequestsOf(c) # <<>> /\ Head(RequestsOf(c)) = c
    BY <1>1, <2>1 DEF TypeInv, HandledIsKnown, InHand, RequestsOf
  <2>2. ASSUME Admitting, cur = c PROVE Waits(c)
    BY <2>1, <2>2, QueuesOf, HeadHeld DEF Waits
  <2> QED
    BY <1>2, <2>2 DEF Billing
<1>4. ASSUME UNCHANGED registerMQ
      PROVE  /\ Asks(c)' <=> Asks(c)
             /\ Exits(c)' <=> Exits(c)
             /\ AskOnce(c)' <=> AskOnce(c)
             /\ ExitOnce(c)' <=> ExitOnce(c)
             /\ Unanswered(c)' <=> Unanswered(c)
             /\ BillDue(c)' <=> BillDue(c)
             /\ Leaving(c)' <=> Leaving(c)
  <2>1. /\ Asks(c)' <=> Asks(c)
        /\ Exits(c)' <=> Exits(c)
        /\ AskOnce(c)' <=> AskOnce(c)
        /\ ExitOnce(c)' <=> ExitOnce(c)
    BY <1>4, MessagesKept
  <2> QED
    BY <1>2, <1>3, <2>1 DEF Unanswered, BillDue, Leaving
<1> USE DEF GoTo, BeforeAsking, Asking, BeforeExit, AfterExit
<1>5. ASSUME UNCHANGED registerMQ,
             pc'[c] \in BeforeAsking => pc[c] \in BeforeAsking,
             EntrySlot(c)', ExitSlot(c)'
      PROVE  Books(c)'
  BY <1>1, <1>2, <1>4, <1>5 DEF Books, AsksOnce
<1>6. CASE \/ ClientStart(c) \/ ClientConnect(c) \/ ClientRequestTimeout(c)
           \/ ClientSignal(c) \/ ClientGiveUp(c) \/ ClientVisit(c)
           \/ ClientVisitEnd(c) \/ ClientLeave(c) \/ ClientExitConnect(c)
           \/ ClientExitSignal(c) \/ ClientBillTimeout(c)
  <2>1. /\ UNCHANGED <<registerMQ, enterMQ, exitMQ>>
        /\ pc'[c] \in BeforeAsking => pc[c] \in BeforeAsking
        /\ pc[c] \in Asking => pc'[c] \in Asking
        /\ pc'[c] \in BeforeAsking \cup {"permitted"} => pc[c] \in BeforeAsking
        /\ pc[c] \in AfterExit => pc'[c] \in AfterExit
        /\ pc'[c] # "billed"
        /\ pc'[c] \in BeforeExit => pc[c] \in BeforeExit
    BY <1>1, <1>6
       DEF ClientStart, ClientConnect, ClientRequestTimeout, ClientSignal,
           ClientGiveUp, ClientVisit, ClientVisitEnd, ClientLeave,
           ClientExitConnect, ClientExitSignal, ClientBillTimeout
  <2>2. EntrySlot(c)'
    BY <1>1, <1>2, <1>4, <2>1 DEF Books, EntrySlot
  <2>3. ExitSlot(c)'
    BY <1>1, <1>2, <1>3, <1>4, <2>1 DEF Books, ExitSlot
  <2> QED
    BY <1>5, <2>1, <2>2, <2>3
<1>7. ASSUME NEW type \in RegisterMessageType, SendRegister(c, type)
      PROVE  /\ Asks(c)' <=> Asks(c) \/ type = "ENTER_PARK"
             /\ Exits(c)' <=> Exits(c) \/ type = "EXIT_PARK"
             /\ AskOnce(c) /\ (type = "ENTER_PARK" => ~Asks(c)) => AskOnce(c)'
             /\ ExitOnce(c) /\ (type = "EXIT_PARK" => ~Exits(c)) => ExitOnce(c)'
  <2>1. /\ Enter(c) = [senderPID |-> c, mType |-> type] <=> type = "ENTER_PARK"
        /\ Exit(c) = [senderPID |-> c, mType |-> type] <=> type = "EXIT_PARK"
    <3>1. CASE type = "ENTER_PARK"
      BY <3>1, MessagesDiffer DEF Enter
    <3>2. CASE type = "EXIT_PARK"
      BY <3>2, MessagesDiffer DEF Exit
    <3> QED
      BY <1>7, <3>1, <3>2 DEF RegisterMessageType
  <2>2. /\ Holds(MessagesOf(c), Enter(c))'
             <=> Holds(MessagesOf(c), Enter(c)) \/ type = "ENTER_PARK"
        /\ Holds(MessagesOf(c), Exit(c))'
             <=> Holds(MessagesOf(c), Exit(c)) \/ type = "EXIT_PARK"
        /\ Once(MessagesOf(c), Enter(c))
             /\ (type = "ENTER_PARK" => ~Holds(MessagesOf(c), Enter(c)))
               => Once(MessagesOf(c), Enter(c))'
        /\ Once(MessagesOf(c), Exit(c))
             /\ (type = "EXIT_PARK" => ~Holds(MessagesOf(c), Exit(c)))
               => Once(MessagesOf(c), Exit(c))'
    BY <1>1, <1>7, <2>1, SendEffect
  <2> QED
    BY <2>2 DEF Asks, Exits, AskOnce, ExitOnce, Holds, Once, Enter, Exit
<1>8. CASE ClientRequest(c)
  <2>1. /\ pc[c] = "request" /\ pc'[c] = "signal"
        /\ SendRegister(c, "ENTER_PARK") /\ UNCHANGED <<enterMQ, exitMQ>>
    BY <1>1, <1>8 DEF ClientRequest
  <2>2. /\ Asks(c)' /\ (Exits(c)' <=> Exits(c))
        /\ ~Asks(c) /\ ~Waits(c) /\ c \notin m_clients
        /\ AskOnce(c) /\ WaitOnce(c)
        /\ AskOnce(c)' /\ (ExitOnce(c) => ExitOnce(c)')
    BY <1>1, <1>7, <2>1 DEF Books, AsksOnce, RegisterMessageType
  <2>3. AsksOnce(c)'
    BY <1>2, <2>1, <2>2 DEF AsksOnce
  <2>4. EntrySlot(c)'
    BY <1>1, <1>2, <2>1 DEF Books, EntrySlot
  <2>5. ExitSlot(c)'
    <3>1. /\ Leaving(c)' <=> Leaving(c)
          /\ BillDue(c)' <=> BillDue(c)
      BY <1>2, <1>3, <2>2 DEF Leaving, BillDue
    <3> QED
      BY <1>1, <1>2, <1>3, <2>1, <2>2, <3>1 DEF Books, ExitSlot
  <2> QED
    BY <2>3, <2>4, <2>5 DEF Books
<1>9. CASE ClientExitSend(c)
  <2>1. /\ pc[c] = "exitSend" /\ pc'[c] = "exitSignal"
        /\ SendRegister(c, "EXIT_PARK") /\ UNCHANGED <<enterMQ, exitMQ>>
    BY <1>1, <1>9 DEF ClientExitSend
  <2>2. /\ Exits(c)' /\ (Asks(c)' <=> Asks(c))
        /\ ~Exits(c) /\ ~(Billing /\ cur = c) /\ exitMQ[c] = "empty"
        /\ AskOnce(c) => AskOnce(c)'
        /\ ExitOnce(c)'
    <3>1. ~Leaving(c) /\ exitMQ[c] = "empty" /\ ExitOnce(c)
      BY <1>1, <2>1 DEF Books, ExitSlot
    <3> QED
      BY <1>7, <2>1, <3>1 DEF Leaving, RegisterMessageType
  <2>3. AsksOnce(c)'
    BY <1>1, <1>2, <2>1, <2>2 DEF Books, AsksOnce
  <2>4. EntrySlot(c)'
    <3>1. Unanswered(c)' <=> Unanswered(c)
      BY <1>2, <2>2 DEF Unanswered
    <3> QED
      BY <1>1, <1>2, <2>1, <3>1 DEF Books, EntrySlot
  <2>5. ExitSlot(c)'
    BY <1>2, <1>3, <2>1, <2>2 DEF ExitSlot
  <2> QED
    BY <2>3, <2>4, <2>5 DEF Books
<1>10. CASE ClientReceive(c)
  <2>1. /\ UNCHANGED <<registerMQ, exitMQ>>
        /\ pc[c] = "receive" /\ pc'[c] \in {"permitted", "cleanup", "blocked"}
        /\ enterMQ'[c] = "empty"
        /\ enterMQ[c] = "empty" => pc'[c] = "blocked"
    BY <1>1, <1>10 DEF ClientReceive
  <2>2. EntrySlot(c)'
    BY <1>1, <1>2, <1>4, <2>1 DEF Books, EntrySlot
  <2>3. ExitSlot(c)'
    BY <1>1, <1>2, <1>3, <1>4, <2>1 DEF Books, ExitSlot
  <2> QED
    BY <1>5, <2>1, <2>2, <2>3
<1>11. CASE ClientAck(c)
  <2>1. /\ UNCHANGED <<registerMQ, exitMQ>>
        /\ pc[c] = "permitted" /\ pc'[c] = "inPark"
        /\ enterMQ'[c] = IfHeld(c, "ack")
    BY <1>1, <1>11 DEF ClientAck
  <2>2. /\ ~Unanswered(c) /\ ~Leaving(c)
    BY <1>1, <2>1 DEF Books, EntrySlot, ExitSlot
  <2>3. cur = c => cpc = "permitAck"
    <3>1. cur = c => Admitting
      BY <1>1, <2>2 DEF InHand, Leaving
    <3>2. cur = c => Waits(c)
      BY <1>3, <3>1
    <3> QED
      BY <2>2, <3>1, <3>2 DEF Unanswered, Admitting
  <2>4. EntrySlot(c)'
    BY <1>2, <1>4, <2>1, <2>2, <2>3 DEF EntrySlot, IfHeld
  <2>5. ExitSlot(c)'
    BY <1>1, <1>2, <1>3, <1>4, <2>1 DEF Books, ExitSlot
  <2> QED
    BY <1>5, <2>1, <2>4, <2>5
<1>12. CASE ClientExitReceive(c)
  <2>1. /\ UNCHANGED <<registerMQ, enterMQ>>
        /\ pc[c] = "exitReceive" /\ pc'[c] \in {"billed", "exitBlocked"}
        /\ exitMQ'[c] = "empty"
        /\ exitMQ[c] = "empty" => pc'[c] = "exitBlocked"
    BY <1>1, <1>12 DEF ClientExitReceive
  <2>2. EntrySlot(c)'
    BY <1>1, <1>2, <1>4, <2>1 DEF Books, EntrySlot
  <2>3. ExitSlot(c)'
    BY <1>1, <1>2, <1>3, <1>4, <2>1 DEF Books, ExitSlot
  <2> QED
    BY <1>5, <2>1, <2>2, <2>3
<1>13. CASE ClientBillAck(c)
  <2>1. /\ UNCHANGED <<registerMQ, enterMQ>>
        /\ pc[c] = "billed" /\ pc'[c] = "cleanup"
    BY <1>1, <1>13 DEF ClientBillAck
  <2>2. EntrySlot(c)'
    BY <1>1, <1>2, <1>4, <2>1 DEF Books, EntrySlot
  <2>3. ExitSlot(c)'
    BY <1>1, <1>2, <1>3, <1>4, <2>1 DEF Books, ExitSlot
  <2> QED
    BY <1>5, <2>1, <2>2, <2>3
<1>14. CASE ClientCleanup(c)
  <2>1. /\ UNCHANGED registerMQ
        /\ pc[c] = "cleanup" /\ pc'[c] = "done"
        /\ enterMQ'[c] \in {"empty", enterMQ[c]}
        /\ exitMQ'[c] \in {"empty", exitMQ[c]}
    BY <1>1, <1>14 DEF ClientCleanup, IfHeld
  <2>2. EntrySlot(c)'
    BY <1>1, <1>2, <1>4, <2>1 DEF Books, EntrySlot
  <2>3. ExitSlot(c)'
    BY <1>1, <1>2, <1>3, <1>4, <2>1 DEF Books, ExitSlot
  <2> QED
    BY <1>5, <2>1, <2>2, <2>3
<1> QED
  BY <1>6, <1>8, <1>9, <1>10, <1>11, <1>12, <1>13, <1>14 DEF ClientStep

\* A client's step keeps the books of the others.
LEMMA ClientKeepsExchange ==
  ASSUME TypeInv, ExchangeInv, NEW c \in Clients, ClientStep(c)
  PROVE  ExchangeInv'
<1>1. UNCHANGED cashierVars
  BY ClientGone
<1>2. InHand'
  BY <1>1, RequestsKept DEF ExchangeInv, InHand, Admitting, Billing
<1>3. \/ UNCHANGED registerMQ
      \/ \E type \in RegisterMessageType : SendRegister(c, type)
  BY DEF ClientStep, ClientStart, ClientConnect, ClientRequest,
         ClientRequestTimeout, ClientSignal, ClientReceive, ClientGiveUp,
         ClientAck, ClientVisit, ClientVisitEnd, ClientLeave,
         ClientExitConnect, ClientExitSend, ClientExitSignal,
         ClientExitReceive, ClientBillTimeout, ClientBillAck, ClientCleanup,
         RegisterMessageType
<1>4. Sorted'
  BY <1>3, MessagesKept, SendEffect DEF ExchangeInv
<1>5. ASSUME NEW d \in Clients, d # c
      PROVE  Bystander(d)
  <2>1. pc'[d] = pc[d] /\ enterMQ'[d] = enterMQ[d] /\ exitMQ'[d] = exitMQ[d]
    <3> USE DEF TypeInv, TypeOK, GoTo
    <3>1. CASE \/ ClientStart(c) \/ ClientConnect(c) \/ ClientRequest(c)
               \/ ClientRequestTimeout(c) \/ ClientSignal(c)
               \/ ClientReceive(c) \/ ClientGiveUp(c) \/ ClientAck(c)
      BY <1>5, <3>1
         DEF ClientStart, ClientConnect, ClientRequest, ClientRequestTimeout,
             ClientSignal, ClientReceive, ClientGiveUp, ClientAck
    <3>2. CASE \/ ClientVisit(c) \/ ClientVisitEnd(c) \/ ClientLeave(c)
               \/ ClientExitConnect(c) \/ ClientExitSend(c)
               \/ ClientExitSignal(c) \/ ClientExitReceive(c)
               \/ ClientBillTimeout(c) \/ ClientBillAck(c) \/ ClientCleanup(c)
      BY <1>5, <3>2
         DEF ClientVisit, ClientVisitEnd, ClientLeave, ClientExitConnect,
             ClientExitSend, ClientExitSignal, ClientExitReceive,
             ClientBillTimeout, ClientBillAck, ClientCleanup
    <3> QED
      BY <3>1, <3>2 DEF ClientStep
  <2>2. /\ Asks(d)' <=> Asks(d)
        /\ Exits(d)' <=> Exits(d)
        /\ AskOnce(d) => AskOnce(d)'
        /\ ExitOnce(d) => ExitOnce(d)'
    <3>1. CASE UNCHANGED registerMQ
      BY <3>1, MessagesKept
    <3>2. CASE ~UNCHANGED registerMQ
      <4> PICK type \in RegisterMessageType : SendRegister(c, type)
        BY <1>3, <3>2
      <4>1. /\ Enter(d) # [senderPID |-> c, mType |-> type]
            /\ Exit(d) # [senderPID |-> c, mType |-> type]
        BY <1>5 DEF Enter, Exit
      <4>2. /\ Holds(MessagesOf(d), Enter(d))' <=> Holds(MessagesOf(d), Enter(d))
            /\ Holds(MessagesOf(d), Exit(d))' <=> Holds(MessagesOf(d), Exit(d))
            /\ Once(MessagesOf(d), Enter(d)) => Once(MessagesOf(d), Enter(d))'
            /\ Once(MessagesOf(d), Exit(d)) => Once(MessagesOf(d), Exit(d))'
        BY <4>1, SendEffect DEF ExchangeInv
      <4> QED
        BY <4>2 DEF Asks, Exits, AskOnce, ExitOnce, Holds, Once, Enter, Exit
    <3> QED
      BY <3>1, <3>2
  <2>3. (Waits(d)' <=> Waits(d)) /\ (WaitOnce(d)' <=> WaitOnce(d))
    BY <1>1, RequestsKept
  <2> QED
    BY <1>1, <2>1, <2>2, <2>3 DEF Bystander
<1>6. ASSUME NEW d \in Clients
      PROVE  Books(d)'
  <2>1. CASE d = c
    BY <2>1, ClientKeepsOwnBooks
  <2>2. CASE d # c
    BY <1>5, <2>2, BystanderKeepsBooks DEF ExchangeInv
  <2> QED
    BY <2>1, <2>2
<1> QED
  BY <1>2, <1>4, <1>6 DEF ExchangeInv

\* The client being handled is known, and its request heads its queue.
LEMMA CurrentRequest ==
  ASSUME TypeInv, InHand, Admitting
  PROVE  cur \in Clients /\ RequestsOf(cur) # <<>> /\ Head(RequestsOf(cur)) = cur
BY DEF TypeInv, HandledIsKnown, InHand, RequestsOf

\* The cashier reads the register queue.
LEMMA ReceiveKeepsExchange ==
  ASSUME TypeInv, ExchangeInv,
         CashierReceiveEnter \/ CashierReceiveExit \/ CashierReceiveExitBill
  PROVE  ExchangeInv'
<1>1. /\ MessageCount > 0 /\ ReceiveRegister /\ cpc = "recv"
      /\ UNCHANGED <<pc, enterMQ, exitMQ>>
  BY DEF CashierReceiveEnter, CashierReceiveExit, CashierReceiveExitBill
<1> PICK c \in Clients : c = TopMessage.senderPID
  BY <1>1, TopOfQueue DEF TypeInv, TypeOK
<1>2. /\ TopMessage \in RegisterMQMessage
      /\ cur = NoClient /\ cur \notin Clients
  BY <1>1, TopOfQueue, ParkAssumption
     DEF TypeInv, TypeOK, ExchangeInv, InHand, Admitting, Billing
<1>3. /\ TopMessage.mType = "ENTER_PARK" => TopMessage = Enter(c)
      /\ TopMessage.mType = "EXIT_PARK" => TopMessage = Exit(c)
  BY <1>2, MessageIs
<1>4. /\ Sorted'
      /\ \A d \in Clients :
           /\ Asks(d)' => Asks(d)
           /\ Exits(d)' => Exits(d)
           /\ Enter(d) = TopMessage => Asks(d)
           /\ Exit(d) = TopMessage => Exits(d)
           /\ AskOnce(d) => AskOnce(d)' /\ (Enter(d) = TopMessage => ~Asks(d)')
           /\ ExitOnce(d) => ExitOnce(d)' /\ (Exit(d) = TopMessage => ~Exits(d)')
  <2>1. Sorted /\ Sorted'
    BY <1>1, ReceiveEffect DEF ExchangeInv
  <2>2. ASSUME NEW d \in Clients, NEW m \in {Enter(d), Exit(d)}
        PROVE  /\ Holds(MessagesOf(d), m)' => Holds(MessagesOf(d), m)
               /\ m = TopMessage => Holds(MessagesOf(d), m)
               /\ Once(MessagesOf(d), m)
                    => /\ Once(MessagesOf(d), m)'
                       /\ m = TopMessage => ~Holds(MessagesOf(d), m)'
    BY <1>1, <2>1, ReceiveEffect
  <2>3. ASSUME NEW d \in Clients
        PROVE  /\ Holds(MessagesOf(d), Enter(d))' => Asks(d)
               /\ Enter(d) = TopMessage => Asks(d)
               /\ AskOnce(d) => /\ Once(MessagesOf(d), Enter(d))'
                                /\ Enter(d) = TopMessage
                                     => ~Holds(MessagesOf(d), Enter(d))'
    BY <2>2 DEF Asks, AskOnce
  <2>4. ASSUME NEW d \in Clients
        PROVE  /\ Holds(MessagesOf(d), Exit(d))' => Exits(d)
               /\ Exit(d) = TopMessage => Exits(d)
               /\ ExitOnce(d) => /\ Once(MessagesOf(d), Exit(d))'
                                 /\ Exit(d) = TopMessage
                                      => ~Holds(MessagesOf(d), Exit(d))'
    BY <2>2 DEF Exits, ExitOnce
  <2>5. ASSUME NEW d
        PROVE  /\ Asks(d)' <=> Holds(MessagesOf(d), Enter(d))'
               /\ Exits(d)' <=> Holds(MessagesOf(d), Exit(d))'
               /\ AskOnce(d)' <=> Once(MessagesOf(d), Enter(d))'
               /\ ExitOnce(d)' <=> Once(MessagesOf(d), Exit(d))'
    BY DEF Asks, Exits, AskOnce, ExitOnce, Holds, Once, Enter, Exit
  <2> QED
    BY <2>1, <2>3, <2>4, <2>5
<1>5. CASE CashierReceiveEnter
  <2>1. /\ TopMessage = Enter(c) /\ cpc' = "serve" /\ UNCHANGED <<cur, m_clients>>
        /\ IF c \in Vips
           THEN /\ m_enterVipQueue' = Append(m_enterVipQueue, c)
                /\ UNCHANGED m_enterQueue
           ELSE /\ m_enterQueue' = Append(m_enterQueue, c)
                /\ UNCHANGED m_enterVipQueue
    BY <1>3, <1>5 DEF CashierReceiveEnter
  <2>2. \A d \in Clients :
          /\ Waits(d)' <=> Waits(d) \/ d = c
          /\ WaitOnce(d) /\ (d = c => ~Waits(d)) => WaitOnce(d)'
    BY <1>2, <2>1, RequestEffect
  <2>3. InHand'
    BY <1>2, <2>1 DEF InHand, Admitting
  <2>4. ASSUME NEW d \in Clients, d # c PROVE Books(d)'
    <3>1. Bystander(d)
      BY <1>1, <1>2, <1>4, <2>1, <2>2, <2>4 DEF Bystander
    <3> QED
      BY <3>1, BystanderKeepsBooks DEF ExchangeInv
  <2>5. Books(c)'
    <3>1. /\ Books(c) /\ Asks(c) /\ ~Waits(c) /\ c \notin m_clients
          /\ ~Asks(c)' /\ Waits(c)' /\ AskOnce(c)' /\ WaitOnce(c)'
          /\ ExitOnce(c)' /\ (Exits(c)' => Exits(c))
      BY <1>2, <1>4, <2>1, <2>2 DEF ExchangeInv, Books, AsksOnce, ExitSlot
    <3>2. AsksOnce(c)'
      BY <1>1, <2>1, <3>1 DEF Books, AsksOnce
    <3>3. EntrySlot(c)'
      BY <1>1, <1>2, <2>1, <3>1 DEF Books, EntrySlot, Unanswered
    <3>4. ExitSlot(c)'
      <4>1. /\ BillDue(c)' => BillDue(c)
            /\ Leaving(c)' => Leaving(c)
            /\ ~(Billing /\ cur = c)'
        BY <1>2, <2>1, <3>1 DEF BillDue, Leaving, Billing
      <4> QED
        BY <1>1, <3>1, <4>1 DEF Books, ExitSlot
    <3> QED
      BY <3>2, <3>3, <3>4 DEF Books
  <2> QED
    BY <1>4, <2>3, <2>4, <2>5 DEF ExchangeInv
<1>6. CASE CashierReceiveExit
  <2>1. /\ cpc' = "serve" /\ UNCHANGED <<cur, m_enterVipQueue, m_enterQueue>>
        /\ m_clients' \subseteq m_clients
    BY <1>6 DEF CashierReceiveExit, RemoveClient
  <2>2. InHand'
    BY <1>2, <2>1 DEF InHand, Admitting
  <2>3. ASSUME NEW d \in Clients PROVE Books(d)'
    <3>1. (Waits(d)' <=> Waits(d)) /\ (WaitOnce(d)' <=> WaitOnce(d))
      BY <2>1, RequestsKept
    <3>2. Bystander(d)
      BY <1>1, <1>2, <1>4, <2>1, <3>1 DEF Bystander, ExchangeInv, Books, AsksOnce
    <3> QED
      BY <3>2, BystanderKeepsBooks DEF ExchangeInv
  <2> QED
    BY <1>4, <2>2, <2>3 DEF ExchangeInv
<1>7. CASE CashierReceiveExitBill
  <2>1. /\ cpc' = "openBill" /\ cur' = c /\ TopMessage = Exit(c)
        /\ UNCHANGED <<m_clients, m_enterVipQueue, m_enterQueue>>
    BY <1>3, <1>7 DEF CashierReceiveExitBill
  <2>2. InHand'
    BY <2>1 DEF InHand, Admitting, Billing
  <2>3. ASSUME NEW d \in Clients
        PROVE  (Waits(d)' <=> Waits(d)) /\ (WaitOnce(d)' <=> WaitOnce(d))
    BY <2>1, RequestsKept
  <2>4. ASSUME NEW d \in Clients, d # c PROVE Books(d)'
    <3>1. Bystander(d)
      BY <1>1, <1>2, <1>4, <2>1, <2>3, <2>4 DEF Bystander
    <3> QED
      BY <3>1, BystanderKeepsBooks DEF ExchangeInv
  <2>5. Books(c)'
    <3>1. /\ Books(c) /\ Exits(c) /\ ~Exits(c)' /\ ExitOnce(c)'
          /\ (Asks(c)' => Asks(c)) /\ AskOnce(c)'
      BY <1>2, <1>4, <2>1 DEF ExchangeInv, Books, AsksOnce, ExitSlot
    <3>2. AsksOnce(c)'
      BY <1>1, <1>2, <2>1, <2>3, <3>1 DEF Books, AsksOnce
    <3>3. EntrySlot(c)'
      BY <1>1, <1>2, <2>1, <2>3, <3>1 DEF Books, EntrySlot, Unanswered
    <3>4. ExitSlot(c)'
      BY <1>1, <2>1, <3>1 DEF Books, ExitSlot, Leaving, BillDue
    <3> QED
      BY <3>2, <3>3, <3>4 DEF Books
  <2> QED
    BY <1>2, <1>4, <2>2, <2>4, <2>5 DEF ExchangeInv
<1> QED
  BY <1>5, <1>6, <1>7

\* Where nothing but the cashier's place changes, and it handles nobody.
LEMMA IdleKeepsExchange ==
  ASSUME TypeInv, ExchangeInv, ~Admitting, ~Billing, ~Admitting', ~Billing',
         UNCHANGED <<pc, enterMQ, exitMQ, registerMQ, m_enterVipQueue,
                     m_enterQueue, cur>>,
         m_clients' \subseteq m_clients
  PROVE  ExchangeInv'
<1>1. cur = NoClient /\ \A d \in Clients : cur # d /\ cur' # d
  BY ParkAssumption DEF ExchangeInv, InHand
<1>2. Sorted' /\ InHand'
  BY <1>1, MessagesKept DEF ExchangeInv, InHand
<1>3. ASSUME NEW d \in Clients PROVE Books(d)'
  <2>1. Bystander(d)
    BY <1>1, MessagesKept, RequestsKept DEF Bystander
  <2> QED
    BY <2>1, BystanderKeepsBooks DEF ExchangeInv
<1> QED
  BY <1>2, <1>3 DEF ExchangeInv

\* pHandleExitPark.
LEMMA BillKeepsExchange ==
  ASSUME TypeInv, ExchangeInv,
         CashierOpenBill \/ CashierSendBill \/ CashierBillAck
  PROVE  ExchangeInv'
<1>1. /\ Billing /\ cur \in Clients /\ ~Admitting
      /\ UNCHANGED <<enterMQ, registerMQ, m_enterVipQueue, m_enterQueue>>
      /\ pc \in [Clients -> ClientPC] /\ exitMQ \in [Clients -> Slot]
      /\ m_clients' \subseteq m_clients
      /\ ExchangeInv /\ Books(cur) /\ ~Exits(cur)
  BY DEF CashierOpenBill, CashierSendBill, CashierBillAck, FinishExit,
         RemoveClient, TypeInv, TypeOK, HandledIsKnown, Billing, Admitting,
         ExchangeInv, Books, ExitSlot
<1> PICK c \in Clients : c = cur
  BY <1>1
<1>2. /\ Sorted' /\ (Asks(c)' <=> Asks(c)) /\ (Exits(c)' <=> Exits(c))
      /\ (AskOnce(c)' <=> AskOnce(c)) /\ (ExitOnce(c)' <=> ExitOnce(c))
      /\ (Waits(c)' <=> Waits(c)) /\ (WaitOnce(c)' <=> WaitOnce(c))
      /\ ~Exits(c)
  BY <1>1, MessagesKept, RequestsKept DEF ExchangeInv
<1>3. /\ \/ cur' = cur /\ cpc' \in {"bill", "billAck"}
         \/ cur' = NoClient /\ cpc' = "serve"
      /\ \A d \in Clients : d # c => pc'[d] = pc[d] /\ exitMQ'[d] = exitMQ[d]
  BY <1>1 DEF CashierOpenBill, CashierSendBill, CashierBillAck, FinishExit
<1>4. InHand'
  BY <1>3 DEF InHand, Admitting, Billing
<1>5. ASSUME NEW d \in Clients, d # c PROVE Books(d)'
  <2>1. Bystander(d)
    BY <1>1, <1>3, <1>5, MessagesKept, RequestsKept, ParkAssumption DEF Bystander
  <2> QED
    BY <2>1, BystanderKeepsBooks DEF ExchangeInv
<1> SUFFICES Books(c)'
  BY <1>2, <1>4, <1>5 DEF ExchangeInv
<1>6. ASSUME pc'[c] = pc[c] \/ (pc[c] = "exitBlocked" /\ pc'[c] = "billed"),
             ExitSlot(c)'
      PROVE  Books(c)'
  <2>1. AsksOnce(c)'
    BY <1>1, <1>2, <1>6 DEF Books, AsksOnce, BeforeAsking
  <2>2. EntrySlot(c)'
    <3>1. /\ cpc' # "permitAck" /\ cpc # "permitAck"
          /\ Unanswered(c)' <=> Unanswered(c)
      BY <1>1, <1>2, <1>3 DEF Unanswered, Billing
    <3> QED
      BY <1>1, <1>6, <3>1 DEF Books, EntrySlot, BeforeAsking, Asking
  <2> QED
    BY <1>6, <2>1, <2>2 DEF Books
<1>7. CASE CashierOpenBill
  <2>1. cpc = "openBill" /\ UNCHANGED <<pc, exitMQ>>
    BY <1>7 DEF CashierOpenBill
  <2>2. /\ Leaving(c) /\ BillDue(c)
        /\ cur' = c => ~Exits(c)'
        /\ ExitOnce(c)'
    BY <1>1, <1>2, <2>1 DEF Leaving, BillDue, Books, ExitSlot
  <2>3. ExitSlot(c)'
    BY <1>1, <1>2, <2>1, <2>2 DEF Books, ExitSlot
  <2> QED
    BY <1>6, <2>1, <2>3
<1>8. CASE CashierSendBill
  <2>1. /\ cpc = "bill" /\ cpc' = "billAck" /\ UNCHANGED cur
        /\ \/ /\ pc[c] = "exitBlocked" /\ pc'[c] = "billed"
              /\ exitMQ'[c] = exitMQ[c]
           \/ pc[c] # "exitBlocked" /\ UNCHANGED pc
    BY <1>1, <1>8 DEF CashierSendBill
  <2>2. /\ pc[c] \in AfterExit \ {"billed"} /\ exitMQ[c] = "empty"
        /\ ExitOnce(c)' /\ ~BillDue(c)'
    BY <1>1, <1>2, <2>1 DEF Leaving, BillDue, Books, ExitSlot
  <2>3. ExitSlot(c)'
    BY <1>2, <2>1, <2>2 DEF ExitSlot, AfterExit, BeforeExit, BeforeAsking
  <2> QED
    BY <1>6, <2>1, <2>3
<1>9. CASE CashierBillAck
  <2>1. UNCHANGED pc /\ cpc' = "serve" /\ exitMQ'[c] = "empty"
    BY <1>1, <1>9 DEF CashierBillAck, FinishExit
  <2>2. ExitOnce(c)' /\ ~BillDue(c)' /\ ~Leaving(c)' /\ ~Billing'
    BY <1>1, <1>2, <2>1 DEF Leaving, BillDue, Billing, Books, ExitSlot
  <2>3. ExitSlot(c)'
    BY <2>1, <2>2 DEF ExitSlot
  <2> QED
    BY <1>6, <2>1, <2>3
<1> QED
  BY <1>7, <1>8, <1>9

\* The cashier takes up a request.
LEMMA ServeKeepsExchange ==
  ASSUME TypeInv, ExchangeInv, CashierServe
  PROVE  ExchangeInv'
<1>1. /\ cpc = "serve"
      /\ m_enterVipQueue # <<>> \/ m_enterQueue # <<>>
      /\ UNCHANGED <<pc, enterMQ, exitMQ, registerMQ, m_clients>>
      /\ ~Admitting /\ ~Billing
  BY DEF CashierServe, Admitting, Billing
<1> PICK c \in Clients : c = NextRequest
  BY <1>1, NextIsHead
<1>2. RequestsOf(c) # <<>> /\ Head(RequestsOf(c)) = c /\ cur = NoClient
  BY <1>1, NextIsHead DEF ExchangeInv, InHand
<1>3. CASE linked[c] = "enter"
  <2>1. /\ cur' = c /\ cpc' = "permit"
        /\ UNCHANGED <<m_enterVipQueue, m_enterQueue>>
    BY <1>1, <1>3 DEF CashierServe
  <2>2. Sorted' /\ InHand'
    BY <1>2, <2>1, MessagesKept, <1>1, RequestsKept
       DEF ExchangeInv, InHand, Admitting
  <2>3. ASSUME NEW d \in Clients PROVE Books(d)'
    <3>1. /\ Asks(d)' <=> Asks(d)
          /\ Exits(d)' <=> Exits(d)
          /\ AskOnce(d)' <=> AskOnce(d)
          /\ ExitOnce(d)' <=> ExitOnce(d)
          /\ Waits(d)' <=> Waits(d)
          /\ WaitOnce(d)' <=> WaitOnce(d)
      BY <1>1, <2>1, MessagesKept, RequestsKept
    <3>2. /\ Unanswered(d)' <=> Unanswered(d)
          /\ BillDue(d)' <=> BillDue(d)
          /\ Leaving(d)' <=> Leaving(d)
          /\ ~Billing' /\ cpc # "permitAck"
      BY <1>1, <2>1, <3>1 DEF Unanswered, BillDue, Leaving, Billing
    <3>3. AsksOnce(d)'
      BY <1>1, <3>1 DEF ExchangeInv, Books, AsksOnce
    <3>4. EntrySlot(d)'
      BY <1>1, <3>2 DEF ExchangeInv, Books, EntrySlot
    <3>5. ExitSlot(d)'
      BY <1>1, <3>1, <3>2 DEF ExchangeInv, Books, ExitSlot
    <3> QED
      BY <3>3, <3>4, <3>5 DEF Books
  <2> QED
    BY <2>2, <2>3 DEF ExchangeInv
<1>4. CASE linked[c] # "enter"
  <2>1. EraseRequest(c) /\ UNCHANGED <<cur, cpc>>
    BY <1>1, <1>4 DEF CashierServe
  <2>2. \A d \in Clients : /\ Waits(d)' => Waits(d)
                           /\ WaitOnce(d) => WaitOnce(d)'
    BY <1>2, <2>1, EraseEffect
  <2>3. Sorted' /\ InHand'
    BY <1>1, <1>2, <2>1, MessagesKept DEF ExchangeInv, InHand, Admitting
  <2>4. ASSUME NEW d \in Clients PROVE Books(d)'
    <3>1. Bystander(d)
      BY <1>1, <2>1, <2>2, MessagesKept DEF Bystander
    <3> QED
      BY <3>1, BystanderKeepsBooks DEF ExchangeInv
  <2> QED
    BY <2>3, <2>4 DEF ExchangeInv
<1> QED
  BY <1>3, <1>4

\* The request of cur is answered and dropped.
LEMMA DropRequest ==
  ASSUME TypeInv, ExchangeInv, Admitting, FinishRequest
  PROVE  /\ InHand' /\ cpc' = "serve" /\ cur' = NoClient
         /\ \A d \in Clients : /\ Waits(d)' => Waits(d)
                               /\ WaitOnce(d) => WaitOnce(d)'
                               /\ d = cur => ~Waits(d)'
<1>1. cur \in Clients /\ RequestsOf(cur) # <<>> /\ Head(RequestsOf(cur)) = cur
  BY CurrentRequest DEF ExchangeInv
<1>2. EraseRequest(cur) /\ cur' = NoClient /\ cpc' = "serve"
  BY DEF FinishRequest
<1> QED
  BY <1>1, <1>2, EraseEffect
     DEF ExchangeInv, Books, AsksOnce, InHand, Admitting

\* pSendReply and the wait for the ACK.
LEMMA AnswerKeepsExchange ==
  ASSUME TypeInv, ExchangeInv,
         CashierSendPermit \/ CashierAdmit \/ CashierNoAck
  PROVE  ExchangeInv'
<1>1. /\ Admitting /\ ~Billing /\ ~Billing'
      /\ UNCHANGED <<exitMQ, registerMQ>>
      /\ pc \in [Clients -> ClientPC] /\ enterMQ \in [Clients -> Slot]
      /\ ExchangeInv /\ cur # NoClient
  BY ParkAssumption
     DEF CashierSendPermit, CashierAdmit, CashierNoAck, FinishRequest,
         TypeInv, TypeOK, HandledIsKnown, Billing, Admitting
<1>2. cur \in Clients /\ RequestsOf(cur) # <<>> /\ Head(RequestsOf(cur)) = cur
  BY <1>1, CurrentRequest DEF ExchangeInv
<1>3. /\ Waits(cur)
      /\ Books(cur)
  BY <1>1, <1>2, QueuesOf, HeadHeld DEF Waits, ExchangeInv
<1> PICK c \in Clients : c = cur
  BY <1>2
<1>4. /\ Waits(c) /\ Books(c) /\ ~Asks(c) /\ c \notin m_clients
      /\ Sorted'
      /\ \A d \in Clients : /\ Asks(d)' <=> Asks(d)
                            /\ Exits(d)' <=> Exits(d)
                            /\ AskOnce(d)' <=> AskOnce(d)
                            /\ ExitOnce(d)' <=> ExitOnce(d)
  BY <1>1, <1>3, MessagesKept DEF ExchangeInv, Books, AsksOnce
<1>5. /\ BillDue(c)' <=> BillDue(c)
      /\ Leaving(c)' <=> Leaving(c)
  BY <1>1, <1>4 DEF BillDue, Leaving, Billing
\* Either the request is dropped or the cashier goes on to wait for the ACK.
<1>6. /\ InHand'
      /\ \A d \in Clients : /\ Waits(d)' => Waits(d)
                            /\ WaitOnce(d) => WaitOnce(d)'
      /\ \/ cpc' = "serve" /\ cur' = NoClient /\ ~Waits(c)'
         \/ cpc = "permit" /\ cpc' = "permitAck" /\ cur' = cur
  <2>1. CASE FinishRequest
    BY <1>1, <2>1, DropRequest
  <2>2. CASE CashierSendPermit /\ ~FinishRequest
    <3>1. /\ cpc = "permit" /\ cpc' = "permitAck"
          /\ UNCHANGED <<cur, m_enterVipQueue, m_enterQueue>>
      BY <2>2 DEF CashierSendPermit
    <3> QED
      BY <1>1, <1>2, <3>1, RequestsKept DEF InHand, Admitting
  <2> QED
    BY <2>1, <2>2 DEF CashierAdmit, CashierNoAck
<1>7. /\ ~Unanswered(c)'
      /\ \A d \in Clients : d # c => cur # d /\ cur' # d
  BY <1>4, <1>6, ParkAssumption DEF Unanswered
<1>8. ASSUME NEW d \in Clients, d # c,
             pc'[d] = pc[d], enterMQ'[d] = enterMQ[d],
             d \in m_clients' => d \in m_clients
      PROVE  Books(d)'
  <2>1. Bystander(d)
    BY <1>1, <1>4, <1>6, <1>7, <1>8 DEF Bystander
  <2> QED
    BY <2>1, BystanderKeepsBooks DEF ExchangeInv
<1>9. ASSUME pc'[c] \notin BeforeAsking,
             c \in m_clients' => ~Waits(c)'
      PROVE  AsksOnce(c)'
  BY <1>4, <1>6, <1>9 DEF Books, AsksOnce
<1>10. ASSUME UNCHANGED pc PROVE ExitSlot(c)'
  BY <1>1, <1>4, <1>5, <1>10 DEF Books, ExitSlot
<1>11. CASE CashierSendPermit
  <2>1. cpc = "permit" /\ UNCHANGED m_clients
    BY <1>11 DEF CashierSendPermit
  <2>2. enterMQ[c] = "empty" /\ pc[c] \in Asking
    BY <1>4, <2>1 DEF Books, EntrySlot, Unanswered
  <2>3. CASE pc[c] = "blocked"
    <3>1. /\ enterMQ' = enterMQ /\ pc'[c] \in {"permitted", "cleanup"}
          /\ \A d \in Clients : d # c => pc'[d] = pc[d]
      BY <1>1, <1>11, <2>3 DEF CashierSendPermit
    <3>2. AsksOnce(c)'
      BY <1>4, <1>9, <2>1, <3>1 DEF BeforeAsking
    <3>3. EntrySlot(c)'
      BY <1>7, <2>2, <3>1 DEF EntrySlot
    <3>4. ExitSlot(c)'
      BY <1>1, <1>4, <1>5, <2>3, <3>1
         DEF Books, ExitSlot, BeforeExit, BeforeAsking, AfterExit
    <3> QED
      BY <1>4, <1>6, <1>8, <2>1, <3>1, <3>2, <3>3, <3>4 DEF ExchangeInv, Books
  <2>4. CASE pc[c] # "blocked"
    <3>1. /\ pc' = pc
          /\ enterMQ'[c] \in {"permit", "refusal", "empty"}
          /\ \A d \in Clients : d # c => enterMQ'[d] = enterMQ[d]
      BY <1>1, <1>11, <2>4 DEF CashierSendPermit
    <3>2. AsksOnce(c)'
      BY <1>4, <1>9, <2>1, <2>2, <3>1 DEF BeforeAsking, Asking
    <3>3. EntrySlot(c)'
      BY <1>7, <2>2, <3>1 DEF EntrySlot, BeforeAsking, Asking
    <3> QED
      BY <1>4, <1>6, <1>8, <1>10, <2>1, <3>1, <3>2, <3>3 DEF ExchangeInv, Books
  <2> QED
    BY <2>3, <2>4
<1>12. CASE CashierAdmit \/ CashierNoAck
  <2>1. /\ UNCHANGED pc /\ cpc = "permitAck" /\ enterMQ'[c] = "empty"
        /\ \A d \in Clients : d # c => enterMQ'[d] = enterMQ[d]
        /\ \A d \in Clients : d # c /\ d \in m_clients' => d \in m_clients
        /\ c \in m_clients' => enterMQ[c] = "ack"
    BY <1>1, <1>4, <1>12 DEF CashierAdmit, CashierNoAck, RegisterClient
  <2>2. pc[c] \notin BeforeAsking /\ ~Waits(c)'
    BY <1>4, <1>6, <2>1 DEF Books, AsksOnce
  <2>3. AsksOnce(c)'
    BY <1>9, <2>1, <2>2
  <2>4. EntrySlot(c)'
    BY <1>7, <2>1 DEF EntrySlot
  <2> QED
    BY <1>4, <1>6, <1>8, <1>10, <2>1, <2>3, <2>4 DEF ExchangeInv, Books
<1> QED
  BY <1>11, <1>12

\* ExchangeInv is inductive.
LEMMA ExchangeInvInductive ==
  /\ Init => ExchangeInv
  /\ TypeInv /\ ExchangeInv /\ [Next]_vars => ExchangeInv'
<1>1. Init => ExchangeInv
  <2> SUFFICES ASSUME Init PROVE ExchangeInv
    OBVIOUS
  <2>1. /\ registerMQ[0] = <<>> /\ registerMQ[1] = <<>>
        /\ m_enterVipQueue = <<>> /\ m_enterQueue = <<>>
        /\ ~Admitting /\ ~Billing /\ cur = NoClient
    BY DEF Init, Admitting, Billing
  <2>2. Sorted /\ InHand
    BY <2>1 DEF Sorted, InHand
  <2>3. ASSUME NEW c \in Clients PROVE Books(c)
    <3>1. MessagesOf(c) = <<>> /\ RequestsOf(c) = <<>>
      BY <2>1 DEF MessagesOf, RequestsOf, Priority
    <3>2. /\ ~Asks(c) /\ ~Exits(c) /\ ~Waits(c)
          /\ AskOnce(c) /\ ExitOnce(c) /\ WaitOnce(c)
      BY <3>1, EmptyHolds DEF Asks, Exits, Waits, AskOnce, ExitOnce, WaitOnce
    <3>3. /\ c \notin m_clients /\ pc[c] = "start"
          /\ enterMQ[c] = "empty" /\ exitMQ[c] = "empty"
      BY DEF Init
    <3> QED
      BY <2>1, <3>2, <3>3
         DEF Books, AsksOnce, EntrySlot, ExitSlot, Unanswered, BillDue, Leaving,
             Billing
  <2> QED
    BY <2>2, <2>3 DEF ExchangeInv
<1>2. TypeInv /\ ExchangeInv /\ [Next]_vars => ExchangeInv'
  <2> SUFFICES ASSUME TypeInv, ExchangeInv, [Next]_vars PROVE ExchangeInv'
    OBVIOUS
  <2>1. CASE /\ UNCHANGED <<pc, enterMQ, exitMQ, registerMQ, m_enterVipQueue,
                            m_enterQueue, cur>>
             /\ m_clients' \subseteq m_clients
             /\ \/ cpc' = cpc
                \/ ~Admitting /\ ~Billing /\ ~Admitting' /\ ~Billing'
    <3>1. CASE cpc' = cpc
      <4>1. Sorted' /\ InHand'
        BY <2>1, <3>1, MessagesKept, RequestsKept
           DEF ExchangeInv, InHand, Admitting, Billing
      <4>2. ASSUME NEW d \in Clients PROVE Books(d)'
        <5>1. Bystander(d)
          BY <2>1, <3>1, MessagesKept, RequestsKept DEF Bystander
        <5> QED
          BY <5>1, BystanderKeepsBooks DEF ExchangeInv
      <4> QED
        BY <4>1, <4>2 DEF ExchangeInv
    <3>2. CASE cpc' # cpc
      BY <2>1, <3>2, IdleKeepsExchange
    <3> QED
      BY <3>1, <3>2
  <2>2. CASE MainSigint \/ MainClosing
    BY <2>1, <2>2
       DEF MainSigint, MainClosing, MainKillCashier, MainOpenSemaphores, MainEnd
  <2>3. CASE CashierSigUsr1 \/ CashierSigTerm
    BY <2>1, <2>3
       DEF CashierSigUsr1, CashierSigTerm, Interrupt, Admitting, Billing
  <2>4. CASE \/ CashierClaim \/ CashierCreateQueue \/ CashierCheck
             \/ CashierWait \/ CashierReceiveTimeout \/ CashierServeEnd
             \/ CashierUnlink \/ CashierDeregister
    BY <2>1, <2>4
       DEF CashierClaim, CashierCreateQueue, CashierCheck, CashierWait,
           CashierReceiveTimeout, CashierServeEnd, CashierUnlink,
           CashierDeregister, Admitting, Billing
  <2>5. CASE CashierStep
    BY <2>4, <2>5, ReceiveKeepsExchange, BillKeepsExchange, ServeKeepsExchange,
       AnswerKeepsExchange DEF CashierStep
  <2> QED
    BY <2>1, <2>2, <2>3, <2>5, ClientKeepsExchange DEF Next, Ended, vars
<1> QED
  BY <1>1, <1>2

-----------------------------------------------------------------------------
(* The reply queues *)

\* Neither end of a reply queue ever finds it full: when the cashier is about
\* to send the permit or the bill, and when a client is about to send an ACK,
\* the queue that has room for one message is empty, whichever timeouts and
\* signals came before (pSendReply, pEnterPark, pLeavePark).
THEOREM RepliesNeverWait == Spec => []ReplySlotFree
<1>1. TypeInv /\ ExchangeInv => ReplySlotFree
  <2> SUFFICES ASSUME TypeInv, ExchangeInv PROVE ReplySlotFree
    OBVIOUS
  <2>1. ASSUME cpc = "permit" PROVE enterMQ[cur] = "empty"
    <3>1. cur \in Clients /\ RequestsOf(cur) # <<>> /\ Head(RequestsOf(cur)) = cur
      BY <2>1, CurrentRequest DEF ExchangeInv, Admitting
    <3>2. Unanswered(cur)
      BY <2>1, <3>1, QueuesOf, HeadHeld DEF Waits, Unanswered
    <3> QED
      BY <3>1, <3>2 DEF ExchangeInv, Books, EntrySlot
  <2>2. ASSUME cpc = "bill" PROVE exitMQ[cur] = "empty"
    <3>1. cur \in Clients /\ BillDue(cur)
      BY <2>2 DEF TypeInv, HandledIsKnown, Billing, BillDue
    <3> QED
      BY <3>1 DEF ExchangeInv, Books, ExitSlot
  <2>3. ASSUME NEW c \in Clients
        PROVE  /\ pc[c] = "permitted" => enterMQ[c] = "empty"
               /\ pc[c] = "billed" => exitMQ[c] = "empty"
    BY DEF ExchangeInv, Books, EntrySlot, ExitSlot
  <2> QED
    BY <2>1, <2>2, <2>3 DEF ReplySlotFree
<1> QED
  BY <1>1, TypeInvInductive, ExchangeInvInductive, PTL DEF Spec

-----------------------------------------------------------------------------
(* The counter *)

\* A client that joins brings itself and its child.
LEMMA OccupancyJoin ==
  ASSUME NEW S \in SUBSET Clients, NEW c \in Clients, c \notin S
  PROVE  Occupancy(S \cup {c}) = Occupancy(S) + People(c)
<1>1. Occupancy((S \cup {c}) \ {c}) = Occupancy(S \cup {c}) - People(c)
  BY OccupancyRemove
<1>2. (S \cup {c}) \ {c} = S
  OBVIOUS
<1>3. /\ Occupancy(S) \in Nat /\ Occupancy(S \cup {c}) \in Nat
      /\ People(c) \in {1, 2}
  BY OccupancyType DEF People
<1> QED
  BY <1>1, <1>2, <1>3

\* pRemoveClient takes a client and its people out together.
LEMMA RemoveKeepsCount ==
  ASSUME TypeOK, CounterMatches, NEW c \in Clients, RemoveClient(c)
  PROVE  CounterMatches'
<1>1. m_clients \in SUBSET Clients /\ m_clientCounter \in Int
  BY DEF TypeOK
<1>2. CASE c \in m_clients
  <2>1. Occupancy(m_clients \ {c}) = Occupancy(m_clients) - People(c)
    BY <1>1, <1>2, OccupancyRemove
  <2> QED
    BY <1>2, <2>1 DEF RemoveClient, CounterMatches, Occupancy
<1>3. CASE c \notin m_clients
  <2>1. m_clients \ {c} = m_clients
    BY <1>3
  <2> QED
    BY <1>3, <2>1 DEF RemoveClient, CounterMatches, Occupancy
<1> QED
  BY <1>2, <1>3

\* A client being admitted is not registered yet.
LEMMA AdmittedOnce ==
  ASSUME TypeInv, ExchangeInv, Admitting
  PROVE  cur \in Clients /\ cur \notin m_clients
<1>1. cur \in Clients /\ RequestsOf(cur) # <<>> /\ Head(RequestsOf(cur)) = cur
  BY CurrentRequest DEF ExchangeInv
<1>2. Waits(cur)
  BY <1>1, QueuesOf, HeadHeld DEF Waits
<1> QED
  BY <1>1, <1>2 DEF ExchangeInv, Books, AsksOnce

\* CounterMatches follows m_clients through every step.
LEMMA CounterInductive ==
  /\ Init => CounterMatches
  /\ TypeInv /\ ExchangeInv /\ CounterMatches /\ [Next]_vars => CounterMatches'
<1>1. Init => CounterMatches
  <2> SUFFICES ASSUME Init PROVE CounterMatches
    OBVIOUS
  <2>1. {} \cap Parents = {} /\ Cardinality({}) = 0
    BY FS_EmptySet
  <2> QED
    BY <2>1 DEF Init, CounterMatches, Occupancy
<1>2. TypeInv /\ ExchangeInv /\ CounterMatches /\ [Next]_vars => CounterMatches'
  <2> SUFFICES ASSUME TypeInv, ExchangeInv, CounterMatches, [Next]_vars
               PROVE  CounterMatches'
    OBVIOUS
  <2>1. CASE UNCHANGED <<m_clients, m_clientCounter>>
    BY <2>1 DEF CounterMatches, Occupancy
  <2>2. CASE CashierReceiveExit
    <3>1. TopMessage.senderPID \in Clients
      BY <2>2, TopOfQueue DEF TypeInv, TypeOK, CashierReceiveExit
    <3> QED
      BY <2>2, <3>1, RemoveKeepsCount DEF CashierReceiveExit, TypeInv
  <2>3. CASE CashierOpenBill \/ CashierBillAck
    <3>1. cur \in Clients
      BY <2>3 DEF CashierOpenBill, CashierBillAck, TypeInv, HandledIsKnown, Billing
    <3>2. RemoveClient(cur) \/ UNCHANGED <<m_clients, m_clientCounter>>
      BY <2>3 DEF CashierOpenBill, CashierBillAck, FinishExit
    <3> QED
      BY <2>1, <3>1, <3>2, RemoveKeepsCount DEF TypeInv
  <2>4. CASE CashierAdmit
    <3>1. /\ cur \in Clients /\ cur \notin m_clients
          /\ m_clients \in SUBSET Clients
          /\ m_clients' = m_clients \cup {cur}
          /\ m_clientCounter' = m_clientCounter + People(cur)
      BY <2>4, AdmittedOnce
         DEF CashierAdmit, RegisterClient, Admitting, TypeInv, TypeOK
    <3>2. Occupancy(m_clients \cup {cur}) = Occupancy(m_clients) + People(cur)
      BY <3>1, OccupancyJoin
    <3> QED
      BY <3>1, <3>2 DEF CounterMatches, Occupancy
  <2>5. CASE CashierSigTerm
    <3>1. m_clients' = {} /\ m_clientCounter' = 0
      BY <2>5 DEF CashierSigTerm
    <3>2. {} \cap Parents = {} /\ Cardinality({}) = 0
      BY FS_EmptySet
    <3> QED
      BY <3>1, <3>2 DEF CounterMatches, Occupancy
  <2>6. CASE \/ CashierClaim \/ CashierCreateQueue \/ CashierCheck
             \/ CashierWait \/ CashierReceiveTimeout \/ CashierReceiveEnter
             \/ CashierReceiveExitBill \/ CashierSendBill \/ CashierServeEnd
             \/ CashierServe \/ CashierSendPermit \/ CashierNoAck
             \/ CashierUnlink \/ CashierDeregister
    BY <2>1, <2>6
       DEF CashierClaim, CashierCreateQueue, CashierCheck, CashierWait,
           CashierReceiveTimeout, CashierReceiveEnter, CashierReceiveExitBill,
           CashierSendBill, CashierServeEnd, CashierServe, CashierSendPermit,
           CashierNoAck, CashierUnlink, CashierDeregister
  <2>7. CASE MainSigint \/ MainClosing \/ CashierSigUsr1
    BY <2>1, <2>7
       DEF MainSigint, MainClosing, MainKillCashier, MainOpenSemaphores,
           MainEnd, CashierSigUsr1
  <2> QED
    BY <2>1, <2>2, <2>3, <2>4, <2>5, <2>6, <2>7, ClientGone
       DEF Next, CashierStep, Ended, vars
<1> QED
  BY <1>1, <1>2

\* The counter every admission relies on is at all times the number of people
\* behind the entries of m_clients: since a client asks once and its request
\* is dropped when it is registered, nobody is counted in twice, and an exit
\* counts out only those who were (pRegisterClient, pRemoveClient,
\* HandleSigTerm).
THEOREM CounterAlwaysMatches == Spec => []CounterMatches
BY TypeInvInductive, ExchangeInvInductive, CounterInductive, PTL DEF Spec

-----------------------------------------------------------------------------
(* Who is registered *)

\* c is inside or on its way to say that it leaves, or its exit is waiting or
\* being handled.
Present(c) ==
  \/ pc[c] \in {"inPark", "visiting", "exitConnect", "exitSend"}
  \/ Exits(c)
  \/ Billing /\ cur = c

\* Nobody is registered before the queue exists; a client that is registered,
\* or whose ACK is about to register it, is present.
GhostInv ==
  /\ cpc \in {"init", "claimed"} => m_clients = {}
  /\ cpc \in CashierLoop =>
       \A c \in Clients : c \in m_clients \/ enterMQ[c] = "ack" => Present(c)

\* Sending and receiving keep an exit that waits, unless it is the message
\* received.
LEMMA ExitsKept ==
  ASSUME TypeInv, Sorted, NEW d \in Clients,
         \/ UNCHANGED registerMQ
         \/ \E c \in Clients : \E type \in RegisterMessageType : SendRegister(c, type)
         \/ MessageCount > 0 /\ ReceiveRegister /\ TopMessage # Exit(d)
  PROVE  Exits(d) => Exits(d)'
<1>1. CASE UNCHANGED registerMQ
  BY <1>1, MessagesKept
<1>2. ASSUME Holds(MessagesOf(d), Exit(d)) => Holds(MessagesOf(d), Exit(d))'
      PROVE  Exits(d) => Exits(d)'
  BY <1>2 DEF Exits, Holds, Exit
<1>3. CASE \E c \in Clients : \E type \in RegisterMessageType : SendRegister(c, type)
  <2> PICK c \in Clients, type \in RegisterMessageType : SendRegister(c, type)
    BY <1>3
  <2>1. Holds(MessagesOf(d), Exit(d)) => Holds(MessagesOf(d), Exit(d))'
    BY SendEffect
  <2> QED
    BY <1>2, <2>1
<1>4. CASE MessageCount > 0 /\ ReceiveRegister /\ TopMessage # Exit(d)
  <2>1. Holds(MessagesOf(d), Exit(d)) => Holds(MessagesOf(d), Exit(d))'
    BY <1>4, ReceiveEffect
  <2> QED
    BY <1>2, <2>1
<1> QED
  BY <1>1, <1>3, <1>4

\* A client that goes on leaves by way of its EXIT_PARK.
LEMMA ClientKeepsGhost ==
  ASSUME TypeInv, ExchangeInv, GhostInv, NEW c \in Clients, ClientStep(c)
  PROVE  GhostInv'
<1>1. /\ UNCHANGED <<cpc, cur, m_clients>> /\ Sorted
      /\ pc \in [Clients -> ClientPC] /\ enterMQ \in [Clients -> Slot]
  BY ClientGone DEF ExchangeInv, TypeInv, TypeOK
<1>2. \/ UNCHANGED registerMQ
      \/ \E type \in RegisterMessageType : SendRegister(c, type)
  BY DEF ClientStep, ClientStart, ClientConnect, ClientRequest,
         ClientRequestTimeout, ClientSignal, ClientReceive, ClientGiveUp,
         ClientAck, ClientVisit, ClientVisitEnd, ClientLeave,
         ClientExitConnect, ClientExitSend, ClientExitSignal,
         ClientExitReceive, ClientBillTimeout, ClientBillAck, ClientCleanup,
         RegisterMessageType
<1>3. SUFFICES ASSUME cpc \in CashierLoop, NEW d \in Clients,
                      d \in m_clients \/ enterMQ'[d] = "ack"
               PROVE  Present(d)'
  BY <1>1 DEF GhostInv, CashierLoop
<1>4. (Exits(d) => Exits(d)') /\ (Billing /\ cur = d => (Billing /\ cur = d)')
  BY <1>1, <1>2, ExitsKept DEF Billing
<1>5. ASSUME pc'[d] = pc[d], enterMQ'[d] # "ack" \/ enterMQ'[d] = enterMQ[d]
      PROVE  Present(d)'
  BY <1>1, <1>3, <1>4, <1>5 DEF GhostInv, Present
<1> USE DEF GoTo
<1>6. CASE d # c
  <2>1. pc'[d] = pc[d] /\ enterMQ'[d] = enterMQ[d]
    <3>1. CASE \/ ClientStart(c) \/ ClientConnect(c) \/ ClientRequest(c)
               \/ ClientRequestTimeout(c) \/ ClientSignal(c)
               \/ ClientReceive(c) \/ ClientGiveUp(c) \/ ClientAck(c)
      BY <1>1, <1>6, <3>1
         DEF ClientStart, ClientConnect, ClientRequest, ClientRequestTimeout,
             ClientSignal, ClientReceive, ClientGiveUp, ClientAck
    <3>2. CASE \/ ClientVisit(c) \/ ClientVisitEnd(c) \/ ClientLeave(c)
               \/ ClientExitConnect(c) \/ ClientExitSend(c)
               \/ ClientExitSignal(c) \/ ClientExitReceive(c)
               \/ ClientBillTimeout(c) \/ ClientBillAck(c) \/ ClientCleanup(c)
      BY <1>1, <1>6, <3>2
         DEF ClientVisit, ClientVisitEnd, ClientLeave, ClientExitConnect,
             ClientExitSend, ClientExitSignal, ClientExitReceive,
             ClientBillTimeout, ClientBillAck, ClientCleanup
    <3> QED
      BY <3>1, <3>2 DEF ClientStep
  <2> QED
    BY <1>5, <2>1
<1>7. CASE d = c /\ ClientAck(c)
  <2>1. pc'[d] = "inPark"
    BY <1>1, <1>7 DEF ClientAck
  <2> QED
    BY <2>1 DEF Present
<1>8. CASE d = c /\ ~ClientAck(c)
  <2>1. enterMQ'[d] \in {"empty", enterMQ[d]}
    BY <1>1, <1>8
       DEF ClientStep, ClientStart, ClientConnect, ClientRequest,
           ClientRequestTimeout, ClientSignal, ClientReceive, ClientGiveUp,
           ClientVisit, ClientVisitEnd, ClientLeave, ClientExitConnect,
           ClientExitSend, ClientExitSignal, ClientExitReceive,
           ClientBillTimeout, ClientBillAck, ClientCleanup, IfHeld
  <2>2. Present(d)
    BY <1>3, <2>1 DEF GhostInv
  <2>3. CASE ClientVisit(c) \/ ClientVisitEnd(c) \/ ClientLeave(c)
    <3>1. pc'[d] \in {"inPark", "visiting", "exitConnect"}
      BY <1>1, <1>8, <2>3 DEF ClientVisit, ClientVisitEnd, ClientLeave
    <3> QED
      BY <3>1 DEF Present
  <2>4. CASE ClientExitConnect(c)
    <3>1. pc'[d] = "exitSend"
      BY <1>1, <1>3, <1>8, <2>4
         DEF ClientExitConnect, RegisterLinked, CashierLoop
    <3> QED
      BY <3>1 DEF Present
  <2>5. CASE ClientExitSend(c)
    <3>1. SendRegister(c, "EXIT_PARK") /\ "EXIT_PARK" \in RegisterMessageType
      BY <2>5 DEF ClientExitSend, RegisterMessageType
    <3>2. Holds(MessagesOf(c), Exit(c))'
      BY <1>1, <3>1, SendEffect DEF Exit
    <3> QED
      BY <1>8, <3>2 DEF Present, Exits, Holds, Exit
  <2>6. CASE pc[d] \notin {"inPark", "visiting", "exitConnect", "exitSend"}
    BY <1>4, <2>2, <2>6 DEF Present
  <2> QED
    BY <1>8, <2>3, <2>4, <2>5, <2>6
       DEF ClientStep, ClientStart, ClientConnect, ClientRequest,
           ClientRequestTimeout, ClientSignal, ClientReceive, ClientGiveUp,
           ClientExitSignal, ClientExitReceive, ClientBillTimeout,
           ClientBillAck, ClientCleanup
<1> QED
  BY <1>6, <1>7, <1>8

\* The cashier forgets a client when it has handled its exit, and registers it
\* by the ACK the client sent when it went in.
LEMMA CashierKeepsGhost ==
  ASSUME TypeInv, ExchangeInv, GhostInv,
         CashierStep \/ CashierSigUsr1 \/ CashierSigTerm
  PROVE  GhostInv'
<1>1. /\ Sorted
      /\ pc \in [Clients -> ClientPC] /\ enterMQ \in [Clients -> Slot]
      /\ \A d \in Clients : enterMQ[d] = "ack" => cpc = "permitAck" /\ cur = d
      /\ Admitting \/ Billing => cur \in Clients
  BY DEF ExchangeInv, Books, EntrySlot, TypeInv, TypeOK, HandledIsKnown
<1>2. CASE /\ UNCHANGED <<pc, enterMQ, registerMQ, cur>>
           /\ m_clients' \subseteq m_clients /\ (Billing => Billing')
           /\ cpc' \in {"init", "claimed"} => cpc \in {"init", "claimed"}
           /\ cpc \in {"init", "claimed"} => m_clients = {}
           /\ cpc \notin CashierLoop => m_clients' = {} \/ cpc' \notin CashierLoop
  <2>1. ASSUME NEW d \in Clients PROVE Present(d) => Present(d)'
    BY <1>1, <1>2, <2>1, ExitsKept DEF Present
  <2>2. ASSUME cpc' \in CashierLoop, NEW d \in Clients,
               d \in m_clients' \/ enterMQ'[d] = "ack"
        PROVE  Present(d)'
    <3>1. cpc \in CashierLoop
      BY <1>1, <1>2, <2>2 DEF CashierLoop
    <3> QED
      BY <1>2, <2>1, <2>2, <3>1 DEF GhostInv
  <2> QED
    BY <1>2, <2>2 DEF GhostInv
<1>3. CASE \/ CashierClaim \/ CashierCreateQueue \/ CashierCheck
           \/ CashierWait \/ CashierReceiveTimeout \/ CashierServeEnd
           \/ CashierUnlink \/ CashierDeregister \/ CashierSigUsr1
           \/ CashierSigTerm
  <2>1. /\ UNCHANGED <<pc, enterMQ, registerMQ, cur>>
        /\ m_clients' \subseteq m_clients /\ (Billing => Billing')
        /\ cpc' \in {"init", "claimed"} => cpc \in {"init", "claimed"}
        /\ cpc \notin CashierLoop => cpc' \notin CashierLoop \/ cpc = "claimed"
    BY <1>3
       DEF CashierClaim, CashierCreateQueue, CashierCheck, CashierWait,
           CashierReceiveTimeout, CashierServeEnd, CashierUnlink,
           CashierDeregister, CashierSigUsr1, CashierSigTerm, Interrupt,
           Billing, CashierLoop
  <2>2. cpc \in {"init", "claimed"} => m_clients = {}
    BY DEF GhostInv
  <2> QED
    BY <1>2, <2>1, <2>2
\* From here on the cashier is in its loop, and stays there.
<1>4. ASSUME cpc \in CashierLoop, cpc' \in CashierLoop,
             \A d \in Clients :
               d \in m_clients' \/ enterMQ'[d] = "ack" => Present(d)'
      PROVE  GhostInv'
  BY <1>4 DEF GhostInv, CashierLoop
<1>5. CASE CashierReceiveEnter \/ CashierReceiveExit \/ CashierReceiveExitBill
  <2>1. /\ MessageCount > 0 /\ ReceiveRegister /\ cpc = "recv"
        /\ cpc' \in {"serve", "openBill"} /\ UNCHANGED <<pc, enterMQ>>
        /\ m_clients' \subseteq m_clients
    BY <1>5 DEF CashierReceiveEnter, CashierReceiveExit, CashierReceiveExitBill,
                RemoveClient
  <2>2. TopMessage \in RegisterMQMessage
    BY <2>1, TopOfQueue DEF TypeInv, TypeOK
  <2>3. ASSUME NEW d \in Clients, d \in m_clients', ~Present(d)'
        PROVE  FALSE
    <3>1. Present(d) /\ ~Billing
      BY <2>1, <2>3 DEF GhostInv, CashierLoop, Billing
    <3>2. Exits(d) /\ ~Exits(d)'
      BY <2>1, <2>3, <3>1 DEF Present
    <3>3. TopMessage = Exit(d)
      BY <1>1, <2>1, <3>2, ExitsKept
    <3>4. TopMessage.mType = "EXIT_PARK" /\ TopMessage.senderPID = d
      BY <3>3 DEF Exit
    <3>5. CASE CashierReceiveExit
      BY <2>3, <3>4, <3>5 DEF CashierReceiveExit, RemoveClient
    <3>6. CASE CashierReceiveExitBill
      BY <2>3, <3>4, <3>6 DEF CashierReceiveExitBill, Present, Billing
    <3>7. CASE CashierReceiveEnter
      BY <3>4, <3>7 DEF CashierReceiveEnter
    <3> QED
      BY <1>5, <3>5, <3>6, <3>7
  <2> QED
    BY <1>1, <1>4, <2>1, <2>3 DEF CashierLoop
<1>6. CASE CashierOpenBill \/ CashierSendBill \/ CashierBillAck
  <2>1. /\ cpc \in {"openBill", "bill", "billAck"}
        /\ UNCHANGED <<registerMQ, enterMQ>>
        /\ \/ cpc' \in {"bill", "billAck"} /\ cur' = cur /\ UNCHANGED m_clients
           \/ cpc' = "serve" /\ m_clients' = m_clients \ {cur}
        /\ \A d \in Clients : d # cur => pc'[d] = pc[d]
    BY <1>1, <1>6
       DEF CashierOpenBill, CashierSendBill, CashierBillAck, FinishExit,
           RemoveClient, Billing
  <2>2. ASSUME NEW d \in Clients, d \in m_clients'
        PROVE  Present(d)'
    <3>1. CASE d # cur
      <4>1. Present(d)
        BY <2>1, <2>2, <3>1 DEF GhostInv, CashierLoop
      <4> QED
        BY <1>1, <2>1, <3>1, <4>1, ExitsKept DEF Present
    <3>2. CASE d = cur
      BY <2>1, <2>2, <3>2 DEF Present, Billing
    <3> QED
      BY <3>1, <3>2
  <2> QED
    BY <1>1, <1>4, <2>1, <2>2 DEF CashierLoop
<1>7. CASE CashierServe \/ CashierSendPermit \/ CashierAdmit \/ CashierNoAck
  <2>1. /\ cpc \in {"serve", "permit", "permitAck"}
        /\ cpc' \in {"serve", "permit", "permitAck"}
        /\ UNCHANGED registerMQ
        /\ \A d \in Clients : pc'[d] = pc[d] \/ pc[d] = "blocked"
        /\ \A d \in Clients : enterMQ'[d] = "ack" => enterMQ[d] = "ack"
        /\ \A d \in Clients :
             d \in m_clients' => d \in m_clients \/ enterMQ[d] = "ack"
    <3>1. CASE CashierServe
      BY <3>1 DEF CashierServe
    <3>2. CASE CashierSendPermit
      <4>1. cur \in Clients
        BY <1>1, <3>2 DEF CashierSendPermit, Admitting
      <4> QED
        BY <1>1, <3>2, <4>1 DEF CashierSendPermit, FinishRequest
    <3>3. CASE CashierAdmit \/ CashierNoAck
      BY <1>1, <3>3
         DEF CashierAdmit, CashierNoAck, RegisterClient, FinishRequest
    <3> QED
      BY <1>7, <3>1, <3>2, <3>3
  <2>2. ASSUME NEW d \in Clients, d \in m_clients' \/ enterMQ'[d] = "ack"
        PROVE  Present(d)'
    <3>1. Present(d)
      BY <2>1, <2>2 DEF GhostInv, CashierLoop
    <3>2. Exits(d) \/ pc[d] \in {"inPark", "visiting", "exitConnect", "exitSend"}
      BY <2>1, <3>1 DEF Present, Billing
    <3> QED
      BY <1>1, <2>1, <3>2, ExitsKept DEF Present
  <2> QED
    BY <1>4, <2>1, <2>2 DEF CashierLoop
<1> QED
  BY <1>3, <1>5, <1>6, <1>7 DEF CashierStep

\* GhostInv is inductive.
LEMMA GhostInvInductive ==
  /\ Init => GhostInv
  /\ TypeInv /\ ExchangeInv /\ GhostInv /\ [Next]_vars => GhostInv'
<1>1. Init => GhostInv
  BY DEF Init, GhostInv, CashierLoop
<1>2. TypeInv /\ ExchangeInv /\ GhostInv /\ [Next]_vars => GhostInv'
  <2> SUFFICES ASSUME TypeInv, ExchangeInv, GhostInv, [Next]_vars PROVE GhostInv'
    OBVIOUS
  <2>1. CASE UNCHANGED <<registerMQ, enterMQ, pc, cpc, cur, m_clients>>
    BY <2>1, MessagesKept DEF GhostInv, Present, Billing
  <2>2. CASE MainSigint \/ MainClosing
    BY <2>1, <2>2
       DEF MainSigint, MainClosing, MainKillCashier, MainOpenSemaphores, MainEnd
  <2> QED
    BY <2>1, <2>2, ClientKeepsGhost, CashierKeepsGhost DEF Next, Ended, vars
<1> QED
  BY <1>1, <1>2

\* While the cashier works no entry of m_clients stands for a client that is
\* gone for good: a client is registered only by the ACK it sent on its way
\* in, it leaves only by an EXIT_PARK the queue takes, and it is forgotten in
\* the step that ends the handling of this one message, with or without a bill.
THEOREM NobodyHaunts == Spec => []NoGhosts
<1>1. GhostInv /\ TypeInv => NoGhosts
  <2> SUFFICES ASSUME GhostInv, TypeInv, cpc \in CashierLoop, NEW c \in m_clients
               PROVE  \/ pc[c] \in {"inPark", "visiting", "exitConnect", "exitSend"}
                      \/ ExitPending(c)
                      \/ cur = c /\ cpc \in {"openBill", "bill", "billAck"}
    BY DEF NoGhosts
  <2>1. c \in Clients /\ Present(c)
    BY DEF GhostInv, TypeInv, TypeOK
  <2>2. Exits(c) => ExitPending(c)
    BY <2>1, QueuesOf DEF Exits, ExitPending, MessagesOf, Holds, Exit
  <2> QED
    BY <2>1, <2>2 DEF Present, Billing
<1> QED
  BY <1>1, TypeInvInductive, ExchangeInvInductive, GhostInvInductive, PTL DEF Spec

-----------------------------------------------------------------------------
(* Whose turn it is *)

\* Before the first round of admission nobody waits; after one, the request
\* that comes next does not fit.
IdleInv ==
  /\ cpc \in {"init", "claimed", "check", "semwait", "recv"} /\ ~m_terminated
     /\ (m_enterVipQueue # <<>> \/ m_enterQueue # <<>>)
       => ~Fits(NextRequest)

\* Between two rounds of admission no request is left that fits: the round
\* goes on until the first request finds the park full, and neither the space
\* nor the requests change before the next message (the loops of
\* CashierProc::Run); only SIGTERM empties the park without a round, and it
\* ends the cashier.
THEOREM SpaceNeverIdle == Spec => []NoIdleSpace
<1>1. Init => IdleInv
  BY DEF Init, IdleInv
<1>2. TypeInv /\ IdleInv /\ [Next]_vars => IdleInv'
  <2> SUFFICES ASSUME TypeInv, IdleInv, [Next]_vars PROVE IdleInv'
    OBVIOUS
  <2>1. CASE /\ UNCHANGED <<m_clientCounter, m_enterVipQueue, m_enterQueue,
                            m_terminated>>
             /\ \/ cpc' \notin {"init", "claimed", "check", "semwait", "recv"}
                \/ cpc \in {"init", "claimed", "check", "semwait", "recv"}
    BY <2>1 DEF IdleInv, Fits, NextRequest
  <2>2. CASE \/ CashierClaim \/ CashierCreateQueue \/ CashierCheck
             \/ CashierWait \/ CashierReceiveTimeout \/ CashierReceiveExitBill
             \/ CashierSendBill \/ CashierUnlink \/ CashierDeregister
    BY <2>1, <2>2
       DEF CashierClaim, CashierCreateQueue, CashierCheck, CashierWait,
           CashierReceiveTimeout, CashierReceiveExitBill, CashierSendBill,
           CashierUnlink, CashierDeregister
  <2>3. CASE \/ CashierReceiveEnter \/ CashierReceiveExit \/ CashierOpenBill
             \/ CashierBillAck \/ CashierServe \/ CashierSendPermit
             \/ CashierAdmit \/ CashierNoAck
    <3>1. cpc' \in {"serve", "bill", "permit", "permitAck"}
      BY <2>3
         DEF CashierReceiveEnter, CashierReceiveExit, CashierOpenBill,
             CashierBillAck, FinishExit, CashierServe, CashierSendPermit,
             CashierAdmit, CashierNoAck, FinishRequest
    <3> QED
      BY <3>1 DEF IdleInv
  <2>4. CASE CashierServeEnd
    <3>1. /\ \/ m_enterVipQueue = <<>> /\ m_enterQueue = <<>>
             \/ ~Fits(NextRequest)
          /\ UNCHANGED <<m_clientCounter, m_enterVipQueue, m_enterQueue>>
      BY <2>4 DEF CashierServeEnd
    <3> QED
      BY <3>1 DEF IdleInv, Fits, NextRequest
  <2>5. CASE CashierSigTerm
    BY <2>5 DEF CashierSigTerm, IdleInv
  <2>6. CASE CashierSigUsr1
    BY <2>1, <2>6 DEF CashierSigUsr1, Interrupt
  <2>7. CASE MainSigint \/ MainClosing
    BY <2>1, <2>7
       DEF MainSigint, MainClosing, MainKillCashier, MainOpenSemaphores, MainEnd
  <2>8. CASE \E c \in Clients : ClientStep(c)
    BY <2>1, <2>8, ClientGone
  <2> QED
    BY <2>1, <2>2, <2>3, <2>4, <2>5, <2>6, <2>7, <2>8
       DEF Next, CashierStep, Ended, vars
<1>3. IdleInv => NoIdleSpace
  <2>1. Requests # {} => m_enterVipQueue # <<>> \/ m_enterQueue # <<>>
    BY DEF Requests
  <2> QED
    BY <2>1 DEF IdleInv, NoIdleSpace
<1> QED
  BY <1>1, <1>2, <1>3, TypeInvInductive, PTL DEF Spec

\* While a client without VIP status is being admitted no VIP waits.
VipInv == Admitting /\ cur \notin Vips => m_enterVipQueue = <<>>

\* A client without VIP status is registered only while no request of a VIP
\* waits: the cashier reads no message between taking up a request and
\* registering the client (Run, pRegisterClient).
THEOREM VipsGoFirst == Spec => VipsFirst
<1>1. Init => VipInv
  BY DEF Init, VipInv, Admitting
<1>2. TypeInv /\ VipInv /\ [Next]_vars => VipInv'
  <2> SUFFICES ASSUME TypeInv, VipInv, [Next]_vars PROVE VipInv'
    OBVIOUS
  <2>1. CASE UNCHANGED <<cur, m_enterVipQueue>> /\ (Admitting' => Admitting)
    BY <2>1 DEF VipInv
  <2>2. CASE ~Admitting'
    BY <2>2 DEF VipInv
  <2>3. CASE CashierServe
    <3>1. CASE linked[NextRequest] = "enter"
      <4>1. NextRequest \notin Vips => m_enterVipQueue = <<>>
        <5>1. m_enterVipQueue # <<>> => Head(m_enterVipQueue) \in Vips
          BY DEF TypeInv, TypeOK
        <5> QED
          BY <5>1 DEF NextRequest
      <4> QED
        BY <2>3, <3>1, <4>1 DEF CashierServe, VipInv
    <3>2. CASE linked[NextRequest] # "enter"
      BY <2>2, <2>3, <3>2 DEF CashierServe, Admitting
    <3> QED
      BY <3>1, <3>2
  <2>4. CASE CashierSendPermit
    BY <2>1, <2>2, <2>4 DEF CashierSendPermit, FinishRequest, Admitting
  <2>5. CASE CashierStep /\ ~CashierServe /\ ~CashierSendPermit
    BY <2>2, <2>5
       DEF CashierStep, CashierClaim, CashierCreateQueue, CashierCheck,
           CashierWait, CashierReceiveTimeout, CashierReceiveEnter,
           CashierReceiveExit, CashierReceiveExitBill, CashierOpenBill,
           CashierSendBill, CashierBillAck, FinishExit, CashierServeEnd,
           CashierAdmit, CashierNoAck, FinishRequest, CashierUnlink,
           CashierDeregister, Admitting
  <2>6. CASE CashierSigUsr1 \/ CashierSigTerm
    BY <2>1, <2>6
       DEF CashierSigUsr1, CashierSigTerm, Interrupt, Admitting
  <2>7. CASE MainSigint \/ MainClosing
    BY <2>1, <2>7
       DEF MainSigint, MainClosing, MainKillCashier, MainOpenSemaphores,
           MainEnd, Admitting
  <2>8. CASE \E c \in Clients : ClientStep(c)
    BY <2>1, <2>8, ClientGone DEF Admitting
  <2>9. CASE UNCHANGED vars
    BY <2>1, <2>9 DEF vars, Admitting
  <2> QED
    BY <2>3, <2>4, <2>5, <2>6, <2>7, <2>8, <2>9 DEF Next, Ended
<1>3. TypeInv /\ VipInv /\ [Next]_vars
        => [m_clients' \ m_clients \subseteq Vips \/ m_enterVipQueue = <<>>]_vars
  <2> SUFFICES ASSUME TypeInv, VipInv, [Next]_vars
               PROVE  m_clients' \subseteq m_clients
                        \/ m_clients' \ m_clients \subseteq Vips
                        \/ m_enterVipQueue = <<>>
    OBVIOUS
  <2>1. CASE CashierAdmit
    BY <2>1 DEF CashierAdmit, RegisterClient, VipInv, Admitting
  <2>2. CASE CashierStep /\ ~CashierAdmit
    BY <2>2
       DEF CashierStep, CashierClaim, CashierCreateQueue, CashierCheck,
           CashierWait, CashierReceiveTimeout, CashierReceiveEnter,
           CashierReceiveExit, CashierReceiveExitBill, CashierOpenBill,
           CashierSendBill, CashierBillAck, FinishExit, RemoveClient,
           CashierServeEnd, CashierServe, CashierSendPermit, CashierNoAck,
           CashierUnlink, CashierDeregister
  <2>3. CASE MainSigint \/ MainClosing \/ CashierSigUsr1 \/ CashierSigTerm
    BY <2>3
       DEF MainSigint, MainClosing, MainKillCashier, MainOpenSemaphores,
           MainEnd, CashierSigUsr1, CashierSigTerm
  <2>4. CASE \E c \in Clients : ClientStep(c)
    BY <2>4, ClientGone
  <2>5. CASE UNCHANGED vars
    BY <2>5 DEF vars
  <2> QED
    BY <2>1, <2>2, <2>3, <2>4, <2>5 DEF Next, Ended
<1> QED
  BY <1>1, <1>2, <1>3, TypeInvInductive, PTL DEF Spec, VipsFirst
=============================================================================
