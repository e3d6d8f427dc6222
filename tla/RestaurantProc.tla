--------------------------- MODULE RestaurantProc ---------------------------
(***************************************************************************)
(* The restaurant process (app/restaurant) with its handler, from the      *)
(* moment it is registered:                                                *)
(*                                                                         *)
(*   check, wait, sweep     the loop test, the event, a finished sitting   *)
(*   recv                   pHandleRestaurantMQ                            *)
(*   openBill, bill, billAck                      pSendBill                *)
(*   decide, serve, finish, start                 pCreateAttractionHandler *)
(*   permit, refuse, ack                          pRegisterClient          *)
(*   close, done            pCloseImpl                                     *)
(***************************************************************************)
EXTENDS RestaurantState

Replying == {"permit", "refuse", "bill"}
Serving == {"serve", "permit", "refuse", "ack", "finish"}
RestaurantPC == {"check", "wait", "sweep", "recv", "openBill", "billAck",
                 "decide", "start", "close", "done"} \cup Serving \cup Replying

Continue(from, to) ==
  /\ rpc = from
  /\ rpc' = to
  /\ UNCHANGED <<mpc, sharedVars, flagVars, handlerVars, m_enterQueue,
                 replyVars, clientVars>>

-----------------------------------------------------------------------------
(* Run *)

LoopTest == isOpen \/ (m_handler /\ Listed # {})

\* pGetNextTimeout is -1, wait for ever, without a sitting, and also when the
\* sitting was over one second ago.
RestaurantCheck ==
  /\ rpc = "check"
  /\ LoopTest
  /\ noTimeout' \in IF ~m_handler THEN {TRUE}
                    ELSE IF over THEN BOOLEAN ELSE {FALSE}
  /\ rpc' = "wait"
  /\ UNCHANGED <<mpc, sharedVars, paused, evac, handlerVars, m_enterQueue,
                 replyVars, clientVars>>

RestaurantStop == ~LoopTest /\ Continue("check", "close")

RestaurantWait ==
  /\ rpc = "wait"
  /\ eventSem > 0
  /\ eventSem' = eventSem - 1
  /\ rpc' = "sweep"
  /\ UNCHANGED <<mpc, restaurantMQ, leaveSem, replyMQ, linked, flagVars,
                 handlerVars, m_enterQueue, replyVars, clientVars>>

\* The time was up at the latest when the sitting was over.
RestaurantWaitTimeout == ~noTimeout /\ over /\ Continue("wait", "sweep")

\* Once only: a unit for everybody on the list.  For an empty list that is semop
\* with 0, which waits for zero.
ReleaseClients ==
  IF released THEN UNCHANGED leaveSem
  ELSE /\ Listed = {} => leaveSem = 0
       /\ leaveSem' = leaveSem + Cardinality(Listed)

Finished == m_handler /\ (over \/ Listed = {})

RestaurantSweep_StillReleased ==
  /\ rpc = "sweep"
  /\ ~evac /\ ~paused /\ Finished
  /\ ReleaseClients
  /\ m_handler' = FALSE
  /\ m_clientList' = [c \in Clients |-> "absent"]
  /\ over' = FALSE
  /\ rpc' = "recv"
  /\ UNCHANGED <<mpc, eventSem, restaurantMQ, replyMQ, linked, flagVars,
                 released, m_enterQueue, replyVars, clientVars>>

RestaurantSweep ==
  /\ rpc = "sweep"
  /\ ~evac /\ ~paused /\ Finished
  /\ ReleaseClients
  /\ m_handler' = FALSE
  /\ m_clientList' = [c \in Clients |-> "absent"]
  /\ over' = FALSE
  /\ released' = FALSE
  /\ rpc' = "recv"
  /\ UNCHANGED <<mpc, eventSem, restaurantMQ, replyMQ, linked, flagVars,
                 m_enterQueue, replyVars, clientVars>>

RestaurantKeep_PausedUnread ==
  (evac \/ paused \/ ~Finished)
    /\ Continue("sweep", IF paused THEN "check" ELSE "recv")

RestaurantKeep == (evac \/ paused \/ ~Finished) /\ Continue("sweep", "recv")

-----------------------------------------------------------------------------
(* pHandleRestaurantMQ, also when paused *)

RestaurantReceiveTimeout == MessageCount = 0 /\ Continue("recv", "decide")

Receives(type) ==
  /\ rpc = "recv"
  /\ MessageCount > 0
  /\ Head(restaurantMQ).mType = type
  /\ restaurantMQ' = Tail(restaurantMQ)

RestaurantReceiveEnter ==
  /\ Receives("ENTER_RESTAURANT")
  /\ m_enterQueue' = Append(m_enterQueue, Head(restaurantMQ))
  /\ rpc' = "decide"
  /\ UNCHANGED <<mpc, eventSem, leaveSem, replyMQ, linked, flagVars,
                 handlerVars, replyVars, clientVars>>

RemoveClient(c) ==
  m_clientList' = IF m_handler THEN [m_clientList EXCEPT ![c] = "absent"]
                               ELSE m_clientList

\* A client of the sitting that came from outside gets a bill first.
RestaurantReceiveExit ==
  /\ Receives("EXIT_RESTAURANT")
  /\ LET c == Head(restaurantMQ).senderPID IN
       IF m_handler /\ m_clientList[c] = "outside"
       THEN rpc' = "openBill" /\ cur' = c /\ UNCHANGED m_clientList
       ELSE rpc' = "decide" /\ RemoveClient(c) /\ UNCHANGED cur
  /\ UNCHANGED <<mpc, eventSem, leaveSem, replyMQ, linked, flagVars, m_handler,
                 over, released, m_enterQueue, attached, orphan, clientVars>>

-----------------------------------------------------------------------------
(* Answering a client: pCreateReplyMQ, pSendReply, and its acknowledgement *)

Detach == cur' = NoClient /\ attached' = FALSE /\ orphan' = "empty"

\* pRegisterClient returned true: the request is erased.
FinishRequest(list) ==
  /\ m_clientList' = list
  /\ m_enterQueue' = Tail(m_enterQueue)
  /\ rpc' = "serve"
  /\ Detach

FinishBill_StillListed ==
  /\ UNCHANGED <<m_clientList, m_enterQueue>>
  /\ rpc' = "decide"
  /\ Detach

\* pSendBill returned: pRemoveClient.
FinishBill ==
  /\ RemoveClient(cur)
  /\ UNCHANGED m_enterQueue
  /\ rpc' = "decide"
  /\ Detach

\* A client without a reply queue (ENOENT) gets no bill.
RestaurantOpenBill ==
  /\ rpc = "openBill"
  /\ \/ /\ cur \in linked
        /\ attached' = TRUE
        /\ rpc' = "bill"
        /\ UNCHANGED <<m_clientList, m_enterQueue, cur, orphan>>
     \/ cur \notin linked /\ FinishBill
  /\ UNCHANGED <<mpc, sharedVars, flagVars, m_handler, over, released,
                 clientVars>>

ReplySlot == IF attached THEN replyMQ[cur] ELSE orphan

Message == CASE rpc = "permit" -> "permit"
             [] rpc = "refuse" -> "refusal"
             [] OTHER          -> "bill"

\* A refused client is not expected to answer.
Sent(slot) ==
  IF rpc = "refuse" THEN FinishRequest(m_clientList)
  ELSE /\ rpc' = IF rpc = "permit" THEN "ack" ELSE "billAck"
       /\ orphan' = slot
       /\ UNCHANGED <<m_clientList, m_enterQueue, cur, attached>>

\* A client blocked in its receive gets the reply at once.
RestaurantReplyHanded ==
  /\ rpc \in Replying
  /\ attached
  /\ pc[cur] \in {"blocked", "billBlocked"}
  /\ pc' = [pc EXCEPT ![cur] = AfterReading(@, Message)]
  /\ Sent("empty")
  /\ UNCHANGED <<mpc, sharedVars, flagVars, m_handler, over, released,
                 fromPark, visits>>

\* Otherwise it lies in the queue, whoever has it open.
RestaurantReplyQueued ==
  /\ rpc \in Replying
  /\ attached => pc[cur] \notin {"blocked", "billBlocked"}
  /\ ReplySlot = "empty"
  /\ replyMQ' = IF attached THEN [replyMQ EXCEPT ![cur] = Message] ELSE replyMQ
  /\ Sent(IF attached THEN "empty" ELSE Message)
  /\ UNCHANGED <<mpc, eventSem, restaurantMQ, leaveSem, linked, flagVars,
                 m_handler, over, released, clientVars>>

\* The queue stays full until DEFAULT_MQ_TIMEOUT.
RestaurantReplyTimeout ==
  /\ rpc \in Replying
  /\ ReplySlot # "empty"
  /\ IF rpc = "bill" THEN FinishBill ELSE FinishRequest(m_clientList)
  /\ UNCHANGED <<mpc, sharedVars, flagVars, m_handler, over, released,
                 clientVars>>

AddClient(c, from) ==
  IF c \in Listed THEN m_clientList
  ELSE [m_clientList EXCEPT ![c] = IF from THEN "park" ELSE "outside"]

\* The reply: an ACK, the restaurant's own message, or nothing in time.
RestaurantAck ==
  /\ \/ /\ rpc = "ack"
        /\ FinishRequest(IF ReplySlot = "ack"
                         THEN AddClient(cur, Head(m_enterQueue).fromPark)
                         ELSE m_clientList)
     \/ rpc = "billAck" /\ FinishBill
  /\ replyMQ' = IF attached THEN [replyMQ EXCEPT ![cur] = "empty"] ELSE replyMQ
  /\ UNCHANGED <<mpc, eventSem, restaurantMQ, leaveSem, linked, flagVars,
                 m_handler, over, released, clientVars>>

-----------------------------------------------------------------------------
(* pCreateAttractionHandler *)

RestaurantDecide ==
  (m_handler \/ paused \/ evac) /\ Continue("decide", "check")

RestaurantCreate_NoReset ==
  /\ ~m_handler /\ ~paused /\ ~evac
  /\ Continue("decide", "serve")

RestaurantCreate ==
  /\ rpc = "decide"
  /\ ~m_handler /\ ~paused /\ ~evac
  /\ leaveSem' = 0
  /\ rpc' = "serve"
  /\ UNCHANGED <<mpc, eventSem, restaurantMQ, replyMQ, linked, flagVars,
                 handlerVars, m_enterQueue, replyVars, clientVars>>

Fits_Full(c) == People(Listed) < MaxClients
Fits(c) == People(Listed) + People({c}) <= MaxClients

\* With the park closed there is no look at the seats: everybody is refused.
RestaurantServeEnd ==
  /\ m_enterQueue # <<>> => isOpen /\ ~Fits(Head(m_enterQueue).senderPID)
  /\ Continue("serve", "finish")

RestaurantServe ==
  /\ rpc = "serve"
  /\ m_enterQueue # <<>>
  /\ LET c == Head(m_enterQueue).senderPID IN
       /\ isOpen => Fits(c)
       /\ \/ /\ c \in linked
             /\ cur' = c
             /\ attached' = TRUE
             /\ rpc' = IF isOpen THEN "permit" ELSE "refuse"
             /\ UNCHANGED <<m_clientList, m_enterQueue, orphan>>
          \/ c \notin linked /\ FinishRequest(m_clientList)
  /\ UNCHANGED <<mpc, sharedVars, flagVars, m_handler, over, released,
                 clientVars>>

\* A sitting nobody joined is destroyed: its Signal(0) waits for zero.
RestaurantDiscard ==
  Listed = {} /\ leaveSem = 0 /\ Continue("finish", "check")

RestaurantAssign ==
  /\ rpc = "finish"
  /\ Listed # {}
  /\ m_handler' = TRUE
  /\ rpc' = "start"
  /\ UNCHANGED <<mpc, sharedVars, flagVars, over, released, m_clientList,
                 m_enterQueue, replyVars, clientVars>>

\* StartAttraction
RestaurantStart ==
  /\ rpc = "start"
  /\ leaveSem' = 0
  /\ rpc' = "check"
  /\ UNCHANGED <<mpc, eventSem, restaurantMQ, replyMQ, linked, flagVars,
                 handlerVars, m_enterQueue, replyVars, clientVars>>

RestaurantClose == Continue("close", "done")

SittingEnds ==
  /\ m_handler /\ ~over /\ rpc # "start"
  /\ over' = TRUE
  /\ UNCHANGED <<mpc, sharedVars, rpc, flagVars, m_handler, released,
                 m_clientList, m_enterQueue, replyVars, clientVars>>

-----------------------------------------------------------------------------
(* Signals.  The wait on the event is not retried after a signal; a signal   *)
(* just before semop does not end it.                                        *)

Interrupted == IF rpc = "wait" THEN {"wait", "sweep"} ELSE {rpc}

\* CloseAttraction: the clients may go, the sitting and its list stay.
RestaurantSigUsr1 ==
  /\ PauseSent /\ rpc # "done"
  /\ paused' = TRUE
  /\ IF m_handler THEN ReleaseClients /\ released' = TRUE
                  ELSE UNCHANGED <<leaveSem, released>>
  /\ rpc' \in Interrupted
  /\ UNCHANGED <<mpc, eventSem, restaurantMQ, replyMQ, linked, evac, noTimeout,
                 m_handler, over, m_clientList, m_enterQueue, replyVars,
                 clientVars>>

RestaurantSigUsr2 ==
  /\ PauseSent /\ rpc # "done"
  /\ paused' = FALSE
  /\ rpc' \in Interrupted
  /\ UNCHANGED <<mpc, sharedVars, evac, noTimeout, handlerVars, m_enterQueue,
                 replyVars, clientVars>>

\* HandleSigint also signals the listed clients from outside; that can only end
\* a wait of theirs early, as their own time may at any moment.
RestaurantSigInt ==
  /\ evac' = TRUE
  /\ rpc' \in Interrupted
  /\ UNCHANGED <<paused, noTimeout, handlerVars, m_enterQueue, replyVars>>

RestaurantStep ==
  \/ RestaurantCheck \/ RestaurantStop \/ RestaurantWait
  \/ RestaurantWaitTimeout \/ RestaurantSweep \/ RestaurantKeep
  \/ RestaurantReceiveTimeout \/ RestaurantReceiveEnter
  \/ RestaurantReceiveExit \/ RestaurantOpenBill \/ RestaurantReplyHanded
  \/ RestaurantReplyQueued \/ RestaurantReplyTimeout \/ RestaurantAck
  \/ RestaurantDecide \/ RestaurantCreate \/ RestaurantServeEnd
  \/ RestaurantServe \/ RestaurantDiscard \/ RestaurantAssign
  \/ RestaurantStart \/ RestaurantClose
=============================================================================
