--------------------------- MODULE AttractionProc ---------------------------
(***************************************************************************)
(* The attraction process (app/attraction) with its handlers               *)
(* (lib/AttractionHandler), from the moment it is registered:              *)
(*                                                                         *)
(*   check, wait, sweep     the loop test, the event, finished handlers    *)
(*   recv, decide           pHandleAttraction                              *)
(*   create, serve, finish  pCreateNewHandler                              *)
(*   permit, ack            pRegisterClient                                *)
(*   start, log             the handler is in the map, the ride starts     *)
(*   close, done            pCloseImpl                                     *)
(*   crashed                a null handler was used                        *)
(***************************************************************************)
EXTENDS RideState

AttractionPC == {"check", "wait", "sweep", "recv", "decide", "create", "serve",
                 "finish", "permit", "ack", "start", "log", "close", "done",
                 "crashed"}

\* Going on to another point of Run with nothing but the counter changed.
Continue(from, to) ==
  /\ apc = from
  /\ apc' = to
  /\ UNCHANGED <<mpc, sharedVars, paused, noTimeout, handlerVars, m_enterQueue,
                 replyVars, clientVars>>

-----------------------------------------------------------------------------
(* Run *)

\* pGetNextTimeout is -1, wait for ever, when no ride is running, and also when
\* the first one to finish did so one second ago.
NextTimeoutIsNone ==
  IF running = {} THEN {TRUE} ELSE IF over = {} THEN {FALSE} ELSE BOOLEAN

AttractionCheck ==
  /\ apc = "check"
  /\ isOpen
  /\ noTimeout' \in NextTimeoutIsNone
  /\ apc' = "wait"
  /\ UNCHANGED <<mpc, sharedVars, paused, handlerVars, m_enterQueue, replyVars,
                 clientVars>>

AttractionStop == ~isOpen /\ Continue("check", "close")

AttractionWait_NeverBlocks ==
  /\ apc = "wait"
  /\ eventSem' = eventSem - 1
  /\ apc' = "sweep"
  /\ UNCHANGED <<mpc, attractionMQ, leaveSem, replyMQ, linked, paused,
                 noTimeout, handlerVars, m_enterQueue, replyVars, clientVars>>

AttractionWait ==
  /\ apc = "wait"
  /\ eventSem > 0
  /\ eventSem' = eventSem - 1
  /\ apc' = "sweep"
  /\ UNCHANGED <<mpc, attractionMQ, leaveSem, replyMQ, linked, paused,
                 noTimeout, handlerVars, m_enterQueue, replyVars, clientVars>>

AttractionWaitTimeout ==
  /\ ~noTimeout
  /\ over # {} \/ running = {}
  /\ Continue("wait", "sweep")

\* Destroying the handlers of S: ReleaseClients gives every client on the list
\* a unit.  For an empty list that is semop with 0, which waits for zero.
ReleaseClients(S) ==
  /\ \A h \in S : m_clientList[h] = {} => leaveSem[h] = 0
  /\ leaveSem' = [h \in Handlers |->
                    leaveSem[h] + IF h \in S THEN Cardinality(m_clientList[h])
                                             ELSE 0]
  /\ m_clientList' = [h \in Handlers |->
                        IF h \in S THEN {} ELSE m_clientList[h]]

Finished == {h \in running : h \in over \/ m_clientList[h] = {}}

\* Finished handlers are destroyed; a paused attraction does nothing else.
AttractionSweep ==
  /\ apc = "sweep"
  /\ ReleaseClients(Finished)
  /\ running' = running \ Finished
  /\ over' = over \ Finished
  /\ apc' = IF paused THEN "check" ELSE "recv"
  /\ UNCHANGED <<mpc, eventSem, attractionMQ, replyMQ, linked, paused,
                 noTimeout, newHandlerID, newClients, m_enterQueue, replyVars,
                 clientVars>>

-----------------------------------------------------------------------------
(* pHandleAttractionMQ *)

AttractionReceiveTimeout ==
  /\ MessageCount = 0
  /\ Continue("recv", "decide")

AttractionReceiveEnter ==
  /\ apc = "recv"
  /\ MessageCount > 0
  /\ Head(attractionMQ).mType = "ENTER_ATTRACTION"
  /\ attractionMQ' = Tail(attractionMQ)
  /\ m_enterQueue' = Append(m_enterQueue, Head(attractionMQ).senderPID)
  /\ apc' = "decide"
  /\ UNCHANGED <<mpc, eventSem, leaveSem, replyMQ, linked, paused, noTimeout,
                 handlerVars, replyVars, clientVars>>

\* pRemoveClient takes the client off the first list it finds it on.
ListedOn(c) == {h \in running : c \in m_clientList[h]}

RemoveClient_NotListed(c) == UNCHANGED m_clientList

RemoveClient(c) ==
  m_clientList' = [h \in Handlers |->
                     IF h \in ListedOn(c) /\ \A g \in ListedOn(c) : h <= g
                     THEN m_clientList[h] \ {c} ELSE m_clientList[h]]

AttractionReceiveExit ==
  /\ apc = "recv"
  /\ MessageCount > 0
  /\ Head(attractionMQ).mType = "EXIT_ATTRACTION"
  /\ attractionMQ' = Tail(attractionMQ)
  /\ RemoveClient(Head(attractionMQ).senderPID)
  /\ apc' = "decide"
  /\ UNCHANGED <<mpc, eventSem, leaveSem, replyMQ, linked, paused, noTimeout,
                 running, over, newHandlerID, newClients, m_enterQueue,
                 replyVars, clientVars>>

\* New rides are filled when the queue was read or enough requests are there.
MayCreate == Len(m_enterQueue) > MaxClients \/ MessageCount = 0

AttractionDecide ==
  \/ MayCreate /\ Continue("decide", "create")
  \/ ~MayCreate /\ Continue("decide", "check")

-----------------------------------------------------------------------------
(* pCreateNewHandler *)

AttractionNoHandler ==
  /\ paused \/ running = Handlers
  /\ Continue("create", "check")

ResetSemaphore_Kept(h) == UNCHANGED leaveSem
ResetSemaphore(h) == leaveSem' = [leaveSem EXCEPT ![h] = 0]

\* The constructor of the handler for the first free number.
AttractionCreate ==
  /\ apc = "create"
  /\ ~paused
  /\ \E h \in Handlers \ running :
       /\ \A g \in Handlers \ running : h <= g
       /\ newHandlerID' = h
       /\ ResetSemaphore(h)
  /\ newClients' = {}
  /\ apc' = "serve"
  /\ UNCHANGED <<mpc, eventSem, attractionMQ, replyMQ, linked, paused,
                 noTimeout, running, over, m_clientList, m_enterQueue,
                 replyVars, clientVars>>

Admissible(c) == isOpen /\ ~paused /\ c \notin Unfit

Fits_Full(c) == People(newClients) < MaxClients
Fits(c) == People(newClients) + People({c}) <= MaxClients

AttractionServeEnd ==
  /\ \/ m_enterQueue = <<>>
     \/ /\ m_enterQueue # <<>>
        /\ Admissible(Head(m_enterQueue))
        /\ ~Fits(Head(m_enterQueue))
  /\ Continue("serve", "finish")

\* pCreateReplyMQ; a client that has gone (ENOENT) loses its turn.
AttractionServe ==
  /\ apc = "serve"
  /\ m_enterQueue # <<>>
  /\ LET c == Head(m_enterQueue) IN
       /\ Admissible(c) => Fits(c)
       /\ \/ /\ c \in linked
             /\ cur' = c
             /\ allowed' = Admissible(c)
             /\ attached' = TRUE
             /\ apc' = "permit"
             /\ UNCHANGED <<m_enterQueue, orphan>>
          \/ /\ c \notin linked
             /\ m_enterQueue' = Tail(m_enterQueue)
             /\ UNCHANGED <<apc, replyVars>>
  /\ UNCHANGED <<mpc, sharedVars, paused, noTimeout, handlerVars, clientVars>>

\* pRegisterClient returned true.
FinishRequest ==
  /\ m_enterQueue' = Tail(m_enterQueue)
  /\ cur' = NoClient
  /\ allowed' = FALSE
  /\ attached' = FALSE
  /\ orphan' = Empty
  /\ apc' = "serve"

Reply == IF allowed THEN Permit(newHandlerID) ELSE Refusal

ReplySlot == IF attached THEN replyMQ[cur] ELSE orphan

\* A client blocked in its receive gets the reply at once.  Only an allowed
\* client is expected to answer.
AttractionReplyHanded ==
  /\ apc = "permit"
  /\ attached
  /\ pc[cur] = "blocked"
  /\ pc' = [pc EXCEPT ![cur] = IF allowed THEN "permitted" ELSE "cleanup"]
  /\ semID' = [semID EXCEPT ![cur] = IF allowed THEN newHandlerID ELSE @]
  /\ \/ allowed /\ apc' = "ack" /\ UNCHANGED <<m_enterQueue, replyVars>>
     \/ ~allowed /\ FinishRequest
  /\ UNCHANGED <<mpc, sharedVars, paused, noTimeout, handlerVars, visits, m_evac>>

\* Otherwise the reply lies in the queue, whoever has it open.
AttractionReplyQueued ==
  /\ apc = "permit"
  /\ attached => pc[cur] # "blocked"
  /\ ReplySlot = Empty
  /\ replyMQ' = IF attached THEN [replyMQ EXCEPT ![cur] = Reply] ELSE replyMQ
  /\ \/ /\ allowed
        /\ orphan' = IF attached THEN Empty ELSE Reply
        /\ apc' = "ack"
        /\ UNCHANGED <<m_enterQueue, cur, allowed, attached>>
     \/ ~allowed /\ FinishRequest
  /\ UNCHANGED <<mpc, eventSem, attractionMQ, leaveSem, linked, paused,
                 noTimeout, handlerVars, clientVars>>

\* The queue stays full until DEFAULT_MQ_TIMEOUT.
AttractionReplyTimeout ==
  /\ apc = "permit"
  /\ ReplySlot # Empty
  /\ FinishRequest
  /\ UNCHANGED <<mpc, sharedVars, paused, noTimeout, handlerVars, clientVars>>

\* The reply: an ACK, the attraction's own permit, or nothing in time.
AttractionAck ==
  /\ apc = "ack"
  /\ newClients' = IF ReplySlot = Ack THEN newClients \cup {cur} ELSE newClients
  /\ replyMQ' = IF attached THEN [replyMQ EXCEPT ![cur] = Empty] ELSE replyMQ
  /\ FinishRequest
  /\ UNCHANGED <<mpc, eventSem, attractionMQ, leaveSem, linked, paused,
                 noTimeout, running, over, m_clientList, newHandlerID,
                 clientVars>>

\* A handler nobody wants is destroyed: its Signal(0) waits for zero.
AttractionDiscard ==
  /\ newClients = {}
  /\ leaveSem[newHandlerID] = 0
  /\ Continue("finish", "check")

AttractionAssign ==
  /\ apc = "finish"
  /\ newClients # {}
  /\ running' = running \cup {newHandlerID}
  /\ m_clientList' = [m_clientList EXCEPT ![newHandlerID] = newClients]
  /\ newClients' = {}
  /\ apc' = "start"
  /\ UNCHANGED <<mpc, sharedVars, paused, noTimeout, over, newHandlerID,
                 m_enterQueue, replyVars, clientVars>>

\* StartAttraction, through the map and not through newHandler.
AttractionStart ==
  /\ apc = "start"
  /\ newHandlerID \in running
  /\ ResetSemaphore(newHandlerID)
  /\ apc' = "log"
  /\ UNCHANGED <<mpc, eventSem, attractionMQ, replyMQ, linked, paused,
                 noTimeout, handlerVars, m_enterQueue, replyVars, clientVars>>

AttractionStarted == newHandlerID \in running /\ Continue("log", "create")

\* SIGUSR1 set the map's entry to null in between.
AttractionCrash ==
  /\ newHandlerID \notin running
  /\ \/ Continue("start", "crashed")
     \/ Continue("log", "crashed")

-----------------------------------------------------------------------------
(* pCloseImpl, and the passing of a ride's time *)

AttractionClose ==
  /\ apc = "close"
  /\ ReleaseClients(running)
  /\ running' = {}
  /\ over' = {}
  /\ apc' = "done"
  /\ UNCHANGED <<mpc, eventSem, attractionMQ, replyMQ, linked, paused,
                 noTimeout, newHandlerID, newClients, m_enterQueue, replyVars,
                 clientVars>>

RideTimeEnds(h) ==
  /\ h \in running \ over
  /\ h = newHandlerID => apc # "start"
  /\ over' = over \cup {h}
  /\ UNCHANGED <<mpc, sharedVars, apc, paused, noTimeout, running,
                 m_clientList, newHandlerID, newClients, m_enterQueue,
                 replyVars, clientVars>>

-----------------------------------------------------------------------------
(* Signals.  The wait on the event is not retried after a signal; a signal   *)
(* just before semop does not end it.                                        *)

Interrupted == IF apc = "wait" THEN {"wait", "sweep"} ELSE {apc}

\* Points at which Run has tested a handler for null and is about to use it.
UsesHandlers ==
  /\ running # {}
  /\ \/ apc \in {"check", "sweep"}
     \/ /\ apc = "recv"
        /\ MessageCount > 0
        /\ Head(attractionMQ).mType = "EXIT_ATTRACTION"

\* CloseAttraction; newHandler still refers to the handler being started.
AttractionSigUsr1 ==
  /\ PauseSent
  /\ apc \notin {"close", "done", "crashed"}
  /\ paused' = TRUE
  /\ ReleaseClients(IF apc \in {"start", "log"} THEN running \ {newHandlerID}
                                                ELSE running)
  /\ running' = {}
  /\ over' = {}
  /\ apc' \in Interrupted \cup (IF UsesHandlers THEN {"crashed"} ELSE {})
  /\ UNCHANGED <<mpc, eventSem, attractionMQ, replyMQ, linked, noTimeout,
                 newHandlerID, newClients, m_enterQueue, replyVars, clientVars>>

\* OpenAttraction.
AttractionSigUsr2 ==
  /\ PauseSent
  /\ apc \notin {"close", "done", "crashed"}
  /\ paused' = FALSE
  /\ apc' \in Interrupted
  /\ UNCHANGED <<mpc, sharedVars, noTimeout, handlerVars, m_enterQueue,
                 replyVars, clientVars>>

AttractionStep ==
  \/ AttractionCheck \/ AttractionStop \/ AttractionWait
  \/ AttractionWaitTimeout \/ AttractionSweep
  \/ AttractionReceiveTimeout \/ AttractionReceiveEnter
  \/ AttractionReceiveExit \/ AttractionDecide
  \/ AttractionNoHandler \/ AttractionCreate \/ AttractionServeEnd
  \/ AttractionServe \/ AttractionReplyHanded \/ AttractionReplyQueued
  \/ AttractionReplyTimeout \/ AttractionAck \/ AttractionDiscard
  \/ AttractionAssign \/ AttractionStart \/ AttractionStarted
  \/ AttractionCrash \/ AttractionClose
=============================================================================
