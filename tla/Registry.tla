------------------------------ MODULE Registry ------------------------------
(***************************************************************************)
(* How the cashier, the restaurant and the attractions enter themselves in *)
(* SimulationData and leave it again, under the semaphore lock:            *)
(*                                                                         *)
(*   none, attach            not created; Process::Init                    *)
(*   lock, find, write       the Execute of pInitImpl                      *)
(*   run                     Run                                           *)
(*   closeLock, erase        the Execute of pCloseImpl                     *)
(*   leaving, exit           the process ends; `killed' by a signal        *)
(*                                                                         *)
(* The release of the lock never blocks and is one step with what precedes *)
(* it.                                                                     *)
(*                                                                         *)
(* The lock is taken by a wait with SEM_UNDO that an interruption ends     *)
(* without the unit, and released by a Signal without: the kernel returns  *)
(* the units a process took once more when it ends.                        *)
(***************************************************************************)
EXTENDS Integers, FiniteSets

CONSTANTS
  Cashier,          \* the cashier process
  Restaurant,       \* the restaurant process
  Nobody,           \* a registry entry of 0
  AttractionCount,  \* ATTRACTION_COUNT
  HandlerCounts     \* per entry 0 .. AttractionCount - 1, handlerCount of AttractionConfig

\* The attraction processes, in the order in which main creates them.
Attractions == 1 .. AttractionCount - 1

Procs == Attractions \cup {Cashier, Restaurant}

RestaurantIndex == AttractionCount - 1

\* The entries of attractionPID and, as the last one, cashierPID.
CashierIndex == AttractionCount
Entries == 0 .. AttractionCount

ASSUME RegistryAssumption ==
  /\ Cashier # Restaurant
  /\ Cashier \notin Attractions /\ Restaurant \notin Attractions
  /\ Nobody \notin Procs
  /\ AttractionCount \in Nat \ {0}
  /\ HandlerCounts \in [0 .. AttractionCount - 1 -> Nat \ {0}]
  /\ HandlerCounts[RestaurantIndex] = 1

VARIABLES
  isOpen,    \* SimulationData::isOpen
  lock,      \* value of MainSharedMemorySemaphore
  entry,     \* the registry: who is in which entry
  pc,        \* per process, where it is
  slot,      \* per process, m_attractionID or the entry it is to use
  taken      \* per process, units of the lock it took with SEM_UNDO

ProcPC == {"none", "attach", "lock", "find", "write", "run", "closeLock",
           "erase", "leaving", "exit", "killed"}

procVars == <<pc, slot, taken>>
registryVars == <<isOpen, lock, entry, procVars>>

-----------------------------------------------------------------------------
(* Semaphore numbers *)

AttractionEvent1 == 3
AttractionHandler1 == AttractionEvent1 + AttractionCount

\* The handlers of the first i entries, as std::accumulate sums them up.
HandlersBefore[i \in 0 .. AttractionCount] ==
  IF i = 0 THEN 0 ELSE HandlersBefore[i - 1] + HandlerCounts[i - 1]

RestaurantHandler == AttractionHandler1 + HandlersBefore[AttractionCount] - 1

FirstHandlerSemaphoreID_OffByOne(i) ==
  AttractionHandler1 + (IF i = 0 THEN 0 ELSE HandlersBefore[i - 1])

FirstHandlerSemaphoreID(i) == AttractionHandler1 + HandlersBefore[i]

\* The event and leave semaphores process p works with.
SemaphoresOf(p) ==
  CASE p = Cashier    -> {1}
    [] p = Restaurant -> {AttractionEvent1 + AttractionCount - 1,
                          RestaurantHandler}
    [] OTHER          -> {AttractionEvent1 + slot[p]}
                           \cup {FirstHandlerSemaphoreID(slot[p]) + k :
                                   k \in 0 .. HandlerCounts[slot[p]] - 1}

-----------------------------------------------------------------------------
Alive == {p \in Procs : pc[p] \notin {"none", "exit", "killed"}}

Goes(p, from, to) == pc[p] = from /\ pc' = [pc EXCEPT ![p] = to]

Unlocked(p, from, to) ==
  Goes(p, from, to) /\ UNCHANGED <<isOpen, lock, entry, slot, taken>>

\* SemaphoreLock's constructor and its Release.
TakeLock_NeverBlocks(p) ==
  lock' = lock - 1 /\ taken' = [taken EXCEPT ![p] = @ + 1]

TakeLock(p) == lock > 0 /\ lock' = lock - 1 /\ taken' = [taken EXCEPT ![p] = @ + 1]

ReleaseLock == lock' = lock + 1

-----------------------------------------------------------------------------
(* pInitImpl *)

ProcAttach(p) == Unlocked(p, "attach", "lock")

ProcLock_Unlocked(p) == Unlocked(p, "lock", "find")

ProcLock(p) ==
  /\ Goes(p, "lock", "find")
  /\ TakeLock(p)
  /\ UNCHANGED <<isOpen, entry, slot>>

Candidates(p) ==
  CASE p = Cashier    -> {CashierIndex}
    [] p = Restaurant -> {RestaurantIndex}
    [] OTHER          -> 0 .. AttractionCount - 1

Free(p) == {i \in Candidates(p) : entry[i] = Nobody}

\* The first free entry is the process's.
ProcFind(p) ==
  /\ Goes(p, "find", "write")
  /\ isOpen
  /\ \E i \in Free(p) : /\ \A j \in Free(p) : i <= j
                        /\ slot' = [slot EXCEPT ![p] = i]
  /\ UNCHANGED <<isOpen, lock, entry, taken>>

ProcRefused_Locked(p) ==
  /\ Goes(p, "find", IF p \in Attractions THEN "leaving" ELSE "closeLock")
  /\ ~isOpen \/ Free(p) = {}
  /\ UNCHANGED <<isOpen, lock, entry, slot, taken>>

\* Execute releases the lock and throws; main() then calls Close, where an
\* attraction without a number has nothing to erase.
ProcRefused(p) ==
  /\ Goes(p, "find", IF p \in Attractions THEN "leaving" ELSE "closeLock")
  /\ ~isOpen \/ Free(p) = {}
  /\ ReleaseLock
  /\ UNCHANGED <<isOpen, entry, slot, taken>>

ProcWrite(p) ==
  /\ Goes(p, "write", "run")
  /\ entry' = [entry EXCEPT ![slot[p]] = p]
  /\ ReleaseLock
  /\ UNCHANGED <<isOpen, slot, taken>>

-----------------------------------------------------------------------------
(* Run, abstracted to its end, and pCloseImpl *)

ProcRunEnds(p) == ~isOpen /\ Unlocked(p, "run", "closeLock")

ProcCloseLock(p) ==
  /\ Goes(p, "closeLock", "erase")
  /\ TakeLock(p)
  /\ UNCHANGED <<isOpen, entry, slot>>

\* An attraction erases its entry, the others only one that holds their PID.
Erased(p) ==
  IF p \in Attractions THEN {slot[p]}
  ELSE {i \in Candidates(p) : entry[i] = p}

ProcErase(p) ==
  /\ Goes(p, "erase", "leaving")
  /\ entry' = [i \in Entries |-> IF i \in Erased(p) THEN Nobody ELSE entry[i]]
  /\ ReleaseLock
  /\ UNCHANGED <<isOpen, slot, taken>>

\* The kernel applies the undo value of a process that ends.
ProcExit(p) ==
  /\ Goes(p, "leaving", "exit")
  /\ lock' = lock + taken[p]
  /\ taken' = [taken EXCEPT ![p] = 0]
  /\ UNCHANGED <<isOpen, entry, slot>>

ProcStep(p) ==
  \/ ProcAttach(p) \/ ProcLock(p) \/ ProcFind(p) \/ ProcRefused(p)
  \/ ProcWrite(p) \/ ProcRunEnds(p) \/ ProcCloseLock(p) \/ ProcErase(p)
  \/ ProcExit(p)

-----------------------------------------------------------------------------
(* Signals *)

\* What the kernel gives back for the processes of D: their undo values.
Units(D) == {u \in D \X {1, 2} : u[2] <= taken[u[1]]}

AfterWait(p) == IF pc[p] = "lock" THEN "find" ELSE "erase"

\* kill(pid, sig) for the processes of S, of which those of D die.  A wait for
\* the lock ends without the unit, unless the signal came just before the semop.
Signalled(S, D) ==
  /\ \E went \in SUBSET {p \in S \ D : pc[p] \in {"lock", "closeLock"}} :
       pc' = [p \in Procs |-> CASE p \in D    -> "killed"
                                [] p \in went -> AfterWait(p)
                                [] OTHER      -> pc[p]]
  /\ lock' = lock + Cardinality(Units(D))
  /\ taken' = [p \in Procs |-> IF p \in D THEN 0 ELSE taken[p]]
  /\ UNCHANGED <<entry, slot>>
=============================================================================
