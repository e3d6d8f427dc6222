------------------------------ MODULE Startup ------------------------------
(***************************************************************************)
(* The main process from the opening of the park to its end, and the       *)
(* processes it creates, which enter the registry and leave it:            *)
(*                                                                         *)
(*   spawn                   pInitImpl from line 98 on                     *)
(*   test, pause, reset                    Run                             *)
(*   closeLock, closeWrite, wait           pCloseImpl                      *)
(*   end                     the semaphores and the memory are removed     *)
(*                                                                         *)
(* `hpc' is where the SIGINT handler is, which suspends the rest of main:  *)
(*   lock, write, cashier, restaurant      HandleSigint                    *)
(*                                                                         *)
(* pOpenAllLoopSemaphores changes nothing here but the pause semaphore, which *)
(* only main waits for: it is one step with what precedes it, and so is the  *)
(* test of isOpen in the loop, which only main clears.                       *)
(*                                                                         *)
(* Bounds: main gets one SIGINT from outside and no SIGUSR1 or SIGUSR2 after *)
(* it; while the park is open a child leaves the registry only by dying.     *)
(***************************************************************************)
EXTENDS Registry

CONSTANTS
  PauseSent,       \* does an operator ever send SIGUSR1 and SIGUSR2 to main?
  StaffTargets,    \* the children that are signalled from outside, while the park is open
  LateTargets      \* ... and once it is closed

ASSUME StartupAssumption ==
  PauseSent \in BOOLEAN /\ StaffTargets \cup LateTargets \subseteq Procs

VARIABLES
  mpc,             \* where main is
  hpc,             \* where its SIGINT handler is
  sigint,          \* SIGINT pending at main
  paused,          \* the flag of main
  pauseSem,        \* value of MainPause
  lastSignal,      \* history: the last signal main got from outside
  breached         \* history: a signal has undone the lock of an open park

history == <<lastSignal, breached>>
mainVars == <<mpc, hpc, sigint, paused, pauseSem, history>>
vars == <<mainVars, registryVars>>

MainPC == {"spawn", "test", "pause", "reset", "closeLock", "closeWrite", "wait", "end"}
HandlerPC == {"none", "lock", "write", "cashier", "restaurant"}

Init ==
  /\ isOpen = TRUE
  /\ lock = 1
  /\ entry = [i \in Entries |-> Nobody]
  /\ pc = [p \in Procs |-> "none"]
  /\ slot = [p \in Procs |-> 0]
  /\ taken = [p \in Procs |-> 0]
  /\ mpc = "spawn"
  /\ hpc = "none"
  /\ sigint = FALSE
  /\ paused = FALSE
  /\ pauseSem = 0
  /\ lastSignal = "none"
  /\ breached = FALSE

-----------------------------------------------------------------------------
(* pInitImpl, Run, pCloseImpl *)

\* A pending signal is delivered before main goes on.
MainGoes(from, to) == mpc = from /\ hpc = "none" /\ ~sigint /\ mpc' = to

\* Those whose creation precedes that of p.
Elder(p) ==
  CASE p = Cashier    -> {}
    [] p = Restaurant -> {Cashier}
    [] OTHER          -> {Cashier, Restaurant} \cup (1 .. p - 1)

MainSpawn(p) ==
  /\ MainGoes("spawn", "spawn")
  /\ Goes(p, "none", "attach")
  /\ \A q \in Elder(p) : pc[q] # "none"
  /\ UNCHANGED <<isOpen, lock, entry, slot, taken, hpc, sigint, paused,
                 pauseSem, history>>

OpenPauseSemaphore_Forgotten == UNCHANGED pauseSem

\* The end of pOpenAllLoopSemaphores.
OpenPauseSemaphore == pauseSem' = 1

\* The condition of the loop; in it a client is created first and main sleeps.
Loop == IF isOpen THEN "test" ELSE "closeLock"

MainSpawned ==
  /\ MainGoes("spawn", Loop)
  /\ \A p \in Procs : pc[p] # "none"
  /\ OpenPauseSemaphore
  /\ UNCHANGED <<registryVars, hpc, sigint, paused, history>>

MainTest ==
  /\ MainGoes("test", IF paused THEN "pause" ELSE "reset")
  /\ UNCHANGED <<registryVars, hpc, sigint, paused, pauseSem, history>>

MainPauseWait ==
  /\ pauseSem > 0
  /\ pauseSem' = pauseSem - 1
  /\ MainGoes("pause", "reset")
  /\ UNCHANGED <<registryVars, hpc, sigint, paused, history>>

MainReset ==
  /\ MainGoes("reset", Loop)
  /\ paused' = FALSE
  /\ UNCHANGED <<registryVars, hpc, sigint, pauseSem, history>>

\* pCloseImpl; main's own units of the lock are of no more use to anybody.
MainClose ==
  /\ \/ /\ MainGoes("closeLock", "closeWrite")
        /\ lock > 0 /\ lock' = lock - 1 /\ UNCHANGED <<isOpen, pauseSem>>
     \/ /\ MainGoes("closeWrite", "wait")
        /\ isOpen' = FALSE /\ ReleaseLock /\ OpenPauseSemaphore
  /\ UNCHANGED <<entry, procVars, hpc, sigint, paused, history>>

MainEnd ==
  /\ MainGoes("wait", "end")
  /\ Alive = {}
  /\ UNCHANGED <<registryVars, hpc, sigint, paused, pauseSem, history>>

MainStep ==
  \/ \E p \in Procs : MainSpawn(p)
  \/ MainSpawned \/ MainTest \/ MainPauseWait \/ MainReset \/ MainClose \/ MainEnd

-----------------------------------------------------------------------------
(* Signals to main.  Its wait for the pause semaphore ends when one arrives, *)
(* unless it came just before the semop.                                     *)

PauseInterrupted ==
  mpc' \in IF mpc = "pause" /\ hpc = "none" THEN {"pause", "reset"} ELSE {mpc}

MainSigusr1 ==
  /\ PauseSent /\ lastSignal # "int"
  /\ lastSignal' = "usr1"
  /\ pauseSem' = 0
  /\ paused' = TRUE
  /\ PauseInterrupted
  /\ UNCHANGED <<registryVars, hpc, sigint, breached>>

MainSigusr2 ==
  /\ PauseSent /\ lastSignal # "int"
  /\ lastSignal' = "usr2"
  /\ pauseSem' = 1
  /\ PauseInterrupted
  /\ UNCHANGED <<registryVars, hpc, sigint, paused, breached>>

\* From outside, or the pending one of main's own kill.
MainSigint ==
  /\ hpc = "none"
  /\ \/ sigint /\ UNCHANGED lastSignal
     \/ lastSignal # "int" /\ lastSignal' = "int"
  /\ sigint' = FALSE
  /\ hpc' = "lock"
  /\ PauseInterrupted
  /\ UNCHANGED <<registryVars, paused, pauseSem, breached>>

-----------------------------------------------------------------------------
(* HandleSigint *)

HandlerClose ==
  /\ \/ /\ hpc = "lock" /\ hpc' = "write"
        /\ lock > 0 /\ lock' = lock - 1 /\ UNCHANGED isOpen
     \/ /\ hpc = "write" /\ hpc' = "cashier"
        /\ isOpen' = FALSE /\ ReleaseLock
  /\ UNCHANGED <<entry, procVars, mpc, sigint, paused, pauseSem, history>>

\* Processes in Process::Init, which have no handlers yet.
Unprepared == {p \in Alive : pc[p] = "attach"}

\* kill(cashierPID, SIGUSR1); with cashierPID 0 that is the whole process group,
\* and main pauses itself.
HandlerCashier ==
  /\ hpc = "cashier"
  /\ hpc' = "restaurant"
  /\ IF entry[CashierIndex] # Nobody
     THEN Signalled({entry[CashierIndex]}, {}) /\ UNCHANGED <<paused, pauseSem>>
     ELSE Signalled(Alive, Unprepared) /\ paused' = TRUE /\ pauseSem' = 0
  /\ UNCHANGED <<isOpen, mpc, sigint, history>>

\* kill(attractionPID[RESTAURANT_INDEX], SIGINT).  With 0 that is the group: only
\* the restaurant handles it, the others die, and main gets it again.
HandlerRestaurant ==
  /\ hpc = "restaurant"
  /\ hpc' = "none"
  /\ OpenPauseSemaphore
  /\ IF entry[RestaurantIndex] # Nobody
     THEN Signalled({entry[RestaurantIndex]}, {}) /\ UNCHANGED sigint
     ELSE Signalled(Alive, Unprepared \cup (Alive \ {Restaurant})) /\ sigint' = TRUE
  /\ UNCHANGED <<isOpen, mpc, paused, history>>

HandlerStep == HandlerClose \/ HandlerCashier \/ HandlerRestaurant

-----------------------------------------------------------------------------
(* Signals to the children from outside: SIGUSR1 and SIGUSR2 to an attraction *)
(* or the restaurant, SIGTERM to the cashier.                                *)

\* An attraction may lose a handler it is using (AttractionProc), and SIGTERM
\* kills a cashier of a closed park that has no event semaphore yet; `run' begins
\* before it gets one.
Endangered ==
  {p \in Attractions : pc[p] = "run"}
    \cup {p \in {Cashier} : ~isOpen /\ (entry[CashierIndex] # p \/ pc[p] = "run")}

\* The lock of an open park no longer excludes: somebody went in to claim an entry
\* without the unit, or the kernel gave back one that is in use again.
Breach ==
  isOpen /\ \/ lock' # lock
            \/ \E p \in Procs : pc[p] = "lock" /\ pc'[p] = "find"

StaffSignal(p) ==
  /\ p \in (IF isOpen THEN StaffTargets ELSE LateTargets) \cap Alive
  /\ \E D \in SUBSET ({p} \cap (Unprepared \cup Endangered)) :
       {p} \cap Unprepared \subseteq D /\ Signalled({p}, D)
  /\ breached' = (breached \/ Breach)
  /\ UNCHANGED <<isOpen, mpc, hpc, sigint, paused, pauseSem, lastSignal>>

Ended == mpc = "end" /\ UNCHANGED vars

Next ==
  \/ MainStep \/ HandlerStep
  \/ MainSigint \/ MainSigusr1 \/ MainSigusr2
  \/ \E p \in Procs : StaffSignal(p) \/ (ProcStep(p) /\ UNCHANGED mainVars)
  \/ Ended

Spec == Init /\ [][Next]_vars

-----------------------------------------------------------------------------
(* Properties *)

\* Every variable has its type: in particular the value of the lock is never
\* negative, although it is taken and released by interrupted processes.
TypeOK ==
  /\ isOpen \in BOOLEAN /\ lock \in Nat
  /\ entry \in [Entries -> Procs \cup {Nobody}]
  /\ pc \in [Procs -> ProcPC]
  /\ slot \in [Procs -> Entries]
  /\ taken \in [Procs -> 0 .. 2]
  /\ mpc \in MainPC /\ hpc \in HandlerPC
  /\ sigint \in BOOLEAN /\ paused \in BOOLEAN /\ pauseSem \in 0 .. 1
  /\ lastSignal \in {"none", "int", "usr1", "usr2"} /\ breached \in BOOLEAN

\* The registry tells the truth: a process at work is in the entry it took for
\* its own, so that no other process overwrote or erased it, and an entry names
\* only a process that took it and has not left (clients send their requests
\* and main its signals to the PID they find there).  Only an attraction may have
\* lost its entry to another one, once a signal has undone the lock; the cashier,
\* the restaurant and the PIDs an entry names are never wrong.
RegistryHonest ==
  /\ \A p \in Procs :
       pc[p] = "run" /\ (p \in Attractions => ~breached) => entry[slot[p]] = p
  /\ \A i \in Entries :
       entry[i] # Nobody => slot[entry[i]] = i /\ pc[entry[i]] # "exit"

\* Two processes at work never wait on a semaphore of the other, because the
\* numbers computed from the registry entries are disjoint.  Only two attractions
\* may, once a signal has undone the lock.
SemaphoresDisjoint ==
  \A p, q \in {r \in Procs : pc[r] = "run"} :
    p # q /\ ({p, q} \subseteq Attractions => ~breached) =>
      SemaphoresOf(p) \cap SemaphoresOf(q) = {}

\* Main sleeps in a pause only while the last signal it got was the one to
\* pause: SIGUSR2 and the closing always wake it, however they interleave.
Resumable ==
  mpc = "pause" /\ hpc = "none" /\ pauseSem = 0 => lastSignal = "usr1"

\* Whoever waits for the lock can still get it: while it has no unit, a process
\* that will give one back is inside, although signals let others in without
\* one, kill its holders, and SEM_UNDO gives units back a second time.
LockComesBack ==
  lock > 0 \/ hpc = "write" \/ (mpc = "closeWrite" /\ hpc = "none")
           \/ \E p \in Procs : pc[p] \in {"find", "write", "erase"}
=============================================================================
