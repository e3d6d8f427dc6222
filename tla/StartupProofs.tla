--------------------------- MODULE StartupProofs ---------------------------
(***************************************************************************)
(* Proofs about Startup, for any number of attractions with any numbers of *)
(* handlers: its types, that the lock comes back, that the registry tells  *)
(* the truth, that a pause can be ended, and that no two processes share a *)
(* semaphore.                                                              *)
(***************************************************************************)
EXTENDS Startup, FiniteSetTheorems, WellFoundedInduction, TLAPS

USE DEF history, mainVars, procVars, registryVars

-----------------------------------------------------------------------------
(* Types.  How often a process took the lock follows from where it is.       *)

TakenInv ==
  \A p \in Procs :
    /\ pc[p] \in {"none", "attach", "lock", "exit", "killed"} => taken[p] = 0
    /\ pc[p] \in {"find", "write", "run", "closeLock"} => taken[p] \in {0, 1}

TypeInv == TypeOK /\ TakenInv

\* The processes and the entries are what they seem.
LEMMA ProcsAndEntries ==
  /\ IsFiniteSet(Procs)
  /\ Entries \subseteq Nat
  /\ \A p \in Procs : Candidates(p) \subseteq Entries
<1>1. AttractionCount \in Nat \ {0}
  BY RegistryAssumption
<1>2. IsFiniteSet(Attractions)
  BY <1>1, FS_Interval DEF Attractions
<1>3. IsFiniteSet(Attractions \cup {Cashier})
  BY <1>2, FS_AddElement
<1>4. IsFiniteSet(Procs)
  <2>1. Procs = (Attractions \cup {Cashier}) \cup {Restaurant}
    BY DEF Procs
  <2>2. IsFiniteSet((Attractions \cup {Cashier}) \cup {Restaurant})
    BY <1>3, FS_AddElement
  <2> QED
    BY <2>1, <2>2
<1>5. Entries \subseteq Nat
  BY <1>1 DEF Entries
<1>6. /\ CashierIndex \in Entries /\ RestaurantIndex \in Entries
      /\ 0 .. AttractionCount - 1 \subseteq Entries
  BY <1>1 DEF Entries, CashierIndex, RestaurantIndex
<1>7. ASSUME NEW p \in Procs PROVE Candidates(p) \subseteq Entries
  <2>1. CASE p = Cashier
    BY <1>6, <2>1 DEF Candidates
  <2>2. CASE p = Restaurant
    BY <1>6, <2>2, RegistryAssumption DEF Candidates
  <2>3. CASE p # Cashier /\ p # Restaurant
    BY <1>6, <2>3 DEF Candidates
  <2> QED
    BY <2>1, <2>2, <2>3
<1> QED
  BY <1>4, <1>5, <1>7

\* The undo values of dying processes are a number of units, and at least one if
\* one of them took any.
LEMMA UnitsNumber ==
  ASSUME NEW D \in SUBSET Procs, taken \in [Procs -> 0 .. 2]
  PROVE  /\ Cardinality(Units(D)) \in Nat
         /\ (\E p \in D : taken[p] > 0) => Cardinality(Units(D)) > 0
<1>1. IsFiniteSet(Units(D))
  <2>1. IsFiniteSet({1, 2})
    <3>1. {1, 2} = {1} \cup {2}
      OBVIOUS
    <3>2. IsFiniteSet({1} \cup {2})
      BY FS_Singleton, FS_AddElement
    <3> QED
      BY <3>1, <3>2
  <2>2. IsFiniteSet(D)
    <3>1. IsFiniteSet(Procs)
      BY ProcsAndEntries
    <3> QED
      BY <3>1, FS_Subset
  <2>3. IsFiniteSet(D \X {1, 2})
    BY <2>1, <2>2, FS_Product
  <2> QED
    BY <2>3, FS_Subset DEF Units
<1>2. Cardinality(Units(D)) \in Nat
  BY <1>1, FS_CardinalityType
<1>3. ASSUME NEW p \in D, taken[p] > 0
      PROVE  Cardinality(Units(D)) > 0
  <2>1. <<p, 1>> \in Units(D)
    BY <1>3 DEF Units
  <2> QED
    BY <1>1, <1>2, <2>1, FS_EmptySet
<1> QED
  BY <1>2, <1>3

\* The steps of a process keep the types.
LEMMA ProcType ==
  ASSUME TypeInv, NEW p \in Procs, ProcStep(p), UNCHANGED mainVars
  PROVE  TypeInv'
<1> USE DEF TypeInv, TypeOK, TakenInv, ProcPC, Goes, Unlocked
<1>1. CASE ProcAttach(p)
  BY <1>1 DEF ProcAttach
<1>2. CASE ProcLock(p)
  BY <1>2 DEF ProcLock, TakeLock
<1>3. CASE ProcFind(p)
  <2>1. Free(p) \subseteq Entries
    BY ProcsAndEntries DEF Free
  <2> QED
    BY <1>3, <2>1 DEF ProcFind
<1>4. CASE ProcRefused(p)
  BY <1>4 DEF ProcRefused, ReleaseLock
<1>5. CASE ProcWrite(p)
  BY <1>5 DEF ProcWrite, ReleaseLock
<1>6. CASE ProcRunEnds(p)
  BY <1>6 DEF ProcRunEnds
<1>7. CASE ProcCloseLock(p)
  BY <1>7 DEF ProcCloseLock, TakeLock
<1>8. CASE ProcErase(p)
  BY <1>8 DEF ProcErase, ReleaseLock
<1>9. CASE ProcExit(p)
  BY <1>9 DEF ProcExit
<1> QED
  BY <1>1, <1>2, <1>3, <1>4, <1>5, <1>6, <1>7, <1>8, <1>9 DEF ProcStep

\* Where a signal leaves a process.
LEMMA SignalMoves ==
  ASSUME TypeInv, NEW S, NEW D \in SUBSET Procs, Signalled(S, D)
  PROVE  /\ pc' \in [Procs -> ProcPC]
         /\ taken' = [p \in Procs |-> IF p \in D THEN 0 ELSE taken[p]]
         /\ taken' \in [Procs -> 0 .. 2]
         /\ \A p \in Procs :
              \/ p \in D /\ pc'[p] = "killed"
              \/ p \notin D /\ pc'[p] = pc[p]
              \/ p \notin D /\ pc[p] = "lock" /\ pc'[p] = "find"
              \/ p \notin D /\ pc[p] = "closeLock" /\ pc'[p] = "erase"
         /\ lock' = lock + Cardinality(Units(D)) /\ lock' \in Nat
         /\ UNCHANGED <<entry, slot>>
<1>1. lock' = lock + Cardinality(Units(D)) /\ lock' \in Nat
  BY UnitsNumber DEF Signalled, TypeInv, TypeOK
<1>2. PICK went \in SUBSET {p \in S \ D : pc[p] \in {"lock", "closeLock"}} :
        pc' = [p \in Procs |-> CASE p \in D    -> "killed"
                                 [] p \in went -> AfterWait(p)
                                 [] OTHER      -> pc[p]]
  BY DEF Signalled
<1>3. \A p \in Procs :
        \/ p \in D /\ pc'[p] = "killed"
        \/ p \notin D /\ pc'[p] = pc[p]
        \/ p \notin D /\ pc[p] = "lock" /\ pc'[p] = "find"
        \/ p \notin D /\ pc[p] = "closeLock" /\ pc'[p] = "erase"
  <2> SUFFICES ASSUME NEW p \in Procs
               PROVE  \/ p \in D /\ pc'[p] = "killed"
                      \/ p \notin D /\ pc'[p] = pc[p]
                      \/ p \notin D /\ pc[p] = "lock" /\ pc'[p] = "find"
                      \/ p \notin D /\ pc[p] = "closeLock" /\ pc'[p] = "erase"
    OBVIOUS
  <2>1. CASE p \in D
    <3>1. p \notin went
      BY <2>1
    <3> QED
      BY <1>2, <2>1, <3>1
  <2>2. CASE p \notin D /\ p \in went
    <3>1. pc'[p] = AfterWait(p) /\ pc[p] \in {"lock", "closeLock"}
      BY <1>2, <2>2
    <3> QED
      BY <2>2, <3>1 DEF AfterWait
  <2>3. CASE p \notin D /\ p \notin went
    BY <1>2, <2>3
  <2> QED
    BY <2>1, <2>2, <2>3
<1>4. pc' \in [Procs -> ProcPC]
  <2>1. pc' = [p \in Procs |-> pc'[p]]
    BY <1>2
  <2> QED
    BY <1>3, <2>1 DEF TypeInv, TypeOK, ProcPC
<1> QED
  BY <1>1, <1>3, <1>4 DEF Signalled, TypeInv, TypeOK

\* The steps of main and of the signals it gets keep the types.
LEMMA MainType ==
  ASSUME TypeInv, MainStep \/ MainSigint \/ MainSigusr1 \/ MainSigusr2
  PROVE  TypeInv'
<1> USE DEF TypeInv, TypeOK, TakenInv, ProcPC, MainPC, HandlerPC, Goes, MainGoes
<1>1. CASE \E p \in Procs : MainSpawn(p)
  BY <1>1 DEF MainSpawn
<1>2. CASE MainTest \/ MainReset \/ MainEnd
  BY <1>2 DEF MainTest, MainReset, MainEnd, Loop
<1>3. CASE MainSpawned
  BY <1>3 DEF MainSpawned, OpenPauseSemaphore, Loop
<1>4. CASE MainPauseWait
  BY <1>4 DEF MainPauseWait
<1>5. CASE MainClose
  <2>1. isOpen' \in BOOLEAN /\ mpc' \in MainPC
    BY <1>5 DEF MainClose
  <2>2. lock' \in Nat
    BY <1>5 DEF MainClose, ReleaseLock
  <2>3. pauseSem' \in 0 .. 1
    BY <1>5 DEF MainClose, OpenPauseSemaphore
  <2> QED
    BY <1>5, <2>1, <2>2, <2>3 DEF MainClose
<1>6. CASE MainSigint
  BY <1>6 DEF MainSigint, PauseInterrupted
<1>7. CASE MainSigusr1
  BY <1>7 DEF MainSigusr1, PauseInterrupted
<1>8. CASE MainSigusr2
  BY <1>8 DEF MainSigusr2, PauseInterrupted
<1> QED
  BY <1>1, <1>2, <1>3, <1>4, <1>5, <1>6, <1>7, <1>8 DEF MainStep

\* A signal to other processes keeps their types.
LEMMA SignalType ==
  ASSUME TypeInv, NEW S, NEW D \in SUBSET Procs, Signalled(S, D),
         UNCHANGED isOpen \/ isOpen' \in BOOLEAN
  PROVE  /\ lock' \in Nat
         /\ entry' \in [Entries -> Procs \cup {Nobody}]
         /\ pc' \in [Procs -> ProcPC]
         /\ slot' \in [Procs -> Entries]
         /\ taken' \in [Procs -> 0 .. 2]
         /\ TakenInv'
<1>1. ASSUME NEW p \in Procs
      PROVE  /\ pc'[p] \in {"none", "attach", "lock", "exit", "killed"}
                   => taken'[p] = 0
             /\ pc'[p] \in {"find", "write", "run", "closeLock"}
                   => taken'[p] \in {0, 1}
  BY SignalMoves DEF TypeInv, TypeOK, TakenInv
<1> QED
  BY <1>1, SignalMoves DEF TypeInv, TypeOK, TakenInv

\* The steps of the SIGINT handler keep the types.
LEMMA HandlerType ==
  ASSUME TypeInv, HandlerStep
  PROVE  TypeInv'
<1>1. CASE HandlerClose
  <2>1. isOpen' \in BOOLEAN /\ hpc' \in HandlerPC
    BY <1>1 DEF HandlerClose, TypeInv, TypeOK, HandlerPC
  <2>2. lock' \in Nat
    BY <1>1 DEF HandlerClose, ReleaseLock, TypeInv, TypeOK
  <2> QED
    BY <1>1, <2>1, <2>2 DEF HandlerClose, TypeInv, TypeOK, TakenInv
<1>2. CASE HandlerCashier
  <2>1. \E S, D : D \in SUBSET Procs /\ Signalled(S, D)
    BY <1>2 DEF HandlerCashier, Unprepared, Alive
  <2>2. hpc' \in HandlerPC /\ paused' \in BOOLEAN /\ pauseSem' \in 0 .. 1
    <3>1. hpc' \in HandlerPC /\ pauseSem' \in 0 .. 1
      BY <1>2 DEF HandlerCashier, TypeInv, TypeOK, HandlerPC
    <3>2. paused' \in BOOLEAN
      BY <1>2, Zenon DEF HandlerCashier, TypeInv, TypeOK
    <3> QED
      BY <3>1, <3>2
  <2>3. /\ lock' \in Nat
        /\ entry' \in [Entries -> Procs \cup {Nobody}]
        /\ pc' \in [Procs -> ProcPC]
        /\ slot' \in [Procs -> Entries]
        /\ taken' \in [Procs -> 0 .. 2]
        /\ TakenInv'
    BY <1>2, <2>1, SignalType DEF HandlerCashier
  <2> QED
    BY <1>2, <2>2, <2>3 DEF HandlerCashier, TypeInv, TypeOK
<1>3. CASE HandlerRestaurant
  <2>1. \E S, D : D \in SUBSET Procs /\ Signalled(S, D)
    BY <1>3 DEF HandlerRestaurant, Unprepared, Alive
  <2>2. /\ lock' \in Nat
        /\ entry' \in [Entries -> Procs \cup {Nobody}]
        /\ pc' \in [Procs -> ProcPC]
        /\ slot' \in [Procs -> Entries]
        /\ taken' \in [Procs -> 0 .. 2]
        /\ TakenInv'
    BY <1>3, <2>1, SignalType DEF HandlerRestaurant
  <2>3. pauseSem' \in 0 .. 1 /\ hpc' \in HandlerPC
    BY <1>3 DEF HandlerRestaurant, OpenPauseSemaphore, HandlerPC
  <2>4. sigint' \in BOOLEAN
    BY <1>3, Zenon DEF HandlerRestaurant, TypeInv, TypeOK
  <2> QED
    BY <1>3, <2>2, <2>3, <2>4 DEF HandlerRestaurant, TypeInv, TypeOK
<1> QED
  BY <1>1, <1>2, <1>3 DEF HandlerStep

\* A signal from outside keeps the types.
LEMMA StaffType ==
  ASSUME TypeInv, NEW p \in Procs, StaffSignal(p)
  PROVE  TypeInv'
<1>1. PICK D \in SUBSET Procs : Signalled({p}, D)
  BY DEF StaffSignal
<1>2. /\ lock' \in Nat
      /\ entry' \in [Entries -> Procs \cup {Nobody}]
      /\ pc' \in [Procs -> ProcPC]
      /\ slot' \in [Procs -> Entries]
      /\ taken' \in [Procs -> 0 .. 2]
      /\ TakenInv'
  BY <1>1, SignalType DEF StaffSignal
<1>3. breached' \in BOOLEAN
  <2>1. breached' = (breached \/ Breach)
    BY DEF StaffSignal
  <2> QED
    BY <2>1, Zenon
<1> QED
  BY <1>2, <1>3 DEF StaffSignal, TypeInv, TypeOK

\* The types hold of the initial states.
LEMMA InitType ==
  ASSUME Init
  PROVE  TypeInv
<1>1. 0 \in Entries
  BY RegistryAssumption DEF Entries
<1>2. TakenInv
  BY DEF Init, TakenInv
<1>3. /\ entry \in [Entries -> Procs \cup {Nobody}]
      /\ pc \in [Procs -> ProcPC]
      /\ slot \in [Procs -> Entries]
      /\ taken \in [Procs -> 0 .. 2]
  BY <1>1 DEF Init, ProcPC
<1>4. /\ isOpen \in BOOLEAN /\ sigint \in BOOLEAN /\ paused \in BOOLEAN
      /\ breached \in BOOLEAN
  BY DEF Init
<1>5. lock \in Nat /\ pauseSem \in 0 .. 1
  BY DEF Init
<1>6. /\ mpc \in MainPC /\ hpc \in HandlerPC
      /\ lastSignal \in {"none", "int", "usr1", "usr2"}
  BY DEF Init, MainPC, HandlerPC
<1> QED
  BY <1>2, <1>3, <1>4, <1>5, <1>6 DEF TypeInv, TypeOK

LEMMA NextType ==
  ASSUME TypeInv, [Next]_vars
  PROVE  TypeInv'
<1>1. CASE MainStep \/ MainSigint \/ MainSigusr1 \/ MainSigusr2
  BY <1>1, MainType
<1>2. CASE HandlerStep
  BY <1>2, HandlerType
<1>3. CASE \E p \in Procs : ProcStep(p) /\ UNCHANGED mainVars
  BY <1>3, ProcType
<1>4. CASE Ended \/ UNCHANGED vars
  BY <1>4 DEF Ended, vars, TypeInv, TypeOK, TakenInv
<1>5. CASE \E p \in Procs : StaffSignal(p)
  BY <1>5, StaffType
<1> QED
  BY <1>1, <1>2, <1>3, <1>4, <1>5 DEF Next

\* Type correctness of the start and the end of the park: among others the lock
\* never has a negative value, whoever is interrupted or killed with it.
THEOREM StartupTypeCorrect == Spec => []TypeOK
<1>1. Init => TypeInv
  BY InitType
<1>2. TypeInv /\ [Next]_vars => TypeInv'
  BY NextType
<1>3. TypeInv => TypeOK
  BY DEF TypeInv
<1> QED
  BY <1>1, <1>2, <1>3, PTL DEF Spec

-----------------------------------------------------------------------------
(* Main and its signals: everything about the closing follows a SIGINT, and  *)
(* main does not close the park while its handler is at work or to be run,   *)
(* and sends its signals after the closing.                                  *)

Closing == {"closeLock", "closeWrite", "wait", "end"}

MainInv ==
  /\ ~isOpen \/ hpc # "none" \/ sigint => lastSignal = "int"
  /\ mpc \in Closing => ~isOpen /\ hpc = "none" /\ ~sigint
  /\ isOpen => hpc \in {"none", "lock", "write"}

\* The steps of main keep it.
LEMMA MainKeepsMainInv ==
  ASSUME TypeInv, MainInv, MainStep \/ MainSigint \/ MainSigusr1 \/ MainSigusr2
  PROVE  MainInv'
<1> USE DEF TypeInv, TypeOK, MainInv, Closing, MainGoes
<1>1. CASE \E p \in Procs : MainSpawn(p)
  BY <1>1 DEF MainSpawn
<1>2. CASE MainTest \/ MainEnd
  BY <1>2 DEF MainTest, MainEnd
<1>3. CASE MainSpawned \/ MainReset
  BY <1>3 DEF MainSpawned, MainReset, Loop
<1>4. CASE MainPauseWait
  BY <1>4 DEF MainPauseWait
<1>5. CASE MainClose
  BY <1>5 DEF MainClose
<1>6. CASE MainSigint
  BY <1>6 DEF MainSigint, PauseInterrupted
<1>7. CASE MainSigusr1
  BY <1>7 DEF MainSigusr1, PauseInterrupted
<1>8. CASE MainSigusr2
  BY <1>8 DEF MainSigusr2, PauseInterrupted
<1> QED
  BY <1>1, <1>2, <1>3, <1>4, <1>5, <1>6, <1>7, <1>8 DEF MainStep

\* The processes leave isOpen alone.
LEMMA ProcKeepsOpen ==
  ASSUME NEW p \in Procs, ProcStep(p)
  PROVE  UNCHANGED isOpen
  BY DEF ProcStep, ProcAttach, ProcLock, ProcFind, ProcRefused, ProcWrite,
         ProcRunEnds, ProcCloseLock, ProcErase, ProcExit, Unlocked

LEMMA MainInvInductive ==
  ASSUME TypeInv, MainInv, [Next]_vars
  PROVE  MainInv'
<1>1. CASE MainStep \/ MainSigint \/ MainSigusr1 \/ MainSigusr2
  BY <1>1, MainKeepsMainInv
<1>2. CASE HandlerStep
  <2>1. CASE HandlerClose
    BY <1>2, <2>1 DEF HandlerClose, MainInv, Closing
  <2>2. CASE HandlerCashier \/ HandlerRestaurant
    BY <1>2, <2>2 DEF HandlerCashier, HandlerRestaurant, MainInv, Closing
  <2> QED
    BY <1>2, <2>1, <2>2 DEF HandlerStep
<1>3. CASE \E p \in Procs : ProcStep(p) /\ UNCHANGED mainVars
  BY <1>3, ProcKeepsOpen DEF MainInv
<1>4. CASE Ended \/ UNCHANGED vars
  BY <1>4 DEF Ended, vars, MainInv
<1>5. CASE \E p \in Procs : StaffSignal(p)
  BY <1>5 DEF StaffSignal, MainInv
<1> QED
  BY <1>1, <1>2, <1>3, <1>4, <1>5 DEF Next

-----------------------------------------------------------------------------
(* The pause.  Unless main was told to pause last, the pause semaphore has   *)
(* its unit whenever main is about to wait for it: it is initialised before  *)
(* the loop, and only the wait takes the unit again.                         *)

PauseInv ==
  hpc = "none" /\ pauseSem = 0 /\ lastSignal # "usr1" =>
    mpc # "pause" /\ (mpc = "reset" \/ ~paused)

LEMMA PauseInvInductive ==
  ASSUME TypeInv, PauseInv, [Next]_vars
  PROVE  PauseInv'
<1> USE DEF PauseInv, MainGoes
<1>1. CASE \E p \in Procs : MainSpawn(p)
  BY <1>1 DEF MainSpawn
<1>2. CASE MainTest \/ MainReset \/ MainEnd
  BY <1>2 DEF MainTest, MainReset, MainEnd, Loop
<1>3. CASE MainSpawned
  BY <1>3 DEF MainSpawned, OpenPauseSemaphore, Loop
<1>4. CASE MainPauseWait \/ MainClose
  BY <1>4 DEF MainPauseWait, MainClose, OpenPauseSemaphore
<1>5. CASE MainSigint
  BY <1>5 DEF MainSigint
<1>6. CASE MainSigusr1 \/ MainSigusr2
  BY <1>6 DEF MainSigusr1, MainSigusr2
<1>7. CASE HandlerClose \/ HandlerCashier
  BY <1>7 DEF HandlerClose, HandlerCashier
<1>8. CASE HandlerRestaurant
  BY <1>8 DEF HandlerRestaurant, OpenPauseSemaphore
<1>9. CASE \E p \in Procs : ProcStep(p) /\ UNCHANGED mainVars
  BY <1>9
<1>10. CASE Ended \/ UNCHANGED vars
  BY <1>10 DEF Ended, vars
<1>11. CASE \E p \in Procs : StaffSignal(p)
  BY <1>11 DEF StaffSignal
<1> QED
  BY <1>1, <1>2, <1>3, <1>4, <1>5, <1>6, <1>7, <1>8, <1>9, <1>10, <1>11
  DEF Next, MainStep, HandlerStep

\* Main waits in vain in a pause only while the last signal it got was SIGUSR1,
\* at whatever point of its loop or of the closing the signals arrive.
THEOREM PauseAlwaysResumable == Spec => []Resumable
<1>1. Init => PauseInv
  BY DEF Init, PauseInv
<1>2. TypeInv /\ PauseInv /\ [Next]_vars => PauseInv'
  BY PauseInvInductive
<1>3. PauseInv => Resumable
  BY DEF PauseInv, Resumable
<1>4. Init => TypeInv
  BY InitType
<1>5. TypeInv /\ [Next]_vars => TypeInv'
  BY NextType
<1> QED
  BY <1>1, <1>2, <1>3, <1>4, <1>5, PTL DEF Spec

-----------------------------------------------------------------------------
(* The lock.  While it has no unit, somebody who took one is inside: main, or *)
(* a process that has a unit to give back, at its release or at its death.    *)

Insiders == {p \in Procs : pc[p] \in {"find", "write", "erase"} /\ taken[p] > 0}

LockInv == lock > 0 \/ hpc = "write" \/ mpc = "closeWrite" \/ Insiders # {}

\* The steps of a process.
LEMMA ProcKeepsLock ==
  ASSUME TypeInv, LockInv, NEW p \in Procs, ProcStep(p), UNCHANGED mainVars
  PROVE  LockInv'
<1> USE DEF TypeInv, TypeOK, LockInv, Insiders, Goes
<1>1. CASE ProcAttach(p)
  BY <1>1 DEF ProcAttach, Unlocked
<1>2. CASE ProcLock(p)
  <2>1. p \in Insiders'
    BY <1>2 DEF ProcLock, TakeLock
  <2> QED
    BY <2>1
<1>3. CASE ProcFind(p)
  BY <1>3 DEF ProcFind
<1>4. CASE ProcRefused(p) \/ ProcWrite(p) \/ ProcErase(p)
  BY <1>4 DEF ProcRefused, ProcWrite, ProcErase, ReleaseLock
<1>5. CASE ProcRunEnds(p)
  BY <1>5 DEF ProcRunEnds, Unlocked
<1>6. CASE ProcCloseLock(p)
  <2>1. p \in Insiders'
    BY <1>6 DEF ProcCloseLock, TakeLock
  <2> QED
    BY <2>1
<1>7. CASE ProcExit(p)
  <2>1. Insiders \subseteq Insiders'
    BY <1>7 DEF ProcExit
  <2>2. lock' = lock + taken[p] /\ taken[p] \in Nat
    BY <1>7 DEF ProcExit
  <2> QED
    BY <1>7, <2>1, <2>2
<1> QED
  BY <1>1, <1>2, <1>3, <1>4, <1>5, <1>6, <1>7 DEF ProcStep

\* A signal to other processes: an insider it kills gives its unit back.
LEMMA SignalKeepsInsiders ==
  ASSUME TypeInv, NEW S, NEW D \in SUBSET Procs, Signalled(S, D),
         lock > 0 \/ Insiders # {}
  PROVE  lock' > 0 \/ Insiders' # {}
<1>1. lock' = lock + Cardinality(Units(D)) /\ Cardinality(Units(D)) \in Nat
  BY UnitsNumber, SignalMoves DEF TypeInv, TypeOK
<1>2. CASE lock > 0
  BY <1>1, <1>2 DEF TypeInv, TypeOK
<1>3. ASSUME NEW p \in Insiders
      PROVE  lock' > 0 \/ Insiders' # {}
  <2>1. CASE p \in D
    <3>1. Cardinality(Units(D)) > 0
      BY <2>1, <1>3, UnitsNumber DEF Insiders, TypeInv, TypeOK
    <3> QED
      BY <1>1, <3>1 DEF TypeInv, TypeOK
  <2>2. CASE p \notin D
    <3>1. p \in Procs /\ pc'[p] = pc[p] /\ taken'[p] = taken[p]
      BY <2>2, <1>3, SignalMoves DEF Insiders
    <3>2. p \in Insiders'
      BY <1>3, <3>1 DEF Insiders
    <3> QED
      BY <3>2
  <2> QED
    BY <2>1, <2>2
<1> QED
  BY <1>2, <1>3

LEMMA LockInvInductive ==
  ASSUME TypeInv, MainInv, LockInv, [Next]_vars
  PROVE  LockInv'
<1> USE DEF MainInv, Closing
<1>1. CASE \E p \in Procs : MainSpawn(p)
  <2>1. UNCHANGED <<lock, hpc, mpc, taken>>
    BY <1>1 DEF MainSpawn, MainGoes
  <2>2. Insiders \subseteq Insiders'
    BY <1>1 DEF MainSpawn, Goes, Insiders, TypeInv, TypeOK
  <2> QED
    BY <2>1, <2>2 DEF LockInv
<1>2. CASE \/ MainSpawned \/ MainTest \/ MainPauseWait \/ MainReset \/ MainEnd
  <2>1. UNCHANGED <<registryVars, hpc>> /\ mpc # "closeWrite"
    BY <1>2 DEF MainSpawned, MainTest, MainPauseWait, MainReset, MainEnd, MainGoes
  <2> QED
    BY <2>1 DEF LockInv, Insiders
<1>3. CASE MainClose
  BY <1>3 DEF MainClose, MainGoes, ReleaseLock, LockInv, TypeInv, TypeOK
<1>4. CASE MainSigint \/ MainSigusr1 \/ MainSigusr2
  <2>1. UNCHANGED registryVars /\ (mpc = "closeWrite" => mpc' = "closeWrite")
    BY <1>4 DEF MainSigint, MainSigusr1, MainSigusr2, PauseInterrupted
  <2>2. hpc = "write" => hpc' = "write"
    BY <1>4 DEF MainSigint, MainSigusr1, MainSigusr2
  <2> QED
    BY <2>1, <2>2 DEF LockInv, Insiders
<1>5. CASE HandlerClose
  BY <1>5 DEF HandlerClose, ReleaseLock, LockInv, TypeInv, TypeOK
<1>6. CASE HandlerCashier \/ HandlerRestaurant
  <2>1. \E S, D : D \in SUBSET Procs /\ Signalled(S, D)
    BY <1>6 DEF HandlerCashier, HandlerRestaurant, Unprepared, Alive
  <2>2. lock > 0 \/ Insiders # {}
    BY <1>6 DEF HandlerCashier, HandlerRestaurant, LockInv
  <2>3. lock' > 0 \/ Insiders' # {}
    BY <2>1, <2>2, SignalKeepsInsiders
  <2> QED
    BY <2>3 DEF LockInv
<1>7. CASE \E p \in Procs : ProcStep(p) /\ UNCHANGED mainVars
  BY <1>7, ProcKeepsLock
<1>8. CASE Ended \/ UNCHANGED vars
  BY <1>8 DEF Ended, vars, LockInv, Insiders
<1>9. CASE \E p \in Procs : StaffSignal(p)
  <2>1. PICK p \in Procs : StaffSignal(p)
    BY <1>9
  <2>2. PICK D \in SUBSET Procs : Signalled({p}, D)
    BY <2>1 DEF StaffSignal
  <2>3. UNCHANGED <<hpc, mpc>>
    BY <2>1 DEF StaffSignal
  <2>4. CASE lock > 0 \/ Insiders # {}
    BY <2>2, <2>4, SignalKeepsInsiders DEF LockInv
  <2>5. CASE hpc = "write" \/ mpc = "closeWrite"
    BY <2>3, <2>5 DEF LockInv
  <2> QED
    BY <2>4, <2>5 DEF LockInv
<1> QED
  BY <1>1, <1>2, <1>3, <1>4, <1>5, <1>6, <1>7, <1>8, <1>9
  DEF Next, MainStep, HandlerStep

\* Whoever waits for the semaphore lock can still get it, although signals let
\* processes in without a unit, kill processes inside, and the kernel gives the
\* units of SEM_UNDO back a second time.
THEOREM LockAlwaysComesBack == Spec => []LockComesBack
<1>1. Init => LockInv /\ MainInv
  BY DEF Init, LockInv, MainInv, Closing
<1>2. TypeInv /\ MainInv /\ LockInv /\ [Next]_vars => LockInv'
  BY LockInvInductive
<1>3. TypeInv /\ MainInv /\ [Next]_vars => MainInv'
  BY MainInvInductive
<1>4. MainInv /\ LockInv => LockComesBack
  BY DEF MainInv, Closing, LockInv, Insiders, LockComesBack
<1>5. Init => TypeInv
  BY InitType
<1>6. TypeInv /\ [Next]_vars => TypeInv'
  BY NextType
<1> QED
  BY <1>1, <1>2, <1>3, <1>4, <1>5, <1>6, PTL DEF Spec

-----------------------------------------------------------------------------
(* The registry.  An attraction never gets the entry of the restaurant,      *)
(* because there are as many entries before it as attractions; that holds    *)
(* whoever is in the critical section.  Entries are claimed only while the   *)
(* park is open, then the lock excludes unless a signal has undone it, and   *)
(* erased only when it is closed and the lock no longer excludes anybody.    *)

Own(p) == IF p = Cashier THEN {CashierIndex}
          ELSE IF p = Restaurant THEN {RestaurantIndex}
          ELSE 0 .. AttractionCount - 2

Claiming == {"find", "write"}

\* Who counts on its entry: an attraction erases it without looking.
Holding(p) ==
  pc[p] = "run" \/ (p \in Attractions /\ pc[p] \in {"closeLock", "erase"})

\* While the park is open nobody leaves, and the lock excludes.
OpenInv ==
  /\ hpc = "write" => lock = 0
  /\ \A p \in Procs :
       pc[p] \in {"none", "attach", "lock", "run", "killed"} \cup Claiming
  /\ \A p \in Procs :
       pc[p] \in Claiming => /\ lock = 0 /\ hpc # "write"
                            /\ \A q \in Procs : pc[q] \in Claiming => p = q
  /\ lock <= 1

\* A process that writes has a free entry, ...
WriteInv ==
  \A p \in Procs : pc[p] = "write" => isOpen /\ entry[slot[p]] = Nobody

\* ... which is one of its own, ...
SlotInv ==
  \A p \in Procs : pc[p] = "write" \/ Holding(p) => slot[p] \in Own(p)

\* ... one that holds an entry is in it, ...
AtWorkInv ==
  \A p \in Procs :
    Holding(p) /\ (p \in Attractions => ~breached) => entry[slot[p]] = p

\* ... and an entry names a process that took it.
EntryInv ==
  \A i \in Entries :
    entry[i] # Nobody => /\ i \in Own(entry[i]) /\ slot[entry[i]] = i
                         /\ pc[entry[i]] \in {"run", "closeLock", "erase", "killed"}

\* What the lock is for.
ExcludedInv == ~breached => WriteInv /\ (isOpen => OpenInv)

RegInv == SlotInv /\ AtWorkInv /\ EntryInv /\ ExcludedInv

\* Whose entries they are.
LEMMA OwnEntries ==
  ASSUME NEW p \in Procs
  PROVE  /\ Own(p) \subseteq Candidates(p)
         /\ \A q \in Procs : \A i \in Own(p) \cap Own(q) :
              p = q \/ (p \in Attractions /\ q \in Attractions)
<1>1. AttractionCount \in Nat \ {0} /\ Cashier # Restaurant
  BY RegistryAssumption
<1>2. CASE p = Cashier
  BY <1>1, <1>2 DEF Own, Candidates, CashierIndex, RestaurantIndex, Procs
<1>3. CASE p = Restaurant
  <2>1. Own(p) = {RestaurantIndex} /\ Candidates(p) = {RestaurantIndex}
    BY <1>1, <1>3 DEF Own, Candidates
  <2> QED
    BY <1>1, <1>3, <2>1 DEF Own, CashierIndex, RestaurantIndex, Procs
<1>4. CASE p # Cashier /\ p # Restaurant
  <2>1. /\ Own(p) = 0 .. AttractionCount - 2
        /\ Candidates(p) = 0 .. AttractionCount - 1
    BY <1>4 DEF Own, Candidates
  <2>2. 0 .. AttractionCount - 2 \subseteq 0 .. AttractionCount - 1
    BY <1>1
  <2> QED
    BY <1>1, <1>4, <2>1, <2>2 DEF Own, CashierIndex, RestaurantIndex, Procs
<1> QED
  BY <1>2, <1>3, <1>4

\* A process that scans the registry finds a free entry of its own: the entries before the restaurant's cannot all be taken, because they
\* would be taken by as many other attractions.
LEMMA FreeEntry ==
  ASSUME TypeInv, EntryInv, NEW p \in Procs, pc[p] = "find"
  PROVE  \E i \in Own(p) : entry[i] = Nobody
<1> SUFFICES ASSUME \A i \in Own(p) : entry[i] # Nobody
             PROVE  FALSE
  OBVIOUS
<1>1. AttractionCount \in Nat \ {0}
  BY RegistryAssumption
<1>2. Own(p) \subseteq Entries
  BY OwnEntries, ProcsAndEntries
<1>3. ASSUME NEW i \in Own(p)
      PROVE  /\ entry[i] \in Procs /\ i \in Own(entry[i]) /\ slot[entry[i]] = i
             /\ entry[i] # p
  BY <1>2, <1>3 DEF EntryInv, TypeInv, TypeOK
<1>4. CASE p \notin Attractions
  <2>1. PICK i \in Own(p) : TRUE
    BY <1>4 DEF Procs, Own
  <2> QED
    BY <1>3, <1>4, <2>1, OwnEntries
<1>5. CASE p \in Attractions
  <2> DEFINE f == [i \in 0 .. AttractionCount - 2 |-> entry[i]]
             T == Attractions \ {p}
  <2>1. Own(p) = 0 .. AttractionCount - 2
    BY <1>5, RegistryAssumption DEF Own
  <2>2. f \in [0 .. AttractionCount - 2 -> T]
    BY <1>3, <1>5, <2>1, OwnEntries
  <2>3. f \in Injection(0 .. AttractionCount - 2, T)
    BY <1>3, <2>1, <2>2 DEF Injection, IsInjective
  <2>4. /\ IsFiniteSet(Attractions) /\ Cardinality(Attractions) = AttractionCount - 1
        /\ Cardinality(0 .. AttractionCount - 2) = AttractionCount - 1
    BY <1>1, FS_Interval DEF Attractions
  <2>5. IsFiniteSet(T) /\ Cardinality(T) = AttractionCount - 2
    <3>1. Cardinality(T) = Cardinality(Attractions) - 1 /\ IsFiniteSet(T)
      BY <1>5, <2>4, FS_RemoveElement
    <3> QED
      BY <1>1, <2>4, <3>1
  <2>6. Cardinality(0 .. AttractionCount - 2) <= Cardinality(T)
    BY <2>3, <2>5, FS_Injection
  <2> QED
    BY <1>1, <2>4, <2>5, <2>6
<1> QED
  BY <1>4, <1>5

\* The entry it then finds first is its own and free.
LEMMA FindsOwn ==
  ASSUME TypeInv, EntryInv, NEW p \in Procs, pc[p] = "find"
  PROVE  /\ Free(p) # {}
         /\ \A i \in Free(p) : (\A j \in Free(p) : i <= j) =>
              i \in Own(p) /\ entry[i] = Nobody
<1>1. PICK k \in Own(p) : entry[k] = Nobody
  BY FreeEntry
<1>2. k \in Free(p)
  BY <1>1, OwnEntries DEF Free
<1>3. ASSUME NEW i \in Free(p), \A j \in Free(p) : i <= j
      PROVE  i \in Own(p) /\ entry[i] = Nobody
  <2>1. entry[i] = Nobody /\ i \in Candidates(p)
    BY <1>3 DEF Free
  <2>2. i <= k
    BY <1>2, <1>3
  <2>3. CASE p = Cashier
    <3>1. Own(p) = {CashierIndex} /\ Candidates(p) = {CashierIndex}
      BY <2>3, RegistryAssumption DEF Own, Candidates
    <3> QED
      BY <2>1, <3>1
  <2>4. CASE p = Restaurant
    <3>1. Own(p) = {RestaurantIndex} /\ Candidates(p) = {RestaurantIndex}
      BY <2>4, RegistryAssumption DEF Own, Candidates
    <3> QED
      BY <2>1, <3>1
  <2>5. CASE p # Cashier /\ p # Restaurant
    <3>1. /\ Own(p) = 0 .. AttractionCount - 2
          /\ Candidates(p) = 0 .. AttractionCount - 1
      BY <2>5 DEF Own, Candidates
    <3> QED
      BY <1>1, <2>1, <2>2, <3>1, RegistryAssumption
  <2> QED
    BY <2>3, <2>4, <2>5
<1> QED
  BY <1>2, <1>3

\* A step of a process that changes neither the registry nor the lock and does
\* not go into them.
LEMMA OutsideKeepsReg ==
  ASSUME TypeInv, RegInv, NEW p \in Procs, NEW to \in ProcPC,
         pc' = [pc EXCEPT ![p] = to],
         UNCHANGED <<isOpen, lock, entry, slot, hpc, breached>>,
         \/ pc[p] \in {"none", "attach"} /\ to \in {"attach", "lock"}
         \/ ~isOpen /\ pc[p] = "run" /\ to = "closeLock"
  PROVE  RegInv'
<1> USE DEF TypeInv, TypeOK
<1>1. SlotInv'
  BY DEF RegInv, SlotInv, Holding
<1>2. AtWorkInv'
  BY DEF RegInv, AtWorkInv, Holding
<1>3. EntryInv'
  BY DEF RegInv, EntryInv
<1>4. ASSUME ~breached'
      PROVE  WriteInv' /\ (isOpen' => OpenInv')
  <2>1. WriteInv'
    BY <1>4 DEF RegInv, ExcludedInv, WriteInv
  <2>2. ASSUME isOpen' PROVE OpenInv'
    BY <1>4, <2>2 DEF RegInv, ExcludedInv, OpenInv, Claiming
  <2> QED
    BY <2>1, <2>2
<1> QED
  BY <1>1, <1>2, <1>3, <1>4 DEF RegInv, ExcludedInv

\* The entry a process is about to write is in the way of nobody who counts on
\* its own.
LEMMA WritesNobodysEntry ==
  ASSUME TypeInv, RegInv, NEW p \in Procs, pc[p] = "write",
         NEW q \in Procs, q # p, Holding(q), q \in Attractions => ~breached
  PROVE  slot[q] # slot[p]
<1>1. slot[p] \in Own(p) /\ slot[q] \in Own(q) /\ entry[slot[q]] = q
  BY DEF RegInv, SlotInv, AtWorkInv
<1>2. CASE p \in Attractions /\ q \in Attractions
  <2>1. entry[slot[p]] = Nobody /\ q # Nobody
    BY <1>2, RegistryAssumption DEF RegInv, ExcludedInv, WriteInv
  <2> QED
    BY <1>1, <2>1
<1>3. CASE p \notin Attractions \/ q \notin Attractions
  BY <1>1, <1>3, OwnEntries
<1> QED
  BY <1>2, <1>3

\* The claiming of an entry.
LEMMA ClaimKeepsReg ==
  ASSUME TypeInv, RegInv, NEW p \in Procs, UNCHANGED mainVars,
         ProcLock(p) \/ ProcFind(p) \/ ProcWrite(p)
  PROVE  RegInv'
<1> USE DEF TypeInv, TypeOK, Goes
<1>1. CASE ProcLock(p)
  <2>1. SlotInv' /\ AtWorkInv' /\ EntryInv'
    BY <1>1 DEF ProcLock, RegInv, SlotInv, AtWorkInv, EntryInv, Holding
  <2>2. ASSUME ~breached'
        PROVE  WriteInv' /\ (isOpen' => OpenInv')
    <3>1. WriteInv'
      BY <1>1, <2>2 DEF ProcLock, RegInv, ExcludedInv, WriteInv
    <3>2. ASSUME isOpen'
          PROVE  OpenInv'
      <4>1. lock = 1 /\ lock' = 0 /\ isOpen /\ OpenInv
        BY <1>1, <2>2, <3>2 DEF ProcLock, TakeLock, RegInv, ExcludedInv, OpenInv
      <4> QED
        BY <1>1, <4>1 DEF ProcLock, OpenInv, Claiming
    <3> QED
      BY <3>1, <3>2
  <2> QED
    BY <2>1, <2>2 DEF RegInv, ExcludedInv
<1>2. CASE ProcFind(p)
  <2>1. slot'[p] \in Own(p) /\ entry[slot'[p]] = Nobody
    BY <1>2, FindsOwn, ProcsAndEntries DEF ProcFind, Free, RegInv
  <2>2. SlotInv'
    BY <1>2, <2>1 DEF ProcFind, RegInv, SlotInv, Holding
  <2>3. AtWorkInv' /\ EntryInv'
    BY <1>2 DEF ProcFind, RegInv, AtWorkInv, EntryInv, Holding
  <2>4. ASSUME ~breached'
        PROVE  WriteInv' /\ OpenInv'
    <3>1. WriteInv'
      BY <1>2, <2>1, <2>4 DEF ProcFind, RegInv, ExcludedInv, WriteInv
    <3>2. OpenInv'
      BY <1>2, <2>4 DEF ProcFind, RegInv, ExcludedInv, OpenInv, Claiming
    <3> QED
      BY <3>1, <3>2
  <2> QED
    BY <2>2, <2>3, <2>4 DEF RegInv, ExcludedInv
<1>3. CASE ProcWrite(p)
  <2>1. /\ slot[p] \in Entries /\ pc[p] = "write" /\ UNCHANGED slot
        /\ pc' = [pc EXCEPT ![p] = "run"]
        /\ entry' = [entry EXCEPT ![slot[p]] = p]
    BY <1>3 DEF ProcWrite
  <2>2. slot[p] \in Own(p)
    BY <2>1 DEF RegInv, SlotInv
  <2>3. SlotInv'
    BY <2>1, <2>2 DEF RegInv, SlotInv, Holding
  <2>4. AtWorkInv'
    <3> SUFFICES ASSUME NEW q \in Procs, Holding(q)', q \in Attractions => ~breached'
                 PROVE  entry'[slot'[q]] = q
      BY DEF AtWorkInv
    <3>1. CASE q = p
      BY <2>1, <3>1
    <3>2. CASE q # p
      <4>1. Holding(q) /\ (q \in Attractions => ~breached)
        BY <2>1, <3>2 DEF Holding
      <4>2. entry[slot[q]] = q /\ slot[q] # slot[p]
        BY <2>1, <3>2, <4>1, WritesNobodysEntry DEF RegInv, AtWorkInv
      <4> QED
        BY <2>1, <4>2
    <3> QED
      BY <3>1, <3>2
  <2>5. EntryInv'
    BY <2>1, <2>2 DEF RegInv, EntryInv
  <2>6. ASSUME ~breached'
        PROVE  WriteInv' /\ OpenInv'
    <3>1. isOpen /\ OpenInv /\ ~breached
      BY <2>1, <2>6 DEF RegInv, ExcludedInv, WriteInv
    <3>2. WriteInv'
      BY <1>3, <2>1, <3>1 DEF ProcWrite, WriteInv, OpenInv, Claiming
    <3>3. OpenInv'
      BY <1>3, <2>1, <3>1 DEF ProcWrite, ReleaseLock, OpenInv, Claiming
    <3> QED
      BY <3>2, <3>3
  <2> QED
    BY <2>3, <2>4, <2>5, <2>6 DEF RegInv, ExcludedInv
<1> QED
  BY <1>1, <1>2, <1>3

\* A process that leaves is nobody whose entry counts any more.
LEMMA ErasesOwn ==
  ASSUME TypeInv, RegInv, NEW p \in Procs, pc[p] = "erase"
  PROVE  /\ \A i \in Entries : entry[i] = p => i \in Erased(p)
         /\ \A q \in Procs :
              q # p /\ Holding(q) /\ (q \in Attractions => ~breached)
                => slot[q] \notin Erased(p)
<1> USE DEF TypeInv, TypeOK
<1>1. CASE p \in Attractions
  <2>1. Erased(p) = {slot[p]} /\ Holding(p)
    BY <1>1 DEF Erased, Holding
  <2>2. \A i \in Entries : entry[i] = p => i \in Erased(p)
    BY <2>1, RegistryAssumption DEF RegInv, EntryInv
  <2>3. ASSUME NEW q \in Procs, q # p, Holding(q), q \in Attractions => ~breached
        PROVE  slot[q] # slot[p]
    <3>1. slot[p] \in Own(p) /\ slot[q] \in Own(q) /\ entry[slot[q]] = q
      BY <2>1, <2>3 DEF RegInv, SlotInv, AtWorkInv
    <3>2. CASE q \in Attractions
      BY <1>1, <2>1, <2>3, <3>1, <3>2 DEF RegInv, AtWorkInv
    <3>3. CASE q \notin Attractions
      BY <2>3, <3>1, <3>3, OwnEntries
    <3> QED
      BY <3>2, <3>3
  <2> QED
    BY <2>1, <2>2, <2>3
<1>2. CASE p \notin Attractions
  <2>1. Erased(p) = {i \in Candidates(p) : entry[i] = p}
    BY <1>2 DEF Erased
  <2>2. \A i \in Entries : entry[i] = p => i \in Candidates(p)
    BY OwnEntries, RegistryAssumption DEF RegInv, EntryInv
  <2>3. \A q \in Procs : q # p /\ Holding(q) /\ (q \in Attractions => ~breached)
          => entry[slot[q]] # p
    BY DEF RegInv, AtWorkInv
  <2> QED
    BY <2>1, <2>2, <2>3
<1> QED
  BY <1>1, <1>2

\* The erasing of an entry, and the end of a process.
LEMMA LeaveKeepsReg ==
  ASSUME TypeInv, RegInv, NEW p \in Procs, UNCHANGED mainVars,
         ProcRefused(p) \/ ProcCloseLock(p) \/ ProcErase(p) \/ ProcExit(p)
  PROVE  RegInv'
<1> USE DEF TypeInv, TypeOK, Goes
<1>1. ASSUME ~breached'
      PROVE  ~breached /\ WriteInv /\ ~isOpen /\ ~isOpen'
  <2>1. ~breached /\ WriteInv /\ (isOpen => OpenInv)
    BY <1>1 DEF RegInv, ExcludedInv
  <2>2. CASE ProcRefused(p)
    BY <2>1, <2>2, FindsOwn DEF ProcRefused, RegInv
  <2>3. CASE ProcCloseLock(p) \/ ProcErase(p) \/ ProcExit(p)
    BY <2>1, <2>3 DEF ProcCloseLock, ProcErase, ProcExit, OpenInv, Claiming
  <2> QED
    BY <2>1, <2>2, <2>3
<1>2. CASE ProcRefused(p)
  <2>1. SlotInv' /\ AtWorkInv'
    BY <1>2 DEF ProcRefused, RegInv, SlotInv, AtWorkInv, Holding
  <2>2. EntryInv'
    BY <1>2 DEF ProcRefused, RegInv, EntryInv
  <2>3. ASSUME ~breached' PROVE WriteInv' /\ ~isOpen'
    BY <1>1, <1>2, <2>3 DEF ProcRefused, WriteInv
  <2> QED
    BY <2>1, <2>2, <2>3 DEF RegInv, ExcludedInv
<1>3. CASE ProcCloseLock(p)
  <2>1. SlotInv' /\ AtWorkInv'
    BY <1>3 DEF ProcCloseLock, RegInv, SlotInv, AtWorkInv, Holding
  <2>2. EntryInv'
    BY <1>3 DEF ProcCloseLock, RegInv, EntryInv
  <2>3. ASSUME ~breached' PROVE WriteInv' /\ ~isOpen'
    BY <1>1, <1>3, <2>3 DEF ProcCloseLock, WriteInv
  <2> QED
    BY <2>1, <2>2, <2>3 DEF RegInv, ExcludedInv
<1>4. CASE ProcErase(p)
  <2>1. /\ pc[p] = "erase" /\ pc' = [pc EXCEPT ![p] = "leaving"]
        /\ entry' = [i \in Entries |-> IF i \in Erased(p) THEN Nobody ELSE entry[i]]
        /\ UNCHANGED <<isOpen, slot>>
    BY <1>4 DEF ProcErase
  <2>2. SlotInv'
    BY <2>1 DEF RegInv, SlotInv, Holding
  <2>3. AtWorkInv'
    <3> SUFFICES ASSUME NEW q \in Procs, Holding(q)', q \in Attractions => ~breached'
                 PROVE  entry'[slot'[q]] = q
      BY DEF AtWorkInv
    <3>1. q # p /\ Holding(q) /\ (q \in Attractions => ~breached)
      BY <2>1 DEF Holding
    <3>2. slot[q] \in Entries /\ entry[slot[q]] = q /\ slot[q] \notin Erased(p)
      BY <2>1, <3>1, ErasesOwn DEF RegInv, AtWorkInv
    <3> QED
      BY <2>1, <3>2
  <2>4. EntryInv'
    BY <2>1, ErasesOwn DEF RegInv, EntryInv
  <2>5. ASSUME ~breached' PROVE WriteInv' /\ ~isOpen'
    BY <1>1, <2>1, <2>5 DEF WriteInv
  <2> QED
    BY <2>2, <2>3, <2>4, <2>5 DEF RegInv, ExcludedInv
<1>5. CASE ProcExit(p)
  <2>1. SlotInv' /\ AtWorkInv'
    BY <1>5 DEF ProcExit, RegInv, SlotInv, AtWorkInv, Holding
  <2>2. EntryInv'
    BY <1>5 DEF ProcExit, RegInv, EntryInv
  <2>3. ASSUME ~breached' PROVE WriteInv' /\ ~isOpen'
    BY <1>1, <1>5, <2>3 DEF ProcExit, WriteInv
  <2> QED
    BY <2>1, <2>2, <2>3 DEF RegInv, ExcludedInv
<1> QED
  BY <1>2, <1>3, <1>4, <1>5

LEMMA ProcKeepsReg ==
  ASSUME TypeInv, RegInv, NEW p \in Procs, ProcStep(p), UNCHANGED mainVars
  PROVE  RegInv'
<1>1. CASE ProcAttach(p)
  <2>1. /\ pc' = [pc EXCEPT ![p] = "lock"] /\ pc[p] = "attach"
        /\ UNCHANGED <<isOpen, lock, entry, slot, hpc, breached>>
    BY <1>1 DEF ProcAttach, Unlocked, Goes
  <2> QED
    BY <2>1, OutsideKeepsReg DEF ProcPC
<1>2. CASE ProcRunEnds(p)
  <2>1. /\ pc' = [pc EXCEPT ![p] = "closeLock"] /\ pc[p] = "run" /\ ~isOpen
        /\ UNCHANGED <<isOpen, lock, entry, slot, hpc, breached>>
    BY <1>2 DEF ProcRunEnds, Unlocked, Goes
  <2> QED
    BY <2>1, OutsideKeepsReg DEF ProcPC
<1>3. CASE ProcLock(p) \/ ProcFind(p) \/ ProcWrite(p)
  BY <1>3, ClaimKeepsReg
<1>4. CASE ProcRefused(p) \/ ProcCloseLock(p) \/ ProcErase(p) \/ ProcExit(p)
  BY <1>4, LeaveKeepsReg
<1> QED
  BY <1>1, <1>2, <1>3, <1>4 DEF ProcStep

\* A step that changes nothing the registry is about.
LEMMA SameRegistry ==
  ASSUME RegInv, UNCHANGED <<isOpen, lock, entry, pc, slot, hpc, breached>>
  PROVE  RegInv'
  BY DEF RegInv, SlotInv, AtWorkInv, EntryInv, ExcludedInv, WriteInv, OpenInv,
         Holding

\* Main takes the lock for its own closing only after its handler closed the park.
LEMMA MainKeepsReg ==
  ASSUME TypeInv, MainInv, RegInv,
         MainStep \/ MainSigint \/ MainSigusr1 \/ MainSigusr2
  PROVE  RegInv'
<1> USE DEF TypeInv, TypeOK
<1>1. CASE \E p \in Procs : MainSpawn(p)
  <2>1. PICK p \in Procs : MainSpawn(p)
    BY <1>1
  <2>2. /\ pc' = [pc EXCEPT ![p] = "attach"] /\ pc[p] = "none"
        /\ UNCHANGED <<isOpen, lock, entry, slot, hpc, breached>>
    BY <2>1 DEF MainSpawn, Goes
  <2> QED
    BY <2>2, OutsideKeepsReg DEF ProcPC
<1>2. CASE MainClose
  <2>1. ~isOpen /\ ~isOpen' /\ UNCHANGED <<entry, pc, slot, breached>>
    BY <1>2 DEF MainClose, MainGoes, MainInv, Closing
  <2> QED
    BY <2>1 DEF RegInv, SlotInv, AtWorkInv, EntryInv, ExcludedInv, WriteInv, Holding
<1>3. CASE \/ MainSpawned \/ MainTest \/ MainPauseWait \/ MainReset \/ MainEnd
           \/ MainSigusr1 \/ MainSigusr2
  <2>1. UNCHANGED <<isOpen, lock, entry, pc, slot, hpc, breached>>
    BY <1>3 DEF MainSpawned, MainTest, MainPauseWait, MainReset, MainEnd,
                MainSigusr1, MainSigusr2
  <2> QED
    BY <2>1, SameRegistry
<1>4. CASE MainSigint
  <2>1. /\ UNCHANGED <<isOpen, lock, entry, pc, slot, breached>>
        /\ hpc # "write" /\ hpc' # "write"
    BY <1>4 DEF MainSigint
  <2> QED
    BY <2>1 DEF RegInv, SlotInv, AtWorkInv, EntryInv, ExcludedInv, WriteInv,
                OpenInv, Holding
<1> QED
  BY <1>1, <1>2, <1>3, <1>4 DEF MainStep

\* An entry that named a process rightly does so after a signal.
LEMMA SignalKeepsEntries ==
  ASSUME TypeInv, EntryInv, NEW S, NEW D \in SUBSET Procs, Signalled(S, D)
  PROVE  EntryInv'
<1> SUFFICES ASSUME NEW i \in Entries, entry'[i] # Nobody
             PROVE  /\ i \in Own(entry'[i]) /\ slot'[entry'[i]] = i
                    /\ pc'[entry'[i]] \in {"run", "closeLock", "erase", "killed"}
  BY DEF EntryInv
<1>1. UNCHANGED <<entry, slot>>
  BY DEF Signalled
<1>2. entry[i] \in Procs
  BY <1>1 DEF TypeInv, TypeOK
<1>3. /\ i \in Own(entry[i]) /\ slot[entry[i]] = i
      /\ pc[entry[i]] \in {"run", "closeLock", "erase", "killed"}
  BY <1>1 DEF EntryInv
<1>4. pc'[entry[i]] \in {"run", "closeLock", "erase", "killed"}
  BY <1>2, <1>3, SignalMoves
<1> QED
  BY <1>1, <1>3, <1>4

\* A signal to a child, which tells whether it has undone the lock of an open park.
LEMMA SignalKeepsReg ==
  ASSUME TypeInv, RegInv, NEW S, NEW D \in SUBSET Procs, Signalled(S, D),
         UNCHANGED <<isOpen, hpc>>, breached' = (breached \/ Breach)
  PROVE  RegInv'
<1>1. /\ UNCHANGED <<entry, slot>>
      /\ \A p \in Procs :
           \/ pc'[p] = "killed"
           \/ pc'[p] = pc[p]
           \/ pc[p] = "lock" /\ pc'[p] = "find"
           \/ pc[p] = "closeLock" /\ pc'[p] = "erase"
  BY SignalMoves
<1>2. SlotInv'
  BY <1>1 DEF RegInv, SlotInv, Holding
<1>3. AtWorkInv'
  BY <1>1 DEF RegInv, AtWorkInv, Holding
<1>4. EntryInv'
  BY SignalKeepsEntries DEF RegInv
<1>5. ASSUME ~breached'
      PROVE  WriteInv' /\ (isOpen' => OpenInv')
  <2>1. ~breached /\ ~Breach
    BY <1>5
  <2>2. WriteInv'
    BY <1>1, <2>1 DEF RegInv, ExcludedInv, WriteInv
  <2>3. ASSUME isOpen' PROVE OpenInv'
    <3>1. /\ OpenInv /\ lock' = lock
          /\ \A p \in Procs : ~ (pc[p] = "lock" /\ pc'[p] = "find")
      BY <2>1, <2>3 DEF RegInv, ExcludedInv, Breach
    <3>2. \A p \in Procs : pc'[p] = "killed" \/ pc'[p] = pc[p]
      BY <1>1, <3>1 DEF OpenInv, Claiming
    <3> QED
      BY <3>1, <3>2 DEF OpenInv, Claiming
  <2> QED
    BY <2>2, <2>3
<1> QED
  BY <1>2, <1>3, <1>4, <1>5 DEF RegInv, ExcludedInv

\* The handler closes the park under the lock and sends its signals afterwards,
\* when nobody claims an entry.
LEMMA HandlerKeepsReg ==
  ASSUME TypeInv, MainInv, RegInv, HandlerStep
  PROVE  RegInv'
<1> USE DEF TypeInv, TypeOK
<1>1. CASE HandlerClose
  <2>1. UNCHANGED <<entry, pc, slot, breached>>
    BY <1>1 DEF HandlerClose
  <2>2. SlotInv' /\ AtWorkInv' /\ EntryInv'
    BY <2>1 DEF RegInv, SlotInv, AtWorkInv, EntryInv, Holding
  <2>3. ASSUME ~breached'
        PROVE  WriteInv' /\ (isOpen' => OpenInv')
    <3>1. ~breached /\ WriteInv /\ (isOpen => OpenInv)
      BY <2>1, <2>3 DEF RegInv, ExcludedInv
    <3>2. \/ hpc = "lock" /\ hpc' = "write" /\ lock > 0 /\ lock' = lock - 1
             /\ UNCHANGED isOpen
          \/ hpc = "write" /\ isOpen' = FALSE
      BY <1>1 DEF HandlerClose
    <3>3. WriteInv'
      <4>1. hpc = "write" => \A p \in Procs : pc[p] # "write"
        BY <3>1 DEF WriteInv, OpenInv, Claiming
      <4>2. CASE hpc = "write"
        BY <2>1, <4>1, <4>2 DEF WriteInv
      <4>3. CASE UNCHANGED isOpen
        BY <2>1, <3>1, <4>3 DEF WriteInv
      <4> QED
        BY <3>2, <4>2, <4>3
    <3>4. ASSUME isOpen'
          PROVE  OpenInv'
      <4>1. isOpen /\ lock > 0 /\ lock' = lock - 1 /\ hpc' = "write"
        <5>1. isOpen' # FALSE
          BY <3>4
        <5> QED
          BY <3>2, <3>4, <5>1
      <4>2. OpenInv
        BY <3>1, <4>1
      <4>3. lock = 1 /\ lock' = 0
        BY <4>1, <4>2 DEF OpenInv
      <4>4. \A p \in Procs : pc[p] \notin Claiming
        BY <4>2, <4>3 DEF OpenInv
      <4> QED
        BY <2>1, <4>1, <4>2, <4>3, <4>4 DEF OpenInv
    <3> QED
      BY <3>3, <3>4
  <2> QED
    BY <2>2, <2>3 DEF RegInv, ExcludedInv
<1>2. CASE HandlerCashier \/ HandlerRestaurant
  <2>1. PICK S, D : D \in SUBSET Procs /\ Signalled(S, D)
    BY <1>2 DEF HandlerCashier, HandlerRestaurant, Unprepared, Alive
  <2>2. ~isOpen /\ ~isOpen' /\ UNCHANGED breached
    BY <1>2 DEF HandlerCashier, HandlerRestaurant, MainInv
  <2>3. /\ UNCHANGED <<entry, slot>>
        /\ \A p \in Procs :
             \/ pc'[p] = "killed"
             \/ pc'[p] = pc[p]
             \/ pc[p] = "lock" /\ pc'[p] = "find"
             \/ pc[p] = "closeLock" /\ pc'[p] = "erase"
    BY <2>1, SignalMoves
  <2>4. SlotInv'
    BY <2>3 DEF RegInv, SlotInv, Holding
  <2>5. AtWorkInv'
    BY <2>2, <2>3 DEF RegInv, AtWorkInv, Holding
  <2>6. EntryInv'
    BY <2>1, SignalKeepsEntries DEF RegInv
  <2>7. ~breached' => WriteInv'
    BY <2>2, <2>3 DEF RegInv, ExcludedInv, WriteInv
  <2> QED
    BY <2>2, <2>4, <2>5, <2>6, <2>7 DEF RegInv, ExcludedInv
<1> QED
  BY <1>1, <1>2 DEF HandlerStep

LEMMA RegInvInductive ==
  ASSUME TypeInv, MainInv, RegInv, [Next]_vars
  PROVE  RegInv'
<1>1. CASE MainStep \/ MainSigint \/ MainSigusr1 \/ MainSigusr2
  BY <1>1, MainKeepsReg
<1>2. CASE HandlerStep
  BY <1>2, HandlerKeepsReg
<1>3. CASE \E p \in Procs : ProcStep(p) /\ UNCHANGED mainVars
  BY <1>3, ProcKeepsReg
<1>4. CASE Ended \/ UNCHANGED vars
  BY <1>4, SameRegistry DEF Ended, vars
<1>5. CASE \E p \in Procs : StaffSignal(p)
  <2>1. PICK p \in Procs : StaffSignal(p)
    BY <1>5
  <2>2. PICK D \in SUBSET Procs : Signalled({p}, D)
    BY <2>1 DEF StaffSignal
  <2>3. UNCHANGED <<isOpen, hpc>> /\ breached' = (breached \/ Breach)
    BY <2>1 DEF StaffSignal
  <2> QED
    BY <2>2, <2>3, SignalKeepsReg
<1> QED
  BY <1>1, <1>2, <1>3, <1>4, <1>5 DEF Next

LEMMA InitReg ==
  ASSUME Init
  PROVE  RegInv /\ MainInv
<1>1. MainInv
  BY DEF Init, MainInv, Closing
<1>2. SlotInv /\ AtWorkInv /\ EntryInv
  BY DEF Init, SlotInv, AtWorkInv, EntryInv, Holding
<1>3. WriteInv /\ OpenInv
  BY DEF Init, WriteInv, OpenInv, Claiming
<1> QED
  BY <1>1, <1>2, <1>3 DEF RegInv, ExcludedInv

\* A process at work is in the entry it claimed, and an entry names only a
\* process that claimed it and has not left, whatever signals arrive where, except
\* that attractions may share an entry once a signal has undone the lock of an
\* open park.
THEOREM RegistryAlwaysHonest == Spec => []RegistryHonest
<1>1. Init => RegInv /\ MainInv
  BY InitReg
<1>2. TypeInv /\ MainInv /\ RegInv /\ [Next]_vars => RegInv'
  BY RegInvInductive
<1>3. TypeInv /\ MainInv /\ [Next]_vars => MainInv'
  BY MainInvInductive
<1>4. RegInv => RegistryHonest
  BY DEF RegInv, AtWorkInv, EntryInv, RegistryHonest, Holding
<1>5. Init => TypeInv
  BY InitType
<1>6. TypeInv /\ [Next]_vars => TypeInv'
  BY NextType
<1> QED
  BY <1>1, <1>2, <1>3, <1>4, <1>5, <1>6, PTL DEF Spec

-----------------------------------------------------------------------------
(* The semaphores of two processes at work are disjoint.  Their numbers are  *)
(* sums of a recursive function, over which the least counterexample gives   *)
(* the induction.                                                            *)

\* A set of numbers that is not empty has a least one.
LEMMA LeastNumber ==
  ASSUME NEW T \in SUBSET Nat, T # {}
  PROVE  \E x \in T : \A y \in T : x <= y
<1> DEFINE Less == {ss \in Nat \X Nat : ss[1] < ss[2]}
<1>1. IsWellFoundedOn(Less, Nat)
  BY NatLessThanWellFounded DEF OpToRel
<1>2. \E x \in T : \A y \in T : <<y, x>> \notin Less
  <2> HIDE DEF Less
  <2> QED
    BY <1>1, WFMin, Zenon
<1>3. PICK x \in T : \A y \in T : <<y, x>> \notin Less
  BY <1>2
<1>4. ASSUME NEW y \in T PROVE ~ (y < x)
  <2>1. <<y, x>> \in Nat \X Nat
    OBVIOUS
  <2> QED
    BY <1>3, <1>4, <2>1
<1> QED
  BY <1>4

\* The sums up to the n-th entry satisfy their recursive definition.
Sums(f, n) ==
  f = [i \in 0 .. n |-> IF i = 0 THEN 0 ELSE f[i - 1] + HandlerCounts[i - 1]]

\* ... and exist, so that HandlersBefore is what its definition says: the sums up
\* to one entry are those up to the one before and one sum more.
LEMMA SumsExist == \E f : Sums(f, AttractionCount)
<1>1. AttractionCount \in Nat
  BY RegistryAssumption
<1> DEFINE Missing == {n \in Nat : ~ \E f : Sums(f, n)}
<1>2. ASSUME Missing # {} PROVE FALSE
  <2>1. PICK m \in Missing : \A n \in Missing : m <= n
    BY <1>2, LeastNumber
  <2>2. m # 0
    <3> DEFINE f == [i \in 0 .. 0 |-> 0]
    <3>1. Sums(f, 0)
      BY DEF Sums
    <3> QED
      BY <3>1
  <2>3. m \in Nat /\ m - 1 \in Nat /\ m - 1 \notin Missing
    BY <2>1, <2>2
  <2>4. PICK g : Sums(g, m - 1)
    BY <2>3
  <2> DEFINE f == [i \in 0 .. m |-> IF i = m THEN g[m - 1] + HandlerCounts[m - 1]
                                             ELSE g[i]]
  <2>5. ASSUME NEW i \in 0 .. m
        PROVE  f[i] = IF i = 0 THEN 0 ELSE f[i - 1] + HandlerCounts[i - 1]
    <3>1. CASE i = m
      BY <2>2, <2>3, <3>1
    <3>2. CASE i = 0
      <4>1. g[0] = 0
        BY <2>3, <2>4 DEF Sums
      <4> QED
        BY <2>2, <2>3, <3>2, <4>1
    <3>3. CASE i # m /\ i # 0
      <4>1. i \in 0 .. m - 1 /\ i - 1 \in 0 .. m /\ i - 1 # m
        BY <2>3, <3>3
      <4>2. g[i] = g[i - 1] + HandlerCounts[i - 1]
        BY <2>4, <3>3, <4>1 DEF Sums
      <4> QED
        BY <3>3, <4>1, <4>2
    <3> QED
      BY <3>1, <3>2, <3>3
  <2>6. Sums(f, m)
    BY <2>5 DEF Sums
  <2> QED
    BY <2>1, <2>6
<1> QED
  BY <1>1, <1>2

LEMMA HandlersBeforeIs ==
  /\ HandlersBefore[0] = 0
  /\ \A i \in 0 .. AttractionCount - 1 :
       HandlersBefore[i + 1] = HandlersBefore[i] + HandlerCounts[i]
<1>1. AttractionCount \in Nat
  BY RegistryAssumption
<1>2. Sums(HandlersBefore, AttractionCount)
  BY SumsExist DEF HandlersBefore, Sums
<1>3. HandlersBefore[0] = 0
  BY <1>1, <1>2 DEF Sums
<1>4. ASSUME NEW i \in 0 .. AttractionCount - 1
      PROVE  HandlersBefore[i + 1] = HandlersBefore[i] + HandlerCounts[i]
  <2>1. i + 1 \in 0 .. AttractionCount /\ i + 1 # 0 /\ (i + 1) - 1 = i
    BY <1>1
  <2> QED
    BY <1>2, <2>1 DEF Sums
<1> QED
  BY <1>3, <1>4

\* The handlers of an entry come before those of every later one.
LEMMA HandlersAreOrdered ==
  /\ \A i \in 0 .. AttractionCount : HandlersBefore[i] \in Nat
  /\ \A i \in 0 .. AttractionCount - 1 : \A j \in 0 .. AttractionCount :
       i < j => HandlersBefore[i] + HandlerCounts[i] <= HandlersBefore[j]
<1>1. AttractionCount \in Nat /\ HandlerCounts \in [0 .. AttractionCount - 1 -> Nat]
  BY RegistryAssumption
<1> DEFINE Good(j) ==
      /\ HandlersBefore[j] \in Nat
      /\ \A i \in 0 .. AttractionCount - 1 :
           i < j => HandlersBefore[i] + HandlerCounts[i] <= HandlersBefore[j]
<1> DEFINE Bad == {j \in 0 .. AttractionCount : ~Good(j)}
<1>2. ASSUME Bad # {} PROVE FALSE
  <2>1. PICK j \in Bad : \A k \in Bad : j <= k
    <3>1. Bad \in SUBSET Nat
      BY <1>1
    <3> HIDE DEF Bad
    <3> QED
      BY <1>2, <3>1, LeastNumber
  <2>2. j # 0
    BY <1>1, HandlersBeforeIs
  <2>3. j - 1 \in 0 .. AttractionCount - 1 /\ j - 1 \notin Bad /\ (j - 1) + 1 = j
    BY <1>1, <2>1, <2>2
  <2>4. Good(j - 1)
    BY <1>1, <2>3
  <2>5. HandlersBefore[j] = HandlersBefore[j - 1] + HandlerCounts[j - 1]
    BY <2>3, HandlersBeforeIs
  <2>6. HandlersBefore[j - 1] \in Nat /\ HandlerCounts[j - 1] \in Nat
    BY <1>1, <2>3, <2>4
  <2>7. ASSUME NEW i \in 0 .. AttractionCount - 1, i < j
        PROVE  HandlersBefore[i] + HandlerCounts[i] <= HandlersBefore[j]
    <3>1. CASE i = j - 1
      BY <2>5, <2>6, <3>1
    <3>2. CASE i # j - 1
      <4>1. i \in Nat /\ j \in Nat
        BY <1>1
      <4>2. i < j - 1
        BY <2>7, <3>2, <4>1
      <4>3. HandlersBefore[i] + HandlerCounts[i] <= HandlersBefore[j - 1]
        BY <2>4, <4>2
      <4>4. i \notin Bad
        BY <2>1, <2>7, <4>1
      <4>5. HandlersBefore[i] \in Nat /\ HandlerCounts[i] \in Nat
        BY <1>1, <4>1, <4>4
      <4> QED
        BY <2>5, <2>6, <4>3, <4>5
    <3> QED
      BY <3>1, <3>2
  <2>8. Good(j)
    BY <2>5, <2>6, <2>7
  <2> QED
    BY <2>1, <2>8
<1> QED
  BY <1>2

\* What a process at work in an entry of its own works with: the cashier the
\* first semaphore, the others the event semaphore of their entry and the leave
\* semaphores of its handlers.
LEMMA NumbersOf ==
  ASSUME NEW p \in Procs, slot[p] \in Own(p)
  PROVE  /\ p = Cashier => slot[p] = AttractionCount /\ SemaphoresOf(p) = {1}
         /\ p # Cashier =>
              /\ slot[p] \in 0 .. AttractionCount - 1
              /\ SemaphoresOf(p) =
                   {AttractionEvent1 + slot[p]}
                     \cup {FirstHandlerSemaphoreID(slot[p]) + k :
                             k \in 0 .. HandlerCounts[slot[p]] - 1}
<1>1. AttractionCount \in Nat \ {0} /\ Cashier # Restaurant
  BY RegistryAssumption
<1>2. CASE p = Cashier
  <2>1. slot[p] = AttractionCount
    BY <1>2 DEF Own, CashierIndex
  <2>2. SemaphoresOf(p) = {1}
    BY <1>1, <1>2 DEF SemaphoresOf
  <2> QED
    BY <1>2, <2>1, <2>2
<1>3. CASE p = Restaurant
  <2>1. slot[p] = AttractionCount - 1
    BY <1>1, <1>3 DEF Own, RestaurantIndex
  <2>2. HandlersBefore[AttractionCount - 1] \in Nat
    BY <1>1, HandlersAreOrdered
  <2>3. HandlerCounts[AttractionCount - 1] = 1
    BY RegistryAssumption DEF RestaurantIndex
  <2>4. HandlersBefore[AttractionCount] = HandlersBefore[AttractionCount - 1] + 1
    <3>1. AttractionCount - 1 \in 0 .. AttractionCount - 1
      BY <1>1
    <3>2. (AttractionCount - 1) + 1 = AttractionCount
      BY <1>1
    <3> QED
      BY <2>3, <3>1, <3>2, HandlersBeforeIs
  <2>5. RestaurantHandler = FirstHandlerSemaphoreID(AttractionCount - 1)
    BY <1>1, <2>2, <2>4
       DEF RestaurantHandler, FirstHandlerSemaphoreID, AttractionHandler1,
           AttractionEvent1
  <2>6. {FirstHandlerSemaphoreID(slot[p]) + k :
           k \in 0 .. HandlerCounts[slot[p]] - 1} = {RestaurantHandler}
    <3>1. RestaurantHandler \in Nat
      BY <1>1, <2>2, <2>5
         DEF FirstHandlerSemaphoreID, AttractionHandler1, AttractionEvent1
    <3>2. 0 .. HandlerCounts[slot[p]] - 1 = {0}
      BY <2>1, <2>3
    <3> QED
      BY <2>1, <2>5, <3>1, <3>2
  <2>7. SemaphoresOf(p) = {AttractionEvent1 + slot[p], RestaurantHandler}
    BY <1>1, <1>3, <2>1 DEF SemaphoresOf, AttractionEvent1
  <2> QED
    BY <1>1, <1>3, <2>1, <2>6, <2>7
<1>4. CASE p # Cashier /\ p # Restaurant
  <2>1. slot[p] \in 0 .. AttractionCount - 1
    BY <1>1, <1>4 DEF Own
  <2> QED
    BY <1>4, <2>1 DEF SemaphoresOf
<1> QED
  BY <1>2, <1>3, <1>4

\* A semaphore of an entry is its event semaphore or that of a handler, above
\* all event semaphores and within the handlers of this entry.
LEMMA NumberIs ==
  ASSUME NEW i \in 0 .. AttractionCount - 1,
         NEW n \in {AttractionEvent1 + i}
                     \cup {FirstHandlerSemaphoreID(i) + k :
                             k \in 0 .. HandlerCounts[i] - 1}
  PROVE  /\ n \in Nat /\ n >= 3
         /\ \/ n = i + 3
            \/ /\ n >= 3 + AttractionCount + HandlersBefore[i]
               /\ n < 3 + AttractionCount + HandlersBefore[i] + HandlerCounts[i]
<1>1. /\ AttractionCount \in Nat \ {0} /\ HandlersBefore[i] \in Nat
      /\ HandlerCounts[i] \in Nat
  BY RegistryAssumption, HandlersAreOrdered
<1>2. CASE n = AttractionEvent1 + i
  BY <1>1, <1>2 DEF AttractionEvent1
<1>3. CASE \E k \in 0 .. HandlerCounts[i] - 1 : n = FirstHandlerSemaphoreID(i) + k
  <2>1. PICK k \in 0 .. HandlerCounts[i] - 1 : n = FirstHandlerSemaphoreID(i) + k
    BY <1>3
  <2>2. n = 3 + AttractionCount + HandlersBefore[i] + k
    BY <1>1, <2>1 DEF FirstHandlerSemaphoreID, AttractionHandler1, AttractionEvent1
  <2> QED
    BY <1>1, <2>2
<1> QED
  BY <1>2, <1>3

\* Two processes in different entries of their own share no semaphore.
LEMMA EntriesApart ==
  ASSUME NEW p \in Procs, NEW q \in Procs, slot[p] \in Own(p),
         slot[q] \in Own(q), slot[p] # slot[q],
         NEW n \in SemaphoresOf(p), n \in SemaphoresOf(q)
  PROVE  FALSE
<1>1. p # Cashier \/ q # Cashier
  BY NumbersOf
<1>2. CASE p = Cashier
  BY <1>1, <1>2, NumbersOf, NumberIs
<1>3. CASE q = Cashier
  BY <1>1, <1>3, NumbersOf, NumberIs
<1>4. CASE p # Cashier /\ q # Cashier
  <2> DEFINE N == AttractionCount
  <2>1. PICK i \in 0 .. AttractionCount - 1 : i = slot[p]
    BY <1>4, NumbersOf
  <2>2. PICK j \in 0 .. AttractionCount - 1 : j = slot[q]
    BY <1>4, NumbersOf
  <2>3. \/ n = i + 3
        \/ /\ n >= 3 + N + HandlersBefore[i]
           /\ n < 3 + N + HandlersBefore[i] + HandlerCounts[i]
    BY <1>4, <2>1, NumbersOf, NumberIs
  <2>4. \/ n = j + 3
        \/ /\ n >= 3 + N + HandlersBefore[j]
           /\ n < 3 + N + HandlersBefore[j] + HandlerCounts[j]
    BY <1>4, <2>2, NumbersOf, NumberIs
  <2>5. /\ N \in Nat /\ n \in Nat
        /\ HandlersBefore[i] \in Nat /\ HandlersBefore[j] \in Nat
        /\ HandlerCounts[i] \in Nat /\ HandlerCounts[j] \in Nat
    <3>1. N \in Nat /\ HandlerCounts \in [0 .. N - 1 -> Nat]
      BY RegistryAssumption
    <3>2. i \in 0 .. N /\ j \in 0 .. N
      BY <3>1
    <3>3. n \in Nat
      BY <1>4, <2>1, NumbersOf, NumberIs
    <3>4. HandlersBefore[i] \in Nat /\ HandlersBefore[j] \in Nat
      BY <3>2, HandlersAreOrdered
    <3> QED
      BY <3>1, <3>3, <3>4
  <2>6. /\ i < j => HandlersBefore[i] + HandlerCounts[i] <= HandlersBefore[j]
        /\ j < i => HandlersBefore[j] + HandlerCounts[j] <= HandlersBefore[i]
    <3>1. i \in 0 .. N /\ j \in 0 .. N
      BY RegistryAssumption
    <3> QED
      BY <3>1, HandlersAreOrdered
  <2>7. i < j \/ j < i
    BY <2>1, <2>2
  <2> QED
    BY <2>3, <2>4, <2>5, <2>6, <2>7
<1> QED
  BY <1>2, <1>3, <1>4

\* Two processes at work never wait on a semaphore of the other, whatever the
\* numbers of handlers, unless they are attractions and a signal has undone the
\* lock: the registry gives them entries of their own, and the
\* sums that number the handlers of an entry end where those of the next begin
\* (GetFirstHandlerSemaphoreID and std::accumulate).
THEOREM SemaphoresAlwaysDisjoint == Spec => []SemaphoresDisjoint
<1>1. Init => RegInv /\ MainInv
  BY InitReg
<1>2. TypeInv /\ MainInv /\ RegInv /\ [Next]_vars => RegInv'
  BY RegInvInductive
<1>3. TypeInv /\ MainInv /\ [Next]_vars => MainInv'
  BY MainInvInductive
<1>4. TypeInv /\ RegInv => SemaphoresDisjoint
  <2> SUFFICES ASSUME TypeInv, RegInv,
                      NEW p \in Procs, pc[p] = "run",
                      NEW q \in Procs, pc[q] = "run", p # q,
                      {p, q} \subseteq Attractions => ~breached
               PROVE  SemaphoresOf(p) \cap SemaphoresOf(q) = {}
    BY DEF SemaphoresDisjoint
  <2>1. slot[p] \in Own(p) /\ slot[q] \in Own(q)
    BY DEF RegInv, SlotInv, Holding
  <2>2. slot[p] # slot[q]
    <3>1. CASE p \in Attractions /\ q \in Attractions
      BY <3>1 DEF RegInv, AtWorkInv, Holding
    <3>2. CASE p \notin Attractions \/ q \notin Attractions
      BY <2>1, <3>2, OwnEntries
    <3> QED
      BY <3>1, <3>2
  <2> QED
    BY <2>1, <2>2, EntriesApart
<1>5. Init => TypeInv
  BY InitType
<1>6. TypeInv /\ [Next]_vars => TypeInv'
  BY NextType
<1> QED
  BY <1>1, <1>2, <1>3, <1>4, <1>5, <1>6, PTL DEF Spec
=============================================================================
