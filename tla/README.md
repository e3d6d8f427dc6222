# The amusement park, verified

`projekt-so` simulates an amusement park with Linux processes: a main process
that spawns clients, a cashier, a restaurant, 16 attractions, and a logger
thread. The processes share a SysV semaphore array and a shared-memory segment
and exchange messages over POSIX queues. This directory holds TLA+ models of
that program, the TLC runs that check them and the TLAPS proofs about them.

The models are translated from the code. Where the Polish documents in `docs/`
promise something else, a run shows the difference (see *Disagreements*).

## 1. Inventory

| Component | State | Operations | Talks to |
|---|---|---|---|
| **Main** `app/main/.../MainProc.cpp` | `paused`; in shared memory `isOpen`, `parkSize`, `mainPID` | spawn clients; SIGINT/SIGTERM closes the park; SIGUSR1/SIGUSR2 pause; `pCloseImpl` waits for every child and removes the IPC objects | SIGUSR1 to the cashier, SIGINT to the restaurant, one unit to every event semaphore |
| **Cashier** `app/cashier/.../CashierProc.cpp` | `m_clients`, `m_clientCounter`, `m_enterVipQueue`, `m_enterQueue`, `m_terminated`, its register queue | receive ENTER_PARK / EXIT_PARK, admit while there is room, bill, evacuate (SIGUSR1), end (SIGTERM) | clients over the register queue and over each client's own queue; `CashierEvent` |
| **Client** `app/client/.../Client*.cpp` | `m_enteredPark`, `m_evac`, `m_visitedRestaurant`, the queues it holds | enter, visit attractions and the restaurant until time, closing or evacuation, leave and pay | cashier, attractions, restaurant: message, then event semaphore, then wait for the answer |
| **Attraction** `app/attraction/.../AttractionProc.cpp`, `lib/src/AttractionHandler.cpp` | registry slot, waiting clients, running handlers (rides) | claim a slot, collect clients, start and end rides, pause (SIGUSR1) and resume (SIGUSR2) | clients; per-handler leave semaphores |
| **Restaurant** `app/restaurant/.../RestaurantProc.cpp` | one handler: the sitting with its list; requests; leave semaphore | fill, start and end a sitting, bill diners from outside, pause and resume (SIGUSR1/SIGUSR2), evacuate (SIGINT) | clients |
| **Registry** `SimulationData`, `SemaphoreLock.hpp`, `pInitImpl` and `pCloseImpl` of all | `cashierPID`, `attractionPID[]`, the semaphore lock | claim an entry, erase it, look a process up to signal it | cashier, restaurant, attractions, main, clients |
| **Logger** `app/main/.../LoggerService.cpp` | log file, queue of capacity 10 | write each message until main says stop | every process (`pLogMessage`) |
| **Message queues** `lib/include/IPC/MessageQueue.hpp`, `PredefinedMQ.cpp` | name, descriptor, owner | open, send, receive, close and unlink | the kernel |
| **Semaphores** `SemaphoreArray.cpp`, `SemaphoreLock.hpp` | the array's values, undo values | wait, signal, set, lock | the kernel |
| **Shared memory** `SharedMemory.hpp` | the segment | create, attach, remove | the kernel |
| **Simulation data** `SimulationData.*`, `Config.hpp` | constants | who may ride, tickets, numbering of the semaphores | - |

What is hard about it: every exchange between two processes consists of two or
three system calls that other processes interleave with; every wait of a client
and most of the cashier's end by a timeout that races with the answer; a reply
queue holds a single message and *both* its ends send to it and receive from
it; signal handlers interrupt waits; nobody is told when a client gives up; and
the park closes while all that goes on. `PROJECT.json` lists the hazards line by
line.

What makes each component correct:

- cashier: never more people than fit, books that match the clients, no
  registered client left over, VIPs first, no free place kept from a waiting
  client, no message left unread;
- client: it always gets out, with or without a bill, and never gets in
  without being counted (it can, see below);
- main: closing ends every process, and only then the IPC objects go;
- attraction: no ride over its size, nobody let out of another's ride, nobody
  kept on the list of a ride it left, every visit ends;
- restaurant: no sitting over its seats, nobody sent away by another sitting's
  release, every message read, every diner out and, from outside, billed (not
  so, see below), an end once the park is closed;
- registry and lock: the entry of a process at work is its own, semaphore numbers
  are disjoint (not so for two attractions after a badly timed signal, see below), the lock comes back
  although its holders are killed and its waiters interrupted.

## 2. Modules

| Module | Models |
|---|---|
| `ParkState` | constants, all shared and local variables, messages, the register queue, the event semaphore |
| `CashierProc` | `CashierProc::pInitImpl`, `Run`, `pCloseImpl` and the two signal handlers |
| `ClientProc` | `ClientProc::Run`, `pEnterPark`, `pLeavePark`, `pCloseImpl` |
| `MainProc` | the closing of the park: `HandleSigint`, `pCloseImpl` |
| `Park` | the composition: `Init`, `Next`, fairness, properties; it implements `Admission` |
| `Admission` | what the cashier promises, without queues, semaphores and signals |
| `RideState` | one attraction and its visitors: constants, variables, messages, queue, semaphores |
| `AttractionProc` | `AttractionProc::Run`, ..., `pCloseImpl`, the two signal handlers, and `AttractionHandler` |
| `ClientAttraction` | `ClientProc::pVisitAttraction`, `pEnterAttraction`, `pLeaveAttraction` |
| `Attraction` | the composition with main's closing of the park |
| `RestaurantState` | the restaurant and its diners: constants, variables, messages, queue, semaphores |
| `RestaurantProc` | `RestaurantProc::Run`, ..., `pCloseImpl`, its signal handlers, and its only handler |
| `ClientRestaurant` | `ClientProc::pVisitRestaurant`, `pEnterRestaurant`, `pLeaveRestaurant` |
| `Restaurant` | the composition with main's closing of the park |
| `Registry` | `SimulationData` and its lock: how a process claims and erases its entry, semaphore numbers, what a signal does to a process at the lock |
| `Startup` | `MainProc::pInitImpl`, `Run`, `pCloseImpl` and the three signal handlers, over `Registry`, and signals from outside to main and its children |
| `MCPark`, `MCAttraction`, `MCRestaurant`, `MCStartup` | symmetry and values for TLC |
| `QueueTheorems` | lemmas on FIFO queues: what appending and taking the head do to what a queue holds, and holds once |
| `ParkProofs`, `AdmissionProofs`, `ExchangeProofs`, `AttractionProofs`, `RestaurantProofs`, `StartupProofs` | theorems and proofs |

`Park`, `Attraction` and `Restaurant` are three views of the same clients, and
`Startup` a fourth view of the processes around them. In `Park` a visit is one
step long or as long as it likes ("visiting"); `Attraction` and `Restaurant` open
it up and leave out how the client got into the park. They share the closing of
the park and the evacuation signal and nothing else: the cashier, an attraction
and the restaurant never exchange a message. `Startup` keeps of each process how
it comes into the registry and out of it; its `Run` is one state that lasts as
long as the park is open.

### How the state corresponds to the code

A program counter per process (`cpc`, `pc[c]`, `mpc`) names the system call the
process is at; a step reaches from one call another process can notice to the
next. The data members keep their names. `m_clients` is the key set of the map;
what the map stores about a client is fixed per client (`Vips`, `Parents`).

*Register queue.* `registerMQ[p]` is the FIFO of priority `p`, `MaxMsq` the
capacity of both together (`DEFAULT_MAX_MSQ_SIZE`, 10 in the code).

*Reply queue.* A client creates `<pid>-client-park` twice, to enter and to
leave. `enterMQ[c]` and `exitMQ[c]` are the one-message slots of the two,
`linked[c]` says which the name resolves to. As in Linux, a message sent while
a receiver is blocked goes to that receiver (`blocked` becomes `permitted`,
`exitBlocked` becomes `billed`); one sent earlier lies in the slot, where the
next receiver finds it, the cashier that sent it included. A queue outlives
`mq_unlink` while the cashier has it open. Every queue blocks: the `blocking`
parameter of `MessageQueueParams` reaches no system call.

*Rides.* An `AttractionHandler` object is an entry `h` of `running` with its
list `m_clientList[h]`; the one under construction is `newHandlerID` with
`newClients`. Its destructor is `ReleaseClients`; `Signal(0)` on an empty list
is `semop` with 0, which waits for zero. `over` holds the handlers whose
`m_finishTime` has passed. `pGetNextTimeout` returns -1 when no ride runs and
also when the first ride ended one second ago; both mean "no timeout", so
`AttractionCheck` leaves that open once a ride is over. A client visits an
attraction once per reply queue; `attached` says whether the queue the
attraction has open still is the client's current one, and `orphan` is the slot
of the queue after the client unlinked it.

*Sittings.* The restaurant has one handler, so `m_handler` is a Boolean, and
`m_clientList[c]` says whether and from where (`outside`, `park`) a client is on
its list. While a sitting is filled the list is that of the handler under
construction; the code makes it `m_handler` only when somebody joined
(`RestaurantAssign`). Requests and replies are as at an attraction, except that
the request carries `m_data`, the data the client had when it sent it, and that
a diner from outside gets a bill over its reply queue (`openBill`, `bill`,
`billAck`) before it is taken off the list.

*Registry.* `entry` is `attractionPID` with `cashierPID` as its last element.
A process goes through `lock`, `find`, `write` and later `closeLock`, `erase`;
releasing the lock never blocks and is merged with the step before it. `taken[p]`
counts the units of the lock `p` took with SEM_UNDO: `Release` does not return
them as far as the kernel knows, so `ProcExit` and death return them again.
A signal (`Signalled`) ends a wait for the lock without the unit: the process
enters all the same. `HandlerCashier` and `HandlerRestaurant` send their signal
to the PID found in the registry; with 0 that is `kill(0, ...)`, every process of
the group, main included.

*Signals to children.* `StaffSignal` is an operator's SIGUSR1 or SIGUSR2 to an
attraction or the restaurant, or SIGTERM to the cashier, at any time, also at the
lock of the open park. It kills a process that has no handlers yet (`Unprepared`)
and may kill one whose handler or interrupted code reads a null pointer
(`Endangered`); otherwise all that the registry notices of it is the
interrupted wait. `breached` is a history variable, which no guard reads: it is set
when such a signal let somebody into the open park's critical section without the
unit, or killed somebody whose units the kernel gave back.

*Signal handlers of main.* `hpc` is where the SIGINT handler is; while it is not
`none` the rest of main stands still. The other two handlers are one step. Of what
`pOpenAllLoopSemaphores` does only the pause semaphore matters to `Startup`, and only
main waits for that: the call is one step with what precedes it, and so is the test of
`isOpen` in `Run`, since only main clears the flag.

*Admission.* The refinement maps `m_clients` to the list of guests, the phases
of a client to outside, inside and gone (`Whereabouts`), and an ACK lying in a
reply queue to an entry still to be noted.

*Pause.* SIGUSR1 sets every map entry to null, wherever the attraction is. Where
the code has tested an entry and is about to use it (`UsesHandlers`,
`AttractionCrash`) the attraction may die.

*Timeouts* are choices: a wait ends with the answer, or, whenever it has none,
with the timeout. This covers every relation of the code's 2 s and longer
timeouts to the scheduling of the processes.

*Signals.* A handler runs between two steps. On `CashierEvent` a signal ends
the wait: `SemSignal` with timeout -1 computes an end time in the past and so
returns on EINTR even if asked to retry (`SemaphoreArray.cpp:84-108`). The
signal may also come just before `semop`, which then blocks; `Interrupt`
allows both. The queue calls retry on EINTR. In `Park` signals reach the cashier
in its loop; what SIGTERM does to one that has not got its event semaphore yet
(`CashierProc.cpp:294`) is part of `Startup`, as are the refusal of a second cashier
(`CashierProc.cpp:42`) and SIGINT for a restaurant that is not in the registry
(`MainProc.cpp:39`), which `CashierProc` and `Restaurant` leave out.

*SIGUSR1 with no cashier.* `kill(0, SIGUSR1)` evacuates every client
(`MainKillCashier`). Clients are taken to have installed their handlers.

*Visits.* In `Park`, what a client does at an attraction or in the restaurant is
one visit of any length. That a client visits at least or at most so many is not
used; a client that has been evacuated starts no visit.

## 3. Properties and runs

| Run | Instance | Properties |
|---|---|---|
| `traffic` | VIP, parent and another, park for 2, queue of 2, open park | `CapacityRespected`, `NoIdleSpace`, `VipsFirst` |
| `closing` | VIP + parent, park for 2, queue of 2; SIGINT, SIGTERM, failing `mq_open`; deadlock | `TypeOK`, `CapacityRespected`, `CounterMatches`, `NoLostWakeup`, `NoGhosts`, `ReplySlotFree`, `KeepsPromise` |
| `shutdown` | VIP + regular, park for 1, queue of 2, SIGINT, fairness | `EveryExitNoted`, `ClosingTerminates` |
| `rides` | a client with two visits and a parent, one ride for 2, queue of 5, SIGINT | `TypeOK`, `RideCapacity`, `NobodyReleasedEarly`, `EventCovered`, `RosterHonest` |
| `visits` | two clients, one ride for 1, queue of 1, SIGUSR1/SIGUSR2, fairness | `NobodyReleasedEarly`, `VisitEnds` |
| `ends` | one client with two visits, SIGINT, fairness | `AttractionEnds` |
| `diners` | a client with two visits from outside and a parent from the park, 2 seats, queue of 1, failing `mq_open`, SIGUSR1/SIGUSR2 | `TypeOK`, `SeatsRespected`, `NoStaleRelease`, `EventCovered`, `RosterHonest` |
| `lastorders` | a client from outside and one from the park, queue of 2, SIGINT, fairness | `RosterHonest`, `VisitEnds`, `RestaurantEnds` |
| `startup` | cashier, restaurant, two attractions (2 handlers and 1); SIGUSR1, SIGUSR2, SIGINT to main and signals to an attraction at any time; deadlock | `TypeOK`, `RegistryHonest`, `SemaphoresDisjoint`, `Resumable`, `LockComesBack` |

Of the park:

- `CapacityRespected`: the registered people and the counter stay within
  `parkSize`, although the check, the exchange and the registration are steps
  apart and SIGTERM clears the books in between.
- `CounterMatches`: the counter is the number of people behind `m_clients`.
- `NoLostWakeup`: a message in the register queue is matched by a unit of the
  semaphore, by a client about to give it, or by the cashier being at the queue.
- `NoGhosts`: every entry of `m_clients` is a client that is inside or whose
  exit is under way. A forgotten entry would take a place for ever and keep
  `Run` from ending.
- `NoIdleSpace`: after a round of admission no request is left that fits.
- `ReplySlotFree`: whoever is about to send to the reply queue finds it empty.
- `VipsFirst` (action): no other client is registered while a VIP's request is
  in the cashier's queue.
- `KeepsPromise` (refinement): `Park` implements `Admission`. The cashier notes a
  client at most once, only by the ACK the client sent when it entered, within
  the capacity, and forgets it only after it left or, all at once, after SIGTERM.
- `EveryExitNoted`, `ClosingTerminates` (liveness): a registered client is
  eventually removed; a closed park ends.

Of an attraction:

- `RideCapacity`: no ride has more people than seats, although seats are counted
  before the client answers.
- `NobodyReleasedEarly`: the leave semaphore of a ride that is being filled or
  runs is 0. Riders that leave early (or evacuated ones) leave units behind; the
  next ride on the same semaphore must not be ended by them.
- `EventCovered`: the attraction's version of `NoLostWakeup`, without pauses.
- `RosterHonest`: whoever is on the list of a ride is on it, or its exit is in
  the queue; with visits following each other while requests, ACKs and exits of
  earlier ones are still unread. It is a property of an attraction with one
  handler, as 11 of the 17 in `AttractionConfig` are; what several do is described
  below.
- `VisitEnds`, `AttractionEnds` (liveness): a visit ends, with pauses and even if
  the attraction dies; the attraction ends when the park is closed.

Of the restaurant:

- `SeatsRespected`, `NoStaleRelease`, `EventCovered`, `RosterHonest`: as for an
  attraction. `EventCovered` holds *with* pauses, since a paused restaurant still
  reads its queue; `NoStaleRelease` rests on `m_released`, which keeps the pause
  and the end of the sitting from releasing it twice; `RosterHonest` also holds
  with a full queue and while the park closes, since the exit has no timeout.
- `VisitEnds`, `RestaurantEnds` (liveness): everybody who comes gets out; the
  restaurant ends after SIGINT, although from then on it sweeps no sitting and
  waits for the exit of each diner listed.

Of the start and the end:

- `RegistryHonest`: the cashier and the restaurant at work are in the entries they
  claimed, and an entry names only a process that claimed it and has not left,
  although the lock is entered without a unit by processes that a signal
  interrupted, and admits several once SEM_UNDO has returned units twice. An
  attraction at work is in its entry, too, as long as no signal has undone the lock
  of the open park (`breached`). After that two attractions may have claimed the
  same one (see *Disagreements*), and what the property still promises is that the
  damage stays among the attractions.
- `SemaphoresDisjoint`: processes at work use disjoint semaphore numbers, with the
  same exception; an attraction that got the restaurant's entry would share the
  restaurant's.
- `Resumable`: main waits in vain in a pause only if the last signal it got was
  SIGUSR1.
- `LockComesBack`: while the lock has no unit, somebody inside will return one.

**Bounds.** Clients are the only unbounded thing in the program; each enters the
park once, which is also true of a process. Two clients exercise every exchange
of the cashier with one client while the other holds or wants its place; the
third in `traffic` is needed where *order* between waiting requests matters (a
departing parent makes room for two; two requests wait while one leaves). The
park is smaller than the demand in every run, so clients wait, and in `traffic`
the register queue is smaller too, so sends block and time out. `closing` turns
every failure on. `MaxVisits` bounds the visits of the clients in `Returning`; a
second visit is what lets messages of the first one be read late, a third adds
more of the same. `rides` uses a queue with room for every message, since a full
queue loses exits by design (`pLeaveAttraction`); `visits`, `ends` and `diners` use
one that fills up. In `diners` three people want two seats. `lastorders` has room
for a message of each client, because of the hang described below. `startup` has
an attraction whose entry is followed by another's, a handler count that shifts
the numbers, and the restaurant's entry at the end of the scan. The bounds on
signals are one SIGINT to main from outside and no SIGUSR1 or SIGUSR2 to main after
it (main's own `kill(0, ...)` may add more). `StaffTargets` and
`LateTargets` are the children that an operator signals while the park is open and once
it is closed, any number of times. The run has one of the two attractions in the
former, which is enough for it to break into the section beside the other, or to die
after it registered, and nobody in the latter; children of a closed park get their
signals from main. More targets exceed what TLC can do in minutes; the theorems hold
for all sets of targets, the whole of `Procs` included. While the park is open a child
leaves the registry only by dying: that creating its queue fails after the claim,
which makes it erase the entry and end, is left out. The tests of the scan are one
step (`ProcFind`). While the lock excludes nobody changes the registry between them,
and afterwards nothing is claimed for attractions except that they do not reach the
restaurant's entry; a scan of many steps does not either, since each of the other
attractions can have filled only one of the entries it passes over.
`CHECK_DEADLOCK FALSE` is set where the park stays open and the last client has left,
under fairness, where the liveness properties say more, and in `rides` for the hang
described below.

**Fairness.** `Park!Fairness`: weak fairness of every process: the kernel runs
what can run, and a wait with a timeout ends. Strong fairness of `ClientLeave`:
the loop of `ClientProc::Run` ends because `parkTime` passes, however often the
client visits an attraction. Nothing is assumed of the operator's signals, nor
that the SIGUSR1 main sends ever reaches the cashier. In `Attraction` and
`Restaurant` the steps of each process are weakly fair, and the time of a ride and
of a sitting passes (`RideTimeEnds`, `SittingEnds`). `Startup` states safety only:
its restaurant may fail to register, and main then never ends (below).

### Disagreements

| Run | What the run shows |
|---|---|
| `occupancy` | `AtMostNPeople` fails (`docs/temat.md:5`): a client enters once its ACK is *sent*; the cashier may have stopped waiting for it and never counts the client |
| `pausequeue` | a paused attraction takes units of its semaphore without reading the messages they stand for; after SIGUSR2 it may sleep over them for ever |
| `unpaid` | `DinersPay` fails (`docs/temat.md:68`): a sitting whose time is over is dropped with its list, and a client that is on no list gets no bill when its exit is read (`RestaurantProc.cpp:43`, `:251`) |

The models reach these as well; no run is spent on them:

- the cashier may read its own permit back from the shared one-message queue
  (`CashierProc.cpp:199`; `docs/komponenty.md:36`) and drop the request;
- a client that could not create its reply queue reads through a null pointer
  after EXIT_PARK (`ClientPark.cpp:91`; `docs/schemat-komunikacji.md:26`): state
  `crashed` of `ClientProc`;
- EXIT_PARK is sent without timeout (`ClientPark.cpp:78`). Clients that were never
  registered do not keep the cashier running, so it may end and unlink its queue
  while one of them waits for room in it; main then waits for that client for
  ever (`docs/testy.md:57`). `shutdown` uses a queue with room for a message of
  every client for that reason, and shows that it is the only way closing can
  fail to end. EXIT_RESTAURANT hangs the same way, with `MaxMsq = 1` in
  `lastorders`: `VisitEnds` fails;
- SIGUSR1 sets a handler to null between its assignment and `StartAttraction`
  (`AttractionProc.cpp:189-190`, also `:95-96`): state `crashed` of `AttractionProc`;
- a client may ride without being on any list, as it may be in the park without
  being counted (`AttractionProc.cpp:232`; `docs/temat.md:78`);
- a ride whose clients are being admitted when SIGUSR1 arrives starts in the
  paused attraction (`AttractionProc.cpp:188`; `docs/temat.md:52`);
- a client with two requests pending, the first permitted and the second refused
  because the park has closed, blocks for ever in the ACK of the first one
  (`ClientAttraction.cpp:47`): `VisitEnds` is checked for clients that visit
  once per attraction, and `rides` checks no deadlock;
- with several handlers a client may be on the lists of two rides: the request
  of a visit it gave up is answered in the next one, and the request of that one
  in a third. `pRemoveClient` takes it off the first list it finds
  (`AttractionProc.cpp:139`), which may be that of the ride it is on; a unit of a
  later ride on that semaphore lets it go, and it stays on the other list until
  that ride ends. With two handlers, two clients and three visits `RosterHonest`
  fails after some hundred steps; nothing in the documents promises it;
- a client evacuated from a ride sends no EXIT_ATTRACTION
  (`ClientAttraction.cpp:91`; `docs/schemat-komunikacji.md:38`), and a client that is
  inside but not in `m_clients` gets no SIGUSR1 (`docs/schemat-komunikacji.md:59`); it
  still leaves after its visit, since it reads `isOpen`;
- SIGINT while the restaurant is not, or no longer, in the registry: the handler
  calls `kill(0, SIGINT)` (`MainProc.cpp:39`), which kills the clients, the
  cashier and the attractions without closing anything and makes main signal
  itself again, for ever (`docs/temat.md:58`, `docs/schemat-komunikacji.md:57-58`);
- while the park closes the lock admits several processes at once, since
  SEM_UNDO returns units twice (`SemaphoreLock.hpp:10`, `:31`). There it does no harm,
  since each process erases its own entry. In the open park it does:
- an attraction that SIGUSR1 or SIGUSR2 interrupts while it waits for the lock
  (`AttractionProc.cpp:51-54`, `SemaphoreArray.cpp:94-99`) looks for a free entry
  beside the one that holds the lock, and may find the entry which that one has found
  and not yet written (`:59-64`). Both claim it and wait on the same event and leave
  semaphores (`docs/schemat-komunikacji.md:42`: every attraction has a semaphore). Without
  the exception for `breached`, `RegistryHonest` and `SemaphoresDisjoint` fail, with one
  signal, after a dozen steps. An attraction killed by a signal after it registered gives
  a unit of the lock back a second time, and then two that nobody signalled may find
  the same entry;
- SIGUSR1 between the wait of the pause and `paused = false` loses the pause
  (`MainProc.cpp:65-66`), and a second SIGUSR1 while paused resumes (the wait ends
  with EINTR).

Read in the code, outside the models:

- a second SIGINT inside `pCloseImpl`'s critical section deadlocks main;
- `wait()` in `pCloseImpl` ends on EINTR: the IPC objects go while children live
  (`MainProc.cpp:114`);
- the overtime of `pCalculatePrice` has the wrong sign: leaving early costs more
  (`CashierProc.cpp:234`);
- a child between the two heights is refused by an `else if` although it comes
  with an adult (`SimulationData.cpp:36`);
- a write error ends the logger thread and unlinks its queue, after which every
  log call of every process throws (`LoggerService.cpp:52`).

## 4. Proofs

Each theorem holds for every finite set of clients and every value of the
constants that the module's named assumption allows (sizes and capacities are
positive; VIPs, parents and the like are clients; the special values are not
clients or processes). The proofs have one step per action, grouped by process.

`ParkProofs`:

- `TypeCorrect`: the inductive invariant `TypeInv` adds `HandledIsKnown`: while the
  cashier exchanges messages with a client, `cur` is a client and the request
  being served is at the head of its queue. Without it the indexed updates of the
  reply queues and `Tail` of the request queue would not keep their types.
- `CapacityAlwaysRespected`: `CapacityInv` adds that the counter is at least the
  number of people in `m_clients`, and that it leaves room for `cur` from the check
  until its registration. `CapacityRespected` alone is not inductive because the
  check is steps away from the registration.
- `WakeupsNeverLost`: each step that adds a message puts its client among the
  signalling ones, and each step that takes a client out of them adds a unit; an
  interrupted wait only helps: it goes to the queue without taking a unit.

`AdmissionProofs`, `ParkImplementsAdmission`: the initial states map to the initial
state of `Admission`, and each step to a step of it or a stutter. Besides `TypeInv`
and `CapacityInv` it uses `LeftInv`: an EXIT_PARK in the register queue, or being
handled, is that of a client that has left for good; without that the cashier
could forget a client that is inside.

`ExchangeProofs` proves the other invariants of the park. They all rest on what a
client has in the queues of the cashier and of its own, `ExchangeInv`:

- `Sorted`: a message waits in the queue of its sender's priority, so what a
  client has sent is in one FIFO; `InHand`: the request being handled is the head
  of its queue.
- `Books`, for each client: at most one request of it is under way, in the register
  queue or in a queue of the cashier (`AsksOnce`); while it is unanswered the slot
  for entering is empty, and an ACK lies there only for the cashier that waits for
  it (`EntrySlot`); the client leaves once, and the slot for leaving is empty until
  the bill is sent (`ExitSlot`).

None of the three is inductive alone: that the slot is empty when the cashier
sends needs that there is no second request it could already have answered, and
that there is none needs the phases in which the client may still ask. Sending
and receiving are reasoned about once, with the lemmas of `QueueTheorems`
(`SendEffect`, `ReceiveEffect`); a step of one client leaves the books of the
others alone (`BystanderKeepsBooks`). Then:

- `RepliesNeverWait` is `ExchangeInv` at the points where something is sent.
- `CounterAlwaysMatches`: with one request per client, dropped when the client is
  registered, nobody is counted in twice.
- `NobodyHaunts`: `GhostInv` adds that a client whose ACK lies in its slot is
  present, too, since the ACK is about to put it on the list.
- `SpaceNeverIdle` (`IdleInv`) and `VipsGoFirst` (`VipInv`) are about the cashier
  alone: between two rounds neither the space nor the requests change, and
  within one no message is read.

`AttractionProofs` and `RestaurantProofs`:

- `RideTypeCorrect`, `RestaurantTypeCorrect`: as for the cashier; a list belongs to
  a running handler or to the one being filled.
- `RidesNeverOverfull`, `SeatsAlwaysRespected`: the client between its permit and
  its ACK has its seats on top of those taken; exits and signals only shorten
  lists.
- `NobodyReleasedTooEarly`, `NobodySentAwayEarly`: a leave semaphore is set to 0
  when its handler is created, and what raises it takes the handler out of the
  map, or marks the sitting released. For the attraction this needs that the
  handler being filled is not in the map.
- `RideEventsCovered` (for an attraction that is never paused, as `pausequeue` shows
  it must be) and `EventsAlwaysCovered`: the argument of `WakeupsNeverLost`.
- `RosterAlwaysHonest` (the restaurant): a client gets on the list by an ACK found
  in a queue it may have unlinked since, and it sends ACKs for bills, too;
  `RosterInv` says that an ACK the restaurant may still read as that of a permit
  is of a client at its table or with its exit under way.
- `RideRosterHonest` (the attraction): `RosterInv` is about everybody who is
  `Named`, on the list of a ride or on the way to it. It has two hypotheses,
  neither of which can be dropped: `HandlerCount = 1` (above), and `ExitsFit`, that
  no EXIT_ATTRACTION is given up for a full queue. With one handler the leave
  semaphore has units only while no ride is filled or runs
  (`NobodyReleasedEarly`), so whoever is released is on no list.

`StartupProofs`:

- `StartupTypeCorrect`: the lock is never negative, and nobody takes more than two
  units, because it comes to the lock at most twice, and with none at first
  (`TakenInv`).
- `PauseAlwaysResumable`: `PauseInv` says that main may be at the pause without a
  unit only after SIGUSR1, `MainInv` that main does not close the park while its
  handler is to be run.
- `LockAlwaysComesBack`: while the lock is 0 there is an insider that *took* a unit
  (`LockInv`, `Insiders`). The property alone is not inductive: a process inside
  without a unit also returns one, but may be killed without returning anything.
- `RegistryAlwaysHonest`: `RegInv`, for every set of children that are signalled. It
  has a part that needs no lock: a process claims and holds only entries of its own
  (`SlotInv`), the cashier and the restaurant at work are in theirs (`AtWorkInv`), and
  whoever an entry names took that one and has not left (`EntryInv`). That an
  attraction always finds an entry other than the restaurant's is a pigeonhole
  argument over the processes created so far (`FreeEntry`), which does not care how
  many scan at once. The other part, `ExcludedInv`, is conditional on `~breached`:
  while the park is open the lock holds at most one unit, at most one process claims
  an entry and nobody leaves (`OpenInv`), so the entry a process is about to write is
  still free (`WriteInv`); once the park is closed nobody claims any more. The
  signals of main's handler cannot set `breached`, because they come after the
  closing (`MainInv`), those of an operator can.
- `SemaphoresAlwaysDisjoint`: two processes at work, unless they are attractions after
  a breach, are in different entries (`RegInv`), and the leave semaphores of an entry end before those of the next
  begin. The latter is an induction over the recursive sums `HandlersBefore`; as
  the induction theorems of the library cannot be applied, the proofs
  (`SumsExist`, `HandlersAreOrdered`) refute a least counterexample, which exists
  because the order of the natural numbers is well-founded (`LeastNumber`).

Every safety property of a passing run is the subject of a theorem, the
refinement included. Only model-checked are the liveness properties
(`EveryExitNoted`, `ClosingTerminates`, `AttractionEnds`, `RestaurantEnds` and both
`VisitEnds`): liveness under fairness is out of the prover's reach. The
inductive invariants were model-checked before they were proved.

## 5. Not modelled

- Amounts of bills (no state depends on them), log texts, random choices, the
  attraction criteria and the tickets (pure functions of a client).
- The logger: one loop over one queue that writes text.
- Several attractions at once, beyond the registry: they share nothing but the
  clients, and a client is at one at a time.
- A second SIGINT from outside, and SIGUSR1 or SIGUSR2 to main after SIGINT.
- What two attractions that share an entry (see *Disagreements*) do to each other's clients:
  `Attraction` is about one that has its semaphores for itself.
- Undefined behaviour inside one statement: the cashier's handlers use the
  `std::map` the interrupted statement may be changing.
- Creating, attaching and removing IPC objects, and `wait()` that ends early.

## 6. Plan

Done: the cashier, the attraction and the restaurant with their clients, the
closing of the park, the registry with its lock, main's start and pause, the
refinement of `Admission`, and the theorems above. Left, in this order:

1. An abstract ride (a list that is filled, rides and is released) that
   `Attraction` and `Restaurant` both implement.
2. A second SIGINT and the early end of `wait()` in `Startup`.
3. The attraction criteria and the tariff as operators, checked against
   definitions taken from the documents.

## 7. Running

    tlc -workers 2 -config MCPark_closing.cfg MCPark
    tlapm ParkProofs.tla

The runs take from a second to about four minutes. Next to some definitions
stand variants with a suffix (`Fits_Full`): the plausible bugs that show that a
property can fail. `PROJECT.json` says which variant breaks which.
