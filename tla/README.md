# Specifications of the ESMF core

TLA+ specifications of the parts of ESMF whose behaviour depends on an order of events: the
virtual machine (`src/src/Infrastructure/VM`, mostly `ESMCI_VMKernel.C`), the work queue of a
DELayout (`src/src/Infrastructure/DELayout/src/ESMCI_DELayout.C`), and the clock and alarms of the
time manager (`src/src/Infrastructure/TimeMgr`). TLC checks every module on small instances;
TLAPS proves safety properties of seven of them for every instance. `PROJECT.json` lists the
runs, the theorems, and the source lines of every definition.

Most of ESMF (grids, fields, regridding, calendars) is sequential code that runs on top of the
virtual machine. A mistake there shows as a wrong number; a mistake in the virtual machine as a hang or
as corrupted data on some machine, some of the time, which a unit test hardly reaches. That is why it
comes first. The alarms are sequential too, but what they do depends on the whole history of the clock,
of which tests try a few.

## 1. The system

ESMF runs a coupled model as components. A component runs in a **VM**, a set of **PETs**. A PET
is a process or a thread. A parent VM may give several of its cores to one PET of a child VM, and
may run the child's PETs as threads of its own processes. Data is decomposed in **DEs**, which a
**DELayout** maps to PETs; DEs pinned to the virtual address space (VAS) of several threads may be
worked on by any of them.

| Component | State | Operations | Interacts with | What is hard | What makes it correct |
|---|---|---|---|---|---|
| DELayout work queue | per DE: shared offer count and two mutexes; per PET: private count, flag | `serviceOffer`, `serviceComplete` | threads of one VAS through shared memory | offers of several threads interleave; a window is held while others are offered | each round granted once, windows do not overlap, an offer returns |
| Shared memory channel | flip/flop flags, two pointers, two buffers with a flag | `send`, `recv` | two PETs of a node | no lock at all: only flags, reused by consecutive messages | messages arrive intact, calls return when the peer is done, no livelock |
| VM barriers | the flags of the channels | `barrier`, `threadbarrier` | channels, `MPI_Barrier` | a fast thread enters the next barrier while others leave this one | nobody leaves before all entered |
| VM threads | mutex and condition variables, flags of each `vmkt` | `startup`, `enter`, `exit`, `shutdown`; `vmk_spawn`, `vmk_block`, `vmk_sigcatcher` | pthreads, signals, MPI messages between processes | signals to a process reach any of its threads; condition variables have no memory | cores come back when they are free, exit waits for the threads, nothing is missed |
| VM epochs | per pair: stream, first flags, request, stream buffer | `epochEnter`, `epochExit`, non-blocking `send`, `recv`, `epochFinal` | MPI | PETs do not synchronize: a sender is epochs ahead and reuses memory MPI may still read | messages in order and unchanged, one transfer per pair and epoch |
| Communication handles | doubly linked queue of handles | non-blocking calls, `commtest`, `commwait`, `commqueuewait` | MPI requests, epochs | handles are deleted in any order, by two ways, while the program keeps addresses | no use after free, none forgotten |
| Collectives | posted messages and handles | `sendrecv`, `broadcast`, `scatter`, `gather`, `allgather`, `alltoall`, `reduce` and their variants | channels, MPI | made of point to point messages, all with one tag, over channels that may keep no message | data arrive where the call promises, no circular wait |
| Exchange patterns (ComPat, ComPat2) | buffers and handles of one call | `totalExchange` | non-blocking send, recv; callbacks | posts, waits and reuse of handles overlap between rounds | every pair meets, handles and buffers are free when used again |
| VM table, garbage collection | table of VMs and of their objects | create, enter, exit, destroy | every object class | matching of a thread to its VM; double deletion | objects deleted once |
| XXE engine | op streams, handles | `exec`, waits, tests | channels, handles | which wait ends which request | all requests of a stream end |
| DistGrid, Array, Field, Grid, Mesh, LocStream, XGrid, Regrid | index spaces, geometry | create, query, store | XXE | volume of data, floating point | arithmetic of indices |
| Clock and alarms | clock: times, steps, direction; alarm: ring times, flags, counters | `Clock::advance`, `set`; alarm create, destroy, `ringerOff`, `ringerOn`, enable, disable, sticky, `set` | the clock checks every alarm of its list | ring times are moved incrementally; direction, step size and user calls change between any two steps | an alarm rings when due, in reverse as in forward |
| Calendar, Time, TimeInterval | values | convert, compare, add | none | arithmetic at boundaries | conversions invert |
| State, StateReconcile | item lists | add, remove, reconcile | ComPat, VM | every PET must know every object | equal lists on all PETs |
| Component, FTable, tunnels | tables of callbacks | register, run | VM `enter`/`exit` | callbacks on threads; dual components | each entry runs once |
| NUOPC | run sequence, field dictionary | initialize, run | Component, State | resolution of data dependencies in any order | ends exactly when solvable |
| Base, Container, Config, LogErr, Trace, IO, Util, WebServices, Mapper, stubs, apps, ESMPy | various | | | | |

`PROJECT.json` names the sources of each, and the hazards at their lines.

## 2. Modules

| Module | Models | Composition |
|---|---|---|
| `ServiceWindow` | what the work queue promises, without mutexes, counters and calls | abstract |
| `WorkQueue` | `serviceOffer` and `serviceComplete`, one action per shared access | implements `ServiceWindow` |
| `WorkQueueProofs` | its theorems | extends `WorkQueue` |
| `ShmChannel` | blocking `send`/`recv` over shared memory, both protocols | |
| `ShmChannelProofs` | its theorems | extends `ShmChannel` |
| `VMBarrier` | `barrier` and `threadbarrier` over the flags of channels | |
| `VMBarrierProofs` | its theorems | extends `VMBarrier` |
| `VMThread` | life of the threads of a VM | |
| `VMThreadProofs` | its theorems | extends `VMThread` |
| `VMThreadWakeups` | the same with wakeups without a signal | extends `MCVMThread` |
| `VMEpoch` | `ESMF_VMEPOCH_BUFFER` | |
| `VMEpochProofs` | its theorems | extends `VMEpoch` |
| `CommQueue` | the handles of one PET | |
| `CommQueueProofs` | its theorems | extends `CommQueue` |
| `VMCollectives` | collectives and exchange patterns where they are made of messages | |
| `ClockAlarm` | a clock, its alarms and all that users do to them | |
| `AlarmContract` | what users of alarms are promised, stated over history variables | extends `ClockAlarm` |
| `AlarmProofs` | theorems of both | extends `AlarmContract` |
| `LeastNumber` | a nonempty set of numbers has a least member: the induction the proofs need | |
| `MC...` | instances for TLC | extend their module |

**WorkQueue.** A PET inside `serviceOffer` goes through the labels `lockOffer`, `compare`,
`raise`, `unlockOffer`, `lockService`: each is one access to shared state, the read and the write
of `maxServiceOfferCount` are apart so that the mutex has something to protect. `localCount` and
`serviceFlag` are private to the PET in the code (each PET has its own DELayout object);
`maxCount` and the mutexes are shared. `granted` is a history variable. Clients offer only DEs
whose window they do not have, and have at most `MaxHeld - 1` windows when they offer.

**ShmChannel.** The two PETs know the sizes of all messages, so both derive the same `Route`: for
every transfer the buffer it goes through, or `Direct`. `ShmhackRoute` and `PipcRoute` are the two
rules of the code. A transfer is a message, or a chunk of one. The data are the numbers of the
transfers; user memory consists of slots, which the program reuses, and of two halves, because the
two PETs copy one half each. Every test and every set of a flag is one action.

**VMBarrier.** The flags of the channels of a process are `aDone[p]`, `bDone[p]`, for the channel
of its master and thread `p`. `MPI_Barrier` is a counter per master.

**VMThread.** `pc` is the place of the PETs in `startup`, `enter`, `exit` and `shutdown`; `tpc` that of the
threads in `vmk_spawn`, `vmk_block` and `vmk_sigcatcher`. A mutex is abstracted to who can take it: the thread
that waits on a condition variable of the mutex makes it free, and "lock, signal, unlock" is one
step that needs the other side to wait. This abstracts neither the order of the steps nor the
place where a thread waits. `Queued`
says whether `VM_SIG1` is a real-time signal, `MpiMultiple` whether the MPI thread level is
`MPI_THREAD_MULTIPLE`: without it a child PET keeps mut0 of its parent during `MPI_Send`. Who spawns and who
contributes is given (it comes from `VMKPlan`); `startup` numbers the child PETs as it spawns them, so each is spawned
once (`SpawnedAssumption`).

**VMEpoch.** A program is a sequence of epochs; `Count` says how many messages each pair exchanges
in each. `memory` and `put` are the stream of the sender: `put` returns to 0 while MPI may still read
`memory`, and only the transfer of the contents to the receiver (or the eager copy by MPI) frees it. The
contents of a message are therefore read when it is received or copied and not when it is posted. `Program` is the
reference: the concatenation of what the sends of a pair have sent up to an epoch.

**CommQueue.** `first`, `nhandles`, `next`, `prev` are the fields of the code, `Link` and `Unlink`
its two helpers. `Queue` is what a walk from `first` along `next` finds (`Nth` is its n-th handle; it is never longer than
there are addresses, which are finitely many). An address of a handle is reused after its deletion. Reading
the type of a handle that was never set (in an epoch) or freeing an array twice sets `bad`, and the model
stops there. Left out: `sendrecv` in an epoch, and `commcancel`, which only completes requests.

**VMCollectives.** Each operator named after a call (`Broadcast`, `Scatter`, `Gather`, `Alltoall`,
`TotalExchange`, ...) gives the sequence of instructions PET `p` executes in it: post a send, post a
receive, wait for a handle, copy, combine, and blocks that run if a size is not zero. A blocking send or receive is
a post and a wait. The actions execute instructions. All messages of a pair have one tag, so the
n-th send meets the n-th receive. A wait for a send returns when the message was received
(`WaitDone`); it may return earlier if the channel keeps the message (`WaitKept`), which no scenario relies on
unless it is marked `eager`. Sizes of requests are contents of messages, so that a mixed-up order of size and
data shows. The callbacks of `ComPat` copy what they get; its `BoostSize` is 512 in the code and 2 here. A
**scenario** fixes the number of PETs, the calls and who has something for whom.

**ClockAlarm.** `clock` and `alarm[a]` are records with the fields of the C++ classes.
`CheckForward` and `CheckReverse` are the two halves of `Alarm::checkRingTime`, split as the code
splits them: `PreCheck`, `PushRingTime`, `CheckTurnOn`, `TurnOnOrOff` forward, and `PullBackSticky`, `PullBack`,
`TurnBackOn`, `TurnBackOff` in reverse. `Advance` is `Clock::advance` with the check of every alarm. The
loops are evaluated by the number of times they run, which needs no bound: a loop that moves a time in steps has passed
another time after as many iterations as there are seconds between them, or never will. One that never ends sets `endless`, and the model
stops there, as the program would. Times are integers. A `Time` that was never set compares as 0 and
stays what it is when an interval is added, which is what `Origin` and `Plus` do.

**AlarmContract.** The code does not keep the rings of an alarm, only the next one, so a promise
needs history: `base[a]` is the first ring time the user gave, `clean[a]` says that the user left the alarm and
the step size alone, `kept[a]` the weaker assumptions under which the next ring time is promised; both need steps that have kept
one sign (`oneSign`), and an interval that has it too. Steps, intervals and requests themselves may have any sign. `ShouldRing`
defines the rings from `base` and the intervals alone, without a step of the clock, and is compared with
the flags the code maintains step by step, forward, in reverse, and through any number of turns.
`clean` begins with what `CreateAlarmH` asks of the new alarm: not sticky, no stop time, rings for a number of steps, or a duration
along the clock's steps, with a silent step between two rings; section 4 says what goes wrong without each. `OnStep` and `RingSpan` turn a ring time and a
duration into steps: an alarm rings from the first step at or after an instant to the first one at or after the end of the duration counted from there.
The conditions of a check overlap in the code, which takes the first that holds; in the model they are nested `IF`s, or `CASE`s whose
guards exclude each other.

## 3. Runs

| Run | Instance | States | Shows |
|---|---|---|---|
| `workqueue` | 3 PETs in 2 VASs, 2 DEs, 3 rounds, a window held during an offer | 192 000 | each round is granted once and to somebody, the counter has no gaps, only the owner unlocks, `ServiceWindow` is implemented, every offer returns unless clients wait for each other in a circle |
| `shmchannel` | 10 messages in 13 transfers over direct and buffered routes, 2 slots | 234 000 | each message intact; no buffer written and read at once; no direct transfer left early; both finish |
| `vmbarrier` | processes of 3 and 2 threads, 4 barriers of both kinds | 33 000 | nobody leaves a barrier early; everybody leaves |
| `vmthread` | one PET spawns two threads, two contribute, 2 cycles, shutdown after an enter | 184 000 | exit waits; cores return when free and are used only while held; all get through shutdown |
| `vmepoch` | 3 PETs, 4 epochs | 1 500 | messages in order and unchanged, one transfer and at most one outstanding per pair, all end |
| `commqueue` | 4 handles, 3 variables | 316 000 | the list stays sound in every order of calls; waiting for all clears all; without epochs and tests of containers nothing is used after it is freed |
| `vmcollectives` | 145 scenarios of 2 to 4 PETs: every pair of calls in a row, non-blocking ones overlapping, all partners of `sendrecv`, sparse and full exchanges | 77 000 | what a call promises is in memory when it returns, and nothing else is written there; no handle is posted again before it is waited for, none is left; every PET returns |
| `clockalarm` | two alarms of eight kinds, clocks that step up or down, 3 user calls, 2 turns, one step of another size (longer than the up clock's, against the down clock's), positions from 2 time units before the start to 8 after it | 2 910 000 | alarms ring exactly at their instants, in reverse mirror-wise; a ring time is the next instant; `willRingNext` foretells; a call that does not return has met an alarm whose interval points against the last step, or one without an interval after a turn or a change of sign |

Why the bounds are enough. The hazards of the work queue need two PETs of one VAS that compete and a third one
that may not; a circle needs two DEs; a third round shows that rounds do not influence each
other beyond the next one. In a channel the state after a transfer depends on the last transfers only (flags
and two buffers), so a route that has all successions of two kinds of transfer, and three chunks in a row, has
all of them; the theorems cover any route. In a barrier a PET is at most one barrier ahead, so three successive barriers
suffice, with a `threadbarrier` between, and a process of three threads in which the loop of the master takes two
rounds. A second cycle of a VM shows what the first one left behind, two contributors of
one process are what can confuse signals. Three epochs of one pair are a sender two epochs ahead of its receiver.
Four handles have a first, a last and two middle ones.
Collectives differ between root, PETs below and PETs above the root, which 3 PETs have; two calls in a row show
that messages of one are not taken for messages of the next. With 2 PETs in `ComPat2` the PET that asks is the one
that answers, with 3 they differ; 4 PETs give `ComPat` two rounds of 2 messages, and `sendrecv` rings of 4 and two pairs. Alarms
interact only through the clock, so two suffice; four steps of size 2 hold two rings of interval 4, of 1 or 2 steps, between and
on time steps, and two turns bring the clock back to where it was.

Deadlock is not checked by TLC because every program here ends; that it ends with all done is the liveness
property of each run (`OfferReturns`, `AllReceived`, `AllLeave`, `AllDown`, `AllFinal`). `CommQueue` and `ClockAlarm` have
none: calls of the one wait for nothing but MPI, and users of the other need not make any. In
`vmcollectives` deadlock is checked as well, and `AllReturn` is its liveness property.

### Fairness

Each action group of a thread or process has weak fairness: the operating system lets every
thread that can run do so in the end, which is also all the spinning code relies on. Programs make
all their calls, a PET that was accepted calls `serviceComplete`, and the user code of a child PET returns;
none is forced to make an offer. Mutexes and condition variables need no strong fairness: for a mutex that
is free again and again `OfferReturns` still holds, because clients make a bounded number of
offers (`MaxOffers`), so fairness of the mutex itself is not examined. MPI delivers; it need not copy eagerly.
In `VMCollectives` it suffices that some PET moves as long as any can: every step changes a `pc` for good, so programs cannot
run for ever. A channel is fair to a sender that waits (`OneKept`) in `eager` scenarios only, and then for one message.

## 4. Where code and documents disagree

Four runs show a violated property; each quotes what a comment or an example says (`findings`).

- `vmthread_signals`: where `SIGRTMIN` is undefined, `VM_SIG1` is `SIGUSR1` or `SIGUSR2`. Two contributors
  of one process may get one signal for two notifications, and `shutdown` never returns.
- `vmthread_wakeups`: no wait on a condition variable rechecks a condition, and POSIX allows it to return
  without a signal; `exit` then returns while the thread is at work.
- `commqueue_epoch`: in an epoch `commwait` does nothing, so the `ESMF_VMCommWaitAll` that
  `ESMF_VMNonBlockingEx.F90` recommends there leaves its handles in the queue for ever.
- `commqueue_test`: `commtest` of a container (of `sendrecv`) frees its contents, yet neither unlinks nor deletes it.

### Defects met on the way

No run of its own shows what follows as a violated property. The runs keep clear of it, and say so, or their properties are
stated so that they allow for it. Where a comment claims the opposite, it is named.

Collectives (`ESMCI_VMKernel.C`):

- `alltoall`, `alltoallv`: a PET sends to those below and receives from those above, then sends to those above
  before it receives from those below (5366). With 3 PETs and channels that keep no message the second half
  ends with PET 0 sending to 1, 1 sending to 2, and 2 waiting for 0: TLC finds that deadlock when the
  scenario is not `eager`.
- The blocking `allgather` gathers `n*len` bytes and broadcasts `len` (5180). `gatherv` and `scatterv` declare a local `root`
  that hides the argument (5118, 4953): the root is PET 0.
- `allgatherv` broadcasts the sum of the counts from the start of the array, so the segments must lie one after the
  other, whatever the offsets say.
- Below `MPI_THREAD_MULTIPLE` a blocked `MPI_Send` or `MPI_Recv` keeps the mutex of its process (3244, 3535); another thread of the
  process may be the one that has to make it return.

Alarms (`ESMCI_Alarm.C`, `ESMCI_Clock.C`):

- `advance` may loop for ever over an alarm. An alarm with neither interval nor stop time that has come due is enough
  once the clock's direction was set, even to what it was: a sticky one with ring time 3, for example, on a clock that steps
  from 2 to 4, is set forward, and steps on. The loop of 1176 should "pull back ringTime into ringable range" (1170), and adds 0 to it.
- A sticky repeating alarm that the user disabled has the same effect when the clock takes a step of the other sign: 1156 to 1169
  would adapt its interval, but only if it is enabled (1132), while the loop of 1244, there to "ensure a sticky repeatable alarm's
  ringTime remains in ringable range" (1233), is entered all the same and moves the ring time away from the clock. So it does if the
  interval was given with the wrong sign, or inverted because the alarm was created just after such a step. Histories of all these kinds
  are among those of `clockalarm`, and `EndlessOnlyIf` says what all of them have in common.
- The flag of `wasPrevRinging` should tell whether any alarm was ringing at the previous step (917, `ESMCI_Alarm.h`:135). Going forward it is false for one that rings for several
  steps, because `checkTurnOn` clears the flag of the current step when no ring time is crossed (1945): of an alarm that rang at 2 and 4 it says at 6 that it was silent
  at 4. `PrevRingsOnTime` leaves these out.
- An alarm that is not sticky rings once only if its interval is smaller than the time step, and never again if it was
  disabled while a ring time passed.
- `Clock::addAlarm` clears `userChangedDirection` (2067), so other alarms miss a turn made just before.
- A ring time set by the user that lies between two steps is refused at the step that crosses it (1146), and the alarm is dead.
- An alarm created just after a fresh clock was set to the direction it has, and due at that very time, does not ring: the loop of 1176 takes
  the ring time for one passed before the turn.
- In reverse, when the clock has come to the step before a ring, 1396 counts the end of the ring before from the ring time, not from the step that ring began
  at: for a ring time between two steps and a duration that is no multiple of the step, `wasPrevRinging` is wrong there.
- A duration that points against the time steps works forward, where absolute values are compared (1214), and not in reverse (1341).
- An alarm created with a step count of 0 never falls silent: no branch of 1220, 1344 and 1398 is for it (the code has a TODO there).
- Rings that follow each other without a silent step, ring times between negative time steps (2019), and turning
  a clock back behind its start break the mirror image in reverse.
- `Clock::set` refuses a direction when the current time is beyond the stop time, although a comment (1669) speaks of a warning;
  `Clock::advance` hides `rc` by a local of the same name (643), so errors of `checkRingTime` are lost.

## 5. Proofs

**`WorkQueueProofs`** proves, for any sets of PETs and DEs, any mapping and any bounds, `TypeOK`,
`OneGrantPerRound`, `FlagIsOwnership`, `RoundsAreContiguous`, `AnsweredRoundIsGranted` and that `WorkQueue`
implements `ServiceWindow`. `OneGrantPerRound` is not inductive: it must be known that whoever is at `raise` owns the
mutex (`DeciderOwnsMutex`) and offers the very next round (`RaiseIsNext`), that no offer runs more
than one round ahead (`UndecidedGap`), and that no round beyond the counter was granted (`GrantedUpToMax`).
Together with who owns which window they form `SafeInv`; `StepSafe` shows, action by action, that
it is preserved, and `StepWindow` that every step is a step of `ServiceWindow` or a stutter.
Assumed: `NoPet` is no PET, the mapping is a function to PETs.

**`ShmChannelProofs`** proves `TypeOK`, `ReceivedIntact`, `Rendezvous` and `ExclusiveBuffer` for any route of any
length, over any set of buffers. The invariant has three layers. `Control`: what each flag says of the
two program counters and transfer numbers, and that a sender is ahead by buffered transfers only. `Buffers`:
a buffer is full iff it holds one transfer in flight, and two in flight are in different buffers. `Pointers` and `Halves`:
which memory the shared pointers name, and which halves have been copied. `StepControl` needs `Buffers` (a receiver that
finds a buffer full is behind the sender) and `StepBuffers` needs `Control`, so they are
preserved jointly. Assumed: `N` is a natural number, `Direct` is no buffer, there is memory.

**`VMBarrierProofs`** proves `TypeOK`, `GroupBarrier` and `FullBarrier` for any PETs, any grouping of them into
processes, and any sequence of calls. For a master and one of its threads it counts in how many calls each of them has
raised its flag, has seen the flag of the other, and has taken it down: these are functions of the control points, the call counters and the
set of threads the master's loop has still to meet. `PairFlags` says that a flag is the difference of two such counts, `PairOrder` that
nobody has seen what the other has not done. With this, each spin loop of the code ends only if
the partner has made its step, and the chain "returned, lowered, raised, entered" through the master is
`GroupBarrier`. `LoopInv` says that the loop of a master is never at a thread it has met
before (the minimum of a nonempty set of numbers is in the set: `MinInSet`). For `FullBarrier`, `MpiInv` adds that a master has entered `MPI_Barrier` as often
as there are barriers among the calls it has gathered its threads for; two masters that have entered it equally often may differ
by thread barriers, so `BarriersGrow` and `BarriersStep` are needed to conclude that the slower one is at this barrier too.
Assumed: PETs are numbers, every PET has exactly one master in its process, calls are of the two kinds.

**`VMThreadProofs`** proves `TypeOK`, `CoresReturned`, `CoresHeld` and `ExitAwaitsThreads` for any PETs and processes, any
number of child PETs per PET, any contributions of cores, any number of cycles, with or without a last exit, serialized or
concurrent MPI, and signals that are queued or merged. The invariant `IInv` (all of it checked by TLC on three instances
before it was proved) has two halves.
`Places` and `Slots` say what each thread can be doing, given where its PET is in its loop over its threads (`Slot`: before the
thread it is at, at it, after it). They justify every step of a PET that assumes something of a thread: that a release
never signals a thread that does not wait yet, that only threads that are released do any work.
The other half counts. `Done` is the number of cycles in which a thread has done what it waits for, a function of its control point and the
cycle it was released for. `Work` says that `ran` is that count of a child PET, and what it has left to notify; `Hellos`
that what a contributor has told is what its spawner has heard and the messages between; `Tokens` that a message to a blocker, or a
sigcatcher that has received it, is the only one and that the blocker is one wakeup behind. Together they give, for every contributor, `Chain`:

    round - 1 <= woken up <= messages <= signals <= runs of the child PET
              <= cycles its spawner has heard of <= cycles it has told <= cycles it was released for <= round

so all of these are equal or one apart, and where a contributor or a child PET is decides which: that is `CoresReturned` and
`CoresHeld`. Without `Tokens` the chain does not hold: a sigcatcher that wakes up a blocker not yet waiting would
lose the wakeup, and that it waits follows from the chain itself. It does not matter which sigcatcher takes which signal, since signals
only count (`Signals`, needed for the bound of `sig` in `TypeOK`: the contributors of a process that have been signalled for, without those whose
sigcatcher is already away). `Barriers` says that no PET of a process is behind a barrier another has crossed, which
makes `ExitAwaitsThreads` hold across PETs. The steps are grouped by what they can disturb: `QuietStep` (PETs, and threads in
their loop) leaves all counts alone (`QuietCounts`), `WorkStep` (threads at work) leaves all PETs alone (`WorkIsOnly`).
Assumed: PETs are finitely many numbers, every child PET is spawned once, contributors are given a child PET and spawn none.

**`VMEpochProofs`** proves `TypeOK`, `InOrder`, `OneTransfer` and `OneOutstanding` for any PETs and any
program, with senders any number of epochs ahead. The invariant counts the busy epochs of a pair, those with messages (`Busy`): the MPI messages in the network are
those of the busy epochs its sender has exited and its receiver has not taken (`Network`), each with the contents of its epoch or,
while MPI has not copied it, still lying in the stream (`Carries`). `Stream` says what the sender has in
its stream (and that it does not write it before the transfer that reads it is over), `Buffer` what the receiver has still to take from its buffer,
`Delivered` that what it has taken is the beginning of the program. The number of the epoch a message belongs to is in
no variable; numbering the busy epochs recovers it. Assumed (`CountAssumption`): the program gives a number of messages for every pair and epoch,
and in no epoch does a PET both send and receive.

**`CommQueueProofs`** proves `TypeOK`, `ListOK`, `HandlesSound` and `WaitAllClears` for any finite set of addresses and any variables.
`Links(s)` says that sequence `s` holds the allocated handles once each and that `first`, `next`, `prev` and `nhandles`
describe it; linking appends to `s`, unlinking removes from anywhere in it. That `s` is `Queue`, what the walk finds, is an
induction on its length (`NthDef`, `QueueIs`). `Held` (a variable holds an allocated handle, and no other does), `Clearing` (what `commqueuewait`
has left to do) and `Safe` (before a risky call, every allocated handle has its contents and every freed one no request) complete the
invariant. Assumed: addresses are finitely many, `Null` is none of them.

**`AlarmProofs`** proves all that the run checks of alarms, `TypeOK`, `RingTimeIsNext`, `RingsAsForetold`, `EndlessOnlyIf`, `RingsOnTime` and `PrevRingsOnTime`, for any alarms, requests, times and steps of any size, and that the
history of the contract restricts nothing (`ContractSpec`: its steps are steps of `ClockAlarm`). `SignInv` says that the steps
of a clock have the sign of its own as long as `oneSign` does, so that all comparisons go one way (`Direction`); where a change of sign is at hand,
nothing about ring times is claimed. `AlarmInv` says what
it takes to promise a ring time: no stop time, nothing set by the user, the clock never went back, and the
ring time is the first of the alarm's instants ahead (`IsNextRing`). The last part is what `RingTimeIsNext` says of a clock stepping
forward; it must hold for one that has been turned but not stepped too, or nothing would be known when it is turned again. A check of an
alarm is three steps: the correction after a change of direction (`Checked`), turning it on or off
(`Turned`), and pushing a sticky one (`Settled`); `ForwardIs` takes `CheckForward` apart, `StepForward` and `CreatedForward` show the ring time at
the end to be the next one. What a loop does is known from the least number of iterations after which it
may stop (`PushIs`). Nothing is promised of an alarm whose loop does not stop (`endless`); `EndlessWhen` says
which those are, for steps and intervals of any sign. There are three loops: after a correction and of a sticky alarm forward, of a sticky alarm in reverse. Each is taken past
the time it looks for by an interval that points along the last step (`Far`, `PushEnds`, `PullStickyEnds`); everything else a check does leaves `endless` and
the interval alone (`TurnOnEnds`, `CheckEnds`). `Stuck` is what is known of an alarm when a loop did not end (`ForwardEnds`, `ReverseEnds`). `LoopInv` adds that a clock which was never
turned goes forward: then a loop over an alarm without an interval needs a change of sign.

`RingsOnTime` and `PrevRingsOnTime` rest on `RingInv`. Times are counted from the clock's start along its steps (`Since`), which makes one case of clocks that step up and
down; `Begins` is the step an instant begins to ring at and `Span` how long it rings, both whole numbers of steps (`Grid`), so that "later" is "a step later" (`GridApart`).
For one instant `e`, the last one reached, `AtEvent` says that the alarm rings iff it should for `e`, and that `ringBegin` and `ringingCount` are what they
are for `e` at this step. Which instant that is depends on the way of the step last taken: after a step forward the ring time is
already the next one (`ByNext`), after a step in reverse it is `e` itself (`ByLast`), and when the clock has been turned since it may be either (`InPlace`). The first check after a turn makes one out of
the other: forward, the loop of `PreCheck` moves the ring time on by exactly one interval or not at all (`PushedNext`); in reverse, `PullBack` takes it back by one (`PullBackIs`). After that a check
is one of four cases forward (`TurnedPlain`: turns on, turns off, rings on, stays off; `NextToNext`), and in reverse turns back off (`BackOffIs`, and the count must
reach 1 exactly where the ring began) or back on (`BackOnIs`, where the count is taken from a division, `QuotientIs`). What makes them right is that an alarm has been silent for a step before its next
instant begins (`RingsApart`, from `Separated`), and that `e` is the only instant that can make `ShouldRing` true (`ShouldRingIs`). A new alarm is treated as
one that has been on the clock since the step before its creation (`NewRing`). `PrevSeen` follows from `AtEvent` before the step when
going forward; in reverse the code computes the flag from the two ends of a ring, which is where `EndIs` and `EndDue` come in.
Assumed: times, steps and arguments are integers, steps are not 0, `NoAlarm` is no alarm, and the clock stays clear of the value of a `Time` never set (`OriginAssumption`), for
which the code takes a time of that value. The attempt to prove these two invariants showed four cases in which they do not hold, the four points of
section 4 from "An alarm created just after a fresh clock" on; none was among the requests the run had until then.

**Induction.** The induction rules of the library take an operator as a parameter, which the provers cannot instantiate, but the least member of a nonempty set
of numbers can: `LeastNumber` proves that there is one, and inductions, the recursive functions `Program` and `Nth` included, take the least counterexample.

Only model-checked:

- All liveness: it depends on fairness and ENABLED, which the provers do not handle.
- `VMCollectives`: what a collective promises depends on the program of each PET, a sequence of up to a few dozen instructions
  computed by recursion from the scenario; a proof for every number of PETs would be one proof per collective.
- The violations of section 4.

## 6. What is not modelled

- Weak memory. The specifications interleave single accesses to shared memory in one order for all.
  The flags of channels are `volatile` without fences; on processors that reorder stores `ReceivedIntact` needs more
  than is shown here.
- The non-blocking ring of 16 messages of `ESMF_MPIUNI`, channels between pthreads with condition
  variables, and channels over MPI.
- Epochs together with thread-based VMs, and blocking calls during an epoch.
- Collectives that are one MPI call, `allfullreduce`, `reduce_scatter`, the blocking `allgather`, `selectiveExchange`, receives from
  any source, and non-blocking calls over channels without them (SHMHACK, pthreads, POSIXIPC).
- `Clock::set` of times and steps, `syncToRealTime`, reading an alarm list, copies of clocks,
  and the arithmetic of times and calendars.
- Startup of child VMs: what it computes (who spawns and contributes) is a constant.
- Contents of messages, sizes and addresses: they are numbers of transfers and members of small sets.
- Numerical, I/O and generated code, for reasons given per component in `PROJECT.json`.

## 7. Plan

Done: the modules of section 2; proofs of every safety property checked by a run of `WorkQueue`, `ShmChannel`, `VMBarrier`, `VMThread`, `VMEpoch`,
`CommQueue` and `AlarmContract`.

Next, in this order:

1. The channels between pthreads as a third kind of transfer of `ShmChannel`; epochs together with blocking calls.
2. `VMIpshm`: shared allocations and intra-process mutexes, counted per thread.
3. `StateReconcile`, NUOPC's resolution of data dependencies, component tunnels, XXE waits.
4. Calendar conversions as functions, compared with a reference over bounded days.
