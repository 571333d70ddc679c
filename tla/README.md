# A TLA+ verification of PIConGPU / libPMacc

PIConGPU is a particle-in-cell simulation for many accelerators.  Each MPI rank
owns a box of the grid on one device.  `libPMacc` (`src/src/libPMacc`) provides
the buffers, the particle lists, the event system that overlaps computation with
communication and the exchange of particles and fields with the neighbours;
`src/src/picongpu` holds the simulation itself: the step loop, the moving window,
checkpoints and the plugins.  This directory holds TLA+ modules that model the
concurrent and stateful parts, configurations with which TLC checks small
instances, and theorems about them whose proofs TLAPS checks.

## 1. Inventory

The parts of the program, the state they keep and what makes them hard.
`PROJECT.json` lists them with their files (`components`), and lists what is hard
to test in them, line by line (`hazards`).

| Part | State | Operations | Interacts with | Hard behaviour | What makes it correct |
|---|---|---|---|---|---|
| Exchange stack (`KernelBashParticles`, `ExchangePushDataBox`, `PushDataBox`) | size of the buffer, size and entries of the index, frame lists of the guard | `pushN`, the loop of the kernel, another round | send task; `ParticlesBox` | thread blocks share atomics and no lock; the size overshoots and is reset by a separate atomic | no place granted twice; no place left out; the index fits; room left means the guard is empty |
| Particle exchange (`TaskSendParticlesExchange`, `TaskReceiveParticlesExchange`, `TaskSend`, `TaskReceive`, `GridBuffer`) | state of the tasks, device and host buffers, MPI requests | bash, copy, send, receive, insert, next round | event system, MPI, the neighbour's tasks | buffers reused over rounds and steps; a wait inside a task bars the tasks below it; whether MPI buffers a send is unknown | what arrives is what was bashed; both sides count the same rounds; every step ends |
| Event system (`Manager`, `EventTask`, `TaskLogicalAnd`, `Transaction`) | maps of active and passive tasks, a static iterator, observers of a task, the event of a transaction | `execute`, `waitForFinished`, `operator+=`, notification and deletion | every task | `execute` is re-entered while its iterator is in use; tasks delete themselves in a notification | iterator and tasks are alive when used; a join ends with its last operand, not before; waits return |
| Moving window (`MovingWindow`, `CommunicatorMPI::slide`) | slide counter, last slide step, y offset of the rank | `getCurrentSlideInfo`, `slide`, `setStateAfterSlides` | step loop, background fields, checkpoint writer | asking for the window counts the slide; the offset wraps | one slide per slide step; the counter is the number of slides |
| Simulation loop, checkpoints, restart (`SimulationHelper`, `MySimulation`, `HDF5Writer`) | step, fields, checkpoint files, master file | `init`, `runOneStep`, `movingWindowCheck`, `dumpOneStep`, restart | window, MPI barriers, files | the job may die at any point; a restart has to undo and redo what belongs to the checkpoint's step | the master file names usable checkpoints only; a restarted job continues with the right data |
| Shift between supercells (`KernelShiftParticles`, `KernelFillGaps`, `KernelFillGapsLastFrame`) | frame lists, size of the last frame, masks | three kernels for each offset of a stride | pusher, heap of frames | neighbouring blocks would change the same list; frames that become exactly full | each particle is once where it belongs; lists are compact; no frame leaks |
| Insertion of received particles (`KernelInsertParticles`, `ExchangePopDataBox`, `setAsLastFrame`) | index stack, frame lists, heap | pop, allocate, append | receive task | lock-free append of several blocks to one list | every entry once, list linked both ways |
| Deletion of particles (`KernelDeleteParticles`) | frame list, size of the last frame | delete frame by frame | send task of a direction without neighbour, heap | runs after the kernels of the shift on what they left | the list is empty, its frames are given back |
| Device heap (mallocMC, policy `Scatter`) | page table (chunk size, fill level, mask), masks on pages, fill level of regions, first free block | `create`, `destroy` | frames of all species, in every kernel that appends | no lock: pages are formatted, filled, emptied and cleaned by threads that only share atomics; what was read of a page may be outdated | chunks in use are disjoint; the fill level is exact; masks mark what is in use; calls return |
| Field exchange (`GridBuffer::asyncCommunication`, `TaskFieldSend`, `TaskFieldReceiveAndInsert`) | send and receive events of each exchange, device and host buffers, state of the tasks | exchange of E, B and J, `bashField`, `insertField` | step loop, event system, field solver | kernels run while borders are copied and guards arrive; ranks are up to a step apart; one buffer of J is used twice in a step | a kernel finds the right guard; borders do not change while they are copied; each current is inserted once; steps end |
| Topology and mappings (`Mask`, `AreaMapping`, `StrideMapping`, `ExchangeMapping`) | none | pure functions | every kernel | a border numbered in one dimension over six faces | every supercell of an area once, blocks of a launch apart |
| Current deposition, field solver, push (`Esirkepov`, `VillaBune`, `ZigZag`, `YeeSolver`, `KernelMoveAndMarkParticles`, `FieldJ`) | E, B, J, position and cell of a particle | move, mark, shift, deposit, bash, insert, half steps of B, step of E | mappings, exchanges | cell and supercell boundaries, guards at edges and corners, different margins on both sides | Gauss's law and div B = 0 are kept by the whole cycle |
| Device and MPI reductions | buffers | `Reduce`, `MPIReduce` | plugins | sizes that are no power of two | not modelled, see section 8 |
| Plugins, connectors, streams, cuSTL, tools | | | | | not modelled, see section 8 |

How the parts act on one another in a step: `runOneStep` pushes particles and sets
masks; *shift* moves particles to the neighbouring supercell, those that leave the
device to the guard; *send* tasks bash each guard into the exchange stack and
send it in rounds; *receive* tasks insert what comes.  All of these are tasks of
the event system, waited for through joined events.  The frames these kernels append
come from the heap.  B is advanced by half a step, exchanged, and E is advanced; the
current of all particles is deposited, what fell into guards is sent to the neighbours
and added to their borders, and is subtracted from E, which is exchanged before the
second half step of B.  Then the window may slide,
which changes who the neighbours are, and a checkpoint may be written.

## 2. Plan

Order of work; all of it is done.

1. `ExchangeStack`: the core of the exchange and the best target for a proof.
2. `ParticleExchange`, implementing the abstract `GuardDelivery`.
3. `EventManager`, on which the exchange rests.
4. `MovingWindow` and `Simulation`: slides, checkpoints, restarts.
5. `ShiftParticles` with the deletion, and `InsertParticles`: the kernels on both ends of an exchange.
6. `ExchangeStackProofs`: type correctness and all safety properties of the stack.
7. `ScatterAlloc`, implementing the abstract `Heap`.
8. `FieldExchange`: the fields' way through a step.
9. `CurrentDeposition`, `Mappings` and `PicCycle`: what the step computes.
10. Proofs of the safety properties of `InsertParticles`, `ScatterAlloc` with the refinement of
    `Heap`, `EventManager`, `ParticleExchange` with the refinement of `GuardDelivery`,
    `Simulation`, and `FieldExchange`.
11. Proofs of the safety properties of `ShiftParticles`, the last component with shared state.

`ParticleExchange` abstracts the kernel of `ExchangeStack` to one step, `BashDone`.
What it takes for granted of it, that the size is at most `MaxSize` and is less
only if the guard is empty, is `FinalSizeBounded` and `RoundComplete`, which are
proved.  `Simulation` extends `MovingWindow`; `PicCycle` extends `CurrentDeposition` and
`Mappings`.  `PicCycle` takes the exchanges of fields as done when a kernel needs them, and
`FieldExchange` shows that they are (`GuardsFresh`, `CurrentComplete`).  `ShiftParticles` and
`InsertParticles` take frames from a set, which is what `Heap` promises.

## 3. Modules and the code

Every module starts with a comment on what it models.  `PROJECT.json` (`map`) gives
the lines of each definition.  Operators marked as variants hold a plausible error
and are used by nothing but the test that a property notices it.

**ExchangeStack.**  `frames` are the lists of the supercells of a guard with the
number of particles of each frame; `size` is `*currentSizePointer`, `indexSize` the
size of `virtualMemory`, `index` its entries; `pc`, `oldSize`, `count`, `slot` are
the registers of thread 0 of a block.  `PushAdd`, `PushReset` and `PushIndex` are the
three atomic operations of `pushN`; `CopyParticles` writes the entry and clears the
masks, `RemoveEmptyFrame` and `NoMoreFrames` are the other ways through the loop,
`NextRound` is the decision of `TaskSendParticlesExchange`.  Any list of frames may be
in the guard, also ones the simulation does not produce.

**ParticleExchange.**  For each channel (a direction between two ranks) the states of
the sending and of the receiving task, the device buffer, and for each of the two
parts of a message (`frames` and `index`) the host buffer, the copy, the MPI request
and the message under way.  `stack` is the host stack of a rank: a task that waits
inside `executeIntern` is pushed, and only the top-most one can return, while other
tasks are polled below its wait.  An eager message is copied when it is sent; a
rendezvous message is read from the host buffer when the receive matches it, which is
how a buffer that is reused too early shows.  The size of the index, which counts
frames in the code, is identified with that of the particles: both are zero together,
and no decision depends on more of it.

**GuardDelivery.**  The promise: a rank leaves a step only with all particles owed to
it in this step inserted, each once.  `step` and `due` have the same meaning in both
modules, so the refinement mapping is the identity.

**EventManager.**  `tasks` and `passive` are the two maps, `iter` the static iterator,
`stack` the calls of the host thread (`waitForFinished`, `waitForAllTasks`, `execute`,
`executeIntern`), `pend` the notifications a deleted task has still to deliver.  Four
kinds of tasks stand for all classes: operations, chains of two operations (`TaskSend`,
`TaskReceive`), tasks that wait inside their execution, and `TaskLogicalAnd`.  `base`
and `acc` are the events a program holds, of the transaction and of its own, each with
the set of tasks ever joined to it, which the code does not keep and `JoinExact`
compares with.

**MovingWindow, Simulation.**  A rank's window is the counter, the last slide step and
the y offset.  Its data are the slab of space they belong to, the step they have been
advanced to and, for each step, how often that step's background field is contained in
E and B.  A checkpoint file maps slabs to such data.  `Crash` ends the job at any point
and leaves files and master file; `Launch` starts it with a restart as soon as there is
a master file, from its last line or, with `--restart-step`, from any other.  Restarts leave
traces, and some variables keep the history that the properties need to say which; no action
reads them.  `from` is the step a rank has restarted from; the data carry how often they have
been loaded from the checkpoint of each step (`past`) and how many of these were slide steps
(`again`), also from job to job through files; `rewound` are the steps that a `--restart-step`
has gone back behind and whose checkpoints have not been written again since.

**ShiftParticles.**  Frames with slots, lists of frames per supercell, `size` for
`sizeLastFrame`.  One pass of a loop of a kernel is a step, since all threads of a block
meet in `__syncthreads` between its phases; the order in which threads get slots from an
atomic counter is nondeterministic.  The supercells form a row with two directions
instead of 26.  When the kernels of the shift have ended, `DeleteFrame` and `DeleteEnd` are
the deletion kernel on the guards that have no neighbour (`Open`).  The parts of a pass of the
shift are operators of their own: who leaves and where to (`Leaving`, `Dir`, `Total`), the
destinations before and after full frames are hung in (`Dest1`, `Dest2`, with `New1` and `New2`
the frames taken for them, and `Full`), the full frames that go to the front of a neighbour
(`Hung`), and the frames with all particles copied (`Flushed`).  `getEmptyFrame` is modelled
with all its allocations: the heap gives out the free frames in order (`Turn`), the k-th call
of a pass returns the last of its `MaxTries` frames (`EmptyFrameNr`), and those of `Allocated`
that are not `Returned` are kept in `lost`.  A pass waits for a heap that has enough frames.
Supercells may be empty.  `vacant` are those that start without a frame, and `spoiled` those
of them in which a block took a full frame of size 0 (`Unsized`) for its destination, so that
particles are written over.  `goal`, `lost`, `vacant` and `spoiled` are history for the
properties.

**InsertParticles.**  One step per access to shared memory: pop, each `malloc` of
`getEmptyFrame`, the exchange of the last pointer, and the two pointers set after it.
A block that gets no frame ends as `fault`, as the code writes through a null pointer.

**Heap, ScatterAlloc.**  `Heap` hands out a chunk only if it overlaps no chunk in use.
In `ScatterAlloc` the variables `chunksize`, `count` and `bitmask` are the page table,
`onpage` the masks at the end of pages, `regions` and `firstfreeblock` the hints for the
search, `th` the registers of the threads.  Every atomic operation and every volatile read
is a step of the thread; `usespot` is one step per atomic or.  The masks lie in memory that
also belongs to chunks of a page with another format: handing out such a chunk overwrites
them with ones, the worst its owner could write.  `PageSize`, `MaskBits` and `MaskBytes` stand for
2 MiB, 32 bits and 4 bytes, `Lane` for the random spot at which the search of a mask begins.

**FieldExchange.**  `Program` is `runOneStep` as a sequence of kernels, exchanges and waits
for events, as the solver and `MySimulation` issue them; the host thread runs it on each
rank of a ring.  A border is reduced to the version of its field, a current to the step and
the rank it comes from.  Per channel and field there is a copy to the host, an MPI message,
and a copy from the host; for J there are the tasks of its two directions with their nested
wait.  With a filter the current is exchanged a second time, border to guard, as for an
interpolation that reads the guard.

**CurrentDeposition.**  The shapes NGP to PCS and four current solvers as operators that map
the positions before and after a move to the current in the cells around.  Lengths are
integers: a cell has `Res` parts, and all coefficients are multiplied by common denominators
(`Scale`), so that all arithmetic is exact.  `Density` is the charge density that the
diagnostic of the code assigns with the same shape.

**Mappings.**  Areas, the stride, exchanges and directions in three dimensions; `Visits`
says how often the blocks of an area visit each supercell, `Launch` which supercells the
blocks of one launch have.

**PicCycle.**  One device with periodic boundaries, which is its own neighbour in all 26
directions, as the program is on one rank.  `particle` has supercell, cell and position;
`fieldE`, `fieldB` and `fieldJ` (with its guard) are indexed by linear cell numbers.  A
kernel acts on a cell as often as the mapping visits its supercell (`Times`); in a launch of
the deposition a block adds its cached block with its margins.  `Bashed`, `KernelBashCurrent`
and `KernelInsertCurrent` take the current from guards to borders, exchange by exchange.

## 4. Runs

| Run | Shows |
|---|---|
| `stack` | the safety of the stack, and that the guard is emptied |
| `exchange` | buffers are not used by two at once, messages arrive intact, rounds agree, the refinement of `GuardDelivery`, and both steps end |
| `events` | iterator, tasks and observers are alive when used; joins are exact; waits return |
| `simulation` | after restarts from any checkpoint, also that of a slide step or of the step before: the slides of a rank and its slide counter, the slab and the step of its data, the background field of every step, checkpoints usable, completion |
| `shift` | with empty supercells: particles kept and arrived or deleted, lists compact, every frame in a list or lost by `getEmptyFrame`, kernels end |
| `insert` | lists linked, each entry inserted once |
| `heap` | the refinement of `Heap`, exact fill levels, masks that mark the chunks in use, calls return |
| `fields` | guards fresh when read, borders stable while copied, currents inserted once and completely, steps end |
| `pic` | Gauss's law for the Esirkepov solvers, div B = 0, the whole current deposited, nothing written outside of the margins, nor by two blocks of a launch to one cell |
| `exchange_rounds`, `shift_empty`, `villabune` | one disagreement each, section 7 |

Each property has a mutant, an error the code could have had, under which TLC refutes
the property with the same configuration.

**Bounds.**
- `stack`: two blocks, up to three frames of two, a buffer of three.  Blocks push more
  than once in a round, both can be past the end together, frames are granted in part,
  the last round may be full or not, up to five rounds happen.  The theorems remove the
  bounds for all but `GuardEmptied`.
- `exchange`: two ranks, both directions, two steps, a guard of at most one and a buffer
  of one: a step takes one round, or two of which the first is full and the last empty.
  A second step is what reuses all buffers while sends of the first may be under way.
  Messages of one direction are eager or rendezvous as MPI likes, those of the other are
  rendezvous; the ranks are alike, so it does not matter which direction is which.
- `events`: seven tasks, enough for a join of a join, a chain and a task that waits
  while the main program waits.
- `simulation`: three ranks, a slide every second step from step 3, a checkpoint every
  third step, eight steps with three slides (3, 5 and 7), so the offset wraps once; two
  crashes, and restarts from any line of the master file.  The checkpoint of step 3 is that of
  a slide step and the one of step 6 comes just before a slide; two crashes are enough
  to restart from the first, to write the second with data that have been through this, and to
  restart from that.
- `shift`: four supercells and a stride of three, so two blocks run at once for one offset
  and an offset has a block next to those of the last; up to six particles, frames of two.
  Three of the supercells may be empty; the last one may have three frames, enough to hang
  a full one into its neighbour.  Two allocations per call of `getEmptyFrame` instead of
  thirteen lose a frame in every call, and the heap has enough frames for all of them.
- `insert`: three blocks and one supercell, the worst contention, with two tries of the
  allocation instead of thirteen.
- `heap`: two threads with four requests in all, two pages of five bytes, masks of two bits.
  Chunks of one byte need masks on the page (two segments, one of them full with two chunks),
  chunks of two bytes use the mask of the table; the same page is formatted for one size,
  emptied and formatted for the other while the second thread still holds what it has read.
- `fields`: two ranks, each the other's neighbour on both sides, and two steps: the first
  rank may be in the second step while messages of the first are under way.  Messages to the
  right are eager, those to the left rendezvous.
- `pic`: 3 by 4 by 3 supercells, the least the program accepts in two directions and one more
  in the third, of three cells; a particle in the corner or at an edge, two steps out of three
  moves that together go up and down in all directions, stay in a cell, leave it and leave the
  supercell.  The sums are linear in the particles, so one is enough.  `Pulse` is an initial
  field that keeps E and B from being zero.

**Deadlock** is checked in `events` and `insert`.  It is switched off where a system
that stops is excluded by a stronger property of the same run, that it gets to its end
(`GuardEmptied`, `EveryStepEnds`, `Completes`, `ShiftEnds`, `CallsEnd`, `StepsEnd`), and in
`pic`, which ends after `MaxSteps`.

## 5. Fairness

- `ExchangeStack`: every block of a launched kernel and the task's decision.  The device
  runs all blocks, and a block never waits for another.
- `ParticleExchange`: weak fairness of the whole next-state relation.  Device and MPI
  complete what they can, and a thread that waits polls all tasks.  A system in which
  something can happen forever without the step ending would need infinitely many steps;
  all of them are counted by rounds and steps, so nothing stronger is needed.
- `EventManager`: a thread inside the event system runs on, and every operation of the
  device ends.  Nothing is assumed of the main program.
- `Simulation`: the job as a whole goes on when it can, and is started again after it has
  died.  Crashes are not fair and are bounded by `MaxCrash`.
- `ShiftParticles`: kernels run on once started.
- `ScatterAlloc`: each thread goes on within a call.  Nothing is assumed of when threads call.
  `CallsEnd` needs the number of requests to be bounded: a thread could be overtaken forever.
- `FieldExchange`: the host thread of each rank, every task, copy and message by itself, as
  the thread polls all tasks in turn and device and MPI complete what they have begun.

## 6. Theorems

The proofs hold for every value of the constants that the `ASSUME`s of the modules admit.
Each proof module states an inductive invariant, has a lemma for each action, and ends with
the theorems.  The properties themselves are not inductive anywhere; what had to be added
is said below.

| Module | Theorems (property of a run) |
|---|---|
| `ExchangeStackProofs` | `Inductive`, `TypeCorrect` (`TypeOK`), `DisjointGrants` (`GrantsDisjoint`), `BoundedIndex` (`IndexInBounds`), `KernelResult` (`NoHoles`), `LastRound` (`RoundComplete`) |
| `InsertParticlesProofs` | `Inductive`, `TypeCorrect`, `ListsLinked` (`ListLinked`), `EntriesInsertedOnce` (`InsertedOnce`) |
| `ScatterAllocProofs` | `HeapInductive`, `CountsExact` (`CountExact`), `MasksAreExact` (`MasksExact`), `ScatterImplementsHeap` (`Implements`) |
| `EventManagerProofs` | `EventInductive`, `EventTypes`, `IteratorNeverDangles` (`IteratorValid`), `RunningTasksLive` (`RunningAlive`), `NotifiedAreAlive` (`ObserversAlive`), `EventsJoinExactly` (`JoinExact`) |
| `ParticleExchangeProofs` | `ExchangeInductive`, `ExchangeTypes`, `BuffersAreExclusive` (`BuffersExclusive`), `MessagesAreIntact` (`MessageIntact`), `RoundsAreAgreed` (`RoundsAgree`), `ExchangeDelivers` (`Delivers`) |
| `SimulationProofs` | `WindowInductive`, `SlidesOncePerStep` (`OneSlidePerStep`), `DataStaysInPlace` (`DataInPlace`), `FilesInductive`, `LinesAreUsable` (`CheckpointUsable`), `BackgroundInductive`, `BackgroundIsOnce` (`BackgroundOnce`), `SimulationTypes` |
| `FieldExchangeProofs` | `FieldInductive`, `GuardsAlwaysFresh` (`GuardsFresh`), `BordersAlwaysStable` (`BordersStable`), `CurrentAlwaysComplete` (`CurrentComplete`) |
| `ShiftParticlesProofs` | `InvariantHolds`, `ShiftTypes`, `HeapIsExact` (`HeapExact`), `ParticlesAreKept` (`ParticlesKept`), `ParticlesArrive` (`Arrived`), `ListsAreCompact` (`Compact`) |

The lemmas on natural numbers that a proof needs (a nonempty set has a least element, what
division and remainder are) are at the head of its module.

**ExchangeStack.**  That two grants are disjoint needs that every grant
lies below `size`, from where the next one starts; that an exchange by one block does not
hand out a place of another needs that `size` is at least `MaxSize` while any block is
between its add and its exchange, and is larger only then (`Sizes`).  `Grants` relates a
block's registers to the range it was granted and says that blocks hold different index
entries.  `LeftOver` says that a block stopped with a frame left only after the buffer was
full; `Covered` that each place below `size` is granted or recorded.  `IInv` is the
conjunction of these with `TypeOK`, `GrantsDisjoint` and `IndexInBounds`.
The lemma with a counting argument is `RoomForEntry`: each
entry of the index, recorded or reserved, and the block about to reserve one, own a
nonempty range of the buffer, and the ranges are disjoint, so mapping each to the start of
its range is an injection into the places of the buffer; hence there are fewer entries than
places.  This is the only reason why the index, which the code does not test, never
overflows.

**InsertParticles.**  The invariant says which entries have been popped by whom
(`EntriesTaken`), that a frame is free, held by one block or in one list (`FramesOwned`), that
a block that still has to set a pointer has its frame in the list at the place where its
exchange put it (`HungInPlace`), and, for each two neighbours of a list, that the pointer
between them is set or there is one block that will set it (`Links`).  With no such block left
the list is linked.

**ScatterAlloc.**  `BitsExact` is the heart: while a page has a format and is not locked, the
set bits of its masks are those of the chunks in use and of those that a thread is giving back
and has not yet cleared.  A thread that is counted in keeps the page from being unformatted
(`Threading`), as the lock is granted only when nobody else is inside (`CountExact`); hence what
a thread has read of a page it has entered is not outdated.  A page without format has clear
masks (`Formats`), `LiveOK` says that chunks in use have the format of their page, and
`ClearingOK` that no chunk is given back twice.  The number of threads is any finite one
(`ScatterAssumption`); for an infinite set the count would not be a number.  The refinement
maps `live` to the chunks of `Heap`: a chunk is handed out with a bit that was clear, and
chunks of one format with different bits do not overlap.

**EventManager.**  `IInv` says that calls are nested, which of them uses the iterator, and that
a task whose execution is on the stack is marked busy, so that no nested call erases it.
`GraphOK` is about observers: each operand of a logical and is older than it, and is registered
and will notify it or has its notification under way; an operation of a chain is the only one
the chain waits for; a notification is about a task that is gone and reaches one that is not.
`EventOK` ties an event to this graph: chains of observers lead from every unfinished task
that was joined to the task of the event, and what that task reaches over operands are tasks that
were joined, and ands.  `JoinExact` follows: if the event's task is registered, the oldest
registered task below it is no logical and (its operands would be older), so it is one that was
joined.  The least element of a set takes the place of an induction over the tree.

**ParticleExchange.**  A channel is a pipeline: sending task, device buffer, copy to the host,
MPI request, message, receive, copy to the device, receiving task.  For each place of it the
invariant says which step and round what lies there belongs to, counted from the sender's end
(`SenderAt`, `CopyAt`, `Chain`, `ReceiverAt`), that frames and index are at the same or at
neighbouring rounds (`PartsAgree`), that what is carried is what was bashed (`Carried`), and
that the particles of the guard, under way and inserted add up (`Ledger`).  As the size of a
message tells whether another round follows, each message determines step and round of the
next, so that both sides agree although neither is told.  The refinement of `GuardDelivery`
follows from the ledger, with the identity as the mapping.

**Simulation.**  The theorems hold for any devices, periods and offsets of slides and
checkpoints, with and without background fields and `--restart-step`; there is no hypothesis
but the assumptions on the constants.  What restarts disturb (section 7) is part of
the statements.  `WindowInv` says of every rank that its offset is that of the slides up to
its step and one more if it has restarted from a slide step (`Surplus`), that its counter is
that of its step, or one ahead directly after a restart from the step before a slide (`Early`),
and that its data belong to the slab that follows from these and from `again`.  Of every file
it says that the counter in it is the number of slides up to its step, never with the surplus
or the early count: at a checkpoint the step is past that of the restart (`PlaceAt`), so that
an early count has been overtaken.  This is why errors of restarts add up in the data alone,
one slab for each, and not in the window.
`FileInv` adds that no rank passes the barrier of a checkpoint another one has still before
it (`Together`), that all have restarted from the same step (`SameStart`), so that they are
in the same step there; that what the master file names lies behind all of them but for
`rewound` steps (`Unwritten`), so that no file it names is created again; and that its last
line is otherwise the latest.  All slabs are written since the positions of the ranks are a
permutation.  `BackgroundInv` follows the background field of every step: data have
that of the current step from the check to the push, and for each restart of their past
that of its step once too often and that of the step after it once too few (`Residue`).

**FieldExchange.**  A channel of a field is a queue whose ends do not talk to each other.  The
invariant `Inv` counts: how many copies of the border a rank has begun to send (`Sent`) and how
many receives it has posted (`Posted`) are functions of its step, its place in it and the part
of the exchange it is at.  `Pipe` says that the difference of the two lies in the channel, as a
copy under way, messages and a posted receive, and that the k-th message carries
`Version(f, k)`, whoever is ahead; a rendezvous message is the last of its channel and still
equals the host buffer it will be read from.  `CopiesOK` says that copies are under way only
between the start of an exchange and the wait for it (`Open`), which is why no kernel that
writes the border meets one; `SendTaskOK` and `InsertTaskOK` follow the two tasks of the
current, which outlive the call that started them.  `RankOK` gives the versions of a rank's own
borders by its place.  The freshness of guards alone is not inductive, as it says nothing of
messages on their way: a guard is fresh since the number of receives completed at this place
of the program is the number of the version that the neighbour had at the same place.  A
step runs other operations with the filter of the current than without; all is stated with the
place of the kernel that adds the current (`Adds`) as a parameter and holds for both.

**ShiftParticles.**  The theorems hold for every number of particles in every supercell, none
included, any number of allocations per call, and a stride of at least three, which is an
assumption on the constant: shifts run with `StrideMapping<..., 3, ...>`, and with a stride of
two, two blocks would share the supercell between them.  `HeapOK` says that a frame is free, in
one place of one list, lost, or a destination that one block has taken and not hung in yet
(`Private`).  `DestinationOK` is the heart: what
the list of a neighbour looks like while a block shifts into it follows from that block's
shared memory alone.  If its destination is the neighbour's last frame, that frame is filled
up to the counter and all before it are full; if not, all frames of the neighbour are full,
which is why hanging a frame in at the front is harmless and one at the end becomes the
last.  This holds since no other block of the launch is at that neighbour (`BlocksApart`) and the
list was compact before (`CellOK`, `CompactDue`), because `KernelFillGaps` and
`KernelFillGapsLastFrame` run for an offset before the shift of the next one.  A supercell that
was empty is the exception (`WrongSize`): full frames may be hung in while its size
stays 0, and then a block that takes the last one as destination overwrites it while it
remains full (`spoiled`).  That such a supercell never has a frame with a gap and a wrong size
at once is what keeps the exception from spreading: `Compact` holds for all others, and
particles are lost only on their way to a spoiled one.  `ParticlesOK` and
`GoalsOK` say that each particle is in one slot, or lost in this way, and that its mask, in the
list or private frame it is in, names the supercell it is meant for; `LeaversOK` where masks of
particles that leave may still be; `GuardsOK` that guards start empty.  For one pass, `Flushed`
is shown to be a bijection unless it goes to a spoiled supercell: the places that the particles
of one direction get are those from the counter on, and where the frame overflows the rest
begins the new one.  For the filling of
gaps, the k-th gap of the first frame and the k-th particle of the last one are matched, in
whatever order the threads found them, and as many as there are of the rarer kind (`Moved`).  A pass
waits for enough free frames, so that nothing is claimed for an exhausted heap.

**Only model-checked.**  All liveness properties: the prover has no rules for fairness
and `ENABLED`.  The safety properties of `PicCycle`: `TotalCurrent` and `GaussLaw` are about sums
over grid points, `DivBZero` needs how often the kernels of several areas visit a cell
(`Times`), and `WithinMargins` the partial sums of `Esirkepov`.  All of these are folds over
sets, and what a fold yields for every set takes an induction over data.  The refutations of
section 7 are TLC's.

## 7. Disagreements between code and its documentation

`PROJECT.json` (`findings`) quotes the lines.

- `exchange_rounds`: a send task waits in `GridBuffer::asyncSend` for its previous MPI send
  while a receive task below it on the stack cannot go on.  With three rounds in both
  directions and unbuffered sends both ranks wait forever.
- `shift_empty`: a full frame that is hung into an empty supercell leaves its size at 0, and
  a block of a later offset writes over the particles in it (`NoneOverwritten`).  The properties
  of `shift` say how far this goes.
- `villabune`: the solver by Villasenor and Buneman never splits a trajectory, since `newX` is
  computed from the old position (`CurrentVillaBune.hpp:89`), so a particle that changes its
  cell breaks Gauss's law, which the README calls rigorously conserved.

Stated exactly by properties that hold, so that each says what the code does where it does
not do what is meant:

- `OneSlidePerStep`, `DataInPlace`: a restart from the checkpoint of a slide step slides again:
  `getCurrentSlideInfo` sets `doSlide` for that step although `incrementSlideCounter` refuses to
  count (`MovingWindow.hpp:119` says "used to prevent multiple slides per simulation step").
  The job is one slide ahead until it ends, and its data, which go into its checkpoints, are
  one slab off the one they are written for.
- The same properties: with a background field the restart asks for the slide counter of the
  step after the checkpoint and, if that is a slide step, counts its slide one step too early.
- `BackgroundOnce`: a restart subtracts the background field of the step after the checkpoint's
  (`MySimulation.hpp:361`) and adds that of the checkpoint's step a second time, where the
  comment above says "will be double-counted, so we remove it in advance".  The difference of
  the two stays in the fields for good; it is zero only for a background that is constant in
  time.
- `CheckpointUsable`, `Completes`: after `--restart-step` later checkpoints are overwritten
  while the master file names them; if the job dies meanwhile, the next restart may find an
  unusable one.
- `HeapExact`: `getEmptyFrame` allocates thirteen frames and returns the last, since the
  `break` in `ParticlesBox.hpp:101` is commented out; the other twelve are never freed.

Met while modelling, without a run of their own:

- "that should be impossible :)" (`Scatter_impl.hpp:338`) is possible: `PAGE::init` does not
  clear the mask of the table, so the bit of a full segment, set late, may outlive the page's
  format; a page formatted for larger chunks then has a chunk it never hands out until the bit
  is cleared.  The caller handles the result, and no property fails.
- `ZigZag` is called a "charge conservation method" (`ZigZag.hpp:137`).  In the instance of `pic`
  it does not keep Gauss's law exactly for the charge density that is assigned with the same
  shape; whether its documentation means that is open, so `pic` claims of it only that the
  whole current is deposited, within the margins.
- `MappingDescription`'s own tests (lines 61-69) allow an interior of one supercell, for which
  BORDER visits it twice; `MySimulation.hpp:529-532` excludes that.

## 8. Not modelled

Streams and device events are thin wrappers of the device runtime; the connectors are
sequential registries; output plugins do not influence the simulation, and the reductions
serve them only; cuSTL, the lambda and math libraries are templates; tools and the build
system are not part of a running simulation.  These are by far the most lines of the
repository, which is why the map covers a small part of it.

Of the numerics: what a pusher computes from the fields (the position after a push is any of
`Moves`), the solvers Lehe and DirSplitting, the two-dimensional variants, the shape P4S, the
binomial interpolation of the current, absorber, laser and ionization are left out, and all
arithmetic is exact.  The one rounding that is modelled is that of a position just below zero,
which becomes one when the cell is added (`Particles.kernel:346-376`, `Moved` of `PicCycle`).

Left out of what is modelled: device double buffers (`ParticleExchange`), transactions below
the top-most and task labels (`EventManager`), window queries for output and the wrap-around of `firstMoveStep` for
parameters that make it negative (`MovingWindow`, excluded by `WindowAssumption`), the two
directions of the domain the window does not move in, the ADIOS writer (which restores the
window as the HDF5 writer does), requests of a page or more, the count of free slots and the
combination of a warp's requests (`ScatterAlloc`), the area GUARD (`Mappings`), what the
kernels of `ShiftParticles` do when the heap is exhausted, rows of supercells side by side
(there a guard, and an empty supercell, takes particles of more than two blocks), and
attributes of particles.
