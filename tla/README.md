# Verification of the DEF CON CTF 2022 final services

`src/` holds the services of the finals: programs of some thousand lines each, written
in C, C++ and Java, that know nothing of one another. This directory holds TLA+ models
of their core logic, TLC configurations that check the models on small instances, and
TLAPS proofs for every instance. `PROJECT.json` lists the components, the runs, the
slips that each property must catch, the source lines of every definition, the hazards,
the findings and the main theorems.

Contents: [the system](#the-system), [modules](#modules-and-the-code), [runs](#runs),
[what the runs and the models found](#what-the-runs-and-the-models-found),
[proofs](#proofs), [limits](#what-is-abstracted), [not modelled](#not-modelled),
[plan](#plan).

## The system

### nivisor (`src/nivisor`)

A hypervisor in a process: it launches a program under ptrace, stops it at every system
call and page fault, and serves those from its own tables. It is sequential: `Run`
enters one guest, waits until that guest stops, handles the stop, and goes on. The order
of events is the guests' choice. What is hard is not parallelism within nivisor but the
state that survives from one stop to the next while other guests run.

| Component | State | Operations | What makes it correct |
|---|---|---|---|
| memory pool (`pool.cpp`) | free list in the first word of free blocks, three counters, blocks initialised step by step | `AllocBlock`, `FreeBlock` | no block granted twice or lost; NULL only when all are held |
| red-black tree (`myrb.cpp`) | nodes with child and parent pointers, `m_pos`, color; `m_size` | `add`, `removeLeftmostNode`, `deleteNode` | rules of the tree, consistent links, order among equal keys, nodes that are held blocks |
| fair scheduler (`scheduler.cpp`, CFS build) | the tree of entities by `vruntime`, a run queue per entity, the tasks, the locals of `Run` | `ScheduleThread`, `Run`, `KillTasks`, the system calls split, setsid, exit | no task or entity lost or doubled, limits kept, least used first, nobody starves |
| round-robin scheduler (`scheduler.cpp`, other build) | a vector of tasks, `cycle` | `ScheduleThread`, `DescheduleThread`, `Run` | every task that stays is entered |
| memory manager (`mm.cpp`, `ctx.cpp`, `syscall.cpp`) | regions (`Vma`), their areas (`Pma`) in one memfd, the guest's page mappings, the last faulting address | faults, copies to and from the guest, clones, exec, new regions, protections | isolation of processes although areas are shared until a write |
| file manager, BundleFs (`fm.cpp`, `bundlefs.cpp`, `syscall.cpp`) | per table a map from numbers to host descriptors; clones share or replace it | open, read, write, close | a number never names two files; reports say what was moved |
| system call injection (`ctx.cpp`, `stub.S`) | registers of the stopped guest | `DoSyscall`, `LaunchAndAttach` | registers restored |
| loaders, arguments, flag hash | none between calls | parsing | straight-line code |

They interact by calls: `SwitchAndExec` calls the memory manager and the system calls;
those call the scheduler (`split`, `setsid`, `exit`) and change what `Run` will find in
its tree when the slice ends; the tree takes its nodes from the pool; a split decides
whether the child shares its parent's table of files.

### corewar-ni (`src/corewar-ni`)

A Core War machine. `run_game` of `vm.c` lets the players take turns; a turn executes
one instruction of one process of the player (`execute_instruction`, `cpu.c`), which may
write to the core, kill the process or fork another. State: the core, the table of
processes, per player the list `proc_ids` with `current_procs` (an `int8_t`) and
`next_proc_offset`. Correct means: the list is the player's living processes, each has
its turn, the result follows from who lives, a program stays in its area of the core.

### corewar-nii (`src/corewar-nii`)

The same game on an emulated x86: one process per player, each with registers, flags and
a stack of its own, all in one arena. A turn parses one instruction (`parser.cpp`) into
an `InstrData` that nothing initialises, and executes it (`cpu.cpp`, a class per
instruction). Correct means: the result follows from who lives; flags answer the
conditional jumps that follow; what is left in an `InstrData` by earlier turns decides
nothing.

### mambo (`src/mambo`)

A service and the poller that checks it. The service derives a key from the flag and a
counter, accepts, forks a child for each connection, and derives a new key when an alarm
went off. Child and poller share a key stream in each direction; the poller sends
batches of instructions, executes them itself, and compares what the service reports
with what it has. Correct means: both ends are at the same place of both key streams,
execute the same, and the poller's verdict is right; keys of different periods differ;
nobody waits for ever.

### Perplexity (`src/Perplexity`)

An adventure game for one player, which generates its world: loops of rooms joined by
locked doors, with what opens the doors scattered over the rooms made before. The player
carries, stores, burns and copies items, sets wheels into doors, and finds codes for a
teleporter. Correct means: no way is lost, no door comes before what opens it, an item is
in one place, hints and codes are right.

### Web4Factory, router-pi, NautilusRand

A Java service whose connections each belong to one Spring Integration object; a web
interface that handles one request per process; a random generator. They are not
modelled, see [below](#not-modelled).

## Modules and the code

| Module | Models | State and actions |
|---|---|---|
| `BlockAllocator` | what a pool promises | the set of blocks held; `Grant`, `Refuse`, `Release` |
| `MemPool` | `pool.cpp` | the header's fields and the first word of every block. `AllocInitialized`, `AllocAfterInit`, `AllocOutOfMemory` are the three ways through `AllocBlock`; `FreeBlock` |
| `KeyedSequence` | the order of `RBTree::add` | `InsertByKey`: before equal keys |
| `RunQueue` | what the tree promises the scheduler | a sequence; `Add`, `RemoveLeftmost` |
| `RBTree` | `myrb.cpp` | the tree as one record of fields; `add`, `removeLeftmostNode`, `deleteNode`, each a whole call with all its rotations. Mirrored halves of the code are one operator with the side as a parameter |
| `PooledTree` | the scheduler's tree on its pool | composes `MemPool` and `RBTree`: nodes are blocks, the key of a node lies in the word that links the block while it is free; the add that finds no block |
| `CFSScheduler` | `scheduler.cpp` (CFS, POOL, FART), `syscall.cpp` 24-105 | members of the scheduler and locals of `Run`, with a `pc` over the stretches of `Run`. One action per stretch and one per outcome of `SwitchAndExec` |
| `AddressSpaces` | memory of separate processes | contents of every region; `Store`, `NewRegion`, `Clone`, `Reset` |
| `GuestMemory` | `mm.cpp`, the faults, copies and clones of `ctx.cpp`, exec and the memory calls of `syscall.cpp` | regions, areas, page mappings, `m_last_fault_addr` and the access that is being retried. An action is one access with its fault, or one system call |
| `RoundRobin` | `scheduler.cpp` without CFS | vector of spids, `cycle`; what an iteration of `Run` does after each outcome of `SwitchAndExec` |
| `FileTables` | `fm.cpp`, `bundlefs.cpp`, the file calls of `syscall.cpp` | the tables, what the host has open, the size of the file, the report of the last call. One action per call, with the loop over the chunks of a read or write inside |
| `Kernel` | `Run` with those calls | composes `RoundRobin` and `FileTables`: a turn is one call or fault of the task whose turn it is |
| `CoreWarTurns` | `run_game`, `create_process` of `vm.c` | lists, counts, offsets, states of processes; what an instruction does to its process: `GoesOn`, `Dies`, `Forks`; `Passes`, `EndCycle` |
| `Redcode` | `cpu.c`, `execute_instruction` | no state: `Execute` is a function of core, area and program counter |
| `CoreWar` | `main`, `load_program` | composes the two: each of its actions is one of `CoreWarTurns` with the instruction that `Redcode` computes |
| `X86Alu` | the flags of `cpu.cpp` | no state: what each kind of arithmetic does to carry, zero, sign and overflow, for any width |
| `X86Decode` | `parser.cpp` | no state: `InstrData` after a parse, from the bytes and what was in it |
| `X86Cpu`, `X86Exec` | `cpu.cpp` | no state: operands, memory and stack; a function of the machine per instruction |
| `CoreWarNii` | `vm.cpp` | the arena, the players' CPUs, counters and result; a turn is one instruction |
| `MamboMain` | `main` of `mambo.c` | `shouldRekey`, the alarm, the flag file, key and connection counter; every accepted connection |
| `MamboCpu` | `parseInstruction` and its copy in the poller | no state: registers, heap and stack pointer after an instruction |
| `Mambo` | `doChallenge`, `fillBuffer` and `doPoll` | composes the two with a child, a poller and the bytes on their way, each with its place in a key stream |
| `PerplexityMap` | `generategame.cc` | the exits of all rooms, what is scattered where, and where the generation stands. One action per random choice that matters |
| `Perplexity` | the `item.*`, `direction.*`, `person.cc`, `list.cc` | the world, where every item is, doors and wheels; one action per command |
| `MC...` | instances | symmetry sets, programs, worlds; `MCCFSLive` has a step of its own that makes the scheduler's states finitely many |
| `..._proofs` | theorems about the module of that name; `PooledTree_proofs` is about `MemPool`, `RBTree` and `PooledTree` | |

How they compose: `RBTree` and `CFSScheduler` share `InsertByKey`. `MemPool` implements
`BlockAllocator` and `RBTree` implements `RunQueue`; in `PooledTree` both hold at once
of one memory. `CFSScheduler` uses the operations of `RunQueue` for its `tree` and the
number of blocks. `GuestMemory` implements `AddressSpaces`. `Kernel`, `CoreWar` and
`Mambo` join a module about turns or connections with one about what is done in them.

In every module an operator under a comment that begins with "Slip" is a plausible bug:
the operator that follows it, changed. None is part of a specification. `PROJECT.json`
pairs each with the property that it breaks.

## Runs

Every property below is stated in its module, under a comment that says which code it is
about. "States" are distinct states.

| Run | Question | Bounds | States |
|---|---|---|---|
| `nodes` | do pool and tree keep their promises together, and does the tree keep its rules in any order of insertions and removals? (`FreeListSound`, `RedBlackRules`, `LinksConsistent`, `PooledNodesAreHeld`, `ImplementsAllocator`, `ImplementsRunQueue`) | a pool of 5 blocks initialised 3 at a time, so that the last step is short; or 7 nodes without a pool; 2 keys, so that equal keys occur | 550 thousand |
| `cfs` | is every task and entity in one place, do the limits hold, is the least used first? (`TaskInOnePlace`, `EntityInOnePlace`, `NodesBounded`, `LeastVruntimeFirst`) | up to 4 tasks and 4 entities, a fifth of each to show what a missing limit would admit; pool larger than the limit; every kind of call | 119 thousand, up to symmetry |
| `cfs_live` | is every queued task entered again? what does the SIGSEGV handler leave behind? (`QueuedTaskRuns`, `SurvivorsAreRunning`) | 4 tasks and 4 entities at a time, 3 blocks: the pool is smaller than the limit, as in `pool.h`; behaviours without end; no symmetry | 1.07 million |
| `cfs_starve` | "period during which all tasks should run at least once" (violation of `EveryTaskRuns`) | 3 tasks | |
| `memory` | is what a guest can write private, does a write ever reach another process, what makes a page differ from its region, do regions behave as memory of their own? (`WritableIsPrivate`, `NoForeignWrites`, `OnlyCopiesDiverge`, `ImplementsAddressSpaces`) | 2 threads in 1 or 2 address spaces, a region of 2 pages; room for 2 areas, with failing calls and copies by system calls, or for 3, with failing calls and page faults only; or 1 address space, which changes protections and execs | 850 thousand, up to symmetry |
| `memory_stale` | "an address in the host which represents the underlying page" (violation of `GuestSeesRegion`) | as `memory` | |
| `memory_uninit` | "we assume the VMA is now COW" (violation of `SecondFaultIsCow`) | as `memory` | |
| `war` | are the lists right, does every process have its turn, is the result right, do programs stay in their area? (`ProcIdsSound`, `ResultRight`, `EveryProcessRuns`, `StaysInArea`, `WritesNearArea`) | turns alone with 6 slots and counts up to 3, so that they wrap; and 2 areas of 4 cells, margin 2, 2 positions of memory behind the array, 6 cycles: any instruction over 20 opcodes, 4 by 4 modes and some operands, against three programs; integer widths scaled so that every conversion of the code is a proper one | 445 thousand |
| `nii` | is the result right, do flags answer the jumps, do leftovers decide nothing? (`ResultSound`, `ComparesRight`, `SumsRight`, `LeftoversUnused`) | an arena of 48 cells, words of 3 bytes, 5 cycles, some 1700 programs: every opcode with a register, an address and an index, and operands at the edges of every width | 113 thousand |
| `mambo` | are both ends in step, is the verdict right, are keys fresh, does a poll end? (`KeysInStep`, `MirrorsAgree`, `VerdictTrue`, `FreshKeys`, `OneLate`, `PollEnds`) | 3 registers of 2 bytes, a heap of 16; one connection with every kind of instruction, answers in pieces; or 3 connections while the flag changes and the alarm goes off | 48 thousand |
| `kernel` | are descriptors never mixed up, are reports true, is every task entered? (`FdsAccounted`, `DescriptorsFixed`, `BytesReported`, `TasksAreEntered`) | up to 4 tasks at a time and any number one after another, a `cycle` of 4 bits, 2 host descriptors, a cache of 2 characters, files of up to 4, 2 opens per table; one of three emphases: scheduling, tables, bytes | 253 thousand |
| `perplexity` | is no way lost, does no door come before what opens it, are items in one place, are hints and codes right? (`ExitsDistinct`, `ReachedUpToKeys`, `InOnePlace`, `HintsRight`, `CodesLeadBack`) | every world of one loop of 3 rooms or two loops of 2, and three loops of 2 of which only the links between them vary; every order of commands in four given worlds: wheels, copies, a hearth, codes | 7.3 million |

Why the bounds are enough.

- *Pool and tree.* The pool's interesting points are the empty list, the first and the
  last initialisation step: 5 and 3 give all. A tree of 7 nodes has three levels of
  black nodes, which every case of `fixDB` that removal of the leftmost node can reach
  needs at most; a run with eleven equal keys was made while the model was built and
  found no more.
- *Schedulers.* Every branch depends on whether a queue is empty, whether it has one
  task or more, and on the order of two to four entities. `cfs_live` is not cut
  short: `Run` only compares the `vruntime` of entities, and the one that used least
  runs next, so they stay within a period of each other. `Rebase` of `MCCFSLive` takes
  the least off all of them before each pick, and `MaxVruntime` is never reached. The
  action constraint `Canonical` cuts no behaviour short either: it makes `Rebase` come
  before the pick, and the first of the objects that do not exist the new one. For the
  round-robin, four tasks give a first, two middle and a last place in the vector, and a
  `cycle` of 4 bits wraps every few rounds. Names of tasks are given again, so that nothing
  bounds how often tasks split and end.
- *Memory.* A page fault and a copy concern one region and two address spaces; two pages
  show what a call does to the neighbour of the page that faulted.
- *Files.* Two tables and two descriptors suffice for a number that is given again to
  another table; a file of two caches has a chunk that is full and one that is not.
- *Core wars.* The two positions behind the array are the one that a MOV can reach there
  through the margin, and one more. Two players suffice for every outcome, three
  processes for every place in
  a list. Three-byte words keep bytes, half words and words apart.
- *mambo.* Three connections give an alarm before, during and after an accept. A
  session's batches contain each instruction in each of its forms at least once.
- *Perplexity.* One loop goes through all of the generation including the exit. The
  two-loop sizes add what needs an earlier loop (locks and what opens them, doors that
  do not lead back), and stop before the exit is added. With three loops, the way to the
  third may be open, or behind a loop that only keys lead into.

### Fairness

- `FairSpec` (fair scheduler), `SpecTurns` (corewar-ni) and `SpecKernel` assume weak
  fairness of the whole next-state relation: `Run` and `run_game` are single loops that
  never wait, except for the guest that was entered, which is assumed to reach its next
  call, fault or exit. No action is assumed to be chosen over another, so what a guest
  does stays its own choice.
- In `cfs_live`, `QueuedTaskRuns` assumes that guests do not call setsid for ever;
  `cfs_starve` shows that this is needed. It also assumes that from some point on no
  slice comes out empty while there are other entities, which cannot happen if `m_size`
  started at 0, and starves tasks if it did not (below). A task counts as running only
  when it is entered.
- `EveryProcessRuns` needs no assumption on the programs, and `TasksAreEntered` none on
  the tasks, although they may split off others and end for ever. The vector's size can
  then be changed so that `cycle % size` keeps off one place for as long as `cycle` does
  not wrap. But when `cycle` has wrapped it is 0, 1, 2 and so on, and as long as it is
  smaller than the size it is its own remainder, whatever the size is: the place *i* is
  entered at the latest when `cycle` is *i*. Places only move down, towards the first. So
  the wait may be 2^32 turns, and is not without end.
- `Fairness` of `Mambo` says that each end goes on when it is not waiting for bytes that
  are not there; what enables each end is written out as `ServiceReady` and
  `PollerReady`. Nothing is assumed of alarms, timeouts, answers in pieces or new
  connections.
- `CoreWarNii` and the Perplexity modules have no liveness property: a game of
  corewar-nii ends by its counter, and Perplexity waits for its player.

### Deadlock

It is checked except where the program may stop for good: in `nodes` after an add that
found no block (nivisor has faulted), in the memory runs when all threads have exited or
`MaxPma` ends a behaviour, in `nii` when the game is over, in `mambo` when the
connections of the instance are used up, in `kernel` when `Run` returned.

## What the runs and the models found

Three runs have a property that states what the source says of itself, and which the code
does not do:

- `cfs_starve`: a session made by setsid starts at its creator's `vruntime` before the
  slice is charged, and is put before equal keys. A guest that calls setsid again and
  again always runs; the others never do.
- `memory_uninit`: a second fault at one address is taken for a write to a shared
  region. When a system call has copied the region in between, `CopyPmaForWrite` returns
  before it sets its result, and an uninitialised pointer is used (in the build without
  `COWUNINIT_BUG_PATCHED`, `ctx.cpp:228`).
- `memory_stale`: `TranslateAddr` copies a shared region for a write by a system call,
  but leaves the guest's pages mapped to the old area (`mm.cpp:251`), so that the guest
  reads there what it had before the call wrote. `OnlyCopiesDiverge`, which `memory`
  checks, says that this is the only way in which a page comes to differ from its
  region, but for a copy that finds no room, and only at the address that is written;
  `NoForeignWrites` that no write of another process reaches those old pages.

Other peculiarities were met while modelling. They are in the models as the code has
them, or are named here because they bound what is modelled; none has a run of its own.

nivisor:

- `ScheduleThread` gives the task that calls setsid a new id, `m_num_tasks + 1`: the
  first task stops being pid 1 (`main.cpp:207`), and two living tasks may have one id
  (`scheduler.cpp:100`).
- The sections of the launched program are mapped writable by the launch and not by a
  fault, so `COWifyVma` does not make them read-only (`mm.cpp:489`): after a clone
  parent and child go on writing one memory. The runs about isolation therefore start
  with a program that was started by `sys_exec_proc`, whose sections are paged in
  (`Launched`).
- No constructor sets `m_size` of the tree. If it does not start at 0, `Run` makes its
  slices too small (`scheduler.cpp:154`), and that of an entity with many tasks may be 0
  (`:167`): its tasks are popped and pushed back without being entered (`:173`), it is
  charged nothing (`:215`), and since it is put before equal keys it stays leftmost for
  ever once the others have used more. `QueuedTaskRuns` excepts this, as it does
  setsid for ever and the fault in `add`.
- In the round-robin build a task may have to wait for very long while others split and
  end, see [fairness](#fairness).
- `CopyPmaForWrite` sets `*pma` before it finds room; without room the region loses its
  contents. `ImplementsAddressSpaces` says that this is all that is lost, and only in
  the process that writes.
- `sys_change_region_prot` on a shared region makes shared pages writable in the build
  without `MPROTECT_BUG_PATCHED` (`syscall.cpp:536`, `558`). It is left out of the runs
  about isolation.
- A task that ends keeps its files: the scheduler forgets the `ThreadContext` without
  deleting it, so that host descriptors are never given back (`fm.hpp:13`).
  `FdsAccounted` is stated with this. A child whose registers cannot be set is left
  behind (`syscall.cpp:91`).

corewar-ni:

- A player whose count wraps to -128 in a cycle in which it was the only one alive is
  announced as "Player -1".
- The margin of MOV has eleven positions where `cpu.c:121` says ten (`cpu.c:126`), and
  `vm.h:38` has room for ten behind the core. For the last area the eleventh lies behind
  the array: the write goes to the memory that follows it. `WritesNearArea` grants ten
  positions, and the eleventh as an exception of its own.
- Negative operands become 64-bit differences before `% arena_size` (`cpu.c:19`); cells
  after the last area stay when the number of players does not divide the core
  (`cpu.c:18`); a program placed near the end of its area runs over it, as some do in
  the run (`vm.c:39`). In the instance the area size is a power of two and divides the
  core.

corewar-nii:

- `int_imm8` compares a signed byte with 0x80 (`cpu.cpp:727`), so that an interrupt never
  makes a system call.
- The zero flag is told from a value that is not cut to the operand's width
  (`cpu.cpp:2274`): a sum that wraps to 0 is "not zero". `SumsRight` says when it is
  right. `adc` and `sbb` add the carry to the immediate before the flags are told, and
  lose what wraps there (`cpu.cpp:1774`); `imul` sets carry and overflow for every
  product that is not negative (`cpu.cpp:2381`); `xchg` computes its address again after
  a register has changed (`cpu.cpp:1390`).
- `parse` reads fields of `InstrData` that the instruction did not set; `ReadsLeftovers`
  names the encodings for which this matters, and `LeftoversUnused` says that it matters
  for no other.

mambo:

- `getData` of the poller puts every read at the start of its buffer: an answer in two
  pieces is torn, and an honest service fails. `VerdictTrue` says that this is the only
  way to a wrong verdict.
- The length byte of `RD_BUF` wraps; `LD4`, `ST4` and `PUSH` do nothing because of
  `INSTR_MASK`; `ROL` and `ROR` are the same and shift by the number of a register; an
  empty memory batch aborts the poller; one branch on `numIOCommands & 2` is never
  taken.

Perplexity:

- "use key *n* on *d* door" never opens one: `item.cc:248` compares a word of the
  command at the wrong place, as do lines 312 and 331, although line 311 has the comment
  "use key on door". Doors with a key therefore stay shut, that of the exit among them:
  no game can be won. About a third of the doors between loops are key doors, and a loop
  that only they lead into is out of reach with all that was made after it.
  `ReachedUpToKeys` says what remains: every room before the first such loop can be
  reached.
- `AddExitRoom` makes two exit rooms: one behind the door, which is not in the list of
  rooms, and one in the list, to which nothing leads. The key of the exit may land in
  the second.
- The reverse of a direction is its number with the lowest bit flipped, which pairs
  north with northeast in worlds of all directions.
- The teleporter stays on although its comment says that it is turned off after a use;
  the fireplace's own `HandleAction` never reaches `RemoveItem`; wood put on wood
  replaces it; a desk can be put into itself and is then nowhere; the state of a power
  switch and a wheel's pointer to its door are not initialised.
- For every 17th room the rotation is 0 and `rotl` shifts by 64 (`perplexity.h:56`).

## Proofs

The theorems hold for all values of the constants that satisfy the named assumptions of
their module, which state no more than the code's build does: counts are natural
numbers, `INIT_STEP` is not larger than the pool, markers such as NULL are none of the
things they mark, there are at least two players and a slot for each, a world has an
even number of directions, loops of more than one room and at least one link between
loops (`MIN_LOOP_LINKS` is 1), and NULL is no region, mapping or contents.
Every player of corewar-ni has at least two cells: `main` takes up to 256 players and
`CORE_SIZE` is 16384. With areas of one cell a skip would leave the area.
`PowersAssumption` names facts about powers of two that the provers do not know; TLC
evaluates it.
The theorems about memory need more than the code grants, and name it: `Isolating`,
below.

- **`PooledTree_proofs`**, the pool. `TypeCorrect`, `FreeListCorrect`,
  `AccountingCorrect`, `PoolImplementsAllocator`. `IInv` joins `TypeOK`, `FreeListSound`
  and `Accounting` with `in_use` being among the initialised blocks. `FreeListSound` says
  that the links from `m_head` thread the free initialised blocks in some order and end
  at the first block not initialised. The lemmas `TakeThreaded`, `InitThreaded` and
  `FreeThreaded` give the new order after the head was taken, blocks were added and a
  block was freed. Then each step of the pool is a step of `BlockAllocator`.
- **`PooledTree_proofs`**, the tree. `TreeInvariant`, `TreeKeepsRules`,
  `TreeKeepsLinks`, `TreeImplementsRunQueue`. `RedBlackRules` and `LinksConsistent` are
  not inductive: neither says that what the child pointers reach from the root is a
  tree, in which no node occurs twice, and neither says anything while a call
  rebalances. The invariant `TreeInv` says that there are a set `T` of `n` nodes and a
  place `at` for each, such that `T` is in order (`Ordered`). `Shaped`, its main part,
  has for every node `y` the interval `lo[y] .. hi[y]` of the places of what is below
  it: the root has `1 .. n`, the left child of `y` what comes before `at[y]`, the right
  child what comes after. That excludes cycles and shared subtrees without a word about
  paths, and a rotation changes it at two nodes only (`TurnedShaped`), which is why no
  rotation changes the walk. `Balanced` gives each node its number of black nodes below,
  and `RedsApart` keeps red nodes from red children. During a call the rules hold but
  for one place. In `checkColor` one node may be red under a red parent (`Suspect`, the
  last argument of `Ruled`); `CorrectTreeFixes` shows that a turn repairs this by a
  single or a double rotation, or moves it two levels up. In `fixDB` what is below one
  node is one black node short, and the leaf that leaves no longer counts (`Short`);
  there is a lemma for each of the five cases, and `FixLevel` says how far each is from
  the end: two calls at a red sibling, one more for each level up. Both loops, the way
  down of `add` and the walk itself are recursive functions over the number of rounds in
  `RBTree`, and `UpTo`, `Iterates` and the levels (`ColorLevel`, `FixLevel`, `OnTheWay`)
  show that `Height` rounds, or two more for `fixDB`, reach the end: the bound in the
  model cuts nothing off. `HungShaped` puts a node at the end of the way down where the
  order of the keys wants it (`Sorted`), before equal keys as `SideOf` says; `AddKeeps`
  and `RemoveKeeps` collect what the two calls do. Every subtree's walk is a slice of
  the one walk, so that `WalkGrown` and `WalkShrunk` make of them the `InsertByKey` and
  `Tail` of `RunQueue`. `TreeAssumption` says that keys are natural numbers, that `NIL`
  is no node, and that nodes are finitely many: `Height` is their number.
- **`PooledTree_proofs`**, the tree on its pool. `PooledInvariant`, `NodesHeld`,
  `PooledImplementsPool`, `PooledImplementsTree`, and `PooledNodesHeld` for the instance
  that is run. `PooledInv` is the two invariants and `NodesAreHeld`. Each step of the
  composition is a step, or none, of the pool and of the tree: the block at the head of
  the free list is never a node, so that all of the above holds of both in one memory
  (`PooledKeepsPromises`). `PooledAssumption`, every block is a node, is what naming nodes
  by their blocks means.
- **`CFSScheduler_proofs`**. `TypeCorrect`, `TaskInOnePlaceCorrect`, `TaskCountCorrect`,
  `NodesBoundedCorrect`, `EntityInOnePlaceCorrect`, `SurvivorsCorrect`,
  `LeastVruntimeCorrect`. `IInv` is `TypeOK`, `TaskInOnePlace` and three strengthenings:
  `Control` (what each value of `pc` says of `node`, `to_run`, `y`, `m_next_se`, `rc`
  and the length of the queue, without which a step could pop a task that is not there;
  and that `m_size` is at least the length of the tree, which is why the test of setsid
  bounds the nodes), `Membership` (a queued or running task belongs to the entity that
  queues or runs it) and `Counted` (`m_num_tasks` is the number of tasks and at most
  `MaxTasks`). `OnePlace` generalises `TaskInOnePlace` to queues that have just been
  changed; its lemmas are about appending, popping and dropping. The last three theorems
  need `Placed`: an entity with queued tasks is in the tree or running, also after a crash
  (`QueuesHeld`); and until a crash the tree has each entity
  that waits exactly once, in the order of the keys, with its key equal to its
  `vruntime` and a queue that is not empty (`TreeRight`). Keys are put in order only by
  the one insertion, and an entity is charged only while it is out of the tree: that is
  why the leftmost node has the least `vruntime` of all and not merely the least key.
- **`CoreWar_proofs`**, the turns. `TurnsTypeCorrect`, `ProcIdsCorrect`,
  `ResultCorrect`. `IInv` is `TurnsTypeOK`, `ProcIdsSound` and `Bounded`: a list has at
  most `ProcMax + 1` entries, since a player whose count wrapped never plays again, and
  `alive_players` is at most `turn`. Without the first `Signed` would not say what is in
  the count after a second wrap. `RemovedProperties` and `RemovedEntries` say what is
  left of a list. For `ResultCorrect`, `Counted` says that while no count has wrapped
  `alive_players` is the number of the living among the players that had their turn. A
  turn kills only its own player's processes, which is why that count is still right
  when the cycle ends.
- **`CoreWar_proofs`**, the game. `GameCorrect`, `WarTypeCorrect`, `StaysInAreaCorrect`,
  `WritesNearAreaCorrect`. `Keeps` says of what an instruction yields: the core holds
  instructions, the counters of the process and of its fork are addresses, and from
  inside the area of its player the process neither leaves it (but by `JMZ` and `SEQ`)
  nor writes outside of it (but by `MOV`, at the first `Margin` positions past its end,
  or at the one after these, which the guard lets through). There is
  one lemma for each function of `cpu.c`, which rest on what `Near`, `Wrap`, `Advance1`
  and `Skip` do with an offset of any size, and `ExecuteKeeps` collects them.
  `WarTurns` shows that each step of the game is a step of the turns, so that
  `GameCorrect` needs no second proof of `ProcIdsSound` and `ResultRight`. The two action
  properties follow from the type invariants of the game (`WarInv`) and `ExecuteKeeps`.
- **`GuestMemory_proofs`**. `MemoryIsPrivate`, `WritesStayInside`,
  `MemoryImplementsAddressSpaces`, `OnlyCopiesPartViews`. The inductive invariant
  `Isolated` relates what regions and page mappings of all address spaces say of an
  area: an area that some region has unmarked belongs to that address space alone, by
  region and by page (`Private`); the regions of one address space have different areas;
  a mapped page belongs to a region that was paged in (`Paged`), which is why it is
  enough that `COWifyVma` makes those read-only; a writable page shows the area of its
  own, unmarked region (`WritableOwn`); an area without backing is blank and mapped
  nowhere (`Blank`); an address space without a thread has nothing (`Unused`).
  `WritableIsPrivate` alone is not inductive: a clone would make an area shared that a
  page not known to be paged in can still write. Each action is then a step of
  `AddressSpaces` or a stutter, the second half of a clone that fails and the copy that
  finds no room included. `OnlyCopiesPartViews` follows each action that changes an
  area, a region or a mapping: a page that shows an area of its own region before the
  step shows one with the same contents after it, unless the step is one of those that
  the property names. It needs, besides `Isolated`, that a page never shows the area of
  another region of its address space (`PagesApart`). These theorems assume `Isolating`:
  the first program is started by `exec_proc` and no guest calls `change_region_prot`.
  Without either the properties are false of the code (see
  [above](#what-the-runs-and-the-models-found)).
- **`CoreWarNii_proofs`**, the machine. `ComparesCorrect`, `SumsCorrect`,
  `LeftoversCorrect`. `SubtractionTells` and `AdditionTells` say, for every width and
  all operands, what the flags of a comparison or a sum tell of the operands as unsigned
  and as signed numbers; a width is given by the half `H` of its range, which keeps the
  arithmetic linear. That this is what the machine does needs the operands to be of that
  width when an instruction was parsed and executed, and with them everything that is
  stored. The invariant is `Cells`: the arena holds bytes, registers and stacks hold
  double words. `ExecOK` says of each case of the dispatch that it keeps this
  (`SetRegOK` and `PutDataOK` are what most of them rest on), `ParsedIs` what the parser
  returns, and `AluStep` which operation, width and operands an opcode of the families
  means. Powers of two are the recursive function `Power`, of which `Powers` shows what
  is needed: the prover knows nothing of `^`. For `LeftoversCorrect`, `ParsedAlike` says
  where two parses of the same bytes can differ, and `LowAlike`, `MiddleAlike`,
  `HighAlike` and `TwoAlike` that what `exec` runs does not look there. Of the
  constants, `NiiAssumption` says what C's types say: a program is a sequence of bytes,
  the flag one of double words, an uninitialised member has some value of its type.
- **`CoreWarNii_proofs`**, the game. `ResultCorrect`. `IInv` is `Counters` (their ranges
  and what `result` permits), `Counted` (of the players that had their turn in this
  cycle and still live, one means that `alive_players` is at least one, two that it is
  at least two) and `ResultSound`. The count may be too high, since who dies in a turn
  was counted before it, and never too low. Nothing is assumed about what an instruction
  does, except that it touches only its own player's count: the result is right for any
  instruction set.
- **`Mambo_proofs`**, the keys. `KeysAreFresh`, `OneLateConnection`. `KeyInv` is
  `MainTypes`, `CountsGrow` (a key's count was below the counter once a connection had
  used it, and keys of later periods have larger counts) and `LateIsLast` (after a late
  connection the flag `shouldRekey` is set and the process is back before its test).
  `SessionsLeaveMain`: with its sessions, the service still is `SpecMain`, so that both
  hold of it too.
- **`Mambo_proofs`**, the sessions. `KeysStayInStep`: for every batch of instructions that
  a poller may draw (`PollsAssumption`: only the last one of `io` asks for a buffer), every
  register size and every way to cut the streams into reads. `KeysInStep` itself is not
  inductive, since what the child writes depends on what it was sent. `SessionInv` adds
  `UpOK` (what is on its way to the child is whole messages, but for a first one that is
  half read, and their bytes are numbered up to the poller's position), `BytesOK` (what
  the child has yet to execute are whole instructions that were drawn; only the last may
  write, and only if the poller waits for it), `ChildOK`, `StartOK` (the key goes out
  before anything else) and `PollerOK` (at most one answer is on its way, and the child's
  position is past it). `QuietDoes` and `AskDoes` say what an instruction writes and how
  many bytes it takes, from every machine.
- **`Mambo_proofs`**, the machines. `MirrorsStayEqual` and `VerdictsAreTrue`: the registers
  of the child and of the poller are the same whenever the poller compares them, and an
  honest service passes unless an answer was torn. Neither end sees the other, and the
  child may be many instructions behind, or hold half of one. The invariant, `TwinOK`,
  therefore speaks of what was sent and is not yet executed: `MirrorOK` says that there
  are places (`starts`), a value for each byte (`v`) and a machine at each place (`g`) such
  that the bytes between two places are an instruction that leads from the one machine
  to the next, from the child's machine, where the child is, to the poller's, where the
  poller's position is; and that the bytes on their way or in the child's buffer are
  those of `v`. The poller executes `io` only after its answer; while it waits, its end
  of the trace is what it will have then (`Goal`). `AnswerOK` says that an answer is one
  of those the poller's own machine allows (`Wanted`), `ChildDone` that a child that
  answered has nothing left to do, `KnowsOK` what a poller keeps while it waits, and
  `EndsOK` how a session begins and ends. `SameDoes` says that an instruction does the
  same whatever follows it in the buffer, `TraceExists` that the instructions of a message
  have a trace from every machine, `RunFollows` that the poller's `parseData` comes to its
  end, `SetRegisterDoes` that a buffer is as long as the poller asked for.
  `PollsAssumption` says how `doPoll` makes a request for a buffer (`AsksWanted`): drawn
  instructions, then the length put in a register, then `WR_BUF`, with nothing in between.
- **`FileTables_proofs`**. `FdsCorrect`, `DescriptorsCorrect`, `ReportsCorrect`.
  `FilesInv` is `FileTypes`, `NumbersBelow` (a table's numbers are below its `last`,
  which is the next one) and `FdsAccounted`. For `ReportsCorrect`, `OffsetsInv` keeps
  every offset on the disk. `LoopExists` and `LoopEnds` say of a loop over chunks that
  it is a function and that it comes to an offset where it stops without leaving a set
  that its steps keep: the offsets up to which the file had as much (read), or up to
  which everything readable was written (write).
- **`Perplexity_proofs`**, the making of worlds. `DistinctExits`,
  `WorldsReachedUpToKeys`. `IInv` is `MapInv` and `ExitsDistinct`. `MapInv` contains
  `RingInv`: the rooms of a new loop that have not had their turn have no direction yet.
  `GenerateRoomLoop` therefore need only see to it that the two directions that it gives
  a room differ; everywhere else a direction is taken that is free, at both ends of a
  link between loops. `WorldsReachedUpToKeys` adds `WorldInv`: every room before the
  first loop that only keys lead into (`BeforeKeys`), but the first, has a rank and an
  entrance from a room of lower rank, whose lock is not a key's and needs only what lies
  in rooms of lower rank (`Ranks`); every room of the list has a height and an exit
  without a lock to a room of lower height (`Homes`); and a loop in the making is linked
  around, and before it joins the list it is linked back to what is there, and from
  there by a lock that is no key's unless it is shut (`LoopInv`). Every lock remembers
  how many rooms there were before its loop, and the rooms of a loop that joins the list
  get ranks above all of those. Then the reached set cannot stop growing before it has
  all rooms before the first shut loop.
- **`Perplexity_proofs`**, the commands. `ItemsInOnePlace`. `ItemsInv` is `ItemTypes`,
  `Single` (what no storage gave out has one entry at most, in a list or in a door),
  `Unmade` (what is yet to be made is nowhere, else its making would be a second entry),
  `Ashes` and `Pointers`. `ListStep` says once what a command may do to an item in
  lists: take entries away, move one, add one of what was just made, or copy what a
  storage keeps. Wheels that go into a door and come out have lemmas of their own, on
  `Append` and `RemoveFirst`. `WorldsAssumption` says that ways lead to rooms and have
  doors of their world, and that pages and what the replicator makes are nowhere at
  first.
- **`Perplexity_proofs`**, the codes. `CodesCorrect`, for any number of symbols from two
  (the code has 17; with one, the digits of a number would not end), any constant and
  any addresses (`SymbolsAssumption`, and `WorldsAssumption` for what an address is).
  `Digits` (what the display writes), `Xor` and `Value` (what the keypad reads) are
  recursive functions. `Recursion` builds a function from its values on smaller numbers,
  and with it `DigitsIs`, `XorIs` and `ValueIs` say that each is what its definition
  describes. `ReadsWritten` then follows a code digit by digit: the keypad turns its
  alphabet just as the display turned it. `XorTwice` undoes the constant. The invariant,
  `CodesInv`, adds that the rooms in the list of discovered rooms are rooms of the
  world; old codes stay right because `Keypad` depends on nothing that a command
  changes.
- **`Perplexity_proofs`**, the hints. `HintsCorrect`, for codes and wheels of any
  length, with symbols that repeat. `HintsInv` is `ItemsInv` (for what is in a door) and
  that a door's symbols are a code of the world, which `WorldsAssumption` says is a
  list. The two loops of `ValidateCombo` are `InPlace` and `Match`; `Loop` says that a
  loop over a list is a function, and then each is followed with an invariant of its
  own. What two lists have in common is a set of pairs, of a symbol and a number up to
  its count in both (`Common`). In `InPlaceCounts`, what was found in place and what is
  common to the lists kept for later and the places yet to come is the same after each
  turn; in `MatchCounts`, so is the number of matches and what is common to the symbols
  yet to come and the wheels that are left. One symbol more in both is one pair more
  (`OneMoreInBoth`).

`TypeOK` of the pool and of the scheduler, `Accounting`, `TaskCount` and `TurnsTypeOK`
are proved and need no run.

Only model-checked is liveness (`QueuedTaskRuns`, `EveryProcessRuns`, `TasksAreEntered`,
`PollEnds`), which the prover does not do.

The library's induction theorems cannot be instantiated with these provers. Where a
proof needs what a recursive function computes, `UpTo`, `Iterates`, `SmallerKeys` and
`AllNumbers` show it step by step from the fact, which can be cited, that a set of
numbers that is not empty has a least element; `Recursion` and `Loop` show that way that
the function exists.

## What is abstracted

- **Pool.** Blocks are indices. The build is the one without `BUG1`.
- **Tree.** `m_size` starts at any of `InitSize`, since no constructor sets it; values
  near 2^64, where it would wrap, are not modelled. Removal of the leftmost node never
  meets a black node with one black child, nor a missing sibling; `RemoveAboveBlack` and
  the `crashed` flag are there because the code has them.
- **Fair scheduler.** What a guest computes between calls is left out. `rc` has the
  values that `Run` tells apart.
- **Round-robin scheduler.** `cycle` wraps at 2 to the power of `CycleBits`. `NumTasks`
  bounds the tasks there are at a time: `m_last_spid` only grows in the code, while here
  a spid is given again when its task and its tables are gone.
- **Memory.** An address is a region and an offset in it; lengths, alignment and the
  search for a free range (`NextFreeAddr`) are left out, and so are regions that
  overlap. Contents are values of a small set. The memfd never shrinks, as in the code.
- **Files.** One file with a size and no contents; a path is found or is not.
  `FitsCache` excludes a read whose last chunk would overrun the cache; the console
  calls are left out. `MaxOpens` bounds the opens of a table.
- **corewar-ni.** `CoreWarTurns` lets any cycle be the last; `CoreWar` counts them.
  `Behind` is how much of the memory behind the array is modelled; nothing of the game
  lies there, and what is further behind is not.
- **corewar-nii.** Prefixes, which the parser of this build never records, and the
  decryption of program files are left out. Words have `NB` bytes.
- **mambo.** The cipher is a stream with places: a byte decrypts only at the place,
  direction and key it was encrypted with. Writes are whole; which bytes the generator
  draws is a choice, and a register past the last one is one of the others. What lies
  around the heap reads as zero (`Peek`). `MaxConnections` bounds a behaviour.
- **Perplexity.** Items have names of their own, and lists are shorter than the 50 and
  100 that the code has room for, where adding does nothing. Descriptions, markers, the
  text of pages, and items that open nothing are left out of the generation. Key doors
  are made and stay shut (see above). What burns is deleted with the pages it has.
  Uncrumpling a page, things other than wheels put into doors, and uses of an item that
  was burnt while a storage still points to it are excluded. `MaxCopies` bounds the
  replicator.

## Not modelled

- **System call injection** (`DoSyscall`, `LaunchAndAttach`): a fixed sequence of ptrace
  calls on one stopped child. What they return is a nondeterministic outcome of the
  calls in `CFSScheduler` and `Kernel`.
- **Loaders, arguments, flag hash**: parsing without state between calls.
- **Web4Factory**: an object per connection and a map of them. Its messages come one at
  a time; what is hard is when Spring Integration reports an error of a connection whose
  message is still handled, and on which thread, which this repository does not say.
  `libfactory.c` builds one object from one text.
- **router-pi**: a process per connection that keeps nothing between requests but the
  cookies it has to set; who is logged in is read from the request.
- **NautilusRand**: arithmetic over 512 bits of state, outside what TLC can explore.
- Third-party code (`sha1.c`, `re.c`, sha512) is not a subject.

## Plan

Order: what holds a service's own state first, and what many actors change before what
one does.

1. nivisor's core: `MemPool`, `RBTree`, `CFSScheduler`, `GuestMemory`. *Done*, with
   `PooledTree` as their composition.
2. corewar-ni: `CoreWarTurns`, `Redcode`, `CoreWar`. *Done.*
3. nivisor's files and round-robin scheduler: `FileTables`, `RoundRobin`, `Kernel`.
   *Done.*
4. mambo: `MamboMain`, `MamboCpu`, `Mambo`. *Done.*
5. corewar-nii: the `X86` modules and `CoreWarNii`. *Done.*
6. Perplexity: `PerplexityMap`, `Perplexity`. *Done*, but for what is listed under what
   is abstracted.

Left, in this order:

- the console calls of nivisor's files, and regions asked for at an address;
- Web4Factory's connections, with an external model of the threads that Spring
  Integration calls them on;
- router-pi's login and cookies as functions of a request.
