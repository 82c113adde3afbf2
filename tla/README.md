# A TLA+ model of uCore, lab2 to lab8

The repository holds eight successive stages (`lab1` … `lab8`) of uCore, a
teaching kernel for RISC-V. Each stage contains the code of the stages before
it, so this project models the last one, `src/lab8/kern` (11.8k lines with
headers and assembly), and from the earlier ones what lab8 no longer has: the
page managers of lab2, the copy-on-write of lab5, the scheduling classes of
lab6. `PROJECT.json` maps every definition that models code to
its lines, and lists the runs, the faulty variants that each property is tried
against, the theorems, the findings and the hazards.

To repeat a run: `tlc -workers 2 -config MCX.cfg M` with the module and the cfg
of the table below. To repeat the proofs: `tlapm ProcProofs.tla`,
`tlapm CheckSyncProofs.tla`,
`tlapm MonitorProofs.tla`, `tlapm SchedProofs.tla`, `tlapm SlobProofs.tla`,
`tlapm VmProofs.tla`, `tlapm FileTableProofs.tla`, `tlapm IoProofs.tla` (the
last four take some minutes).

## 1. The system

There is one CPU and the kernel is not preemptive. A system call runs with
interrupts off from trap entry to trap exit; kernel threads (`idleproc`,
`initproc`, workers) run with interrupts on except between `local_intr_save`
and `local_intr_restore`. The only asynchronous event is the clock interrupt,
which also polls the keyboard. Processes therefore interleave where one of them
calls `schedule()`, at user-mode instructions, and at interrupts in kernel
threads. What is hard in this code is not data races but state that is left
half-way across a `schedule()`, long sequences of legal calls, and calls that
fail after part of their work.

| Component | State | Operations | Talks to | Hard behaviour | Correct when |
|---|---|---|---|---|---|
| Processes (`process/proc.c`) | `proc_struct`: state, wait state, flags, family links; `nr_process`, `current` | fork, exec, exit, wait, kill, yield, sleep | scheduler, timers, memory, files | exit against wait, adoption of orphans, kill of sleepers | family lists agree, no exit is missed, everyone is reaped |
| Scheduler (`schedule/sched.c`, `default_sched.c`) | run queue, time slices, `need_resched` | enqueue, pick, tick, `wakeup_proc`, `schedule` | trap, processes | a wake-up between change of state and `schedule()` | the queue is exactly the processes that can run; nobody starves |
| Timers (`schedule/sched.c`) | list of differences | `add_timer`, `del_timer`, `run_timer_list` | `do_sleep`, clock | early wake-up, several timers due at once, a timer on a stack that is gone | each sleeper wakes after its ticks |
| Process ids (`proc.c`, `get_pid`) | `last_pid`, `next_safe` | search | `proc_list` | wrap-around with a stale `next_safe` | ids are unique, no free one is skipped |
| Semaphores, wait queues (`sync/sem.c`, `wait.c`) | counter, queue | `down`, `up` | scheduler | a unit handed to a sleeper that has not run yet | no unit is lost or doubled |
| Monitor (`sync/monitor.c`) | mutex, `next`, condition queues | wait, signal | semaphores | the signaller sleeps inside the monitor | one owner, nobody is forgotten |
| Philosophers (`sync/check_sync.c`) | one state per philosopher | take and put forks | semaphores or monitor | deciding on a neighbour's behalf | neighbours never eat together, all finish |
| Page managers (`mm/default_pmm.c`; lab2 `best_fit_pmm.c`, `slub_pmm.c`, `buddy_pmm.c`) | free list inside `struct Page`; lists per order; slabs and caches | allocate, free; object caches | every other part | the order of frees picks the branch that links a block; merging; a slab that goes from full to empty | no frame is lost or given twice, the policy is kept |
| Page tables, address spaces (`mm/pmm.c`, `vmm.c`; lab5 `do_pgfault`) | page tables, vma lists, `page_ref` | map, unmap, copy, share, fault | page allocator, fork, exec, exit | failure halfway through a fork or an exec; two writers of a shared page | reference counts equal mappings, memories stay apart |
| Kernel heap (`mm/kmalloc.c`) | circular SLOB list, list of page runs | `kmalloc`, `kfree` | page allocator | coalescing from any entry point, telling blocks from page runs | no overlap, nothing lost |
| Keyboard (`fs/devs/dev_stdin.c`) | ring buffer, wait queue | key (in the interrupt), read | clock, kill | several readers woken by one key, overflow, kill | no lost wake-up, each key delivered once |
| Descriptors and VFS (`fs/file.c`, `fs/fs.c`, `fs/vfs`) | `files_struct`, `struct file`, `ref_count`, `open_count` | open, dup, close, seek, read, write; fork, exec, exit | file systems, processes | errors after a reference was taken, a read that sleeps while others fork, exec and exit, positions beyond the end | counts equal holders |
| Simple file system (`fs/sfs`) | inodes in memory and on disk, indirect blocks, freemap | load, truncate, read, write, sync, reclaim | RAM disk | full disk in the middle of a call, an inode leaving memory | a block has one owner; size, blocks and disk agree |
| Scheduling classes (lab6 `schedule/`: RR, stride, FIFO, SJF, priority RR) | list, skew heap, strides, slices | enqueue, dequeue, pick, tick | `sched.c` | strides that wrap, links of a heap that is merged over and over | the queue is exactly who can run, the right one is picked |
| Traps, drivers, libraries, user programs | registers, devices | – | – | – | – |

## 2. Modules

| Module | Models | |
|---|---|---|
| `TimerList` | the list of differences of `sched.c` | operators |
| `SleepSpec` | what `do_sleep` promises: one countdown per sleeper | abstract |
| `Proc` | `proc.c`, `sched.c`, `default_sched.c`, the end of `trap()` | state machine |
| `MCProc` | symmetry of process slots | TLC |
| `ProcProofs` | theorems about `Proc` | TLAPS |
| `GetPid` | the search for a process id | state machine |
| `Sem` | semaphores over wait queues, with direct hand-over | operators |
| `DiningSpec` | what both philosopher programs promise | abstract |
| `Philosophers` | the table: `LEFT`, `RIGHT` | operators |
| `PhilSema` | philosophers over semaphores | state machine |
| `PhilMonitor`, `MonitorProofs` | `monitor.c` and the philosophers that use it | state machine, TLAPS |
| `CheckSync`, `CheckSyncProofs` | `check_sync`: one test after the other | composes the two above, TLAPS |
| `PmmSpec` | first fit, best fit or buddy over a set of frames | abstract |
| `DefaultPmm` | the three managers with one free list, pointer by pointer | state machine |
| `Slub` | SLUB's object caches over its page layer | extends `DefaultPmm` |
| `Buddy` | the buddy system | state machine |
| `Pmm`, `MCPmm` | `pmm_manager` and its callers | composes the three above, TLC |
| `Vm`, `MCVm`, `VmProofs` | page tables and address spaces through fork, exec, exit, faults | state machine, TLC, TLAPS |
| `HeapSpec` | a heap that is a set of units | abstract |
| `Slob`, `SlobProofs` | `kmalloc.c` | state machine, TLAPS |
| `Strides` | comparison of strides that wrap | operators |
| `StrideSpec` | stride scheduling with strides that do not | abstract |
| `SchedClass` | the five classes of lab6, skew heap, `schedule`, `wakeup_proc` | state machine |
| `SchedProofs` | theorems about `SchedClass` and about `GetPid` | TLAPS |
| `FileTable`, `MCFileTable`, `FileTableProofs` | descriptor tables through open, dup, close, fork, exec, exit | state machine, TLC, TLAPS |
| `Stdin` | keyboard buffer, its readers and kills | state machine |
| `MCServices` | `GetPid`, `Slob` and `Stdin`, one per behaviour | TLC |
| `SfsFile`, `MCSfs` | regular files, descriptors and inode counts | state machine, TLC |
| `IoProofs` | theorems about `SfsFile` and about `Stdin` | TLAPS |

How the code appears in them:

* **`Proc`.** A variable per field of `proc_struct` that matters; `pc[p]` is
  where `p` stands in kernel code. An action is a handler, or the stretch of it
  up to the next place where another process or the clock may run: `do_wait` is
  `Wait`, then `WaitReap`, `WaitSleep` or `WaitNoChild`, then `WaitSched`,
  `WaitRet`; `do_sleep` is `Sleep`, the walk of `add_timer`
  (`AddTimerWalk`, `AddTimerInsert`), `SleepSched`, `SleepRet`. Loops that run
  with interrupts off take one step per round (`Adopt`, `Expire`). `Tick` is
  possible in user mode and in a kernel thread with interrupts on (`IntrOn`).
  Memory, files and registers are left out of fork, exec and exit; that a fork
  may fail for lack of memory is `ForkFails`.
* **`GetPid`.** One step per round of the scan. `from` remembers where the
  search began so that `PassedOver` can be stated.
* **`PhilSema`, `PhilMonitor`, `CheckSync`.** One step per semaphore operation or
  change of shared state, and any thread may be next: more interleavings than
  this kernel has, so what holds here holds there. The second test starts when
  `do_wait` has got every thread of the first one back. The call of `check_sync`
  in `init_main` is commented out in the repository; the code is complete and is
  modelled as it is.
* **`DefaultPmm`, `Slub`, `Buddy`, `Pmm`.** `pmm_manager` is chosen at the start,
  as `init_pmm_manager` does, and every call goes to the chosen manager. First
  fit, best fit and SLUB's page layer share one module, because they differ in
  four places only (`Pick`, `AddLast`, `PutRemainder`, `TakenProperty`): `next`,
  `prev`, `property` and the flag of each frame, with the stale values the code
  leaves behind. `MCPmm` gives TLC a view that ignores the stale ones: they are
  written before they are read. `TailFrees` says whether callers of the first two
  may free a run above every free block (see Findings). In `Slub` a slab's chain
  of free objects is a sequence. `lost` in `Buddy` is a history variable.
* **`Vm`.** `op` is the fork, exec, exit or fault in progress; it takes a step per
  frame it asks for, and each may find the memory full. `share` is the flag that
  `dup_mmap` hands to `copy_range`: FALSE for lab8, TRUE for lab5. Contents of
  pages are left out, a kernel stack counts as one frame. `half` and `lost` are
  history variables.
* **`FileTable`.** Calls interleave only where a read of the keyboard sleeps, with
  the slot acquired. `CloneFs` says which values of `CLONE_FS` fork is called
  with: `copy_files` and the counts of a slot are written for a shared table, and
  both values are checked, although no caller of `do_fork` passes the flag today:
  in the kernel as it is, every process has a table of its own. Open and exec
  take a step per part that can fail. `OpenExists` is the return of `vfs_open` for
  an exclusive create of a file that exists, which keeps the reference of
  `vfs_lookup`; `leaked` is a history variable that counts these references, and
  `MaxLeaked` bounds them. There is no system call that changes the
  working directory, and `O_CREAT` of a file that does not exist ends in a
  `vop_create` that SFS does not have; neither is modelled.
* **`Slob`.** Addresses count units; `next` and `units` are the headers inside the
  blocks. A step per page asked for. `SizesFit` says of the sizes asked for that
  `find_order` has enough pages for them (see Findings).
* **`SchedClass`.** A stride is kept as the `pass` it would be without wrapping, and
  the code's comparison sees only the remainder (`Diff`). The skew heap is
  modelled link by link. `mixed` records that a process has joined from farther
  away than `BIG_STRIDE`.
* **`Stdin`.** The clock interrupt stores a key and wakes all readers; a reader
  runs until it has its characters or sleeps. `got` and `lost` are history
  variables.
* **`SfsFile`.** `op` is the system call in progress: calls do not interleave
  (interrupts are off and the RAM disk does not sleep), and a call that loops
  over blocks takes a step per block. Contents of data blocks are left out;
  contents of indirect blocks are not. `panic` names the assertion that failed,
  after which nothing happens. `TruncShared` says whether a file that is open may
  be opened with `O_TRUNC`; `MaxLeaked` bounds the references that a failed
  exclusive open leaks. `cut` is a history variable: the files whose last resizing
  stopped on a full disk.

A definition whose name ends in `_Something` under a comment "Faulty variant" is
a plausible mistake in the definition that follows it. It is used by nobody; the
mutants of `PROJECT.json` put it in place of the original, and a property has to
notice.

## 3. Runs

| Run | Module, cfg | Bounds | Distinct states | Result |
|---|---|---|---|---|
| `proc_safety` | `MCProc`, `MCProcSafe` | idle, init and 3 slots, 2 kernel threads, sleeps of up to 2 ticks, slice 1 | 469171 | holds |
| `proc_live` | `MCProc`, `MCProcLive` | 4 slots, slice 2, sleeps of 1 tick | 64773 | holds |
| `services` | `MCServices`, `MCServices` | ids: 6 and 5 processes; heap: 3 pages of 5 units, sizes of 1 byte to over a page; keyboard: 2 readers, buffer of 2, requests up to 3, 6 keys | 231084 | holds |
| `phil` | `CheckSync`, `MCCheckSync` | 4 philosophers, 2 rounds, both tests | 218106 | holds |
| `pmm` | `MCPmm`, `MCPmm` | 4 managers, 6 frames (buddy 9), 2 size classes and a custom cache, 2 slabs, no tail frees | 40206 | holds |
| `pmm_tail_free` | `DefaultPmm`, `MCPmmTail` | 4 frames | – | **violated** |
| `vm` | `MCVm`, `MCVm` | 2 processes, 1 to 22 frames, 12 virtual pages in 4 page tables, 5 calls, copy and copy-on-write | 254492 | holds |
| `file_table` | `MCFileTable`, `MCFileTable` | init and 2 processes, 3 tables of 3 slots, 2 files and the keyboard, 1 leaked reference | 576511 | holds |
| `sched` | `SchedClass`, `MCSched` | 5 classes, 3 processes, strides of 3 bits with `BIG_STRIDE` 3, passes up to 10 | 575698 | holds |
| `sfs_file` | `MCSfs`, `MCSfsFile` | 2 files, 2 descriptors, 3 blocks of 3 bytes, no `O_TRUNC` of open files, 1 leaked reference | 2553420 | holds |
| `sfs_trunc_assert` | `MCSfs`, `MCSfsTrunc` | as `sfs_file` | – | **violated** |
| `sfs_trunc_shared` | `MCSfs`, `MCSfsShared` | as `sfs_file`, with `O_TRUNC` of open files | – | **violated** |

What they show, and why the bounds suffice:

* `proc_safety`, the family: `NoLostChild` (nobody sleeps in `do_wait` while it
  has a dead child the call would return, adopted orphans included), `FamilyOK`
  (the chains `cptr`/`optr`/`yptr` are what `parent` says, and `nr_process`
  counts everybody, nobody's parent is dead outside its own adoption loop), `InitDoneOK` (the assertions
  at the end of `init_main`). With three dynamic slots a process, its child and its grandchild
  exist together, as do two siblings: an orphan is adopted while init has
  children, and a chain has a head, a middle and an end.
* `proc_safety`, scheduling and timers: `SchedOK` (run queue, wait states, timers
  and where each process stands agree) and `SleepRefinement`: the list of differences implements one
  independent countdown per sleeper. Three sleepers with up to two ticks give
  insertion at each place, equal due times, removal by a kill and several
  expirations in one interrupt. With a slice of 1 every tick asks for a
  rescheduling, the case with the most interleavings.
* `proc_live`: `RunnableRuns`, `SleeperWakes`, `OrphanReaped`,
  `KilledSleeperExits`. A slice of 2 is the smallest that is not used up by each
  tick.
* `services` holds three modules that share no state, one per behaviour, each with
  its own fairness; they are small, and one run serves for all three.

  `GetPid`: with 5 processes and 6 ids the search wraps with all but one id in
  use, and `next_safe` becomes stale in both directions. `SearchOK`: the scan is
  skipped only where that is safe (`GapOK`) and no free id is passed over
  (`PassedOver`).

  `Slob`: pages of 5 units hold up to three blocks; two starting memories make
  pages of the heap adjacent (blocks merge across them) or apart. `HeapOK`: one
  sorted cycle, maximal free blocks, nothing overlaps, headers intact;
  `HeapRefinement`: calls do what a set of units would.

  `Stdin`: the buffer of 2 wraps three times; requests longer than the buffer
  must sleep at least twice; the buffer overflows before and between reads.
  `BufferOK` accounts for every key and for the entries of the wait queue.
* `phil`: 4 is the smallest table with two philosophers who are not neighbours;
  the second round starts with everyone's state left over from the first.
  `SemaOK`: one thread in the critical section, forks handed over once, no
  neighbours eating. `MonitorOK`: whoever owns the monitor passes it to exactly
  one successor (`BatonOK`, `NextCountOK`), and a signalled waiter, which tests
  once and not in a loop, finds its condition true (`SignalledEats`). Both
  programs implement `DiningSpec` (`DiningRefinement`, `MonitorDining`), and
  `check_sync` comes to its end (`CheckSyncEnds`).
* `pmm`: with 6 frames three free blocks with gaps exist at once, and a free
  merges with the block below, above, both or none; best fit has blocks of
  different sizes to choose from. 9 frames with orders 0 to 2 give buddy two
  largest blocks, which must not merge, and an odd frame at the end. `ManagerOK`
  is the shape of the lists (order, back links, blocks against the frames nobody
  holds, merging, and what `default_check` asserts), `PmmRefinement` the policy:
  a request fails only when the memory has no run it could be given. `SlubOK`:
  slabs are in the right list, the counters of `slub_dump_stats` are right, and a
  slab with no object in use has gone back. The class of size 3 has one object per
  slab, which goes from full to released in one call; a custom cache of size 6
  has none at all.
* `vm`: the sizes of the memory are chosen so that each allocation of a first
  exec, of a fork and of a second exec is the one that fails; the two programs
  put segments into one page table and across two, and the stack into another
  directory. `FramesOK`: every frame is free, lost or in use once and `page_ref`
  counts mappings (`CountedOK`), and nothing is lost but the directories named
  under Findings (`LostOK`).
  `TreeOK`: what unmapping relies on. `CopyOK`: a fork that succeeds is complete.
  `CowOK`: a writable page is mapped once, and every page of a writable area can
  still be written to, after failed forks and exits of the other side too.
* `file_table`: with two processes and init a table is shared and copied, closed
  under a sleeping reader, reopened by the sharer, and left by exit and exec
  while the other goes on. Three slots allow a hole between open ones; the keyboard
  and the files are a device that always has a reference and inodes that leave
  memory, of which one can be held by a leaked reference alone. Positions stay 0
  here (`MaxPos`): no guard of these calls reads one, and `sfs_file` is about
  them. `SlotsOK`: a closed slot is not reused before its last reader is done;
  `CountsOK`: inode counts equal what holds them (slots, the root directory of the
  device, the call in progress, references that `vfs_open` has leaked) and nothing
  else, errors late in `file_open` included; `TablesOK`: `files_count` equals
  users.
* `sched`: with `BIG_STRIDE` 3 and strides modulo 8 the comparison wraps while
  passes go to 10. Priorities 0 (taken for 1) and 3 give steps of 3 and 1. Three
  processes are a heap with a root and two children, or a chain.
* `sfs_file`: two files with one direct block and an indirect block of two
  entries each take three blocks from each other: every place where the disk can
  fill up is reached, also between an indirect block and its first entry, and an
  inode leaves memory and comes back while the other file has moved on. Blocks of
  three bytes are the smallest in which a transfer can lie inside a block without
  touching its ends, and with a length of 4 and seeks to 1 and 4 a transfer has a
  head, a body, a tail, any two of them or only one. `BlocksOK`: a block is free or
  has one owner. `FileOK`: a file has the blocks its size needs and no more, unless
  its last resizing was cut short by a full disk (`cut`), and of the assertions
  about blocks only `sfs_truncfile`'s can fail, for such a file. `TransferOK`: each
  piece of a transfer is the right one. `InodeOK`: an inode that leaves memory
  unwritten takes nothing with it but its block count (`NothingLost`), and its
  references cover its descriptors (`CountsOK`). `ReadKeepsFile`: reading never
  allocates, although it goes through the function that does.
* `sfs_trunc_assert` and `sfs_trunc_shared`, each about one assertion of the code
  that does fail: see Findings.

`CHECK_DEADLOCK FALSE` is used where the system may stop: `SfsFile` and `Vm` (a
kernel that has panicked, or has made its calls) and `FileTable` (nobody but a
reader is left). In `services` the keyboard rests in one explicit step, `StdinRest`, when all keys are typed and
every reader is dead or slept on after a kill; TLC finds no other state in which
one of the three is stuck.

### Fairness

* `Proc`: the CPU executes kernel code between clock interrupts, the clock does
  not stop, and an interrupt held back while interrupts are off stays pending and
  is taken when they are on again. Kernel code and `Tick` therefore get strong
  fairness (each is disabled now and then by the other), the interrupt handler
  weak fairness. Nothing is assumed of user programs.
* `CheckSync`: weak fairness of each thread and of `check_sync` itself. `RunnableRuns` and
  `SleeperWakes` of `proc_live` are what justifies it. No fairness of semaphores
  is assumed: the order of their queues is modelled.
* `GetPid` (`Scan`): a loop that runs with interrupts off goes on.
  `Stdin` (`Resume`): a reader that was woken runs, again by `RunnableRuns`. Nobody is obliged to type a key or start a read.

## 4. Proofs

For every value of the constants, under the named assumptions:

* **`ProcProofs`** (`ProcAssumption`): `TypeCorrect`, `RunQueueCorrect`,
  `WaitStateCorrect`, `CtrlCorrect`, `TimerCorrect`, together `SchedCorrect`, the
  `SchedOK` of `proc_safety`. The inductive invariant is the conjunction of the
  five. None is inductive alone: that `wakeup_proc` never queues a process twice
  (`RunQueueOK`) needs that it is only called for sleepers (`WaitStateOK`); that a
  timer which fires finds its process in `do_sleep` (`TimerOK`) needs where a
  process with a given wait state stands (`CtrlOK`); and `CtrlOK` needs the run
  queue to know that what `schedule()` picks is runnable. One step per action,
  lemmas for the sequence operations of the run queue and the timer list.
  Then the family tree (`FInv`): `FamilyCorrect` (`FamilyOK`),
  `NoLostChildCorrect` (`NoLostChild`) and `InitDoneCorrect` (`InitDoneOK`), for
  any finite number of processes. The pointers are reasoned about as one sequence
  of children per process (`Chain`); `set_links`, `remove_links` and the adoption
  loop are shown to add or drop one element of it. `NoLostChild` needs the chains,
  because `do_wait` and the adoption loop see only the children they can reach;
  `InitDoneOK` needs that nobody is its own ancestor, stated as a rank that grows
  from parent to child: of the processes left behind, one of least rank would be
  a child of `initproc`. Last the timers: `SleepCorrect`, `Proc` implements
  `SleepSpec`. `WalkInv` says that what `add_timer` has walked past and what it has
  still to go add up to the argument of `do_sleep`; each operation on the list is
  shown to shift the sums of deltas as it should (`InsertLeft`, `DeleteLeft`,
  `TickLeft`, `ExpireLeft`). Chains and sums need induction over numbers, which
  `SetInduction` gets from the library's theorem that a well-founded relation has
  minimal elements.
* **`SchedProofs`**. Process ids (`PidAssumption`, the `static_assert` of the
  code): `UniqueCorrect`, `GapCorrect`, `PassedOverCorrect` (together
  `SearchCorrect`), `PidTypeCorrect`. The invariant adds `ScanOK`: what the part of
  the list already scanned says about `last_pid` and `next_safe`.
  Then the classes of lab6 (`SchedAssumption`; `StrideAssumption`: `BIG_STRIDE`
  is below half of the range, as 0x7FFFFFFF is for 32 bits), for any set of
  processes, priorities and running times: `QueueCorrect` (`QueueOK`),
  `SpreadCorrect` (`Spread`) and `StrideRefines` (`StrideRefinement`).
  - *The heap.* `Subtrees` names the set of processes below each node. It is what
    makes the recursion of `skew_heap_merge` terminate: the calls that it makes are
    on smaller trees, so that the recursive function has one value
    (`MergeDefined`, by `SetInduction` over the sizes), and by induction again the
    result is one tree of both sets with the same processes and matching parent
    links, in the order of the comparison if that is an order (`MergeGood`).
    `InsertGood` and `RemoveGood` follow. That the links up match the links down
    everywhere (`Upward`) is by the smallest subtree above a node.
  - *The order.* `DiffIsTrue`: the wrapped difference of two strides is the true
    one while they are at most `BIG_STRIDE` apart, by the quotient and remainder of
    each. So `Spread` makes the comparison an order (`Ordered`).
  - *The invariant* `IInv`. `Spread` and the order of the heap need each
    other: the passes stay together because the one at the root, the smallest, is
    the one that pays (`SpreadStep`), and the root is the smallest because the
    passes are together. When a process comes in from farther away both end
    (`mixed`), but the tree, the list and the counter stay right:
    a comparison that is no order can misplace processes and cannot lose them.
    `Apart` says that the other classes leave passes alone.
* **`CheckSyncProofs`** (`PhilAssumption`): for the test with semaphores
  `MutexCorrect`, `GrantCorrect`, `ExclusionCorrect` (together `SemaCorrect`),
  `TypeCorrect`, and `RefinementCorrect`: it implements `DiningSpec`. The
  invariant ties the counters to what threads are doing (one holder of `mutex` or
  one unit left; waiters are on the way in), and says that a decision taken under
  `mutex` on behalf of a neighbour still holds when the neighbour acts on it
  (`GrantInv`). Then for `check_sync` as a whole: each of its steps is a step of one
  test that leaves the other alone (`RunsSema`, `RunsMonitor`), so
  `CheckSyncSema`, `CheckSyncMonitor` (`MonitorOK`) and `CheckSyncDining`
  (`MonitorDining`) follow from the proofs about each.
* **`MonitorProofs`** (`PhilAssumption`): `MonitorCorrect` (`MonitorOK`) and
  `MonitorRefines`, for any number of threads. `BatonOK` says that four numbers
  add up to one and is not inductive: whether `up(&cv.sem)` really hands the
  monitor over depends on who sleeps in which queue. The invariant therefore adds
  who sleeps where and from which call (`QueueInv`: nobody twice, nobody beside a
  unit), that `count` of a condition variable is set from before its philosopher
  leaves the monitor (`CountInv`), the states that go with each place (`StateInv`),
  and that a grant still holds when it is acted on (`GrantInv`). The sum is
  replaced by statements without cardinality (`OwnerInv`, `UnitInv`, `NotLost`)
  from which it follows (`OneBaton`).
* **`IoProofs`**. Regular files (`SfsFileAssumption`), in two layers.
  `FilesInv` (types, the call in progress and its descriptor, counts, names of
  blocks) holds on every disk, whatever is opened, and gives `BlocksOwned`,
  `TransfersExact` and `InodesKept`. Its heart is `NameInv`: each name of a block
  (a direct slot, an indirect block, an entry of one, in memory and on the disk)
  names a block of its own that the freemap has as used. `BlocksOK` is not
  inductive alone, because what a block is used for changes halfway through a call
  (`sfs_bmap_truncate_nolock` frees the data block and then the indirect block).
  `SizesInv` adds that sizes, blocks and positions agree. `SizeInv` is its lower
  bound (the blocks hold the size, and no position lies behind it); it needs that
  nobody opens an open file with `O_TRUNC` (`~TruncShared`, a hypothesis of the
  theorems below; Findings say what happens otherwise). `TightInv` is the upper
  bound: no block to spare outside `cut`, where a transfer runs ahead of the size
  by less than a block, and the inode on the disk is as tight while the one in
  memory is not dirty, because it may be read back. From the two follow
  `ReadsKeepFiles` and `FilesSound`: size and blocks agree exactly outside `cut`,
  and of the assertions about blocks only two can fail, the range check of
  `sfs_bmap_get_nolock` and, for an empty file in `cut`, `sfs_truncfile`'s.
  `FilesCorrect` rules out the range check too for a disk without more blocks than
  one file can have (`SmallDisk`, which the run satisfies): a file would have to
  own every block of the disk. An SFS image is larger than that (a file has at most
  12 + 1024 blocks), so for it `FilesSound` is what is proved. That
  `sfs_truncfile`'s assertion never fails is false: run `sfs_trunc_assert`.
  Then the keyboard (`StdinAssumption`): `WakeupCorrect` (`NoLostWakeup`) and
  `BufferCorrect` (`BufferOK`). The inductive invariant adds to the two: where a
  reader stands agrees with its wait entry (`SleepOK`), no key is both read and
  lost and none is read twice (`SeenOnce`), and keys are numbered as they were
  typed (`TypedOK`). `NoLostWakeup` needs `QueueOK`, since a key wakes those who
  are in the queue; `BufferOK` needs the arithmetic of ring slots: two positions
  less than a buffer apart never share a slot (`ModDiffers`).
* **`FileTableProofs`** (`FileTableAssumption`: finitely many processes, tables and
  files, at least three descriptors, inodes told apart): `SlotsSound` (`SlotsOK`),
  `CountsSound` (`CountsOK`) and `TablesSound` (`TablesOK`), for any number of
  each. `CountsOK` is an equation: it says of the references that exclusive creates
  have leaked that they are exactly what is left when all holders are gone. None
  of the three is inductive alone. That closing a table frees all its slots
  (`files_destroy` asserts it) needs all of them: `files_count` of 1 means that nobody else uses the table, so no read is in progress through it and
  no slot is `FD_CLOSED`. `CallOK` adds where the open or exec in progress stands
  (its process runs, its inode is one that can be opened, the program that exec
  has opened is open), `ProcOK` that a process names a read exactly while it
  sleeps and has no table before it is forked. Counting is by three lemmas: one
  element more or less (`Plus`, `Minus`), and slots of one table that start or stop
  holding an inode (`HeldMore`, `HeldLess`).
* **`VmProofs`** (`VmAssumption`: finitely many processes, and segments that
  `load_icode` can map), for any number of frames, any shape of the page tables,
  with and without `share`, and an allocation failing anywhere:
  `TreeCorrect` (`TreeOK`), `CopyCorrect` (`CopyOK`), `CowCorrect` (`CowOK`) and
  `FramesCorrect` (`FramesOK`), from `CountedCorrect` and `LostCorrect` for its two
  parts. The invariant has three parts that need each other, and a fourth for
  `LostOK`.
  - `Core` is about calls and tables: whose address space a call works on and what
    it has still to do (`CallOK`, `TodoOK`), that every level lies under one that
    exists and every page in a vma (`LevelsOK`), and how far `dup_mmap` has got
    (`DupOK`); `TreeOK` and `CopyOK` follow. An address space that is half built
    or half torn down keeps `LevelsOK`, and that is why one clean-up serves
    every failure.
  - `LedgerOK` is about frames: each place that holds one (a stack, a directory,
    a table, the page in hand) holds a frame of its own, and `page_ref` counts the
    entries that map it. It is stated over any contents of places and entries
    (`Ledger`), so that each way an action moves frames is one lemma
    (`TakeFrame`, `GiveFrames`, `LoseFrames`, `MapNewFrame`, `MapSharedFrame`,
    `ReplaceFrame`, `UnmapFrames`), and each action an instance of one of them.
    `CountedOK`, which counts places, follows (`PlacesCount`).
  - `BitsOK` says who may write to a page without counting: a writable page is
    mapped at one place only (`AlonePage`). `LastFault` needs the ledger here: a
    `page_ref` of 1 means that there is no other mapping.
  - `KeepOK`: every table serves a vma (`ServesOK`), a program whose loading or
    copying has ended has all its pages (`FullOK`), and a directory that lacks a
    table is in `half` (`HalfOK`). `LostCorrect`, and with it `FramesCorrect`, has the hypothesis
    `ProgramsFit`, that vmas which share a directory share its page tables and
    exec maps a page under each of them: without it the theorem is false (see
    Findings), and TLC checks it of the programs of the run (`MCProgramsFit`).

* **`SlobProofs`** (`SlobAssumption`: a page has more than two units), for any
  size of a page and any number of them, whichever are free at the start:
  `HeapCorrect` (`HeapOK`) and `HeapRefines` (`HeapRefinement`).
  - *The list.* `HeapOK` speaks of the walk that the code does, from wherever
    `slobfree` stands; the invariant speaks of addresses instead (`Chain`): every
    free block but the highest leads to the next one above it, and the highest to
    the arena. Linking a block in and taking one out keep that (`ChainInsert`,
    `ChainRemove`), and it makes the walk a single round through all free blocks
    (`RoundIs`: `next` is injective, so the walk returns to its start, and a set
    closed under `next` is the whole list). Hence the search of `slob_free`
    ends, and where it ends does not depend on where it began: at the free block
    just below (`PlaceIs`), or, below none, at the highest.
  - *The blocks.* Free blocks, blocks in use and descriptors are tiles of the pages
    of the heap (`Tiling`). `slob_alloc` splits a tile, `slob_free` joins up to three,
    a new page adds one; `FreeStep` and `TakeStep` say so for all branches of
    merging and splitting at once. That no two free blocks touch (`ListOK`)
    is what makes the merge complete.
  - *Pointers.* `HeldOK` and `BigOK` say what a caller's pointer can be. `kfree` asks
    only whether a pointer that starts a page is in `bigblocks`. It can take no small
    block for a page run, because the runs that descriptors name are neither pages
    of the heap nor free. `CallOK` has the last conjunct of `HeapOK`: after it has
    grown once, the heap has room.
  - *The promise.* A walk that finds no block with room means that there is no run
    of free cells of that length (`NoRoom`), because free blocks do not touch.
  `HeapCorrect` has the hypothesis `SizesFit`. It is needed only for the bytes that
  `ksize` reports of a page run; TLC checks it of the sizes of the run
  (`MCSizesFit`).

Only model-checked, and why:

* All liveness properties: fairness and `ENABLED` are beyond the prover.
* `ManagerOK`, `SlubOK` and `PmmRefinement`. Each of the managers keeps its lists
  in a way of its own, and `SlubOK` rests on the list under it, so that none
  has a proof yet; no part of the invariants is known to be out of reach.

## 5. Findings

Three have runs of their own, in which TLC finds an assertion of the repository
violated: `pmm_tail_free` here, and `sfs_trunc_assert` and `sfs_trunc_shared`
under "Files" below. `pmm_tail_free`: freeing a run above all free blocks links it in
twice, because the loop of `default_free_pages` does not end there
(`default_pmm.c:148`); the walk of `default_check` then fails or never ends.
`best_fit_free_pages` (lab2 `best_fit_pmm.c:171`) has the same loop;
`page_insert_block` of SLUB does not. The run `pmm` leaves such frees out for the
two managers concerned (`TailFrees = FALSE`).

The following are behaviours of the models. Each is allowed in the passing runs or
kept out of them by the named restriction, so the properties hold beside it.

Processes and input:

* A process flagged `PF_EXITING` after `trap()` has tested the flag and before it
  is back in user mode can enter `do_wait` and sleep; a second kill answers
  `-E_KILLED` and does not wake it. `KilledSleeperExits` is therefore stated for
  processes that sleep when they are killed.
* A key between the kill of a reader and its next run overwrites the wake-up flag
  (`dev_stdin.c:59`): the reader takes the kill for a key and sleeps again.
* A process that is forked or woken with a stride far from the others' is never
  brought near (lab6 `stride_enqueue`): the bound on strides ends there (`mixed`).
  SJF casts an unsigned runtime to `int32_t`.

Memory:

* When a fork or an exec fails while a page table of an area is still missing,
  `exit_range` (`pmm.c:411`) does not free the level-0 directory above it, and
  nothing leads to that frame any more. `LostOK` allows exactly these frames
  (`half`); "init check memory pass." (`proc.c:1241`) is printed without a check.
* `exit_range` frees a level-0 directory when no entry *of the range* was missing
  (`pmm.c:411`), not "only when all pde0s in it are already invalid", as the
  comment at `pmm.c:414` says. A program whose data reaches beyond the page table
  of its text (2 MB) loses that further table, because the range of the text takes
  the directory away under it: `LostOK` fails with
  `Programs = {{Seg(1, 2, FALSE), Seg(2, 4, TRUE), Stack}}` in the terms of `MCVm`.
  In the programs of the run `vm`, segments that share a directory share its page
  tables; of the user programs only `testbss`, with 4 MB of `bigarray`, is larger.
* A fork that finds the memory full at `alloc_page` in `copy_range` panics
  (`pmm.c:463`), as does an exec at its stack (`proc.c:869`), where one call
  earlier the same shortage is an error that is cleaned up.
* lab5: `do_pgfault` does not look at the area's flags for a copy-on-write page,
  so a store makes a read-only page writable after a fork; a store from kernel
  mode to such a page is not resolved (`trap.c:259`) and is tried for ever; a
  fault that finds the memory full panics. The switch of `cow.c` that plants a bug
  for demonstration is not modelled.
* `kmalloc` of 4064 to 4079 bytes passes `__kmalloc`'s test and fails the
  assertion of `slob_alloc`; just above two pages `find_order` gives too few.
  No caller asks for these sizes, and the run does not either. The comment says
  first fit; `slobfree` makes it next fit.
* Buddy: `alloc_pages(3)` gives a block of 4 and `free_pages(.., 3)` returns three
  frames; the fourth is gone (`lost`). `slub_cache_cleanup` looks for slabs with
  no object, of which there are none, because the last free releases them.

Files:

* A process without an address space (a kernel thread, or an exec that failed
  after it gave up its memory) leaves by `do_exit` without `put_files`
  (`proc.c:641` is under `mm != NULL`): its `files_struct` and what it holds open
  stay for ever. `TablesOK` counts them as `lost`.
* `sfs_trunc_shared` (`IndexAssertOK`): an `O_TRUNC` leaves the positions of other
  descriptors beyond the end, and a write there asks for a block that is not the
  next one, which fails `assert(index <= din->blocks)` (`sfs_inode.c:356`). If the
  write fails with nothing written, the code at `out` (`sfs_inode.c:663`) still
  moves the end of the file to its offset, and a later read allocates blocks:
  `ReadKeepsFile` does not hold there. `sfs_file` has `TruncShared = FALSE`.
* `sfs_trunc_assert` (`TruncAssertOK`): a seek that fails on a full disk leaves
  blocks without size (`sfs_inode.c:970`); when the file is empty, the next open
  with `O_TRUNC` or `O_CREAT` fails `assert(tblks == din->blocks)`
  (`sfs_inode.c:959`). In `sfs_file` the kernel stops there too; `FileOK` says that
  nothing else leads to it.
* An exclusive create of an existing file (`vfsfile.c:47`) returns without giving
  back the reference `vfs_lookup` took. The inode stays in memory for ever, and
  enough such calls reach the assertion of `inode_check` (`inode.c:114`). The runs
  bound their number by `MaxLeaked`, and `CountsOK` of `file_table` counts them.
* The exception in `NothingLost`: `sfs_bmap_load_nolock` increments
  `din->blocks` (`sfs_inode.c:365`) and leaves `dirty` to its callers, which set
  it only if the whole call succeeds.

## 6. Plan

Done, in this order: `Proc` with its proofs, semaphores and philosophers with
proofs, the page allocator, `GetPid` with proofs, keyboard input, regular files;
then descriptor tables, address spaces with copy-on-write, the kernel heap, the
scheduling classes with proofs, the other page managers, and the composition of
both philosopher tests; then the proofs for keyboard input, regular files, the
monitor, descriptor tables, the family tree, the timer list and address spaces;
then those for the frames of address spaces, the skew heap and the refinement of
stride scheduling, and the kernel heap.

Next:

1. Proofs: the free list of `DefaultPmm` by order of addresses, as `SlobProofs`
   does for the kernel heap, then `PmmRefinement` for first fit and best fit; the
   orders of `Buddy`; the slabs of `Slub`.
2. Composition: `Stdin` over the wake-ups of `Proc`; `FileTable` over the inodes
   of `SfsFile`; contents of files as a refinement of a sequence of bytes.
3. Directories of the simple file system, should the kernel learn to write them.

## 7. Not modelled

* Seven of the eight stages repeat the same files with small differences
  (`riscv.h` alone is 11k lines in eight copies), and the libraries, headers of
  constants, drivers, user programs and tools make up most of the rest. Mapped is
  the code of lab8 that keeps state, and what lab2, lab5 and lab6 have besides: about
  a fifteenth of the lines of the repository, and most of the kernel's own
  logic counted once.
* Directories of the simple file system: the kernel only reads them (SFS has no
  `vop_create`). Paths and names are strings. Mounting happens once.
* Devices, drivers, the boot path, register saving and the system call table:
  hardware access or dispatch without state of its own.
* `try_down` and the backward walks of wait queues: nobody calls them.
* Disk errors: the disk is memory, and its driver always returns 0. A crash of
  the machine loses the disk with everything else, so there is nothing to
  recover.
* The TLB, permission bits other than writable, and the swap hooks of earlier
  stages: nothing here depends on them.
* The stride class in lab8's own directory: it is not the class in use, and
  differs from lab6's in `BIG_STRIDE` (1 << 30).
* Formatting, the kernel monitor, the libraries and the user programs.
