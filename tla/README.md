# Specifications of petulant-wookie

The repository holds two Linux character drivers written for a course (`asgn1`, a ramdisk; `asgn2`, a driver
for a dummy port that delivers bytes half by half) and a handful of laboratory exercises (`Lab1`, `Lab3`, `Lab4`).
The specifications here cover the two drivers, from their loading to their unloading, and those of the exercises
in which something goes on at the same time: what they keep, what every operation does to it, and what can be
relied on.

The machine is the one the built modules name: the `vermagic` of `Lab3/3.2.1/wait_event.ko` is
`3.6.11-hzy+ preempt ... ARMv6`, that is **one core and a preemptible kernel**. Two things never run at the same
instant, but a process may be preempted by another, and interrupted by a handler and then a tasklet, between
any two instructions; a handler is not interrupted (`IRQF_DISABLED`), and a tasklet only by handlers.

## 1. Inventory

| Component | State | Operations | Talks to |
|---|---|---|---|
| asgn2 interrupt handler (`asgn_2.c:158-189`, `gpio.c:106-119`) | `circ_buffer` (buf, head, tail), static `half_byte`, `sig_flag` | `dummyport_interrupt`, once per half byte | schedules the tasklet; shares `circ_buffer` with it |
| asgn2 bottom half (`asgn_2.c:195-267`) | `page_queue`, `mem_list`, `num_pages`, `data_size`, `wait_flag` | `bottom_half`, a tasklet | takes from `circ_buffer`; wakes readers; shares all of its state with `read`, without locks (they are commented out) |
| asgn2 read (`asgn_2.c:273-390`) | the same, `null_flag`, `null_location` | `asgn2_read` | sleeps on `data_wq`; frees pages |
| asgn2 admission (`asgn_2.c:123-152, 398-431`) | `nprocs`, `max_nprocs`, `null_flag` | `asgn2_open`, `asgn2_release`, `asgn2_ioctl` | sleeps on `process_wq` |
| asgn2 load and unload (`asgn_2.c:460-582`, `gpio.c:121-160`) | registrations | init, exit, `gpio_dummy_init`, `gpio_dummy_exit` | everything above |
| asgn1 ramdisk (`asgn1.c`) | `mem_list`, `num_pages`, `data_size`, `nprocs`, `max_nprocs`, a position per open file, mappings | open, release, read, write, lseek, ioctl, mmap | processes share the pages, also through mappings |
| asgn1 load and unload (`asgn1.c:383-473`) | registrations | init, exit | |
| proc entries of both | none | print four variables | |
| Lab1 `my_cat` | a buffer | copy a file to standard output | |
| Lab3 `list`, `taints` | a list made once | load, unload | |
| Lab3 `seek`, Lab4 `seek` | one global buffer, a position per open file | load, unload, open, release, read, write, lseek | processes share the buffer |
| Lab3 `wait_event`, with `lab_miscdev.h` | the same, `data_ready`, a wait queue with exclusive waiters | load, unload, open, release, read, write | a read sleeps until a write wakes it |
| Lab4 mutexes and semaphores | one lock, exported by a module | load, unload | the others keep the lock while they are loaded |
| Lab4 `proc` | `param` | read, write | |

Behaviours that are hard to test, and what makes each component correct:

* *Interrupt handler and ring*: the halves belong together; the ring neither overwrites nor confuses full with
  empty, with the tasklet at any point in between.
* *Admission*: opens and closes interleave; the count must be exact, a sleeper must be woken, and a session must
  not see the end of the one before.
* *Bottom half and read*: every byte once, in order, across page ends, page freeing and sessions; nothing is lost
  when they overlap; a sleeping reader wakes; allocation fails; signals arrive.
* *Loading and unloading*: any step may fail; the interrupt comes from the middle of the load to the middle of the
  unload; nothing may be reachable before it is ready, and what was taken must be given back once.
* *Memory device of the exercises*: one pointer to the buffer and many opens; positions at the end of the device; a
  wake-up that goes to one waiter must not end with a process that does not use it.
* *Modules with a lock*: waits that signals end; a lock that is taken between its release and the turn of the waiter.
* *Ramdisk*: reads overlap writes, copies are cut by faults, memory runs out in the middle of a write, positions
  are moved behind the end, pages are mapped.

`PROJECT.json` lists the hazards one by one, at their lines.

## 2. The modules

| Module | Models | Correspondence |
|---|---|---|
| `ByteFifo` | abstract: a bounded FIFO | what the circular buffer promises |
| `BytePipe` | abstract: a pipe of bytes with sessions that end at a zero byte | what asgn2 promises |
| `ByteFile` | abstract: one file, several positions, partial reads and writes | what asgn1 promises |
| `TopHalf` | handler, ring and port | one action per path of the handler (`HighNibble`, `Store`, `StoreSpare`, `Drop`), an interrupt is one step |
| `Admission` | open, release, ioctl for any number of processes | `OpenCall` .. `OpenRefuse`, `ReleaseDec`, `ReleaseWake`: the steps between which another process may run |
| `Asgn2` | the whole of asgn2: extends the two above with the tasklet and one reading process | `BhEnter`, `BhCount`, `BhCopy`/`BhAllocFail`; `ReadCall` .. `StoreSize` in the order of the code |
| `Ramdisk` | the whole of asgn1 for any number of processes | one action per call or per part of a call that may be preempted |
| `Lifecycle` | init, exit and their failures, of both drivers, with `gpio.c` | a step of init or exit is an action by its kind (`Register`, `Initialise`, `Release`, ...); the order of the code is a sequence (`asgn2_init`, `asgn2_fail`, ...) |
| `LabDisk` | the memory device of Lab3 3.1.3, Lab3 3.2.1 and Lab4 4.1.2.2 | one action per call; `driver` says which of the three is loaded |
| `WaitEvent` | reads and writes of Lab3 3.2.1: extends `LabDisk` | the steps of a read (`WaitPass`/`WaitSleep`/`WaitAbort`, `ReadTake`, `ReadCopy`) and of a write (`WriteCopy`, `WriteRaise`, `WriteWake`) between which others run |
| `Locks` | the six modules of Lab4 4.1.1 and 4.1.2 | `Load` is `my_init` up to the lock, then the ways its wait may end; `MutexExit` and `SemaphoreExit` are `my_exit` |
| `TopHalfProofs`, `AdmissionProofs`, `Asgn2Proofs`, `RamdiskProofs`, `LifecycleProofs`, `WaitEventProofs`, `LocksProofs` | theorems about the module of that name (`WaitEventProofs`: also `LabDisk`) | section 5 |
| `QueueLemmas` | lemmas about sequences in which nothing stands twice | used for wait queues, the page list and the steps of init and exit |
| `MC...` | constants for TLC | |

`TopHalf` is used twice: by itself, with a tasklet that takes any number of bytes (`Tasklet`), and inside `Asgn2`,
where the tasklet is the real one. `Admission` likewise: by itself with three processes and a `ReadFindsNull` that
stands for what a read does to `null_flag`, and inside `Asgn2` with one process and the real read.

`Lifecycle` stands beside the modules of the running drivers: its interrupt and its tasklet keep of `TopHalf` and
`Asgn2` only that bytes wait in the ring, that the tasklet is pending, and that there are pages. Where two programs
are in one module (`asgn1` and `asgn2` in `Lifecycle`, three devices in `LabDisk`, two locks in `Locks`) a variable
that never changes says which one a behaviour is about.

### How a step is chosen

* *Asgn2.* A step of the reader is the code between two places where a tasklet run makes a difference. The tasklet
  runs to its end before the reader goes on, so it needs steps of its own only where an interrupt makes a
  difference: before and after `count` is taken. `num_pages--`, `tail_index -= freed` and `data_size -= ...`
  change variables that the tasklet changes too; each is a load and a store, two steps (`LoadNum`/`StoreNum`,
  `ReadHead`/`StoreTail`, `LoadSize`/`StoreSize`). `list_del` and `list_add_tail` are taken to be atomic, which they
  are not: what is claimed of overlapping runs (`asgn2_raw`) does not depend on it.
* *Ramdisk.* Each copy from or to the user is a step that moves any number of bytes of what is left of the page,
  as `copy_to_user` may; `num_pages++` and the last assignment of `data_size` are a load and a store.
* *`wait_event_interruptible`* queues the process before it tests the condition: testing and falling asleep are one
  step, and a wake-up makes the sleeper test again. A signal wakes it for good, as the drivers ignore the result.
* *`wait_event_interruptible_exclusive`*: as above; a wake-up takes the first waiter off the queue, and a waiter that
  gives up for a signal after it was woken wakes the next one.
* *Init and exit functions* run in a process and are interrupted between any two of their steps. When they end, what
  they have not given back goes to `stale`: the next load starts with new variables and cannot have an interrupt
  or a class of the same name; an interrupt or a tasklet of a module that is gone ends in an oops (`RunsGone`).
* *mutex and semaphore*: as in Linux 3.6. `up` hands the semaphore to its first waiter; `mutex_unlock` frees the mutex
  and wakes the first waiter, which competes with whoever comes, and tries before it looks at its signals.
* *An uninitialised variable* (`testpos` in an lseek with another origin) holds anything.
* *Memory never written* holds an arbitrary byte (`Garbage`).

The lines named in `PROJECT.json` under `map` are those each definition stands for. What is left out: messages,
formatting, error returns that change nothing (the checks of the ioctl command and pointer), and loops over pages
that do nothing with them.

### The regimes of `Asgn2`

The driver has no locks, and not much can be said of it when everything overlaps. What can be said is checked
separately from what it does when it is used as its author did, and the difference is a parameter:

* `Overlap` says what the port may interrupt: `"burst"`: the tasklet's wait for its turn (several bytes per run),
  `"tasklet"`: the tasklet (and its wait), `"reader"`: a read. The port then waits for whatever is not named.
* `NullSlots`: the places in a page where a terminator may fall.
* `CatReader`: the process reads until it gets 0 and then closes, as `cat` does; else it does as it likes.
* `ReadSizes`: the counts of its reads.

`asgn2_raw` has all overlaps and any behaviour of the reader. `asgn2_quiet` has none: a byte arrives when the
tasklet has dealt with the one before, and no byte arrives in the middle of a read; reads ask for more than is
there, as `cat` with its large buffer does, and terminators fall neither in the first nor in the last slot of a page.
Each of these conditions is there because the driver fails without it, and there is a run or a hazard that says so:
several bytes per tasklet run (`asgn2_wrap`), arrivals during a read (`asgn2_wake`; a tasklet between the
load and the store of `num_pages--`, hazard at `asgn_2.c:370`), reads that end
at the end of a page (`asgn2_page`), a terminator in the last slot (hazard at `asgn_2.c:292`: `head_offset` becomes
`PAGE_SIZE` and stays) or in the first (the read that finds it has `begin_offset == 0` and frees its page).

## 3. The runs

| Run | Instance | What it shows |
|---|---|---|
| `tophalf` | ring of 4 slots | bytes are assembled from their halves (`StoredIsSent`); the ring implements `ByteFifo` (`RingIsFifo`) |
| `admission` | 3 processes, signals, refused opens, limits 1 and 2 | `Accounting`, `SleeperHasWaker`, `FreshSession`; under fairness `SleeperWoken`, `FreeDeviceTaken` |
| `asgn2_raw` | ring 4, pages of 4 bytes, 5 bytes, 2 pages, failing allocation, signals, all overlaps | no terminator reaches the user, no user buffer overflows, the mark of a terminator stays at the head, the head stays in the first page, the ring stays a FIFO |
| `asgn2_quiet` | ring 4, pages of 4, 7 bytes of 3 values, 3 pages | asgn2 implements `BytePipe` (`ReadsPipe`), reads return 0 only at terminators, the tail and the size agree, nobody sleeps over data; under fairness everything is handed over |
| `ramdisk` | 2 pages of 2 bytes, a writer and a reader | asgn1 implements `ByteFile` (`RamdiskIsFile`), the size never exceeds the pages, no transfer stops short, opens are counted |
| `lifecycle` | both drivers, any number of loads, 2 bytes in the ring, 2 pages | nothing can be called before what it uses is ready (`ReachableIsReady`); an unload gives back what the load took, except for what the port does late (`UnloadReleases`); what each failed load leaves behind (`FailedLoadLeaves`) |
| `wait_event` | the 3 memory devices, 3 processes, a device of 2 bytes, 3 buffers, signals | positions stay in the device; which driver frees and uses its buffer rightly, and when the other does not (`MemorySafe`); no wake-up is lost but to a signal (`NoLostData`), under fairness data is taken (`DataTaken`) |
| `locks` | 3 modules, one of them careless, mutex and semaphore | one module at a time unless the careless one goes on without the lock (`OneAtATime`); under fairness a lock that becomes free is taken (`FreeLockTaken`) |
| `admission_max` | 3 processes | **violated**: two processes get in where one is allowed |
| `asgn2_wrap` | bursts | **violated**: the copy of a batch that wraps reads past the end of the ring |
| `asgn2_page` | reads of a page each | **violated**: a read that ends at the end of a page frees the unread next one |
| `asgn2_wake` | arrivals during a read | **violated**: a wake-up between the test and `wait_flag = 1` is lost |

The violated properties state what comments of the code say; each is a finding in `PROJECT.json`.

### What else the code does not do

Where the code falls short in a way that leaves something to rely on, the property of a passing run names the
exception:

* An open that is refused (`asgn_2.c:133`) stays counted, and the device is locked for good: `leaked` in `Accounting`.
* A session that was read to its end before its terminator came ends twice: a read whose first byte is a terminator
  does not pass it (`asgn_2.c:311, 389`); `EofAtTerminator` allows for it.
* A load of asgn2 whose last step fails leaves its interrupt requested (`asgn_2.c:540-548`): the next byte from the port
  calls a handler that is no longer there, and the class that stays makes every later load fail. `FailedLoadLeaves`.
* A load of asgn1 whose first step fails deletes a cdev that is not there (`asgn1.c:450`). `FailedLoadLeaves`.
* asgn2 frees its pages before its interrupt (`asgn_2.c:571, 576`), and never kills the tasklet: bytes that arrive in
  between leave pages or a pending tasklet behind. `UnloadReleases`.
* asgn2 frees its pins while it uses them and again at the unload (`gpio.c:150, 158`). `UnloadReleases`.
* The seek driver of Lab4 frees its last buffer at the close and again at the unload, loses the one of its load, and
  with two opens frees one twice (`seek.c:58, 70, 175`). `MemorySafe`.
* A reader of `wait_event` that a write has woken and that a signal meets on its way out returns without the data, and
  the others sleep on although it is there (`wait_event.c:74`): `swallowed` in `NoLostData` and `DataTaken`.
* `lab1_mutex2` loads without the mutex after a signal, and unlocks at its unload what another may hold
  (`lab1_mutex2.c:43, 54`): `unlocked` in `OneAtATime`.

### Bounds

* Ring: 4 slots is the smallest power of two that lets head and tail wrap with more than one byte stored. The
  theorems are for every size.
* Pages of 4 bytes (asgn2) and 2 bytes (asgn1): at least as long as the ring where a batch must touch two pages at
  most (true of 1024 and 4096), long enough to begin, end and stop inside a page. `SIZE_RANGE` 32 stands for 2^32:
  more than is ever stored, so that a difference below zero wraps to something large.
* `MaxBytes`: 5 bytes fill a page and begin the next (`asgn2_raw`), 7 fill three parts of pages over several sessions.
* `MaxPages` is the memory of the machine: reaching it is an allocation failure.
* `asgn2_raw` has terminators in the first and last slot of a page; `asgn2_quiet` in the two others.
* `MaxLeaked` bounds the refused opens of `admission`; the value of `leaked` is a ghost.
* Bytes: a zero, and values whose two halves differ, so that swapped halves show; `ramdisk` has one value for stores
  through mappings, another in buffers, a third for memory never written.
* `ramdisk` has one writer (`Writers`): with two the last step of a write may store the smaller of two sizes. The
  theorems planned for the size and the pages do not need it. An open for writing only frees the pages only while
  no other process is inside a call or has a mapping (`Undisturbed`), as nothing can be said of freed pages.
  Mappings begin at offset zero. A write of nothing behind the end makes the file longer, in `ByteFile` as in the code.

* `lifecycle`: two slots and two pages, so that a byte can come before and after each step and the tasklet can find
  the ring empty, filled, or no memory.
* `wait_event`: three processes, so that a write meets a reader asleep and another that arrives. Transfers of 1 and 3
  on a device of 2 begin and end at its end and past it; offsets of lseek reach one beyond either end. Three buffers
  are the one of the load and one for each of two opens. Memory is not followed beyond its first misuse.
* `locks`: with a module that holds the lock, one that waits and one that arrives, a woken waiter can find the mutex
  taken. The careless one is `lab1_mutex2`; a third module is a copy of `lab1_mutex3` under another name.

### Fairness

`Admission`: weak fairness of the steps inside `open` and `release` (a process in the kernel runs on), and of the
close (the kernel closes files of a process that ends). Nobody is made to open. `Asgn2`: weak fairness of the
tasklet (a pending softirq runs), of read, open and close (the process is `cat` in a loop). The port is not fair: it
may fall silent, and then `AllHandedOver` speaks. `WaitEvent`: weak fairness of the steps inside a read or a write
that do not sleep; nobody has to read or write, and no reader is promised the data of its turn (another may take it).
`Locks`: weak fairness of the try of a woken waiter; nobody has to unload a module. `TopHalf`, `Ramdisk` and `Lifecycle`
state no liveness.

## 4. Deadlock

Checked in `tophalf`, `admission`, `asgn2_raw`, `ramdisk` and `locks`. `lifecycle` stops at an oops; `wait_event` stops
when a driver was not loaded, was unloaded or misused memory, and may have all its readers asleep. In `asgn2_quiet` and the violation runs of
`Asgn2` the port may have sent all it is allowed to while the reader sleeps, which is a state without successor
and not a fault.

## 5. What is proved

For every value of the constants that satisfies the named assumptions:

* `TopHalfProofs`. From `BUF_SIZE >= 2` and bytes in `0..255`. The inductive invariant `TopInv` adds to the types
  that between the two halves `half_byte` holds the high half of the byte being sent and nothing else. It gives
  `TopTypeCorrect`, `HalvesAssembled` (`StoredIsSent`) and `RingRefinesFifo` (`RingIsFifo`): a store is `Put`,
  a run of the tasklet `Take`, everything else a stutter. The lemmas are about remainders (the ring's arithmetic) and
  about the two halves of a byte.
* `AdmissionProofs`. From a finite set of processes. `AdmInv` is the type, `Accounting`, `SleeperHasWaker` and
  `FreshSession` together: a sleeper's waker is known from the count, so the count must be exact. It gives
  `AdmTypeCorrect`, `AccountingHolds`, `NoLostWakeUp` and `SessionsSeparate`.
* `RamdiskProofs`. From a finite set of processes, a page of at least one byte and buffers of bytes; any number of
  writers, while the run has one. `RamInv` adds to `SizeInPages` and `OpensCounted` what each call under way relies
  on (`CallInPages`): a page count loaded but not yet stored is of pages that exist, the rest of a copy lies within the
  list, and so does the size a write is about to store. Those bounds survive the steps of every other process
  because the list only grows under a call (`DiskStep`); it is freed by an open for writing, where the model requires
  (`Undisturbed`) that no call is under way and nothing is mapped. The code does not make sure of that: the theorems
  hold of uses that do. It gives `RamTypeCorrect`, `DiskWithinPages`, `OpensAreCounted` and `TransfersComplete` (a copy
  stops only when nothing is left: `ChunkOfLeft`).
* `RamdiskProofs`, the file. With `OneWriter` (of two the later may store the smaller size, hazard at `asgn1.c:268`) and any
  number of readers, `FileInv` adds to `RamInv` what a call relies on of `data_size`: a read that has begun stays below it
  because only the writer moves it, and never back (`FileFrame`), and a write that is about to store it has loaded what
  it still is. `SizeIs` says what the size of the file is while a write has copied bytes it has not yet counted, and
  `CopiedByte` what a round of the copy leaves at each place, by the arithmetic of pages (`PlacesOfPage`). It gives, step
  by step, `DiskIsFile`: the ramdisk implements `ByteFile` (`RamdiskIsFile`). A round of a copy is a `Read` or a `Write`, the
  store of `data_size` a `Write` of nothing more, a store through a mapping a `Store` or, beyond the end of the file, a
  stutter. `MCRamdisk` makes TLC confirm that the run has one writer.
* `Asgn2Proofs`. The whole driver, from the assumptions of `TopHalf` and `Admission`, one reading process, pages at
  least as long as the ring (`PageAssumption`), a `size_t` of any width (`SizeRangeAssumption`), counts that fit it
  (`ReadSizesAssumption`) and memory that holds bytes (`GarbageAssumption`); for every `Overlap`, `NullSlots`, failing
  allocation and signal. `Asgn2Inv` is `TopInv`, `AdmInv`, the five invariants of the run and what they need to survive
  each other's steps: `BatchInRing` (what the tasklet has counted stays in the ring while interrupts come, so that
  taking it is a `Take`), `ReadOK` (the local variables of a read at each of its places, above all that the page it
  frees is there), and `MarkOK`: `null_location` is -1 from the call of a read until it is set at its end, and never
  `PAGE_SIZE`. Without the last part `MarkAtHead` is not inductive: a head that was carried to `PAGE_SIZE` by a
  terminator in the last slot (hazard at `asgn_2.c:292`) could meet a mark there. It gives `Asgn2TypeCorrect`,
  `TerminatorsKept`, `UserBufferSafe`, `MarkFollowsHead` and `HeadStaysInFirstPage`; and that the composition is
  faithful to its parts: `DriverRingRefinesFifo` (`RingIsFifo` with the real tasklet) and `DriverRefinesAdmission` (the
  driver implements `AdmSpec`).
* `WaitEventProofs`. From a size that is a natural number, for any processes, buffers, counts and offsets. `MemorySafe`
  speaks of the end of a driver's life; `DiskInv` says for each phase (`AbsentOK`, `FailedOK`, `LoadedOK`, `UnloadedOK`)
  which buffers are allocated, and for the driver with a buffer per open that two openers have not met. `WaitInv` is
  `NoLostData` with the queue of the readers: exactly those asleep, none twice. It gives `PositionInDevice` (`DiskTypeOK`),
  `DeviceMemorySafe` and `NoWakeUpLost`.
* `LocksProofs`. For any set of modules, any of them careless, with either lock. `OneAtATime` alone does not survive an
  unload; `LockInv` adds that a taken lock has a holder (`TakenIsHeld`), that only the holder lives until somebody went on
  without the lock (`OnlyHolderLives`), that a semaphore never leaves a woken waiter behind (`SemaphoreHandsOver`) and
  that a free lock with waiters has one that was woken (`FreeLockHasTaker`). It gives `LocksTypeCorrect`,
  `OneModuleAtATime`, `SemaphoreAlwaysExcludes` and `FreeLockNotForgotten`, the safety half of `FreeLockTaken`.
* `LifecycleProofs`. For any sizes of ring and memory. The steps still to do are a tail of the plan that the phase
  follows; the invariant names the place in it and says what the steps before it have obtained (`LoadingOK`), left
  held (`LiveOK`), given back (`UnloadingOK`) or unwound (`UnwindingOK`), and that the ramdisk has no port (`NoPort`). The
  lemmas compute, from the sequences of the code, what is done when a step is next (`InitOrder`, `ExitOrder`, `FailOrder`).
  It gives `LifeTypeCorrect`, `NothingReachableTooEarly` (`ReachableIsReady`), and the action properties
  `UnloadLeavesNothing` (`UnloadReleases`) and `FailedLoadLeavesLittle` (`FailedLoadLeaves`).

* `Asgn2Proofs`, the quiet driver. `QuietDriver` puts the conditions of `asgn2_quiet` into a formula: no overlap, memory
  lasts, no signals, the reader is `cat`, terminators in neither end slot of a page, reads that ask for all there is, and
  fewer bytes in all than `size_t` can count and the machine can hold. `MCAsgn2Quiet` makes TLC confirm that the instance of
  the run satisfies it. From it, for every size of ring and page, `QuietInv` is inductive beside `Asgn2Inv`. Its parts:
  `PortOK` (one byte at most is on its way), `SizeOK` (`data_size`, `num_pages`, the tail, the list and what a read has
  loaded but not stored agree), `NullsOK` (terminators in the pages are where the port puts them), `SessionOK` (a mark, and
  `null_flag` in a read, mean that the next byte is a terminator) and `LoopOK` (the loop of a read stays in the first
  page and does not leave before all is read or a terminator is met). It gives `QuietNumbers` (`TailMatchesSize`),
  `QuietSleep` (`NoSleepOverData`), `QuietEof` (`EofAtTerminator`) and, step by step over what the pages hold as one sequence
  (`BytesIn`), `QuietPipe`: the driver implements `BytePipe` (`ReadsPipe`). A run of the tasklet moves the byte from the ring
  to the pages and is a stutter of the pipe (`BytesInAdd`), so is the freeing of a page (`BytesInShift`), a round of
  the loop delivers what it copies (`BytesInPass`).

Only model-checked: everything that must happen in the end (`SleeperWoken`, `FreeDeviceTaken`, `AllHandedOver`, `DataTaken`,
`FreeLockTaken`): liveness under fairness is out of the prover's reach.


## 6. Not modelled

* The proc entries of both drivers and Lab4 `proc`: they format or parse variables and change nothing else.
* `list`, `taints`: one thread, once. `my_cat`: one thread; after a short write its inner loop never ends
  (`my_cat.c:40` compares the last write with the whole read), which needs no model to see.
* `mmap_test`, `seek_test`, `write_test`, `read`, `write`: clients. What they expect of the drivers is stated as
  properties of the drivers.
* `lab_char.h` (included by nothing), `mycdrv_generic_lseek` (in no `file_operations`), `4.1.2/lab1_mutex3.c` (not
  built), `setgpiofunc` and `gpio_outw` (not called).
* Results the code does not test: `cdev_alloc`, `gpiochip_find`, and `kmalloc` of the memory devices succeed in the models.
* Reads and writes at a position of their own (`pread`, `pwrite`) beyond the end of a memory device, where
  `maxbytes > lbuf` compares a negative number as an unsigned one (`seek.c:79`).
* What the kernel does with a tasklet that sleeps in `GFP_KERNEL`; the inside of list operations; uses of freed pages;
  several readers of asgn2 at once (admission lets them in by the race of `admission_max`).
* Generated files (`*.mod.c`, `*.cmd`) and editors' copies (`*.c~`).

## 7. Plan

Done: the invariants and action properties that the passing runs check, and the refinements of `ByteFifo`, `BytePipe`,
`AdmSpec` and `ByteFile`, are theorems. Left: a weaker promise for the ramdisk with two writers, and one for asgn2 under
overload (terminators that meet a full ring).
