# A verification project for SENG21213-OS

SENG21213-OS is a teaching kernel for 32-bit x86: a boot loader, a preemptive
round-robin scheduler for processes and kernel threads, mutexes and counting
semaphores, a physical memory manager, a RAM disk file system and a shell whose
commands demonstrate them. These TLA+ modules model its logic; TLC checks
them on small instances and TLAPS proves theorems about them for every size.
Paths such as `kernel/mutex.c` are relative to the repository.

## 1. Inventory

| Component | State | Operations | Interacts with |
|---|---|---|---|
| Process table (`kernel/process.c`) | `pcb_table`, `current_proc`, `next_pid` | `proc_create`, `proc_exit`, `proc_kill`, `proc_current` | scheduler (run queue, yield), shell (`kill`, `ps`) |
| Thread table (`kernel/thread.c`) | `thread_table`, stacks, `current_thread`, `next_tid` | `thread_create`, `thread_exit`, `thread_return` | scheduler, demos |
| Scheduler (`kernel/scheduler.c`, `boot/switch.asm`) | two circular run queues, `current`, `current_sched_thread`, `current_kind`, `prefer_thread` | `scheduler_irq` from IRQ0 (100 Hz) or `int 0x20`; add, block, unblock | both tables; every context it interrupts |
| Mutex (`kernel/mutex.c`) | `locked`, `owner`, waiting list through `thread->wait_next` | `mutex_lock`, `mutex_unlock` | scheduler (block, yield, unblock) |
| Semaphore (`kernel/semaphore.c`) | `value`, waiting list | `sem_wait`, `sem_signal` | scheduler |
| Demonstrations (`kernel/kernel.c`) | `myglobal`, `mutex_done`, `race_done`, the bounded buffer, `sem_done` | `race`, `mutexdemo`, `semdemo`, `threads` | threads, mutex, semaphores; the shell waits for counters |
| Physical memory (`kernel/pmm.c`) | frame bitmap, total and free counts | init from the E820 map, alloc, free | boot loader's table, `meminfo` |
| File system (`kernel/fs.c`) | block bitmap, inode table, one directory block, open files | create, open, close, read, write, unlink | shell commands `touch`, `cat`, `write`, `rm`, `ls` |
| Console (`kernel/vga.c`) | screen, cursor, colours | `vga_putchar`, scroll, clear | everybody who prints |
| Keyboard (`kernel/keyboard.c`) | `shift_held`; the caller's line buffer | `kb_getchar` (polls the controller), `kb_readline` | shell; echoes through the console |
| Shell (`kernel/kernel.c`) | command line | the command loop | all of the above |
| Strings, boot loader, build files | – | – | – |

There is one CPU and no lock beneath the mutex: no function but the boot code
ever disables interrupts, so IRQ0 may interrupt a process or a thread between
any two instructions and dispatch another context. The interrupt handler
itself goes through an interrupt gate and is atomic.

What is hard here:

* every operation on shared state outside `scheduler_irq` can be preempted in
  the middle (mutex, semaphores, `done++`, `thread_create`, the console);
* the scheduler's books (who runs, where frames are saved) must follow the CPU
  through yields by contexts that have just blocked, exited or been killed;
* both run queues keep dead entries for ever, and tables have a fixed size;
* shells and demos wait for each other in loops that must end;
* the file system and the memory manager have bitmaps, counters and tables that
  must agree after any sequence of calls, including those that fail midway.

What makes each component correct:

* *scheduler and tables*: frames are saved into their own entries, one context
  is RUNNING and it has the CPU, the queues hold every entry once, nobody READY
  starves, nobody dead returns;
* *mutex*: one thread inside, the owner is awake, a sleeper is reachable by the
  unlock that must wake it, order of arrival, no update lost, demos complete;
* *semaphore*: the value counts units, nobody sleeps beside a free unit, the
  buffer stays within bounds;
* *memory manager*: no frame is handed out twice, counters equal the bitmap,
  reserved memory is never handed out;
* *file system*: every block and inode belongs to at most one file, names
  are unique, descriptors refer to live files, a file returns what was written;
* *console*: whoever prints, the cursor comes back to the screen;
* *keyboard*: a line holds what was typed less what was erased, within its
  buffer, and a shift key never stays down by itself;
* *race*: it has no lock and may lose updates, but not all of them.

`PROJECT.json` lists the hazards at their lines with the properties that cover
them. Several are interruptions at a line where the code cannot bear one; two of
them have a run that shows what goes wrong (findings 1 and 2), for the others,
which no property of the code as it is can cover, a note says what happens.

## 2. Modules

| Module | Models | Role |
|---|---|---|
| `Dispatch` | – | abstract: contexts that share a CPU |
| `Scheduler` | `process.c`, `thread.c`, `scheduler.c`, `switch.asm` | tables, run queues, `scheduler_irq` and everything that changes them; implements `Dispatch` |
| `SchedulerProofs`, `DispatchProofs` | – | theorems about `Scheduler` |
| `FifoLock` | – | abstract: a first come, first served lock |
| `WaitQueue` | the waiting lines in `mutex.c` and `semaphore.c` | enqueue-and-block, dequeue-and-wake, one action per access to shared memory; extends `Scheduler` |
| `Mutex` | `mutex.c` | lock word and owner around `WaitQueue` |
| `MutexDemo` | `mutex_thread`, `cmd_mutexdemo` in `kernel.c` | workers and shell, composed with `Mutex` and `Scheduler`; implements `FifoLock` |
| `QueueProofs` | – | lemmas about the waiting lines of `WaitQueue` |
| `MutexProofs` | – | theorems about `MutexDemo` on `Mutex`, `WaitQueue` and `Scheduler` |
| `FifoSemaphore` | – | abstract: a first come, first served counting semaphore |
| `Semaphore` | `semaphore.c` | the value around `WaitQueue` |
| `SemDemo` | `sem_producer`, `sem_consumer`, `cmd_semdemo` in `kernel.c` | the bounded buffer, composed with `Semaphore` and `Scheduler`; each of its three semaphores implements `FifoSemaphore` |
| `SemProofs` | – | theorems about `SemDemo` on `Semaphore`, `WaitQueue` and `Scheduler` |
| `FrameAllocator` | – | abstract: frames with at most one holder each |
| `Pmm`, `MCPmm` | `pmm.c` | `pmm_init` over any memory map, first fit, `pmm_free_frame`; implements `FrameAllocator` |
| `PmmProofs` | – | theorems about `Pmm` |
| `FileStore` | – | abstract: named files that hold what was written, within limits |
| `FileSystem`, `MCFileSystem` | `fs.c` | disk structures, descriptors and every call of `fs.h`; implements `FileStore` |
| `FileSystemProofs` | – | theorems about `FileSystem` |
| `FsShell`, `MCFsShell` | `touch`, `rm`, `write`, `cat` in `kernel.c` | the commands as sequences of calls |
| `Console` | `vga.c` | the cursor, one action per access to its two words |
| `LineEditor` | – | abstract: typed and erased characters, and the line that results |
| `Keyboard` | `keyboard.c`, and a user at the keys | `kb_getchar`, `kb_readline` over `Console`; implements `LineEditor` |
| `ThreadDemos`, `MCThreadDemos` | `shell_run`, `threads`, `race` in `kernel.c` | shell and threads that share the console and a counter without a lock; composes `Keyboard` and `Console` |
| `ConsoleProofs` | – | theorems about `ThreadDemos` |

### Scheduler

`cpu` is the one variable with no counterpart in C: the stack the processor is
really on. A saved frame is represented by the context whose stack it lies on
(`pesp`, `tesp`), so a frame stored in the wrong entry is visible. A circular
list is the sequence of its members from the head; `tailOpen` is the moment in
`scheduler_add_thread` when the last thread is linked while its own `next` is
still 0, and `Visit` ends the walk there, as the C loop does. `SchedulerIrq` is
the whole handler: save, RUNNING to READY, choice by `prefer_thread`, books,
switch. `thread_create` is three actions (`AllocThread`, `LinkThread`,
`CloseRing`), the steps the scheduler can tell apart; every other operation
changes one word that the handler reads and is one action. A context that has
left RUNNING (blocked, exited, killed) can do nothing but yield or be
interrupted, which is the next thing each of these functions does; that it is
indeed never resumed is a property, `IrqLandsOnRunnable`, and a theorem.

Left out: tick counters, names, tids, entry points, the programming of IDT, PIC
and PIT. Pids are as in the code: dense from 1 and given only at boot, so the
width of `next_pid` plays no part.

### WaitQueue, Mutex and MutexDemo

`mutex_lock` and `mutex_unlock` are one action per load or store of shared
memory, in the order in which the code makes them; `pc[t]` is the step thread
`t` executes next, and `Tick` may come between any two. A queue pointer loaded
into a register before it is used is `loaded[t]`. The workers, the shell's
loop and the non-atomic `mutex_done++` are modelled in the same way.

The code never disables interrupts, so `Tick` may come before any step. At some
steps the code cannot bear it. The history variable `struck` records that it
has happened: an interrupt found the thread on the CPU at one of the steps in
`Windows`, or the command was typed again while a thread of an earlier call, one
that gave up, was still `AtWork` with the mutex. No guard reads `struck`; the
properties of these modules say what holds of the code until then (`~struck`).

The stores of the shell before it creates threads are steps of their own, those
of `mutex_init` and `sem_init` included (`StartDemo`, `ClearDone`, `InitTheMutex`,
`InitSemaphores`). `StartDemo` makes the first of them; what it resets besides,
`created` and `consumed`, is local to the call or history.

`mutex.c` and `semaphore.c` keep their waiting lines with the same statements,
so `WaitQueue` has these once, as functions over the queues: the link
`wait_next` belongs to the thread and is one variable whatever it waits for.

### Semaphore and SemDemo

`sem_wait` and `sem_signal` are modelled in the same way. A worker's `Calls`
are the two semaphores of its round, in the order in which the source takes
them and gives them back. `buffer_count` is loaded and stored in separate steps;
it is also the index at which an item is put and from which it is taken, so
the model's buffer is as large as the array and an index outside it would show.

### Pmm

The bitmap is the set of the frames whose bit is 1. The memory map is any
sequence of entries of `MapEntries`: each `FreeRegion` is one turn of the loop
in `pmm_init`, `ReserveLow` what follows it. `Called` says what callers do:
they free a whole frame they hold (`meminfo` does) or call with an address that
`pmm_free_frame` is written to refuse. `ram` is history: the bytes of the usable
entries. Left out: entries above 4 GB, which the code skips, and the
clipping of an entry that crosses that limit, far above `PMM_MAX_FRAMES`.

### FileSystem and FsShell

Only the shell calls the file system, so no context interleaves with a call and
a call is one action; only the loop of `fs_write`, which may stop midway, is one
action for each turn (`WriteInPlace`, `WriteNewBlock`, `WriteReturns`), with `call`
for its locals. `reply` is what the last call returned, with the bytes read. The
bitmaps are sets of the bits that are 1; searches take the first match, as
the loops do; what an unlink leaves in inodes and blocks stays there. The model's
callers may have several descriptors, also of one file, which the shell never
does; like the shell they do not remove a file that is open (`NotOpen`). A call
that fails leaves everything as it was but for `OpenNewFails`, which has already
created the file. Names are compared, never looked into: `BadNames` are those
that `fs_create_file` rejects for their length.

In `FileStore` a file is a sequence of bytes, a write moves parts of its text
into the file and returns when nothing is left or the next byte no longer fits,
and the space taken is the set of units the bytes of the files are in.
`FsShell` is the commands of the shell over these calls.

### Console, Keyboard and ThreadDemos

The compiled `vga_putchar` loads `cursor_row` and `cursor_col` once each and
stores each at most once; those four accesses and `scroll_up` are the steps of
`PutChar`, with the values between them in the registers `row` and `col` of the
caller. Strings are sequences of classes of characters, the ones `vga_putchar`
and `kb_readline` tell apart. What the cells hold and their colours are left out.

`GetChar` is one turn of the loop in `kb_getchar`: it takes one scan code,
follows the shift keys and translates by `sc_ascii` and `sc_ascii_shift`, in which
the keypad has no shifted characters. The user, the keys and the controller's
queue are external: `Press` and `Release` in any order a keyboard can send.
`TestRoom` to `EndReadLine` are the turns of `kb_readline`; each waits until the
echo of the one before is printed.

`ThreadDemos` adds the shell's loop with the commands `threads`, `race` and
`clear` (any other command is a message, `OtherCommand`) and the threads of the
two demonstrations. Any live context may make the next step: the order
is the scheduler's, and that it reaches everybody is `sched`'s subject.
`race_thread`'s update is a load, a yield and a store, and `race_done++` a load
and a store.

## 3. Runs

| Run | Module | Expect | Shows |
|---|---|---|---|
| `sched` | `Scheduler` | pass | type, books, frames, one RUNNING, queues, shell alive, no resumption of the dead, refinement of `Dispatch`; no READY process or thread starves |
| `mutex_safe` | `MutexDemo` | pass | until a window is hit: mutual exclusion, ownership, no lost wake-up, right total, refinement of `FifoLock` |
| `mutex_live` | `MutexDemo` | pass | if no window is hit: sleepers get in, demos complete |
| `mutex_race` | `MutexDemo` | violation | the code: two threads inside (finding 1) |
| `sem_safe` | `SemDemo` | pass | until a window is hit: the buffer within bounds and used by one at a time, no sleeper beside a free unit, every item extracted once, refinement of `FifoSemaphore` |
| `sem_live` | `SemDemo` | pass | if no window is hit: producers and consumer never wait for each other for ever |
| `sem_lost` | `SemDemo` | violation | the code: an item extracted twice, another never (finding 2) |
| `pmm_safe` | `MCPmm` | pass | counters equal the bitmap, only usable memory handed out, refinement of `FrameAllocator` |
| `pmm_kernel` | `MCPmm` | violation | frames of the kernel's own image are handed out (finding 3) |
| `fs_safe` | `MCFileSystem` | pass | every block and inode has one owner, names are unique, sizes match blocks, statistics are accurate, descriptors refer to files; refinement of `FileStore` |
| `fs_append` | `MCFsShell` | violation | the second `write` to a file replaces its beginning (finding 4) |
| `console` | `MCThreadDemos` | pass | the cursor is below the screen only while somebody is about to scroll; shift follows the keys; what `race` reports lies between 2 and the right total; refinement of `LineEditor` |

**Bounds.** `sched` has 4 process and 4 thread slots with 3 processes
created: a free slot, dead and live entries on both queues, and rings long
enough to have a first, a middle and a last member.
`mutex_safe` has three workers, the least with which a thread queues up behind
another (`loadTail`, `linkTail`, a dequeue that leaves somebody in line), and two
rounds each, so that a thread comes back for a mutex it has released. It has four
slots: a second call of the command gets one thread and gives up while that
thread runs on. `mutex_live` has two workers, as in the source, and three slots,
so that a second call gives up in the same way and a third, typed once the
thread it left has finished, gets none. `RaceIterations` is 2 for 1000: a
round starts in the same state as the one before but for the total.
`sem_safe` has the two producers and the consumer of the source, two items for
each producer and a buffer of two, so that producers block on a full buffer,
the consumer on an empty one, and all three meet at `buffer_mutex`; `sem_live`
has one item each and a buffer of one, the smallest in which each semaphore
still has a sleeper. Both have one slot more than workers, for a second call that
gives up. Both have the shell as the only process: the other three
only take turns, which `sched` covers. `sem_lost` needs one producer
only. `pmm_safe` has eight frames of four bytes and six entries, alone and in
any order and overlap: one in low memory, one that begins and ends within
frames, two that overlap, an empty one, one that is not usable, and one that
ends beyond the last frame. `fs_safe` has two data blocks of two bytes, files of
at most two blocks, two directory entries, three inodes (as in the code, more
than entries) and two descriptors; a text fills a block, or one and a
half. So a file gets blocks out of order, a write ends at the last pointer or
on a full disk after part of its text, and both descriptors may refer to one
file. The two names are symmetric; no property of the run is a liveness property.
`console` has a screen of two rows of two columns, so that the second letter of
any text ends a line, a tab jumps to the end of one, and two contexts can each
store the row after the last. The buffer holds two characters and the NUL, so a
line fills up, and it can be erased and typed again. The three `Users` split the
behaviours: one has every key and types up to two scan codes ahead (a press
before a release that is still unread) but starts no thread; one starts
`threads`, one `race`, in a table of two slots, so that the second call fails and
its message is printed among what the first one's threads print. Texts are
one letter, of which several contexts print several. `RaceIterations` is 3, the
least with a first, a middle and a last round.

**Fairness.** The PIT interrupts for ever (`WF` of the tick); the boot code
runs with interrupts off (`WF` of boot). A program's step has strong fairness:
the context is dispatched again and again (that is `ReadyThreadRuns` and
`ReadyProcessRuns`, checked without that assumption), and a time slice of 10 ms
executes far more than one instruction, so a context cannot be preempted at the
same instruction for ever. Nothing is assumed about which context runs next,
about users, or about threads that yield, block or exit.

The liveness runs of the demonstrations use `CalmSpec`, the behaviours in which
nothing is ever struck: an interrupt that would fall into a window comes an
instruction later, so the ticks outside the windows are the fair ones
(`WF` of `Calm(Tick)`). In other behaviours the demonstrations need not complete
(finding 1). The safety runs use `Spec` and stop following a behaviour when it is
struck (`CONSTRAINT NotStruck`), where their properties say nothing more.

**The windows of the mutex.** Taking any one step out of `Windows` gives a
violation of a passing run. An interrupt before any other step leaves all the
properties intact:

| Step | Window in the code |
|---|---|
| `setLocked` | between test and set of `locked` (mutex.c:46-47) |
| `testOwner`, `testQueue`, `setHead`, `setTail`, `block` | from finding it locked until the caller is BLOCKED (mutex.c:46-75) |
| `loadTail`, `linkTail` | linking behind `wait_tail` (mutex.c:68), three threads needed |
| `clearLocked`, `clearOwner` | between "no waiter" and the owner's reset (mutex.c:106-108) |
| `setNewHead`, `clearTail` | the dequeue (mutex.c:116-119), three threads needed |
| `storeDone` | `mutex_done++` (kernel.c:514) |

One thing more breaks the mutex without any of these windows. A call of
`mutexdemo` that finds too few free slots gives up, its threads run on, and the
next call initialises the mutex they use by four stores (mutex.c:23-26). A thread
that locks after `locked = 0` loses its ownership to `owner = 0`; its
`mutex_unlock` returns at the owner check, and its next `mutex_lock` sleeps for
ever. `StartDemo` records such a call as struck, whenever it comes. The
same holds for `sem_init` (semaphore.c:23-25). With 16 slots it takes an odd
number of threads from other commands before `mutexdemo`; the sixth
call of `semdemo` gets one thread, and a seventh while that one is at work.

**The windows of the semaphore** are found in the same way, but for `clearTail`:
there it takes a buffer of at least four cells (the source has five), with which
a thread can join a line again while two others still hold units.

| Step | Window in the code |
|---|---|
| `takeUnit` | between the test of the value and its decrement (semaphore.c:45-46) |
| `testQueue`, `setHead`, `loadTail`, `linkTail`, `setTail`, `block` | from finding no unit until the caller is BLOCKED |
| `loadNext`, `setNewHead`, `clearTail` | the dequeue; at `loadNext` two signals take out the same thread |
| `addUnit` | between "no waiter" and the increment |
| `storeDone` | `sem_done++` (kernel.c:625, 652) |

### Findings

1. `mutex_race`: kernel.c:486 says "The mutex ensures only one thread modifies
   myglobal at a time." A thread preempted between mutex.c:46 and 47 enters with
   the one that takes the mutex meanwhile. (For the same reason
   `mutexdemo` may not complete, against README.md:510: a wake-up or an
   increment of `mutex_done` is lost and the shell's loop never ends.)
2. `sem_lost`: README.md:517 says "All 10 items produced and consumed without
   corruption, buffer count = 0 at end". `sem_wait` tests the value (semaphore.c:45)
   and decrements it later: producer and consumer take the same unit of
   `buffer_mutex` and update `buffer_count` together.
3. `pmm_kernel`: README.md:243 says "Reserves first 1 MB for BIOS, bootloader,
   kernel, stacks" (pmm.c:97 alike), but the kernel is linked at 0x10000 with a
   RAM disk of 1 MB in its .bss, so it ends above 0x110000, and the first frames
   `pmm_alloc_frame` returns are part of it. (`meminfo`, the only caller, does not
   write to them. For the same reason the RAM disk lies across 0xA0000-0xFFFFF,
   video memory and ROM, which is outside these models.)
4. `fs_append`: README.md:413 says of `write` "Creates file if it doesn't exist,
   appends if it does". `fs_open` starts at offset 0 (fs.c:326), so a second
   `write` overwrites the beginning and leaves the rest of a longer file behind.
   (README.md:447 shows "Free inodes : 1023" with one file, where `fsstats` prints
   1022; README.md:464 gives 1024 files as the limit, where the directory block
   ends at 128.)

Not a finding: README.md:515 expects the value of `race` to be "significantly
less than 2000". `RaceTotalInRange` bounds what can happen, which includes that no
update is lost; kernel.c has a message for that case too.

## 4. Proofs

`SchedulerProofs` and `DispatchProofs` are checked by TLAPS for every
`MaxProcesses`, `MaxThreads` and `BootProcesses` that satisfy
`SchedulerAssumption` (naturals; 1 <= BootProcesses <= MaxProcesses).

* The inductive invariant is `IInv`: the six invariants of `sched` and
  three more facts. `CurrentIsQueued` (what `current` and
  `current_sched_thread` name is on its queue, so the walks start on the ring),
  `BootOrder` (pids are given in the order of slots, the shell's first, and all
  processes are on the queue when interrupts come on) and `CreationOrder` (the
  thread that `thread_create` is busy with is READY, belongs to the caller, is
  not yet linked before `LinkThread` and last in the ring after it).
  The six are not inductive alone: a dispatch keeps `FramesAreOwn` only because
  the books match the CPU, the shell is found only because it is on the queue,
  and the queue has no repetition only because of the order of creation.
* One lemma per action shows that it preserves `IInv`; the handler is split into
  run thread, run process, continue.
* `YieldIsFinal` and `DeadNeverReturn` are the two action properties, from `IInv`.
* `SchedulerImplementsDispatch` maps each action to a step of `Dispatch` or a
  stutter under the refinement mapping of `Scheduler`.

`PmmProofs` is checked for every `MaxFrames`, `LowFrames`, `FrameSize` and every
set of map entries that satisfy `PmmAssumption`.

* Its inductive invariant is `PmmTypeOK` with `Marks` (a frame handed out has
  its bit set and is not low memory), `Counts` (`total_frames_count` is the
  clear bits plus the frames handed out) and `InsideRam`. `CountersAreExact` is
  not inductive: while the map is read it says nothing, and the total it needs
  then is what `Counts` adds.
* `RegionIsInside` is the rounding argument: the frames between the rounded-up
  base and the rounded-down end of an entry lie within it to the last byte.
* `PmmImplementsFrameAllocator` maps `ReserveLow` to `Provide`, the entries
  before it and the refused calls to stutters.

`FileSystemProofs` is checked for any disk (`DataStart <= TotalBlocks`), block
size, table sizes and texts that satisfy `FileSystemAssumption`.

* Its inductive invariant `FsInv` is the type invariant, `DescriptorsAreAlive`,
  and `DiskInv`: the four other invariants of `fs_safe`. They hold
  together or not at all: a freed block is nobody else's only because it had one
  owner, a write at the end of a file finds the first free pointer only because
  files have no holes, `free_blocks` stays exact only because no block is
  freed twice. `CallTypeOK` adds that a write under way has an open descriptor.
* `OwnersInv` is `BlocksHaveOneOwner` in three parts (who points at what, no two
  pointers at one block, marked blocks are pointed at), because each kind of step
  disturbs one of them. `FirstIsLeast` is that a search finds something when
  there is something; the division lemmas say which block an offset is in.
* `FilesHoldWhatWasWritten`: every call, and every turn of the loop in `fs_write`,
  is a step of `FileStore` under the mapping at the end of `FileSystem`. `FitInv`
  adds to `FsInv` that no file is larger than its pointers reach and that what is
  left of a write is part of a text. `BytesAfterPut` is the heart of it: a turn of
  the loop changes the bytes from the descriptor's offset on and no other byte of
  any file, because no second pointer names the block it writes to, and a new
  block is nobody's. `UnitsAreBlocks` counts: the units that the sizes of the
  files need are in bijection with the blocks in use, so a write stops in
  `fs.c` exactly when the next byte would not fit in `FileStore`. A call that fails is,
  to `FileStore`, a call that asked for an impossible name.

`ConsoleProofs` is checked for any screen, number of contexts, texts and users.

* `CursorReturns`: `CursorComesBack` is inductive with the types it needs
  (`CursorInv`): whoever stores a row below the screen is about to scroll itself,
  whatever row it loaded, and a scroll stores the last row.
* `ShiftFollowsKeys`: `ShiftInv` adds that every code of a shift key in the queue
  has a release at or behind it, unless a shift key is down. Without it, reading a
  press that was typed ahead could set the flag with nothing left to reset it.
* `RaceLosesNotEverything` bounds what `race` reports from both sides.
  `PairInv` relates the two racing threads: `myglobal`, and the copy of it that
  one of them holds, never exceed the rounds both have completed, and once a thread
  has completed a round (both have completed two) they are at least 1 (2).
* `KeyboardImplementsLineEditor` maps each step of `kb_getchar` and `kb_readline`
  to a step of `LineEditor` or a stutter; what it needs besides the types is that
  the index leaves room for the terminator and no cell before it holds one
  (`LineInv`).

`MutexProofs` is checked for any number of slots, processes, workers and rounds
that satisfy the assumptions on the constants. Its theorems are about every
behaviour of `Spec`, in which the timer interrupts anywhere and the command may
be typed at any time, and say what holds until one of the windows of
section 3 is hit; what is proved inductive is `struck \/ MutexInv`, and `StruckStays`
says that what has been hit stays hit. They say nothing of a behaviour from then
on: `mutex_race` shows that mutual exclusion does not hold throughout.

* `MutexExcludes`, `MutexOwnerAwake`: the inductive invariant `MutexInv` contains
  `IInv`, since the workers run on the real scheduler. `OwnershipInv` says who
  has the mutex at each step of the code: the thread about to store `owner`, its
  owner, or a sleeper to whom an unlock has handed it and which is still BLOCKED.
* `QueueInv` gives the waiting line as a sequence: `wait_head` and `wait_next`
  follow it, `wait_tail` ends it except while a newcomer is being linked, its
  threads are BLOCKED or joining, and what an unlock has loaded agrees with it.
  Without it nothing says that the thread `mutex_unlock` wakes was asleep, or that
  it was not taken twice.
* `DemoInv` counts: `mutex_done` is the number of this call's threads that are
  past `done++`, so the shell reports only when nobody uses the mutex any more; and
  nobody is at work while the shell initialises it. A call that gives up leaves
  threads that `DemoInv` still accounts for.
* `SleepersAreWoken` needs to know what following the links from `wait_head`
  gives. `QueueProofs` proves that it is the sequence of `QueueInv`, for any line:
  induction (`SetInduction`, on a set of numbers, since the prover has no
  induction over predicates) shows that the recursive function `LineFrom` is
  defined, and that its walk along a chain of links is the chain. `SleepInv` then
  adds that a sleeper is in that line or taken out of it, and that there is a
  line only while the mutex is held.
* `NoIncrementIsLost`: `TotalInv` counts in `myglobal` the rounds completed by the
  threads of this call, and says that the copy of `myglobal` a thread holds
  inside the critical section is still current. The set of completed rounds, not
  a sum, carries the count.
* `MutexImplementsFifoLock`: the holder is the owner or the thread between the two
  stores that take the mutex; the abstract line is the real one with the thread
  just taken out of it in front, until it is made the owner. Joining the line is
  the store that links the newcomer, an unlock the store to `owner` or to `locked`;
  every other step stutters.
* `IrqKeepsMutex` is where the windows enter: an interrupt that strikes nothing, or
  a yield, finds no thread within a window, so what each window knows of the line
  needs to survive its own steps only.

`SemProofs` is checked for any number of slots, processes, producers, items and
cells. Its theorems, too, are about every behaviour of `Spec` until a window of the
semaphores is hit or a call re-initialises semaphores in use (16 slots are not a
multiple of its three workers).

* `SemInv` describes the three waiting lines as `QueueInv` does that of the mutex,
  with what each step of `sem_wait` and `sem_signal` knows of the value: nobody
  joins a line while there is a unit, and none is added while somebody is in
  line. `NoWakeUpIsLost` and `SemaphoresAreFifo` follow: each step is one operation of
  `FifoSemaphore` on one semaphore, or none.
* `CountInv` says where the units are. `Units(s)` are the threads that have taken a
  unit of s, or have been handed one in their sleep, and not yet given it; the
  value and they add up to `Supply(s)`, which for `full_sem` is `buffer_count` and for
  `empty_sem` the rest of the array. While the shell initialises, `RestInv` holds instead
  (`PhaseInv`): nobody is at work, and the semaphores it has come to have their
  values. One unit of `buffer_mutex` means one thread at
  the buffer, so the load and the store of `buffer_count++` are not separated;
  and the unit a producer or the consumer brings along is a cell that is free or full,
  so the index is neither too large nor negative (`MutexProtectsBuffer`).
* `DemoInv` numbers the threads: those up to `start` belong to earlier calls and have finished,
  those up to `last` to the latest, and `sem_done` counts its finished ones.
* `ContentInv` says where the items are. The cells up to `Level` hold, each once, what is inserted
  and not extracted; `Level` is `buffer_count` but for the thread that has changed
  one and not the other. The ids that `semdemo` hands out make items of two
  producers differ, and the consumer's rounds count what it extracted, so at the
  report all have been (`NothingIsLostOrTwice`, `EveryItemOnce`).
* `SemDemoTypes` is the type invariant, with the bounds on values and registers
  that only the counting of units gives.

Model-checked only: liveness, which is outside the prover's reach. What the four
runs that expect a violation refute needs no proof.

## 5. Not modelled

* String helpers (`string.c`): straight-line loops over C strings. The models
  compare names and texts and never look into them.
* The boot loader's real-mode code and the entry stub: straight-line hardware
  set-up. The memory map it leaves behind is an input of `Pmm`.
* Of the console: cells, colours, boxes of the splash screen; `vga_printf`'s
  formatting. A preempted `vga_putchar` may lose or misplace characters, and no
  document promises otherwise.
* Of the shell: parsing of command lines and the commands that only print
  (`help`, `ps`, `meminfo`'s figures, `ls`, `fsstats`), `halt`, and the message
  `kill` prints for a pid that does not exist.
* The set-up of IDT, PIC and PIT, which appears only as `SchedulerStart`.
* Of `fs_read`: fs.c:368 adds `offset + count` in 32 bits, `ReadLimit` in the
  naturals. The sum wraps only for a count near 2^32; `cat`, the one caller, asks
  for less than a buffer of its own.
* What no caller does: unlink a file that is open (`NotOpen`), or pass
  `pmm_free_frame` a reserved frame in use.
* Build files and test scripts.
