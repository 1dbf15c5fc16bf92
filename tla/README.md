# A TLA+ model of the AtOS kernel

AtOS is a 32-bit operating system for one x86 processor: a boot loader, a kernel
with pre-emptive tasks, paging, two heaps, a FAT file system on an ATA disk, a few
drivers, and a user program. This directory holds TLA+ modules that model the
kernel, the configurations that check them with TLC, and proofs that TLAPS checks.
Paths below are relative to `src/AtOSx32/`.

## 1. The system

| Component | State | Operations | Talks to |
|---|---|---|---|
| Task scheduler, `Kernel/Process/process.c` | `running_task`, `next_task`, four `available_tasks` lists, `sleeping_tasks`, `blocked_tasks`, `terminated_tasks`, the control blocks, `allow_ts` | `create_*_handler`, `sleep`, `task_block`, `task_unblock`, `terminate_task`, `schedule`, `scheduler_tick` | called by tasks, by the clock interrupt and by `kmain`'s loop; heap |
| Task lists, same file | head and tail per list, one `flink` per control block | `task_list_insert_front/_back`, `task_list_remove_task` | scheduler, mutex (shares `flink`) |
| Task cleaner, same file | its cursor, `terminated_tasks` | `task_cleaner`, `task_cleanup` | woken by `terminate_task`; frees into the heap |
| Critical sections and context switch, `Tables/irqs.c`, `Process/task_switch.asm` | interrupt flag, `irq_disable_counter` | `irq_disable`, `irq_enable`, `switch_task`, `irq_handler` | everything that must not be interrupted |
| Clock, `System/clock.c` | `time_counter` | `rtc_handler`, 1024 times a second | scheduler |
| Mutex, `Process/mutex.c` | `aquired`, wait list | `mutex_lock`, `mutex_unlock` | scheduler |
| Frame allocator, `Memory/pmm.c` | frame bitmap, a batch of 20 frames | `palloc`, `palloc_single` | paging |
| Paging, `Memory/vmm.c` | page directory and tables | `page_map`, `page_unmap`, search for free addresses | frame allocator, heaps |
| Heaps, `Memory/heap.c`, `heap3.c` | free lists by size class, `complete_pages`, block headers | `kmalloc`, `free`, `krealloc`, aligned variants | paging; used by all |
| File system, `fs/fs.c` | cached table and root directory, `root_entries`, the disk | create, write, read, delete, rename, move, copy | ATA, heap |
| Keyboard, `Drivers/kernel_keyboard.c` | ring of 100 keys | interrupt pushes, `getchar` pops | interrupts |
| Screen, ATA, descriptor tables, system calls, utilities, boot loader | registers, static tables | port I/O, set-up | |
| Sabaka | an unfinished user program | | system calls |

What is hard in this code: the clock interrupt can take the processor between any
two statements of a task, and the sections meant to prevent it are built from a
nesting counter, a second lock (`allow_ts`) and the processor's flag; a control
block is in one of eight lists through a single `flink`; priorities, slices and
the clock are unsigned counters that wrap; the cleaner walks a list that others
extend; the file system keeps state in memory that a restart loses.
`PROJECT.json` lists these hazards line by line.

What makes each component correct: every task is in the list its state names,
once; the right task is dispatched, and no task waits for ever; the cleaner frees
each terminated task once; a critical section is not interrupted; two owners never
hold one frame, one address, one heap block, one disk cluster or one mutex; a file
that was written is read back, also after a restart; keys come out in order.

## 2. The modules

| Module | Models | Built on |
|---|---|---|
| `TaskQueue` | a task list as a sequence | |
| `Scheduler` | process.c, one kernel call or clock tick per step | `TaskQueue` |
| `TaskQueueProofs` | lemmas on task lists, and the forms of induction that every proof uses | `TaskQueue`, TLAPS |
| `SchedulerProofs` | theorems on `Scheduler` | `Scheduler`, `TaskQueueProofs` |
| `TaskCleaner` | the cleaner, statement by statement | `Scheduler` |
| `CleanerProofs` | theorems on `TaskCleaner` | `TaskCleaner`, `SchedulerProofs` |
| `LinkedList` | `task_list_t` and its operations, pointer by pointer | |
| `TaskQueues` | what the lists promise: queues | `TaskQueue` |
| `TaskLists` | the lists under any sequence of operations; implements `TaskQueues` | `LinkedList` |
| `TaskListsProofs` | theorems on `TaskLists`, the refinement among them | `TaskLists`, `TaskQueueProofs` |
| `Preemption` | `sleep()` statement by statement, with interrupt flag and counters | `LinkedList` |
| `PreemptionProofs` | theorems on `Preemption` | `Preemption`, TLAPS |
| `FrameAllocator` | pmm.c, one statement of `palloc` per step | |
| `FrameProofs` | theorems on `FrameAllocator` | `FrameAllocator`, TLAPS |
| `FileSystem` | fs.c: every call, the cached buffers, disk writes one by one, crashes and restarts | |
| `FileSystemProofs` | theorems on `FileSystem` | `FileSystem`, `TaskQueueProofs` |
| `PageMap` | vmm.c: the page tables of one address space | |
| `Heap` | heap.c, heap3.c and `elf_map`, one call per step | `PageMap` |
| `HeapProofs` | theorems on `Heap` and its page tables | `Heap`, `TaskQueueProofs` |
| `Mutex` | mutex.c above the task lists, with naps | `LinkedList` |
| `MC*` | instances for TLC | |

Operators commented "Mutant" are plausible mistakes in the definition that follows
them. No specification uses them: putting one in the place of the definition makes
the property named in `PROJECT.json` fail, which shows that the property looks at
the code it is about.

### Scheduler

A variable per global and per field of the control block the scheduler uses
(`state`, `policy`, `priority`, `time_slice`, `naptime`); lists are sequences.
A step runs to the end of the context switch it causes: `schedule()` is the
operator `Schedule`, given the lists and states its caller has already changed.
`UNBORN` is a control block not yet created. Task pointers are names, so a control
block is not reused. The cleaner makes only the call its body makes; `kmain` only
creates tasks, then loops; every other task may call anything at any time,
including `task_block` and `task_unblock` with states that have no list, and
`task_unblock` on a terminated task, as `mutex_unlock` can.

Two details of the tick matter. `manage_sleeping_tasks` follows `flink` after
`task_unblock` has reset it, so it wakes at most one sleeper per tick, the first
that is due (`FirstDue`). And a task whose slice is over calls `sleep(1)` inside
the interrupt: it goes to the sleeping list and comes back through it.

`terminate_task` reads the cleaner's state through a pointer that `kmain` leaves
NULL (the call of `init_cleaner_task` is commented out). `Terminate` requires the
cleaner to exist.

`HighestPriorityTask` is the loop of `schedule_priority_task`: a function over the
positions of the list whose value is what `highest_priority_task` points to when the
loop has passed them. What it has to find is said elsewhere, by `BestTaskDispatched`.

### TaskCleaner

`step` and `cursor` are the cleaner's program counter and its local variable. Each
statement that touches the list is an action; between two of them a tick can
dispatch other tasks, which run as in `Scheduler`. `freed` collects the control
blocks given back.

### TaskLists

Two lists and the control blocks that move between them, inserted as the scheduler
does it: only when in no list. The refinement mapping takes each list to its
`Contents`, the sequence met from its head along `flink`.

### Preemption

`at` is the statement of `sleep()` each task is at. `interrupts`,
`irq_disable_counter` and `allow_ts` are what decides whether the clock can
interrupt. `run_task` has a step per statement: the test of `next_task` (`RunTask`),
`irq_disable` (`RunTaskDisable`), the new state (`ActivateNext`) and `switch_task`
(`SwitchTask`), and a tick may come between any two of them. `SwitchTo` is
`switch_task`: it sets the flag and clears `next_task`, and nothing undoes the
`irq_disable` before it. Inside an interrupt, where nothing comes in between, the
statements are one step (`RunTaskTo`). So the counter is the number of switches, plus
the tasks that have raised it and were interrupted before they lowered it or were
switched away (`Raised`), plus the ticks not yet returned from. A tick that ends
the slice of a task leaves it in `inTick`; when it is dispatched again it first
returns from the tick, then goes on where it was interrupted. All tasks are alike,
when a nap ends is left open, and tasks are created before the idle loop.

### FrameAllocator

`used` is the bitmap, as the set of frames whose bit is set; `allocate`,
`pallocated` and `current_frames` are `palloc`'s static variables; `at`, `i`,
`word`, `slot` and `count` are what a caller keeps in registers and on its stack.
`palloc_single` looks at a frame's own bit and, before it, at the bitmap word with
the frame's own number, which describes other frames and, for frames beyond
`NPAGES / 32`, is not in the bitmap at all. `MayHaveRoom` and `MayBeFull` let that
test come out either way there. Inside the bitmap it does no harm: frames are
taken lowest first, and the word describes frames that lie above (`LowestFirst`).
`times` counts how often each frame was handed out.

### FileSystem

`fs` is what the kernel has in memory: the table and the root directory as cached
(`fat`, `root`), the flags that call them valid, `root_entries`, and `status`.
`disk` is the disk. Each function of fs.c is an operator from the state of the file
system to the state it leaves; `AtaWrite` appends to `writes`, the transfers that
are still to reach the disk, and `view` is the disk as reads see it. `DiskWrite`
takes the writes to the disk one by one and `Crash` may come between two of them;
a call begins when the writes of the one before are done, since `ata_write` returns
only then. `written` is not in the code: it remembers what each file should hold.

Sizes count directory entries; a sector, which is also a cluster, holds
`EntriesPerSector`. A name is a base and an extension, a path the sequence of its
names; that a name of full length runs into its extension (`FullName`) and that a
rename keeps the end of a longer old name (`CreateFilename`) is kept. Names fit their
fields (`Names`): `fat_create_filename` does not check, and copies a longer one over
the rest of the entry (fs.c:145). A call that panics, writes through NULL, overwrites the kernel behind the root directory or
depends on memory that was never written ends in a `status` other than "running",
and only a restart follows.

What the code does, and the model with it:

* `fat_resize_file` assigns the size before it compares, so that no chain grows
  (fs.c:433), and the rest of a longer file is written at the sector numbered `EOC`
  (fs.c:578). Hence `SmallFilesReadBack` is about files of one cluster.
* the size of the root directory in sectors is rounded down (fs.c:13):
  `RootKeepsWholeSectors` says exactly which entries are lost.
* `root_entries` is not counted again on a formatted disk: every start but the
  first panics when it looks for the shell. The comments promise otherwise, and the
  run `file_system_restart` finds `ShellFoundAgain` violated.
* `fat_find_free_cluster` searches up to `SYSTEM_SECTORS`, but the table is shorter
  (fs.c:414, fs.h:20). When it is full the search goes on in the heap behind
  `fat_buffer`; `behind` is what it finds there, a cluster of `BehindTable` or none.
  The call goes on with a cluster that no table on the disk can mark, all its writes
  included, and ends in "undefined", since it has written to the heap:
  `MarkedBeforeListed` says when this happens, `OneClusterEach` is about the kernels
  that have not come to it.
* `remove_dir_entry` (fs.c:490) is right only for a directory of one entry and for
  some of two; deleting the only entry of the root directory copies from NULL.

### PageMap and Heap

`memory` holds the page tables (`tables`, the present entries of the directory;
`mapped`, the mapped pages), the block headers by address (`hdr`), and for both heaps
`free_blocks` and `complete_pages`. An operator takes a memory to the memory it
leaves. heap3.c repeats heap.c with its own lists, so one operator with a parameter
`h` stands for both; `heap_allocate_header` is shared in the code too. `held` is
what the callers know: the blocks they have and the sizes they asked for. `image`
is the program that `elf_map` loads, segment by segment, before it may run.

`status` says why the machine stops. "fault": `elf_map` copies to a page it did not
map, or page tables are read past the directory. "selfmap": the search for free
pages reaches the directory's map of itself. "undefined": a remainder of one header,
without data, is queued under class 255. "mixed": `realloc` of the user heap has
freed the old block into the kernel's (heap3.c:167); that call is carried out, and
no property but the types is stated after it. "lost": a page in use is
not mapped any more. `page_unmap` asks about the table whose number is the position
of a page (vmm.c:197) and removes the table the page is in, with all the others in
it; for a kernel heap in table 768 that is the table of the kernel.
`InUse` has the pages of the blocks, the program and the kernel; `MemTypeOK` says that
they are mapped as long as the machine runs. `LostOnlyByUnmap` says what else can be
the end of it: a call that frees a block of a heap whose counter, for the class the
block had, is at `MAX_COMPLETE` (where a `krealloc` may have taken it itself, from
above, with the block it got first), and all that is lost was mapped by one table,
which is removed.

Two assumptions are about what is asked of the code. A request is below 128 pages,
from where on `heap_get_index` does not end (heap.c:24), and fits in a page table. A
program is linked below the kernel (`ImagesAssumption`): `elf_map` believes what a
file says, and would map pages of the kernel's half.

The user heap looks for pages from address 0 on. Unless the program itself is in
page 0, the first block lies at NULL: its neighbour on the right looks like a run of
its own, and freed, it empties its list. `FreeListsExact` and `CompleteTotal` are
false for the user heap then, and stated for the kernel's and for programs in page 0
(`Sound`); `BlocksTile`, `OwnersKeepTheirBlocks` and `NoAdjacentFree` hold even so.
`CompleteTotal` is what remains true of counters that are kept under one class and
used under another (heap.c:168, 178): their sum, modulo the width of a byte.

### Mutex

The wait list, `available_tasks` and `sleeping_tasks` with the operations of
`LinkedList`, on the one `flink`. `task_block(TASK_WAITING)` returns at once, so
`MutexLock` leaves a task both waiting and running. `MutexUnlock` reads the `flink`
of the first waiter after `task_unblock`.

## 3. The runs

| Run | Checks | Shows |
|---|---|---|
| `scheduler` | `TypeOK`, `EachTaskInItsList`, `OnlyRunningIsActive`, `WaitsWithFullSlice`, `PriorityInRange`, `BestTaskDispatched`, `DueSleeperAdvances`, `SleepersWake`, `ReadyPolicy0Runs` | every interleaving of calls and ticks keeps lists, states and counters consistent and dispatches the right task; naps end, although the clock wraps and a tick wakes one sleeper, and a ready task of the best policy runs |
| `task_lists` | `TypeOK`, `TailEndsTheWalk`, `ListsDisjoint`, `ImplementsQueues` | the pointer operations are queues |
| `task_cleaner` | `CleanerTypeOK`, `FreesOnlyTerminated`, `WalkInOrder`, `PassEnds` | the cleaner frees only terminated tasks, none twice, and ends |
| `task_cleaner_lost` | `NoneLost` (violated) | a task that terminates between the cleaner's last test and its reset of the list is lost |
| `preemption` | `DisableLeaksPerSwitch`, `SectionsInterruptible`, `NoStaleChoice` | the nesting counter grows with every switch, so no section holds the clock off; a choice made before a switch is not carried out after it |
| `preemption_lost` | `SleepersListed` (violated) | a task interrupted inside `task_block` can end up asleep in no list |
| `frame_allocator` | `TypeOK`, `FramesHandedOnce`, `NoFrameLost`, `LowestFirst`, `CallsEnd` | one caller: frames are handed out once, lowest first, none is lost between batches, and every call ends |
| `frame_allocator_shared` | `FramesHandedOnce` (violated) | two tasks inside `palloc` get the same frame |
| `file_system` | `FsTypeOK`, `CachesCoherent`, `OneClusterEach`, `SmallFilesReadBack`, `RootKeepsWholeSectors`, `MarkedBeforeListed` | the caches never lie, no cluster is shared while the table has room, a file of one cluster reads back, a crash leaves no entry without its cluster but on a full disk; which root entries are lost |
| `file_system_restart` | `ShellFoundAgain` (violated) | a start on a formatted disk does not find the shell that is on it |
| `heap` | `MemTypeOK`, `BlocksTile`, `FreeListsExact`, `OwnersKeepTheirBlocks`, `NoAdjacentFree`, `CompleteTotal`, `LostOnlyByUnmap` | splitting and merging keep the blocks, lists and counters of both heaps consistent around a program, until pages are given back |
| `mutex` | `WaitersOnlyWait` (violated) | a task in the wait list goes on, naps, and is in two lists |

The five violated runs are disagreements between the code and its comments, and
`PROJECT.json` quotes them under "findings". `task_cleaner_lost` needs one tick at the
wrong place. `preemption_lost` needs the slice of a task to end between two given
statements of `task_block`; it is a consequence of `DisableLeaksPerSwitch`.
`frame_allocator_shared` needs one context switch between the increment of
`pallocated` and the return. `file_system_restart` and `mutex` need no race: a
restart, and a contended lock and a nap, are enough.

### Bounds

* `scheduler`: the cleaner and two more tasks, policies 0 and 2, so that equal and
  different policies meet; the code tells policies apart by their order and by
  whether their priorities count (0 and 1) or not (2 and 3), and there is one of each
  kind. Priority 2, so that it is spent once and reset once; a slice of 2 ticks, so
  that a task can leave with a partial slice; a clock of 3 ticks, so that it wraps
  while tasks sleep; naps of one tick.
* `task_cleaner`: the cleaner and three tasks, so that the list has a head, a
  middle and a tail while a task joins it; priorities and slices of 1.
* `task_lists`: four tasks, two lists.
* `preemption`: two tasks, at most five context switches (`MaxSwitches`, needed
  because the counter grows with each). Every statement is interrupted, the slice
  ends inside and outside of a section, a task returns from a tick, and the NULL
  `next_task` is reached. The tasks are symmetric: the module names none.
  `preemption_lost`: one task and four switches are enough.
* `frame_allocator`: 16 frames of which the kernel has two, batches of 3, so that
  the last batch is not complete when memory ends, and words of 2 bits: 8 frames
  have a word with their number and 8 do not. `frame_allocator_shared`: two
  callers, 8 frames.

* `file_system`: five clusters and sectors of three entries, so that the root
  directory grows past one sector and the disk fills up and is searched past its
  table; names of at most three letters, one file with a shorter name than the other;
  a file of one unit and one of four, which is longer than a cluster; directories
  two deep; at most five calls after a start (`MaxCalls`), with a crash and a restart
  anywhere. `RootEntries` is six, two sectors: the root directory is not filled here;
  the proofs allow any number, and cover the overflow. `file_system_restart`: the same.
* `heap`: five tables of five pages of ten header sizes, so that tables fill up and
  the kernel's table number, a page's position in its table and the end of a table
  all meet; requests that split a page in two, leave one header, or take two pages;
  one complete run kept per class instead of five; three blocks in use at a time and
  seven calls, enough for a block taken out of the middle of a list, a counter that
  wraps, and every status. Programs: one in table 1, one in table 0 from its first
  page on, one that begins inside a page, one whose segments share a page, one that
  goes past the end of a table.
* `mutex`: three tasks, so that another is there to run while two wait.

The preemption runs do not check for deadlock: the exploration ends at the bound,
and a fault ends the system; neither do those of the allocator, which a panic
ends, and of the heaps, which end at the bound or stop. The file system is always
restarted.

### Fairness

`Fairness` is weak fairness of `Tick`, since the real-time clock interrupts 1024
times a second and its handler acknowledges it, and of `IdleLoop`, since `kmain`
does nothing else. Nothing is asked of the tasks: one may compute for ever, and
slices take the processor from it. `FairCleanerSpec` adds strong fairness of the
cleaner's statements: a slice is 50 ticks long, so a task that is dispatched again
and again executes some statements, though with slices of one tick in the model
it could always be interrupted first.

`FrameAllocator` asks weak fairness of the statements inside `palloc`, not of the
calls: a task that is interrupted there is dispatched again.

## 4. What is proved

`SchedulerProofs` proves, for any set of tasks, any default priority and slice, any
clock width and any naps allowed by `TasksAssumption` and `NumbersAssumption`:

* `TypeCorrect`: `Spec => []TypeOK`
* `ListsCorrect`: `Spec => []EachTaskInItsList`
* `OneActiveTask`: `Spec => []OnlyRunningIsActive`
* `SlicesFull`: `Spec => []WaitsWithFullSlice`
* `PrioritiesInRange`: `Spec => []PriorityInRange`
* `DispatchesBest`: `Spec => BestTaskDispatched`
* `SleepersAdvance`: `Spec => DueSleeperAdvances`

None of them is inductive alone. That a task dispatched by `Schedule` joins no
list twice needs the membership of lists (a picked task is in the list of its
policy, `PickedTaskIsReady`); that the running task may join a list needs that it
is in none, which follows from its being active (`OnlyRunningIsActive`); that a
slice stays above 0 needs the types. The inductive invariant `IInv` is their
conjunction, with `ListsHold` for the lists: every list holds the tasks of its
state, each once. That a terminated task is in its list (`TerminatedListed`, which
makes `ListsHold` into `EachTaskInItsList`), the full slices and the priorities are
shown on top of `IInv`; the last need `PriorityFits`, which is also about the two
policies whose tasks have no priority.

The argument has three layers. The lemmas on lists say what `Append` and
`RemoveTask` do to membership and to injectivity. The lemmas on moves
(`JoinSleeping`, `WakeBlocked`, ...) lift this to `ListsMatchStates`, stated over
arbitrary lists and states, so that the tick, which moves two tasks in one step,
uses it twice. `ScheduleLists` and `DispatchIInv` treat the dispatch, given a state
in which nobody is active. There is then one lemma per action.

The two action properties follow from what the searches of a list compute. Each is a
loop, written as a recursive function over the positions of the list, and has an
equation. By induction over the positions (`SetInduction`, below) what
`HighestPriorityTask` keeps is at least as good as each task it has passed
(`SearchFindsHighest`); that it is taken from the first list that is not empty makes
it the best (`PicksTheBest`).

Induction: the library's theorems for it take an operator as a parameter, which the
provers cannot instantiate. `TaskQueueProofs` states it over sets instead:
`LeastElement`, every set of natural numbers that is not empty has a least element,
and `SetInduction`, a set that holds 0 and with each number the next holds them all.
A proof by induction defines the set of numbers for which its claim is true.
Functions that are defined by recursion are reached the same way: the lemma says
that the function solves its equation, and the rest follows from the equation.

`CleanerProofs` adds to `IInv` where the cleaner stands. `WalkStands` relates the
cursor, what was freed and the list of terminated tasks, of which the cleaner has
walked a beginning while others append to its end: this gives `FreesTerminated` and
`WalksInOrder`. What holds between the last test of the cursor and the reset of
the list is weaker, which is where `task_cleaner_lost` loses a task.

`PreemptionProofs` rests on `CountedOnce`: every task that was switched out by a
tick is counted once in `irq_disable_counter`, next to the switches so far and the
tasks at a statement of `Raised`. Nothing
in it is about lists, so `CounterLeaks`, `SectionsNeverHoldOff` and `ChoicesFresh`
hold for any number of tasks even in the runs where a list loses one.

`TaskListsProofs` shows that the pointers of `LinkedList` stand for a family of
disjoint queues: there are sequences without repetition such that heads, tails and
links are what these sequences say. Each operation takes pointers that stand for
some queues to pointers that stand for those after the operation on queues. The
theorems on walks (`TailsCorrect`, `ListsStayDisjoint`) and the refinement of
`TaskQueues` (`ListsImplementQueues`: the initial states, then each step) follow,
since `Contents` computes these sequences.

`FrameProofs` is about `FrameAllocator`, for any sizes of memory, kernel, batch and
words that `LayoutAssumption`, `BatchAssumption` and `WordAssumption` allow.
`TypeCorrect` holds for any number of callers. `FramesUnshared`, `FramesKept` and
`SearchFindsLowest` have the hypothesis that there is one caller, without which
they are false (`frame_allocator_shared`). Their invariant has three parts:
`Control`, what each program point says of the variables (among them that a slot is
left when `pallocated` is incremented, so the byte does not wrap); `Books`, that a
frame is in exactly one of the places it can be; and `Order`, that no free frame
with a bit lies behind the search. `Books` is stated over a set of slots and a set
of frames, so that a step which moves neither needs only `BooksKept`.
`OwnWordAbove` is the arithmetic that makes the stray word test harmless.

`HeapProofs` is about `Heap`, for page tables, pages, limits and requests of any size
that `TablesAssumption` and `HeapAssumption` allow and any programs that
`ImagesAssumption` allows. The inductive invariant `HeapInvariant` says of a machine
that runs that its memory is `AtRest` and that what programs hold is what the headers
say (`HeldIs`). `AtRest` has four parts:

* `Blocks`: headers are well formed, blocks do not overlap and their neighbour links
  are those of their places (`Tiled`). One part of it is only about address 0, where a
  link to the first block reads as none: a run of pages has a first address (`Runs`),
  and in the run at 0 every block but the first lies inside one page, since
  `heap_split_header` cuts only the end off its last page. Without this the blocks
  after the first could begin a page and be given back as if they were a run.
* `NoPair`: no unused blocks side by side.
* `Files`: free lists are linked both ways (`Linked`), a block in use is in none, each
  unused block is in one (`Filed`) and that of its size (`Classed`). That following
  links back from a block ends at the head of a list is said by a rank that falls
  along `blink`.
* Pages: those of the blocks, of the program and of the kernel's image are mapped,
  and the first are none of the others.

Inside a call none of this holds. `free` first has a block that is neither used nor in
a list and may have two unused neighbours, then one that is merged but still has the
class it had. The lemmas on the steps of a call are stated with the exceptions that
are due at that point (`NoPair(m, {a})`, `FilesBut(m, E, C, sound)`). `NoPair` also
shows that the loops of `heap_melt_left` and `heap_eat_right` turn once at most
(`ShortRight`, `ShortLeft`). The lists of the user heap are
in order until its first block lies at NULL; `sound` is the set of heaps the claim is
made for, and until the program has been loaded that is both (`Ordered`).
`FreeListExact` is about the walk `FreeList` itself.

From `HeapInvariant` follow `HeapTypeCorrect`, `BlocksStayInPlace`,
`FreeBlocksMerged`, `FreeListsCorrect`, `OwnersSafe` and, with what a step leaves
(`LostFor`: one table less, and the counter of the heap of a freed block full),
`LossNeedsFullCounter`.

`CountersAddUp` (`Spec => []CompleteTotal`) needs an invariant of its own beside
`HeapInvariant`: in a machine that runs, for each heap of `Ordered`, the counters add
up to the number of unused blocks that are a run of pages each (`Counted`,
`CountersOK`). The sum is a fold; what it is for eight counters is not unfolded. By
`TotalExists` the recursion behind the fold has a solution, and `TotalChanged` shows
by induction on the size of a set of classes that the sum goes up by what one counter
goes up by, modulo 256, whichever counter that is: which is why the wrong class does
no harm to it. The rest follows a call step by step: inside `free` the block that is
being freed is not counted yet (`Counted(m, {a}, g)`), merging neither adds a block to
those that count nor takes one away, that block apart (`MeltStepCounts`,
`EatStepCounts`), what `heap_split_header` cuts off has a left neighbour
(`SplitCounts`), and a run that is mapped is in use (`NewRunCounts`). Here address 0
matters again: a block whose left neighbour lies at NULL looks like a run of its own,
and only `NoneAtNull` excludes that for a sound heap.

`FileSystemProofs` is about `FileSystem`, for disks, sectors and root directories of
any size (`SizesAssumption`), any names that fit the fields of an entry
(`NamesAssumption`), any contents (`ContentsAssumption`) and any number of calls on
paths of any length:

* `FsTypeCorrect`: `Spec => []FsTypeOK`
* `CachesNeverLie`: `Spec => []CachesCoherent`
* `ClustersUnshared`: `Spec => []OneClusterEach`
* `SmallFilesKept`: `Spec => []SmallFilesReadBack`
* `RootLosesTheRest`: `Spec => []RootKeepsWholeSectors`
* `MarkedFirst`: `Spec => MarkedBeforeListed`

The inductive invariant `FsInvariant` says that the disk is new or formatted, and of a
kernel that runs two things.

* `Ready` is about memory and time. The buffers are well formed and, where a flag
  calls them valid, coherent with `view`; and there is a `Trace` from the disk as it
  is to `view`: one image per write that waits, each of which is well formed, has the
  signature, and lists nothing new whose cluster is not marked on it, unless its
  cluster is behind the table and every entry of the table is taken. So what a
  `DiskWrite` does to the disk was shown when the call made the write.
* `Held` is about `view`: there are numbers `D`, of the entries of each directory by
  its cluster, and ranks `R`, which grow from a directory to those below it, so that
  no path comes back. `Shape` says that every entry is well formed, that an entry of a
  directory has its size, that no two entries have a cluster in common (`Apart`), that
  nothing lies behind the last entry of a directory that was ever written (`Tidy`),
  and which entries of the root directory are stored (`RootKept`). `Marked` and
  `ReadBack` say that clusters are marked and files hold what was written. `D` may
  have directories that no path leads to any more, since deleting a directory keeps
  what is in it.

`OneClusterEach` and `SmallFilesReadBack` alone are not inductive: they are about what
a walk of three levels can reach (`Listed`), while a call may go deeper, and a
directory whose entry is not yet written back has entries that nothing lists.

A call is followed in the order of the code. `NavigateDirReady` finds the directory
at the end of the path (`Trail`, `Placed`), or a kernel that has stopped. The lemmas
on trees (`EditedTree`, `EnteredTree`, `RemovedTree`) say what one changed, one new
and one removed entry leave, with an exception `X` for the directory whose own entry
does not yet say its size. `UpdateParentReady` takes that exception away; that the
path to the parent is still the same after the write below it is where the ranks are
needed (`ParentTrail`). Each call then has a lemma that it leaves an `Outcome`:
`Ready` and `Held`, or a kernel that has stopped after writes that are in order. A
call whose search has left the table makes the same writes, which are in order, and
stops: what it holds in memory is not followed further.

Only model-checked: all liveness (`SleepersWake`, `ReadyPolicy0Runs`, `PassEnds`,
`CallsEnd`), which TLAPS does not prove under fairness, and the runs that find a
violation.

## 5. What is not modelled

* The date and `clock_time`, the screen, port I/O, descriptor tables, the system
  call table, the boot loader and the Sabaka program, which keep no state whose
  interleavings matter or are unfinished; the keyboard, which is in the plan.
* In the file system: `cat`, which declares `dir_buffer` twice, `fat_clear_file`,
  which nobody calls, copying and moving a directory (a path that ends in a directory
  gives the directory, fs.c:316), names that do not fit 8.3, dates, the word `fat[EOC]`
  behind the table that every deletion clears (fs.c:631), a transfer cut off in the
  middle, what the kernel does
  after an overflow of the root directory has overwritten it, and two tasks in it at
  once: fs.c has no lock, and the cached buffers are global.
* In the memory: requests above 4 MB (`page_memory_above4mb` dereferences physical
  addresses), the translation cache (`flush_tlb_single` is given the address of the
  table entry, not of the page), the copy of the kernel's tables into a new address
  space, `free_aligned`'s search backwards for a signature, which may meet a stale
  one, and two tasks in a heap at once: the heaps have no lock.
* In the mutex: termination of a waiter, and what happens after the first task is
  in two lists.

## 6. Plan

In order of importance:

1. `KeyBuffer` (kernel_keyboard.c): a queue of the last keys, refined by the ring.
2. Two tasks inside the heap and inside the file system, statement by statement,
   as `FrameAllocator` has them inside `palloc`.
3. `Preemption` extended to creation, unblocking, termination and the boot window.
4. Address spaces in `PageMap`: the kernel tables a new one copies.
5. An abstract life cycle of tasks, and the proof that `Scheduler` implements it.
