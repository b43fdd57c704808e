# A verification of the SYE laboratories: SO3 and its programs

The repository holds what its authors wrote or completed, over eight
laboratories, of SO3, a small ARM operating system, and of programs that run on
it or on Linux. Most of the kernel (scheduler, threads, heap, file system,
pipes, drivers) is *not* in it: what the models need of those layers is modelled
from how this code uses them, and marked external in `PROJECT.json`.

Two copies of `so3/kernel/process.c` exist, of lab 02 and lab 05; they differ by
`do_renice()`, by a message that `do_fork2()` of lab 02 prints after it has restored
the interrupts, and by white space. Lines below are those of lab 05.

## 1. Inventory

| Component | Source | State | Operations | Interacts with |
|---|---|---|---|---|
| Process life cycle | `sye22_lab05_rendu/so3/kernel/process.c`, `sye22_lab02_rendu/so3/include/process.h` | `proc_list`, the PCBs (`state`, `parent`, `main_thread`), `pid_current`, the join queue of each main thread | `create_root_process`, `do_fork`, `do_execve`, `do_exit`, `do_waitpid`, `do_sbrk`, `do_renice` | threads and scheduler (external) through `user_thread`, `thread_join`, `thread_exit`; page frames; page tables |
| Page ownership | same, `allocate_page`, `add_page_to_proc`, `release_proc_pages` | `pcb->page_list`, `page->refcount`, the free frames | get, count, give back | the life cycle calls it; fork's copy in `mmu.c` adds to it |
| Page tables | `sye22_lab05_rendu/so3/arch/arm32/mmu.c` | the first-level table of each process and of the kernel, second-level tables in the kernel heap | `create_mapping`, `release_mapping`, `new_root_pgtable`, `reset_root_pgtable`, `pgtable_copy_kernel_area`, `duplicate_user_space`, `virt_to_phys_pt` | called by the life cycle; root tables share second-level tables in the kernel area |
| System call dispatch and errno | `sye22_lab02_rendu/so3/kernel/syscalls.c`, the stubs of `sye22_lab02_rendu/usr/lib/libc/crt0.S` | `errno_addr`, one global; the `errno` word of each program | the stubs, `syscall_handle`, `set_errno` | every call |
| Heap limit, arguments of execve | `process.c` of lab 05 | the break of each process; the page of arguments | `do_sbrk`, `preserve_args_and_env`, `post_setup_image` | programs, execve |
| Timer | `sye22_lab01_rendu/so3/devices/timer/sp804.c` | the registers, `jiffies`, the pointer `sp804` shared by two drivers | the two initialisations, `timer_isr`, start and stop | kernel start, scheduler tick |
| Kernel start | `sye22_lab01_rendu/so3/kernel/main.c` | `boot_stage` | a sequence of initialisations, the boot thread | calls `create_root_process`; needs ticks |
| Shell | `sye22_lab01_rendu/usr/src/sh.c` | tokens, the pipe of the current command | built-in commands, `fork`/`exec`/`waitpid`, pipelines | kernel calls, pipes (external) |
| Tic-tac-toe | `sye22_lab02_rendu/usr/src/tictactoe_*.c`, `sye22_lab03_rendu/usr/src/tictactoe_ipc.c` | the grid and turn of the game manager, two pipes | game loop, search, the player's loop | two processes over two pipes |
| Letter counting | `sye22_lab03_rendu/usr/src/threads.c` | one parameter block per thread | split, count, merge | pthreads |
| Socket client and server | `sye22_lab04_rendu/usr/src/socket_*` | `message_to_send`, buffers, a counter | signal handlers, the two loops | each other, over TCP; the user, by signals |
| Paged memory simulator | `sye22_lab06_rendu/usr/src/memsim.c` | `page_table`, `main_mem` | `init_page_table`, `get_byte`, `store_byte` | none |
| Page replacement simulator | `sye22_lab07_rendu/usr/src/memreplace.c` | status bits, times of last use, two clocks | one access under LRU or WSClock | the user |
| `ls`, `ln`, `hello`, `memory`, `count_parallel` | labs 01, 02, 05, 08 | none | one system call after the other | kernel |

### What is hard, and what must hold

- **Process life cycle.** The calls are protected by disabling interrupts, but
  `do_fork()` restores them before it reads the pid of its child, and
  `do_waitpid()` keeps a PCB in a local variable across `thread_join()`. In
  between other processes exit, exec, wait and free. What must hold: no pointer
  kept across a suspension, and no parent pointer in the list, names a freed PCB;
  nobody's page table is freed while it runs; a wait comes back although the
  child replaced its main thread by `execve()`; a child is given once, to the
  process that forked it.
- **Page ownership and page tables.** A zombie maps frames that were given back;
  `execve()` gives back and takes frames at once; second-level tables of the
  kernel area are shared by copying root entries and freed when empty. What must
  hold: a frame is owned once and counted right, nothing is lost, a running
  process maps what it owns, tables are neither lost nor freed under a user, and
  the memory of each process is private, and copied by fork.
- **Shell.** Three processes share a pipe of bounded size and close their sides
  independently. What must hold: the reader sees the end of the file, the prompt
  comes back, pipelines end.
- **Tic-tac-toe.** Two processes, two bounded pipes, rejected moves, a player that
  leaves with a command unread. What must hold: one answer per request, no
  deadlock, no broken pipe, legal play, true results.
- **Sockets.** Signals change `message_to_send` between two reads of it. What must
  hold: the two sides keep taking turns, an answer matches its request, quitting
  ends both.
- **errno, sbrk, arguments.** One global holds the address of the errno of
  whoever called last; `do_sbrk()` reads the break twice; the page of arguments
  is built from two arrays and their strings and moved as a whole. What must
  hold: errno tells the outcome of a call, areas of the heap are apart, programs
  get the arguments they were given.
- **Kernel start and timer.** The timer runs before the scheduler exists, and the
  boot waits for ticks that a shared pointer may send to the wrong timer. What
  must hold: no tick comes too early, each is counted once, the root process
  starts.
- **Letter counting.** The text is split by divisions over a number of threads
  that comes from the command line, and merged without a lock. What must hold:
  every character has one thread, and the merge comes after the last of them.
- **Simulators.** Eight-bit clocks that wrap, bit fields sharing an entry, masks.
  What must hold: the right page is evicted and none is lost; translated memory
  behaves like an array.

`PROJECT.json` lists every hazard at its line, with the properties that would
catch it going wrong, or the reason why none does.

## 2. Modules

| Module | Models | Composes |
|---|---|---|
| `PageFrames` | frames, reference counts, page lists; a page table is the set of frames it maps | |
| `Process` | the life cycle, with preemption points | extends `PageFrames` |
| `ForkWait` | abstract: what fork, exit and waitpid promise | implemented by `Process` |
| `PageTable` | two-level page tables, and what the pages contain | |
| `AddressSpaces` | abstract: a private memory per process | implemented by `PageTable` |
| `ExecArgs` | the page of arguments of execve, as operators | |
| `Syscalls` | stubs, `errno_addr`, the failing calls, `do_sbrk`, the arrival of arguments | extends `ExecArgs` |
| `KernelStart` | `kernel_start()`, the boot thread, the timer drivers and their interrupt | |
| `Shell` | the shell, its children and their pipe | |
| `TicTacToe` | the rules, and the abstract game | implemented by `GameIpc` |
| `GameIpc` | game manager, player and pipes | instantiates `TicTacToe` |
| `Threads` | the letter counting program and its threads | |
| `SocketChat` | client, server, signals, sockets | |
| `MemSim` | page table of lab 06 | |
| `FlatMemory` | abstract: an array with protected parts | implemented by `MemSim` |
| `MemReplace` | both replacement algorithms | |
| `ProcessProofs`, `PageTableProofs`, `SyscallsProofs`, `KernelStartProofs`, `GameIpcProofs`, `MemSimProofs` | the proofs | each extends its model |
| `UserProgramsProofs` | the proofs about the shell and the sockets | extends `Shell` and `SocketChat` |
| `LabProgramsProofs` | the proofs about the threads and the page replacement | extends `Threads` and `MemReplace` |
| `MC*` | the constants of the runs | one per model |

### `PageFrames` and `Process`

A PCB is its pid: numbers are never reused. One action stands for each stretch
of kernel code that runs with interrupts off, and `pc` says where a process is
suspended: `forking` (interrupts are on again, the return value not yet read),
`closing` (`do_exit()` before `thread_exit()` completes), `joining` and `woken`
(in `thread_join()`). `DoFork`/`ForkReturn`, `DoExit`/`ExitFinish` and
`WaitpidJoin`/`WaitpidResume` are those halves. `DoExecve` includes the move of
the join queue to the new main thread; `WaitpidZombie` is the wait on a process
that has ended; `WaitpidNoChild` and `WaitpidNoHang` are the early returns.
`held` is the PCB a local variable names. `kernel` records a panic, a failed
`ASSERT`, or the use of a NULL or freed pointer (`invalid`), after which nothing
is said. `unwaited` and `waitpid_ret` are what programs know: the children they
forked, and what a wait returned.

`AnyWait` says what programs do. With `TRUE` they pass any pid or -1 to
`waitpid()`; with `FALSE` only a child they forked and have not waited for, as
the programs of the repository do. Properties about `kernel` not stopping need
the second: waiting for a process that was already waited for, and is kept only
for its children, does follow a NULL pointer.

`execve()` of a file that is not found changes the name of the process only and
is no step here (its errno is in `Syscalls`). When memory is exhausted the kernel
stops in `BUG_ON()`, and `kernel` becomes `panic`.

### `PageTable`

Addresses are page numbers. A root table maps each entry to empty, a section, or
the number of a second-level table; a second-level entry holds a frame or 0. The
operators named after the functions of `mmu.c` take a state of the tables and
return the next; the actions compose them as `process.c` does in one stretch
with interrupts off. `mem` is what frames contain, so that a copy that differs,
or a frame mapped twice, shows. Frames taken by `execve()` get one content,
stores then tell them apart. Drivers map registers at boot only, in the root
entry that also holds `FIXMAP_MAPPING`, so that its second-level table is shared
by every process and used by `duplicate_user_space()`. Page ownership is reduced
to `page_list` here; counts and leaks are the matter of `PageFrames`.

The root process runs on the frames `RootCode`, from `RootStart` on, which are part
of the kernel image and in no page list. `memalign()` stands under an `ASSERT`: a
step that needs more tables than the heap has left (`HasRoom`) is not taken.
`LayoutAssumption` is what `create_mapping()` and `release_mapping()` rely on and do
not test: the image of the root process is smaller than a section, drivers map kernel
addresses other than `FIXMAP_MAPPING`, where nothing is mapped yet, and the fixmap is
not under the section of the kernel.

### `ExecArgs` and `Syscalls`

`ExecArgs` has no state: `preserve_args_and_env` returns the page as a function
from offsets to words and characters, filled string by string (`PageWith`), `post_setup_image` moves its addresses, and
`ArgsOf` reads it as the start-up code of a program does. `Place` is the offset of
each string, `DoesNotFit` the test the code makes while it copies.

In `Syscalls` a thread goes from `user` to `stub` (its errno is cleared), `kernel`
(`errno_addr` names its errno), and back, by `CallSucceeds`, by a failure in one
stretch (`WaitpidFails`), or through `failing`, when `set_errno()` runs with the
interrupts on: `SetTimeOfDay`, `ExecveNotFound`, `SbrkCheck`. `do_sbrk()` is
`SbrkCheck` and `SbrkAdvance`, on ints that wrap at `IntMax`. An address is
written in the memory of the process that runs, as the kernel does. Three ghosts
say when a promise is off: `disturbed` (another call came between), `overlapped`
(two `sbrk()` of a process at once), `granted` (the areas given). `execve()` is
considered for processes of one thread.

### `KernelStart`

`call` is the place in `kernel_start()`, whose calls are the sequence `Calls`.
`devices_init()` initialises the timers in the order of the device tree, a
variable chosen at the start. `TimerExpires` may come whenever a timer is
enabled; `timer_isr` is the handler, with the line it came by and the timer it
acknowledges through `sp804`. A tick may run the boot thread from
`kernel_thread()` on, before `boot_stage` is set.

### The programs

- `Shell`: one action per system call or stretch between two of them, of the
  shell, of the child (which becomes the right program of a pipeline) and of
  child2 (the left program). Programs write, read, and may end early or not be
  found.
- `GameIpc`: `gm` and `pl` are the places of the two processes; one action per
  read or write of a pipe. Everything said of the game rests on an assumption about
  the pipes of SO3, which are outside the repository: `gm_get_cmd()`
  (`tictactoe_ipc.c:63`) reads the descriptor of the *write* side of `pipe1`, and the
  model takes it that this read reaches the buffer of the pipe. If it failed, the -1
  it returns would count as a wrong move, and `MOVE_REJECTED` be sent without end;
  that return is left out. The search is the recursive function `minmax`, with
  the depth as a constant. As in the code it scores moves by the depth alone and
  never looks whether a grid is won.
- `SocketChat`: a signal may come between any two actions of the client; its loop
  is cut where `message_to_send` is read again.
- `Threads`: `main` is cut at its loops: loading, splitting, one creation, one join,
  and the merge, one counter of one thread per step; each thread counts one
  character per step in counters of its own. The creation of a thread may fail, the file may hold a NUL.
- `MemSim`: entries are numbers, masks and shifts are arithmetic on a width given
  by the constants, with and without page attributes.
- `MemReplace`: one action per access, a hit or a fault with its eviction. The
  clocks count modulo `CounterMod`. The other variables are history, which only
  properties read, and tell the accesses and the pages put out, not the bits: `later`,
  the pages accessed since the last access to each page; `used` and `cold`, the pages accessed since a fault may have passed them
  over, and those not accessed since one certainly did.

## 3. Runs

| Run | What it asks | Bounds and why they are enough |
|---|---|---|
| `process_any` | ownership of frames and PCBs, whatever is waited for | 3 processes: a grandchild, a waiter that is not the parent, two waiters for one process; 5 frames, images of 1 or 2 pages: fork and exec also run out of memory. Frames are symmetric. |
| `process_children` | suspended calls, assertions, `ForkWait`, termination of waits | 3 processes, 4 frames, images of 1 page; no symmetry, as liveness is checked |
| `pagetable` | tables, the translation of own pages, private memories | 2 processes, created again and again after they are waited for; sections of 2 pages, 4 root entries, 4 frames, 2 contents: enough for a shared kernel table, a table with one entry left, a table allocated again. Processes, frames and contents are symmetric. |
| `syscalls` | errno, the heap, the arguments | 2 processes of 2 threads and 1, 2 executables with errno at different addresses: a sibling and a stranger can both cross a call. A heap of 4 with ints of 4 bits: increments that pass the limit, go below 0, and wrap. Pages of 20 for arguments of up to 3 strings and environments of up to 2, empty ones among them: lists that fill the page exactly, and that do not fit. |
| `syscalls_errno` (violation) | errno keeps the number of a failure | as above |
| `kernel_start` | ticks and the root process | every order of the two timers, and one timer alone; jiffies modulo 4, since only their change matters |
| `shell` | pipes and prompt | 2 jobs, the second started while the first is in the background; 2 writes into a pipe of 1: the writer blocks |
| `game_ipc` | the protocol and the game | the full 3 by 3 grid, all moves of the player including taken cells, any number of games, a search of depth 2 (`MAX_DEPTH` is in a header outside the repository; a deeper search changes nothing, which is proved: `FirstFreeCell`), pipes of 4 commands |
| `threads` | the split, the merge, the counts, the end | texts of 0 to 5 characters with letters of both cases, others and a NUL; -1 to 5 threads asked for, 3 at most: more threads than characters, leftovers of 0, 1 and 2 |
| `socket_chat` | turns, answers, counter, end | 5 signals of any kind at any place: enough for a change on each side of a write, twice |
| `memsim` | `FlatMemory` | 16 pages of 16 bytes instead of 256 of 256; addresses at both ends of a page and of the memory, in pages of every protection, and one beyond 16 bits. The proof covers the real sizes. |
| `memreplace` | eviction | 5 pages, 3 in memory, clocks modulo 8, WSClock for ever, LRU until its clock wraps. With clocks modulo 8 and `DELTA` 2, WSClock is followed on both sides of the wrap. |

Every property of a passing run has a mutant in `PROJECT.json`: a plausible
mistake in the code, translated, under which the run reports that property.

Deadlock is checked where the system cannot legitimately stop. It is not where
programs may wait for themselves or for each other (`process_any`), the last
process may exit (`pagetable`), the user may leave or stop (`shell`,
`socket_chat`), or the model follows LRU up to a bound (`memreplace`).

### Disagreements found

- `syscalls_errno`: `errno_addr` is one global (`syscalls.c:45`). A call of another
  executable, with its errno at another address, while a call is in progress,
  makes the failure of the latter go to the wrong address; the errno of its
  program stays 0. `ErrnoTold` says exactly when errno can be trusted.

Met while modelling, without a run of their own:

- `do_waitpid()` accepts any pid, but `do_execve()` asserts that whoever waits is
  the parent, and alone (`process.c:740` and `:748`); `AssertsHold` is stated, and
  proved, for programs that wait for their own children.
- `waitpid(-1)` with no finished process returns -1 and ECHILD where the comment
  above `do_waitpid()` says 0 (`process.c:972`).
- `setup_proc_image_replace()` tests with `< 0` the pointer that
  `preserve_args_and_env()` returns as NULL on failure (`process.c:558`): arguments
  that do not fit in a page are not refused.
- `sbrk()` is said to round to pages (`syscall.h:548` of lab 02) and does not; its
  two reads of the break are not protected from another thread.
- `sys_renice` is declared (`syscall.h:396`) without a stub or a case.
- `virt_to_phys_pt()` keeps the offset in a *page* for an address in a *section*
  (`mmu.c:556` and `:560`); its comment says it is valid for any address. User
  pages are never in sections: `TranslatesOwnPages`.
- After 256 accesses LRU puts out the page used last, since its clock has eight bits
  (`memreplace.c:55`). `EvictsLeastRecent` is about the accesses before that.
- `updateTDU()` tests two masks that have no bit in common (`memreplace.c:109`), so
  that WSClock never writes a time of last use, and its test of the working set
  (`memreplace.c:85`) compares its clock with `DELTA` only: the search can stop at a
  page that was accessed within the last `DELTA` accesses, against the comment at
  `memreplace.c:84`. With pages 0, 1 and 2 in memory, the accesses 2, 3, 0 and 1 put
  out page 2 that way, 2 accesses after its own. What remains of WSClock is the second
  chance given by the reference bits (`UnusedGoFirst`), except in the `DELTA + 1`
  accesses after the start and after each wrap of `TVC`, when no page looks old, all
  lose their bit, and the first in memory goes.
- No handler for SIGCHLD exists, and commands in the background are never waited
  for, where the comment says they are (`sh.c:210`).
- The search of the computer scores 0 for every grid and depth (`MinmaxIsZero`):
  `minmax()` (`tictactoe_gm.c:32`) never calls `win()`. The computer always takes the
  first free cell (`FirstFreeCell`), where the comment at `tictactoe_gm.c:53` means the
  move that is worst for the opponent.
- The drivers of `sp804.c` share one pointer. If the clocksource timer is
  initialised last, the interrupt handler acknowledges the wrong timer and the
  boot hangs in `calibrate_delay()`; if the periodic timer is, `clocksource_read()`
  (`sp804.c:107`) reads the periodic timer. `RootStarts` is stated for the latter
  order.

## 4. Fairness

- `process_children`: weak fairness for the second halves of suspended calls. The
  kernel is built with a preemptive round-robin scheduler
  (`sye22_lab05_rendu/rendu/fin.patch:73-86`), so that a call that can proceed
  does. Nothing is assumed of what programs call.
- `game_ipc`: weak fairness for both processes, which the scheduler runs, and
  strong fairness for the user naming a free cell: a user who names taken cells
  for ever never ends the game.
- `threads`: weak fairness for `main` and for each thread, under the same scheduler.
- `kernel_start`: weak fairness for the processor (the calls, the boot thread, the
  handler of a pending interrupt) and for the timers, which count by themselves.
- `socket_chat`, `shell`: weak fairness for each process; programs of a pipeline
  read what there is and end. The user need not do anything.

## 5. Proofs

The theorems hold for every value of the constants that the `ASSUME`s of the
modules allow; those are evaluated by the runs. Each proof module has an
inductive invariant `IInv`, the type invariant with named parts, one lemma per
action and a temporal step; TLC checked each `IInv` on a small instance before it
was proved.

**`ProcessProofs`**, in three parts. The first shows that every memory operation
keeps `FramesInv`: a reference count is 1 for a frame in some page list and 0 for
a free one, no frame being in two. `FrameOwnership`, which counts, follows
(`OwnersCounted`) but is not inductive.

The second holds whatever programs wait for. `ControlInv` has `Numbered` (pids from
`pid_current` on are untouched, without which a fork could take a PCB in use),
`StateAgrees` (`pc`, `state` and `main_thread` say the same, so that a zombie
cannot run), `JoinersAgree` (who is in the queue of c holds c, and a woken process
holds one that is dead: this makes the unconditional release after
`thread_join()` harmless, even across the change of queue in `do_execve()`) and
`ParentExists`; `MemoryInv` has the frames, `LiveMappingsOwned` and
`NothingLeaked`. It gives `TypeCorrect`, `ParentsStay`, `FramesOwnedOnce`,
`Isolation`, `NoLeak` and `NoEarlyReap`.

The third adds `AnyWait = FALSE`. `ThreadInv` follows the main thread from `none` to
`cleaned` and says that a thread not yet joined keeps its PCB and page table;
`ChildrenInv`, that the children a program knows are its own and were not reaped;
`HeldInv`, that `fork()` holds a child its program does not know yet and
`waitpid()` one that it knows; `RunsInv`, that the kernel did not stop on an error.
The key lemma is `OwnWaiter`: the only process in the join queue of a child is its
parent. `HeldPcbStays`, `ChildrenStayWaitable`, `NoInvalidAccess` and
`KeptForChildren` follow, and `RefinesForkWait`: each action is mapped to one of
`ForkWait` (`ForkReturn` and `DoExit` to its `Other`), `WaitpidNoChild` being
impossible (`NoLostChild`).

**`SyscallsProofs`**: `OutcomeInErrno` (during a call that nothing disturbed,
`errno_addr` is the caller's own, and its errno is 0 or its error) and
`BreakInHeap` (what a `sbrk()` has read of the break is still true when it moves
it, and the accepted size is the exact sum although the addition may wrap).
`ArgumentsUnaltered` needs no invariant, but what the functions of `ExecArgs` compute:
the places of the strings grow and stay behind the words (`PlacesGrow`, `Inside`), a
further string leaves what is in the page (`StoreKeeps`, hence by induction
`Preserved`), the move changes the addresses and nothing else (`Moved`), and the
program reads what the page holds (`ArgsOfIs`). It assumes that the name of a process
fits in a page, since the code does not test it: `PROC_NAME_LEN` is 80
(`process.h:46`).

**`KernelStartProofs`**: `TicksReady` and `TickOnce`. `DevicesInv` and `IrqInv` relate
the place in `kernel_start()` to what may happen; `LineInv` says that the only
line an interrupt can come by is that of the timer which `sp804` names.

**`PageTableProofs`**: first the arithmetic of pages and entries, then what each
operation of `mmu.c` does to the tables, said once in terms of `Translate`
(`AllocatedTranslates`, `NewRoot`, `Reset`, `SmallMapping`, `IoMapping`,
`FixmapReleased`). The invariant `IInv` is about a state of the tables, so that each
step of an action can be taken on its own. `TablesOK` has `KernelShared` (the kernel
entries of all root tables are those of the system's), `UserEntries` (no sections in
the user space: `duplicate_user_space()` and `do_translate()` rely on it),
`NamesExist` and `TablesNamed` (nothing dangles, nothing is lost), `NamesUnique`,
and two facts without which `duplicate_user_space()` could free a kernel table when
it releases the fixmap, and leave its entry dangling in the other root tables:
`KernelInUse` (a table of the kernel area has an entry) and `FixmapFree` (the fixmap is
empty between two calls). `MemoryOK` adds the page lists and the current process, and
that no frame is mapped twice by those who run; zombies, whose tables still map frames
that were given back, are excepted. `TablesStayAccounted`, `TranslatesOwn` and
`Refinement` follow; in the last one, `IoMap`, `Reap` and `Switch` are stutters of
`AddressSpaces`.

**`UserProgramsProofs`**: `SidesClosed`, for any number of jobs: between `pipe()`, the
two forks and the two closes, who can hold a side depends on where both children are.
`TakeTurns` and `AnswersMatch`, for any number of signals: `TurnInv` counts the
messages under way, `RequestInv` says that all of them are about the last request,
`CounterInv` that the counter and the pending request make up the requests the client
counted.

**`GameIpcProofs`**: `RequestsAnswered`, `WritesSucceed` and `TrueResult`, for any
capacity of the pipes and any depth of the search. `TalkInv` and `EndInv` list what
the pipes hold at each place of the game manager; `PlayInv` says that nobody has
won before the result is sent, except by the move being checked. `RefinesTicTacToe`
adds `ProgressInv` and needs that the computer plays a free cell, hence what the
search computes: `MinmaxIsZero`, then `FirstFreeCell`.

**`LabProgramsProofs`**. `Threads`: `NoRaceOnMerge`, and `ExactSplit` for every length
of text and number of threads, by the arithmetic of quotients (`ChunkOrder`).
`CountsExactly`: `CountInv` says that a thread has counted the letters from its start
to its position, and the merge those of the chunks it has passed; occurrences in
consecutive ranges add up (`OccurrencesAddUp`), and what is below 'a' wraps to an
index above all letters (`IndexOfLetter`). `MemReplace`: `ReplaceInv` makes a fault an
exchange of one page for one (`Exchange`), whichever page the algorithm chose as long
as it is a valid one; `FaultsExchange` follows. `ClockInv` says that times of last
use follow the order of the accesses, which is true only before the clock of LRU
wraps: `LRUEvictsOldest` is stated for `MaxLRU < CounterMod`, which the run's values
satisfy. `UsedInv` relates the reference bits to the history of WSClock: the pages used
have theirs set, the cold ones have not, and every time of last use is 0. It follows
from what a fault passes over (`Passes`, `WSCFault`), and gives `WSClockSparesUsed`, with
no condition on the clock but the one in the property.

**`MemSimProofs`**: `RefinesFlatMemory`, for every number of pages and every size
that is a multiple of 8 and not below that number, both sizes of the program among
them. The invariant is that the page table never changes; the work is in
`EntryParts` (frame and bits can be read back from an entry) and `CellsApart` (two
addresses never share a byte), from the uniqueness of quotient and remainder.

Induction over data goes by the least counterexample: a set of natural numbers that
is not empty has a least element (`MinOf`, from `WFMin` of `WellFoundedInduction`),
and that a recursive function exists is shown by building it up to the least
argument at which it would not (`MinmaxDefined`, `PlacesExist`, `PagesExist`).

Only model-checked: the liveness properties (`JoinReturns`, `GameFinishes`,
`QuitEndsBoth`, `PromptReturns`, `PipelineEnds`, `ProgramEnds`, `RootStarts`), which
are out of this prover's reach, like `ENABLED`. Every other property of a passing run
is proved.

## 6. What is not modelled

- In `process.c`: `ptrace`, threads other than the main one in the life cycle, exit
  codes, `do_renice()` (which nothing calls), and the interrupt flag itself, which
  three early returns do not restore (the return to user mode does). The delivery
  of signals to processes is outside the repository.
- In `mmu.c`: TLB and cache maintenance, and functions without a caller here.
- In `syscalls.c`: the numbers of the calls, the registers, and the calls of other
  files.
- `ls`, `ln`, `hello`, `memory`, `count_parallel`: one call after the other, with no
  state of their own. The display and input of the simulators, the tokenizer and
  the built-in commands of the shell, the set-up of the sockets (which succeeds,
  or ends the program), a failed `execl()` of the player.

## 7. Order of the work, and what could follow

The life cycle came first, with its frames, its abstract promise and its proofs;
then the page tables; then the programs, system calls and kernel start, each with
its proofs.

What could follow: `Shell` over `Process`, to follow the zombies of pipelines and
background commands into the PCBs of the kernel; several threads per process in
`Process`.
