# A TLA+ model of NachOS-Improved

NachOS is a teaching operating system: a kernel in C++ that runs on a simulated
MIPS machine. This repository is a student-improved version with user threads,
user processes, virtual memory, a hierarchical file system, a synchronised
console and a network layer. This directory holds the TLA+ specification of
that kernel, the TLC runs that check it on small instances and the TLAPS proofs
of its most important invariants.

## 1. The system

### 1.1 The execution model everything rests on

NachOS simulates a uniprocessor. Kernel code loses the CPU at exactly three
kinds of place:

* a thread blocks (`Thread::Sleep`) or finishes (`Thread::Finish`);
* interrupts are turned from off to on: `Interrupt::SetLevel(IntOn)` calls
  `OneTick`, which runs the interrupt handlers that are due and, when the timer
  asked for it, `currentThread->Yield()`;
* a user instruction ends (`OneTick` again).

So the code between two points where interrupts are re-enabled is atomic, and
the points themselves are the ends of `Semaphore::P`, `Semaphore::V`,
`Thread::Fork` and `Thread::Yield`. With `-rs <seed>` the timer interrupts at
random instants, so every one of these points can be a context switch: this is
the interleaving the models explore. An action of a module is therefore the code
from one such point up to the next one.

### 1.2 Inventory

| Component | State it keeps | Operations | Sources |
|---|---|---|---|
| Threads and scheduler | `currentThread`, `threadToBeDestroyed`, ready list, a status per thread | Fork, Yield, Sleep, Finish, ReadyToRun, FindNextToRun, Run, SetupThreadState | `threads/thread.cc`, `threads/scheduler.cc`, `threads/list.cc` |
| Semaphores | value, FIFO queue of waiters | P, V | `threads/synch.cc` |
| Locks | `ownerID`, two semaphores | Acquire, Release | `threads/synch.cc` |
| Conditions | `totalSleepers`, two semaphores | Wait, Signal, Broadcast | `threads/synch.cc` |
| Synchronised list | list, lock, condition | Append, Remove, Mapcar | `threads/synchlist.cc` |
| Interrupts, timer | level, pending list sorted by time, simulated clock, `yieldOnReturn` | SetLevel, OneTick, Idle, Schedule, CheckIfDue | `machine/interrupt.cc`, `machine/timer.cc` |
| User threads | per address space: living tids, `nbThreads`, `maxTIDGiven`, stack slots, join conditions | create, exit, join, id | `userprog/userthread.cc`, `userprog/addrspace.cc` |
| User processes | `nbProcesses`, `pids[64]`, per pid lock and condition | ForkExec, Exit, WaitPid, GetPid, Halt | `userprog/userprocess.cc`, `userprog/exception.cc` |
| Physical frames, address spaces | bitmap of frames, page table of each space | GetEmptyFrame, ReleaseFrame, NumAvailFrame, AddrSpace(), ~AddrSpace() | `userprog/frameprovider.cc`, `userprog/addrspace.cc` |
| User semaphores | `UserSemaphores[64]` | SemCreate, SemPost, SemWait, SemDelete | `userprog/exception.cc` |
| Console | `incoming`, `putBusy`, `eof`; two locks and two semaphores above it | PutChar, GetChar, PutString, GetString, Feof | `machine/console.cc`, `userprog/synchconsole.cc` |
| Disk | sectors, `active`; lock and semaphore above it | ReadSector, WriteSector, RequestDone | `machine/disk.cc`, `filesys/synchdisk.cc` |
| File system | on disk: free map, headers, directories; in memory: current directory per thread | CreateFile, CreateDir, RemoveFile, RemoveDir, Open, paths | `filesys/filesys.cc`, `directory.cc`, `filehdr.cc`, `openfile.cc` |
| Open file table | ten entries, `nbFiles`, lock | Open, Close, Get | `filesys/openfiletable.cc` |
| Network | `sendBusy`, one-packet inbox, socket | Send, Receive, poll, SendDone | `machine/network.cc` |
| Post office, reliable send | mailboxes, postal worker thread, `sendLock` | Send, Receive, PostalDelivery, ReliableSend, DelayAck | `network/post.cc`, `network/reliable.cc` |
| System calls | user memory, the program counters of each thread | `ExceptionHandler`, `UpdatePC`, CopyStringFromMachine, CopyStringToMachine | `userprog/exception.cc`, `syscall.h`, `synchconsole.cc` |
| MIPS simulator, memory translation | registers, `mainMemory`, page table, the delayed load | OneInstruction, Decode, Mult, Translate, ReadMem, WriteMem, RaiseException | `machine/mipssim.cc`, `translate.cc`, `machine.cc` |
| Host layer, object-file tools | none that the kernel sees | Unix calls, conversion of executables, disassembly | `machine/sysdep.cc`, `threads/utility.cc`, `machine/stats.cc`, `bin/` |

The components are layered by plain calls: every blocking operation reduces to
`Semaphore::P`, every wake-up to `Semaphore::V`, and the semaphores are the only
users of `Sleep` and `ReadyToRun`. Interrupt handlers (console, disk, network)
only ever call `V`. Threads share state through the globals of
`threads/system.cc`.

### 1.3 What makes each part correct, and what is hard about it

* **Scheduler and semaphores.** Lists agree with status; a wake-up is never lost
  although `P` re-tests its value and other callers may overtake the woken
  thread; the carcass of a finished thread is deleted by whoever runs next; the
  registers and page table of a user thread survive every switch.
* **Locks and conditions** are built from two semaphores each. A thread can lose
  the CPU after every `P` and `V`, so the owner field, the count of sleepers and
  the units of `sleepLock` are changed at different instants.
* **Synchronised list.** An item appended between a consumer's test and its sleep
  must still wake it.
* **User threads.** The table of tids must list exactly the living threads; a
  join and `Exit` must return when, and only when, the threads they wait for have
  gone; no two threads may share a stack.
* **Processes and frames.** Check-then-take on the frame count, errors that leave
  a lock held, reuse of pids under a waiter, frames never returned.
* **File system.** Read-modify-write of the free map and directories with disk
  waits in between, three separate writes per creation, a new directory written through
  whatever header its sector held before, shared open-file entries.
* **Devices.** Completion interrupts from a list sorted by simulated time, a
  character buffer of one, a disk that serves one request, an idle machine that
  must neither spin on the timer nor halt beside work.
* **Network.** One-packet buffers, lost packets, acknowledgements that race with
  time-outs, a receiver that halts while a sender still retries.
* **System calls.** Strings at the edge of their buffers or of the mapped memory,
  faults inside a call, one update of the program counters on every path.
* **Processor.** Overflow and double-word arithmetic, the delayed load across
  faults, precise exceptions, page protection.

`PROJECT.json` lists these as hazards at the lines where they bite.

## 2. Plan

Done, in this order:

1. `Threads` (thread life cycle, ready list, semaphores), with its proofs; the
   abstract counting semaphores it implements (`Semaphores`).
2. `LockCond` (Lock and Condition over semaphores) with its proofs, and `Mutex`,
   the abstract lock.
3. `SynchList` (the monitor under the mailboxes), over `LockCond`.
4. `UserThreads` (create, exit, join, process exit in one address space; stack
   slots).
5. `Processes` (frame provider, construction of address spaces, pids, WaitPid,
   process count, machine halt).
6. `FileSystem` (free map, headers, directories, concurrent operations, a halt
   between two writes) and `OpenFiles` (the table of open files and transfers).
7. `PostOffice` (network, mailboxes, reliable send over a lossy network).
8. `Devices` (clock, pending list, timer, disk, console and their drivers).
9. `Syscalls` (system calls, strings, user semaphores).
10. `Machine` (instructions, delayed loads, translation, exceptions).

Then the proofs (section 5), module by module in the same order: `Processes`,
`SynchList`, `OpenFiles`, `Devices`, `Syscalls`, `PostOffice`, `UserThreads`, `Machine`,
`FileSystem`.

Left, by importance:

* `LogicCycle` of `nettest.cc`, directories and free maps of several sectors, the
  loading of a program by `AddrSpace`.

## 3. The modules and the code

### Threads

The state of `Thread`, `Scheduler`, `Semaphore` and the part of `Interrupt` that
decides who runs. `status[t] = "NONE"` means that no `Thread` object lives at
address `t`; addresses are reused, which is what makes the deletion of carcasses
interesting. `waiting[t]` says inside which `P` a thread is, which in the code is
its program counter.

The code that runs with interrupts off is cut at `SWITCH`, because it goes on in
another thread: `Yield`, `Finish`, `P` (when it blocks) and `Dispatch` (the loop
of `Thread::Sleep` when it finds a thread) end there, and `AfterSwitch` is what
the thread that gets the CPU does next: delete the carcass, restore the user
state and, if it is inside `P`, test the value again. A new thread comes through
`SetupThreadState`, which does the same. `Idle` runs the handlers of an idle
machine, `Halt` is the way out when no interrupt is left. What a user
computation's registers and page table contain is abstracted to whose they are,
so `UserContextOK` can say that they are the right ones; `SaveState` really
overwrites the address space's own table pointer with the machine's
(`spaceTable`), as the code does.

`Semaphores` is what the rest of the kernel believes: `P` and `V` as indivisible
steps.

### LockCond

One lock, one condition, four semaphores taken from `Semaphores`: that `P` and
`V` are indivisible is the theorem `ThreadsImplementSemaphores`. An action is one
`P` or `V` with the code around it. Tids are a parameter and need not be unique,
because each process numbers its threads from 1 while `Lock::Release` compares
tids. Callers follow the convention of `synch.h`, nothing more; `Signal` and
`Broadcast` may be called with or without the lock. `Mutex` is the lock the rest
of the kernel believes in.

### SynchList

Extends `LockCond` with the list and with the operation each thread is inside;
`Append`, `Remove` and `Mapcar` are the only callers.

### UserThreads

One address space. What is done under `threadIDLock` or `threadStackLock` is one
step (`LockImplementsMutex`); a condition is its count of sleepers and the units
of its `sleepLock`, and a waiter passes through three steps (count itself and
release the lock, take a unit, test again under the lock), which is what
`LockCond` shows to matter. The arithmetic of the stack slots is kept as the
compiler sees it: macros without parentheses, division that rounds to zero. So is
the layout of the tables, because `RemoveThreadStackPointer` computes an index
that is often outside `threadStackPointer` and then changes a neighbour.

### Processes

Processes as seen from outside: each acts as one thread. What is done under
`bitmapLock`, `processesLock` or one of `ProcessLocks` is one step, and a process may
lose the CPU between two of them: so `AddrSpace::AddrSpace` is the test of the
number of frames (`CreateTest`), then for each page a test, a frame, and the count
that the arguments of `DEBUG` take (`PageTest`, `PageGet`, `PageGot`), then the scan
for a pid, one step per entry (`PidScan`). Its errors are kept: `GetEmptyFrame` goes
away with the lock (`lockLost`), and a space that was not created is deleted with an
uninitialised page table, which releases any frames or crashes
(`DeleteNotCreated`, `damaged`). Frames of a process that ended stay marked, because
the `delete` after `Finish` is never reached. `target` is a history variable: whom a
`WaitPid` was called for. Processes are numbered in the order they are begun, which
names them and restricts nothing.

### Machine

A machine state is a record, and an instruction a function of it: `Decode` cuts the
fields out of the word, `OneInstruction` fetches, executes and commits in the order of
the code, so that an exception returns before the commit. Words have four bytes, of
`ByteBits` bits each: the algorithms for overflow, `Mult`, shifts, sign extension and
byte selection do not depend on the width, and TLC can compare them with integers.
The upper bits that a jump keeps depend on the width: `Jump` keeps the top ones of the
narrow word, the code the top ones of 32.
`Translate` has the checks of the page table in the code's order and sets `use` and
`dirty`. `RaiseException` finishes the load in progress, as `DelayedLoad(0, 0)` does; a
kernel that only calls `UpdatePC` stands for the handler.

### FileSystem

The disk is a function from sectors to what they hold. Each operation is a sequence of
disk accesses, and between two of them any other thread may run, since nothing in
`FileSystem` locks; and the machine may halt (`Halt`), after which the threads are gone
and the disk is what it is. What a sector is written as, a header, a table or the
map, is kept; the data of files is not.

`CreateDir` writes the table of the new directory before the new header, through whatever
its sector holds at that moment, as in the code. `FetchOldHeader` takes an old header as it
is, zeros as an empty one, and other bytes as any header at all: of a table the code reads
`inUse` as the length and the characters of a name as sectors (`OldHeaders`), which may
also fail the disk's assertion (`OldHeaderFails`). `WriteNewDir` then writes to all the
sectors so named, of other files too, and goes on. A new directory that finds entries in its
own sectors keeps them.

`Allocate` has no test against `NumDirect`: sectors that do not fit the header are `lost`
when it leaves memory. A file may be of any size, and in the code every directory is too
large: its 32 sectors meet a header with room for 30. The write behind the header may break
the heap (`HeaderOverflows`) or do no harm; `Deallocate` later reads whatever stands there
(`Behind`), frees it, or fails its assertion (`FreeFails`).

`files`, `orphans` and `suspects` are history: what the completed operations promise, and
which names were touched by an accident. Accidents are an overlap of two operations, a
halt, a write through an old header into sectors in use, and a free of sectors that are
not the directory's; whatever is worked on after one is suspect too (`Begin`, `Halt`,
`Stray`). Behaviours end (`stopped`) where the bytes would decide: a sector walked into as a
directory or a header that it is not (`Misread`), and the loss of the map or of the root
(`LosesSystem`). `Name` leaves out `.` and `..`: no operation is given one of them as the name
to create or to remove. A table is one sector in the model and two in the code, so that
the halt between its two halves is left out; `RemoveDir` reads the header twice in a row,
the model once.

### OpenFiles

Threads call `Open`, `Close`, `Read` and `Write`, in any order and with any index. The
table's lock covers the whole of `Open`, disk accesses included, and the search in
`Get`; the transfer itself is outside. A read takes all sectors it touches and copies
out a part; a write first reads the sectors it covers in part (`PartialSectors`). The
position is in the entry that all openers share. An object deleted by a `Close` while
another thread uses it ends the behaviour (`Deleted`).

### Devices

One processor and a clock. What a thread has still to do is a short program of `P`,
`V` and requests, so that `SynchDisk` and `SynchConsole` are the sequences of the code. A
step that turns interrupts on advances the clock and handles what is due (`CheckIfDue`,
`TickDone`); with no thread ready, `Idle` jumps to the first interrupt, or the machine
halts. The disk's latency is computed from its geometry, the position of the head and
the track buffer (`ComputeLatency`); the console polls its input and owes one interrupt
for each character shown. `req` and `line` are history: the request under way and where
the string being read began. Left out: the flag that `Feof` reports, and a typed byte 0xFF,
which `GetChar` cannot tell from the end of the input and loses.

### PostOffice

Two machines with their network devices, the postal worker, main, and on the sender one
thread per attempt that puts `MAXREEMISSIONS` copies of *Resend* in the sender's own
mailbox, over the same lossy network as everything else. `TestWait` sends one message
reliably; `MailTest` exchanges two messages and their acknowledgements. A machine that
halts takes its socket away, and whoever sends to it then aborts.

### Syscalls

`ExceptionHandler` from the trap to `UpdatePC`. A call reads its arguments and copies
its string at once (no other thread runs meanwhile), then another component serves it
for a while (any result it may return), then the result is copied out. An access of an
address that is not mapped raises an exception within the call, whose handler does
nothing but `UpdatePC`: the program counters move once more. `List` goes on into `Open`, for
want of a `break`. `WaitPid` with a pid out of range writes -1 and waits all the same, and
the result replaces the -1 (`CallWaitPid`). Where the kernel goes past an array (the NUL of
`GetString`, the file that `Write` reads into a buffer of `MAX_STRING_SIZE`, the locks of a
pid out of range), the machine may go on or not (`Overruns`). User semaphores live in the table `UserSemaphores`, which ids from -1
to one past the limit are tried on.

Definitions introduced by a comment *Mistake:* are not part of the
specification. Each is a plausible error in the definition that follows it, kept
to confirm that a property notices it.

## 4. Runs

| Run | Instance | Properties |
|---|---|---|
| `threads` | 3 threads, a mutex, a device semaphore, an address space, fair | `ListsMatchStatus`, `NoLostWakeup`, `HaltOnlyWhenStuck`, `UserContextOK`, `ReadyRuns`, `SemaphoresImplemented` |
| `monitor` | any 4 threads, two and two with equal tids, or 3 threads over a list of 2 items, fair | `MutualExclusion`, `SleepersCounted`, `MutexImplemented`, `PaidWaitersWake`, `ItemsHaveTakers`, `RemoveGetsItem` |
| `user_threads` | 4 tids, 6 slots, fair | `ExitIsLast`, `JoinReturns`, `ExitReturns` |
| `shared_stack` | real sizes, 10-page program | `NoSharedStack` is **violated** |
| `processes` | 4 processes of one page, 3 frames, fair | `FramesDisjoint`, `PidsMatch`, `LastExitHalts`, `FreedPidWakes` |
| `machine` | words of 8 bits, 4 frames of 8 bytes, 2 instructions | `ArithmeticExact`, `LoadDelayHidden`, `FaultsPrecise`, `CleanFramesUnchanged` |
| `file_system` | 2 threads, 9 sectors, 4 operations, 1 halt | `BystandersIntact`, `NothingLeaks` |
| `sequential_intact` | 1 thread, 8 sectors, 9 operations | `SequentialIntact` is **violated** |
| `open_files` | 2 threads, 3 files of 5 bytes, 2 entries, 5 operations | `OneEntryPerFile`, `ReadsExact`, `WritesExact` |
| `devices` | 2 threads, 2 tracks of 3 sectors, 3 operations, fair | `InterruptsOnTime`, `OneRequestAtATime`, `LatencyExact`, `InputKept`, `HaltsOnlyWhenDone`, `RequestsAnswered` |
| `post_office` | 2 machines, 2 attempts, 2 losses, fair | `MailInOrderOnce`, `SuccessMeansDelivered`, `ReliableSendEnds` |
| `syscalls` | 2 threads, 2 bytes of memory, 2 semaphores, 4 calls | `ResumesAtNext`, `SemaphoresKept`, `StringsExact` |

What some of the runs show:

* `machine`: after any two instructions, on register values around every sign and
  carry boundary, the simulator's arithmetic is that of the integers; a load seen late
  cannot be told from an immediate one by code that keeps the R2000's rules; an
  instruction that raises an exception has changed neither memory nor a register that
  a program sees; memory changes only where a page is writable and becomes dirty.
* `file_system`: `FileSystem` has no lock, so concurrent operations may lose each other's
  changes, a halt may leave the disk between two writes, and `CreateDir` and `RemoveDir` may
  write and free sectors of other files even when they run alone. What holds is that the
  damage does not spread: a file that no overlapping or interrupted operation worked on, and
  whose sectors were neither written nor freed by such a mistake, keeps its entry, its header
  and its sectors, although threads go on with stale tables, maps and headers. As long as
  no accident happens, the operations leak nothing.
* `open_files`: the table never has two entries for a file, and a transfer moves exactly
  the bytes asked for if no write to its sectors overlaps it.
* `devices`: the drivers never make a device fail its assertion, wherever interrupts
  fall; the disk is never faster than its geometry; typed characters reach one thread
  each, strings in one piece; an idle machine halts only when nothing is owed; and a
  thread that has made a request of the disk is woken with its unit.
* `post_office`: nothing is overwritten, doubled or reordered between socket and mailbox;
  success is reported only of a message that arrived; the call ends. A receiver that
  halts after its answer was lost makes the sender abort: the end that
  `ReliableSendEnds` allows for.
* `syscalls`: a program resumes once, behind its call; strings are cut to the buffers, and
  the copies between them write nothing outside; units and sleepers of user semaphores
  are kept.

### Bounds

Three threads are enough for a lost wake-up: one asleep, one woken, one
that overtakes it; `MaxValue` (2) bounds a semaphore's value and the interrupts
still to come, so that two units can meet two sleepers. In `monitor` four threads
allow two waiters, a signaller and a thread that comes late; over the list, three are a
producer, a consumer that sleeps and one that takes its item, and `MaxItems` (2) lets a
second item arrive while the first is still listed. The theorems hold for any number.
`MaxTid` (4) gives two joiners of one thread and a thread that waits in `Exit`; `StackPages` is smaller than the code's 16 in `user_threads` and equal to it
in `shared_stack`.

Four processes are needed for two creations at a time, and for a pid that
is used again while a third process waits on it; three frames serve three of them,
so the fourth creation races or fails. `NumPids` is larger than `MaxProcesses`: with
256 frames, at least 16 pages each and no frame ever returned, the code runs out of
frames before it runs out of its 64 pids. Which frames the first process has
(`FirstFrames`) does not matter, as all but frame 0 are alike.

`machine`: eight-bit words have all the boundaries of longer ones; two instructions put
every instruction behind every other, loads and faults included. `file_system`: two names
and a directory, nine sectors so that the disk gets full, files of two sectors over
headers with room for one, as the 32 over 30 of a directory in the code; four operations
are two completed ones and two that overlap, and enough for a directory made where an
old header names sectors of another file, and for a removal that frees them. After
a halt the operations run one at a time (`AloneAfterHalt`). `sequential_intact`: four free
sectors and nine operations, so that a sector serves as header, data and header again;
eight are the shortest way to an old header that names another file's header. It uses the constraint
`OldHeadersOnly`, so that the violation does not rest on a table's bytes read as a header. `open_files`: sectors of two bytes and sizes 0, 1 and 3
give transfers that start and end at and inside sectors, and a file that ends in the
middle of one; two entries for three files fill the table. `devices`: no operation begins
after `LastBegin`, which lets three operations overlap; a machine that waits for input
is followed up to `MaxTicks`; `MaxAvail` bounds the units that polls at the end of the
input keep adding. `post_office`: two losses can be the message, the answer, or copies of
*Resend*, and not all the copies of an attempt: with those lost the sender waits for
ever, as in the code. `syscalls`: kernel buffers are longer and shorter than the mapped
memory, and two semaphores fill the table.

Deadlock checking is off where the system may stop: processes end, the machine
halts or an assertion stops it, the bound on operations is reached, and user programs
may wait for each other in a circle. Symmetry of threads is used only in runs without
liveness properties.

### Fairness

`Threads`: kernel code with interrupts off runs on (`Dispatch`,
`AfterSwitch`); an idle machine jumps to its next interrupt (`Idle`); with `-rs`
the timer keeps asking for `Yield`. Without `-rs` a thread that never blocks keeps
the CPU, and `ReadyRuns` does not hold. `LockCond`, `UserThreads` and `Processes`: a thread
inside a call goes on when it can; callers owe nothing. There no strong fairness is
assumed: a semaphore lets a newcomer overtake a woken thread, so the properties
promise progress of the system, not that a given thread wins the race. In
`UserThreads` and `Processes` the locks are assumed to be obtained in the end.
`Devices`: the one processor does not stop while it has something to do (weak
fairness of the next step); the scheduling between threads is the ready list's, which
is modelled. `PostOffice`: devices are polled and the postal worker runs (weak
fairness); main and the timer threads compete for `sendLock` and win it now and then
(strong fairness), since the ready list and the queue of the lock are first in, first
out and no thread of these tests takes the lock without end.

### What the violated properties show

* `NoSharedStack`: the index freed by `RemoveThreadStackPointer` is not the index
  handed out. With ten pages of code, slot 2 frees slot 0.
* `SequentialIntact`: `filesys.cc` names concurrent accesses and an exit in the middle of
  an operation as the dangers to the disk. With neither, `CreateDir` can overwrite another
  file: create `f` (empty) and `d` (one sector), remove both, create `f` (one sector) and `d`
  (empty), remove `f`, create `g` (empty); a directory `f` now gets the sector where the
  first `d` had its header, which names the sector where the second `d` has its own.

### Statements the code does not keep

These are stated in the modules because a comment of the code, or a caller, suggests
them. No run checks them, since they do not hold; the weaker properties that do hold
are checked. The violated properties above are of the same kind.

* `BroadcastWakesAll` (`LockCond`): `Broadcast` gives one unit per counted sleeper, but a
  thread that has counted itself and not reached `sleepLock->P` can lose its unit to one
  that begins to wait later. The callers in this repository test in a loop and still
  make progress (`JoinReturns`, `ExitReturns`).
* `ConditionFound` (`UserThreads`): `threadConditions` is indexed by tid, and tids only grow.
* `WaitEndsWithProcess` (`Processes`): the pid of a process that ended is given to the next
  one created, and a waiter that is woken too late sees it in use and sleeps again.
  `FreedPidWakes` is what holds: unless the pid is given out again, the wait ends.
* `FaultRestarts` (`Machine`): `mipssim.cc` says that after an exception the instruction is started
  again, and only a system call is stepped over; a comment in `exception.cc` says that
  everything but `Halt` dumps core. The handler does neither: an exception that is no
  system call falls through to `UpdatePC`, and the program goes on behind the instruction.
* `PutStringWhole` (`Syscalls`): `syscall.h` says that there is no limit on the string; it is cut to
  `MAX_STRING_SIZE - 1` bytes.
* `LineFits` (`Syscalls`): `SynchGetString(s, n)` writes a NUL to `s[n]` after `n` characters, one past the
  array of its caller; `fgets`, which its comment names, stops at `n - 1`.
* `FrameFound` (`Processes`): the number of free frames is tested before they are taken one
  by one, so two creations can both pass; the loser stops the machine, or gets frame -1
  and leaves `bitmapLock` held for ever.
* `NewDirHasDots` (`FileSystem`): `CreateDir` writes the new directory's table before its
  header, so through whatever header the sector held before, or to nowhere.
* `RetriesWait` (`PostOffice`): each delay sends `MAXREEMISSIONS` copies of *Resend*, and the
  copies left over count as answers to the later attempts, which do not wait.
* `ReadDelivers` (`Syscalls`): what `Read` read is copied out as a string, so it stops at a
  NUL, and the last byte asked for gives way to a NUL.
* That every request of the disk ends (`Devices`): `Semaphore::P` tests again when it wakes, so
  without `-rs` a thread that loops on `SynchDisk` takes the lock again before the thread
  woken for it runs, which then waits for ever. A bound on operations hides it, so no run
  states it; `RequestsAnswered` is about a request once it is made.

`ExitIsLast` fails with a main thread that calls `UserThreadExit` (`MainExits = TRUE`): the
byte it clears is the low byte of `nbThreads`. When main returns or calls `Exit`, as in all
the test programs, the property holds, as long as no freed slot lands on a counter
(section 5). And `SC_Write` (`exception.cc:171`) calls
`fileSystem->Read` into a buffer of `MAX_STRING_SIZE`: in `Syscalls` the call is a service
like the others, but for the end of that buffer (`Overruns`), and no property is about it.

## 5. Proofs

A theorem holds for every value of the constants that satisfies the assumptions its
module names; a run shows the same property on one small instance. The assumptions:

| Assumption | Says |
|---|---|
| `ThreadAssumption`, `SemAssumption` | finitely many threads, `NULL` distinct; initial values within the bound |
| `LockAssumption`, `ItemAssumption` | finitely many threads, tids are naturals; `NULL` is no item |
| `LayoutAssumption` | pages of more than 16 bytes, at least a page of stack and one tid; frees within the bound on tids touch only the tables that are modelled |
| `ProcessAssumption` | more pids than processes, and the first process has its frames, none of them frame 0 |
| `OpenFilesAssumption` | sectors and the table are not empty; sizes are integers |
| `DevicesAssumption` | times and geometry are positive, seeking may take no time; finitely many threads, at least one; the input is a sequence of characters |
| `SyscallsAssumption` | finitely many threads, memory and buffers of at least a byte, at least one id |
| `FileSystemAssumption` | room for the four sectors of an empty disk and one more, at least one sector per header and per directory, files of any size, `.` and `..` no names |
| `PostOfficeAssumption` | at least one attempt |

Safety theorems have the same shape: an inductive invariant that holds initially, is
kept by each action (one lemma per action, or per kind of change where many actions make
the same one) and implies the property.

`Threads_proofs`, on `Threads` and on `UserThreads`
* `SchedulingSafe`: `TypeOK`, `ListsMatchStatus` and `OneRunning`. The inductive
  invariant is `SchedInv`, which adds `BoundOK` (interrupts to come find room
  below the bound), `AwakeOK` (only a thread that `V` can wake or has woken is
  inside `P`) and `HaltOK`. One lemma per action; `AppendLemma` and `TailLemma`
  say what the list operations do to the set of a list's elements.
* `NoWakeupLost`: `NoLostWakeup` is inductive together with `SchedInv`. `V` adds
  a unit and a woken thread; a newcomer's `P` takes a unit and no woken thread;
  a woken thread that finds a unit takes both away, and one that finds none
  sleeps again when the value is zero.
* `HaltIsFinal` follows from the two: when no thread is ready or running, no
  thread is woken, so no unit lies beside a sleeper.
* `UserContextSafe`: the inductive invariant `UserInv` says where the user state of
  the current thread is before and after `AfterSwitch`.
* `ThreadsImplementSemaphores`: every step is a step of `Semaphores` or leaves its
  variables alone.
* `ExitIsLastProved`: `threadIDs` lists the living threads, once each (`TableOK`), so the
  one entry left when `Exit` goes on is the caller's. `GivenOK`, `CreateOK` and `StackOK` are
  needed for that: a new tid is in no entry, a thread under construction has one creator,
  and what an exit clears is at the index of some slot. The theorem has two hypotheses, and
  the property fails without them. Main must not call `UserThreadExit`; and no slot may be
  freed at the place of `nbThreads` or `maxTIDGiven` (`CountersSafe`). The lemma
  `SafePrograms` says for which programs the sizes of the code grant the second: those
  whose pages of code and data leave no remainder of 2 when divided by 3. In one of eight
  pages the exit of the thread with the eighth stack clears the low byte of `nbThreads`.

`Monitor_proofs`, on `LockCond` and on `SynchList`, which is built on it
* `LockSafe`: the inductive invariant `LockInv` says for each of the three binary
  semaphores that its unit is in the semaphore or with exactly one thread
  (`LockUnit`, `LockInnerUnit`, `CondInnerUnit`), where calls return to (`RetOK`),
  that a lock nobody holds has no owner (`FreeOK`) and that a unit given is
  still counted (`DecrementDue`).
* `SleepersAlwaysCounted`: the count is preserved by each step, by arithmetic on the
  cardinalities of `Waiting` and `Paying`.
* `LockImplementsMutex`: the holder is the thread between the end of `Acquire` and the
  step of `Release` that clears the owner.
* `SynchListUsesLock`: the list uses lock and condition as `LockCond` lets any client do,
  so `LockInv` holds of it too.
* `RemoveGetsItemProved`: an action property. `Remove` ends only with an item, because it
  tests again after `Wait`.
* `ItemsHaveTakersProved`: rests on `ListInv`, which adds to `LockInv` where a thread can be
  in each operation (`OpOK`) and that the list is still empty when a consumer counts
  itself (`TestedEmpty`): between its test and the count it keeps the lock. Without the
  latter an item could come in between and wake nobody.

`Processes_proofs`
* `PidsMatchProved` from `PidInv`: the marked entries of `pids` are the pids of their
  holders, one each, from the scan that marks an entry to the step of `Exit` that clears it.
* `LastExitProved` from `CountInv`: `nbProcesses` counts the live processes.
* `FramesDisjointProved` from `FrameInv`, which adds that frame 0 stays marked: until a
  creation fails, no page table gets it.
All three use `ProcInv`: a space under construction has one creator.

`OpenFiles_proofs`
* `OneEntryProved` from `TableInv`: `nbFiles` is the number of filled entries, whose files
  differ.
* `ReadsExactProved` and `WritesExactProved` from `MoveInv`, which follows a transfer sector
  by sector: what has been read is in the buffer, what shares a sector with the bytes to
  write is in the buffer or still to be fetched, and a transfer that shares a sector with a
  write of another thread knows of it.
Integer division is handled by a handful of lemmas on `SectorOf`.

`Hardware_proofs`, on `Devices` and on `Machine`
* `InterruptsOnTimeProved` and `HaltsOnlyWhenDoneProved` from `DevInv`: the list of
  interrupts is sorted, each device has exactly the interrupt it owes there, and a halted
  machine has none but the timer's.
* `OneRequestAtATimeProved` from `UseInv`: for each driver one thread at most is between
  the lock and its release, and the unit of the semaphore that the device gives is where
  the stage of that thread says (`OneAtATime`, stated once and used for disk, display and
  keyboard).
* `InputKeptProved` from `InputInv`: the character in the buffer is the last one polled
  unless it was taken, and a line goes on where it began.
* `LatencyExactProved` from `LatencyInv`: the track buffer began to fill at the instant
  at which a sector begins to pass under the head.
* For `Machine` the invariant `MachineInv` is that registers, memory and page table hold words, bytes and
  frames of the machine, together with `CleanFramesUnchanged`; every group of
  instructions has a lemma. The reserved and the general registers are told apart in
  each, since an index that reached the wrong ones would break all four theorems.
* `CleanFramesProved` is a part of the invariant, `FaultsPreciseProved` an action property.
* `ArithmeticExactProved`: the loop of `Mult` keeps `hi * 2^32 + lo + a * (bHi * 2^32 + bLo)`
  equal to the product (with `a` what is left of it) and never carries out of `hi`, since
  the product of two words fits a double word; the negation of the two halves negates the
  double word. It holds for every width that `ByteBits` may have, the 8 of the code
  included, where TLC checks 2. Powers of two, quotients and remainders come with their
  own lemmas. The induction over the bits is an argument on the least step that fails:
  `SetInduction`, from the well-foundedness of the naturals, takes a set where the library's
  theorem takes an operator.
* `LoadDelayHiddenProved` compares an instruction run with a load pending to the same one run
  with the load done: `Delayed` relates the two states, and each group of instructions is
  shown to lead from states so related to states that look alike (`Alike`).

`Syscalls_proofs`
* `ResumesAtNextProved` and `SemaphoresKeptProved` from `SysInv`, which counts for each thread
  the updates of the program counter that its call and its faults have made (`PcInv`), and
  for each semaphore, deleted or not, its units, its queue and the threads it has woken
  (`SemInv`). They are proved together: a thread that is woken must have been in a
  `SemWait`, or its counter would move once too often.
* `StringsExactProved` from `CopyInv`: memory holds bytes, and what is to be copied out of a
  buffer of the kernel fills it or has a NUL. The loops that copy strings are recursive
  functions of the number of turns. `RunExists` says that such a function exists, `ReadOK`
  and `WriteOK` are the invariants of the two loops, by `SetInduction` on that number, and
  `TextIn` and `TextOut` conclude that the texts on both sides are equal. Each action has a
  lemma (`...Kept`) that it copies nothing else.

`PostOffice_proofs`
* `MailInOrderOnceProved` from `MailInv`: what came to a machine that is up is a prefix that
  was sorted into the mailboxes, then the mail of the postal worker, the device and the
  wire. Each action moves at most one packet from one part to the next, and lemmas on
  sequences say that this keeps their concatenation. `ForBox` is defined by ranks, not by
  recursion, so that its effect on `Append` can be proved.
* `SuccessMeansDeliveredProved`: `Good` says which packets can be under way: an
  acknowledgement only if its sender took a message. `ControlOK` says how far each main is.
  The two need each other, since what is sent depends on what was taken.

`FileSystem_proofs`
* Both theorems rest on the invariant `Good`, which says one of two things of the disk.
  `BystandersIntact` alone is not inductive: whether a write hits a bystander depends on
  what the writing thread read before.
* Until the first accident (`suspects = {}`), that is an overlap, a halt, a stray write or a
  stray free, one thread at most
  is at work (`SuspectsOK`) and the disk is `Tidy` but for its target: every entry of a
  table leads to sectors of its own (`EntriesApart`), the files of the history are the
  entries (`FilesListed`), a path names one of them (`KeysOK`), and the free map is exact.
  `CleanLocal` says for each place in an operation what its thread has read and written.
  `NothingLeaksProved` is the last part of `Tidy`.
* After that, `Calm` speaks of the bystanders only. They are intact, their sectors are
  marked in the map on the disk, every table on the disk leads to them by their own entries
  or not at all, and the stale tables, maps and headers that threads hold would not, written
  back, unlist them, unmark them or reach their sectors (`CalmLocal`). That a thread's copy
  is stale does no harm to a bystander: no operation has changed its entry since it was read.
  `BystandersIntactProved` follows.
* `Clean` implies `Calm` at the accident itself, where the bystanders become what is left
  beside the targets. Each action has a lemma (`...Moves`) with its two halves, and
  `StepKeeps` puts them together. A stray write or free is an accident in the middle of an
  operation: `AccidentGood` takes the files it hits out of the bystanders, and what
  is left is as before (`NewDirGood`, `FreeGood`). What `Allocate` takes is described by the invariant of its
  loop (`Marks`), by `SetInduction` on the number of sectors.
* The theorems speak of behaviours as far as the model follows them: to a misread sector,
  the loss of the map or the root, a broken heap, or a failed assertion.

Every safety property that a passing run checks is stated by a theorem. Only
model-checked: liveness (`ReadyRuns`, `PaidWaitersWake`, `JoinReturns`, `ExitReturns`,
`FreedPidWakes`, `RequestsAnswered`, `ReliableSendEnds`), since the prover knows neither
fairness nor ENABLED.

## 6. Not modelled

* Translation through a TLB: no configuration of this repository enables it.
* The host layer (`sysdep.cc`), but for the polling of input and sockets that the
  devices do; debugging output, statistics, the command line of `main.cc`.
* The object-file tools and the second simulator in `bin/`: offline, not part of the
  kernel.
* The test programs, which are clients like any other. Of `nettest.cc`, `TestWait` and
  `MailTest` are modelled and `LogicCycle` is not.
* The context switch (`switch.S`) is taken as given.
* `FileSystem` follows no thread that would walk into a sector as what was never written
  there, and nothing after the free map or the root was overwritten or freed: what the code
  then does depends on the bytes. It writes nothing into files. `OpenFiles` and `Syscalls` stop at the use of
  a deleted object for the same reason.
* In `UserThreads`, writes that reach the fields of `AddrSpace` behind `maxTIDGiven` are
  excluded by `LayoutAssumption`, and the assertion of `GetThreadStackPointer` that a slot
  is found is modelled but needs more tids than the runs explore.
