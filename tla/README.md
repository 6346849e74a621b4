# A TLA+ verification project for os20

The repository holds the programs of an operating systems course: an xv6 kernel
with a priority scheduler and new system calls (`project3`), pthread programs
(`project4`), a memory manager (`project5`), a small file system (`project6`), a
shell and `/proc` readers (`project2`). This directory models the parts in which
concurrency, crashes or long sequences of calls decide whether the code is
right, checks them with TLC on small instances, and proves the central results
with TLAPS for every instance.

## 1. Inventory

| part | state | operations | what is hard | module |
|---|---|---|---|---|
| semaphore, `project4/3/SSU_Sem.c` | counter, three mutexes, a condition | init, down, up | lost wakeups, lock order | `SSU_Sem` |
| reader-writer locks, `project4/2/rw_lock-{r,w}-test.c` | two counters, conditions, mutexes | r/w lock and unlock | counters read under one mutex and used under another; starvation | `RWLock` |
| thread pool, `project4/1/master-worker.c` | bounded stack, loop indices | produce, consume, join | single signals, work split by two divisions | `MasterWorker` |
| processes, xv6 `proc.c`, `trap.c`, `sysproc.c` | process table, scheduler, current process | fork, exit, wait, sleep, kill, set_prio, timer | preemption in fork, zombies and orphans, stale priorities, starvation | `Proc`, `ProcScan` |
| file system log, xv6 `log.c` | log header in memory and on disk, log and home blocks, buffers | begin_op, log_write, end_op, commit, recovery | crashes, reserved space, pinned buffers, panics | `Log` |
| pipes, xv6 `pipe.c` | ring buffer, two counters, two ends | read, write, close | wakeups, wrapping counters, kill | `Pipe` |
| page allocator, `project5/alloc.c` | doubly linked chunk list | alloc, dealloc | splits and merges of a doubly linked list | `ChunkList`, `Alloc` |
| elastic allocator, `project5/ealloc.c` | one chunk list per page | the same, pages on demand | page table bound, page of a pointer | planned |
| ssufs, `project6` | superblock, inodes, blocks, handles | create, delete, open, close, read, write, lseek | partial writes, stale handles | planned |
| buffer cache and disk, xv6 `bio.c`, `ide.c`, `sleeplock.c` | LRU list, request queue | bget, brelse, iderw, interrupt | two processes on one block | planned |
| inodes, files, xv6 `fs.c`, `file.c`, `sysfile.c` | inode cache, file table | iget, iput, link, unlink, open, close | reference counts, last unlink | planned |
| console, xv6 `console.c` | line buffer | interrupt, read | interrupt edits what is read | planned |
| memory, xv6 `kalloc.c`, `umalloc.c` | free lists | alloc, free | coalescing | planned |
| shell, `project2/ssu_shell.c` | command queue, children | run serially, in parallel | waiting for the right children | planned |

Not planned: booting and interrupt controllers (hardware programming), page
tables and `exec` (layout), system call argument fetching, `pps` and `ttop`
(formatting of `/proc`), the measurement programs of `project1`, the xv6 user
programs and the test programs, which are callers.

The parts interact in few places, and the modules keep them: pipes and the log
sleep and wake through `proc.c`; `kill` reaches a process wherever it sleeps;
the log pins buffers in the cache; files close pipes.

## 2. Modules

**`PthreadCond`, `Pthread`** are the POSIX library, outside the repository:
conditions as sets of waiting threads (`Signal` wakes any one, `Broadcast` all,
`SpuriousWakeup` is always possible), mutexes with their owners.

**`SSU_Sem`** follows a thread lock by lock. `CountingSemaphore` is what a
semaphore promises; the refinement mapping gives a thread its permit when it
leaves the loop of `SSU_Sem_down`, so that the one it has subtracted while it
waits still counts as a permit.

**`RWLock`** has the critical sections that the two locks share and the two
orders in which `r_lock` and `w_lock` use them; the variable `preferred`, chosen
at the start, says which of the two files is linked. Each counter is only
touched under its own mutex, and those sections end or block, so a section is a
step.

**`MasterWorker`** has one step per critical section of the only mutex, with
the same arithmetic for the chunks of masters and workers as the code. The
command line arguments are variables chosen at the start.

**`Proc`** is the kernel on its one CPU (`NCPU` is 1 in this tree): `state`,
`pid`, `parent`, `chan`, `killed`, `prio` and `nextpid` are the table; `at[p]` is
where a process is (user space or a point in the kernel); `cur` the process on
the CPU; `lock` whether `ptable.lock` is held, in which case no interrupt comes;
`spc`, `slot`, `highest` are the scheduler's loop. A section of `ptable.lock` that
does not switch is one step. Code that runs without the lock (the scan for the
highest priority, `fork` between `allocproc` and its end, `exit` before the lock)
can be preempted between any two steps that matter. The lock is handed over in
`sched` and `swtch` as the code does it. Before it takes the lock `exit` closes
files and releases its directory, and sleeps there for the log, a buffer or a
lock (`ExitSleep`); these channels are one, `fs`, and whoever wakes them is
`FsWakeup`. A kill makes such a sleeper runnable, and it goes on sleeping, as
none of those loops looks at `killed`. `kill` is not called with the pid of init,
on which `exit` panics ("init exiting"). `passedOver` is a history variable.
`ProcScan` adds `get_num_proc`, one table slot at a time. It starts from a
table that is almost full (`ScanInit`) to reach the interesting cases sooner.

**`Log`** has the disk (home blocks, log blocks, header), the buffer cache
and `struct log`. A block write is atomic, as `BSIZE` is a sector; everything
else may be cut short by `Crash`, which keeps the disk and loses the memory. The
test at the start of `log_write` is a step of its own as it is made without
`log.lock`. The log has `LOGSIZE` blocks with its header (`mkfs.c:25`), so
`LOGSIZE - 1` for data; `logdata` has one entry more, for the block that follows
the log on the disk. The cache has `NBUF = LOGSIZE` buffers, as in `param.h`;
`bget` panics when a block that is not cached finds all of them pinned or locked.
An operation locks one buffer at a time in the model. The four panics of
`log_write`, `end_op` and `bget` stop the machine until `Crash`. `Transactions` is what the log promises: operations that overlap
share a transaction that becomes durable at once, while no operation is active.

**`Pipe`** follows readers and writers between `acquire` and `release` byte by
byte. The counters wrap at `Width` (2^32 in the code); the bytes are numbered, and
a call may ask for none.

**`ChunkList`** is the list of one page, `Alloc` the allocator with a client
that frees each of its blocks once. Sizes are in units of `MINALLOC`. The
action `Alloc` is the code's and takes any request; it is the client, `Requests`,
that the constant `MidSplits` restricts: where it is FALSE the client makes no
request that splits a chunk which is not the last one of the list.

`MCLog` only adds a symmetry set. `MCSync` puts the two objects of project4 into
one run: the variable `linked` says whether the program uses the semaphore or a
reader-writer lock, and the other one does not move.

## 3. Runs

Passing runs:

| run | bounds | shows |
|---|---|---|
| `Sync_objects` | semaphore: 3 threads, value 1, 3 ups; locks: 3 readers, 2 writers, both files | semaphore: mutexes are exclusive, one waiter at most, no wakeup is lost, and it is a counting semaphore, fairness included. Locks: writers exclude each other, counters exact, no lost wakeup, the preferred side gets in |
| `MasterWorker_pool` | all arguments up to 5 items, buffer 2, 2 masters, 3 workers | exactly once, nobody spins, nothing left; termination with one worker |
| `Proc_table` | 3 slots, 2 priorities, 4 pids | consistency of the table, no missed zombie, bounded priority inversion |
| `Proc_fair` | 3 slots, 1 priority, 3 pids | zombies of init are reaped, killed processes exit, once the file system lets `exit` through, round robin |
| `Log_transactions` | 3 processes, 3 blocks, 2 values, log of 3, operations of 1 | `lh.block` has room for all that active operations may write, commits are alone, sleepers are woken, clean when quiet, the block behind the log is kept, atomic transactions across crashes and panics |
| `Pipe_bytes` | 1 reader, 2 writers, 2 bytes, counters mod 4, 5 bytes sent | first in first out, no lost wakeup, everybody gets out |
| `Alloc_exact` | page of 6 units, a client that makes no splits in the middle | for such a client: list partitions the page, no double allocation, free memory usable |

The bounds are chosen so that every action fires and the mutants of the
next paragraph are caught. Two priorities are needed for an inversion, but one
where a property is about liveness, since a strict priority starves the others;
`LOGSIZE` is three times `MAXOPBLOCKS` as in `param.h`, so that three operations
can be active while the log is empty and must wait once it fills, three can pass
the test of `log_write` together, and `log_write` and `bget` can panic; a counter width of twice the pipe is needed for wrapping; six units for merges on both
sides. `MaxPid` bounds the forks of a behaviour, `MaxUps` the ups, `MaxCall` and
`MaxBytes` the bytes. An init that sleeps beside an orphan that is a zombie needs
a fourth slot: that case of `NoMissedZombie` is covered by its proof.

`BlockBehindLogKept` is about the test that `log_write` makes without the lock:
three operations that pass it together fill a log of two data blocks with three.
The third would be written to the block after the log. It is not, but only
because three pinned buffers are the whole cache and `bget` panics at the first
block of the log; with one buffer more (the mutant) the property fails.

`PidsUnique` includes slots that are free: a failed `fork` leaves its pid behind,
and `kill` takes the first slot with the pid it looks for.

Deadlock is checked in every run. `MasterWorker` and `Pipe` have a final
stuttering step for the state in which everybody has finished.

For every property of a passing run `PROJECT.json` names a mutant, an operator
`Action_WhatIsWrong` next to the action it changes, under which the property
fails: a missing broadcast, a dropped guard, an unpinned buffer.

Runs that TLC refutes, each a disagreement of the code with what the repository
says:

| run | what happens |
|---|---|
| `RWLock_exclusion` | the check and the count are in different critical sections, so a reader and a writer get in together; `reader_test.c:167` prints that this is not allowed |
| `MasterWorker_termination` | single signals leave workers asleep beside a filled buffer; `project4/README.md:57` wants all threads to end |
| `ProcScan_snapshot` | `get_num_proc` without the lock returns a number that never was; `project3/README.md:120` wants the lock |
| `Log_reservation` | `begin_op` reserves against `LOGSIZE`, and `log_write` panics one block earlier, since the header takes one: operations that write no more than `MAXOPBLOCKS` stop the kernel with "too big a transaction"; `log.c:133` and `param.h:11` say that the space is there |
| `Alloc_double` | a split in the middle of the list leaves a stale `prev`: memory in use is handed out again; `project5/README.md:60` forbids it. For the same reason adjacent free chunks may stay apart |

The models have more behaviours that deserve attention and are not the subject
of a run: a strict priority starves the lower ones (`proc.c:347`, against
`project3/README.md:132`); a failed `fork` leaves its pid in the slot, where
`get_proc_info` and `kill` find it, and `allocproc` does not clear `killed`
(`proc.c:498`); the cache can run out of buffers in `commit` (`bio.c:92`); a writer
killed at a full pipe returns without waking the readers (`pipe.c:86-88`), which
is why `NoLostWakeup` of `Pipe` leaves killed writers out.

## 4. Fairness

* Threads (`SSU_Sem`, `RWLock`, `MasterWorker`): weak fairness of each thread's
  steps inside the functions, which is a scheduler that runs what can run.
  Calling a function is never fair. Strong fairness for a mutex is not assumed.
* `Proc`, `CpuSpec`: the CPU goes on (weak fairness of the scheduler and of the
  kernel's steps), and the timer, which is strongly fair because an interrupt
  raised while a lock is held stays pending until interrupts are on again.
* `Proc`, `FairSpec` adds that a process which gets the CPU again and again gets
  through the kernel code it is in (`Advance`: a time slice is longer, the ticks a
  sleeper waits for pass, and `exit` gets from the file system what it waits
  for), that the file system wakes its sleepers (`FsWakeup`), and that init calls
  `wait` in a loop, which is its program (`init.c`). The last is used by
  `ZombiesReaped`, the others by both.
* `Pipe`: a process gets the lock if it is free again and again, and every
  process closes its end, as `exit` does.
* `Log` is checked for safety only; `SleepersAreWoken` is the invariant behind the
  progress of `begin_op`.

## 5. Proofs

`SSU_Sem_proofs` proves, for any set of threads, any initial value and any number
of ups, `LockDiscipline`, `OneWaiter` and `NoLostWakeup`, and that every
step of `SSU_Sem` is a step or a stutter of the abstract semaphore
(`SafeRefinement`). The inductive invariant `SemInv` is `TypeOK` with these three;
`OneWaiter` needs `LockDiscipline` (whoever is in the loop owns `mutex_down`), and
the refinement needs `OneWaiter`, as the permits are `counter + 1` while one
thread is pending and would be more with two.

`Proc_proofs` proves for any number of slots, priorities and pids `TypeOK`,
`OneRunning`, `ParentsAlive`, `NoMissedZombie`, `PidsUnique`, `EmbryosOwned` and
`KilledAwake`. The inductive invariant `ProcInv` adds two facts: init is never a
zombie and is where it should be (`InitprocStays`), and what the parent field of a
slot may be while nobody uses it (`SlotParents`). Without the second, `exit` could
hand a free slot to init, and `wait` would count it as a child. `KilledAwake` says
that a killed process sleeps nowhere but in `exit`, for the file system; that it
gets out of there is `KilledExit`, which is only model-checked. There is one
lemma per conjunct and one step per action in it. `NoMissedZombie` is the argument
of `wait`: a process goes to sleep with the lock held since its scan, and `exit`
wakes its parent in the section in which it becomes a zombie, or wakes init when
it passes a zombie on.

The assumptions are those of the modules (`ValueAssumption`, `MaxUpsAssumption`,
`NPROCAssumption`, `MaxPidAssumption`), which are evaluated by the runs.

Only model-checked: everything about liveness (the prover has no `ENABLED`),
`BoundedInversion`, and all results on `RWLock`, `MasterWorker`, `Log`, `Pipe`
and `Alloc`.

## 6. Plan

1. `Ssufs`: inodes, data blocks and handles of project6, against a map from names
   to contents; `project6/README.md` asks a failed write to leave the file system
   as it was, and `ssufs-ops.c:127` returns after earlier blocks were allocated.
2. `Ealloc`: pages on demand over `ChunkList`.
3. `Bio`, with sleep locks and the disk queue of `ide.c`; then `Log` over it.
4. `Inode` and `FileTable`: reference counts, `iput` of an unlinked inode,
   `fileclose`.
5. `Console`; `Kalloc` and `Umalloc`; `SsuShell`; the remaining scans of the
   process table.
6. Proofs: `BoundedInversion`; `HeaderHasRoom` and the refinement of
   `Transactions` by `Log`; `FirstInFirstOut` of `Pipe`; `CountersExact` and
   `WritersExclude` of the two locks; `ExactlyOnce` of `MasterWorker`.
