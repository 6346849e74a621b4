-------------------------------- MODULE Proc --------------------------------
(***************************************************************************)
(* Process management of the modified xv6 kernel (proc.c with trap.c and   *)
(* sysproc.c): the process table, fork, exit, wait, kill, sleep and        *)
(* wakeup, set_prio, the timer interrupt and the priority scheduler.       *)
(*                                                                         *)
(* param.h sets NCPU to 1.  Holding ptable.lock disables interrupts, so on *)
(* the one CPU a critical section of ptable.lock is a single step; outside *)
(* of it the timer may preempt a process, in the kernel too, or interrupt  *)
(* the scheduler while it scans the table without the lock.  A slot of the *)
(* table stands for a struct proc, its number for the pointer to it.       *)
(***************************************************************************)
EXTENDS Integers

CONSTANTS NPROC,    \* slots of the process table
          Prios,    \* the arguments set_prio is called with
          MaxPid    \* bound: the last pid allocproc hands out

ASSUME NPROCAssumption == NPROC \in Nat \ {0}
ASSUME PriosAssumption == Prios \subseteq Int
ASSUME MaxPidAssumption == MaxPid \in Nat \ {0}

VARIABLES state, pid, parent, chan, killed, prio,   \* the fields of struct proc
          nextpid,
          at,       \* what each process does in the kernel, or "user"
          np,       \* np of fork, while it runs
          cur,      \* c->proc
          lock,     \* ptable.lock is held
          spc, slot, highest,   \* scheduler(): its two loops, p and highest
          passedOver  \* history: how often a lower priority was dispatched
                      \* since this process became RUNNABLE

table == <<state, pid, parent, chan, killed, prio, nextpid>>
sched == <<spc, slot, highest, passedOver>>
vars == <<table, sched, at, np, cur, lock>>

Slots == 0..(NPROC - 1)
initproc == 0
NULL == -1
ticks == NPROC          \* the channel &ticks: no slot has this address
fs == NPROC + 1         \* any channel of the file system: &log, a lock, a buffer
Chans == Slots \cup {NULL, ticks, fs}

States == {"UNUSED", "EMBRYO", "SLEEPING", "RUNNABLE", "RUNNING", "ZOMBIE"}

\* userinit, run by main before the scheduler starts.
Init ==
    /\ state = [p \in Slots |-> IF p = initproc THEN "RUNNABLE" ELSE "UNUSED"]
    /\ pid = [p \in Slots |-> IF p = initproc THEN 1 ELSE 0]
    /\ parent = [p \in Slots |-> NULL]
    /\ chan = [p \in Slots |-> NULL]
    /\ killed = [p \in Slots |-> FALSE]
    /\ prio = [p \in Slots |-> 0]
    /\ nextpid = 2
    /\ at = [p \in Slots |-> IF p = initproc THEN "forkret" ELSE "user"]
    /\ np = [p \in Slots |-> NULL]
    /\ cur = NULL
    /\ lock = FALSE
    /\ spc = "scan" /\ slot = 0 /\ highest = 0
    /\ passedOver = [p \in Slots |-> 0]

-----------------------------------------------------------------------------
\* sleep and wakeup

\* wakeup1(c), from the states st: the sleepers on c become RUNNABLE.
wakeup1(st, c) ==
    [p \in Slots |-> IF st[p] = "SLEEPING" /\ chan[p] = c THEN "RUNNABLE" ELSE st[p]]

\* sched(): back to the loop of the scheduler, ptable.lock still held.
SwitchToScheduler ==
    /\ cur' = NULL
    /\ lock' = TRUE
    /\ UNCHANGED sched

\* Process p runs in the kernel or in user space with interrupts enabled.
Runs(p, where) == cur = p /\ ~lock /\ at[p] = where

\* The same at a system call: trap() does not start one for a killed process.
Calls(p) == Runs(p, "user") /\ ~killed[p]

Continue(p, where) == at' = [at EXCEPT ![p] = where]

\* trap() on its way back to user space: a killed process exits.
BackTo(p) == IF killed[p] THEN "exit" ELSE "user"
Return(p) == Continue(p, BackTo(p))

-----------------------------------------------------------------------------
\* scheduler()

Scan ==
    /\ cur = NULL /\ ~lock /\ spc = "scan" /\ slot < NPROC
    /\ highest' = IF state[slot] = "RUNNABLE" /\ prio[slot] >= highest
                  THEN prio[slot] ELSE highest
    /\ slot' = slot + 1
    /\ UNCHANGED <<table, at, np, cur, lock, spc, passedOver>>

StartPass ==
    /\ cur = NULL /\ ~lock /\ spc = "scan" /\ slot = NPROC
    /\ lock' = TRUE /\ spc' = "loop" /\ slot' = 0
    /\ UNCHANGED <<table, at, np, cur, highest, passedOver>>

Eligible == {p \in Slots : p >= slot /\ state[p] = "RUNNABLE" /\ prio[p] = highest}

Dispatch_SkipsOne ==
    /\ cur = NULL /\ lock /\ spc = "loop"
    /\ \E p \in Eligible :
        /\ \A q \in Eligible : p <= q
        /\ cur' = p
        /\ state' = [state EXCEPT ![p] = "RUNNING"]
        /\ chan' = [chan EXCEPT ![p] = NULL]
        /\ slot' = p + 2
        /\ passedOver' = [q \in Slots |->
               IF q = p \/ state[q] # "RUNNABLE" THEN 0
               ELSE IF prio[q] > prio[p] THEN passedOver[q] + 1
               ELSE passedOver[q]]
    /\ UNCHANGED <<pid, parent, killed, prio, nextpid, at, np, lock, spc, highest>>

Dispatch_FromTheStart ==
    /\ cur = NULL /\ lock /\ spc = "loop"
    /\ \E p \in Eligible :
        /\ \A q \in Eligible : p <= q
        /\ cur' = p
        /\ state' = [state EXCEPT ![p] = "RUNNING"]
        /\ chan' = [chan EXCEPT ![p] = NULL]
        /\ slot' = 0
        /\ passedOver' = [q \in Slots |->
               IF q = p \/ state[q] # "RUNNABLE" THEN 0
               ELSE IF prio[q] > prio[p] THEN passedOver[q] + 1
               ELSE passedOver[q]]
    /\ UNCHANGED <<pid, parent, killed, prio, nextpid, at, np, lock, spc, highest>>

\* swtch to the next eligible process; one that was in sleep() clears its chan
\* before it releases the lock.
Dispatch ==
    /\ cur = NULL /\ lock /\ spc = "loop"
    /\ \E p \in Eligible :
        /\ \A q \in Eligible : p <= q
        /\ cur' = p
        /\ state' = [state EXCEPT ![p] = "RUNNING"]
        /\ chan' = [chan EXCEPT ![p] = NULL]
        /\ slot' = p + 1
        /\ passedOver' = [q \in Slots |->
               IF q = p \/ state[q] # "RUNNABLE" THEN 0
               ELSE IF prio[q] > prio[p] THEN passedOver[q] + 1
               ELSE passedOver[q]]
    /\ UNCHANGED <<pid, parent, killed, prio, nextpid, at, np, lock, spc, highest>>

EndPass_KeepsHighest ==
    /\ cur = NULL /\ lock /\ spc = "loop" /\ Eligible = {}
    /\ lock' = FALSE /\ spc' = "scan" /\ slot' = NPROC
    /\ UNCHANGED <<table, at, np, cur, highest, passedOver>>

EndPass ==
    /\ cur = NULL /\ lock /\ spc = "loop" /\ Eligible = {}
    /\ lock' = FALSE /\ spc' = "scan" /\ slot' = 0 /\ highest' = 0
    /\ UNCHANGED <<table, at, np, cur, passedOver>>

\* The process just switched to returns from sched(), or starts in forkret,
\* and releases ptable.lock; one in wait() keeps it and scans again.  A process
\* preempted in user space exits if it was killed meanwhile, a new one does not.
Resume(p) ==
    /\ cur = p /\ lock /\ at[p] # "wait"
    /\ lock' = FALSE
    /\ \/ at[p] = "user" /\ Return(p)
       \/ at[p] = "forkret" /\ Continue(p, "user")
       \/ at[p] \notin {"user", "forkret"} /\ UNCHANGED at
    /\ UNCHANGED <<table, sched, np, cur>>

-----------------------------------------------------------------------------
\* fork

ForkAlloc_SamePid(p) ==
    /\ Calls(p)
    /\ nextpid <= MaxPid
    /\ \E n \in Slots :
        /\ state[n] = "UNUSED"
        /\ \A m \in Slots : state[m] = "UNUSED" => n <= m
        /\ state' = [state EXCEPT ![n] = "EMBRYO"]
        /\ prio' = [prio EXCEPT ![n] = 0]
        /\ pid' = [pid EXCEPT ![n] = nextpid]
        /\ np' = [np EXCEPT ![p] = n]
    /\ UNCHANGED nextpid
    /\ Continue(p, "fork")
    /\ UNCHANGED <<parent, chan, killed, sched, cur, lock>>

ForkAlloc_StaysUnused(p) ==
    /\ Calls(p)
    /\ nextpid <= MaxPid
    /\ \E n \in Slots :
        /\ state[n] = "UNUSED"
        /\ \A m \in Slots : state[m] = "UNUSED" => n <= m
        /\ prio' = [prio EXCEPT ![n] = 0]
        /\ pid' = [pid EXCEPT ![n] = nextpid]
        /\ np' = [np EXCEPT ![p] = n]
    /\ nextpid' = nextpid + 1
    /\ Continue(p, "fork")
    /\ UNCHANGED <<state, parent, chan, killed, sched, cur, lock>>

\* allocproc: the first UNUSED slot becomes an EMBRYO with a new pid.
ForkAlloc(p) ==
    /\ Calls(p)
    /\ nextpid <= MaxPid
    /\ \E n \in Slots :
        /\ state[n] = "UNUSED"
        /\ \A m \in Slots : state[m] = "UNUSED" => n <= m
        /\ state' = [state EXCEPT ![n] = "EMBRYO"]
        /\ prio' = [prio EXCEPT ![n] = 0]
        /\ pid' = [pid EXCEPT ![n] = nextpid]
        /\ np' = [np EXCEPT ![p] = n]
    /\ nextpid' = nextpid + 1
    /\ Continue(p, "fork")
    /\ UNCHANGED <<parent, chan, killed, sched, cur, lock>>

\* No memory for the kernel stack or for the copy of the address space.
ForkFail(p) ==
    /\ Runs(p, "fork")
    /\ state' = [state EXCEPT ![np[p]] = "UNUSED"]
    /\ np' = [np EXCEPT ![p] = NULL]
    /\ Return(p)
    /\ UNCHANGED <<pid, parent, chan, killed, prio, nextpid, sched, cur, lock>>

\* The address space is copied and np->parent set, without the lock.
ForkCopy(p) ==
    /\ Runs(p, "fork")
    /\ parent' = [parent EXCEPT ![np[p]] = p]
    /\ Continue(p, "forked")
    /\ UNCHANGED <<state, pid, chan, killed, prio, nextpid, np, sched, cur, lock>>

\* The child can run, at the priority of its parent.
ForkDone(p) ==
    /\ Runs(p, "forked")
    /\ state' = [state EXCEPT ![np[p]] = "RUNNABLE"]
    /\ prio' = [prio EXCEPT ![np[p]] = prio[p]]
    /\ at' = [at EXCEPT ![np[p]] = "forkret", ![p] = BackTo(p)]
    /\ np' = [np EXCEPT ![p] = NULL]
    /\ UNCHANGED <<pid, parent, chan, killed, nextpid, sched, cur, lock>>

-----------------------------------------------------------------------------
\* exit

\* The system call, or trap() for a killed process, before the files are closed.
\* init never exits (exit() panics).
ExitCall(p) ==
    /\ Runs(p, "user") /\ p # initproc
    /\ Continue(p, "exit")
    /\ UNCHANGED <<table, sched, np, cur, lock>>

\* A fault in user space: trap() kills the process, and it exits.
Fault(p) ==
    /\ Runs(p, "user") /\ p # initproc
    /\ killed' = [killed EXCEPT ![p] = TRUE]
    /\ Continue(p, "exit")
    /\ UNCHANGED <<state, pid, parent, chan, prio, nextpid, sched, np, cur, lock>>

Exit_KeepsChildren(p) ==
    /\ Runs(p, "exit")
    /\ state' = [wakeup1(state, parent[p]) EXCEPT ![p] = "ZOMBIE"]
    /\ SwitchToScheduler
    /\ UNCHANGED <<pid, parent, chan, killed, prio, nextpid, at, np>>

Exit_NoParentWakeup(p) ==
    /\ Runs(p, "exit")
    /\ parent' = [q \in Slots |-> IF parent[q] = p THEN initproc ELSE parent[q]]
    /\ state' = [state EXCEPT ![p] = "ZOMBIE"]
    /\ SwitchToScheduler
    /\ UNCHANGED <<pid, chan, killed, prio, nextpid, at, np>>

\* fileclose(), begin_op() and iput() sleep, each in a loop that tests what it
\* waits for and never looks at killed.
ExitSleep(p) ==
    /\ Runs(p, "exit")
    /\ chan' = [chan EXCEPT ![p] = fs]
    /\ state' = [state EXCEPT ![p] = "SLEEPING"]
    /\ SwitchToScheduler
    /\ UNCHANGED <<pid, parent, killed, prio, nextpid, at, np>>

\* The disk has answered, or another process has ended its operation or released
\* its lock.
FsWakeup ==
    /\ ~lock
    /\ state' = wakeup1(state, fs)
    /\ UNCHANGED <<pid, parent, chan, killed, prio, nextpid, sched, at, np, cur, lock>>

\* Wake the parent, pass the children to init, waking it if one is a zombie.
Exit(p) ==
    /\ Runs(p, "exit")
    /\ parent' = [q \in Slots |-> IF parent[q] = p THEN initproc ELSE parent[q]]
    /\ LET zombies == {q \in Slots : parent[q] = p /\ state[q] = "ZOMBIE"}
           woken == IF zombies = {} THEN wakeup1(state, parent[p])
                    ELSE wakeup1(wakeup1(state, parent[p]), initproc)
       IN  state' = [woken EXCEPT ![p] = "ZOMBIE"]
    /\ SwitchToScheduler
    /\ UNCHANGED <<pid, chan, killed, prio, nextpid, at, np>>

-----------------------------------------------------------------------------
\* wait

WaitCall(p) ==
    /\ Calls(p)
    /\ lock' = TRUE
    /\ Continue(p, "wait")
    /\ UNCHANGED <<table, sched, np, cur>>

\* In the loop of wait(), ptable.lock held.
Waits(p) == cur = p /\ lock /\ at[p] = "wait"
Children(p) == {q \in Slots : parent[q] = p}
ZombieChildren(p) == {q \in Children(p) : state[q] = "ZOMBIE"}

WaitReap(p) ==
    /\ Waits(p)
    /\ \E q \in ZombieChildren(p) :
        /\ \A r \in ZombieChildren(p) : q <= r
        /\ pid' = [pid EXCEPT ![q] = 0]
        /\ parent' = [parent EXCEPT ![q] = NULL]
        /\ killed' = [killed EXCEPT ![q] = FALSE]
        /\ prio' = [prio EXCEPT ![q] = 0]
        /\ state' = [state EXCEPT ![q] = "UNUSED"]
    /\ lock' = FALSE
    /\ Return(p)
    /\ UNCHANGED <<chan, nextpid, sched, np, cur>>

WaitFails(p) ==
    /\ Waits(p)
    /\ ZombieChildren(p) = {}
    /\ Children(p) = {} \/ killed[p]
    /\ lock' = FALSE
    /\ Return(p)
    /\ UNCHANGED <<table, sched, np, cur>>

WaitSleep_IgnoresKill(p) ==
    /\ Waits(p)
    /\ ZombieChildren(p) = {}
    /\ Children(p) # {}
    /\ chan' = [chan EXCEPT ![p] = p]
    /\ state' = [state EXCEPT ![p] = "SLEEPING"]
    /\ SwitchToScheduler
    /\ UNCHANGED <<pid, parent, killed, prio, nextpid, at, np>>

\* sleep(curproc, &ptable.lock)
WaitSleep(p) ==
    /\ Waits(p)
    /\ ZombieChildren(p) = {}
    /\ Children(p) # {} /\ ~killed[p]
    /\ chan' = [chan EXCEPT ![p] = p]
    /\ state' = [state EXCEPT ![p] = "SLEEPING"]
    /\ SwitchToScheduler
    /\ UNCHANGED <<pid, parent, killed, prio, nextpid, at, np>>

-----------------------------------------------------------------------------
\* sys_sleep: sleep on &ticks until enough of them have passed.

SleepCall(p) ==
    /\ Calls(p)
    /\ Continue(p, "sleep")
    /\ UNCHANGED <<table, sched, np, cur, lock>>

SleepReturn(p) ==
    /\ Runs(p, "sleep")
    /\ Return(p)
    /\ UNCHANGED <<table, sched, np, cur, lock>>

SleepAgain(p) ==
    /\ Runs(p, "sleep") /\ ~killed[p]
    /\ chan' = [chan EXCEPT ![p] = ticks]
    /\ state' = [state EXCEPT ![p] = "SLEEPING"]
    /\ SwitchToScheduler
    /\ UNCHANGED <<pid, parent, killed, prio, nextpid, at, np>>

-----------------------------------------------------------------------------
\* kill, set_prio

Kill_NoWakeup(p, id) ==
    /\ Calls(p)
    /\ \E q \in Slots :
        /\ pid[q] = id /\ \A r \in Slots : pid[r] = id => q <= r
        /\ IF q = p THEN Continue(p, "exit") ELSE UNCHANGED at
        /\ killed' = [killed EXCEPT ![q] = TRUE]
    /\ UNCHANGED <<state, pid, parent, chan, prio, nextpid, sched, np, cur, lock>>

\* The first slot with that pid; a sleeper is made RUNNABLE.  A process that
\* kills itself exits when the system call returns.
Kill(p, id) ==
    /\ Calls(p)
    /\ \E q \in Slots :
        /\ pid[q] = id /\ \A r \in Slots : pid[r] = id => q <= r
        /\ IF q = p THEN Continue(p, "exit") ELSE UNCHANGED at
        /\ killed' = [killed EXCEPT ![q] = TRUE]
        /\ state' = IF state[q] = "SLEEPING"
                    THEN [state EXCEPT ![q] = "RUNNABLE"] ELSE state
    /\ UNCHANGED <<pid, parent, chan, prio, nextpid, sched, np, cur, lock>>

\* The pids kill is called with.  Killing init makes exit() panic: left out.
Killable == 0..MaxPid \ {1}

set_prio(p, n) ==
    /\ Calls(p)
    /\ prio' = [prio EXCEPT ![p] = n]
    /\ UNCHANGED <<state, pid, parent, chan, killed, nextpid, sched, at, np, cur, lock>>

-----------------------------------------------------------------------------
\* The timer interrupt in trap(): wake the sleepers on ticks, then make the
\* interrupted process yield, or exit if it was killed in user space.

TimerIdle ==
    /\ cur = NULL /\ ~lock
    /\ state' = wakeup1(state, ticks)
    /\ UNCHANGED <<pid, parent, chan, killed, prio, nextpid, sched, at, np, cur, lock>>

KilledInUser(p) == at[p] = "user" /\ killed[p]

TimerYield_StaysRunning(p) ==
    /\ cur = p /\ ~lock
    /\ ~KilledInUser(p)
    /\ state' = wakeup1(state, ticks)
    /\ SwitchToScheduler
    /\ UNCHANGED <<pid, parent, chan, killed, prio, nextpid, at, np>>

TimerYield(p) ==
    /\ cur = p /\ ~lock
    /\ ~KilledInUser(p)
    /\ state' = [wakeup1(state, ticks) EXCEPT ![p] = "RUNNABLE"]
    /\ SwitchToScheduler
    /\ UNCHANGED <<pid, parent, chan, killed, prio, nextpid, at, np>>

TimerExit(p) ==
    /\ cur = p /\ ~lock
    /\ KilledInUser(p)
    /\ state' = wakeup1(state, ticks)
    /\ Continue(p, "exit")
    /\ UNCHANGED <<pid, parent, chan, killed, prio, nextpid, sched, np, cur, lock>>

-----------------------------------------------------------------------------
Scheduler ==
    \/ Scan \/ StartPass \/ Dispatch \/ EndPass
    \/ \E p \in Slots : Resume(p)

\* The kernel works for p: no choice of the program is involved.
Advance(p) ==
    \/ ForkFail(p) \/ ForkCopy(p) \/ ForkDone(p)
    \/ Exit(p)
    \/ WaitReap(p) \/ WaitFails(p) \/ WaitSleep(p)
    \/ SleepReturn(p)

KernelStep(p) == Advance(p) \/ SleepAgain(p) \/ ExitSleep(p)

SystemCall(p) ==
    \/ ForkAlloc(p)
    \/ ExitCall(p) \/ Fault(p)
    \/ WaitCall(p)
    \/ SleepCall(p)
    \/ \E id \in Killable : Kill(p, id)
    \/ \E n \in Prios : set_prio(p, n)

Timer == TimerIdle \/ \E p \in Slots : TimerYield(p) \/ TimerExit(p)

Next ==
    \/ Scheduler
    \/ \E p \in Slots : KernelStep(p) \/ SystemCall(p)
    \/ Timer
    \/ FsWakeup

Spec == Init /\ [][Next]_vars

\* The CPU runs.  A timer interrupt raised while a lock is held stays pending
\* and is taken once interrupts are on.
CpuSpec ==
    /\ Spec
    /\ WF_vars(Scheduler \/ \E p \in Slots : KernelStep(p))
    /\ SF_vars(Timer)

\* Moreover a process that is given the CPU again and again gets through the
\* kernel code it is in, as a time slice is far longer than that; the ticks
\* sys_sleep waits for pass; the file system gives exit() what it waits for; and
\* init calls wait() in a loop (init.c).
FairSpec ==
    /\ CpuSpec
    /\ \A p \in Slots : SF_vars(Advance(p))
    /\ SF_vars(FsWakeup)
    /\ SF_vars(WaitCall(initproc))

-----------------------------------------------------------------------------
\* The variables have their types.
TypeOK ==
    /\ state \in [Slots -> States]
    /\ pid \in [Slots -> 0..MaxPid \cup {1}]
    /\ parent \in [Slots -> Slots \cup {NULL}]
    /\ chan \in [Slots -> Chans]
    /\ killed \in [Slots -> BOOLEAN]
    /\ prio \in [Slots -> Prios \cup {0}]
    /\ nextpid \in Nat
    /\ at \in [Slots -> {"user", "forkret", "fork", "forked", "exit", "wait", "sleep"}]
    /\ np \in [Slots -> Slots \cup {NULL}]
    /\ cur \in Slots \cup {NULL}
    /\ lock \in BOOLEAN
    /\ spc \in {"scan", "loop"}
    /\ slot \in 0..NPROC
    /\ highest \in Prios \cup {0}
    /\ passedOver \in [Slots -> Nat]

\* The process the CPU runs is RUNNING, and no other is: every way back to the
\* scheduler has changed the state first (the panics of sched()).
OneRunning == \A p \in Slots : state[p] = "RUNNING" <=> cur = p

Live(p) == state[p] \in {"SLEEPING", "RUNNABLE", "RUNNING"}

\* Every process but init has a parent that can still wait for it: exit() gives
\* the children away before the process becomes a zombie, also the ones that
\* have exited.  (A slot that fork() fills has its parent set on the way.)
ParentsAlive ==
    \A p \in Slots \ {initproc} :
        state[p] \notin {"UNUSED", "EMBRYO"} =>
            parent[p] \in Slots /\ parent[p] # p /\ Live(parent[p])

\* A process asleep in wait() has children, and none of them is a zombie: the
\* wakeup of an exit is not lost, neither the parent's nor init's for an
\* orphan that was a zombie already.
NoMissedZombie ==
    \A p \in Slots :
        state[p] = "SLEEPING" /\ chan[p] = p =>
            Children(p) # {} /\ ZombieChildren(p) = {}

\* Every process has a pid and no two slots have the same, not even one that is
\* not in use: fork() that fails gives its slot back with the pid in it, and
\* kill() takes the first slot with the pid it looks for, whatever its state.
PidsUnique ==
    \A p \in Slots :
        /\ pid[p] \in 0..(nextpid - 1)
        /\ state[p] # "UNUSED" => pid[p] # 0
        /\ pid[p] # 0 => \A q \in Slots \ {p} : pid[q] # pid[p]

\* The EMBRYO slots are exactly the ones some fork() in progress fills, each for
\* one fork(), although fork() uses its slot without the lock.
EmbryosOwned ==
    /\ \A p \in Slots : at[p] \in {"fork", "forked"} =>
           np[p] \in Slots /\ state[np[p]] = "EMBRYO" /\ Live(p)
    /\ \A n \in Slots : state[n] = "EMBRYO" =>
           \E p \in Slots : at[p] \in {"fork", "forked"} /\ np[p] = n
    /\ \A p, q \in Slots :
           at[p] \in {"fork", "forked"} /\ at[q] \in {"fork", "forked"} /\ np[p] = np[q]
               => p = q

\* A killed process sleeps nowhere but in exit(), for the file system: kill()
\* wakes it, and the loops of wait() and sys_sleep look at killed again before
\* they sleep.
KilledAwake ==
    \A p \in Slots :
        killed[p] /\ state[p] = "SLEEPING" => at[p] = "exit" /\ chan[p] = fs

\* The scheduler computes the highest priority without the lock and keeps it for
\* a whole pass.  Nevertheless a RUNNABLE process sees at most one dispatch of
\* a lower priority per other slot before it is looked at: the next scan finds it.
BoundedInversion == \A p \in Slots : passedOver[p] < NPROC

-----------------------------------------------------------------------------
\* init reaps every zombie that is its child or becomes it.
ZombiesReaped ==
    \A p \in Slots :
        state[p] = "ZOMBIE" /\ parent[p] = initproc ~> state[p] = "UNUSED"

\* A killed process exits, asleep or not in wait(), in sys_sleep or on its way
\* through exit(), once the file system gives exit() what it waits for.
KilledExit ==
    \A p \in Slots :
        killed[p] /\ Live(p) ~> state[p] \in {"ZOMBIE", "UNUSED"}

\* Where all processes have the same priority the scheduler is a round robin:
\* every process that is ready to run is run, whoever else forks, sleeps and wakes.
RoundRobin ==
    [](\A p \in Slots : prio[p] = 0) =>
        \A p \in Slots : state[p] = "RUNNABLE" ~> state[p] = "RUNNING"
=============================================================================
