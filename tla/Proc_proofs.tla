---------------------------- MODULE Proc_proofs ----------------------------
(***************************************************************************)
(* Proofs about Proc for every size of the process table, every set of     *)
(* priorities and every bound on the pids.  ProcInv is inductive.  The     *)
(* safety invariants of Proc lean on each other: exit() hands children to  *)
(* init, which must be alive; fork() fills a slot without the lock, which  *)
(* nobody else may touch meanwhile; and a slot that is not in use must not *)
(* count as a child of anybody.                                            *)
(***************************************************************************)
EXTENDS Proc, TLAPS

\* init is never killed and never on its way out, so it can adopt orphans.
InitprocStays ==
    /\ Live(initproc)
    /\ pid[initproc] = 1
    /\ ~killed[initproc]
    /\ at[initproc] # "exit"

\* A slot has no parent until fork() sets it, and then the one forking.
SlotParents ==
    /\ \A n \in Slots : state[n] = "UNUSED" => parent[n] = NULL
    /\ \A p \in Slots : at[p] = "fork" => parent[np[p]] = NULL
    /\ \A p \in Slots : at[p] = "forked" => parent[np[p]] = p

ProcInv ==
    /\ TypeOK
    /\ OneRunning
    /\ InitprocStays
    /\ EmbryosOwned
    /\ SlotParents
    /\ ParentsAlive
    /\ NoMissedZombie
    /\ PidsUnique
    /\ KilledAwake

-----------------------------------------------------------------------------
\* userinit establishes the invariant.
LEMMA InitProcInv == Init => ProcInv
<1> SUFFICES ASSUME Init PROVE ProcInv
  OBVIOUS
<1> USE NPROCAssumption DEF Init, Slots, initproc, NULL
<1>1. TypeOK
  <2>1. pid \in [Slots -> 0..MaxPid \cup {1}] BY MaxPidAssumption
  <2>2. /\ state \in [Slots -> States]
        /\ parent \in [Slots -> Slots \cup {NULL}]
        /\ chan \in [Slots -> Chans]
    BY DEF States, Chans
  <2>3. /\ at \in [Slots -> {"user", "forkret", "fork", "forked", "exit", "wait", "sleep"}]
        /\ np \in [Slots -> Slots \cup {NULL}]
        /\ cur \in Slots \cup {NULL}
    OBVIOUS
  <2>4. /\ killed \in [Slots -> BOOLEAN] /\ lock \in BOOLEAN
        /\ spc \in {"scan", "loop"}
    OBVIOUS
  <2>5. /\ prio \in [Slots -> Prios \cup {0}]
        /\ passedOver \in [Slots -> Nat]
        /\ nextpid \in Nat /\ slot \in 0..NPROC /\ highest \in Prios \cup {0}
    OBVIOUS
  <2> QED BY <2>1, <2>2, <2>3, <2>4, <2>5 DEF TypeOK
<1>2. OneRunning BY DEF OneRunning
<1>3. InitprocStays BY DEF InitprocStays, Live
<1>4. EmbryosOwned BY DEF EmbryosOwned
<1>5. SlotParents BY DEF SlotParents
<1>6. ParentsAlive BY DEF ParentsAlive
<1>7. NoMissedZombie BY DEF NoMissedZombie
<1>8. PidsUnique BY DEF PidsUnique
<1>9. KilledAwake BY DEF KilledAwake
<1> QED BY <1>1, <1>2, <1>3, <1>4, <1>5, <1>6, <1>7, <1>8, <1>9 DEF ProcInv

\* wakeup1 makes sleepers RUNNABLE and changes no other state.
LEMMA WakeupOnlyWakes ==
    ASSUME NEW st \in [Slots -> States], NEW c
    PROVE  /\ wakeup1(st, c) \in [Slots -> States]
           /\ \A q \in Slots :
                \/ wakeup1(st, c)[q] = st[q] /\ ~(st[q] = "SLEEPING" /\ chan[q] = c)
                \/ /\ st[q] = "SLEEPING" /\ chan[q] = c
                   /\ wakeup1(st, c)[q] = "RUNNABLE"
BY DEF wakeup1, States

-----------------------------------------------------------------------------
\* Every step keeps the type invariant.
LEMMA TypeStep == TypeOK /\ EmbryosOwned /\ [Next]_vars => TypeOK'
<1> SUFFICES ASSUME TypeOK, EmbryosOwned, [Next]_vars PROVE TypeOK'
  OBVIOUS
<1> USE NPROCAssumption DEF TypeOK, Slots, NULL
<1>1. CASE Scheduler
  <2>1. CASE Scan BY <2>1 DEF Scan, table
  <2>2. CASE StartPass BY <2>2 DEF StartPass, table
  <2>3. CASE Dispatch BY <2>3 DEF Dispatch, Eligible, States, Chans
  <2>4. CASE EndPass
    <3>1. slot' \in 0..NPROC /\ highest' \in Prios \cup {0} BY <2>4 DEF EndPass
    <3> QED BY <2>4, <3>1, Zenon DEF EndPass, table
  <2>5. ASSUME NEW p \in Slots, Resume(p) PROVE TypeOK'
    <3>1. at' \in [Slots -> {"user", "forkret", "fork", "forked", "exit", "wait", "sleep"}]
      BY <2>5 DEF Resume, Return, BackTo, Continue
    <3> QED BY <2>5, <3>1, Zenon DEF Resume, table, sched
  <2> QED BY <1>1, <2>1, <2>2, <2>3, <2>4, <2>5 DEF Scheduler
<1>2. ASSUME NEW p \in Slots, KernelStep(p) PROVE TypeOK'
  <2> USE DEF Return, BackTo, Continue, Runs, Waits, sched
  <2>1. CASE ForkFail(p) BY <2>1 DEF ForkFail, EmbryosOwned, States
  <2>2. CASE ForkCopy(p) BY <2>2 DEF ForkCopy, EmbryosOwned
  <2>3. CASE ForkDone(p) BY <2>3 DEF ForkDone, EmbryosOwned, States
  <2>4. CASE Exit(p) BY <2>4 DEF Exit, SwitchToScheduler, wakeup1, States, initproc
  <2>5. CASE WaitReap(p)
    <3>1. PICK q \in Slots :
            /\ pid' = [pid EXCEPT ![q] = 0]
            /\ parent' = [parent EXCEPT ![q] = NULL]
            /\ killed' = [killed EXCEPT ![q] = FALSE]
            /\ prio' = [prio EXCEPT ![q] = 0]
            /\ state' = [state EXCEPT ![q] = "UNUSED"]
      BY <2>5 DEF WaitReap, Children, ZombieChildren
    <3>2. /\ pid' \in [Slots -> 0..MaxPid \cup {1}]
          /\ parent' \in [Slots -> Slots \cup {NULL}]
          /\ killed' \in [Slots -> BOOLEAN]
          /\ prio' \in [Slots -> Prios \cup {0}]
          /\ state' \in [Slots -> States]
      BY <3>1, MaxPidAssumption DEF States
    <3> QED BY <2>5, <3>2 DEF WaitReap
  <2>6. CASE WaitFails(p) BY <2>6 DEF WaitFails, table
  <2>7. CASE WaitSleep(p) BY <2>7 DEF WaitSleep, SwitchToScheduler, States, Chans
  <2>8. CASE SleepReturn(p) BY <2>8 DEF SleepReturn, table
  <2>9. CASE SleepAgain(p) BY <2>9 DEF SleepAgain, SwitchToScheduler, States, Chans, ticks
  <2>10. CASE ExitSleep(p) BY <2>10 DEF ExitSleep, SwitchToScheduler, States, Chans, fs
  <2> QED BY <1>2, <2>1, <2>2, <2>3, <2>4, <2>5, <2>6, <2>7, <2>8, <2>9, <2>10
       DEF KernelStep, Advance
<1>3. ASSUME NEW p \in Slots, SystemCall(p) PROVE TypeOK'
  <2> USE DEF Continue, sched
  <2>1. CASE ForkAlloc(p) BY <2>1, MaxPidAssumption DEF ForkAlloc, States
  <2>2. CASE ExitCall(p) BY <2>2 DEF ExitCall, table
  <2>3. CASE Fault(p) BY <2>3 DEF Fault
  <2>4. CASE WaitCall(p) BY <2>4 DEF WaitCall, table
  <2>5. CASE SleepCall(p) BY <2>5 DEF SleepCall, table
  <2>6. ASSUME NEW id \in Killable, Kill(p, id) PROVE TypeOK' BY <2>6 DEF Kill, States
  <2>7. ASSUME NEW n \in Prios, set_prio(p, n) PROVE TypeOK' BY <2>7 DEF set_prio
  <2> QED BY <1>3, <2>1, <2>2, <2>3, <2>4, <2>5, <2>6, <2>7 DEF SystemCall
<1>4. CASE Timer
  <2> USE DEF wakeup1, SwitchToScheduler, States, sched
  <2>1. CASE TimerIdle BY <2>1 DEF TimerIdle
  <2>2. ASSUME NEW p \in Slots, TimerYield(p) PROVE TypeOK' BY <2>2 DEF TimerYield
  <2>3. ASSUME NEW p \in Slots, TimerExit(p) PROVE TypeOK' BY <2>3 DEF TimerExit, Continue
  <2> QED BY <1>4, <2>1, <2>2, <2>3 DEF Timer
<1>5. CASE FsWakeup BY <1>5 DEF FsWakeup, wakeup1, States, sched
<1>6. CASE UNCHANGED vars BY <1>6 DEF vars, table, sched
<1> QED BY <1>1, <1>2, <1>3, <1>4, <1>5, <1>6 DEF Next

-----------------------------------------------------------------------------
(***************************************************************************)
(* Most steps at most wake sleepers, as far as the process table goes, and *)
(* leave the forks in progress alone.  They are dealt with together.       *)
(***************************************************************************)
Forking == {"fork", "forked"}

ForksKept ==
    /\ np' = np
    /\ \A q \in Slots : at'[q] = at[q] \/ (at[q] \notin Forking /\ at'[q] \notin Forking)

OthersWake(p) ==
    \A q \in Slots \ {p} :
        state'[q] = state[q] \/ (state[q] = "SLEEPING" /\ state'[q] = "RUNNABLE")

WakeStep ==
    /\ OthersWake(NULL)
    /\ UNCHANGED <<pid, parent, chan, nextpid, cur>>
    /\ ForksKept

\* The steps that do more.
TableStep(p) ==
    \/ ForkAlloc(p) \/ ForkFail(p) \/ ForkCopy(p) \/ ForkDone(p)
    \/ Exit(p) \/ WaitReap(p) \/ WaitSleep(p) \/ SleepAgain(p) \/ ExitSleep(p)
    \/ TimerYield(p)

\* Every other step is a WakeStep.
LEMMA Steps ==
    TypeOK /\ [Next]_vars => WakeStep \/ Dispatch \/ \E p \in Slots : TableStep(p)
<1> SUFFICES ASSUME TypeOK, [Next]_vars, ~Dispatch, \A p \in Slots : ~TableStep(p)
             PROVE  WakeStep
  OBVIOUS
<1> USE DEF TypeOK, WakeStep, OthersWake, ForksKept, Forking, table, sched
<1>1. CASE Scan \/ StartPass \/ EndPass BY <1>1 DEF Scan, StartPass, EndPass
<1>2. ASSUME NEW p \in Slots, Resume(p) PROVE WakeStep
  BY <1>2 DEF Resume, Return, BackTo, Continue
<1>3. ASSUME NEW p \in Slots, WaitFails(p) \/ SleepReturn(p) PROVE WakeStep
  BY <1>3 DEF WaitFails, SleepReturn, Waits, Runs, Return, BackTo, Continue
<1>4. ASSUME NEW p \in Slots, ExitCall(p) \/ Fault(p) \/ WaitCall(p) \/ SleepCall(p)
      PROVE  WakeStep
  BY <1>4 DEF ExitCall, Fault, WaitCall, SleepCall, Calls, Runs, Continue
<1>5. ASSUME NEW p \in Slots, NEW id \in Killable, Kill(p, id) PROVE WakeStep
  BY <1>5 DEF Kill, Calls, Runs, Continue
<1>6. ASSUME NEW p \in Slots, NEW n \in Prios, set_prio(p, n) PROVE WakeStep
  BY <1>6 DEF set_prio
<1>7. CASE TimerIdle \/ FsWakeup BY <1>7, WakeupOnlyWakes DEF TimerIdle, FsWakeup
<1>8. ASSUME NEW p \in Slots, TimerExit(p) PROVE WakeStep
  BY <1>8, WakeupOnlyWakes DEF TimerExit, KilledInUser, Continue
<1>9. CASE UNCHANGED vars BY <1>9 DEF vars
<1> QED
  BY <1>1, <1>2, <1>3, <1>4, <1>5, <1>6, <1>7, <1>8, <1>9
     DEF TableStep, Next, Scheduler, KernelStep, Advance, SystemCall, Timer

\* What exit() does to the states: the process is a zombie, and the others sleep
\* on only if it is neither the parent nor init, in case it has an orphan to reap.
LEMMA ExitEffect ==
    ASSUME TypeOK, NEW p \in Slots, Exit(p)
    PROVE  /\ state'[p] = "ZOMBIE"
           /\ OthersWake(p)
           /\ \A q \in Slots : state'[q] = "SLEEPING" =>
                /\ chan[q] # parent[p]
                /\ (\E z \in Slots : parent[z] = p /\ state[z] = "ZOMBIE")
                       => chan[q] # initproc
<1> DEFINE one == wakeup1(state, parent[p])
           two == wakeup1(one, initproc)
           orphan == \E z \in Slots : parent[z] = p /\ state[z] = "ZOMBIE"
<1>1. state' = [IF orphan THEN two ELSE one EXCEPT ![p] = "ZOMBIE"]
  BY DEF Exit
<1>2. /\ one \in [Slots -> States]
      /\ \A q \in Slots :
            \/ one[q] = state[q] /\ ~(state[q] = "SLEEPING" /\ chan[q] = parent[p])
            \/ state[q] = "SLEEPING" /\ chan[q] = parent[p] /\ one[q] = "RUNNABLE"
  BY WakeupOnlyWakes DEF TypeOK
<1> HIDE DEF one
<1>3. /\ two \in [Slots -> States]
      /\ \A q \in Slots :
            \/ two[q] = one[q] /\ ~(one[q] = "SLEEPING" /\ chan[q] = initproc)
            \/ one[q] = "SLEEPING" /\ chan[q] = initproc /\ two[q] = "RUNNABLE"
  BY <1>2, WakeupOnlyWakes
<1> HIDE DEF two, orphan
<1>4. /\ state'[p] = "ZOMBIE"
      /\ \A q \in Slots \ {p} : state'[q] = IF orphan THEN two[q] ELSE one[q]
  BY <1>1, <1>2, <1>3
<1>5. OthersWake(p)
  BY <1>2, <1>3, <1>4 DEF OthersWake
<1>6. \A q \in Slots : state'[q] = "SLEEPING" => chan[q] # parent[p]
  BY <1>2, <1>3, <1>4
<1>7. \A q \in Slots : state'[q] = "SLEEPING" => (orphan => chan[q] # initproc)
  BY <1>2, <1>3, <1>4
<1> QED BY <1>4, <1>5, <1>6, <1>7 DEF orphan

\* What a timer interrupt does to the states when the process yields.
LEMMA YieldEffect ==
    ASSUME TypeOK, NEW p \in Slots, TimerYield(p)
    PROVE  state'[p] = "RUNNABLE" /\ OthersWake(p)
BY WakeupOnlyWakes DEF TimerYield, OthersWake, TypeOK

-----------------------------------------------------------------------------
\* The CPU and the RUNNING state change together.
LEMMA RunningStep ==
    TypeOK /\ OneRunning /\ EmbryosOwned /\ [Next]_vars => OneRunning'
<1> SUFFICES ASSUME TypeOK, OneRunning, EmbryosOwned, [Next]_vars PROVE OneRunning'
  OBVIOUS
<1> USE DEF TypeOK, OneRunning, Slots, NULL
<1>1. CASE WakeStep BY <1>1 DEF WakeStep, OthersWake
<1>2. CASE Dispatch BY <1>2 DEF Dispatch, Eligible
<1>3. ASSUME NEW p \in Slots, TableStep(p) PROVE OneRunning'
  <2> USE DEF Runs, Calls, Waits, SwitchToScheduler, OthersWake
  <2>1. CASE ForkAlloc(p) BY <2>1 DEF ForkAlloc
  <2>2. CASE ForkFail(p) BY <2>2 DEF ForkFail, EmbryosOwned
  <2>3. CASE ForkCopy(p) BY <2>3 DEF ForkCopy
  <2>4. CASE ForkDone(p) BY <2>4 DEF ForkDone, EmbryosOwned
  <2>5. CASE Exit(p)
    <3>1. state'[p] = "ZOMBIE" /\ OthersWake(p) BY <2>5, ExitEffect
    <3> QED BY <2>5, <3>1 DEF Exit
  <2>6. CASE WaitReap(p) BY <2>6 DEF WaitReap, Children, ZombieChildren
  <2>7. CASE WaitSleep(p) BY <2>7 DEF WaitSleep
  <2>8. CASE SleepAgain(p) \/ ExitSleep(p)
    <3>1. CASE SleepAgain(p) BY <3>1 DEF SleepAgain
    <3>2. CASE ExitSleep(p) BY <3>2 DEF ExitSleep
    <3> QED BY <2>8, <3>1, <3>2
  <2>9. CASE TimerYield(p)
    <3>1. state'[p] = "RUNNABLE" /\ OthersWake(p) BY <2>9, YieldEffect
    <3> QED BY <2>9, <3>1 DEF TimerYield
  <2> QED BY <1>3, <2>1, <2>2, <2>3, <2>4, <2>5, <2>6, <2>7, <2>8, <2>9 DEF TableStep
<1> QED BY <1>1, <1>2, <1>3, Steps

\* A step that keeps the forks in progress, the EMBRYO slots and the processes
\* that fork alive keeps EmbryosOwned.
LEMMA EmbryosKept ==
    ASSUME EmbryosOwned, ForksKept,
           \A q \in Slots : state'[q] = "EMBRYO" <=> state[q] = "EMBRYO",
           \A q \in Slots : at[q] \in Forking /\ Live(q) => Live(q)'
    PROVE  EmbryosOwned'
<1>1. \A q \in Slots : at'[q] \in Forking <=> at[q] \in Forking
  BY DEF ForksKept
<1> QED BY <1>1 DEF EmbryosOwned, ForksKept, Forking

\* The slot allocproc() hands to fork() stays its own.
LEMMA EmbryoStep ==
    TypeOK /\ OneRunning /\ EmbryosOwned /\ [Next]_vars => EmbryosOwned'
<1> SUFFICES ASSUME TypeOK, OneRunning, EmbryosOwned, [Next]_vars PROVE EmbryosOwned'
  OBVIOUS
<1> USE DEF TypeOK, Slots, NULL
<1>1. CASE WakeStep BY <1>1, EmbryosKept DEF WakeStep, OthersWake, Live
<1>2. CASE Dispatch
  BY <1>2, EmbryosKept DEF Dispatch, Eligible, ForksKept, Live
<1>3. ASSUME NEW p \in Slots, TableStep(p) PROVE EmbryosOwned'
  <2> USE DEF Runs, Calls, Waits
  <2>1. CASE ForkAlloc(p)
    BY <2>1 DEF ForkAlloc, Continue, EmbryosOwned, OneRunning, Live
  <2>2. CASE ForkFail(p)
    BY <2>2 DEF ForkFail, Return, BackTo, Continue, EmbryosOwned, OneRunning, Live
  <2>3. CASE ForkCopy(p)
    BY <2>3 DEF ForkCopy, Continue, EmbryosOwned, Live
  <2>4. CASE ForkDone(p)
    <3>1. np[p] \in Slots /\ state[np[p]] = "EMBRYO" /\ np[p] # p
      BY <2>4 DEF ForkDone, EmbryosOwned, OneRunning
    <3>2. \A q \in Slots : at'[q] \in Forking <=> at[q] \in Forking /\ q # p
      BY <2>4, <3>1 DEF ForkDone, BackTo, EmbryosOwned, Live, Forking
    <3>3. \A q \in Slots \ {p} : np'[q] = np[q]
      BY <2>4 DEF ForkDone
    <3>4. \A q \in Slots : state'[q] = IF q = np[p] THEN "RUNNABLE" ELSE state[q]
      BY <2>4, <3>1 DEF ForkDone
    <3>5. \A q \in Slots : at[q] \in Forking /\ q # p => np[q] \in Slots \ {np[p]}
      BY <2>4 DEF ForkDone, EmbryosOwned, Forking
    <3> QED BY <3>1, <3>2, <3>3, <3>4, <3>5 DEF EmbryosOwned, Live, Forking
  <2>5. CASE Exit(p)
    BY <2>5, ExitEffect, EmbryosKept
       DEF Exit, ForksKept, OthersWake, OneRunning, Live, Forking
  <2>6. CASE WaitReap(p)
    <3>1. ForksKept
      BY <2>6 DEF WaitReap, Return, BackTo, Continue, ForksKept, Forking
    <3> QED BY <2>6, <3>1, EmbryosKept DEF WaitReap, Children, ZombieChildren, Live
  <2>7. CASE WaitSleep(p)
    BY <2>7, EmbryosKept DEF WaitSleep, ForksKept, OneRunning, Live
  <2>8. CASE SleepAgain(p) \/ ExitSleep(p)
    BY <2>8, EmbryosKept DEF SleepAgain, ExitSleep, ForksKept, OneRunning, Live
  <2>9. CASE TimerYield(p)
    BY <2>9, YieldEffect, EmbryosKept
       DEF TimerYield, ForksKept, OthersWake, OneRunning, Live
  <2> QED BY <1>3, <2>1, <2>2, <2>3, <2>4, <2>5, <2>6, <2>7, <2>8, <2>9 DEF TableStep
<1> QED BY <1>1, <1>2, <1>3, Steps

\* init is not killed and does not exit.
LEMMA InitprocStep ==
    TypeOK /\ OneRunning /\ EmbryosOwned /\ InitprocStays /\ [Next]_vars => InitprocStays'
<1> SUFFICES ASSUME TypeOK, OneRunning, EmbryosOwned, InitprocStays, [Next]_vars
             PROVE  InitprocStays'
  OBVIOUS
<1>1. Live(initproc)'
  <2> USE DEF TypeOK, OneRunning, InitprocStays, Live, Slots, NULL, initproc
  <2>1. CASE WakeStep BY <2>1, NPROCAssumption DEF WakeStep, OthersWake
  <2>2. CASE Dispatch BY <2>2, NPROCAssumption DEF Dispatch, Eligible
  <2>3. ASSUME NEW p \in Slots, TableStep(p) PROVE Live(initproc)'
    <3> USE NPROCAssumption DEF Runs, Calls, Waits, OthersWake
    <3>1. CASE ForkAlloc(p) BY <3>1 DEF ForkAlloc
    <3>2. CASE ForkFail(p) BY <3>2 DEF ForkFail, EmbryosOwned
    <3>3. CASE ForkCopy(p) BY <3>3 DEF ForkCopy
    <3>4. CASE ForkDone(p) BY <3>4 DEF ForkDone, EmbryosOwned
    <3>5. CASE Exit(p)
      <4>1. state'[p] = "ZOMBIE" /\ OthersWake(p) BY <3>5, ExitEffect
      <4>2. p # initproc BY <3>5 DEF Exit
      <4> QED BY <4>1, <4>2
    <3>6. CASE WaitReap(p) BY <3>6 DEF WaitReap, Children, ZombieChildren
    <3>7. CASE WaitSleep(p) BY <3>7 DEF WaitSleep
    <3>8. CASE SleepAgain(p) \/ ExitSleep(p) BY <3>8 DEF SleepAgain, ExitSleep
    <3>9. CASE TimerYield(p)
      <4>1. state'[p] = "RUNNABLE" /\ OthersWake(p) BY <3>9, YieldEffect
      <4> QED BY <3>9, <4>1 DEF TimerYield
    <3> QED BY <2>3, <3>1, <3>2, <3>3, <3>4, <3>5, <3>6, <3>7, <3>8, <3>9 DEF TableStep
  <2> QED BY <2>1, <2>2, <2>3, Steps
<1> USE NPROCAssumption DEF TypeOK, InitprocStays, Live, Slots, initproc
<1> DEFINE Rest == pid[initproc] = 1 /\ ~killed[initproc] /\ at[initproc] # "exit"
<1>2. ASSUME Scheduler PROVE Rest'
  <2>1. CASE Scan \/ StartPass \/ EndPass BY <2>1 DEF Scan, StartPass, EndPass, table
  <2>2. CASE Dispatch BY <2>2 DEF Dispatch
  <2>3. ASSUME NEW p \in Slots, Resume(p) PROVE Rest'
    BY <2>3 DEF Resume, Return, BackTo, Continue, table
  <2> QED BY <1>2, <2>1, <2>2, <2>3 DEF Scheduler
<1>3. ASSUME NEW p \in Slots, KernelStep(p) PROVE Rest'
  <2> USE DEF Return, BackTo, Continue, Runs
  <2>1. CASE ForkFail(p) BY <2>1 DEF ForkFail
  <2>2. CASE ForkCopy(p) BY <2>2 DEF ForkCopy
  <2>3. CASE ForkDone(p) BY <2>3 DEF ForkDone, EmbryosOwned
  <2>4. CASE Exit(p) BY <2>4 DEF Exit
  <2>5. CASE WaitReap(p) BY <2>5 DEF WaitReap, Children, ZombieChildren
  <2>6. CASE WaitFails(p) BY <2>6 DEF WaitFails, table
  <2>7. CASE WaitSleep(p) BY <2>7 DEF WaitSleep
  <2>8. CASE SleepReturn(p) BY <2>8 DEF SleepReturn, table
  <2>9. CASE SleepAgain(p) \/ ExitSleep(p) BY <2>9 DEF SleepAgain, ExitSleep
  <2> QED BY <1>3, <2>1, <2>2, <2>3, <2>4, <2>5, <2>6, <2>7, <2>8, <2>9 DEF KernelStep, Advance
<1>4. ASSUME NEW p \in Slots, SystemCall(p) PROVE Rest'
  <2> USE DEF Continue
  <2>1. CASE ForkAlloc(p) BY <2>1 DEF ForkAlloc
  <2>2. CASE ExitCall(p) \/ Fault(p) BY <2>2 DEF ExitCall, Fault, table
  <2>3. CASE WaitCall(p) \/ SleepCall(p) BY <2>3 DEF WaitCall, SleepCall, table
  <2>4. ASSUME NEW id \in Killable, Kill(p, id) PROVE Rest' BY <2>4 DEF Kill, Killable
  <2>5. ASSUME NEW n \in Prios, set_prio(p, n) PROVE Rest' BY <2>5 DEF set_prio
  <2> QED BY <1>4, <2>1, <2>2, <2>3, <2>4, <2>5 DEF SystemCall
<1>5. ASSUME Timer PROVE Rest'
  <2>1. CASE TimerIdle BY <2>1 DEF TimerIdle
  <2>2. ASSUME NEW p \in Slots, TimerYield(p) PROVE Rest' BY <2>2 DEF TimerYield
  <2>3. ASSUME NEW p \in Slots, TimerExit(p) PROVE Rest'
    BY <2>3 DEF TimerExit, KilledInUser, Continue
  <2> QED BY <1>5, <2>1, <2>2, <2>3 DEF Timer
<1>6. ASSUME FsWakeup \/ UNCHANGED vars PROVE Rest' BY <1>6 DEF FsWakeup, vars, table
<1> QED BY <1>1, <1>2, <1>3, <1>4, <1>5, <1>6 DEF Next

\* A free slot, and one being filled by fork(), belongs to no other parent.
LEMMA SlotStep ==
    TypeOK /\ OneRunning /\ EmbryosOwned /\ SlotParents /\ [Next]_vars => SlotParents'
<1> SUFFICES ASSUME TypeOK, OneRunning, EmbryosOwned, SlotParents, [Next]_vars
             PROVE  SlotParents'
  OBVIOUS
<1> USE DEF TypeOK, SlotParents, EmbryosOwned, Slots, NULL
<1>1. CASE WakeStep BY <1>1 DEF WakeStep, OthersWake, ForksKept, Forking
<1>2. CASE Dispatch BY <1>2 DEF Dispatch, Eligible
<1>3. ASSUME NEW p \in Slots, TableStep(p) PROVE SlotParents'
  <2> USE DEF Runs, Calls, Waits
  <2>1. CASE ForkAlloc(p) BY <2>1 DEF ForkAlloc, Continue
  <2>2. CASE ForkFail(p) BY <2>2 DEF ForkFail, Return, BackTo, Continue
  <2>3. CASE ForkCopy(p) BY <2>3 DEF ForkCopy, Continue
  <2>4. CASE ForkDone(p) BY <2>4 DEF ForkDone, BackTo, OneRunning
  <2>5. CASE Exit(p)
    <3>1. \A q \in Slots : state'[q] = "UNUSED" => state[q] = "UNUSED"
      BY <2>5, ExitEffect DEF OthersWake
    <3>2. /\ UNCHANGED <<at, np>> /\ at[p] = "exit"
          /\ \A q \in Slots : parent[q] # p => parent'[q] = parent[q]
      BY <2>5 DEF Exit
    <3>3. \A q \in Slots : at[q] \in Forking => np[q] \in Slots /\ parent[np[q]] # p
      BY <3>2 DEF Forking
    <3> QED BY <3>1, <3>2, <3>3 DEF Forking
  <2>6. CASE WaitReap(p)
    BY <2>6 DEF WaitReap, Children, ZombieChildren, Return, BackTo, Continue
  <2>7. CASE WaitSleep(p) BY <2>7 DEF WaitSleep
  <2>8. CASE SleepAgain(p) \/ ExitSleep(p)
    <3>1. CASE SleepAgain(p) BY <3>1 DEF SleepAgain
    <3>2. CASE ExitSleep(p) BY <3>2 DEF ExitSleep
    <3> QED BY <2>8, <3>1, <3>2
  <2>9. CASE TimerYield(p)
    <3>1. \A q \in Slots : state'[q] = "UNUSED" => state[q] = "UNUSED"
      BY <2>9, YieldEffect DEF OthersWake
    <3> QED BY <2>9, <3>1 DEF TimerYield
  <2> QED BY <1>3, <2>1, <2>2, <2>3, <2>4, <2>5, <2>6, <2>7, <2>8, <2>9 DEF TableStep
<1> QED BY <1>1, <1>2, <1>3, Steps

\* exit() leaves no process with a dead parent.
LEMMA ParentsStep ==
    ProcInv /\ [Next]_vars => ParentsAlive'
<1> SUFFICES ASSUME ProcInv, [Next]_vars PROVE ParentsAlive'
  OBVIOUS
<1> USE DEF ProcInv, TypeOK, ParentsAlive, Live, Slots, NULL
<1>1. CASE WakeStep BY <1>1 DEF WakeStep, OthersWake
<1>2. CASE Dispatch BY <1>2 DEF Dispatch, Eligible
<1>3. ASSUME NEW p \in Slots, TableStep(p) PROVE ParentsAlive'
  <2> USE DEF Runs, Calls, Waits
  <2>1. CASE ForkAlloc(p) BY <2>1 DEF ForkAlloc
  <2>2. CASE ForkFail(p) BY <2>2 DEF ForkFail, EmbryosOwned
  <2>3. CASE ForkCopy(p) BY <2>3 DEF ForkCopy, EmbryosOwned
  <2>4. CASE ForkDone(p) BY <2>4 DEF ForkDone, EmbryosOwned, SlotParents
  <2>5. CASE Exit(p)
    <3>1. state'[p] = "ZOMBIE" /\ OthersWake(p) BY <2>5, ExitEffect
    <3>2. p # initproc /\ state[p] = "RUNNING"
      BY <2>5 DEF Exit, InitprocStays, OneRunning
    <3>3. initproc \in Slots /\ Live(initproc)'
      BY <3>1, <3>2, NPROCAssumption DEF InitprocStays, OthersWake, initproc
    <3>4. \A q \in Slots : parent'[q] = IF parent[q] = p THEN initproc ELSE parent[q]
      BY <2>5 DEF Exit
    <3> QED BY <3>1, <3>2, <3>3, <3>4 DEF OthersWake
  <2>6. CASE WaitReap(p) BY <2>6 DEF WaitReap, Children, ZombieChildren
  <2>7. CASE WaitSleep(p) BY <2>7 DEF WaitSleep, OneRunning
  <2>8. CASE SleepAgain(p) \/ ExitSleep(p)
    <3>1. CASE SleepAgain(p) BY <3>1 DEF SleepAgain, OneRunning
    <3>2. CASE ExitSleep(p) BY <3>2 DEF ExitSleep, OneRunning
    <3> QED BY <2>8, <3>1, <3>2
  <2>9. CASE TimerYield(p)
    <3>1. state'[p] = "RUNNABLE" /\ OthersWake(p) BY <2>9, YieldEffect
    <3> QED BY <2>9, <3>1 DEF TimerYield, OthersWake, OneRunning
  <2> QED BY <1>3, <2>1, <2>2, <2>3, <2>4, <2>5, <2>6, <2>7, <2>8, <2>9 DEF TableStep
<1> QED BY <1>1, <1>2, <1>3, Steps

\* No step puts a process to sleep in wait(), or leaves it asleep there, beside a
\* zombie child or without children.
LEMMA ZombieStep ==
    ProcInv /\ [Next]_vars => NoMissedZombie'
<1> SUFFICES ASSUME ProcInv, [Next]_vars PROVE NoMissedZombie'
  OBVIOUS
<1> USE DEF ProcInv, TypeOK, Slots, NULL
<1>1. ASSUME parent' = parent,
             \A q \in Slots : state'[q] \in {"SLEEPING", "ZOMBIE"} => state'[q] = state[q],
             \A q \in Slots : state'[q] = "SLEEPING" => chan'[q] = chan[q]
      PROVE  NoMissedZombie'
  BY <1>1 DEF NoMissedZombie, Children, ZombieChildren
<1>2. CASE WakeStep BY <1>1, <1>2 DEF WakeStep, OthersWake
<1>3. CASE Dispatch BY <1>1, <1>3 DEF Dispatch, Eligible
<1>4. ASSUME NEW p \in Slots, TableStep(p) PROVE NoMissedZombie'
  <2> USE DEF Runs, Calls, Waits
  <2>1. CASE ForkAlloc(p) BY <2>1, <1>1 DEF ForkAlloc
  <2>2. CASE ForkFail(p) BY <2>2, <1>1 DEF ForkFail, EmbryosOwned
  <2>3. CASE ForkCopy(p)
    <3>1. np[p] \in Slots /\ parent[np[p]] = NULL /\ state[p] = "RUNNING"
      BY <2>3 DEF ForkCopy, EmbryosOwned, SlotParents, OneRunning
    <3>2. \A q, r \in Slots : q # p => (parent'[r] = q <=> parent[r] = q)
      BY <2>3, <3>1 DEF ForkCopy
    <3>3. UNCHANGED <<state, chan>>
      BY <2>3 DEF ForkCopy
    <3> QED BY <3>1, <3>2, <3>3 DEF NoMissedZombie, Children, ZombieChildren
  <2>4. CASE ForkDone(p) BY <2>4, <1>1 DEF ForkDone, EmbryosOwned
  <2>5. CASE Exit(p)
    <3> USE DEF NoMissedZombie, Children, ZombieChildren
    <3>1. /\ state'[p] = "ZOMBIE"
          /\ OthersWake(p)
          /\ \A q \in Slots : state'[q] = "SLEEPING" =>
                /\ chan[q] # parent[p]
                /\ (\E z \in Slots : parent[z] = p /\ state[z] = "ZOMBIE")
                       => chan[q] # initproc
      BY <2>5, ExitEffect
    <3>2. /\ \A q \in Slots : parent'[q] = IF parent[q] = p THEN initproc ELSE parent[q]
          /\ chan' = chan
          /\ p # initproc
      BY <2>5 DEF Exit, InitprocStays
    <3>3. parent[p] # p
      BY <2>5, <3>2 DEF Exit, OneRunning, ParentsAlive
    <3> SUFFICES ASSUME NEW q \in Slots, state'[q] = "SLEEPING", chan[q] = q
                 PROVE  Children(q)' # {} /\ ZombieChildren(q)' = {}
      BY <3>2
    <3>4. q # p /\ state[q] = "SLEEPING"
      BY <3>1 DEF OthersWake
    <3>5. PICK c \in Slots : parent[c] = q
      BY <3>4
    <3>6. parent'[c] = q
      BY <3>2, <3>4, <3>5
    <3>7. ASSUME NEW z \in Slots, parent'[z] = q, state'[z] = "ZOMBIE" PROVE FALSE
      <4>1. CASE parent[z] = p
        <5>1. q = initproc BY <3>2, <3>7, <4>1
        <5>2. z # p /\ state[z] = "ZOMBIE" BY <3>1, <3>3, <3>7, <4>1 DEF OthersWake
        <5> QED BY <3>1, <4>1, <5>1, <5>2
      <4>2. CASE parent[z] # p
        <5>1. parent[z] = q BY <3>2, <3>7, <4>2
        <5>2. z # p BY <3>1, <5>1
        <5>3. state[z] = "ZOMBIE" BY <3>1, <3>7, <5>2 DEF OthersWake
        <5> QED BY <3>4, <5>1, <5>3
      <4> QED BY <4>1, <4>2
    <3> QED BY <3>6, <3>7
  <2>6. CASE WaitReap(p)
    <3>1. PICK z \in Slots : /\ parent[z] = p /\ state[z] = "ZOMBIE"
                            /\ parent' = [parent EXCEPT ![z] = NULL]
                            /\ state' = [state EXCEPT ![z] = "UNUSED"]
      BY <2>6 DEF WaitReap, Children, ZombieChildren
    <3>2. \A q, r \in Slots : q # p => (parent'[r] = q <=> parent[r] = q)
      BY <3>1
    <3>3. chan' = chan /\ state[p] = "RUNNING"
      BY <2>6 DEF WaitReap, OneRunning
    <3> QED BY <3>1, <3>2, <3>3 DEF NoMissedZombie, Children, ZombieChildren
  <2>7. CASE WaitSleep(p)
    BY <2>7 DEF WaitSleep, NoMissedZombie, Children, ZombieChildren
  <2>8. CASE SleepAgain(p) \/ ExitSleep(p)
    BY <2>8, NPROCAssumption
       DEF SleepAgain, ExitSleep, ticks, fs, NoMissedZombie, Children, ZombieChildren
  <2>9. CASE TimerYield(p)
    <3>1. state'[p] = "RUNNABLE" /\ OthersWake(p) BY <2>9, YieldEffect
    <3>2. \A q \in Slots : state'[q] \in {"SLEEPING", "ZOMBIE"} => state'[q] = state[q]
      BY <3>1 DEF OthersWake
    <3> QED BY <2>9, <3>2, <1>1 DEF TimerYield
  <2> QED BY <1>4, <2>1, <2>2, <2>3, <2>4, <2>5, <2>6, <2>7, <2>8, <2>9 DEF TableStep
<1> QED BY <1>2, <1>3, <1>4, Steps

\* allocproc() hands out pids in ascending order, and only an UNUSED slot gets one.
LEMMA PidsStep ==
    ProcInv /\ [Next]_vars => PidsUnique'
<1> SUFFICES ASSUME ProcInv, [Next]_vars PROVE PidsUnique'
  OBVIOUS
<1> USE DEF ProcInv
<1>1. CASE \E p \in Slots : ForkAlloc(p)
  <2>1. PICK n \in Slots : /\ state[n] = "UNUSED"
                          /\ state' = [state EXCEPT ![n] = "EMBRYO"]
                          /\ pid' = [pid EXCEPT ![n] = nextpid]
    BY <1>1 DEF ForkAlloc
  <2>2. nextpid' = nextpid + 1 /\ nextpid \in Nat
    BY <1>1 DEF ForkAlloc, TypeOK
  <2>3. nextpid > 1
    BY <2>2, NPROCAssumption DEF InitprocStays, PidsUnique, Slots, initproc
  <2>4. \A q \in Slots :
          /\ q = n => pid'[q] = nextpid
          /\ q # n => pid'[q] = pid[q] /\ state'[q] = state[q]
    BY <2>1 DEF TypeOK
  <2> QED BY <2>2, <2>3, <2>4 DEF PidsUnique
<1>2. CASE \E p \in Slots : WaitReap(p)
  <2>1. PICK z \in Slots : /\ pid' = [pid EXCEPT ![z] = 0]
                          /\ state' = [state EXCEPT ![z] = "UNUSED"]
    BY <1>2 DEF WaitReap, Children, ZombieChildren
  <2>2. \A q \in Slots :
          /\ q = z => pid'[q] = 0 /\ state'[q] = "UNUSED"
          /\ q # z => pid'[q] = pid[q] /\ state'[q] = state[q]
    BY <2>1 DEF TypeOK
  <2>3. nextpid' = nextpid /\ nextpid \in Nat
    BY <1>2 DEF WaitReap, TypeOK
  <2> QED BY <2>2, <2>3 DEF PidsUnique
<1>3. ASSUME UNCHANGED <<pid, nextpid>>,
             \A q \in Slots : state'[q] # "UNUSED" => state[q] # "UNUSED"
      PROVE  PidsUnique'
  BY <1>3 DEF PidsUnique
<1>4. CASE WakeStep
  BY <1>3, <1>4 DEF WakeStep, OthersWake, Slots, NULL
<1>5. CASE Dispatch
  BY <1>3, <1>5 DEF Dispatch, Eligible, TypeOK
<1>6. ASSUME NEW p \in Slots, TableStep(p), ~ForkAlloc(p), ~WaitReap(p) PROVE PidsUnique'
  <2> USE DEF TypeOK
  <2>1. CASE ForkFail(p) BY <2>1, <1>3 DEF ForkFail, Runs, EmbryosOwned
  <2>2. CASE ForkCopy(p) BY <2>2, <1>3 DEF ForkCopy
  <2>3. CASE ForkDone(p) BY <2>3, <1>3 DEF ForkDone, Runs, EmbryosOwned
  <2>4. CASE Exit(p)
    <3>1. state[p] # "UNUSED" BY <2>4 DEF Exit, Runs, OneRunning
    <3> QED BY <2>4, <3>1, <1>3, ExitEffect DEF Exit, OthersWake
  <2>5. CASE WaitSleep(p) BY <2>5, <1>3 DEF WaitSleep, Waits, OneRunning
  <2>6. CASE SleepAgain(p) \/ ExitSleep(p)
    BY <2>6, <1>3 DEF SleepAgain, ExitSleep, Runs, OneRunning
  <2>7. CASE TimerYield(p) BY <2>7, <1>3, YieldEffect DEF TimerYield, Runs, OneRunning, OthersWake
  <2> QED BY <1>6, <2>1, <2>2, <2>3, <2>4, <2>5, <2>6, <2>7 DEF TableStep
<1> QED BY <1>1, <1>2, <1>4, <1>5, <1>6, Steps

\* A process that is killed is awake or in exit(), and one that goes to sleep
\* elsewhere is not killed.
LEMMA KilledStep ==
    TypeOK /\ OneRunning /\ EmbryosOwned /\ KilledAwake /\ [Next]_vars => KilledAwake'
<1> SUFFICES ASSUME TypeOK, OneRunning, EmbryosOwned, KilledAwake, [Next]_vars
             PROVE  KilledAwake'
  OBVIOUS
<1> USE DEF TypeOK, KilledAwake
<1> DEFINE SleepsOn(q) == state[q] = "SLEEPING" /\ at'[q] = at[q] /\ chan'[q] = chan[q]
<1>1. ASSUME killed' = killed,
             \A q \in Slots : state'[q] = "SLEEPING" => SleepsOn(q) \/ ~killed[q]
      PROVE  KilledAwake'
  BY <1>1
<1>2. CASE Scheduler
  <2>1. CASE Scan \/ StartPass \/ EndPass BY <2>1, <1>1 DEF Scan, StartPass, EndPass, table
  <2>2. CASE Dispatch BY <2>2, <1>1 DEF Dispatch, Eligible
  <2>3. ASSUME NEW p \in Slots, Resume(p) PROVE KilledAwake'
    BY <2>3, <1>1 DEF Resume, Return, Continue, OneRunning, table
  <2> QED BY <1>2, <2>1, <2>2, <2>3 DEF Scheduler
<1>3. ASSUME NEW p \in Slots, KernelStep(p) PROVE KilledAwake'
  <2> USE DEF Runs, Waits, Return, Continue, OneRunning
  <2>1. CASE ForkFail(p) BY <2>1, <1>1 DEF ForkFail, EmbryosOwned
  <2>2. CASE ForkCopy(p) BY <2>2, <1>1 DEF ForkCopy
  <2>3. CASE ForkDone(p) BY <2>3, <1>1 DEF ForkDone, EmbryosOwned
  <2>4. CASE Exit(p)
    <3>1. \A q \in Slots : state'[q] = "SLEEPING" => state[q] = "SLEEPING"
      BY <2>4, ExitEffect DEF OthersWake
    <3> QED BY <2>4, <3>1, <1>1 DEF Exit
  <2>5. CASE WaitReap(p)
    <3>1. PICK z \in Slots : /\ killed' = [killed EXCEPT ![z] = FALSE]
                            /\ state' = [state EXCEPT ![z] = "UNUSED"]
      BY <2>5 DEF WaitReap, Children, ZombieChildren
    <3>2. \A q \in Slots : state'[q] = "SLEEPING" => SleepsOn(q)
      BY <2>5, <3>1 DEF WaitReap
    <3> QED BY <3>1, <3>2
  <2>6. CASE WaitFails(p) \/ SleepReturn(p) BY <2>6, <1>1 DEF WaitFails, SleepReturn, table
  <2>7. CASE WaitSleep(p) BY <2>7, <1>1 DEF WaitSleep
  <2>8. CASE SleepAgain(p) BY <2>8, <1>1 DEF SleepAgain
  <2>9. CASE ExitSleep(p)
    <3>1. /\ at'[p] = "exit" /\ chan'[p] = fs /\ killed' = killed
          /\ \A q \in Slots \ {p} : state'[q] = "SLEEPING" => SleepsOn(q)
      BY <2>9 DEF ExitSleep
    <3> QED BY <3>1
  <2> QED BY <1>3, <2>1, <2>2, <2>3, <2>4, <2>5, <2>6, <2>7, <2>8, <2>9
       DEF KernelStep, Advance
<1>4. ASSUME NEW p \in Slots, SystemCall(p) PROVE KilledAwake'
  <2> USE DEF Calls, Runs, Continue, OneRunning
  <2>1. CASE ForkAlloc(p) BY <2>1, <1>1 DEF ForkAlloc
  <2>2. CASE ExitCall(p) \/ WaitCall(p) \/ SleepCall(p)
    BY <2>2, <1>1 DEF ExitCall, WaitCall, SleepCall, table
  <2>3. CASE Fault(p) BY <2>3 DEF Fault
  <2>4. ASSUME NEW id \in Killable, Kill(p, id) PROVE KilledAwake' BY <2>4 DEF Kill
  <2>5. ASSUME NEW n \in Prios, set_prio(p, n) PROVE KilledAwake' BY <2>5, <1>1 DEF set_prio
  <2> QED BY <1>4, <2>1, <2>2, <2>3, <2>4, <2>5 DEF SystemCall
<1>5. CASE Timer
  <2>1. CASE TimerIdle BY <2>1, <1>1, WakeupOnlyWakes DEF TimerIdle
  <2>2. ASSUME NEW p \in Slots, TimerYield(p) PROVE KilledAwake'
    <3>1. \A q \in Slots : state'[q] = "SLEEPING" => state[q] = "SLEEPING"
      BY <2>2, YieldEffect DEF OthersWake
    <3> QED BY <2>2, <3>1, <1>1 DEF TimerYield
  <2>3. ASSUME NEW p \in Slots, TimerExit(p) PROVE KilledAwake'
    BY <2>3, <1>1, WakeupOnlyWakes DEF TimerExit, Continue, OneRunning
  <2> QED BY <1>5, <2>1, <2>2, <2>3 DEF Timer
<1>6. CASE FsWakeup BY <1>6, <1>1, WakeupOnlyWakes DEF FsWakeup
<1>7. CASE UNCHANGED vars BY <1>7 DEF vars, table
<1> QED BY <1>2, <1>3, <1>4, <1>5, <1>6, <1>7 DEF Next

-----------------------------------------------------------------------------
\* In every behaviour of the process management the invariant holds.
THEOREM Invariance == Spec => []ProcInv
<1>1. ProcInv /\ [Next]_vars => ProcInv'
  BY TypeStep, RunningStep, EmbryoStep, InitprocStep, SlotStep, ParentsStep,
     ZombieStep, PidsStep, KilledStep DEF ProcInv
<1> QED BY InitProcInv, <1>1, PTL DEF Spec

\* The type invariant of the process table.
THEOREM TypeCorrectness == Spec => []TypeOK
BY Invariance, PTL DEF ProcInv

\* The process on the CPU is RUNNING and no other is: sched() never panics with
\* "sched running".
THEOREM RunningIsCurrent == Spec => []OneRunning
BY Invariance, PTL DEF ProcInv

\* Every process has a live parent to wait for it, whatever exit() interleaves
\* with fork(), wait() and kill().
THEOREM NoDeadParents == Spec => []ParentsAlive
BY Invariance, PTL DEF ProcInv

\* The wakeups of exit() reach everybody asleep in wait() who has a zombie to reap.
THEOREM NoZombieIsMissed == Spec => []NoMissedZombie
BY Invariance, PTL DEF ProcInv

\* No two slots have the same pid, in use or not: kill() finds the process with
\* the pid it looks for.
THEOREM PidsAreUnique == Spec => []PidsUnique
BY Invariance, PTL DEF ProcInv

\* fork() owns the slot it fills without the lock.
THEOREM ForksOwnTheirSlots == Spec => []EmbryosOwned
BY Invariance, PTL DEF ProcInv

\* A killed process is not left asleep in wait() or sys_sleep: it sleeps only on
\* its way through exit(), for the file system.
THEOREM KilledProcessesWake == Spec => []KilledAwake
BY Invariance, PTL DEF ProcInv
=============================================================================
