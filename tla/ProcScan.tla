------------------------------ MODULE ProcScan ------------------------------
(***************************************************************************)
(* get_num_proc() of proc.c, composed with process management: the system  *)
(* call walks the process table without ptable.lock, so the timer may      *)
(* preempt the caller between two slots and others fork, exit and wait.    *)
(***************************************************************************)
EXTENDS Proc, FiniteSets

CONSTANT Free        \* the free slots in the initial states

VARIABLES p_,        \* p of the loop, for the one call in progress
          num_proc,  \* its counter
          actual     \* history: the numbers of processes since the call began

scan == <<p_, num_proc, actual>>

\* init has forked a child into every other slot, and the children in the slots
\* Free have exited and been waited for.
ScanInit ==
    /\ state = [p \in Slots |-> IF p \in Free THEN "UNUSED" ELSE "RUNNABLE"]
    /\ pid = [p \in Slots |-> IF p \in Free THEN 0 ELSE p + 1]
    /\ parent = [p \in Slots |-> IF p \in Free \cup {initproc} THEN NULL ELSE initproc]
    /\ chan = [p \in Slots |-> NULL]
    /\ killed = [p \in Slots |-> FALSE]
    /\ prio = [p \in Slots |-> 0]
    /\ nextpid = NPROC + 1
    /\ at = [p \in Slots |-> IF p \in Free THEN "exit" ELSE "user"]
    /\ np = [p \in Slots |-> NULL]
    /\ cur = NULL /\ lock = FALSE
    /\ spc = "scan" /\ slot = 0 /\ highest = 0
    /\ passedOver = [p \in Slots |-> 0]
    /\ p_ = 0 /\ num_proc = 0 /\ actual = {}

Active(st) == Cardinality({p \in Slots : st[p] # "UNUSED"})

GetNumProcCall(p) ==
    /\ Calls(p)
    /\ \A q \in Slots : at[q] # "get_num_proc"
    /\ Continue(p, "get_num_proc")
    /\ p_' = 0 /\ num_proc' = 0 /\ actual' = {Active(state)}
    /\ UNCHANGED <<table, sched, np, cur, lock>>

GetNumProcLoop(p) ==
    /\ Runs(p, "get_num_proc") /\ p_ < NPROC
    /\ num_proc' = IF state[p_] = "UNUSED" THEN num_proc ELSE num_proc + 1
    /\ p_' = p_ + 1
    /\ UNCHANGED <<vars, actual>>

GetNumProcReturn(p) ==
    /\ Runs(p, "get_num_proc") /\ p_ = NPROC
    /\ Return(p)
    /\ p_' = 0 /\ num_proc' = 0 /\ actual' = {}
    /\ UNCHANGED <<table, sched, np, cur, lock>>

\* Any step of the process management, remembered while a call is in progress.
OtherStep ==
    /\ Next
    /\ actual' = IF actual = {} THEN {} ELSE actual \cup {Active(state')}
    /\ UNCHANGED <<p_, num_proc>>

ScanNext ==
    \/ OtherStep
    \/ \E p \in Slots : GetNumProcCall(p) \/ GetNumProcLoop(p) \/ GetNumProcReturn(p)

ScanSpec == ScanInit /\ [][ScanNext]_<<vars, scan>>

\* What get_num_proc returns is "number of activated process" (proc.c:562) at
\* some moment of the call.
NumProcWasTrue ==
    \A p \in Slots : at[p] = "get_num_proc" /\ p_ = NPROC => num_proc \in actual
=============================================================================
