------------------------------ MODULE SSU_Sem ------------------------------
(***************************************************************************)
(* The user-level semaphore of project4/3/SSU_Sem.c: a counter protected   *)
(* by mutex_counter, a condition variable, and one more mutex around each  *)
(* of the two operations.  mutex_down stays locked while a thread waits,   *)
(* so that at most one thread ever waits on the condition variable.        *)
(***************************************************************************)
EXTENDS Integers, Pthread

CONSTANTS Threads,
          Value,   \* the argument of SSU_Sem_init
          MaxUps   \* bound: how many calls of SSU_Sem_up a behaviour makes

ASSUME ValueAssumption == Value \in Nat
ASSUME MaxUpsAssumption == MaxUps \in Nat

VARIABLES counter,  \* s->counter
          pc,       \* where each thread is in SSU_Sem_down or SSU_Sem_up
          ups       \* calls of SSU_Sem_up so far

vars == <<held, waiting, counter, pc, ups>>

Mutexes == {"mutex_counter", "mutex_up", "mutex_down"}
Conds == {"signal"}

Goto(t, from, to) ==
    /\ pc[t] = from
    /\ pc' = [pc EXCEPT ![t] = to]

\* SSU_Sem_init
Init ==
    /\ InitPthread(Mutexes, Conds)
    /\ counter = Value
    /\ pc = [t \in Threads |-> "idle"]
    /\ ups = 0

-----------------------------------------------------------------------------
\* SSU_Sem_down

DownCall(t) ==
    /\ Goto(t, "idle", "down_enter")
    /\ UNCHANGED <<held, waiting, counter, ups>>

DownEnter(t) ==
    /\ Goto(t, "down_enter", "down_decrement")
    /\ Lock(t, "mutex_down")
    /\ UNCHANGED <<waiting, counter, ups>>

DownDecrement(t) ==
    /\ Goto(t, "down_decrement", "down_test")
    /\ Lock(t, "mutex_counter")
    /\ counter' = counter - 1
    /\ UNCHANGED <<waiting, ups>>

DownWait_WithoutReleasing(t) ==
    /\ Goto(t, "down_test", "down_waiting")
    /\ counter < 0
    /\ waiting' = [waiting EXCEPT !["signal"] = @ \cup {t}]
    /\ UNCHANGED <<held, counter, ups>>

\* The test of the while loop: negative, so wait ...
DownWait(t) ==
    /\ Goto(t, "down_test", "down_waiting")
    /\ counter < 0
    /\ Wait(t, "signal", "mutex_counter")
    /\ UNCHANGED <<counter, ups>>

DownPass_OffByOne(t) ==
    /\ Goto(t, "down_test", "down_leave")
    /\ counter >= -1
    /\ Unlock("mutex_counter")
    /\ UNCHANGED <<waiting, counter, ups>>

\* ... or not negative, so leave the loop and unlock mutex_counter.
DownPass(t) ==
    /\ Goto(t, "down_test", "down_leave")
    /\ counter >= 0
    /\ Unlock("mutex_counter")
    /\ UNCHANGED <<waiting, counter, ups>>

\* pthread_cond_wait returns with mutex_counter locked again.
DownWoken(t) ==
    /\ Goto(t, "down_waiting", "down_test")
    /\ Woken(t, "signal")
    /\ Lock(t, "mutex_counter")
    /\ UNCHANGED <<waiting, counter, ups>>

DownReturn(t) ==
    /\ Goto(t, "down_leave", "idle")
    /\ Unlock("mutex_down")
    /\ UNCHANGED <<waiting, counter, ups>>

-----------------------------------------------------------------------------
\* SSU_Sem_up

UpCall(t) ==
    /\ ups < MaxUps
    /\ ups' = ups + 1
    /\ Goto(t, "idle", "up_enter")
    /\ UNCHANGED <<held, waiting, counter>>

UpEnter(t) ==
    /\ Goto(t, "up_enter", "up_increment")
    /\ Lock(t, "mutex_up")
    /\ UNCHANGED <<waiting, counter, ups>>

UpIncrement_Binary(t) ==
    /\ Goto(t, "up_increment", "up_broadcast")
    /\ Lock(t, "mutex_counter")
    /\ counter' = 1
    /\ UNCHANGED <<waiting, ups>>

UpIncrement(t) ==
    /\ Goto(t, "up_increment", "up_broadcast")
    /\ Lock(t, "mutex_counter")
    /\ counter' = counter + 1
    /\ UNCHANGED <<waiting, ups>>

UpBroadcast_Dropped(t) ==
    /\ Goto(t, "up_broadcast", "up_unlock")
    /\ UNCHANGED <<held, waiting, counter, ups>>

UpBroadcast(t) ==
    /\ Goto(t, "up_broadcast", "up_unlock")
    /\ Broadcast("signal")
    /\ UNCHANGED <<held, counter, ups>>

UpUnlock(t) ==
    /\ Goto(t, "up_unlock", "up_leave")
    /\ Unlock("mutex_counter")
    /\ UNCHANGED <<waiting, counter, ups>>

UpReturn(t) ==
    /\ Goto(t, "up_leave", "idle")
    /\ Unlock("mutex_up")
    /\ UNCHANGED <<waiting, counter, ups>>

-----------------------------------------------------------------------------
\* A step of a thread that is inside one of the two functions.
Step(t) ==
    \/ DownEnter(t) \/ DownDecrement(t) \/ DownWait(t) \/ DownPass(t)
    \/ DownWoken(t) \/ DownReturn(t)
    \/ UpEnter(t) \/ UpIncrement(t) \/ UpBroadcast(t)
    \/ UpUnlock(t) \/ UpReturn(t)

Call(t) == DownCall(t) \/ UpCall(t)

Spurious == SpuriousWakeup("signal") /\ UNCHANGED <<held, counter, pc, ups>>

Next ==
    \/ \E t \in Threads : Step(t) \/ Call(t)
    \/ Spurious

Spec == Init /\ [][Next]_vars

\* The operating system runs every thread that can run; nobody is forced
\* to call down or up.
FairSpec == Spec /\ \A t \in Threads : WF_vars(Step(t))

-----------------------------------------------------------------------------
\* The counting semaphore SSU_Sem implements.  A call of down is granted its
\* permit when it leaves the loop: until then the one it has subtracted from
\* the counter is still there to be granted.
Pending == {t \in Threads : pc[t] \in {"down_test", "down_waiting"}}
Permits == IF Pending = {} THEN counter ELSE counter + 1
Blocked == Pending \cup
           {t \in Threads : pc[t] \in {"down_enter", "down_decrement"}}

Sem == INSTANCE CountingSemaphore WITH permits <- Permits, blocked <- Blocked

\* SSU_Sem is a counting semaphore: a call of SSU_Sem_down returns only for a
\* permit that the initial value or a call of SSU_Sem_up provides, each permit
\* is granted once, and while there is a permit a blocked thread gets it.
ImplementsSemaphore == Sem!Spec

PCs == {"idle", "down_enter", "down_decrement", "down_test", "down_waiting",
        "down_leave", "up_enter", "up_increment", "up_broadcast",
        "up_unlock", "up_leave"}

\* The variables have their types; the bounds are the ones of the calls made.
TypeOK ==
    /\ held \in [Mutexes -> SUBSET Threads]
    /\ waiting \in [Conds -> SUBSET Threads]
    /\ counter \in Int
    /\ pc \in [Threads -> PCs]
    /\ ups \in 0..MaxUps

\* Mutex m has at most one owner, and a thread owns it exactly at the given
\* points of its code.
OwnedAt(m, points) ==
    /\ \A t, u \in held[m] : t = u
    /\ \A t \in Threads : t \in held[m] <=> pc[t] \in points

\* Every mutex has at most one owner, and it is a thread at a point of the code
\* between the lock and the unlock of that mutex: pthread_cond_wait hands
\* mutex_counter over and takes it back without ever sharing it.
LockDiscipline ==
    /\ OwnedAt("mutex_counter", {"down_test", "up_broadcast", "up_unlock"})
    /\ OwnedAt("mutex_down", {"down_decrement", "down_test", "down_waiting",
                              "down_leave"})
    /\ OwnedAt("mutex_up", {"up_increment", "up_broadcast", "up_unlock",
                            "up_leave"})

\* mutex_down makes a second waiter impossible, so one call of down at a time
\* has subtracted from the counter and not passed the loop, and the counter
\* never falls below -1.
OneWaiter ==
    /\ \A t, u \in Pending : t = u
    /\ counter >= -1
    /\ counter = -1 => Pending # {}

\* No wakeup is lost: a thread is blocked on the condition variable while the
\* counter is not negative only between the increment and the broadcast of a
\* call of SSU_Sem_up.
NoLostWakeup ==
    waiting["signal"] # {} =>
        \/ counter < 0
        \/ \E u \in Threads : pc[u] = "up_broadcast"
=============================================================================
