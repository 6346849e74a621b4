------------------------------ MODULE Pthread ------------------------------
(***************************************************************************)
(* POSIX mutexes, and waiting on a condition with one: a mutex is the set  *)
(* of threads that hold it, never more than one.                           *)
(***************************************************************************)
EXTENDS PthreadCond

VARIABLE held   \* held[m]: {t} while thread t owns mutex m, else {}

InitPthread(mutexes, conds) ==
    /\ held = [m \in mutexes |-> {}]
    /\ InitConds(conds)

\* pthread_mutex_lock: returns once the mutex is free.
Lock(t, m) ==
    /\ held[m] = {}
    /\ held' = [held EXCEPT ![m] = {t}]

\* pthread_mutex_unlock, called by the owner.
Unlock(m) == held' = [held EXCEPT ![m] = {}]

\* pthread_cond_wait, first half: release the mutex and block, atomically.
\* The second half is a Lock of the same mutex once Woken.
Wait(t, c, m) ==
    /\ waiting' = [waiting EXCEPT ![c] = @ \cup {t}]
    /\ Unlock(m)
=============================================================================
