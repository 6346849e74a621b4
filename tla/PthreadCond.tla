---------------------------- MODULE PthreadCond ----------------------------
(***************************************************************************)
(* POSIX condition variables, as the programs of project4 use them.  The   *)
(* library is not part of the repository: a condition variable is the set  *)
(* of threads blocked in pthread_cond_wait on it.                          *)
(***************************************************************************)
VARIABLE waiting   \* waiting[c]: the threads blocked on condition c

InitConds(conds) == waiting = [c \in conds |-> {}]

Woken(t, c) == t \notin waiting[c]

\* The threads one call of pthread_cond_signal may wake: it is lost when nobody
\* waits.
SignalChoices(c) ==
    IF waiting[c] = {} THEN {{}} ELSE {{t} : t \in waiting[c]}

Signal(c) ==
    \E woken \in SignalChoices(c) : waiting' = [waiting EXCEPT ![c] = @ \ woken]

\* pthread_cond_broadcast
Broadcast(c) == waiting' = [waiting EXCEPT ![c] = {}]

\* POSIX lets a waiter return although nobody signalled.
SpuriousWakeup(c) ==
    \E t \in waiting[c] : waiting' = [waiting EXCEPT ![c] = @ \ {t}]
=============================================================================
