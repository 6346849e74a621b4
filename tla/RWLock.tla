------------------------------- MODULE RWLock -------------------------------
(***************************************************************************)
(* The reader-writer locks of project4/2.  rw_lock-r-test.c (readers       *)
(* preferred) and rw_lock-w-test.c (writers preferred) share struct        *)
(* rw_lock, r_unlock and w_unlock and build r_lock and w_lock from the     *)
(* same critical sections in opposite orders.  The variable preferred says *)
(* which of the two files the program is linked with.                      *)
(*                                                                         *)
(* num_readers is only touched under cmutex_read and num_writers only      *)
(* under cmutex_write, and no critical section of these two mutexes blocks *)
(* before it ends, so each one is a single step here.  mutex_write is held *)
(* across steps and is a variable.                                         *)
(***************************************************************************)
EXTENDS Integers, FiniteSets, Pthread

CONSTANTS Readers, Writers   \* the threads of the test programs, two disjoint sets

VARIABLES preferred, num_readers, num_writers, pc

vars == <<preferred, held, waiting, num_readers, num_writers, pc>>

Callers == Readers \cup Writers

\* init_rwlock
Init ==
    /\ preferred \in {"readers", "writers"}
    /\ InitPthread({"mutex_write"}, {"cond_read", "cond_write"})
    /\ num_readers = 0
    /\ num_writers = 0
    /\ pc = [t \in Callers |-> "idle"]

Goto(t, from, to) ==
    /\ pc[t] = from
    /\ pc' = [pc EXCEPT ![t] = to]

\* A pass through "while (counter > 0) cond_wait(cond)" of thread t at point at.
BlockWhile(t, at, counter, cond) ==
    /\ pc[t] = at
    /\ Woken(t, cond)
    /\ counter > 0
    /\ waiting' = [waiting EXCEPT ![cond] = @ \cup {t}]
    /\ UNCHANGED <<preferred, held, num_readers, num_writers, pc>>

PassWhen(t, at, counter, cond, next) ==
    /\ Woken(t, cond)
    /\ counter <= 0
    /\ Goto(t, at, next)
    /\ UNCHANGED <<preferred, held, waiting, num_readers, num_writers>>

-----------------------------------------------------------------------------
\* The critical sections of r_lock and w_lock.

Call(t, first) ==
    /\ Goto(t, "idle", first)
    /\ UNCHANGED <<preferred, held, waiting, num_readers, num_writers>>

CountReader_Down(t, next) ==
    /\ Goto(t, "r_count", next)
    /\ num_readers' = num_readers - 1
    /\ UNCHANGED <<preferred, held, waiting, num_writers>>

CountReader(t, next) ==
    /\ Goto(t, "r_count", next)
    /\ num_readers' = num_readers + 1
    /\ UNCHANGED <<preferred, held, waiting, num_writers>>

CountWriter(t, next) ==
    /\ Goto(t, "w_count", next)
    /\ num_writers' = num_writers + 1
    /\ UNCHANGED <<preferred, held, waiting, num_readers>>

TakeMutexWrite_Missing(t) ==
    /\ Goto(t, "w_mutex", "writing")
    /\ UNCHANGED <<preferred, held, waiting, num_readers, num_writers>>

TakeMutexWrite(t) ==
    /\ Goto(t, "w_mutex", "writing")
    /\ Lock(t, "mutex_write")
    /\ UNCHANGED <<preferred, waiting, num_readers, num_writers>>

-----------------------------------------------------------------------------
\* r_unlock and w_unlock, the same in both files.

RUnlock_NoBroadcast(t) ==
    /\ Goto(t, "reading", "idle")
    /\ num_readers' = IF num_readers > 0 THEN num_readers - 1 ELSE num_readers
    /\ UNCHANGED <<preferred, held, waiting, num_writers>>

RUnlock(t) ==
    /\ Goto(t, "reading", "idle")
    /\ num_readers' = IF num_readers > 0 THEN num_readers - 1 ELSE num_readers
    /\ IF num_readers' = 0 THEN Broadcast("cond_read") ELSE UNCHANGED waiting
    /\ UNCHANGED <<preferred, held, num_writers>>

WUnlock_KeepsCount(t) ==
    /\ Goto(t, "writing", "w_leave")
    /\ UNCHANGED <<preferred, held, waiting, num_readers, num_writers>>

WUnlock(t) ==
    /\ Goto(t, "writing", "w_leave")
    /\ num_writers' = IF num_writers > 0 THEN num_writers - 1 ELSE num_writers
    /\ IF num_writers' = 0 THEN Broadcast("cond_write") ELSE UNCHANGED waiting
    /\ UNCHANGED <<preferred, held, num_readers>>

DropMutexWrite(t) ==
    /\ Goto(t, "w_leave", "idle")
    /\ Unlock("mutex_write")
    /\ UNCHANGED <<preferred, waiting, num_readers, num_writers>>

Spurious ==
    /\ \E c \in {"cond_read", "cond_write"} : SpuriousWakeup(c)
    /\ UNCHANGED <<preferred, held, num_readers, num_writers, pc>>

-----------------------------------------------------------------------------
\* rw_lock-r-test.c: a reader counts itself before it looks for writers, a
\* writer looks for readers before it counts itself.

r_lock_r(r) ==
    \/ CountReader(r, "r_test")
    \/ BlockWhile(r, "r_test", num_writers, "cond_write")
    \/ PassWhen(r, "r_test", num_writers, "cond_write", "reading")

w_lock_r_NoWait(w) ==
    \/ Goto(w, "w_test", "w_count")
       /\ UNCHANGED <<preferred, held, waiting, num_readers, num_writers>>
    \/ CountWriter(w, "w_mutex")
    \/ TakeMutexWrite(w)

w_lock_r(w) ==
    \/ BlockWhile(w, "w_test", num_readers, "cond_read")
    \/ PassWhen(w, "w_test", num_readers, "cond_read", "w_count")
    \/ CountWriter(w, "w_mutex")
    \/ TakeMutexWrite(w)

\* rw_lock-w-test.c: the other way round.

r_lock_w(r) ==
    \/ BlockWhile(r, "r_test", num_writers, "cond_write")
    \/ PassWhen(r, "r_test", num_writers, "cond_write", "r_count")
    \/ CountReader(r, "reading")

w_lock_w(w) ==
    \/ CountWriter(w, "w_test")
    \/ BlockWhile(w, "w_test", num_readers, "cond_read")
    \/ PassWhen(w, "w_test", num_readers, "cond_read", "w_mutex")
    \/ TakeMutexWrite(w)

r_unlock(r) == RUnlock(r)
w_unlock(w) == WUnlock(w) \/ DropMutexWrite(w)

ReaderStep(r) ==
    \/ preferred = "readers" /\ r_lock_r(r)
    \/ preferred = "writers" /\ r_lock_w(r)
    \/ r_unlock(r)

WriterStep(w) ==
    \/ preferred = "readers" /\ w_lock_r(w)
    \/ preferred = "writers" /\ w_lock_w(w)
    \/ w_unlock(w)

ReaderCall(r) == Call(r, IF preferred = "readers" THEN "r_count" ELSE "r_test")
WriterCall(w) == Call(w, IF preferred = "readers" THEN "w_test" ELSE "w_count")

Next ==
    \/ \E r \in Readers : ReaderCall(r) \/ ReaderStep(r)
    \/ \E w \in Writers : WriterCall(w) \/ WriterStep(w)
    \/ Spurious

Spec == Init /\ [][Next]_vars

\* The operating system runs every thread that can run; nobody has to call.
FairSpec ==
    /\ Spec
    /\ \A r \in Readers : WF_vars(ReaderStep(r))
    /\ \A w \in Writers : WF_vars(WriterStep(w))

-----------------------------------------------------------------------------
ReaderPCs == {"idle", "r_count", "r_test", "reading"}
WriterPCs == {"idle", "w_count", "w_test", "w_mutex", "writing", "w_leave"}

\* The variables have their types.
TypeOK ==
    /\ preferred \in {"readers", "writers"}
    /\ held \in [{"mutex_write"} -> SUBSET Callers]
    /\ waiting \in [{"cond_read", "cond_write"} -> SUBSET Callers]
    /\ num_readers \in Nat
    /\ num_writers \in Nat
    /\ pc \in [Callers -> ReaderPCs \cup WriterPCs]
    /\ \A r \in Readers : pc[r] \in ReaderPCs
    /\ \A w \in Writers : pc[w] \in WriterPCs

Reading == {r \in Readers : pc[r] = "reading"}
Writing == {w \in Writers : pc[w] = "writing"}

\* Two writers never hold the lock together (mutex_write), not even while one
\* of them is still between the two halves of w_unlock.
WritersExclude ==
    \A v, w \in Writers :
        pc[v] \in {"writing", "w_leave"} /\ pc[w] \in {"writing", "w_leave"}
            => v = w

\* "No reader/ writer is allowed when a writer holds lock"
\* (project4/2/reader_test.c:167): a reader never holds the lock with a writer.
ReadersExcludeWriters == ~(Reading # {} /\ Writing # {})

\* A thread sleeps on a condition only while what it waits for has not
\* happened: r_unlock and w_unlock never leave a sleeper behind when they
\* bring their counter to zero.
NoLostWakeup ==
    /\ waiting["cond_read"] # {} => num_readers > 0
    /\ waiting["cond_write"] # {} => num_writers > 0

\* The two counters are exact: they count the threads from the increment in the
\* lock to the decrement in the unlock, so that the guards "if (num_readers > 0)"
\* of the unlocks never fail.
CountersExact ==
    /\ num_readers = Cardinality(Reading \cup
           {r \in Readers : preferred = "readers" /\ pc[r] = "r_test"})
    /\ num_writers = Cardinality(Writing \cup
           {w \in Writers : \/ pc[w] = "w_mutex"
                            \/ preferred = "writers" /\ pc[w] = "w_test"})

\* The preferred side is not starved: where readers are preferred every reader
\* that has called r_lock gets the lock however often writers come back, and
\* where writers are, a writer gets it however often readers come back.
PreferredProgress ==
    /\ \A r \in Readers :
           pc[r] = "r_count" /\ preferred = "readers" ~> pc[r] = "reading"
    /\ (\E w \in Writers : pc[w] = "w_count" /\ preferred = "writers") ~> Writing # {}
=============================================================================
