------------------------------- MODULE MCSync -------------------------------
(***************************************************************************)
(* Model checking of the synchronisation objects of project4 in one run: a *)
(* program is linked with the semaphore of SSU_Sem.c or with the           *)
(* reader-writer lock of one of the two files of project4/2.               *)
(***************************************************************************)
EXTENDS SSU_Sem, FiniteSets

CONSTANTS Readers, Writers

ASSUME RoleAssumption ==
    /\ IsFiniteSet(Readers) /\ IsFiniteSet(Writers)
    /\ Readers \cap Writers = {}

VARIABLES linked,    \* the object the program uses
          preferred, rw_held, rw_waiting, num_readers, num_writers, rw_pc

RW == INSTANCE RWLock WITH held <- rw_held, waiting <- rw_waiting, pc <- rw_pc

rwvars == <<preferred, rw_held, rw_waiting, num_readers, num_writers, rw_pc>>
allvars == <<linked, vars, rwvars>>

SyncInit == linked \in {"SSU_Sem", "rw_lock"} /\ Init /\ RW!Init

SyncNext ==
    /\ \/ linked = "SSU_Sem" /\ Next /\ UNCHANGED rwvars
       \/ linked = "rw_lock" /\ RW!Next /\ UNCHANGED vars
    /\ UNCHANGED linked

\* The fairness of SSU_Sem and of RWLock.
SyncSpec ==
    /\ SyncInit /\ [][SyncNext]_allvars
    /\ \A t \in Threads :
           WF_allvars(linked = "SSU_Sem" /\ Step(t) /\ UNCHANGED <<linked, rwvars>>)
    /\ \A r \in Readers :
           WF_allvars(linked = "rw_lock" /\ RW!ReaderStep(r) /\ UNCHANGED <<linked, vars>>)
    /\ \A w \in Writers :
           WF_allvars(linked = "rw_lock" /\ RW!WriterStep(w) /\ UNCHANGED <<linked, vars>>)

\* The variables of the reader-writer lock have their types.
RWTypeOK == RW!TypeOK

\* Two writers never hold the lock of rw_lock-r-test.c or rw_lock-w-test.c together,
\* not even while one of them is between the two halves of w_unlock.
WritersExclude == RW!WritersExclude

\* num_readers and num_writers are exact, so that the guards of r_unlock and
\* w_unlock never fail.
CountersExact == RW!CountersExact

\* r_unlock and w_unlock leave nobody asleep when they bring their counter to zero.
RWNoLostWakeup == RW!NoLostWakeup

\* A reader gets the lock that prefers readers and a writer the one that prefers
\* writers, however often the others call r_lock and w_lock.
PreferredProgress == RW!PreferredProgress
=============================================================================
