--------------------------- MODULE SSU_Sem_proofs ---------------------------
(***************************************************************************)
(* Proofs about SSU_Sem for every set of threads, initial value and number *)
(* of calls.  SemInv is inductive: each part needs the lock discipline,    *)
(* which says who may move the counter and who may wait.                   *)
(***************************************************************************)
EXTENDS SSU_Sem, TLAPS

\* Only a thread inside pthread_cond_wait is in the condition's wait set.
WaitersWait == \A t \in waiting["signal"] : pc[t] = "down_waiting"

SemInv ==
    /\ TypeOK
    /\ LockDiscipline
    /\ WaitersWait
    /\ OneWaiter
    /\ NoLostWakeup

\* SSU_Sem_init establishes the invariant.
LEMMA InitSemInv == Init => SemInv
BY ValueAssumption, MaxUpsAssumption
   DEF Init, InitPthread, InitConds, SemInv, TypeOK, LockDiscipline, WaitersWait, OneWaiter,
       NoLostWakeup, Pending, OwnedAt, Mutexes, Conds, PCs

\* Every step keeps the type invariant.
LEMMA TypeStep == TypeOK /\ [Next]_vars => TypeOK'
<1> SUFFICES ASSUME TypeOK, [Next]_vars PROVE TypeOK'
  OBVIOUS
<1> USE MaxUpsAssumption DEF TypeOK, Mutexes, Conds, PCs, Goto, Lock, Unlock, Wait, Woken
<1>1. ASSUME NEW t \in Threads, Step(t) PROVE TypeOK'
  <2>1. CASE DownEnter(t) BY <2>1 DEF DownEnter
  <2>2. CASE DownDecrement(t) BY <2>2 DEF DownDecrement
  <2>3. CASE DownWait(t) BY <2>3 DEF DownWait
  <2>4. CASE DownPass(t) BY <2>4 DEF DownPass
  <2>5. CASE DownWoken(t) BY <2>5 DEF DownWoken
  <2>6. CASE DownReturn(t) BY <2>6 DEF DownReturn
  <2>7. CASE UpEnter(t) BY <2>7 DEF UpEnter
  <2>8. CASE UpIncrement(t) BY <2>8 DEF UpIncrement
  <2>9. CASE UpBroadcast(t) BY <2>9 DEF UpBroadcast, Broadcast
  <2>10. CASE UpUnlock(t) BY <2>10 DEF UpUnlock
  <2>11. CASE UpReturn(t) BY <2>11 DEF UpReturn
  <2> QED BY <1>1, <2>1, <2>2, <2>3, <2>4, <2>5, <2>6, <2>7, <2>8, <2>9, <2>10, <2>11 DEF Step
<1>2. ASSUME NEW t \in Threads, Call(t) PROVE TypeOK'
  BY <1>2 DEF Call, DownCall, UpCall
<1>3. CASE Spurious BY <1>3 DEF Spurious, SpuriousWakeup
<1>4. CASE UNCHANGED vars BY <1>4 DEF vars
<1> QED BY <1>1, <1>2, <1>3, <1>4 DEF Next

\* Every step keeps the lock discipline: no step takes a mutex that is not free.
LEMMA LockStep == TypeOK /\ LockDiscipline /\ [Next]_vars => LockDiscipline'
<1> SUFFICES ASSUME TypeOK, LockDiscipline, [Next]_vars PROVE LockDiscipline'
  OBVIOUS
<1> USE DEF TypeOK, LockDiscipline, Mutexes, OwnedAt, PCs, Goto, Lock, Unlock, Wait
<1>1. ASSUME NEW t \in Threads, Step(t) PROVE LockDiscipline'
  <2>1. CASE DownEnter(t) BY <2>1 DEF DownEnter
  <2>2. CASE DownDecrement(t) BY <2>2 DEF DownDecrement
  <2>3. CASE DownWait(t) BY <2>3 DEF DownWait
  <2>4. CASE DownPass(t) BY <2>4 DEF DownPass
  <2>5. CASE DownWoken(t) BY <2>5 DEF DownWoken
  <2>6. CASE DownReturn(t) BY <2>6 DEF DownReturn
  <2>7. CASE UpEnter(t) BY <2>7 DEF UpEnter
  <2>8. CASE UpIncrement(t) BY <2>8 DEF UpIncrement
  <2>9. CASE UpBroadcast(t) BY <2>9 DEF UpBroadcast
  <2>10. CASE UpUnlock(t) BY <2>10 DEF UpUnlock
  <2>11. CASE UpReturn(t) BY <2>11 DEF UpReturn
  <2> QED BY <1>1, <2>1, <2>2, <2>3, <2>4, <2>5, <2>6, <2>7, <2>8, <2>9, <2>10, <2>11 DEF Step
<1>2. ASSUME NEW t \in Threads, Call(t) PROVE LockDiscipline'
  BY <1>2 DEF Call, DownCall, UpCall
<1>3. CASE Spurious BY <1>3 DEF Spurious
<1>4. CASE UNCHANGED vars BY <1>4 DEF vars
<1> QED BY <1>1, <1>2, <1>3, <1>4 DEF Next

\* Every step keeps the three facts about waiting threads and the counter.
LEMMA CounterStep ==
    SemInv /\ [Next]_vars => WaitersWait' /\ OneWaiter' /\ NoLostWakeup'
<1> SUFFICES ASSUME SemInv, [Next]_vars
             PROVE  WaitersWait' /\ OneWaiter' /\ NoLostWakeup'
  OBVIOUS
<1> USE DEF SemInv, TypeOK, LockDiscipline, WaitersWait, OneWaiter, NoLostWakeup,
            Pending, Mutexes, Conds, OwnedAt, PCs, Goto, Lock, Unlock, Wait, Woken
<1>1. ASSUME NEW t \in Threads, Step(t)
      PROVE  WaitersWait' /\ OneWaiter' /\ NoLostWakeup'
  <2>1. CASE DownEnter(t) BY <2>1 DEF DownEnter
  <2>2. CASE DownDecrement(t) BY <2>2 DEF DownDecrement
  <2>3. CASE DownWait(t) BY <2>3 DEF DownWait
  <2>4. CASE DownPass(t) BY <2>4 DEF DownPass
  <2>5. CASE DownWoken(t) BY <2>5 DEF DownWoken
  <2>6. CASE DownReturn(t) BY <2>6 DEF DownReturn
  <2>7. CASE UpEnter(t) BY <2>7 DEF UpEnter
  <2>8. CASE UpIncrement(t) BY <2>8 DEF UpIncrement
  <2>9. CASE UpBroadcast(t) BY <2>9 DEF UpBroadcast, Broadcast
  <2>10. CASE UpUnlock(t) BY <2>10 DEF UpUnlock
  <2>11. CASE UpReturn(t) BY <2>11 DEF UpReturn
  <2> QED BY <1>1, <2>1, <2>2, <2>3, <2>4, <2>5, <2>6, <2>7, <2>8, <2>9, <2>10, <2>11 DEF Step
<1>2. ASSUME NEW t \in Threads, Call(t)
      PROVE  WaitersWait' /\ OneWaiter' /\ NoLostWakeup'
  BY <1>2 DEF Call, DownCall, UpCall
<1>3. CASE Spurious BY <1>3 DEF Spurious, SpuriousWakeup
<1>4. CASE UNCHANGED vars BY <1>4 DEF vars
<1> QED BY <1>1, <1>2, <1>3, <1>4 DEF Next

\* In every behaviour of SSU_Sem the invariant holds.
THEOREM Invariance == Spec => []SemInv
<1>1. SemInv /\ [Next]_vars => SemInv'
  BY TypeStep, LockStep, CounterStep DEF SemInv
<1> QED BY InitSemInv, <1>1, PTL DEF Spec

\* The three mutexes of SSU_Sem have one owner at a time, a thread between the
\* lock and the unlock in SSU_Sem_down or SSU_Sem_up.
THEOREM MutexesAreExclusive == Spec => []LockDiscipline
BY Invariance, PTL DEF SemInv

\* At most one call of SSU_Sem_down is waiting or about to, and the counter
\* never falls below -1.
THEOREM AtMostOneWaiter == Spec => []OneWaiter
BY Invariance, PTL DEF SemInv

\* The broadcast of SSU_Sem_up is never missed by a waiting SSU_Sem_down.
THEOREM WakeupsAreNotLost == Spec => []NoLostWakeup
BY Invariance, PTL DEF SemInv

-----------------------------------------------------------------------------
\* Every step of SSU_Sem is a step of the counting semaphore, or changes
\* nothing it can see.
LEMMA StepSimulation ==
    SemInv /\ [Next]_vars => [Sem!Next]_<<Permits, Blocked>>
<1> SUFFICES ASSUME SemInv, [Next]_vars
             PROVE  [Sem!Next]_<<Permits, Blocked>>
  OBVIOUS
<1> USE DEF SemInv, TypeOK, LockDiscipline, OneWaiter, Pending, Permits, Blocked,
            Mutexes, OwnedAt, PCs, Goto
<1>1. ASSUME NEW t \in Threads, Step(t)
      PROVE  [Sem!Next]_<<Permits, Blocked>>
  <2>1. CASE DownEnter(t)
    BY <2>1 DEF DownEnter
  <2>2. CASE DownDecrement(t)
    BY <2>2 DEF DownDecrement, Lock
  <2>3. CASE DownWait(t)
    BY <2>3 DEF DownWait
  <2>4. CASE DownPass(t)
    <3>1. Sem!Grant(t) BY <2>4 DEF DownPass, Sem!Grant
    <3> QED BY <3>1 DEF Sem!Next, Sem!GrantSome
  <2>5. CASE DownWoken(t)
    BY <2>5 DEF DownWoken
  <2>6. CASE DownReturn(t)
    BY <2>6 DEF DownReturn
  <2>7. CASE UpEnter(t)
    BY <2>7 DEF UpEnter
  <2>8. CASE UpIncrement(t)
    <3>1. Sem!Up BY <2>8 DEF UpIncrement, Sem!Up
    <3> QED BY <3>1 DEF Sem!Next
  <2>9. CASE UpBroadcast(t)
    BY <2>9 DEF UpBroadcast
  <2>10. CASE UpUnlock(t)
    BY <2>10 DEF UpUnlock
  <2>11. CASE UpReturn(t)
    BY <2>11 DEF UpReturn
  <2> QED BY <1>1, <2>1, <2>2, <2>3, <2>4, <2>5, <2>6, <2>7, <2>8, <2>9, <2>10, <2>11 DEF Step
<1>2. ASSUME NEW t \in Threads, Call(t)
      PROVE  [Sem!Next]_<<Permits, Blocked>>
  <2>1. CASE DownCall(t)
    <3>1. Sem!Down(t) BY <2>1 DEF DownCall, Sem!Down
    <3> QED BY <3>1 DEF Sem!Next
  <2>2. CASE UpCall(t)
    BY <2>2 DEF UpCall
  <2> QED BY <1>2, <2>1, <2>2 DEF Call
<1>3. CASE Spurious BY <1>3 DEF Spurious
<1>4. CASE UNCHANGED vars BY <1>4 DEF vars
<1> QED BY <1>1, <1>2, <1>3, <1>4 DEF Next

\* SSU_Sem implements the safety part of the counting semaphore: no call of
\* SSU_Sem_down returns without a permit of its own, for any number of threads.
THEOREM SafeRefinement == Spec => Sem!SafeSpec
<1>1. Init => Sem!Init
  BY DEF Init, Sem!Init, Permits, Blocked, Pending
<1> QED BY <1>1, StepSimulation, Invariance, PTL DEF Spec, Sem!SafeSpec
=============================================================================
