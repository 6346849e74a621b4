------------------------- MODULE CountingSemaphore -------------------------
(***************************************************************************)
(* What SSU_Sem promises: a counting semaphore.  Every call of down blocks *)
(* its thread until it is granted a permit, every call of up adds one, and *)
(* while there is a permit some blocked thread is granted it.              *)
(***************************************************************************)
EXTENDS Integers

CONSTANTS Threads, Value

VARIABLES permits,  \* how many calls of down can still be granted
          blocked   \* the threads inside down, not granted yet

Init == permits = Value /\ blocked = {}

Down(t) ==
    /\ t \notin blocked
    /\ blocked' = blocked \cup {t}
    /\ UNCHANGED permits

Grant(t) ==
    /\ t \in blocked
    /\ permits > 0
    /\ permits' = permits - 1
    /\ blocked' = blocked \ {t}

Up ==
    /\ permits' = permits + 1
    /\ UNCHANGED blocked

GrantSome == \E t \in Threads : Grant(t)

Next ==
    \/ \E t \in Threads : Down(t)
    \/ GrantSome
    \/ Up

SafeSpec == Init /\ [][Next]_<<permits, blocked>>

Spec == SafeSpec /\ WF_<<permits, blocked>>(GrantSome)
=============================================================================
