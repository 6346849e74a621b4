---------------------------- MODULE Transactions ----------------------------
(***************************************************************************)
(* What log.c promises: the writes of file system operations take effect   *)
(* on the disk all together or not at all.  Operations that overlap share  *)
(* a transaction; a transaction commits only while no operation is active, *)
(* so no crash ever leaves the effects of part of an operation.            *)
(***************************************************************************)
CONSTANTS Procs, Blocks, Values

VARIABLES active,    \* the processes inside an operation
          current,   \* the contents of the blocks the processes see
          durable    \* the contents a crash would leave

avars == <<active, current, durable>>

Contents == [Blocks -> Values]

Init ==
    /\ active = {}
    /\ durable \in Contents
    /\ current = durable

Begin(p) ==
    /\ p \notin active
    /\ active' = active \cup {p}
    /\ UNCHANGED <<current, durable>>

Write(p, b, v) ==
    /\ p \in active
    /\ current' = [current EXCEPT ![b] = v]
    /\ UNCHANGED <<active, durable>>

End(p) ==
    /\ p \in active
    /\ active' = active \ {p}
    /\ UNCHANGED <<current, durable>>

Commit ==
    /\ active = {}
    /\ durable' = current
    /\ UNCHANGED <<active, current>>

Crash ==
    /\ active' = {}
    /\ current' = durable
    /\ UNCHANGED durable

Next ==
    \/ \E p \in Procs : Begin(p) \/ End(p)
    \/ \E p \in Procs, b \in Blocks, v \in Values : Write(p, b, v)
    \/ Commit
    \/ Crash

Spec == Init /\ [][Next]_avars
=============================================================================
