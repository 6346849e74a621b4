---------------------------- MODULE MasterWorker ----------------------------
(***************************************************************************)
(* The thread pool of project4/1/master-worker.c: masters produce the      *)
(* numbers 0..total_items-1 into a bounded stack, workers consume them,    *)
(* main joins the masters, signals once, and joins the workers.            *)
(*                                                                         *)
(* One mutex protects everything, and a critical section either ends or    *)
(* blocks in pthread_cond_wait: each one, and each way out of a wait, is   *)
(* one step.                                                               *)
(***************************************************************************)
EXTENDS Integers, Sequences, FiniteSets, PthreadCond

CONSTANTS MaxItems, MaxBuffer, MaxMasters, MaxWorkers   \* bounds on the arguments

ASSUME BoundsAssumption ==
    /\ MaxItems \in Nat
    /\ {MaxBuffer, MaxMasters, MaxWorkers} \subseteq Nat \ {0}

VARIABLES total_items, max_buf_size, num_masters, num_workers,   \* the arguments
          buffer,           \* buffer[0..curr_buf_size-1]
          item_to_produce,
          idx,              \* idx of each master's loop
          item_to_consume,  \* item_to_consume of each worker's loop
          exited,           \* the threads that have returned
          consumed,         \* consumed[w]: what worker w has printed
          main              \* where main is: "join_masters", "join_workers", "done"

args == <<total_items, max_buf_size, num_masters, num_workers>>
vars == <<args, waiting, buffer, item_to_produce, idx, item_to_consume, exited,
          consumed, main>>

Masters == 0..(num_masters - 1)
Workers == 0..(num_workers - 1)
curr_buf_size == Len(buffer)

Least(a, b) == IF a < b THEN a ELSE b

MasterStart(m) == m * (total_items \div num_masters)
MasterEnd(m) ==
    Least((m + 1) * (total_items \div num_masters), total_items)
    + IF m = num_masters - 1 THEN total_items % num_masters ELSE 0

WorkerStart(w) == w * (total_items \div num_workers)
WorkerEnd_NoRemainder(w) ==
    Least((w + 1) * (total_items \div num_workers), total_items)
WorkerEnd(w) ==
    Least((w + 1) * (total_items \div num_workers), total_items)
    + IF w = 0 THEN total_items % num_workers ELSE 0

Init ==
    /\ total_items \in 0..MaxItems /\ max_buf_size \in 1..MaxBuffer
    /\ num_masters \in 1..MaxMasters /\ num_workers \in 1..MaxWorkers
    /\ InitConds({"can_consume", "can_produce"})
    /\ buffer = <<>>
    /\ item_to_produce = 0
    /\ idx = [m \in Masters |-> MasterStart(m)]
    /\ item_to_consume = [w \in Workers |-> WorkerStart(w)]
    /\ exited = [masters |-> {}, workers |-> {}]
    /\ consumed = [w \in Workers |-> {}]
    /\ main = "join_masters"

-----------------------------------------------------------------------------
\* generate_requests_loop

Producing(m) == m \notin exited.masters /\ Woken(m, "can_produce") /\ idx[m] < MasterEnd(m)

MasterWait_Counts(m) ==
    /\ Producing(m)
    /\ curr_buf_size >= max_buf_size
    /\ item_to_produce # total_items
    /\ item_to_produce' = item_to_produce + 1
    /\ \E woken \in SignalChoices("can_consume") :
           waiting' = [waiting EXCEPT !["can_consume"] = @ \ woken,
                                      !["can_produce"] = @ \cup {m}]
    /\ UNCHANGED <<args, buffer, idx, item_to_consume, exited, consumed, main>>

\* The buffer is full: signal a worker, and wait unless everything is produced.
MasterWait(m) ==
    /\ Producing(m)
    /\ curr_buf_size >= max_buf_size
    /\ item_to_produce # total_items
    /\ \E woken \in SignalChoices("can_consume") :
           waiting' = [waiting EXCEPT !["can_consume"] = @ \ woken,
                                      !["can_produce"] = @ \cup {m}]
    /\ UNCHANGED <<args, buffer, item_to_produce, idx, item_to_consume, exited, consumed, main>>

MasterPush_IgnoresFull(m) ==
    /\ Producing(m)
    /\ buffer' = Append(buffer, idx[m])
    /\ item_to_produce' = item_to_produce + 1
    /\ idx' = [idx EXCEPT ![m] = @ + 1]
    /\ UNCHANGED <<args, waiting, item_to_consume, exited, consumed, main>>

MasterPush(m) ==
    /\ Producing(m)
    /\ curr_buf_size < max_buf_size
    /\ buffer' = Append(buffer, idx[m])
    /\ item_to_produce' = item_to_produce + 1
    /\ idx' = [idx EXCEPT ![m] = @ + 1]
    /\ UNCHANGED <<args, waiting, item_to_consume, exited, consumed, main>>

\* After the loop: signal a worker if there is something to consume, return.
MasterExit(m) ==
    /\ m \notin exited.masters
    /\ idx[m] >= MasterEnd(m)
    /\ IF curr_buf_size >= 1 THEN Signal("can_consume") ELSE UNCHANGED waiting
    /\ exited' = [exited EXCEPT !.masters = @ \cup {m}]
    /\ UNCHANGED <<args, buffer, item_to_produce, idx, item_to_consume, consumed, main>>

-----------------------------------------------------------------------------
\* generate_responses_loop

Consuming(w) ==
    /\ w \notin exited.workers
    /\ Woken(w, "can_consume")
    /\ item_to_consume[w] < WorkerEnd(w)

WorkerWait_NoSignal(w) ==
    /\ Consuming(w)
    /\ curr_buf_size <= 0
    /\ waiting' = [waiting EXCEPT !["can_consume"] = @ \cup {w}]
    /\ UNCHANGED <<args, buffer, item_to_produce, idx, item_to_consume, exited, consumed, main>>

\* The buffer is empty: signal a master and wait.
WorkerWait(w) ==
    /\ Consuming(w)
    /\ curr_buf_size <= 0
    /\ \E woken \in SignalChoices("can_produce") :
           waiting' = [waiting EXCEPT !["can_produce"] = @ \ woken,
                                      !["can_consume"] = @ \cup {w}]
    /\ UNCHANGED <<args, buffer, item_to_produce, idx, item_to_consume, exited, consumed, main>>

WorkerPop_KeepsItem(w) ==
    /\ Consuming(w)
    /\ curr_buf_size > 0
    /\ consumed' = [consumed EXCEPT ![w] = @ \cup {buffer[curr_buf_size]}]
    /\ UNCHANGED buffer
    /\ item_to_consume' = [item_to_consume EXCEPT ![w] = @ + 1]
    /\ UNCHANGED <<args, waiting, item_to_produce, idx, exited, main>>

\* Take the last number put into the buffer.
WorkerPop(w) ==
    /\ Consuming(w)
    /\ curr_buf_size > 0
    /\ consumed' = [consumed EXCEPT ![w] = @ \cup {buffer[curr_buf_size]}]
    /\ buffer' = SubSeq(buffer, 1, curr_buf_size - 1)
    /\ item_to_consume' = [item_to_consume EXCEPT ![w] = @ + 1]
    /\ UNCHANGED <<args, waiting, item_to_produce, idx, exited, main>>

WorkerExit(w) ==
    /\ w \notin exited.workers
    /\ item_to_consume[w] >= WorkerEnd(w)
    /\ Signal("can_produce")
    /\ exited' = [exited EXCEPT !.workers = @ \cup {w}]
    /\ UNCHANGED <<args, buffer, item_to_produce, idx, item_to_consume, consumed, main>>

-----------------------------------------------------------------------------
\* main, after it has created the threads.

JoinMasters ==
    /\ main = "join_masters"
    /\ exited.masters = Masters
    /\ IF curr_buf_size >= 1 THEN Signal("can_consume") ELSE UNCHANGED waiting
    /\ main' = "join_workers"
    /\ UNCHANGED <<args, buffer, item_to_produce, idx, item_to_consume, exited, consumed>>

JoinWorkers ==
    /\ main = "join_workers"
    /\ exited.workers = Workers
    /\ Broadcast("can_produce")
    /\ main' = "done"
    /\ UNCHANGED <<args, buffer, item_to_produce, idx, item_to_consume, exited, consumed>>

Spurious ==
    /\ \E c \in {"can_consume", "can_produce"} : SpuriousWakeup(c)
    /\ UNCHANGED <<args, buffer, item_to_produce, idx, item_to_consume, exited, consumed, main>>

Terminated == main = "done" /\ UNCHANGED vars

MasterStep(m) == MasterWait(m) \/ MasterPush(m) \/ MasterExit(m)
WorkerStep(w) == WorkerWait(w) \/ WorkerPop(w) \/ WorkerExit(w)
MainStep == JoinMasters \/ JoinWorkers

Next ==
    \/ \E m \in Masters : MasterStep(m)
    \/ \E w \in Workers : WorkerStep(w)
    \/ MainStep
    \/ Spurious
    \/ Terminated

Spec == Init /\ [][Next]_vars

\* Every thread that can run is run.
FairSpec ==
    /\ Spec
    /\ \A m \in 0..(MaxMasters - 1) : WF_vars(m \in Masters /\ MasterStep(m))
    /\ \A w \in 0..(MaxWorkers - 1) : WF_vars(w \in Workers /\ WorkerStep(w))
    /\ WF_vars(MainStep)

-----------------------------------------------------------------------------
Items == 0..(total_items - 1)
Produced == UNION {MasterStart(m)..(idx[m] - 1) : m \in Masters}
Consumed == UNION {consumed[w] : w \in Workers}
Buffered == {buffer[i] : i \in 1..curr_buf_size}

\* The variables have their types, and the buffer does not overflow.
TypeOK ==
    /\ waiting["can_produce"] \subseteq Masters
    /\ waiting["can_consume"] \subseteq Workers
    /\ buffer \in Seq(Items)
    /\ curr_buf_size <= max_buf_size
    /\ item_to_produce \in 0..total_items
    /\ idx \in [Masters -> Nat]
    /\ item_to_consume \in [Workers -> Nat]
    /\ exited.masters \subseteq Masters /\ exited.workers \subseteq Workers
    /\ consumed \in [Workers -> SUBSET Items]
    /\ main \in {"join_masters", "join_workers", "done"}

\* Every number is produced once and consumed once: a produced number is in the
\* buffer, in one place, or has been consumed, by one worker, and no worker has
\* consumed more numbers than its loop has taken.
ExactlyOnce ==
    /\ Produced = Buffered \cup Consumed
    /\ Buffered \cap Consumed = {}
    /\ \A i, j \in 1..curr_buf_size : buffer[i] = buffer[j] => i = j
    /\ \A v, w \in Workers : v # w => consumed[v] \cap consumed[w] = {}
    /\ \A w \in Workers : Cardinality(consumed[w]) = item_to_consume[w] - WorkerStart(w)

\* A master with something left to produce always waits when the buffer is full:
\* the test "item_to_produce != total_items" never makes it spin in the loop
\* with the mutex locked.
MastersNeverSpin ==
    \A m \in Masters : idx[m] < MasterEnd(m) => item_to_produce < total_items

\* When main is done, all the numbers have been produced and consumed: the
\* chunks of the masters and those of the workers both cover 0..total_items-1.
AllConsumedAtExit == main = "done" => Consumed = Items /\ buffer = <<>>

\* All the threads terminate (project4/README.md:57).
Termination == <>(main = "done")

\* They do with one worker: a signal on can_consume then never wakes the wrong
\* thread, and the worker signals a master before each of its waits.
OneWorkerTerminates == num_workers = 1 ~> main = "done"
=============================================================================
