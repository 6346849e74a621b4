-------------------------------- MODULE Pipe --------------------------------
(***************************************************************************)
(* xv6 pipes (pipe.c): a circular buffer under a spin lock, with sleep and *)
(* wakeup on the two counters, used by processes that hold one end each.   *)
(*                                                                         *)
(* The bytes are numbered in the order in which they are written.  nread   *)
(* and nwrite are unsigned ints: they wrap at Width.                       *)
(***************************************************************************)
EXTENDS Integers, FiniteSetsExt

CONSTANTS Readers, Writers,   \* the processes that hold the read / write end
          Killable,           \* the processes that may be killed
          PIPESIZE,
          Width,              \* 2^32 in the code
          MaxCall,            \* bound: the largest n of a read or write
          MaxBytes            \* bound: bytes written altogether

ASSUME PipeAssumption ==
    /\ PIPESIZE \in Nat \ {0} /\ MaxCall \in Nat /\ MaxBytes \in Nat
    /\ Width \in Nat /\ Width > PIPESIZE /\ Width % PIPESIZE = 0
    /\ Readers \cap Writers = {}

VARIABLES data, nread, nwrite, readopen, writeopen,   \* struct pipe
          lock,      \* the process that holds p->lock, or None
          pc, n,     \* where each process is; the bytes its call has yet to move
          killed,
          sent, received   \* history: bytes put into and taken out of the pipe

pipe == <<data, nread, nwrite, readopen, writeopen>>
vars == <<pipe, lock, pc, n, killed, sent, received>>

Procs == Readers \cup Writers
None == "none"

\* pipealloc
Init ==
    /\ data = [i \in 0..(PIPESIZE - 1) |-> 0]
    /\ nread = 0 /\ nwrite = 0
    /\ readopen = TRUE /\ writeopen = TRUE
    /\ lock = None
    /\ pc = [p \in Procs |-> "idle"]
    /\ n = [p \in Procs |-> 0]
    /\ killed = [p \in Procs |-> FALSE]
    /\ sent = 0 /\ received = 0

Full_OneLess == nwrite = (nread + PIPESIZE + 1) % Width

Full == nwrite = (nread + PIPESIZE) % Width
Empty == nread = nwrite

Holds(p, where) == lock = p /\ pc[p] = where

\* wakeup on a counter: the processes asleep on it compete for the lock again.
Wake(f, asleep, awake) == [q \in Procs |-> IF f[q] = asleep THEN awake ELSE f[q]]
WakeReaders(f) == Wake(f, "sleep_nread", "woken_reader")
WakeWriters(f) == Wake(f, "sleep_nwrite", "woken_writer")

\* sleep() and release() give the lock up.
LeaveTo(p, f, where) ==
    /\ lock' = None
    /\ pc' = [f EXCEPT ![p] = where]

\* A process that sleep() has returned to takes the lock and tests again.
Reacquire(p) ==
    /\ lock = None
    /\ lock' = p
    /\ \/ pc[p] = "woken_reader" /\ pc' = [pc EXCEPT ![p] = "read"]
       \/ pc[p] = "woken_writer" /\ pc' = [pc EXCEPT ![p] = "write"]
    /\ UNCHANGED <<pipe, n, killed, sent, received>>

-----------------------------------------------------------------------------
\* pipewrite

WriteCall(p, k) ==
    /\ p \in Writers /\ pc[p] = "idle" /\ lock = None /\ ~killed[p]
    /\ sent + k + MapThenSumSet(LAMBDA q : n[q], Writers) <= MaxBytes
    /\ lock' = p
    /\ pc' = [pc EXCEPT ![p] = "write"]
    /\ n' = [n EXCEPT ![p] = k]
    /\ UNCHANGED <<pipe, killed, sent, received>>

PutByte_NoWrap(p) ==
    /\ Holds(p, "write") /\ n[p] > 0 /\ ~Full
    /\ data' = [data EXCEPT ![nwrite % PIPESIZE] = sent + 1]
    /\ nwrite' = nwrite + 1
    /\ n' = [n EXCEPT ![p] = @ - 1]
    /\ sent' = sent + 1
    /\ UNCHANGED <<nread, readopen, writeopen, lock, pc, killed, received>>

PutByte(p) ==
    /\ Holds(p, "write") /\ n[p] > 0 /\ ~Full
    /\ data' = [data EXCEPT ![nwrite % PIPESIZE] = sent + 1]
    /\ nwrite' = (nwrite + 1) % Width
    /\ n' = [n EXCEPT ![p] = @ - 1]
    /\ sent' = sent + 1
    /\ UNCHANGED <<nread, readopen, writeopen, lock, pc, killed, received>>

\* The pipe is full and nobody will read it, or the writer is killed.  The
\* readers are not woken here.
WriteFails(p) ==
    /\ Holds(p, "write") /\ n[p] > 0 /\ Full
    /\ ~readopen \/ killed[p]
    /\ LeaveTo(p, pc, "idle")
    /\ n' = [n EXCEPT ![p] = 0]
    /\ UNCHANGED <<pipe, killed, sent, received>>

WriteSleep_NoWakeup(p) ==
    /\ Holds(p, "write") /\ n[p] > 0 /\ Full
    /\ readopen /\ ~killed[p]
    /\ LeaveTo(p, pc, "sleep_nwrite")
    /\ UNCHANGED <<pipe, n, killed, sent, received>>

WriteSleep(p) ==
    /\ Holds(p, "write") /\ n[p] > 0 /\ Full
    /\ readopen /\ ~killed[p]
    /\ LeaveTo(p, WakeReaders(pc), "sleep_nwrite")
    /\ UNCHANGED <<pipe, n, killed, sent, received>>

WriteReturns(p) ==
    /\ Holds(p, "write") /\ n[p] = 0
    /\ LeaveTo(p, WakeReaders(pc), "idle")
    /\ UNCHANGED <<pipe, n, killed, sent, received>>

-----------------------------------------------------------------------------
\* piperead

ReadCall(p, k) ==
    /\ p \in Readers /\ pc[p] = "idle" /\ lock = None /\ ~killed[p]
    /\ lock' = p
    /\ pc' = [pc EXCEPT ![p] = "read"]
    /\ n' = [n EXCEPT ![p] = k]
    /\ UNCHANGED <<pipe, killed, sent, received>>

MustWait == Empty /\ writeopen

ReadFails(p) ==
    /\ Holds(p, "read") /\ MustWait /\ killed[p]
    /\ LeaveTo(p, pc, "idle")
    /\ UNCHANGED <<pipe, n, killed, sent, received>>

ReadSleep(p) ==
    /\ Holds(p, "read") /\ MustWait /\ ~killed[p]
    /\ LeaveTo(p, pc, "sleep_nread")
    /\ UNCHANGED <<pipe, n, killed, sent, received>>

ReadStart(p) ==
    /\ Holds(p, "read") /\ ~MustWait
    /\ pc' = [pc EXCEPT ![p] = "copy"]
    /\ UNCHANGED <<pipe, lock, n, killed, sent, received>>

GetByte(p) ==
    /\ Holds(p, "copy") /\ n[p] > 0 /\ ~Empty
    /\ nread' = (nread + 1) % Width
    /\ n' = [n EXCEPT ![p] = @ - 1]
    /\ received' = received + 1
    /\ UNCHANGED <<data, nwrite, readopen, writeopen, lock, pc, killed, sent>>

ReadReturns(p) ==
    /\ Holds(p, "copy") /\ (n[p] = 0 \/ Empty)
    /\ LeaveTo(p, WakeWriters(pc), "idle")
    /\ UNCHANGED <<pipe, n, killed, sent, received>>

-----------------------------------------------------------------------------
\* A process closes its end, also when it exits; the file table calls pipeclose
\* for the last one.

LastOpen(p, ends) == \A q \in ends \ {p} : pc[q] = "closed"

PipeClose_StaysOpen(p) ==
    /\ pc[p] = "idle" /\ lock = None
    /\ \/ /\ p \in Writers /\ LastOpen(p, Writers)
          /\ pc' = [WakeReaders(pc) EXCEPT ![p] = "closed"]
          /\ UNCHANGED <<readopen, writeopen>>
       \/ /\ p \in Readers /\ LastOpen(p, Readers)
          /\ readopen' = FALSE
          /\ pc' = [WakeWriters(pc) EXCEPT ![p] = "closed"]
          /\ UNCHANGED writeopen
       \/ /\ ~LastOpen(p, IF p \in Writers THEN Writers ELSE Readers)
          /\ pc' = [pc EXCEPT ![p] = "closed"]
          /\ UNCHANGED <<readopen, writeopen>>
    /\ UNCHANGED <<data, nread, nwrite, lock, n, killed, sent, received>>

PipeClose(p) ==
    /\ pc[p] = "idle" /\ lock = None
    /\ \/ /\ p \in Writers /\ LastOpen(p, Writers)
          /\ writeopen' = FALSE
          /\ pc' = [WakeReaders(pc) EXCEPT ![p] = "closed"]
          /\ UNCHANGED readopen
       \/ /\ p \in Readers /\ LastOpen(p, Readers)
          /\ readopen' = FALSE
          /\ pc' = [WakeWriters(pc) EXCEPT ![p] = "closed"]
          /\ UNCHANGED writeopen
       \/ /\ ~LastOpen(p, IF p \in Writers THEN Writers ELSE Readers)
          /\ pc' = [pc EXCEPT ![p] = "closed"]
          /\ UNCHANGED <<readopen, writeopen>>
    /\ UNCHANGED <<data, nread, nwrite, lock, n, killed, sent, received>>

\* kill(): a sleeping process is made to run.
Kill(p) ==
    /\ lock = None /\ ~killed[p] /\ pc[p] # "closed"
    /\ killed' = [killed EXCEPT ![p] = TRUE]
    /\ pc' = [pc EXCEPT ![p] = IF @ = "sleep_nread" THEN "woken_reader"
                              ELSE IF @ = "sleep_nwrite" THEN "woken_writer" ELSE @]
    /\ UNCHANGED <<pipe, lock, n, sent, received>>

-----------------------------------------------------------------------------
Step(p) ==
    \/ Reacquire(p)
    \/ PutByte(p) \/ WriteFails(p) \/ WriteSleep(p) \/ WriteReturns(p)
    \/ ReadFails(p) \/ ReadSleep(p) \/ ReadStart(p) \/ GetByte(p) \/ ReadReturns(p)

Call(p) == \E k \in 0..MaxCall : WriteCall(p, k) \/ ReadCall(p, k)

AllClosed == \A p \in Procs : pc[p] = "closed"

Next ==
    \/ \E p \in Procs : Step(p) \/ Call(p) \/ PipeClose(p)
    \/ \E p \in Killable : Kill(p)
    \/ AllClosed /\ UNCHANGED vars

Spec == Init /\ [][Next]_vars

\* A process gets the lock when it is free again and again, and every program
\* closes its end at last, if only by exiting.
FairSpec ==
    /\ Spec
    /\ \A p \in Procs : SF_vars(Step(p)) /\ SF_vars(PipeClose(p))

-----------------------------------------------------------------------------
\* The variables have their types.
TypeOK ==
    /\ data \in [0..(PIPESIZE - 1) -> 0..MaxBytes]
    /\ nread \in 0..(Width - 1) /\ nwrite \in 0..(Width - 1)
    /\ readopen \in BOOLEAN /\ writeopen \in BOOLEAN
    /\ lock \in Procs \cup {None}
    /\ pc \in [Procs -> {"idle", "closed", "write", "read", "copy", "sleep_nread",
                         "sleep_nwrite", "woken_reader", "woken_writer"}]
    /\ n \in [Procs -> 0..MaxCall]
    /\ killed \in [Procs -> BOOLEAN]
    /\ sent \in 0..MaxBytes /\ received \in 0..MaxBytes

\* The pipe holds exactly the bytes written and not yet read, in their order,
\* however the counters wrap: no byte is lost, repeated or overtaken.
FirstInFirstOut ==
    /\ sent - received \in 0..PIPESIZE
    /\ nwrite = (nread + (sent - received)) % Width
    /\ \A k \in 0..(sent - received - 1) :
           data[(nread + k) % PIPESIZE] = received + 1 + k

\* A reader sleeps only while the pipe is empty and has a writer, a writer only
\* while it is full and has a reader, but for the moment before the wakeup.  A
\* killed writer leaves a full pipe without waking the readers (pipe.c:86-88):
\* that case is left out.
NoLostWakeup ==
    lock = None /\ (\A w \in Writers : ~killed[w]) =>
        \A p \in Procs :
            /\ pc[p] = "sleep_nread" => MustWait
            /\ pc[p] = "sleep_nwrite" => Full /\ readopen

\* Nobody is left behind in the pipe: every process gets out and closes its end,
\* killed or not, whoever goes first.
EverybodyLeaves == <>[]AllClosed
=============================================================================
