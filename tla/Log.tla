-------------------------------- MODULE Log --------------------------------
(***************************************************************************)
(* The write-ahead log of the xv6 file system (log.c) over the buffer      *)
(* cache and the disk, with crashes at any point.                          *)
(*                                                                         *)
(* A critical section of log.lock is one step; a disk block is written in  *)
(* one step (BSIZE is the size of a sector) and bwrite() waits for it.     *)
(* A buffer that is modified is locked until log_write() has recorded it,  *)
(* so nobody sees its contents in between.  log_write() tests for space    *)
(* before it acquires log.lock: the test is a step of its own.             *)
(*                                                                         *)
(* mkfs.c gives the log LOGSIZE blocks, its header included, and param.h   *)
(* the buffer cache as many buffers.                                       *)
(***************************************************************************)
EXTENDS Integers, Sequences, FiniteSets, SequencesExt, FiniteSetsExt

CONSTANTS Procs, Blocks, Values,
          LOGSIZE, MAXOPBLOCKS

ASSUME LogAssumption ==
    /\ LOGSIZE \in Nat /\ MAXOPBLOCKS \in Nat \ {0}
    /\ MAXOPBLOCKS < LOGSIZE

size == LOGSIZE     \* log.size, the nlog of the superblock
NBUF == LOGSIZE

VARIABLES home, head,              \* the disk: home blocks, header of the log,
          logdata,                 \* the blocks after the header: size - 1 of the
                                   \* log, then the first one behind the log
          cache, dirty,            \* the buffer cache; the blocks with B_DIRTY
          lh, outstanding, committing,   \* struct log
          pc,           \* what each process is doing
          wrote,        \* the blocks each process's operation has written
          locked,       \* the block each process has locked in log_write, or {}
          lpc, tail,    \* commit() or recover_from_log(): next step, loop index
          panicked      \* the panic that stopped the machine, or "no"

disk == <<home, logdata, head>>
memory == <<cache, dirty, lh, outstanding, committing, pc, wrote, locked, lpc, tail, panicked>>
vars == <<disk, memory>>

Contents == [Blocks -> Values]

\* A file system made by mkfs; the first process starts with recovery.
Init ==
    /\ home \in Contents
    /\ \E v \in Values : logdata = [i \in 1..size |-> v]
    /\ head = <<>>
    /\ cache = home /\ dirty = {}
    /\ lh = <<>> /\ outstanding = 0 /\ committing = FALSE
    /\ pc = [p \in Procs |-> "idle"]
    /\ wrote = [p \in Procs |-> {}]
    /\ locked = [p \in Procs |-> {}]
    /\ lpc = "read_head" /\ tail = 1
    /\ panicked = "no"

\* initlog() has returned, nothing has panicked.
Up == lpc \notin {"read_head", "reinstall"} /\ panicked = "no"

-----------------------------------------------------------------------------
\* The buffer cache

\* Some process has b locked.
Locked(b) == \E p \in Procs : b \in locked[p]

NoBuffers_OneMore == Cardinality({b \in Blocks : b \in dirty \/ Locked(b)}) > NBUF

\* bget() finds no buffer for a block that is not cached: each one is locked by
\* somebody or pinned by the log.
NoBuffers == Cardinality({b \in Blocks : b \in dirty \/ Locked(b)}) >= NBUF

\* bget() recycles the buffer of a block that is not dirty, and a later bread()
\* reads the block from the disk again.
Evict(b) ==
    /\ Up /\ b \notin dirty /\ ~Locked(b)
    /\ cache' = [cache EXCEPT ![b] = home[b]]
    /\ UNCHANGED <<disk, dirty, lh, outstanding, committing, pc, wrote, locked, lpc, tail, panicked>>

\* An operation reads a block that has no buffer, or write_log the first block
\* of the log.
BgetPanic ==
    /\ Up /\ NoBuffers
    /\ \/ \E p \in Procs : pc[p] = "op" /\ locked[p] = {}
       \/ lpc = "write_log"
    /\ panicked' = "bget: no buffers"
    /\ UNCHANGED <<disk, cache, dirty, lh, outstanding, committing, pc, wrote, locked, lpc, tail>>

-----------------------------------------------------------------------------
\* begin_op

MustWait_ForgetsItself ==
    committing \/ Len(lh) + outstanding * MAXOPBLOCKS > LOGSIZE

MustWait_IgnoresCommit ==
    Len(lh) + (outstanding + 1) * MAXOPBLOCKS > LOGSIZE

MustWait ==
    committing \/ Len(lh) + (outstanding + 1) * MAXOPBLOCKS > LOGSIZE

BeginSleep(p) ==
    /\ Up /\ pc[p] \in {"idle", "begin"}
    /\ MustWait
    /\ pc' = [pc EXCEPT ![p] = "asleep"]
    /\ UNCHANGED <<disk, cache, dirty, lh, outstanding, committing, wrote, locked, lpc, tail, panicked>>

BeginOp_Uncounted(p) ==
    /\ Up /\ pc[p] \in {"idle", "begin"}
    /\ ~MustWait
    /\ wrote' = [wrote EXCEPT ![p] = {}]
    /\ pc' = [pc EXCEPT ![p] = "op"]
    /\ UNCHANGED <<disk, cache, dirty, lh, outstanding, committing, locked, lpc, tail, panicked>>

BeginOp(p) ==
    /\ Up /\ pc[p] \in {"idle", "begin"}
    /\ ~MustWait
    /\ outstanding' = outstanding + 1
    /\ wrote' = [wrote EXCEPT ![p] = {}]
    /\ pc' = [pc EXCEPT ![p] = "op"]
    /\ UNCHANGED <<disk, cache, dirty, lh, committing, locked, lpc, tail, panicked>>

\* wakeup(&log), from the program counters f
Woken(f) == [p \in Procs |-> IF f[p] = "asleep" THEN "begin" ELSE f[p]]

-----------------------------------------------------------------------------
\* log_write: block b gets contents v.  No operation writes more than
\* MAXOPBLOCKS blocks (param.h).

Panics == Len(lh) >= LOGSIZE \/ Len(lh) >= size - 1 \/ outstanding < 1

\* The operation may still write block b, and gets its buffer.
MayWrite(p, b) ==
    /\ Up /\ pc[p] = "op" /\ locked[p] = {}
    /\ Cardinality(wrote[p] \cup {b}) <= MAXOPBLOCKS
    /\ ~Locked(b) /\ (b \in dirty \/ ~NoBuffers)

LogWriteTest(p, b) ==
    /\ MayWrite(p, b)
    /\ ~Panics
    /\ locked' = [locked EXCEPT ![p] = {b}]
    /\ UNCHANGED <<disk, cache, dirty, lh, outstanding, committing, pc, wrote, lpc, tail, panicked>>

LogWrite_NotPinned(p, b, v) ==
    /\ Up /\ b \in locked[p]
    /\ cache' = [cache EXCEPT ![b] = v]
    /\ lh' = IF Contains(lh, b) THEN lh ELSE Append(lh, b)
    /\ wrote' = [wrote EXCEPT ![p] = @ \cup {b}]
    /\ locked' = [locked EXCEPT ![p] = {}]
    /\ UNCHANGED <<disk, dirty, outstanding, committing, pc, lpc, tail, panicked>>

\* A block that is in the log already is absorbed.
LogWrite(p, b, v) ==
    /\ Up /\ b \in locked[p]
    /\ cache' = [cache EXCEPT ![b] = v]
    /\ lh' = IF Contains(lh, b) THEN lh ELSE Append(lh, b)
    /\ dirty' = dirty \cup {b}
    /\ wrote' = [wrote EXCEPT ![p] = @ \cup {b}]
    /\ locked' = [locked EXCEPT ![p] = {}]
    /\ UNCHANGED <<disk, outstanding, committing, pc, lpc, tail, panicked>>

LogWritePanic(p, b) ==
    /\ MayWrite(p, b)
    /\ Panics
    /\ panicked' = IF outstanding < 1 THEN "log_write outside of trans"
                   ELSE "too big a transaction"
    /\ UNCHANGED <<disk, cache, dirty, lh, outstanding, committing, pc, wrote, locked, lpc, tail>>

-----------------------------------------------------------------------------
\* end_op

EndOp_NoWakeup(p) ==
    /\ Up /\ pc[p] = "op" /\ locked[p] = {}
    /\ outstanding # 1 \/ committing
    /\ outstanding' = outstanding - 1
    /\ panicked' = IF committing THEN "log.committing" ELSE panicked
    /\ pc' = [pc EXCEPT ![p] = "idle"]
    /\ UNCHANGED <<disk, cache, dirty, lh, committing, wrote, locked, lpc, tail>>

EndOp(p) ==
    /\ Up /\ pc[p] = "op" /\ locked[p] = {}
    /\ outstanding # 1 \/ committing
    /\ outstanding' = outstanding - 1
    /\ panicked' = IF committing THEN "log.committing" ELSE panicked
    /\ pc' = IF committing THEN pc ELSE [Woken(pc) EXCEPT ![p] = "idle"]
    /\ UNCHANGED <<disk, cache, dirty, lh, committing, wrote, locked, lpc, tail>>

\* The last operation commits; an empty transaction writes nothing.
EndLastOp(p) ==
    /\ Up /\ pc[p] = "op" /\ locked[p] = {}
    /\ outstanding = 1 /\ ~committing
    /\ outstanding' = 0
    /\ committing' = TRUE
    /\ pc' = [pc EXCEPT ![p] = "commit"]
    /\ lpc' = IF lh = <<>> THEN "done" ELSE "write_log"
    /\ tail' = 1
    /\ UNCHANGED <<disk, cache, dirty, lh, wrote, locked, panicked>>

-----------------------------------------------------------------------------
\* commit

\* The cached blocks go to the log, through a buffer for the log block ...
WriteLog ==
    /\ Up /\ lpc = "write_log" /\ tail <= Len(lh) /\ ~NoBuffers
    /\ logdata' = [logdata EXCEPT ![tail] = cache[lh[tail]]]
    /\ tail' = tail + 1
    /\ UNCHANGED <<home, head, cache, dirty, lh, outstanding, committing, pc, wrote, locked, lpc, panicked>>

\* ... then the header, "the real commit" ...
WriteHead ==
    /\ Up /\ lpc = "write_log" /\ tail > Len(lh)
    /\ head' = lh
    /\ lpc' = "install" /\ tail' = 1
    /\ UNCHANGED <<home, logdata, cache, dirty, lh, outstanding, committing, pc, wrote, locked, panicked>>

InstallTrans_StaysDirty ==
    /\ panicked = "no" /\ lpc \in {"install", "reinstall"} /\ tail <= Len(lh)
    /\ home' = [home EXCEPT ![lh[tail]] = logdata[tail]]
    /\ cache' = [cache EXCEPT ![lh[tail]] = logdata[tail]]
    /\ tail' = tail + 1
    /\ UNCHANGED <<logdata, head, dirty, lh, outstanding, committing, pc, wrote, locked, lpc, panicked>>

\* ... then, as in recovery, each block goes to its home location ...
InstallTrans ==
    /\ panicked = "no" /\ lpc \in {"install", "reinstall"} /\ tail <= Len(lh)
    /\ home' = [home EXCEPT ![lh[tail]] = logdata[tail]]
    /\ cache' = [cache EXCEPT ![lh[tail]] = logdata[tail]]
    /\ dirty' = dirty \ {lh[tail]}
    /\ tail' = tail + 1
    /\ UNCHANGED <<logdata, head, lh, outstanding, committing, pc, wrote, locked, lpc, panicked>>

\* ... and the header is cleared.
ClearHead ==
    /\ panicked = "no" /\ lpc \in {"install", "reinstall"} /\ tail > Len(lh)
    /\ lh' = <<>> /\ head' = <<>>
    /\ lpc' = "done" /\ tail' = 1
    /\ UNCHANGED <<home, logdata, cache, dirty, outstanding, committing, pc, wrote, locked, panicked>>

\* end_op after commit().
CommitDone(p) ==
    /\ Up /\ lpc = "done" /\ pc[p] = "commit"
    /\ committing' = FALSE
    /\ pc' = [Woken(pc) EXCEPT ![p] = "idle"]
    /\ UNCHANGED <<disk, cache, dirty, lh, outstanding, wrote, locked, lpc, tail, panicked>>

-----------------------------------------------------------------------------
\* Crashes and recovery

\* The machine stops, after a panic or at any other time, and boots again.
Crash ==
    /\ cache' = home /\ dirty' = {}
    /\ lh' = <<>> /\ outstanding' = 0 /\ committing' = FALSE
    /\ pc' = [p \in Procs |-> "idle"]
    /\ wrote' = [p \in Procs |-> {}]
    /\ locked' = [p \in Procs |-> {}]
    /\ lpc' = "read_head" /\ tail' = 1
    /\ panicked' = "no"
    /\ UNCHANGED disk

\* recover_from_log: read the header, then install and clear as commit() does.
ReadHead ==
    /\ lpc = "read_head"
    /\ lh' = head
    /\ lpc' = "reinstall" /\ tail' = 1
    /\ UNCHANGED <<disk, cache, dirty, outstanding, committing, pc, wrote, locked, panicked>>

CommitStep ==
    \/ ReadHead \/ WriteLog \/ WriteHead \/ InstallTrans \/ ClearHead
    \/ \E p \in Procs : CommitDone(p)

OpStep(p) ==
    \/ BeginSleep(p) \/ BeginOp(p)
    \/ \E b \in Blocks :
        LogWriteTest(p, b) \/ LogWritePanic(p, b) \/ \E v \in Values : LogWrite(p, b, v)
    \/ EndOp(p) \/ EndLastOp(p)

Next ==
    \/ CommitStep
    \/ \E p \in Procs : OpStep(p)
    \/ \E b \in Blocks : Evict(b)
    \/ BgetPanic
    \/ Crash

Spec == Init /\ [][Next]_vars

-----------------------------------------------------------------------------
\* The variables have their types.
TypeOK ==
    /\ home \in Contents /\ cache \in Contents
    /\ logdata \in [1..size -> Values]
    /\ head \in Seq(Blocks) /\ Len(head) <= LOGSIZE
    /\ lh \in Seq(Blocks) /\ Len(lh) <= LOGSIZE
    /\ dirty \subseteq Blocks
    /\ outstanding \in Nat
    /\ committing \in BOOLEAN
    /\ pc \in [Procs -> {"idle", "begin", "asleep", "op", "commit"}]
    /\ wrote \in [Procs -> SUBSET Blocks]
    /\ locked \in [Procs -> SUBSET Blocks]
    /\ lpc \in {"read_head", "reinstall", "write_log", "install", "done"}
    /\ tail \in 1..(LOGSIZE + 1)
    /\ panicked \in {"no", "too big a transaction", "log_write outside of trans",
                     "log.committing", "bget: no buffers"}

Operating == {p \in Procs : pc[p] = "op"}

\* lh.block has LOGSIZE entries.  However operations overlap, and although the
\* test of log_write is made without the lock, everything the active ones may
\* still append fits into it, because begin_op counts against LOGSIZE.  The log
\* on the disk is one block shorter: that is TransactionsFit.
HeaderHasRoom ==
    Len(lh) + MapThenSumSet(LAMBDA p : MAXOPBLOCKS - Cardinality(wrote[p]), Operating)
        <= LOGSIZE

\* An operation that writes at most MAXOPBLOCKS blocks finds room for them in the
\* log: begin_op waits when "this op might exhaust log space" (log.c:133), and
\* LOGSIZE is the "max data blocks in on-disk log" (param.h:11).
TransactionsFit == panicked # "too big a transaction"

\* "The logging system only commits when there are no FS system calls active"
\* (log.c:12): none begins during a commit, and end_op never meets one (its
\* panic at log.c:153), nor does log_write run outside of an operation.
CommitsAlone ==
    /\ committing => Operating = {} /\ outstanding = 0
    /\ panicked \notin {"log.committing", "log_write outside of trans"}

\* Processes that pass the test of log_write together can put size blocks into a
\* log with room for size - 1.  write_log nevertheless never writes the block
\* behind the log, an inode block: with as many buffers pinned bget panics first.
BlockBehindLogKept == [][logdata'[size] = logdata[size]]_vars

\* A process asleep in begin_op has a reason to be, and somebody will wake it:
\* a commit or an operation that ends.
SleepersAreWoken ==
    \A p \in Procs : pc[p] = "asleep" =>
        MustWait /\ (committing \/ outstanding > 0)

\* Between transactions the disk is clean: what the processes see is what is in
\* the home blocks, the log is empty and no buffer is pinned.
QuiescentIsClean ==
    Up /\ ~committing /\ outstanding = 0 =>
        head = <<>> /\ lh = <<>> /\ dirty = {} /\ home = cache

\* What recovery would make of the disk.
Recovered ==
    [b \in Blocks |->
        IF Contains(head, b) THEN logdata[CHOOSE i \in DOMAIN head : head[i] = b]
        ELSE home[b]]

Trans == INSTANCE Transactions WITH
    active <- Operating,
    durable <- Recovered,
    current <- IF lpc \in {"read_head", "reinstall"} THEN Recovered ELSE cache

\* The log makes transactions of the operations, whatever is interleaved and
\* wherever the machine crashes, in commit() or again in recovery.
ImplementsTransactions == Trans!Spec
=============================================================================
