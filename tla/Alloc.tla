------------------------------- MODULE Alloc -------------------------------
(***************************************************************************)
(* The memory manager of project5/alloc.c: one page, first fit, and a      *)
(* client that frees what it was given, each block once.                   *)
(***************************************************************************)
EXTENDS ChunkList, FiniteSets

CONSTANT MidSplits  \* the client makes requests that split a chunk which has
                    \* another one after it

VARIABLES chunks,   \* mman.chunks
          blocks    \* history: the blocks the client holds

vars == <<chunks, blocks>>

\* init_alloc
Init ==
    /\ chunks = NewPage
    /\ blocks = {}

Alloc(size) ==
    LET i == FirstFit(chunks, size)
    IN  /\ size > 0 /\ i # NULL
        /\ chunks' = Assign(chunks, i, size)
        /\ blocks' = blocks \cup {[ptr |-> chunks[i].offset, sz |-> size]}

\* alloc returns NULL: less than MINALLOC is requested, or more than is free.
AllocFails(size) ==
    /\ size = 0 \/ FirstFit(chunks, size) = NULL
    /\ UNCHANGED vars

Dealloc(b) ==
    /\ chunks' = Release(chunks, b.ptr)
    /\ blocks' = blocks \ {b}

\* A request for this size splits a chunk in the middle of the list.
SplitsMiddle(size) ==
    LET i == FirstFit(chunks, size)
    IN  size > 0 /\ i # NULL /\ chunks[i].sz # size /\ chunks[i].next # NULL

\* What the client asks for.
Requests == {size \in 0..Units : MidSplits \/ ~SplitsMiddle(size)}

Next ==
    \/ \E size \in Requests : Alloc(size) \/ AllocFails(size)
    \/ \E b \in blocks : Dealloc(b)

Spec == Init /\ [][Next]_vars

-----------------------------------------------------------------------------
InList(i) ==
    LET from[j \in Pointers] ==
            j # NULL /\ (j = i \/ (chunks[j].next > j /\ from[chunks[j].next]))
    IN  from[0]

\* The variables have their types.
TypeOK ==
    /\ chunks \in [Indices -> Chunk]
    /\ blocks \subseteq [ptr : Indices, sz : 1..Units]

\* While no request splits a chunk in the middle of the list, the list is doubly
\* linked and partitions the page, whatever is freed in whatever order: every
\* chunk knows its place and its two neighbours, merged or not, and the assigned
\* ones are the client's blocks.  A split in the middle leaves the prev of the
\* chunk after it behind (alloc.c:86): what comes of that is NoDoubleAllocation
\* with MidSplits.
ListPartitionsPage ==
    /\ TypeOK
    /\ \A i \in Indices : InList(i) =>
        LET c == chunks[i] IN
        /\ c.offset = i
        /\ IF c.next = NULL THEN i + c.sz = Units
           ELSE c.next = i + c.sz /\ chunks[c.next].prev = i
        /\ c.assigned <=> [ptr |-> i, sz |-> c.sz] \in blocks

Region(b) == b.ptr .. (b.ptr + b.sz - 1)

Free == Indices \ UNION {Region(b) : b \in blocks}

\* What alloc() would return next is free memory of the page: allocated memory is
\* not used for another allocation until it is freed (project5/README.md:60).  The
\* code keeps this only for clients that never split in the middle of the list.
NoDoubleAllocation ==
    \A size \in 1..Units :
        LET i == FirstFit(chunks, size)
        IN  i # NULL => Region([ptr |-> chunks[i].offset, sz |-> size]) \subseteq Free

\* Adjacent free memory is merged: a run of free units of the requested size can
\* be allocated (project5/README.md:62), again for clients that never split in the
\* middle of the list.
FreeMemoryIsUsable ==
    \A size \in 1..Units :
        (\E i \in Indices : i..(i + size - 1) \subseteq Free) =>
            FirstFit(chunks, size) # NULL
=============================================================================
