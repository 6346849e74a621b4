----------------------------- MODULE ChunkList -----------------------------
(***************************************************************************)
(* The chunk list of one page, as alloc.c and ealloc.c both implement it:  *)
(* a chunk is described by the entry of chunks[] at its offset divided by  *)
(* MINALLOC.  Sizes and offsets are counted in units of MINALLOC bytes; a  *)
(* pointer to an entry is its index.                                       *)
(***************************************************************************)
EXTENDS Integers

CONSTANT Units      \* PAGESIZE / MINALLOC

ASSUME UnitsAssumption == Units \in Nat \ {0}

NULL == -1
Indices == 0..(Units - 1)
Pointers == Indices \cup {NULL}
Chunk == [next : Pointers, prev : Pointers, sz : 0..Units, offset : 0..Units,
          assigned : BOOLEAN]

\* chunk_new
NewChunk(sz) ==
    [next |-> NULL, prev |-> NULL, sz |-> sz, offset |-> 0, assigned |-> FALSE]

\* A zeroed chunks[] after init_alloc: one free chunk, at the head of the list.
NewPage ==
    [i \in Indices |-> IF i = 0 THEN NewChunk(Units) ELSE NewChunk(0)]

FirstFit_IgnoresAssigned(chunks, size) ==
    LET from[i \in Pointers] ==
            IF i = NULL THEN NULL
            ELSE IF size <= chunks[i].sz THEN i
            ELSE from[chunks[i].next]
    IN  from[0]

\* The first free chunk of the list that is large enough, or NULL.
FirstFit(chunks, size) ==
    LET from[i \in Pointers] ==
            IF i = NULL THEN NULL
            ELSE IF ~chunks[i].assigned /\ size <= chunks[i].sz THEN i
            ELSE from[chunks[i].next]
    IN  from[0]

\* alloc() takes the chunk i.  The rest of a larger chunk becomes a new chunk
\* after it, and the chunk after i learns its place.
Assign(chunks, i, size) ==
    LET c == chunks[i]
        rest == c.offset + size
        split == IF c.sz = size THEN chunks
                 ELSE [chunks EXCEPT ![rest] = [NewChunk(c.sz - size) EXCEPT !.next = c.next],
                                     ![i].next = rest]
        n == split[i].next
        linked == IF n = NULL THEN split
                  ELSE [split EXCEPT ![n].offset = c.offset + size, ![n].prev = i]
    IN  [linked EXCEPT ![i].assigned = TRUE, ![i].sz = size]

\* dealloc() of the chunk i: merge it with the chunk after it if that is free ...
MergeRight_KeepsPrev(chunks, i) ==
    LET r == chunks[i].next
    IN  IF r = NULL \/ chunks[r].assigned THEN chunks
        ELSE [chunks EXCEPT ![i].next = chunks[r].next, ![i].sz = @ + chunks[r].sz]

MergeRight(chunks, i) ==
    LET r == chunks[i].next
        n == chunks[r].next
        back == IF n = NULL THEN chunks ELSE [chunks EXCEPT ![n].prev = i]
    IN  IF r = NULL \/ chunks[r].assigned THEN chunks
        ELSE [back EXCEPT ![i].next = n, ![i].sz = @ + chunks[r].sz]

\* ... and then into the chunk before it, l, if that is free.
MergeLeft(chunks, l, i) ==
    LET n == chunks[i].next
        back == IF n = NULL THEN chunks ELSE [chunks EXCEPT ![n].prev = l]
    IN  IF l = NULL \/ chunks[l].assigned THEN chunks
        ELSE [back EXCEPT ![l].next = n, ![l].sz = @ + chunks[i].sz]

Release_LeftOnly(chunks, i) ==
    MergeLeft([chunks EXCEPT ![i].assigned = FALSE], chunks[i].prev, i)

Release(chunks, i) ==
    LET freed == [MergeRight(chunks, i) EXCEPT ![i].assigned = FALSE]
    IN  MergeLeft(freed, chunks[i].prev, i)
=============================================================================
