---------------------------- MODULE PreallocPool ----------------------------
(***************************************************************************)
(* The fixed-size allocator of lib/memory/prealloc_pool.c: elements are    *)
(* cut from chunks of doubling size, and recycled elements are linked into *)
(* a free list that is served first.  The thread pool keeps its tasks in   *)
(* one, the radix tree its branches and its leaves.                        *)
(*                                                                         *)
(* An address is a pair <<c, o>>: byte o of the c-th chunk calloc          *)
(* returned; chunk 0 is the null pointer.  Callers hand back only what     *)
(* they were given, and serialise their calls.                             *)
(***************************************************************************)
EXTENDS Integers, Sequences

CONSTANTS
    ElementSize,   \* pool->element_size
    ElementCount,  \* the element_count given to cx_prealloc_pool_init2
    MaxChunks,     \* bound on the calls of add_chunk
    Faults,        \* allocations that may fail: "realloc", "calloc"
    NULL,
    Garbage        \* the content of an entry of pools that was never written

ASSUME PreallocPoolAssumption ==
    /\ ElementSize \in Nat \ {0}
    /\ ElementCount \in Nat \ {0}
    /\ MaxChunks \in Nat
    /\ Faults \subseteq {"realloc", "calloc"}
    /\ NULL \notin Seq(Nat \cup {Garbage})
    /\ Garbage \notin Nat

VARIABLES
    pools,         \* pool->pools: NULL, or one entry for each counted chunk
    pool_count,    \* pool->pool_count
    chunk_size,    \* pool->chunk_size
    next_offset,   \* pool->next_offset
    current_pool,  \* pool->current_pool
    reuse_pool,    \* pool->reuse_pool, the linked list as a sequence
    chunk,         \* the sizes of the chunks calloc returned
    used,          \* elements that callers hold
    twice,         \* elements that were handed out while a caller held them
    failed,        \* the allocations that failed
    freed          \* what cx_prealloc_pool_cleanup passed to free, or NULL

vars == <<pools, pool_count, chunk_size, next_offset, current_pool, reuse_pool,
          chunk, used, twice, failed, freed>>

Address == Nat \X Nat

\* The fields of the structure, and the callers' elements, are what they can
\* be; pools has the pool_count entries that cleanup reads.
TypeOK ==
    /\ pools = NULL \/ (pools \in Seq(Nat \cup {Garbage}) /\ Len(pools) = pool_count)
    /\ pool_count \in Nat
    /\ chunk_size \in Nat
    /\ next_offset \in Nat
    /\ current_pool \in Nat
    /\ reuse_pool \in Seq(Address)
    /\ chunk \in Seq(Nat)
    /\ used \subseteq Address
    /\ twice \subseteq Address
    /\ failed \subseteq Faults
    /\ freed = NULL \/ freed \in Seq(Nat \cup {Garbage})

\* cx_prealloc_pool_init2.
Init ==
    /\ pools = NULL
    /\ pool_count = 0
    /\ chunk_size = ElementCount * ElementSize
    /\ next_offset = 0
    /\ current_pool = 0
    /\ reuse_pool = <<>>
    /\ chunk = <<>>
    /\ used = {}
    /\ twice = {}
    /\ failed = {}
    /\ freed = NULL

\* cx_prealloc_pool_get returns the address e, <<0, 0>> being NULL.
HandOut(e) ==
    /\ used' = used \cup ({e} \ {<<0, 0>>})
    /\ twice' = twice \cup ({e} \cap used)

\* Mutant: the head of the free list is returned but not unlinked.
Unlink_missing == reuse_pool

\* reuse_pool = element->next.
Unlink == Tail(reuse_pool)

\* cx_prealloc_pool_get, first branch: reuse_node.
reuse_node ==
    /\ freed = NULL
    /\ reuse_pool # <<>>
    /\ HandOut(Head(reuse_pool))
    /\ reuse_pool' = Unlink
    /\ UNCHANGED <<pools, pool_count, chunk_size, next_offset, current_pool, chunk,
                   failed, freed>>

\* Mutant: one more element than fits is cut from a chunk.
NeedsChunk_late == pools = NULL \/ next_offset > chunk_size

\* cx_prealloc_pool_get: there is no chunk, or the current one is used up.
NeedsChunk == pools = NULL \/ next_offset + ElementSize > chunk_size

\* Mutant: the element's last byte is not counted.
Advance_short(offset) == offset + ElementSize - 1

\* next_offset += element_size.
Advance(offset) == offset + ElementSize

\* cx_prealloc_pool_get with room in the current chunk.
cx_prealloc_pool_get ==
    /\ freed = NULL
    /\ reuse_pool = <<>>
    /\ ~NeedsChunk
    /\ HandOut(<<current_pool, next_offset>>)
    /\ next_offset' = Advance(next_offset)
    /\ UNCHANGED <<pools, pool_count, chunk_size, current_pool, reuse_pool, chunk,
                   failed, freed>>

\* add_chunk is called: its first two assignments come before the allocations.
Grow ==
    /\ freed = NULL
    /\ reuse_pool = <<>>
    /\ NeedsChunk
    /\ pool_count < MaxChunks
    /\ pool_count' = pool_count + 1
    /\ chunk_size' = chunk_size * 2

\* realloc: the old entries, and one that was not written yet.  After a
\* failure had set pools to NULL nothing of the old entries is left.
Reallocated ==
    IF pools = NULL
    THEN [i \in 1 .. pool_count + 1 |-> Garbage]
    ELSE Append(pools, Garbage)

\* Mutant: the new chunk is entered one place too early.
LastEntry_previous == IF pool_count = 0 THEN 1 ELSE pool_count

\* pools[pool_count - 1], counted from 1.
LastEntry == pool_count + 1

\* cx_prealloc_pool_get with a new chunk.
add_chunk ==
    /\ Grow
    /\ chunk' = Append(chunk, chunk_size * 2)
    /\ pools' = [Reallocated EXCEPT ![LastEntry] = Len(chunk) + 1]
    /\ current_pool' = Len(chunk) + 1
    /\ HandOut(<<Len(chunk) + 1, 0>>)
    /\ next_offset' = Advance(0)
    /\ UNCHANGED <<reuse_pool, failed, freed>>

\* realloc fails: pools is NULL from now on, get returns NULL.
add_chunk_realloc_fails ==
    /\ "realloc" \in Faults
    /\ Grow
    /\ pools' = NULL
    /\ failed' = failed \cup {"realloc"}
    /\ UNCHANGED <<next_offset, current_pool, reuse_pool, chunk, used, twice, freed>>

\* calloc fails: the entry of the chunk stays unwritten, get returns NULL.
add_chunk_calloc_fails ==
    /\ "calloc" \in Faults
    /\ Grow
    /\ pools' = Reallocated
    /\ failed' = failed \cup {"calloc"}
    /\ UNCHANGED <<next_offset, current_pool, reuse_pool, chunk, used, twice, freed>>

\* cx_prealloc_pool_recycle; a NULL element is ignored.
cx_prealloc_pool_recycle(e) ==
    /\ freed = NULL
    /\ e \in used
    /\ used' = used \ {e}
    /\ reuse_pool' = <<e>> \o reuse_pool
    /\ UNCHANGED <<pools, pool_count, chunk_size, next_offset, current_pool, chunk,
                   twice, failed, freed>>

\* cx_prealloc_pool_cleanup frees pool_count entries.  It is called with
\* pools = NULL only if nothing was ever allocated: otherwise it crashes.
cx_prealloc_pool_cleanup ==
    /\ freed = NULL
    /\ pools = NULL => pool_count = 0
    /\ freed' = IF pools = NULL THEN <<>> ELSE pools
    /\ used' = {}
    /\ UNCHANGED <<pools, pool_count, chunk_size, next_offset, current_pool, reuse_pool,
                   chunk, twice, failed>>

\* Cleanup was called, or the callers can call nothing that does not crash
\* within the bound on chunks.
Finished ==
    /\ freed # NULL \/ (pools = NULL /\ pool_count = MaxChunks)
    /\ UNCHANGED vars

Next ==
    \/ reuse_node
    \/ cx_prealloc_pool_get
    \/ add_chunk
    \/ add_chunk_realloc_fails
    \/ add_chunk_calloc_fails
    \/ \E e \in used : cx_prealloc_pool_recycle(e)
    \/ cx_prealloc_pool_cleanup
    \/ Finished

Spec == Init /\ [][Next]_vars

-----------------------------------------------------------------------------
\* What the thread pool and the radix tree rely on: an element that a caller
\* holds is not handed to another one, also after elements went through the
\* free list in any order, after a chunk was used up and after an allocation
\* failed.
HandedOutOnce == twice = {}

\* Two elements that are held or free never share a byte.
NoOverlap ==
    \A d, e \in used \cup {reuse_pool[i] : i \in DOMAIN reuse_pool} :
        d # e /\ d[1] = e[1] => d[2] + ElementSize <= e[2] \/ e[2] + ElementSize <= d[2]

\* As long as no calloc failed, every element lies inside a chunk that calloc
\* returned, also in the chunk that follows a failed realloc.  After a failed
\* calloc chunk_size is twice the size of the chunk that is still the current
\* one, and elements beyond its end follow.
InBounds ==
    "calloc" \notin failed =>
        \A e \in used : e[1] \in DOMAIN chunk /\ e[2] + ElementSize <= chunk[e[1]]

\* As long as no realloc failed, cleanup frees every chunk, and each once, also
\* when a failed calloc left entries of pools unwritten; and if nothing failed,
\* it frees nothing else.
FreesAllChunks ==
    freed # NULL =>
        /\ "realloc" \notin failed =>
              \A c \in DOMAIN chunk : \E i \in DOMAIN freed :
                  freed[i] = c /\ \A k \in DOMAIN freed : freed[k] = c => k = i
        /\ failed = {} => Len(freed) = Len(chunk)
=============================================================================
