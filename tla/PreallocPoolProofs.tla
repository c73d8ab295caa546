------------------------- MODULE PreallocPoolProofs -------------------------
(***************************************************************************)
(* Proofs about PreallocPool for any element size, any first chunk and any *)
(* number of chunks, failing allocations included.                         *)
(***************************************************************************)
EXTENDS PreallocPool, SequenceTheorems, TLAPS

\* The elements of the free list.
Free == {reuse_pool[i] : i \in DOMAIN reuse_pool}

\* The list is linear: no element is linked twice.
Linear == \A i, k \in DOMAIN reuse_pool : reuse_pool[i] = reuse_pool[k] => i = k

\* The types that the argument needs.
Numbers ==
    /\ next_offset \in Nat
    /\ chunk_size \in Nat
    /\ current_pool \in Nat
    /\ reuse_pool \in Seq(Address)
    /\ chunk \in Seq(Nat)
    /\ used \subseteq Address

\* Elements were cut from chunks in order: everything in the current chunk that
\* is or was handed out ends before next_offset, and there is no later chunk.
Cut ==
    /\ current_pool = Len(chunk)
    /\ \A e \in used \cup Free :
          /\ e[1] <= current_pool
          /\ e[1] = current_pool => e[2] + ElementSize <= next_offset

PoolInv ==
    /\ Numbers
    /\ Linear
    /\ Cut
    /\ used \cap Free = {}
    /\ NoOverlap
    /\ HandedOutOnce

\* Elements take at least one byte.
LEMMA ElementSizePositive == ElementSize \in Nat /\ ElementSize > 0
  BY PreallocPoolAssumption DEF PreallocPoolAssumption

\* PoolInv holds for a new pool.
LEMMA PoolInit == Init => PoolInv
  BY PreallocPoolAssumption DEF PreallocPoolAssumption, Init, PoolInv, Numbers, Linear, Cut, NoOverlap, HandedOutOnce, Free

\* Taking the head from a linear list.
LEMMA Unlinked ==
    ASSUME Numbers, Linear, reuse_pool # <<>>, reuse_pool' = Unlink
    PROVE  /\ reuse_pool' \in Seq(Address)
           /\ Head(reuse_pool) \in Free
           /\ Free' = Free \ {Head(reuse_pool)}
           /\ Linear'
<1>1. /\ Len(reuse_pool) \in Nat \ {0}
      /\ Head(reuse_pool) = reuse_pool[1]
      /\ reuse_pool' \in Seq(Address)
      /\ Len(reuse_pool') = Len(reuse_pool) - 1
      /\ \A i \in 1 .. Len(reuse_pool) - 1 : reuse_pool'[i] = reuse_pool[i + 1]
  BY HeadTailProperties DEF Numbers, Unlink
<1>2. DOMAIN reuse_pool = 1 .. Len(reuse_pool) /\ DOMAIN reuse_pool' = 1 .. Len(reuse_pool) - 1
  BY <1>1 DEF Numbers
<1>3. Head(reuse_pool) \in Free
  BY <1>1, <1>2 DEF Free
<1>4. Free' \subseteq Free \ {Head(reuse_pool)}
  BY <1>1, <1>2 DEF Free, Linear
<1>5. Free \ {Head(reuse_pool)} \subseteq Free'
  <2> SUFFICES ASSUME NEW i \in DOMAIN reuse_pool, i # 1 PROVE reuse_pool[i] \in Free'
    BY <1>1 DEF Free
  <2>1. i - 1 \in DOMAIN reuse_pool' /\ reuse_pool'[i - 1] = reuse_pool[i]
    BY <1>1, <1>2
  <2> QED BY <2>1 DEF Free
<1>6. Linear'
  BY <1>1, <1>2 DEF Linear
<1> QED BY <1>1, <1>3, <1>4, <1>5, <1>6

\* Linking an element that is not in the list.
LEMMA Linked ==
    ASSUME Numbers, Linear, NEW e \in Address, e \notin Free, reuse_pool' = <<e>> \o reuse_pool
    PROVE  /\ reuse_pool' \in Seq(Address)
           /\ Free' = Free \cup {e}
           /\ Linear'
<1>1. /\ Len(reuse_pool) \in Nat
      /\ reuse_pool' \in Seq(Address)
      /\ Len(reuse_pool') = Len(reuse_pool) + 1
      /\ reuse_pool'[1] = e
      /\ \A i \in 1 .. Len(reuse_pool) : reuse_pool'[i + 1] = reuse_pool[i]
  BY DEF Numbers
<1>2. DOMAIN reuse_pool = 1 .. Len(reuse_pool) /\ DOMAIN reuse_pool' = 1 .. Len(reuse_pool) + 1
  BY <1>1 DEF Numbers
<1>3. \A i \in DOMAIN reuse_pool' : i # 1 => i - 1 \in DOMAIN reuse_pool /\ reuse_pool'[i] = reuse_pool[i - 1]
  <2> SUFFICES ASSUME NEW i \in DOMAIN reuse_pool', i # 1
      PROVE  i - 1 \in DOMAIN reuse_pool /\ reuse_pool'[i] = reuse_pool[i - 1]
    OBVIOUS
  <2>1. i - 1 \in 1 .. Len(reuse_pool) /\ (i - 1) + 1 = i
    BY <1>1, <1>2
  <2> QED BY <1>1, <1>2, <2>1
<1>4. Free' \subseteq Free \cup {e}
  BY <1>1, <1>3 DEF Free
<1>5. e \in Free' /\ Free \subseteq Free'
  <2>1. e \in Free'
    BY <1>1, <1>2 DEF Free
  <2>2. ASSUME NEW i \in DOMAIN reuse_pool PROVE reuse_pool[i] \in Free'
    <3>1. i + 1 \in DOMAIN reuse_pool' /\ reuse_pool'[i + 1] = reuse_pool[i]
      BY <1>1, <1>2, <2>2
    <3> QED BY <3>1 DEF Free
  <2> QED BY <2>1, <2>2 DEF Free
<1>6. Linear'
  <2> SUFFICES ASSUME NEW i \in DOMAIN reuse_pool', NEW k \in DOMAIN reuse_pool',
                      reuse_pool'[i] = reuse_pool'[k]
      PROVE  i = k
    BY DEF Linear
  <2>1. \A j \in DOMAIN reuse_pool : reuse_pool[j] # e
    BY DEF Free
  <2>2. CASE i = 1 \/ k = 1
    BY <1>1, <1>3, <2>1, <2>2
  <2>3. CASE i # 1 /\ k # 1
    <3>1. i - 1 = k - 1
      BY <1>3, <2>3 DEF Linear
    <3> QED BY <1>1, <1>2, <3>1
  <2> QED BY <2>2, <2>3
<1> QED BY <1>1, <1>4, <1>5, <1>6

\* Steps that touch neither the elements nor the place of the next one.
LEMMA PoolFrame ==
    ASSUME PoolInv,
           chunk_size' \in Nat,
           UNCHANGED <<next_offset, current_pool, reuse_pool, chunk, used, twice>>
    PROVE  PoolInv'
  BY DEF PoolInv, Numbers, Linear, Cut, NoOverlap, HandedOutOnce, Free

\* Handing out an element that lies behind all others, with an empty list.
LEMMA Fresh ==
    ASSUME PoolInv, reuse_pool = <<>>, UNCHANGED reuse_pool, chunk_size' \in Nat,
           NEW c \in Nat, NEW o \in Nat, HandOut(<<c, o>>),
           current_pool' = c, next_offset' = o + ElementSize,
           chunk' \in Seq(Nat), Len(chunk') = c,
           c > current_pool \/ (c = current_pool /\ o = next_offset)
    PROVE  PoolInv'
<1> USE ElementSizePositive
<1>1. Free = {} /\ Free' = {} /\ Linear'
  BY DEF Free, Linear
<1>2. \A e \in used : e \in Nat \X Nat /\ e[1] \in Nat /\ e[2] \in Nat
  BY DEF PoolInv, Numbers, Address
<1>3. \A e \in used : e[1] < c \/ (e[1] = c /\ e[2] + ElementSize <= o)
  BY <1>2 DEF PoolInv, Numbers, Cut
<1>4. <<c, o>> \notin used
  BY <1>2, <1>3
<1>5. used' \subseteq used \cup {<<c, o>>} /\ used' \subseteq Address
  BY DEF HandOut, PoolInv, Numbers, Address
<1>6. Numbers'
  BY <1>5 DEF PoolInv, Numbers
<1>7. Cut'
  <2>1. ASSUME NEW e \in used' PROVE e[1] <= c /\ (e[1] = c => e[2] + ElementSize <= o + ElementSize)
    BY <1>2, <1>3, <1>5, <2>1
  <2> QED BY <1>1, <2>1 DEF Cut
<1>8. NoOverlap'
  <2> SUFFICES ASSUME NEW d \in used', NEW e \in used', d # e, d[1] = e[1]
      PROVE  d[2] + ElementSize <= e[2] \/ e[2] + ElementSize <= d[2]
    BY <1>1 DEF NoOverlap, Free
  <2>1. CASE d \in used /\ e \in used
    BY <2>1 DEF PoolInv, NoOverlap
  <2>2. CASE d = <<c, o>> /\ e \in used
    BY <1>2, <1>3, <2>2
  <2>3. CASE d \in used /\ e = <<c, o>>
    BY <1>2, <1>3, <2>3
  <2> QED BY <1>5, <2>1, <2>2, <2>3
<1>9. HandedOutOnce'
  BY <1>4 DEF HandOut, PoolInv, HandedOutOnce
<1> QED BY <1>1, <1>6, <1>7, <1>8, <1>9 DEF PoolInv

\* Every step keeps PoolInv, failing ones included.
LEMMA PoolNext == PoolInv /\ [Next]_vars => PoolInv'
<1> SUFFICES ASSUME PoolInv, [Next]_vars PROVE PoolInv'
  OBVIOUS
<1> USE ElementSizePositive
<1>1. CASE reuse_node
  <2> DEFINE h == Head(reuse_pool)
  <2>1. /\ reuse_pool' \in Seq(Address) /\ h \in Free
        /\ Free' = Free \ {h} /\ Linear'
    BY <1>1, Unlinked DEF reuse_node, PoolInv
  <2>2. h \notin used
    BY <2>1 DEF PoolInv
  <2>3. h \in Address
    <3>1. Free \subseteq Address
      BY DEF PoolInv, Numbers, Free
    <3> QED BY <2>1, <3>1
  <2> HIDE DEF h
  <2>4. used' \subseteq used \cup {h} /\ twice' = twice \cup ({h} \cap used)
    BY <1>1 DEF reuse_node, HandOut, h
  <2>5. UNCHANGED <<chunk_size, next_offset, current_pool, chunk>>
    BY <1>1 DEF reuse_node
  <2>6. used' \cup Free' \subseteq used \cup Free
    BY <2>1, <2>4
  <2>7. Numbers'
    BY <2>1, <2>3, <2>4, <2>5 DEF PoolInv, Numbers
  <2>8. Cut'
    BY <2>5, <2>6 DEF PoolInv, Cut
  <2>9. NoOverlap'
    BY <2>6 DEF PoolInv, NoOverlap, Free
  <2>10. HandedOutOnce' /\ used' \cap Free' = {}
    BY <2>1, <2>2, <2>4 DEF PoolInv, HandedOutOnce
  <2> QED BY <2>1, <2>7, <2>8, <2>9, <2>10 DEF PoolInv
<1>2. CASE cx_prealloc_pool_get
  <2>1. current_pool \in Nat /\ next_offset \in Nat /\ chunk_size \in Nat /\ chunk \in Seq(Nat) /\ Len(chunk) = current_pool
    BY DEF PoolInv, Numbers, Cut
  <2> QED BY <1>2, <2>1, Fresh DEF cx_prealloc_pool_get, Advance
<1>3. CASE add_chunk
  <2>1. chunk \in Seq(Nat) /\ Len(chunk) = current_pool /\ current_pool \in Nat
    BY DEF PoolInv, Numbers, Cut
  <2>2. chunk_size * 2 \in Nat
    BY DEF PoolInv, Numbers
  <2>3. chunk' \in Seq(Nat) /\ Len(chunk') = Len(chunk) + 1
    BY <1>3, <2>1, <2>2 DEF add_chunk
  <2>4. Len(chunk) + 1 \in Nat /\ Len(chunk) + 1 > current_pool
    BY <2>1
  <2> QED BY <1>3, <2>3, <2>4, Fresh DEF add_chunk, Grow, Advance
<1>4. CASE add_chunk_realloc_fails \/ add_chunk_calloc_fails
  <2>1. chunk_size' \in Nat
    BY <1>4 DEF add_chunk_realloc_fails, add_chunk_calloc_fails, Grow, PoolInv, Numbers
  <2> QED BY <1>4, <2>1, PoolFrame DEF add_chunk_realloc_fails, add_chunk_calloc_fails
<1>5. ASSUME NEW e \in used, cx_prealloc_pool_recycle(e) PROVE PoolInv'
  <2>1. e \in Address /\ e \notin Free
    BY DEF PoolInv, Numbers
  <2>2. reuse_pool' \in Seq(Address) /\ Free' = Free \cup {e} /\ Linear'
    BY <1>5, <2>1, Linked DEF cx_prealloc_pool_recycle, PoolInv
  <2>3. used' = used \ {e} /\ UNCHANGED <<chunk_size, next_offset, current_pool, chunk, twice>>
    BY <1>5 DEF cx_prealloc_pool_recycle
  <2>4. used' \cup Free' = used \cup Free
    BY <2>2, <2>3
  <2>5. Numbers'
    BY <2>2, <2>3 DEF PoolInv, Numbers
  <2>6. Cut'
    BY <2>3, <2>4 DEF PoolInv, Cut
  <2>7. NoOverlap'
    BY <2>4 DEF PoolInv, NoOverlap, Free
  <2>8. HandedOutOnce' /\ used' \cap Free' = {}
    BY <2>2, <2>3 DEF PoolInv, HandedOutOnce
  <2> QED BY <2>2, <2>5, <2>6, <2>7, <2>8 DEF PoolInv
<1>6. CASE cx_prealloc_pool_cleanup
  <2>1. used' = {} /\ UNCHANGED <<chunk_size, next_offset, current_pool, reuse_pool, chunk, twice>>
    BY <1>6 DEF cx_prealloc_pool_cleanup
  <2> QED BY <2>1 DEF PoolInv, Numbers, Linear, Cut, NoOverlap, HandedOutOnce, Free
<1>7. CASE Finished \/ UNCHANGED vars
  <2>1. chunk_size' \in Nat
    BY <1>7 DEF Finished, vars, PoolInv, Numbers
  <2> QED BY <1>7, <2>1, PoolFrame DEF Finished, vars
<1> QED BY <1>1, <1>2, <1>3, <1>4, <1>5, <1>6, <1>7 DEF Next

\* PoolInv holds in every reachable state.
LEMMA PoolInvariant == Spec => []PoolInv
  BY PoolInit, PoolNext, PTL DEF Spec

\* The array has every chunk once, beside entries that were never written.
Entries(s) ==
    /\ \A k \in DOMAIN s : s[k] = Garbage \/ s[k] \in 1 .. Len(chunk)
    /\ \A c \in 1 .. Len(chunk) : \E i \in DOMAIN s : s[i] = c /\ \A k \in DOMAIN s : s[k] = c => k = i

\* The same for an array of n entries.
LEMMA EntriesAre ==
    ASSUME NEW s, NEW n, DOMAIN s = 1 .. n
    PROVE  /\ Entries(s) => \A k \in 1 .. n : s[k] = Garbage \/ s[k] \in 1 .. Len(chunk)
           /\ Entries(s) => \A c \in 1 .. Len(chunk) : \E i \in 1 .. n :
                                s[i] = c /\ \A k \in 1 .. n : s[k] = c => k = i
  BY DEF Entries

\* While no calloc failed, the current chunk has chunk_size bytes, and elements
\* lie inside their chunks.
Sized ==
    "calloc" \notin failed =>
        /\ pools # NULL => chunk # <<>> /\ chunk[Len(chunk)] = chunk_size
        /\ \A e \in used \cup Free : e[1] \in DOMAIN chunk /\ e[2] + ElementSize <= chunk[e[1]]

\* While no realloc failed, the array has every chunk once.
Listed ==
    "realloc" \notin failed =>
        /\ pools = NULL => chunk = <<>>
        /\ pools # NULL => Entries(pools)
        /\ freed # NULL => Entries(freed)

\* While nothing failed, there is one entry for each chunk.
Exact ==
    failed = {} =>
        /\ pool_count = Len(chunk)
        /\ freed # NULL => Len(freed) = Len(chunk)

Intact == Sized /\ Listed /\ Exact

ChunkInv ==
    /\ TypeOK
    /\ chunk_size >= ElementSize
    /\ Intact

\* The types of the constants, for the arithmetic below.
LEMMA Constants ==
    /\ ElementCount \in Nat /\ ElementCount > 0
    /\ ElementCount * ElementSize \in Nat
    /\ ElementCount * ElementSize >= ElementSize
    /\ NULL \notin Seq(Nat \cup {Garbage})
<1>1. ElementCount \in Nat /\ ElementCount > 0 /\ NULL \notin Seq(Nat \cup {Garbage})
  BY PreallocPoolAssumption DEF PreallocPoolAssumption
<1>2. PICK k \in Nat : ElementCount = k + 1
  <2>1. ElementCount - 1 \in Nat /\ ElementCount = (ElementCount - 1) + 1
    BY <1>1
  <2> QED BY <2>1
<1>3. k * ElementSize \in Nat /\ (k + 1) * ElementSize = k * ElementSize + ElementSize
  BY <1>2, ElementSizePositive
<1> QED BY <1>1, <1>2, <1>3, ElementSizePositive

\* ChunkInv holds for a new pool.
LEMMA ChunkInit == Init => ChunkInv
<1> SUFFICES ASSUME Init PROVE ChunkInv
  OBVIOUS
<1>1. chunk_size \in Nat /\ chunk_size >= ElementSize
  BY Constants DEF Init
<1>2. TypeOK
  <2>1. /\ pools = NULL /\ freed = NULL /\ pool_count = 0 /\ next_offset = 0 /\ current_pool = 0
        /\ reuse_pool = <<>> /\ chunk = <<>> /\ used = {} /\ twice = {} /\ failed = {}
    BY DEF Init
  <2>2. <<>> \in Seq(Address) /\ <<>> \in Seq(Nat)
    OBVIOUS
  <2> QED BY <1>1, <2>1, <2>2 DEF TypeOK
<1>3. Intact
  BY DEF Init, Intact, Sized, Listed, Exact, Free
<1> QED BY <1>1, <1>2, <1>3 DEF ChunkInv

\* realloc adds one entry behind the old ones.
LEMMA ReallocatedGrows ==
    ASSUME TypeOK
    PROVE  /\ Reallocated \in Seq(Nat \cup {Garbage})
           /\ Len(Reallocated) = pool_count + 1
           /\ pools # NULL => \A i \in 1 .. pool_count : Reallocated[i] = pools[i]
<1>1. CASE pools = NULL
  BY <1>1 DEF TypeOK, Reallocated
<1>2. CASE pools # NULL
  BY <1>2 DEF TypeOK, Reallocated
<1> QED BY <1>1, <1>2

\* Every step keeps ChunkInv beside PoolInv.
LEMMA ChunkNext == PoolInv /\ PoolInv' /\ ChunkInv /\ [Next]_vars => ChunkInv'
<1> SUFFICES ASSUME PoolInv, PoolInv', ChunkInv, [Next]_vars PROVE ChunkInv'
  OBVIOUS
<1> USE ElementSizePositive
<1>0. /\ reuse_pool' \in Seq(Address) /\ used' \subseteq Address /\ twice' \subseteq Address
      /\ chunk' \in Seq(Nat) /\ next_offset' \in Nat /\ current_pool' \in Nat /\ chunk_size' \in Nat
      /\ Free' = {reuse_pool'[i] : i \in DOMAIN reuse_pool'}
  BY DEF PoolInv, Numbers, HandedOutOnce, Free
\* Steps that leave the chunks alone and hand out nothing new.
<1>1. ASSUME UNCHANGED <<pools, pool_count, chunk_size, chunk, failed, freed>>,
             used' \cup Free' \subseteq used \cup Free
      PROVE  ChunkInv'
  BY <1>0, <1>1 DEF ChunkInv, TypeOK, Intact, Sized, Listed, Exact, Entries
<1>2. CASE reuse_node
  <2>1. Head(reuse_pool) \in Free /\ Free' = Free \ {Head(reuse_pool)}
    BY <1>2, Unlinked DEF reuse_node, PoolInv
  <2>2. used' \cup Free' \subseteq used \cup Free
    BY <1>2, <2>1 DEF reuse_node, HandOut
  <2> QED BY <1>1, <1>2, <2>2 DEF reuse_node
<1>3. CASE cx_prealloc_pool_get
  <2>1. UNCHANGED <<pools, pool_count, chunk_size, chunk, failed, freed, reuse_pool>>
    BY <1>3 DEF cx_prealloc_pool_get
  <2>2. TypeOK'
    BY <1>0, <2>1 DEF ChunkInv, TypeOK
  <2>3. Free' = Free /\ used' \subseteq used \cup {<<current_pool, next_offset>>}
    BY <1>3, <2>1 DEF cx_prealloc_pool_get, HandOut, Free
  <2>4. pools # NULL /\ next_offset + ElementSize <= chunk_size
    BY <1>3 DEF cx_prealloc_pool_get, NeedsChunk, ChunkInv, TypeOK
  <2>5. ASSUME "calloc" \notin failed PROVE current_pool \in DOMAIN chunk /\ chunk[current_pool] = chunk_size
    BY <2>4, <2>5 DEF ChunkInv, TypeOK, Intact, Sized, PoolInv, Cut
  <2>6. Sized'
    BY <2>1, <2>3, <2>4, <2>5 DEF ChunkInv, Intact, Sized
  <2>7. Listed' /\ Exact'
    BY <2>1 DEF ChunkInv, Intact, Listed, Exact, Entries
  <2> QED BY <2>1, <2>2, <2>6, <2>7 DEF ChunkInv, Intact
<1>4. CASE add_chunk
  <2>1. /\ Reallocated \in Seq(Nat \cup {Garbage})
        /\ Len(Reallocated) = pool_count + 1
        /\ pools # NULL => \A i \in 1 .. pool_count : Reallocated[i] = pools[i]
    BY ReallocatedGrows DEF ChunkInv
  <2>2. pool_count \in Nat /\ chunk \in Seq(Nat) /\ chunk_size \in Nat /\ Len(chunk) \in Nat
    BY DEF ChunkInv, TypeOK
  <2>3. /\ pools' \in Seq(Nat \cup {Garbage})
        /\ Len(pools') = pool_count + 1
        /\ pools'[pool_count + 1] = Len(chunk) + 1
        /\ \A i \in 1 .. pool_count : pools'[i] = Reallocated[i]
    BY <1>4, <2>1, <2>2 DEF add_chunk, LastEntry
  <2>4. /\ Len(chunk') = Len(chunk) + 1
        /\ chunk'[Len(chunk) + 1] = chunk_size * 2
        /\ \A i \in 1 .. Len(chunk) : chunk'[i] = chunk[i]
    BY <1>4, <2>2 DEF add_chunk
  <2>5. /\ pool_count' = pool_count + 1 /\ chunk_size' = chunk_size * 2
        /\ failed' = failed /\ freed' = NULL /\ freed = NULL /\ reuse_pool' = reuse_pool
    BY <1>4 DEF add_chunk, Grow
  <2>6. TypeOK'
    BY <1>0, <2>2, <2>3, <2>5 DEF ChunkInv, TypeOK
  <2>7. chunk_size' >= ElementSize
    BY <2>2, <2>5 DEF ChunkInv
  <2>8. Free' = Free /\ used' \subseteq used \cup {<<Len(chunk) + 1, 0>>}
    BY <1>4, <2>5 DEF add_chunk, HandOut, Free
  <2>9. Sized'
    <3> SUFFICES ASSUME "calloc" \notin failed PROVE Sized'
      BY <2>5 DEF Sized
    <3>1. chunk' # <<>> /\ chunk'[Len(chunk')] = chunk_size'
      BY <2>2, <2>4, <2>5
    <3>2. ASSUME NEW e \in used' \cup Free'
          PROVE  e[1] \in DOMAIN chunk' /\ e[2] + ElementSize <= chunk'[e[1]]
      <4>1. CASE e \in used \cup Free
        <5>1. e[1] \in DOMAIN chunk /\ e[2] + ElementSize <= chunk[e[1]]
          BY <4>1 DEF ChunkInv, Intact, Sized
        <5>2. DOMAIN chunk = 1 .. Len(chunk) /\ DOMAIN chunk' = 1 .. Len(chunk) + 1
          BY <1>0, <2>2, <2>4
        <5> QED BY <2>2, <2>4, <5>1, <5>2
      <4>2. CASE e = <<Len(chunk) + 1, 0>>
        BY <1>0, <2>2, <2>4, <2>5, <2>7, <4>2
      <4> QED BY <2>8, <4>1, <4>2
    <3> QED BY <3>1, <3>2 DEF Sized
  <2>10. Listed'
    <3> SUFFICES ASSUME "realloc" \notin failed PROVE Entries(pools)'
      BY <2>3, <2>5, Constants DEF Listed
    <3>1. DOMAIN pools' = 1 .. pool_count + 1
      BY <2>2, <2>3
    <3>2. CASE pools = NULL
      <4>1. chunk = <<>> /\ pools'[pool_count + 1] = 1
        BY <2>3, <3>2 DEF ChunkInv, Intact, Listed
      <4>2. \A i \in 1 .. pool_count : pools'[i] = Garbage
        BY <2>2, <2>3, <3>2 DEF Reallocated
      <4>3. Garbage \notin Nat
        BY PreallocPoolAssumption DEF PreallocPoolAssumption
      <4>4. Len(chunk') = 1
        BY <2>4, <4>1
      <4> QED BY <2>2, <3>1, <4>1, <4>2, <4>3, <4>4 DEF Entries
    <3>3. CASE pools # NULL
      <4>1. /\ \A k \in 1 .. pool_count : pools[k] = Garbage \/ pools[k] \in 1 .. Len(chunk)
            /\ \A c \in 1 .. Len(chunk) : \E i \in 1 .. pool_count :
                  pools[i] = c /\ \A k \in 1 .. pool_count : pools[k] = c => k = i
        <5>1. Entries(pools) /\ DOMAIN pools = 1 .. pool_count
          BY <3>3 DEF ChunkInv, TypeOK, Intact, Listed
        <5> QED BY <5>1, EntriesAre
      <4>2. \A i \in 1 .. pool_count : pools'[i] = pools[i]
        BY <2>1, <2>3, <3>3
      <4>3. Garbage \notin Nat
        BY PreallocPoolAssumption DEF PreallocPoolAssumption
      <4>4. ASSUME NEW k \in 1 .. pool_count + 1
            PROVE  pools'[k] = Garbage \/ pools'[k] \in 1 .. Len(chunk')
        BY <2>2, <2>3, <2>4, <4>1, <4>2
      <4>5. ASSUME NEW c \in 1 .. Len(chunk)
            PROVE  \E i \in 1 .. pool_count + 1 :
                      pools'[i] = c /\ \A k \in 1 .. pool_count + 1 : pools'[k] = c => k = i
        <5>1. PICK i \in 1 .. pool_count : pools[i] = c /\ \A k \in 1 .. pool_count : pools[k] = c => k = i
          BY <4>1
        <5>2. pools'[i] = c /\ \A k \in 1 .. pool_count + 1 : pools'[k] = c => k = i
          <6>1. pools'[pool_count + 1] # c
            BY <2>2, <2>3
          <6>2. \A k \in 1 .. pool_count + 1 : k # pool_count + 1 => k \in 1 .. pool_count
            BY <2>2
          <6> QED BY <4>2, <5>1, <6>1, <6>2
        <5> QED BY <2>2, <5>2
      <4>6. /\ pools'[pool_count + 1] = Len(chunk) + 1
            /\ \A k \in 1 .. pool_count + 1 : pools'[k] = Len(chunk) + 1 => k = pool_count + 1
        BY <2>2, <2>3, <4>1, <4>2, <4>3
      <4>7. 1 .. Len(chunk') = (1 .. Len(chunk)) \cup {Len(chunk) + 1}
        BY <2>2, <2>4
      <4>8. ASSUME NEW c \in 1 .. Len(chunk')
            PROVE  \E i \in 1 .. pool_count + 1 :
                      pools'[i] = c /\ \A k \in 1 .. pool_count + 1 : pools'[k] = c => k = i
        <5>1. pool_count + 1 \in 1 .. pool_count + 1
          BY <2>2
        <5> QED BY <4>5, <4>6, <4>7, <5>1
      <4> QED BY <3>1, <4>4, <4>8 DEF Entries
    <3> QED BY <3>2, <3>3
  <2>11. Exact'
    BY <2>4, <2>5 DEF ChunkInv, Intact, Exact
  <2> QED BY <2>6, <2>7, <2>9, <2>10, <2>11 DEF ChunkInv, Intact
<1>5. CASE add_chunk_realloc_fails \/ add_chunk_calloc_fails
  <2>1. /\ failed' \subseteq Faults /\ failed' # {} /\ freed = NULL /\ freed' = freed
        /\ pool_count' = pool_count + 1 /\ chunk_size' = chunk_size * 2
        /\ UNCHANGED <<chunk, used, reuse_pool>>
        /\ \/ pools' = NULL /\ "realloc" \in failed' /\ ("calloc" \in failed' <=> "calloc" \in failed)
           \/ /\ pools' = Reallocated /\ "calloc" \in failed'
              /\ "realloc" \in failed' <=> "realloc" \in failed
    BY <1>5 DEF add_chunk_realloc_fails, add_chunk_calloc_fails, Grow, ChunkInv, TypeOK
  <2>2. pools' = NULL \/ (pools' \in Seq(Nat \cup {Garbage}) /\ Len(pools') = pool_count')
    BY <2>1, ReallocatedGrows DEF ChunkInv
  <2>3. TypeOK'
    BY <1>0, <2>1, <2>2 DEF ChunkInv, TypeOK
  <2>4. chunk_size' >= ElementSize
    BY <2>1 DEF ChunkInv, TypeOK
  <2>5. Sized'
    BY <2>1 DEF ChunkInv, Intact, Sized, Free
  <2>6. Listed'
    <3> SUFFICES ASSUME "realloc" \notin failed, pools' = Reallocated PROVE Listed'
      BY <2>1 DEF Listed
    <3>1. pool_count \in Nat
      BY DEF ChunkInv, TypeOK
    <3>2. pools' # NULL /\ DOMAIN pools' = 1 .. pool_count + 1
      BY <3>1, ReallocatedGrows, Constants DEF ChunkInv
    <3>3. CASE pools = NULL
      <4>1. chunk' = <<>>
        BY <2>1, <3>3 DEF ChunkInv, Intact, Listed
      <4>2. \A k \in 1 .. pool_count + 1 : pools'[k] = Garbage
        BY <3>1, <3>3 DEF Reallocated
      <4> QED BY <2>1, <3>2, <4>1, <4>2 DEF Listed, Entries
    <3>4. CASE pools # NULL
      <4>1. /\ \A k \in 1 .. pool_count : pools[k] = Garbage \/ pools[k] \in 1 .. Len(chunk)
            /\ \A c \in 1 .. Len(chunk) : \E i \in 1 .. pool_count :
                  pools[i] = c /\ \A k \in 1 .. pool_count : pools[k] = c => k = i
        <5>1. Entries(pools) /\ DOMAIN pools = 1 .. pool_count
          BY <3>4 DEF ChunkInv, TypeOK, Intact, Listed
        <5> QED BY <5>1, EntriesAre
      <4>2. /\ \A k \in 1 .. pool_count : pools'[k] = pools[k]
            /\ pools'[pool_count + 1] = Garbage
        BY <3>1, <3>4, <4>1 DEF Reallocated, ChunkInv, TypeOK
      <4>3. Garbage \notin Nat /\ Len(chunk) \in Nat
        BY PreallocPoolAssumption DEF PreallocPoolAssumption, ChunkInv, TypeOK
      <4>4. \A k \in 1 .. pool_count + 1 : pools'[k] = Garbage \/ pools'[k] \in 1 .. Len(chunk)
        BY <3>1, <4>1, <4>2
      <4>5. ASSUME NEW c \in 1 .. Len(chunk)
            PROVE  \E i \in 1 .. pool_count + 1 :
                      pools'[i] = c /\ \A k \in 1 .. pool_count + 1 : pools'[k] = c => k = i
        <5>1. PICK i \in 1 .. pool_count : pools[i] = c /\ \A k \in 1 .. pool_count : pools[k] = c => k = i
          BY <4>1
        <5>2. pools'[i] = c /\ \A k \in 1 .. pool_count + 1 : pools'[k] = c => k = i
          BY <3>1, <4>2, <4>3, <5>1
        <5> QED BY <3>1, <5>2
      <4>6. Entries(pools)'
        BY <2>1, <3>2, <4>4, <4>5 DEF Entries
      <4> QED BY <2>1, <3>2, <4>6 DEF Listed
    <3> QED BY <3>3, <3>4
  <2>7. Exact'
    BY <2>1 DEF Exact
  <2> QED BY <2>3, <2>4, <2>5, <2>6, <2>7 DEF ChunkInv, Intact
<1>6. ASSUME NEW e \in used, cx_prealloc_pool_recycle(e) PROVE ChunkInv'
  <2>1. e \in Address /\ e \notin Free
    BY DEF PoolInv, Numbers
  <2>2. Free' = Free \cup {e}
    BY <1>6, <2>1, Linked DEF cx_prealloc_pool_recycle, PoolInv
  <2>3. used' \cup Free' \subseteq used \cup Free
    BY <1>6, <2>2 DEF cx_prealloc_pool_recycle
  <2> QED BY <1>1, <1>6, <2>3 DEF cx_prealloc_pool_recycle
<1>7. CASE cx_prealloc_pool_cleanup
  <2>1. /\ UNCHANGED <<pools, pool_count, chunk_size, chunk, failed, reuse_pool>>
        /\ used' = {} /\ freed = NULL
        /\ freed' = IF pools = NULL THEN <<>> ELSE pools
    BY <1>7 DEF cx_prealloc_pool_cleanup
  <2>2. freed' \in Seq(Nat \cup {Garbage})
    BY <2>1 DEF ChunkInv, TypeOK
  <2>3. TypeOK'
    BY <1>0, <2>1, <2>2 DEF ChunkInv, TypeOK
  <2>4. Free' = Free
    BY <2>1 DEF Free
  <2>5. Sized'
    BY <2>1, <2>4 DEF ChunkInv, Intact, Sized
  <2>6. Listed'
    <3> SUFFICES ASSUME "realloc" \notin failed PROVE Listed'
      BY <2>1 DEF Listed
    <3>1. CASE pools = NULL
      BY <2>1, <3>1 DEF ChunkInv, Intact, Listed, Entries
    <3>2. CASE pools # NULL
      BY <2>1, <3>2 DEF ChunkInv, Intact, Listed, Entries
    <3> QED BY <3>1, <3>2
  <2>7. Exact'
    <3> SUFFICES ASSUME failed = {} PROVE Len(freed') = Len(chunk)
      BY <2>1 DEF ChunkInv, Intact, Exact
    <3>1. CASE pools = NULL
      BY <2>1, <3>1 DEF ChunkInv, Intact, Listed
    <3>2. CASE pools # NULL
      BY <2>1, <3>2 DEF ChunkInv, TypeOK, Intact, Exact
    <3> QED BY <3>1, <3>2
  <2> QED BY <2>1, <2>3, <2>5, <2>6, <2>7 DEF ChunkInv, Intact
<1>8. CASE Finished \/ UNCHANGED vars
  <2>1. used' \cup Free' \subseteq used \cup Free
    BY <1>8 DEF Finished, vars, Free
  <2> QED BY <1>1, <1>8, <2>1 DEF Finished, vars
<1> QED BY <1>2, <1>3, <1>4, <1>5, <1>6, <1>7, <1>8 DEF Next

\* Both invariants hold in every reachable state.
LEMMA ChunkInvariant == Spec => [](PoolInv /\ ChunkInv)
<1>1. Init => PoolInv /\ ChunkInv
  BY PoolInit, ChunkInit
<1>2. PoolInv /\ ChunkInv /\ [Next]_vars => (PoolInv /\ ChunkInv)'
  BY PoolNext, ChunkNext
<1> QED BY <1>1, <1>2, PTL DEF Spec

\* Type correctness of the pool: pools always has the pool_count entries that
\* cleanup reads, unless realloc failed and it is NULL.
THEOREM TypeCorrect == Spec => []TypeOK
<1>1. ChunkInv => TypeOK
  BY DEF ChunkInv
<1> QED BY <1>1, ChunkInvariant, PTL

\* No element is handed to a second caller while the first holds it, whatever
\* the sizes, the order of gets and recycles, and the allocations that fail.
THEOREM HandedOutOnceHolds == Spec => []HandedOutOnce
<1>1. PoolInv => HandedOutOnce
  BY DEF PoolInv
<1> QED BY <1>1, PoolInvariant, PTL

\* Elements that are held or free never share a byte.
THEOREM NoOverlapHolds == Spec => []NoOverlap
<1>1. PoolInv => NoOverlap
  BY DEF PoolInv
<1> QED BY <1>1, PoolInvariant, PTL

\* While no calloc failed, every element lies inside its chunk, whatever realloc
\* did.
THEOREM InBoundsHolds == Spec => []InBounds
<1>1. ChunkInv => InBounds
  BY DEF ChunkInv, Intact, Sized, InBounds
<1> QED BY <1>1, ChunkInvariant, PTL

\* While no realloc failed, cleanup frees every chunk once, whatever calloc did;
\* and nothing else if nothing failed.
THEOREM FreesAllChunksHolds == Spec => []FreesAllChunks
<1>1. ChunkInv => FreesAllChunks
  <2> SUFFICES ASSUME ChunkInv, freed # NULL PROVE FreesAllChunks
    BY DEF FreesAllChunks
  <2>1. DOMAIN chunk = 1 .. Len(chunk)
    BY DEF ChunkInv, TypeOK
  <2>2. "realloc" \notin failed => Entries(freed)
    BY DEF ChunkInv, Intact, Listed
  <2>3. failed = {} => Len(freed) = Len(chunk)
    BY DEF ChunkInv, Intact, Exact
  <2> QED BY <2>1, <2>2, <2>3 DEF Entries, FreesAllChunks
<1> QED BY <1>1, ChunkInvariant, PTL
=============================================================================
