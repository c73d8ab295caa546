-------------------------------- MODULE Lru ---------------------------------
(***************************************************************************)
(* The cache of lib/collection/lru.c in front of a reference-counted       *)
(* backend: a ring of keys, each of which holds a reference to its slot    *)
(* of the backend, so that the last used items outlive their users.  The   *)
(* backend is RcMap, with the clients' direct calls interleaved; the radix *)
(* tree implements the same specification (RcRadixTree).                   *)
(***************************************************************************)
EXTENDS RcMap

CONSTANTS
    LruSizes,      \* the sizes given to cx_lru_init
    MaxCount,      \* bound on the count of a slot that is touched
    EMPTY_MARKER   \* UINT64_MAX; a key of the backend may have this value

ASSUME LruAssumption == LruSizes \subseteq Nat /\ MaxCount \in Nat

VARIABLES
    size,        \* lru->size
    items,       \* lru->items
    ring_index,  \* lru->ring_index
    recent,      \* the key of the last touch, EMPTY_MARKER before it
    caching      \* cx_lru_cleanup was not called yet

lruVars == <<size, items, ring_index, recent, caching>>
vars == <<rcVars, lruVars>>

Keys == Slots \cup {EMPTY_MARKER}

\* cx_lru_init on an empty backend.
LruInit ==
    /\ Init
    /\ size \in LruSizes
    /\ items = [i \in 0 .. size - 1 |-> EMPTY_MARKER]
    /\ ring_index = 0
    /\ recent = EMPTY_MARKER
    /\ caching = TRUE

\* The entry that is overwritten next.
Oldest == (ring_index + 1) % size

\* Mutant: only the entry written last is compared.
AlreadyThere_last(k) == size = 0 \/ items[ring_index] = k

\* The early returns of try_touch.
AlreadyThere(k) == size = 0 \/ items[Oldest] = k \/ items[ring_index] = k

\* Mutant: the key written last is released, not the one that is overwritten.
OldKey_last == items[ring_index]

\* Mutant: the overwritten key keeps its reference.
OldKey_none == EMPTY_MARKER

\* try_touch: old_key.
OldKey == items[Oldest]

\* try_touch(lru, k) and, if it returns true, a retain of slot k.
Touch(k) ==
    /\ caching
    /\ map.ref_count[k] < MaxCount
    /\ recent' = k
    /\ IF AlreadyThere(k)
       THEN UNCHANGED <<map, cleaned, items, ring_index>>
       ELSE /\ IF OldKey = EMPTY_MARKER
               THEN /\ map' = retain(map, k)
                    /\ UNCHANGED cleaned
               ELSE /\ map' = retain(release_index(map, OldKey), k)
                    /\ Clean(ReleaseCleans(map, OldKey))
            /\ items' = [items EXCEPT ![Oldest] = k]
            /\ ring_index' = Oldest
    /\ UNCHANGED <<held, given, open, size, caching>>

\* cx_lru_touch for a key that is in the backend.
cx_lru_touch(k) ==
    /\ ~is_empty(map, k)
    /\ Touch(k)

\* cx_lru_touch_value: the caller holds a reference to the value.
cx_lru_touch_value(k, d) ==
    /\ held[<<k, d>>] > 0
    /\ Touch(k)

\* The entries of the ring that cleanup releases as references to k.
Entries(k) == {i \in DOMAIN items : items[i] = k /\ k # EMPTY_MARKER}

\* cx_lru_cleanup: one release for every entry.
cx_lru_cleanup ==
    /\ caching
    /\ LET left == [k \in Slots |-> map.ref_count[k] - Cardinality(Entries(k))]
           emptied == {k \in Slots : map.ref_count[k] > 0 /\ left[k] <= 0}
       IN  /\ map' = [ref_count |-> left,
                      data |-> [k \in Slots |-> IF k \in emptied THEN NULL ELSE map.data[k]]]
           /\ Clean({map.data[k] : k \in emptied})
    /\ size' = 0
    /\ items' = [i \in {} |-> EMPTY_MARKER]
    /\ caching' = FALSE
    /\ UNCHANGED <<held, given, open, ring_index, recent>>

\* A client's own call of the backend, which outlives the cache.
Backend == RcNext /\ (caching => open') /\ UNCHANGED lruVars

LruFinished == ~open /\ UNCHANGED vars

LruNext ==
    \/ \E k \in Slots : cx_lru_touch(k)
    \/ \E k \in Slots, d \in Items : cx_lru_touch_value(k, d)
    \/ cx_lru_cleanup
    \/ Backend
    \/ LruFinished

LruSpec == LruInit /\ [][LruNext]_vars

-----------------------------------------------------------------------------
\* Every count is the number of references that clients hold and of entries
\* of the ring: the ring neither loses a reference when an entry is
\* overwritten nor releases one that it does not have.  After cleanup of the
\* cache and the last release all counts are zero, as cx_rc_map_cleanup asserts.
\* Only the key that equals the marker of a free entry may be counted too high:
\* its references are never released, but none is taken away.
LruCounted ==
    \A k \in Slots :
        LET references == HeldIn(k) + Cardinality(Entries(k))
        IN  IF k = EMPTY_MARKER THEN map.ref_count[k] >= references
            ELSE map.ref_count[k] = references

\* The item touched last is cached: it survives the release of all its users.
LastTouchedStays ==
    caching /\ size > 0 /\ recent # EMPTY_MARKER =>
        /\ \E i \in DOMAIN items : items[i] = recent
        /\ ~is_empty(map, recent)
=============================================================================
