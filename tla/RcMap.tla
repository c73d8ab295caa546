------------------------------- MODULE RcMap --------------------------------
(***************************************************************************)
(* A reference-counted array, lib/collection/rc_map.c, and its clients.    *)
(* Every successful set or retain gives the caller one reference: the      *)
(* address of a slot, whose content the caller may use until it releases   *)
(* it.  Callers release what they hold, use valid indices and serialise    *)
(* their calls.  This is also what CxRcRadixTree promises, with the keys   *)
(* as slots, and what CxLru uses as its backend.                           *)
(***************************************************************************)
EXTENDS RcMapOps, FiniteSets, FiniteSetsExt

CONSTANTS
    Slots,    \* the indices 0 .. size - 1
    Items,    \* the objects that are put into the map, each once
    MaxRefs   \* bound on the references of a slot that clients hold

ASSUME RcMapAssumption ==
    /\ IsFiniteSet(Slots)
    /\ IsFiniteSet(Items)
    /\ NULL \notin Items
    /\ MaxRefs \in Nat

VARIABLES
    map,      \* the CxRcMap
    held,     \* references of the clients: the slot, and the item they were given
    cleaned,  \* how often the cleanup function was called for an item
    given,    \* items that were passed to cx_rc_map_set
    open      \* cx_rc_map_cleanup was not called yet

rcVars == <<map, held, cleaned, given, open>>

\* The references that clients hold to slot i.
HeldIn(i) == MapThenSumSet(LAMBDA d : held[<<i, d>>], Items)

\* The counts are not negative: the assertions of retain_rc and release_rc hold.
TypeOK ==
    /\ map.ref_count \in [Slots -> Nat]
    /\ map.data \in [Slots -> Items \cup {NULL}]
    /\ held \in [Slots \X Items -> Nat]
    /\ cleaned \in [Items -> Nat]
    /\ given \in SUBSET Items
    /\ open \in BOOLEAN

Init ==
    /\ map = cx_rc_map_init(Slots)
    /\ held = [r \in Slots \X Items |-> 0]
    /\ cleaned = [d \in Items |-> 0]
    /\ given = {}
    /\ open = TRUE

\* The cleanup function is called for the items of S.
Clean(S) == cleaned' = [d \in Items |-> IF d \in S THEN cleaned[d] + 1 ELSE cleaned[d]]

\* cx_rc_map_set(array, i, d): the caller gets the content the slot has now.
cx_rc_map_set(i, d) ==
    /\ open
    /\ d \notin given
    /\ HeldIn(i) < MaxRefs
    /\ given' = given \cup {d}
    /\ map' = set(map, i, d)
    /\ Clean(SetCleans(map, i, d))
    /\ held' = [held EXCEPT ![<<i, map'.data[i]>>] = @ + 1]
    /\ UNCHANGED open

\* cx_rc_map_retain(array, i); nothing happens for an empty slot.
cx_rc_map_retain(i) ==
    /\ open
    /\ HeldIn(i) < MaxRefs
    /\ ~is_empty(map, i)
    /\ map' = retain(map, i)
    /\ held' = [held EXCEPT ![<<i, map.data[i]>>] = @ + 1]
    /\ UNCHANGED <<cleaned, given, open>>

\* cx_rc_map_retain_value(array, element), for a reference the caller holds.
cx_rc_map_retain_value(i, d) ==
    /\ open
    /\ held[<<i, d>>] > 0
    /\ HeldIn(i) < MaxRefs
    /\ map' = retain(map, i)
    /\ held' = [held EXCEPT ![<<i, d>>] = @ + 1]
    /\ UNCHANGED <<cleaned, given, open>>

\* cx_rc_map_release_index(array, i), and cx_rc_map_release(array, element)
\* with the element's address in place of the index.
cx_rc_map_release_index(i, d) ==
    /\ open
    /\ held[<<i, d>>] > 0
    /\ map' = release_index(map, i)
    /\ Clean(ReleaseCleans(map, i))
    /\ held' = [held EXCEPT ![<<i, d>>] = @ - 1]
    /\ UNCHANGED <<given, open>>

\* cx_rc_map_cleanup, when the clients have released everything.
cx_rc_map_cleanup ==
    /\ open
    /\ \A r \in Slots \X Items : held[r] = 0
    /\ open' = FALSE
    /\ UNCHANGED <<map, held, cleaned, given>>

RcNext ==
    \/ \E i \in Slots, d \in Items : cx_rc_map_set(i, d)
    \/ \E i \in Slots : cx_rc_map_retain(i)
    \/ \E i \in Slots, d \in Items : cx_rc_map_retain_value(i, d)
    \/ \E i \in Slots, d \in Items : cx_rc_map_release_index(i, d)
    \/ cx_rc_map_cleanup

\* The map was cleaned up.
Finished == ~open /\ UNCHANGED rcVars

Spec == Init /\ [][RcNext \/ Finished]_rcVars

-----------------------------------------------------------------------------
\* A reference stays good: until its holder releases it, the slot keeps the
\* item the holder was given and the item is not cleaned up, whatever other
\* clients set, retain and release in between.
ReferencesStayGood ==
    \A i \in Slots, d \in Items :
        held[<<i, d>>] > 0 => map.data[i] = d /\ cleaned[d] = 0

\* No item is leaked or cleaned up twice: one that was given to the map is
\* either in exactly one slot that counts references, or was cleaned up once.
CleanedOnce ==
    \A d \in given :
        LET In == {i \in Slots : map.data[i] = d /\ map.ref_count[i] > 0}
        IN  Cardinality(In) + cleaned[d] = 1
=============================================================================
