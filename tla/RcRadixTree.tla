---------------------------- MODULE RcRadixTree -----------------------------
(***************************************************************************)
(* The reference-counted radix tree of lib/collection/rc_radix_tree.c: a   *)
(* radix tree whose leaves hold a count and an item.  It is shown to       *)
(* implement RcMap with the keys as slots: put is cx_rc_map_set, release   *)
(* by key is cx_rc_map_release_index.  Callers release what they hold and  *)
(* serialise their calls.  A failed allocation ends in the assertion of    *)
(* cx_rc_radix_tree_put and is not modelled.                               *)
(*                                                                         *)
(* The tree of the model is used in one of two ways: by callers of the     *)
(* plain radix tree (RadixTree), or as the values of a CxRcRadixTree.      *)
(***************************************************************************)
EXTENDS RadixTree

CONSTANTS
    Items,    \* the objects that are put into the tree, each once
    MaxRefs   \* bound on the references of a key that clients hold

VARIABLES
    counted,  \* the tree belongs to a CxRcRadixTree
    rc,       \* OBJ_RC of a leaf
    data,     \* OBJ_DATA of a leaf
    held,     \* references of the clients: the key, and the item they were given
    addr,     \* the leaf an item was found in by its clients
    cleaned,  \* how often the cleanup function was called for an item
    given,    \* items that were passed to cx_rc_radix_tree_put
    open      \* cx_rc_radix_tree_cleanup was not called yet

countVars == <<counted, rc, data, held, addr, cleaned, given, open>>

\* The counts and items that a counted tree finds for the keys.
Present(k) == counted /\ get(tree, k) # NULL
MapView ==
    [ref_count |-> [k \in Keys |-> IF Present(k) THEN rc[get(tree, k)] ELSE 0],
     data      |-> [k \in Keys |-> IF Present(k) THEN data[get(tree, k)] ELSE NULL]]

Map == INSTANCE RcMap WITH Slots <- Keys, map <- MapView

\* The references that clients hold to a key.
HeldIn(k) == Map!HeldIn(k)

RcInit ==
    /\ Init
    /\ counted \in BOOLEAN
    /\ rc = [l \in Leaves |-> 0]
    /\ data = [l \in Leaves |-> NULL]
    /\ held = [r \in Keys \X Items |-> 0]
    /\ addr = [d \in Items |-> NULL]
    /\ cleaned = [d \in Items |-> 0]
    /\ given = {}
    /\ open = TRUE

\* cx_rc_radix_tree_put for a key that radix_tree_retain finds: the new item
\* is cleaned up.
put_found(k, d) ==
    LET l == get(tree, k)
    IN  /\ open
        /\ d \notin given
        /\ HeldIn(k) < MaxRefs
        /\ l # NULL
        /\ rc' = [rc EXCEPT ![l] = @ + 1]
        /\ cleaned' = [cleaned EXCEPT ![d] = @ + 1]
        /\ held' = [held EXCEPT ![<<k, data[l]>>] = @ + 1]
        /\ given' = given \cup {d}
        /\ UNCHANGED <<vars, counted, data, addr, open>>

\* cx_rc_radix_tree_put with a new leaf, at the address new_leaf returns.
cx_rc_radix_tree_put(k, d, l) ==
    /\ open
    /\ d \notin given
    /\ HeldIn(k) < MaxRefs
    /\ get(tree, k) = NULL
    /\ l \in Leaves \ inUse
    /\ tree' = new_leaf(tree, k, l)
    /\ inUse' = inUse \cup {l}
    /\ last' = k
    /\ addr' = [addr EXCEPT ![d] = NewLeafReturns(tree, k, l)]
    /\ rc' = [rc EXCEPT ![addr'[d]] = 1]
    /\ data' = [data EXCEPT ![addr'[d]] = d]
    /\ held' = [held EXCEPT ![<<k, d>>] = @ + 1]
    /\ given' = given \cup {d}
    /\ UNCHANGED <<broken, counted, cleaned, open>>

\* cx_rc_radix_tree_retain; NULL is returned for a key that is not found.
cx_rc_radix_tree_retain(k) ==
    LET l == get(tree, k)
    IN  /\ open
        /\ HeldIn(k) < MaxRefs
        /\ l # NULL
        /\ rc' = [rc EXCEPT ![l] = @ + 1]
        /\ held' = [held EXCEPT ![<<k, data[l]>>] = @ + 1]
        /\ UNCHANGED <<vars, counted, data, addr, cleaned, given, open>>

\* cx_rc_radix_tree_retain_value: the count before the address the caller has.
cx_rc_radix_tree_retain_value(k, d) ==
    /\ open
    /\ held[<<k, d>>] > 0
    /\ HeldIn(k) < MaxRefs
    /\ rc' = [rc EXCEPT ![addr[d]] = @ + 1]
    /\ held' = [held EXCEPT ![<<k, d>>] = @ + 1]
    /\ UNCHANGED <<vars, counted, data, addr, cleaned, given, open>>

\* Mutant: the leaf goes after the last but one reference.
LastReference_early(l) == rc[l] <= 2

\* OBJ_RC(obj) == 1.
LastReference(l) == rc[l] = 1

\* cx_rc_radix_tree_release by a caller that holds a reference to the key: the
\* last one cleans the item up and deletes the key, others only count.
cx_rc_radix_tree_release(k, d) ==
    LET l == get(tree, k)
    IN  /\ open
        /\ held[<<k, d>>] > 0
        /\ l # NULL
        /\ IF LastReference(l)
           THEN /\ cleaned' = [cleaned EXCEPT ![data[l]] = @ + 1]
                /\ tree' = delete(tree, k)
                /\ inUse' = inUse \ {DeleteRecycles(tree, k)}
                /\ UNCHANGED rc
           ELSE /\ rc' = [rc EXCEPT ![l] = @ - 1]
                /\ UNCHANGED <<cleaned, tree, inUse>>
        /\ held' = [held EXCEPT ![<<k, d>>] = @ - 1]
        /\ last' = k
        /\ UNCHANGED <<broken, counted, data, addr, given, open>>

\* cx_rc_radix_tree_cleanup frees the pools, and no item.
cx_rc_radix_tree_cleanup ==
    /\ open
    /\ \A r \in Keys \X Items : held[r] = 0
    /\ open' = FALSE
    /\ UNCHANGED <<vars, counted, rc, data, held, addr, cleaned, given>>

Closed == ~open /\ UNCHANGED <<vars, countVars>>

RcNext ==
    \/ /\ counted
       /\ \/ \E k \in Keys, d \in Items :
                \/ put_found(k, d)
                \/ \E l \in Leaves : cx_rc_radix_tree_put(k, d, l)
                \/ cx_rc_radix_tree_retain_value(k, d)
                \/ cx_rc_radix_tree_release(k, d)
          \/ \E k \in Keys : cx_rc_radix_tree_retain(k)
          \/ cx_rc_radix_tree_cleanup
          \/ Closed
    \/ /\ ~counted
       /\ Next
       /\ UNCHANGED countVars

RcSpec == RcInit /\ [][RcNext]_<<vars, countVars>>

-----------------------------------------------------------------------------
\* The reference-counted radix tree implements the reference-counted map: its
\* calls do to the key they name what cx_rc_map_set, retain and release do to
\* a slot, and nothing to other keys, also when the tree grows or a leaf is
\* used again for another key.
ImplementsRcMap == Map!Spec

\* The address that was handed out for an item holds it until the last client
\* has released it: growing the tree moves no leaf, and a leaf is not given to
\* another key too early.
AddressStays == \A k \in Keys, d \in Items :
    held[<<k, d>>] > 0 => addr[d] \in inUse /\ data[addr[d]] = d /\ addr[d] = get(tree, k)
=============================================================================
