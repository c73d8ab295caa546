----------------------------- MODULE RadixTree ------------------------------
(***************************************************************************)
(* The radix tree of lib/collection/radix_tree.c and its callers.  The     *)
(* tree grows at the root: a key beyond the capacity puts new branches     *)
(* above the old root, under digit 0.  A leaf is an element that the       *)
(* tree's pool handed out (PreallocPool), so a new leaf is one that is not *)
(* in use.  Callers use the leaf a put returned until they delete the key. *)
(***************************************************************************)
EXTENDS RadixTreeOps

CONSTANTS
    Keys,       \* the keys that are used
    Leaves,     \* elements of the leaf pool
    Faults      \* pools whose allocation may fail: "leaf", "branch"

ASSUME RadixTreeAssumption ==
    /\ RADIX_SIZE \in Nat /\ RADIX_SIZE > 1
    /\ MaxLevels \in Nat
    /\ Keys \subseteq Nat /\ \A k \in Keys : Shifted(k, MaxLevels) = 0
    /\ NULL \notin Leaves /\ NULL \notin Nat
    /\ Faults \subseteq {"leaf", "branch"}

VARIABLES
    tree,    \* the CxRadixTree
    inUse,   \* leaves that the pool handed out and did not get back
    last,    \* the key of the last call, NULL before it
    broken   \* a pool of branches failed: the next call may crash

vars == <<tree, inUse, last, broken>>

Init ==
    /\ tree = cx_radix_tree_init
    /\ inUse = {}
    /\ last = NULL
    /\ broken = FALSE

\* cx_radix_tree_put, which is cx_radix_tree_new_leaf and a copy of the value.
\* A leaf that is overwritten stays in use, but nobody can reach it.
cx_radix_tree_put(key, leaf) ==
    /\ ~broken
    /\ leaf \notin inUse
    /\ tree' = new_leaf(tree, key, leaf)
    /\ inUse' = IF get(tree', key) = leaf THEN inUse \cup {leaf} ELSE inUse
    /\ last' = key
    /\ UNCHANGED broken

\* The pool of leaves returns NULL, which is stored and returned: a leaf that
\* was there is overwritten.
put_leaf_fails(key) ==
    /\ "leaf" \in Faults
    /\ ~broken
    /\ tree' = new_leaf(tree, key, NULL)
    /\ last' = key
    /\ UNCHANGED <<inUse, broken>>

\* resize gets no branch: the capacity was raised, the root is the old one.
resize_fails(key) ==
    /\ "branch" \in Faults
    /\ ~broken
    /\ key > tree.capacity
    /\ tree' = [tree EXCEPT !.capacity = Lift(tree).capacity]
    /\ last' = key
    /\ broken' = TRUE
    /\ UNCHANGED inUse

\* The descent of cx_radix_tree_new_leaf gets no branch and follows NULL.
descend_fails(key) ==
    /\ "branch" \in Faults
    /\ ~broken
    /\ tree' = resize(tree, key)
    /\ Levels(tree') > 1
    /\ Reach(tree', key, 1) = NULL
    /\ last' = key
    /\ broken' = TRUE
    /\ UNCHANGED inUse

\* cx_radix_tree_delete, of any key.
cx_radix_tree_delete(key) ==
    /\ ~broken
    /\ inUse' = inUse \ {DeleteRecycles(tree, key)}
    /\ tree' = delete(tree, key)
    /\ last' = key
    /\ UNCHANGED broken

Finished == broken /\ UNCHANGED vars

Next ==
    \/ \E key \in Keys, leaf \in Leaves : cx_radix_tree_put(key, leaf)
    \/ \E key \in Keys : put_leaf_fails(key)
    \/ \E key \in Keys : resize_fails(key)
    \/ \E key \in Keys : descend_fails(key)
    \/ \E key \in Keys : cx_radix_tree_delete(key)
    \/ Finished

Spec == Init /\ [][Next]_vars

-----------------------------------------------------------------------------
\* A put of one key never changes what another key finds, also when the tree
\* grows by several levels above the leaves that are there.  A delete walks
\* only the digits the tree has: it may change the one key that has the same
\* low digits as the key it was called for, and no other.
OthersUntouched ==
    [][\A k \in Keys : ~broken' /\ get(tree', k) # get(tree, k) =>
          \/ k = last'
          \/ k = last' % (tree.capacity + 1) /\ get(tree', k) = NULL /\ inUse' \subseteq inUse]_vars

\* No two keys find the same leaf, although deleted leaves are handed out
\* again: callers of different keys never share memory.
LeavesNotShared ==
    ~broken => \A j, k \in Keys : j # k /\ get(tree, j) # NULL => get(tree, j) # get(tree, k)
=============================================================================
