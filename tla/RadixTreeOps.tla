---------------------------- MODULE RadixTreeOps ----------------------------
(***************************************************************************)
(* The functions of lib/collection/radix_tree.c on the value of a          *)
(* CxRadixTree.  A tree is a record: capacity, the largest key it has room *)
(* for; root; and children, the branches in the order of their allocation. *)
(* The address of a branch is its index in children, a leaf is an element  *)
(* of a set of leaves.  Digit h of a key selects the child of the branch   *)
(* that is h levels above the leaves: this is what walking the key that    *)
(* prepare_key reversed comes to.  All branches come from a pool that      *)
(* never gets one back, so a new branch is zeroed.                         *)
(***************************************************************************)
EXTENDS Integers, Sequences

CONSTANTS
    RADIX_SIZE,  \* CX_RADIX_SIZE, the number of children of a branch
    MaxLevels,   \* digits of the largest key: 8 in the code
    NULL

Digits == 0 .. RADIX_SIZE - 1
Blank  == [c \in Digits |-> NULL]

\* cx_radix_tree_init.
cx_radix_tree_init == [capacity |-> 0, root |-> NULL, children |-> <<>>]

\* What is left of a key, or of a capacity, after n shifts by one digit.
Shifted(key, n) ==
    LET rest[i \in 0 .. MaxLevels] == IF i = 0 THEN key ELSE rest[i - 1] \div RADIX_SIZE
    IN  rest[n]

\* The number of digits of the capacity, whose digits are all RADIX_SIZE - 1:
\* the turns of the loops that shift it until it is 0.
Levels(t) == CHOOSE n \in 0 .. MaxLevels :
    Shifted(t.capacity, n) = 0 /\ (n > 0 => Shifted(t.capacity, n - 1) # 0)

\* prepare_key: the digit of the key for a branch h levels above the leaves.
Digit(key, h) == Shifted(key, h - 1) % RADIX_SIZE

\* The node h levels above the leaves on the way to the key, NULL if the way
\* ends before: node[n] is reached after n turns of the loop.
Reach(t, key, h) ==
    LET levels == Levels(t)
        node[n \in 0 .. levels] ==
            IF n = 0 THEN t.root
            ELSE LET branch == node[n - 1]
                 IN  IF branch = NULL THEN NULL
                     ELSE t.children[branch][Digit(key, levels - n + 1)]
    IN  node[levels - h]

\* cx_radix_tree_get.
get(t, key) == IF key > t.capacity THEN NULL ELSE Reach(t, key, 0)

\* Mutant: the old root is lost when the tree grows.
Lift_drops_root(t) ==
    [capacity |-> t.capacity * RADIX_SIZE + RADIX_SIZE - 1,
     root     |-> Len(t.children) + 1,
     children |-> Append(t.children, Blank)]

\* One turn of the loop of resize: a new root above the old one.
Lift(t) ==
    [capacity |-> t.capacity * RADIX_SIZE + RADIX_SIZE - 1,
     root     |-> Len(t.children) + 1,
     children |-> Append(t.children, [Blank EXCEPT ![0] = t.root])]

\* resize: up[n] is the tree after n turns of the loop.
resize(t, key) ==
    LET up[n \in 0 .. MaxLevels] ==
            IF n = 0 THEN t
            ELSE LET u == up[n - 1] IN IF u.capacity < key THEN Lift(u) ELSE u
    IN  up[MaxLevels]

\* The descent of cx_radix_tree_new_leaf, one level: w.node is h levels above
\* the leaves.  The last level always gets the new leaf.
Descend(w, key, h, leaf) ==
    LET d     == Digit(key, h)
        child == w.children[w.node][d]
        fresh == Len(w.children) + 1
    IN  IF h = 1
        THEN [node |-> leaf, children |-> [w.children EXCEPT ![w.node][d] = leaf]]
        ELSE IF child # NULL
        THEN [w EXCEPT !.node = child]
        ELSE [node |-> fresh,
              children |-> Append([w.children EXCEPT ![w.node][d] = fresh], Blank)]

\* cx_radix_tree_new_leaf: the tree afterwards, leaf being what the pool of
\* leaves returns.  A tree that is a single leaf stays as it is.
new_leaf(t, key, leaf) ==
    LET g == resize(t, key)
        n == Levels(g)
        walk[i \in 0 .. n] ==
            IF i = 0 THEN [node |-> g.root, children |-> g.children]
            ELSE Descend(walk[i - 1], key, n + 1 - i, leaf)
    IN  IF g.root = NULL THEN [g EXCEPT !.root = leaf]
        ELSE [g EXCEPT !.children = walk[n].children]

\* cx_radix_tree_new_leaf returns NULL if there was a leaf already; only a
\* tree that is a single leaf returns that leaf.
NewLeafReturns(t, key, leaf) ==
    IF get(t, key) = NULL THEN leaf
    ELSE IF t.capacity = 0 THEN t.root ELSE NULL

\* Mutant: the pointer in the branch is not cleared.
delete_keeps_pointer(t, key) == t

\* cx_radix_tree_delete: the tree afterwards.  The key is not compared with
\* the capacity.
delete(t, key) ==
    IF Levels(t) = 0 THEN [t EXCEPT !.root = NULL]
    ELSE IF Reach(t, key, 1) = NULL THEN t
    ELSE [t EXCEPT !.children[Reach(t, key, 1)][Digit(key, 1)] = NULL]

\* The leaf cx_radix_tree_delete recycles, or NULL.
DeleteRecycles(t, key) == Reach(t, key, 0)
=============================================================================
