---------------------------- MODULE RcMapProofs -----------------------------
(***************************************************************************)
(* Proofs about RcMap, and about Lru in front of it, for any slots, items, *)
(* sizes of the cache and bounds on the references.  The invariant of the  *)
(* map allows for references that others than the clients hold, x[i] of    *)
(* them to slot i: none for RcMap itself, the entries of the ring for Lru. *)
(***************************************************************************)
EXTENDS Lru, FiniteSetTheorems, WellFoundedInduction, TLAPS

\* The values of a CxRcMap.
MapSet == [ref_count : [Slots -> Nat], data : [Slots -> Items \cup {NULL}]]

\* TypeOK, and the map is a record of the two.
MapType ==
    /\ TypeOK
    /\ map \in MapSet

\* The count of a slot is the number of references to its content, and nobody
\* has a reference to anything else.  This replaces the sum over all items,
\* which at most one of them contributes to (HeldIsOne).
Counted(x) ==
    /\ \A i \in Slots, d \in Items : held[<<i, d>>] > 0 => map.data[i] = d
    /\ \A i \in Slots : map.data[i] # NULL =>
          map.ref_count[i] = held[<<i, map.data[i]>>] + x[i] /\ map.ref_count[i] > 0
    /\ \A i \in Slots : map.data[i] = NULL => map.ref_count[i] = 0 /\ x[i] = 0

\* An item that was given to the map is in one slot or was cleaned up.
Placed ==
    /\ \A i, j \in Slots : map.data[i] # NULL /\ map.data[i] = map.data[j] => i = j
    /\ \A i \in Slots : map.data[i] # NULL => map.data[i] \in given
    /\ \A d \in Items : cleaned[d] =
          IF d \in given /\ (\A i \in Slots : map.data[i] # d) THEN 1 ELSE 0

RcInv(x) == MapType /\ Counted(x) /\ Placed

\* NULL marks an empty slot and is no item.
LEMMA NullIsNoItem == NULL \notin Items
  BY RcMapAssumption DEF RcMapAssumption

\* A nonempty family of subsets of a finite set has a minimal member: the
\* induction over finite sets that the sums need.
LEMMA MinimalSubset ==
    ASSUME NEW S, IsFiniteSet(S), NEW Bad \in SUBSET (SUBSET S), Bad # {}
    PROVE  \E T \in Bad : \A U \in Bad : ~(U \subseteq T /\ U # T)
<1>1. IsWellFoundedOn(StrictSubsetOrdering(S), FiniteSubsetsOf(S))
  BY FS_StrictSubsetOrderingWellFounded
<1>2. Bad \subseteq FiniteSubsetsOf(S)
  BY FS_Subset DEF FiniteSubsetsOf
<1>3. \E T \in Bad : \A U \in Bad : ~(<<U, T>> \in StrictSubsetOrdering(S))
  BY <1>1, <1>2, WFMin
<1>4. \A U, T \in Bad : U \subseteq T /\ U # T => <<U, T>> \in StrictSubsetOrdering(S)
  BY DEF StrictSubsetOrdering
<1> QED BY <1>3, <1>4

\* At most one item contributes to the references that clients hold to a slot.
LEMMA HeldIsOne ==
    ASSUME held \in [Slots \X Items -> Nat],
           NEW i \in Slots, NEW d,
           \A e \in Items : e # d => held[<<i, e>>] = 0
    PROVE  HeldIn(i) = IF d \in Items THEN held[<<i, d>>] ELSE 0
<1> DEFINE D(g) == [s \in SUBSET Items |->
                      IF s = {} THEN 0
                      ELSE held[<<i, CHOOSE x \in s : TRUE>>] + g[s \ {CHOOSE x \in s : TRUE}]]
           one == [s \in SUBSET Items |-> IF d \in s THEN held[<<i, d>>] ELSE 0]
           iter == CHOOSE g : g = D(g)
<1>0. IsFiniteSet(Items)
  BY RcMapAssumption DEF RcMapAssumption
<1>1. HeldIn(i) = iter[Items]
  BY DEF HeldIn, MapThenSumSet, MapThenFoldSet
<1>2. one = D(one)
  <2> SUFFICES ASSUME NEW s \in SUBSET Items PROVE one[s] = D(one)[s]
    OBVIOUS
  <2>1. CASE s = {}
    BY <2>1
  <2>2. CASE s # {}
    <3> DEFINE x == CHOOSE x \in s : TRUE
    <3>1. x \in s
      BY <2>2
    <3> HIDE DEF x
    <3>2. D(one)[s] = held[<<i, x>>] + one[s \ {x}]
      BY <2>2 DEF x
    <3>3. held[<<i, x>>] \in Nat /\ s \ {x} \in SUBSET Items /\ (d \in s => held[<<i, d>>] \in Nat)
      BY <3>1
    <3>4. CASE x = d
      <4>1. one[s \ {x}] = 0 /\ one[s] = held[<<i, x>>]
        BY <3>1, <3>3, <3>4
      <4> QED BY <3>2, <3>3, <4>1
    <3>5. CASE x # d
      <4>1. one[s \ {x}] = one[s] /\ held[<<i, x>>] = 0 /\ one[s] \in Nat
        BY <3>1, <3>3, <3>5
      <4> HIDE DEF one
      <4> QED BY <3>2, <4>1
    <3> QED BY <3>4, <3>5
  <2> QED BY <2>1, <2>2
<1>3. iter = D(iter)
  <2> HIDE DEF one, D
  <2>1. \E g : g = D(g)
    BY <1>2
  <2> QED BY <2>1
<1> HIDE DEF iter
<1>4. ASSUME NEW s \in SUBSET Items, iter[s] # one[s],
             \A u \in SUBSET Items : u \subseteq s /\ u # s => iter[u] = one[u]
      PROVE  FALSE
  <2>1. iter[s] = D(iter)[s] /\ one[s] = D(one)[s]
    <3> HIDE DEF D, one
    <3> QED BY <1>2, <1>3
  <2>2. CASE s = {}
    BY <1>4, <2>1, <2>2
  <2>3. CASE s # {}
    <3> DEFINE x == CHOOSE x \in s : TRUE
    <3>1. x \in s
      BY <2>3
    <3> HIDE DEF x
    <3>2. D(iter)[s] = held[<<i, x>>] + iter[s \ {x}] /\ D(one)[s] = held[<<i, x>>] + one[s \ {x}]
      BY <2>3 DEF x
    <3>3. iter[s \ {x}] = one[s \ {x}]
      BY <1>4, <3>1
    <3> HIDE DEF D, one
    <3> QED BY <1>4, <2>1, <3>2, <3>3
  <2> QED BY <2>2, <2>3
<1>5. iter[Items] = one[Items]
  <2> DEFINE Bad == {s \in SUBSET Items : iter[s] # one[s]}
  <2> HIDE DEF one
  <2>1. CASE Bad = {}
    BY <2>1
  <2>2. CASE Bad # {}
    <3>1. PICK s \in Bad : \A u \in Bad : ~(u \subseteq s /\ u # s)
      <4> HIDE DEF Bad
      <4>1. Bad \in SUBSET (SUBSET Items)
        BY DEF Bad
      <4> QED BY <1>0, <2>2, <4>1, MinimalSubset
    <3> QED BY <1>4, <3>1
  <2> QED BY <2>1, <2>2
<1> QED BY <1>1, <1>5

\* Nobody but the clients holds references.
None == [i \in Slots |-> 0]

\* RcInv holds for an empty array.
LEMMA RcInit == Init => RcInv(None)
  BY NullIsNoItem DEF Init, None, RcInv, MapType, MapSet, TypeOK, Counted, Placed, cx_rc_map_init

\* cx_rc_map_retain counts one reference and keeps the contents.
LEMMA RetainDoes ==
    ASSUME NEW m \in MapSet, NEW i \in Slots, m.ref_count[i] # 0
    PROVE  /\ retain(m, i) \in MapSet
           /\ retain(m, i).ref_count = [m.ref_count EXCEPT ![i] = @ + 1]
           /\ retain(m, i).data = m.data
  BY DEF MapSet, retain, retain_rc, is_empty

\* cx_rc_map_set on an empty slot stores the item.
LEMMA SetDoes ==
    ASSUME NEW m \in MapSet, NEW i \in Slots, NEW d \in Items, m.ref_count[i] = 0
    PROVE  /\ set(m, i, d) \in MapSet
           /\ set(m, i, d).ref_count = [m.ref_count EXCEPT ![i] = 1]
           /\ set(m, i, d).data = [m.data EXCEPT ![i] = d]
<1> DEFINE n == [m EXCEPT !.data[i] = d]
<1>1. /\ n \in MapSet
      /\ n.ref_count = m.ref_count
      /\ n.data = [m.data EXCEPT ![i] = d]
  BY DEF MapSet
<1>2. set(m, i, d) = [n EXCEPT !.ref_count[i] = @ + 1]
  BY DEF set, retain_rc, is_empty
<1> HIDE DEF n
<1>3. /\ set(m, i, d) \in MapSet
      /\ set(m, i, d).ref_count = [n.ref_count EXCEPT ![i] = @ + 1]
      /\ set(m, i, d).data = n.data
  BY <1>1, <1>2 DEF MapSet
<1>4. [n.ref_count EXCEPT ![i] = @ + 1] = [m.ref_count EXCEPT ![i] = 1]
  BY <1>1 DEF MapSet
<1> QED BY <1>1, <1>3, <1>4

\* cx_rc_map_release_index uncounts one reference; the last one empties the slot.
LEMMA ReleaseDoes ==
    ASSUME NEW m \in MapSet, NEW i \in Slots, m.ref_count[i] > 0
    PROVE  /\ release_index(m, i) \in MapSet
           /\ release_index(m, i).ref_count = [m.ref_count EXCEPT ![i] = @ - 1]
           /\ release_index(m, i).data =
                 IF m.ref_count[i] = 1 THEN [m.data EXCEPT ![i] = NULL] ELSE m.data
           /\ ReleaseCleans(m, i) = IF m.ref_count[i] = 1 THEN {m.data[i]} ELSE {}
<1>1. m.ref_count[i] \in Nat /\ m.ref_count[i] - 1 \in Nat
  BY DEF MapSet
<1> DEFINE r == release_rc(m, i)
<1>2. /\ r \in MapSet
      /\ r.ref_count = [m.ref_count EXCEPT ![i] = @ - 1]
      /\ r.data = m.data
  BY <1>1 DEF MapSet, release_rc
<1>3. is_empty(r, i) <=> m.ref_count[i] = 1
  BY <1>1, <1>2 DEF is_empty, MapSet
<1>4. release_index(m, i) = IF m.ref_count[i] = 1 THEN [r EXCEPT !.data[i] = NULL] ELSE r
  BY <1>3 DEF release_index
<1>5. ReleaseCleans(m, i) = IF m.ref_count[i] = 1 THEN {m.data[i]} ELSE {}
  BY <1>3 DEF ReleaseCleans
<1> QED BY <1>2, <1>4, <1>5 DEF MapSet

\* One more reference to the content of a slot that has one.
LEMMA OneMore ==
    ASSUME NEW x \in [Slots -> Nat], RcInv(x),
           NEW i \in Slots, NEW d \in Items, map.data[i] = d,
           map' \in MapSet,
           (map').ref_count = [map.ref_count EXCEPT ![i] = @ + 1],
           (map').data = map.data,
           held' = [held EXCEPT ![<<i, d>>] = @ + 1]
    PROVE  /\ Counted(x)'
           /\ held' \in [Slots \X Items -> Nat]
<1>1. held' \in [Slots \X Items -> Nat]
  BY DEF RcInv, MapType, MapSet, TypeOK
<1>2. /\ held'[<<i, d>>] = held[<<i, d>>] + 1
      /\ \A j \in Slots, e \in Items : <<j, e>> # <<i, d>> => held'[<<j, e>>] = held[<<j, e>>]
  BY DEF RcInv, MapType, MapSet, TypeOK
<1>3. /\ map'.ref_count[i] = map.ref_count[i] + 1
      /\ \A j \in Slots : j # i => map'.ref_count[j] = map.ref_count[j]
  BY DEF RcInv, MapType, MapSet, TypeOK
<1>4. Counted(x)'
  BY <1>2, <1>3, NullIsNoItem DEF RcInv, MapType, MapSet, TypeOK, Counted
<1> QED BY <1>1, <1>4

\* Every call of a client keeps the invariant, whoever else holds references.
LEMMA RcStep ==
    ASSUME NEW x \in [Slots -> Nat], RcInv(x), [RcNext \/ Finished]_rcVars
    PROVE  RcInv(x)'
<1> USE NullIsNoItem
<1>1. ASSUME NEW i \in Slots, NEW d \in Items, cx_rc_map_set(i, d) PROVE RcInv(x)'
  <2>1. CASE map.ref_count[i] = 0
    <3>1. /\ map' \in MapSet
          /\ map'.ref_count = [map.ref_count EXCEPT ![i] = 1]
          /\ map'.data = [map.data EXCEPT ![i] = d]
      BY <1>1, <2>1, SetDoes DEF cx_rc_map_set, RcInv, MapType
    <3>2. cleaned' = cleaned /\ given' = given \cup {d} /\ open' = open
      BY <1>1, <2>1 DEF cx_rc_map_set, Clean, SetCleans, is_empty, RcInv, MapType, MapSet, TypeOK
    <3>3. map.data[i] = NULL /\ x[i] = 0 /\ \A e \in Items : held[<<i, e>>] = 0
      <4>1. map.data[i] = NULL
        <5>1. map.data[i] # NULL => map.ref_count[i] > 0
          BY DEF RcInv, Counted
        <5> QED BY <2>1, <5>1
      <4>2. \A e \in Items : held[<<i, e>>] \in Nat /\ ~(held[<<i, e>>] > 0)
        BY <4>1 DEF RcInv, MapType, TypeOK, Counted
      <4>3. x[i] = 0
        BY <4>1 DEF RcInv, Counted
      <4> QED BY <4>1, <4>2, <4>3
    <3>4. map'.data[i] = d /\ \A j \in Slots : j # i => map'.data[j] = map.data[j]
      BY <3>1 DEF RcInv, MapType, MapSet, TypeOK
    <3>5. /\ held' \in [Slots \X Items -> Nat]
          /\ held'[<<i, d>>] = 1
          /\ \A j \in Slots, e \in Items : <<j, e>> # <<i, d>> => held'[<<j, e>>] = held[<<j, e>>]
      BY <1>1, <3>3, <3>4 DEF cx_rc_map_set, RcInv, MapType, MapSet, TypeOK
    <3>6. /\ map'.ref_count[i] = 1
          /\ \A j \in Slots : j # i => map'.ref_count[j] = map.ref_count[j]
      BY <3>1 DEF RcInv, MapType, MapSet, TypeOK
    <3>7. MapType'
      BY <3>1, <3>2, <3>5 DEF RcInv, MapType, MapSet, TypeOK
    <3>8. Counted(x)'
      <4>1. ASSUME NEW j \in Slots, NEW e \in Items, held'[<<j, e>>] > 0 PROVE map'.data[j] = e
        <5>1. CASE j = i
          BY <3>3, <3>4, <3>5, <4>1, <5>1
        <5>2. CASE j # i
          BY <3>4, <3>5, <4>1, <5>2 DEF RcInv, Counted
        <5> QED BY <5>1, <5>2
      <4>2. ASSUME NEW j \in Slots
            PROVE  /\ map'.data[j] # NULL => /\ map'.ref_count[j] = held'[<<j, map'.data[j]>>] + x[j]
                                            /\ map'.ref_count[j] > 0
                   /\ map'.data[j] = NULL => map'.ref_count[j] = 0 /\ x[j] = 0
        <5>1. CASE j = i
          BY <3>3, <3>4, <3>5, <3>6, <5>1
        <5>2. CASE j # i
          <6>1. map.data[j] \in Items \cup {NULL}
            BY DEF RcInv, MapType, TypeOK
          <6> QED BY <3>4, <3>5, <3>6, <5>2, <6>1 DEF RcInv, Counted
        <5> QED BY <5>1, <5>2
      <4> QED BY <4>1, <4>2 DEF Counted
    <3>9. d \notin given /\ \A j \in Slots : map.data[j] # d
      BY <1>1 DEF cx_rc_map_set, RcInv, Placed
    <3>10. Placed'
      BY <3>2, <3>3, <3>4, <3>9 DEF RcInv, Placed
    <3> QED BY <3>7, <3>8, <3>10 DEF RcInv
  <2>2. CASE map.ref_count[i] # 0
    <3>1. map' = retain(map, i)
      BY <1>1, <2>2 DEF cx_rc_map_set, set, is_empty
    <3>2. /\ map' \in MapSet
          /\ map'.ref_count = [map.ref_count EXCEPT ![i] = @ + 1]
          /\ map'.data = map.data
      BY <2>2, <3>1, RetainDoes DEF RcInv, MapType
    <3>3. map.data[i] \in Items
      BY <2>2 DEF RcInv, MapType, MapSet, TypeOK, Counted
    <3>4. held' = [held EXCEPT ![<<i, map.data[i]>>] = @ + 1]
      BY <1>1, <3>2 DEF cx_rc_map_set
    <3>5. Counted(x)' /\ held' \in [Slots \X Items -> Nat]
      BY <3>2, <3>3, <3>4, OneMore
    <3>6. /\ cleaned' = [e \in Items |-> IF e = d THEN cleaned[e] + 1 ELSE cleaned[e]]
          /\ given' = given \cup {d} /\ open' = open
      BY <1>1, <2>2 DEF cx_rc_map_set, Clean, SetCleans, is_empty
    <3>7. cleaned' \in [Items -> Nat]
      BY <3>6 DEF RcInv, MapType, MapSet, TypeOK
    <3>8. MapType'
      BY <3>2, <3>5, <3>6, <3>7 DEF RcInv, MapType, MapSet, TypeOK
    <3>9. d \notin given /\ (\A j \in Slots : map.data[j] # d) /\ cleaned[d] = 0
      BY <1>1 DEF cx_rc_map_set, RcInv, Placed
    <3>10. \A e \in Items : cleaned'[e] = IF e = d THEN 1 ELSE cleaned[e]
      BY <3>6, <3>9
    <3>11. Placed'
      BY <3>2, <3>6, <3>9, <3>10 DEF RcInv, Placed
    <3> QED BY <3>5, <3>8, <3>11 DEF RcInv
  <2> QED BY <2>1, <2>2
<1>2. ASSUME NEW i \in Slots, NEW d \in Items, map.data[i] = d, map.ref_count[i] # 0,
             map' = retain(map, i), held' = [held EXCEPT ![<<i, d>>] = @ + 1],
             UNCHANGED <<cleaned, given, open>>
      PROVE  RcInv(x)'
  <2>1. /\ map' \in MapSet
        /\ map'.ref_count = [map.ref_count EXCEPT ![i] = @ + 1]
        /\ map'.data = map.data
    BY <1>2, RetainDoes DEF RcInv, MapType
  <2>2. Counted(x)' /\ held' \in [Slots \X Items -> Nat]
    BY <1>2, <2>1, OneMore
  <2>3. MapType'
    BY <1>2, <2>1, <2>2 DEF RcInv, MapType, MapSet, TypeOK
  <2>4. Placed'
    BY <1>2, <2>1 DEF RcInv, Placed
  <2> QED BY <2>2, <2>3, <2>4 DEF RcInv
<1>3. ASSUME NEW i \in Slots, cx_rc_map_retain(i) PROVE RcInv(x)'
  <2>1. map.ref_count[i] # 0
    BY <1>3 DEF cx_rc_map_retain, is_empty
  <2>2. map.data[i] \in Items
    BY <2>1 DEF RcInv, MapType, MapSet, TypeOK, Counted
  <2> QED BY <1>2, <1>3, <2>1, <2>2 DEF cx_rc_map_retain
<1>4. ASSUME NEW i \in Slots, NEW d \in Items, cx_rc_map_retain_value(i, d) PROVE RcInv(x)'
  <2>1. map.data[i] = d /\ map.ref_count[i] # 0
    BY <1>4 DEF cx_rc_map_retain_value, RcInv, MapType, MapSet, TypeOK, Counted
  <2> QED BY <1>2, <1>4, <2>1 DEF cx_rc_map_retain_value
<1>5. ASSUME NEW i \in Slots, NEW d \in Items, cx_rc_map_release_index(i, d) PROVE RcInv(x)'
  <2>1. /\ map.data[i] = d /\ map.ref_count[i] > 0 /\ map.ref_count[i] = held[<<i, d>>] + x[i]
        /\ \A e \in Items : e # d => held[<<i, e>>] = 0
    BY <1>5 DEF cx_rc_map_release_index, RcInv, MapType, MapSet, TypeOK, Counted
  <2>2. /\ map' \in MapSet
        /\ map'.ref_count = [map.ref_count EXCEPT ![i] = @ - 1]
        /\ map'.data = IF map.ref_count[i] = 1 THEN [map.data EXCEPT ![i] = NULL] ELSE map.data
        /\ ReleaseCleans(map, i) = IF map.ref_count[i] = 1 THEN {d} ELSE {}
    BY <1>5, <2>1, ReleaseDoes DEF cx_rc_map_release_index, RcInv, MapType
  <2>3. /\ held' \in [Slots \X Items -> Nat]
        /\ held'[<<i, d>>] = held[<<i, d>>] - 1
        /\ \A j \in Slots, e \in Items : <<j, e>> # <<i, d>> => held'[<<j, e>>] = held[<<j, e>>]
    BY <1>5 DEF cx_rc_map_release_index, RcInv, MapType, MapSet, TypeOK
  <2>4. /\ map'.ref_count[i] = map.ref_count[i] - 1
        /\ \A j \in Slots : j # i => map'.ref_count[j] = map.ref_count[j]
    BY <2>2 DEF RcInv, MapType, MapSet, TypeOK
  <2>5. given' = given /\ open' = open
    BY <1>5 DEF cx_rc_map_release_index
  <2>6. CASE map.ref_count[i] = 1
    <3>1. map'.data[i] = NULL /\ \A j \in Slots : j # i => map'.data[j] = map.data[j]
      BY <2>2, <2>6 DEF RcInv, MapType, MapSet, TypeOK
    <3>2. cleaned' = [e \in Items |-> IF e = d THEN cleaned[e] + 1 ELSE cleaned[e]]
      BY <1>5, <2>2, <2>6 DEF cx_rc_map_release_index, Clean
    <3>3. cleaned' \in [Items -> Nat]
      BY <3>2 DEF RcInv, MapType, MapSet, TypeOK
    <3>4. MapType'
      BY <2>2, <2>3, <2>5, <3>3 DEF RcInv, MapType, MapSet, TypeOK
    <3>5. Counted(x)'
      <4>1. held[<<i, d>>] = 1 /\ x[i] = 0 /\ map'.ref_count[i] = 0
        <5>1. held[<<i, d>>] \in Nat /\ held[<<i, d>>] > 0 /\ x[i] \in Nat
          BY <1>5 DEF cx_rc_map_release_index, RcInv, MapType, TypeOK
        <5> QED BY <2>1, <2>4, <2>6, <5>1
      <4>2. \A e \in Items : held'[<<i, e>>] = 0
        BY <2>1, <2>3, <4>1
      <4>3. \A j \in Slots, e \in Items : held'[<<j, e>>] > 0 => map'.data[j] = e
        BY <2>3, <3>1, <4>2 DEF RcInv, Counted
      <4>4. ASSUME NEW j \in Slots
            PROVE  /\ map'.data[j] # NULL => /\ map'.ref_count[j] = held'[<<j, map'.data[j]>>] + x[j]
                                            /\ map'.ref_count[j] > 0
                   /\ map'.data[j] = NULL => map'.ref_count[j] = 0 /\ x[j] = 0
        <5>1. CASE j = i
          BY <3>1, <4>1, <5>1
        <5>2. CASE j # i
          <6>1. map.data[j] \in Items \cup {NULL}
            BY DEF RcInv, MapType, TypeOK
          <6> QED BY <2>3, <2>4, <3>1, <5>2, <6>1 DEF RcInv, Counted
        <5> QED BY <5>1, <5>2
      <4> QED BY <4>3, <4>4 DEF Counted
    <3>6. d \in given /\ cleaned[d] = 0 /\ \A j \in Slots : j # i => map.data[j] # d
      BY <2>1 DEF RcInv, Placed
    <3>7. \A e \in Items : cleaned'[e] = IF e = d THEN 1 ELSE cleaned[e]
      BY <3>2, <3>6
    <3>8. Placed'
      BY <2>1, <2>5, <3>1, <3>6, <3>7 DEF RcInv, Placed
    <3> QED BY <3>4, <3>5, <3>8 DEF RcInv
  <2>7. CASE map.ref_count[i] # 1
    <3>1. map'.data = map.data
      BY <2>2, <2>7
    <3>2. cleaned' = cleaned
      BY <1>5, <2>2, <2>7 DEF cx_rc_map_release_index, Clean, RcInv, MapType, MapSet, TypeOK
    <3>3. MapType'
      BY <2>2, <2>3, <2>5, <3>2 DEF RcInv, MapType, MapSet, TypeOK
    <3>4. Counted(x)'
      <4>1. \A j \in Slots, e \in Items : held'[<<j, e>>] > 0 => map'.data[j] = e
        <5>1. \A j \in Slots, e \in Items : held'[<<j, e>>] > 0 => held[<<j, e>>] > 0
          BY <2>3 DEF RcInv, MapType, TypeOK
        <5> QED BY <5>1, <3>1 DEF RcInv, Counted
      <4>2. ASSUME NEW j \in Slots, map'.data[j] # NULL
            PROVE  map'.ref_count[j] = held'[<<j, map'.data[j]>>] + x[j] /\ map'.ref_count[j] > 0
        <5>1. /\ map.ref_count[j] = held[<<j, map.data[j]>>] + x[j] /\ map.ref_count[j] > 0
              /\ map.data[j] \in Items
          BY <4>2, <3>1 DEF RcInv, MapType, MapSet, Counted
        <5>2. CASE j = i
          <6>1. held[<<i, d>>] \in Nat /\ x[i] \in Nat /\ map.ref_count[i] \in Nat
            BY DEF RcInv, MapType, TypeOK
          <6> QED BY <5>2, <6>1, <2>1, <2>3, <2>4, <2>7, <3>1
        <5>3. CASE j # i
          BY <5>1, <5>3, <2>3, <2>4, <3>1
        <5> QED BY <5>2, <5>3
      <4>3. \A j \in Slots : map'.data[j] = NULL => map'.ref_count[j] = 0 /\ x[j] = 0
        <5>1. \A j \in Slots : map'.data[j] = NULL => j # i /\ map.ref_count[j] = 0 /\ x[j] = 0
          BY <2>1, <3>1, NullIsNoItem DEF RcInv, Counted
        <5> QED BY <5>1, <2>4
      <4> QED BY <4>1, <4>2, <4>3 DEF Counted
    <3>5. Placed'
      BY <2>5, <3>1, <3>2 DEF RcInv, Placed
    <3> QED BY <3>3, <3>4, <3>5 DEF RcInv
  <2> QED BY <2>6, <2>7
<1>6. CASE cx_rc_map_cleanup
  BY <1>6 DEF cx_rc_map_cleanup, RcInv, MapType, MapSet, TypeOK, Counted, Placed
<1>7. CASE Finished \/ UNCHANGED rcVars
  BY <1>7 DEF Finished, rcVars, RcInv, MapType, MapSet, TypeOK, Counted, Placed
<1> QED BY <1>1, <1>3, <1>4, <1>5, <1>6, <1>7 DEF RcNext

\* RcInv holds in every state of the array by itself.
LEMMA RcInvariant == Spec => []RcInv(None)
<1>1. None \in [Slots -> Nat]
  BY DEF None
<1>2. RcInv(None) /\ [RcNext \/ Finished]_rcVars => RcInv(None)'
  BY <1>1, RcStep
<1> QED BY <1>2, RcInit, PTL DEF Spec

\* Type correctness of the map: the assertions of retain_rc and release_rc hold.
THEOREM TypeCorrect == Spec => []TypeOK
<1>1. RcInv(None) => TypeOK
  BY DEF RcInv, MapType
<1> QED BY <1>1, RcInvariant, PTL

\* References stay good, for any number of slots, items and references.
THEOREM ReferencesStayGoodHolds == Spec => []ReferencesStayGood
<1>1. RcInv(None) => ReferencesStayGood
  BY NullIsNoItem DEF RcInv, Counted, Placed, ReferencesStayGood
<1> QED BY <1>1, RcInvariant, PTL

\* An item that was given to the map is in exactly one slot or was cleaned up once.
LEMMA PlacedOnce ==
    ASSUME NEW x, RcInv(x)
    PROVE  CleanedOnce
<1> SUFFICES ASSUME NEW d \in given
    PROVE  Cardinality({i \in Slots : map.data[i] = d /\ map.ref_count[i] > 0}) + cleaned[d] = 1
  BY DEF CleanedOnce
<1> DEFINE In == {i \in Slots : map.data[i] = d /\ map.ref_count[i] > 0}
<1>1. d \in Items /\ d # NULL
  BY NullIsNoItem DEF RcInv, MapType, MapSet, TypeOK
<1>2. CASE \E i \in Slots : map.data[i] = d
  <2>1. PICK i \in Slots : map.data[i] = d
    BY <1>2
  <2>2. In = {i}
    BY <1>1, <2>1 DEF RcInv, Counted, Placed
  <2>3. cleaned[d] = 0
    BY <1>1, <2>1 DEF RcInv, Placed
  <2> HIDE DEF In
  <2>4. Cardinality(In) = 1
    BY <2>2, FS_Singleton
  <2> QED BY <2>3, <2>4 DEF In
<1>3. CASE \A i \in Slots : map.data[i] # d
  <2>1. In = {}
    BY <1>3
  <2>2. cleaned[d] = 1
    BY <1>1, <1>3 DEF RcInv, Placed
  <2> HIDE DEF In
  <2>3. Cardinality(In) = 0
    BY <2>1, FS_EmptySet
  <2> QED BY <2>2, <2>3 DEF In
<1> QED BY <1>2, <1>3

\* No item that was given to the map is leaked or cleaned up twice.
THEOREM CleanedOnceHolds == Spec => []CleanedOnce
<1>1. RcInv(None) => CleanedOnce
  BY PlacedOnce
<1> QED BY <1>1, RcInvariant, PTL

(***************************************************************************)
(* The cache in front of the map                                           *)
(***************************************************************************)

\* The ring has its size, and the key that was touched last is in it.
RingInv ==
    /\ size \in Nat
    /\ items \in [0 .. size - 1 -> Keys]
    /\ ring_index \in Nat /\ (size > 0 => ring_index < size)
    /\ recent \in Keys
    /\ caching \in BOOLEAN
    /\ caching /\ size > 0 /\ recent # EMPTY_MARKER =>
          \E i \in DOMAIN items : items[i] = recent

\* The references that are not the clients' are the entries of the ring.  Those
\* to the slot that equals the marker are not bounded by its entries.
RingCounted(x) == \A k \in Slots : k # EMPTY_MARKER => x[k] = Cardinality(Entries(k))

LruInv == RingInv /\ \E x \in [Slots -> Nat] : RcInv(x) /\ RingCounted(x)

\* The entries of the ring are finitely many, and the marker is no entry.
LEMMA EntriesFinite ==
    ASSUME RingInv, NEW k
    PROVE  /\ IsFiniteSet(Entries(k)) /\ Cardinality(Entries(k)) \in Nat
           /\ Entries(k) \subseteq 0 .. size - 1
           /\ Entries(k) # {} => Cardinality(Entries(k)) > 0
           /\ Cardinality(Entries(EMPTY_MARKER)) = 0
<1>1. DOMAIN items = 0 .. size - 1 /\ size - 1 \in Int
  BY DEF RingInv
<1>2. IsFiniteSet(0 .. size - 1)
  BY <1>1, FS_Interval
<1>3. Entries(k) \in SUBSET (0 .. size - 1)
  BY <1>1 DEF Entries
<1>4. IsFiniteSet(Entries(k)) /\ Cardinality(Entries(k)) \in Nat
  BY <1>2, <1>3, FS_Subset, FS_CardinalityType
<1>5. Entries(EMPTY_MARKER) = {}
  BY DEF Entries
<1> QED BY <1>3, <1>4, <1>5, FS_EmptySet

\* The entry that is overwritten next is one of the ring.
LEMMA OldestInRing ==
    ASSUME RingInv, size > 0
    PROVE  Oldest \in 0 .. size - 1 /\ ring_index \in 0 .. size - 1
  BY DEF RingInv, Oldest

\* LruInv holds for an empty cache.
LEMMA LruInitInv == LruInit => LruInv
<1> SUFFICES ASSUME LruInit PROVE LruInv
  OBVIOUS
<1>1. size \in Nat
  BY LruAssumption DEF LruInit, LruAssumption
<1>2. RingInv
  BY <1>1 DEF LruInit, RingInv, Keys
<1>3. RcInv(None) /\ None \in [Slots -> Nat]
  BY RcInit DEF LruInit, None
<1>4. \A k \in Slots : Entries(k) = {}
  BY <1>1 DEF LruInit, Entries
<1>5. RingCounted(None)
  BY <1>4, FS_EmptySet DEF RingCounted, None
<1> QED BY <1>2, <1>3, <1>5 DEF LruInv

\* One more reference of the ring to a slot with content.
LEMMA RingRetains ==
    ASSUME NEW x \in [Slots -> Nat], RcInv(x),
           NEW k \in Slots, map.ref_count[k] # 0,
           map' = retain(map, k), UNCHANGED <<held, cleaned, given, open>>,
           NEW y \in [Slots -> Nat], y[k] = x[k] + 1,
           \A j \in Slots : j # k => y[j] = x[j]
    PROVE  RcInv(y)'
<1>1. /\ map' \in MapSet
      /\ map'.ref_count = [map.ref_count EXCEPT ![k] = @ + 1]
      /\ map'.data = map.data
  BY RetainDoes DEF RcInv, MapType
<1>2. MapType'
  BY <1>1 DEF RcInv, MapType, MapSet, TypeOK
<1>3. /\ map'.ref_count[k] = map.ref_count[k] + 1
      /\ \A j \in Slots : j # k => map'.ref_count[j] = map.ref_count[j]
  BY <1>1 DEF RcInv, MapType, TypeOK
<1>4. map.data[k] # NULL
  BY DEF RcInv, Counted
<1>5. \A i \in Slots, d \in Items : held'[<<i, d>>] > 0 => map'.data[i] = d
  BY <1>1 DEF RcInv, Counted
<1>6. ASSUME NEW j \in Slots
      PROVE  /\ map'.data[j] # NULL => /\ map'.ref_count[j] = held'[<<j, map'.data[j]>>] + y[j]
                                      /\ map'.ref_count[j] > 0
             /\ map'.data[j] = NULL => map'.ref_count[j] = 0 /\ y[j] = 0
  <2>1. CASE j = k
    <3>1. map.ref_count[k] \in Nat /\ held[<<k, map.data[k]>>] \in Nat /\ x[k] \in Nat
      BY <1>4 DEF RcInv, MapType, TypeOK
    <3>2. map.ref_count[k] = held[<<k, map.data[k]>>] + x[k]
      BY <1>4 DEF RcInv, Counted
    <3> QED BY <1>1, <1>3, <1>4, <2>1, <3>1, <3>2
  <2>2. CASE j # k
    BY <1>1, <1>3, <2>2 DEF RcInv, Counted
  <2> QED BY <2>1, <2>2
<1>7. Counted(y)'
  BY <1>5, <1>6 DEF Counted
<1>8. Placed'
  BY <1>1 DEF RcInv, Placed
<1> QED BY <1>2, <1>7, <1>8 DEF RcInv

\* One entry of the ring moves from slot o to slot k.
LEMMA RingMoves ==
    ASSUME NEW x \in [Slots -> Nat], RcInv(x),
           NEW k \in Slots, NEW o \in Slots, o # k,
           map.ref_count[k] # 0, x[o] > 0,
           map' = retain(release_index(map, o), k), Clean(ReleaseCleans(map, o)),
           UNCHANGED <<held, given, open>>,
           NEW y \in [Slots -> Nat], y[k] = x[k] + 1, y[o] = x[o] - 1,
           \A j \in Slots : j # k /\ j # o => y[j] = x[j]
    PROVE  RcInv(y)'
<1> DEFINE m == release_index(map, o)
<1>0. /\ map \in MapSet /\ held \in [Slots \X Items -> Nat] /\ cleaned \in [Items -> Nat]
      /\ \A j \in Slots : map.ref_count[j] \in Nat /\ map.data[j] \in Items \cup {NULL}
  BY DEF RcInv, MapType, TypeOK
<1>1. /\ map.data[o] \in Items
      /\ map.ref_count[o] = held[<<o, map.data[o]>>] + x[o] /\ map.ref_count[o] > 0
      /\ held[<<o, map.data[o]>>] \in Nat
  <2>1. map.data[o] # NULL
    BY DEF RcInv, Counted
  <2> QED BY <1>0, <2>1 DEF RcInv, Counted
<1>2. /\ m \in MapSet
      /\ m.ref_count = [map.ref_count EXCEPT ![o] = @ - 1]
      /\ m.data = IF map.ref_count[o] = 1 THEN [map.data EXCEPT ![o] = NULL] ELSE map.data
      /\ ReleaseCleans(map, o) = IF map.ref_count[o] = 1 THEN {map.data[o]} ELSE {}
  BY <1>0, <1>1, ReleaseDoes
<1> HIDE DEF m
<1>3. m.ref_count[k] # 0
  BY <1>0, <1>2
<1>4. /\ map' \in MapSet
      /\ map'.ref_count = [m.ref_count EXCEPT ![k] = @ + 1]
      /\ map'.data = m.data
  BY <1>2, <1>3, RetainDoes DEF m
<1>5. /\ map'.ref_count[k] = map.ref_count[k] + 1
      /\ map'.ref_count[o] = map.ref_count[o] - 1
      /\ \A j \in Slots : j # k /\ j # o => map'.ref_count[j] = map.ref_count[j]
  BY <1>0, <1>2, <1>4 DEF MapSet
<1>6. /\ map'.data[o] = IF map.ref_count[o] = 1 THEN NULL ELSE map.data[o]
      /\ \A j \in Slots : j # o => map'.data[j] = map.data[j]
  BY <1>0, <1>2, <1>4 DEF MapSet
<1>7. \A e \in Items : cleaned'[e] =
          IF map.ref_count[o] = 1 /\ e = map.data[o] THEN cleaned[e] + 1 ELSE cleaned[e]
  BY <1>2 DEF Clean
<1>8. cleaned' \in [Items -> Nat]
  BY <1>0 DEF Clean
<1>9. MapType'
  BY <1>4, <1>8 DEF RcInv, MapType, MapSet, TypeOK
<1>10. map.ref_count[o] = 1 => y[o] = 0 /\ held[<<o, map.data[o]>>] = 0
  BY <1>1
<1>11. ASSUME NEW i \in Slots, NEW d \in Items, held'[<<i, d>>] > 0 PROVE map'.data[i] = d
  <2>1. map.data[i] = d /\ held[<<i, d>>] > 0
    BY <1>11 DEF RcInv, Counted
  <2>2. ~(i = o /\ map.ref_count[o] = 1)
    BY <1>10, <2>1
  <2> QED BY <1>6, <2>1, <2>2
<1>12. ASSUME NEW j \in Slots
      PROVE  /\ map'.data[j] # NULL => /\ map'.ref_count[j] = held'[<<j, map'.data[j]>>] + y[j]
                                      /\ map'.ref_count[j] > 0
             /\ map'.data[j] = NULL => map'.ref_count[j] = 0 /\ y[j] = 0
  <2>1. CASE j = k
    <3>1. map.data[k] \in Items /\ map.ref_count[k] = held[<<k, map.data[k]>>] + x[k]
      BY <1>0 DEF RcInv, Counted
    <3>2. held[<<k, map.data[k]>>] \in Nat /\ x[k] \in Nat
      BY <1>0, <3>1
    <3> QED BY <1>0, <1>5, <1>6, <2>1, <3>1, <3>2, NullIsNoItem
  <2>2. CASE j = o /\ map.ref_count[o] = 1
    BY <1>5, <1>6, <1>10, <2>2
  <2>3. CASE j = o /\ map.ref_count[o] # 1
    <3>1. x[o] \in Nat /\ map.ref_count[o] \in Nat
      BY <1>0
    <3> QED BY <1>1, <1>5, <1>6, <2>3, <3>1, NullIsNoItem
  <2>4. CASE j # k /\ j # o
    BY <1>5, <1>6, <2>4 DEF RcInv, Counted
  <2> QED BY <2>1, <2>2, <2>3, <2>4
<1>13. Counted(y)'
  BY <1>11, <1>12 DEF Counted
<1>14. Placed'
  <2>1. \A i, j \in Slots : map'.data[i] # NULL /\ map'.data[i] = map'.data[j] => i = j
    BY <1>6 DEF RcInv, Placed
  <2>2. \A i \in Slots : map'.data[i] # NULL => map'.data[i] \in given'
    BY <1>6 DEF RcInv, Placed
  <2>3. ASSUME NEW e \in Items
        PROVE  cleaned'[e] = IF e \in given' /\ (\A i \in Slots : map'.data[i] # e) THEN 1 ELSE 0
    <3>1. CASE map.ref_count[o] = 1 /\ e = map.data[o]
      <4>1. e \in given /\ cleaned[e] = 0 /\ \A i \in Slots : i # o => map.data[i] # e
        BY <1>1, <3>1, NullIsNoItem DEF RcInv, Placed
      <4> QED BY <1>6, <1>7, <3>1, <4>1, NullIsNoItem
    <3>2. CASE ~(map.ref_count[o] = 1 /\ e = map.data[o])
      <4>1. \A i \in Slots : map'.data[i] = e <=> map.data[i] = e
        BY <1>6, <3>2, NullIsNoItem
      <4> QED BY <1>7, <3>2, <4>1 DEF RcInv, Placed
    <3> QED BY <3>1, <3>2
  <2> QED BY <2>1, <2>2, <2>3 DEF Placed
<1> QED BY <1>9, <1>13, <1>14 DEF RcInv

\* Overwriting the oldest entry by a key that it does not hold.
LEMMA EntriesMove ==
    ASSUME RingInv, size > 0, NEW k \in Slots, items[Oldest] # k,
           items' = [items EXCEPT ![Oldest] = k]
    PROVE  \A j \in Slots : j # EMPTY_MARKER =>
              Cardinality(Entries(j)') =
                  IF j = k THEN Cardinality(Entries(j)) + 1
                  ELSE IF j = items[Oldest] THEN Cardinality(Entries(j)) - 1
                  ELSE Cardinality(Entries(j))
<1>1. /\ Oldest \in 0 .. size - 1 /\ items \in [0 .. size - 1 -> Keys]
      /\ \A i \in 0 .. size - 1 : items'[i] = IF i = Oldest THEN k ELSE items[i]
      /\ DOMAIN items = 0 .. size - 1 /\ DOMAIN items' = 0 .. size - 1
  BY OldestInRing DEF RingInv
<1> DEFINE p == Oldest
<1> HIDE DEF p
<1> SUFFICES ASSUME NEW j \in Slots, j # EMPTY_MARKER
             PROVE  Cardinality(Entries(j)') =
                        IF j = k THEN Cardinality(Entries(j)) + 1
                        ELSE IF j = items[p] THEN Cardinality(Entries(j)) - 1
                        ELSE Cardinality(Entries(j))
  BY DEF p
<1>2. IsFiniteSet(Entries(j))
  BY EntriesFinite
<1>3. CASE j = k
  <2>1. Entries(j)' = Entries(j) \cup {p} /\ p \notin Entries(j)
    BY <1>1, <1>3 DEF Entries, p
  <2> QED BY <1>2, <1>3, <2>1, FS_AddElement
<1>4. CASE j # k /\ j = items[p]
  <2>1. Entries(j)' = Entries(j) \ {p} /\ p \in Entries(j)
    BY <1>1, <1>4 DEF Entries, p
  <2> QED BY <1>2, <1>4, <2>1, FS_RemoveElement
<1>5. CASE j # k /\ j # items[p]
  <2>1. Entries(j)' = Entries(j)
    BY <1>1, <1>5 DEF Entries, p
  <2> QED BY <1>5, <2>1
<1> QED BY <1>3, <1>4, <1>5

\* Touching a key that the backend has keeps the invariant.
LEMMA TouchKeeps ==
    ASSUME LruInv, NEW k \in Slots, map.ref_count[k] # 0, Touch(k)
    PROVE  LruInv'
<1>1. PICK x \in [Slots -> Nat] : RcInv(x) /\ RingCounted(x)
  BY DEF LruInv
<1>2. RingInv /\ k \in Keys
  BY DEF LruInv, Keys
<1>3. CASE AlreadyThere(k)
  <2>1. UNCHANGED <<rcVars, size, items, ring_index, caching>> /\ recent' = k
    BY <1>3 DEF Touch, rcVars
  <2>2. RcInv(x)'
    BY <1>1, <2>1, RcStep DEF rcVars
  <2>3. RingCounted(x)'
    BY <1>1, <2>1 DEF RingCounted, Entries
  <2>4. size > 0 => \E i \in DOMAIN items : items[i] = k
    BY <1>2, <1>3, OldestInRing DEF AlreadyThere, RingInv
  <2>5. RingInv'
    BY <1>2, <2>1, <2>4 DEF RingInv
  <2> QED BY <2>2, <2>3, <2>5 DEF LruInv
<1>4. CASE ~AlreadyThere(k)
  <2>1. /\ size > 0 /\ items[Oldest] # k
        /\ items' = [items EXCEPT ![Oldest] = k]
        /\ ring_index' = Oldest /\ recent' = k
        /\ UNCHANGED <<held, given, open, size, caching>>
    BY <1>2, <1>4 DEF Touch, AlreadyThere, RingInv
  <2>2. Oldest \in 0 .. size - 1 /\ size \in Nat
    BY <1>2, <2>1, OldestInRing DEF RingInv
  <2>3. RingInv'
    <3> DEFINE p == Oldest
    <3>1. p \in 0 .. size - 1 /\ ring_index' = p /\ items' = [items EXCEPT ![p] = k]
      BY <2>1, <2>2
    <3> HIDE DEF p
    <3>2. items' \in [0 .. size - 1 -> Keys] /\ items'[p] = k
      BY <1>2, <3>1 DEF RingInv
    <3> QED BY <1>2, <2>1, <2>2, <3>1, <3>2 DEF RingInv
  <2>4. \A j \in Slots : j # EMPTY_MARKER =>
              Cardinality(Entries(j)') =
                  IF j = k THEN Cardinality(Entries(j)) + 1
                  ELSE IF j = items[Oldest] THEN Cardinality(Entries(j)) - 1
                  ELSE Cardinality(Entries(j))
    BY <1>2, <2>1, EntriesMove
  <2>5. CASE OldKey = EMPTY_MARKER
    <3> DEFINE z == [x EXCEPT ![k] = @ + 1]
    <3>0. z \in [Slots -> Nat]
      OBVIOUS
    <3>1. PICK y \in [Slots -> Nat] : y = z
      BY <3>0
    <3>2. y[k] = x[k] + 1 /\ \A j \in Slots : j # k => y[j] = x[j]
      BY <3>1
    <3>3. map' = retain(map, k) /\ UNCHANGED cleaned
      BY <1>4, <2>5 DEF Touch
    <3>4. RcInv(y)'
      BY <1>1, <2>1, <3>2, <3>3, RingRetains
    <3>5. RingCounted(y)'
      BY <1>1, <2>4, <2>5, <3>2 DEF RingCounted, OldKey
    <3> QED BY <2>3, <3>4, <3>5 DEF LruInv
  <2>6. CASE OldKey # EMPTY_MARKER
    <3>1. PICK o : o = OldKey
      OBVIOUS
    <3>2. o \in Slots /\ o # k /\ o # EMPTY_MARKER
      BY <1>2, <2>1, <2>2, <2>6, <3>1 DEF OldKey, RingInv, Keys
    <3>3. x[o] > 0
      <4>1. Oldest \in Entries(o)
        BY <1>2, <2>2, <3>1, <3>2 DEF Entries, OldKey, RingInv
      <4> QED BY <1>1, <1>2, <3>2, <4>1, EntriesFinite DEF RingCounted
    <3> DEFINE z == [j \in Slots |-> IF j = k THEN x[j] + 1 ELSE IF j = o THEN x[j] - 1 ELSE x[j]]
    <3>4. z \in [Slots -> Nat]
      BY <3>2, <3>3
    <3>5. PICK y \in [Slots -> Nat] : y = z
      BY <3>4
    <3>6. y[k] = x[k] + 1 /\ y[o] = x[o] - 1 /\ \A j \in Slots : j # k /\ j # o => y[j] = x[j]
      BY <3>2, <3>5
    <3>7. map' = retain(release_index(map, o), k) /\ Clean(ReleaseCleans(map, o))
      BY <1>4, <2>6, <3>1 DEF Touch
    <3>8. RcInv(y)'
      BY <1>1, <2>1, <3>2, <3>3, <3>6, <3>7, RingMoves
    <3>9. RingCounted(y)'
      BY <1>1, <2>4, <3>1, <3>2, <3>6 DEF RingCounted, OldKey
    <3> QED BY <2>3, <3>8, <3>9 DEF LruInv
  <2> QED BY <2>5, <2>6
<1> QED BY <1>3, <1>4

\* cx_lru_cleanup gives back the references of the ring and no others.
LEMMA LruCleanupKeeps ==
    ASSUME LruInv, cx_lru_cleanup
    PROVE  LruInv'
<1>1. PICK x \in [Slots -> Nat] : RcInv(x) /\ RingCounted(x)
  BY DEF LruInv
<1>2. RingInv
  BY DEF LruInv
<1> DEFINE left == [k \in Slots |-> map.ref_count[k] - Cardinality(Entries(k))]
           emptied == {k \in Slots : map.ref_count[k] > 0 /\ left[k] <= 0}
           data == [k \in Slots |-> IF k \in emptied THEN NULL ELSE map.data[k]]
<1>3. PICK y \in [Slots -> Nat] : y = [k \in Slots |-> IF k = EMPTY_MARKER THEN x[k] ELSE 0]
  OBVIOUS
<1>4. /\ map' = [ref_count |-> left, data |-> data]
      /\ Clean({map.data[k] : k \in emptied})
      /\ size' = 0 /\ items' = [i \in {} |-> EMPTY_MARKER] /\ caching' = FALSE
      /\ UNCHANGED <<held, given, open, ring_index, recent>>
  BY DEF cx_lru_cleanup
<1>5. /\ map \in MapSet /\ held \in [Slots \X Items -> Nat] /\ cleaned \in [Items -> Nat]
      /\ \A j \in Slots : map.ref_count[j] \in Nat /\ map.data[j] \in Items \cup {NULL}
  BY <1>1 DEF RcInv, MapType, TypeOK
<1>6. ASSUME NEW j \in Slots
      PROVE  /\ map.data[j] # NULL => left[j] = held[<<j, map.data[j]>>] + y[j]
             /\ map.data[j] = NULL => left[j] = 0 /\ y[j] = 0
  <2>1. CASE j = EMPTY_MARKER
    <3>1. left[j] = map.ref_count[j] /\ y[j] = x[j]
      BY <1>2, <1>3, <1>5, <2>1, EntriesFinite
    <3> HIDE DEF left
    <3> QED BY <1>1, <3>1 DEF RcInv, Counted
  <2>2. CASE j # EMPTY_MARKER
    <3>1. left[j] = map.ref_count[j] - x[j] /\ y[j] = 0
      BY <1>1, <1>3, <2>2 DEF RingCounted
    <3> HIDE DEF left
    <3>2. CASE map.data[j] = NULL
      BY <1>1, <3>1, <3>2 DEF RcInv, Counted
    <3>3. CASE map.data[j] # NULL
      <4>1. held[<<j, map.data[j]>>] \in Nat /\ x[j] \in Nat
        BY <1>5, <3>3
      <4>2. map.ref_count[j] = held[<<j, map.data[j]>>] + x[j]
        BY <1>1, <3>3 DEF RcInv, Counted
      <4> QED BY <3>1, <3>3, <4>1, <4>2
    <3> QED BY <3>2, <3>3
  <2> QED BY <2>1, <2>2
<1>7. \A j \in Slots : map'.ref_count[j] = left[j]
  BY <1>4
<1> HIDE DEF left
<1>8. left \in [Slots -> Nat]
  <2>1. ASSUME NEW j \in Slots PROVE left[j] \in Nat
    <3>1. CASE map.data[j] = NULL
      BY <1>6, <3>1
    <3>2. CASE map.data[j] # NULL
      <4>1. held[<<j, map.data[j]>>] \in Nat
        BY <1>5, <3>2
      <4> QED BY <1>6, <3>2, <4>1
    <3> QED BY <3>1, <3>2
  <2> QED BY <2>1 DEF left
<1>9. \A j \in Slots : j \in emptied <=> map.data[j] # NULL /\ left[j] = 0
  <2>1. \A j \in Slots : map.ref_count[j] > 0 <=> map.data[j] # NULL
    <3>1. \A j \in Slots : /\ map.data[j] # NULL => map.ref_count[j] > 0
                           /\ map.data[j] = NULL => map.ref_count[j] = 0
      BY <1>1 DEF RcInv, Counted
    <3> QED BY <3>1
  <2> QED BY <1>8, <2>1
<1> HIDE DEF emptied
<1>10. \A j \in Slots : map'.data[j] = IF j \in emptied THEN NULL ELSE map.data[j]
  BY <1>4
<1>11. map' \in MapSet
  BY <1>4, <1>5, <1>8 DEF MapSet
<1>12. cleaned' \in [Items -> Nat]
  BY <1>4, <1>5 DEF Clean
<1>13. MapType'
  BY <1>1, <1>4, <1>11, <1>12 DEF RcInv, MapType, MapSet, TypeOK
<1>14. Counted(y)'
  <2>1. ASSUME NEW i \in Slots, NEW d \in Items, held'[<<i, d>>] > 0 PROVE map'.data[i] = d
    <3>1. map.data[i] = d /\ held[<<i, d>>] > 0 /\ held[<<i, d>>] \in Nat /\ d # NULL
      BY <1>1, <1>4, <1>5, <2>1, NullIsNoItem DEF RcInv, Counted
    <3>2. left[i] # 0
      BY <1>6, <3>1
    <3> QED BY <1>9, <1>10, <3>1, <3>2
  <2>2. ASSUME NEW j \in Slots
        PROVE  /\ map'.data[j] # NULL => /\ map'.ref_count[j] = held'[<<j, map'.data[j]>>] + y[j]
                                        /\ map'.ref_count[j] > 0
               /\ map'.data[j] = NULL => map'.ref_count[j] = 0 /\ y[j] = 0
    <3>1. CASE j \in emptied
      <4>1. map'.data[j] = NULL /\ map'.ref_count[j] = 0 /\ map.data[j] \in Items
        BY <1>5, <1>7, <1>9, <1>10, <3>1
      <4>2. held[<<j, map.data[j]>>] + y[j] = 0 /\ held[<<j, map.data[j]>>] \in Nat /\ y[j] \in Nat
        BY <1>5, <1>6, <1>9, <3>1, <4>1
      <4> QED BY <4>1, <4>2
    <3>2. CASE j \notin emptied
      <4>1. left[j] \in Nat /\ (map.data[j] # NULL => left[j] # 0)
        BY <1>8, <1>9, <3>2
      <4> QED BY <1>4, <1>6, <1>7, <1>10, <3>2, <4>1
    <3> QED BY <3>1, <3>2
  <2> QED BY <2>1, <2>2 DEF Counted
<1>15. Placed'
  <2>1. \A i, j \in Slots : map'.data[i] # NULL /\ map'.data[i] = map'.data[j] => i = j
    BY <1>1, <1>10 DEF RcInv, Placed
  <2>2. \A i \in Slots : map'.data[i] # NULL => map'.data[i] \in given'
    BY <1>1, <1>4, <1>10 DEF RcInv, Placed
  <2>3. ASSUME NEW e \in Items
        PROVE  cleaned'[e] = IF e \in given' /\ (\A i \in Slots : map'.data[i] # e) THEN 1 ELSE 0
    <3>0. cleaned'[e] = IF \E i \in emptied : map.data[i] = e THEN cleaned[e] + 1 ELSE cleaned[e]
      BY <1>4 DEF Clean
    <3>s. emptied \subseteq Slots
      BY DEF emptied
    <3>1. CASE \E i \in emptied : map.data[i] = e
      <4>1. PICK o \in emptied : map.data[o] = e
        BY <3>1
      <4>2. e \in given /\ cleaned[e] = 0 /\ \A i \in Slots : i # o => map.data[i] # e
        BY <1>1, <3>s, <4>1, NullIsNoItem DEF RcInv, Placed
      <4> QED BY <1>4, <1>10, <3>0, <3>1, <3>s, <4>1, <4>2, NullIsNoItem
    <3>2. CASE \A i \in emptied : map.data[i] # e
      <4>1. \A i \in Slots : map'.data[i] = e <=> map.data[i] = e
        BY <1>10, <3>2, NullIsNoItem
      <4> QED BY <1>1, <1>4, <3>0, <3>2, <4>1 DEF RcInv, Placed
    <3> QED BY <3>1, <3>2
  <2> QED BY <2>1, <2>2, <2>3 DEF Placed
<1>16. RcInv(y)'
  BY <1>13, <1>14, <1>15 DEF RcInv
<1>17. RingCounted(y)'
  <2>1. \A j \in Slots : Entries(j)' = {}
    BY <1>4 DEF Entries
  <2> QED BY <1>3, <2>1, FS_EmptySet DEF RingCounted
<1>18. RingInv'
  <2>1. 0 .. size' - 1 = {} /\ ~(size' > 0)
    BY <1>4
  <2>2. items' \in [0 .. size' - 1 -> Keys]
    BY <1>4, <2>1
  <2> QED BY <1>2, <1>4, <2>1, <2>2 DEF RingInv
<1> QED BY <1>16, <1>17, <1>18 DEF LruInv

\* Every step of the cache and of the backend's clients keeps the invariant.
LEMMA LruStep == LruInv /\ [LruNext]_vars => LruInv'
<1> SUFFICES ASSUME LruInv, [LruNext]_vars PROVE LruInv'
  OBVIOUS
<1>1. ASSUME NEW k \in Slots, cx_lru_touch(k) PROVE LruInv'
  BY <1>1, TouchKeeps DEF cx_lru_touch, is_empty
<1>2. ASSUME NEW k \in Slots, NEW d \in Items, cx_lru_touch_value(k, d) PROVE LruInv'
  <2>1. PICK x \in [Slots -> Nat] : RcInv(x)
    BY DEF LruInv
  <2>2. held[<<k, d>>] > 0
    BY <1>2 DEF cx_lru_touch_value
  <2>3. map.data[k] # NULL /\ map.ref_count[k] > 0
    BY <2>1, <2>2, NullIsNoItem DEF RcInv, Counted
  <2> QED BY <1>2, <2>3, TouchKeeps DEF cx_lru_touch_value
<1>3. CASE cx_lru_cleanup
  BY <1>3, LruCleanupKeeps
<1>4. ASSUME [RcNext \/ Finished]_rcVars, UNCHANGED lruVars PROVE LruInv'
  <2>1. PICK x \in [Slots -> Nat] : RcInv(x) /\ RingCounted(x)
    BY DEF LruInv
  <2>2. RcInv(x)'
    BY <1>4, <2>1, RcStep
  <2>3. RingCounted(x)' /\ RingInv'
    BY <1>4, <2>1 DEF RingCounted, Entries, LruInv, RingInv, lruVars
  <2> QED BY <2>2, <2>3 DEF LruInv
<1>5. CASE Backend
  BY <1>4, <1>5 DEF Backend
<1>6. CASE LruFinished \/ UNCHANGED vars
  BY <1>4, <1>6 DEF LruFinished, vars
<1> QED BY <1>1, <1>2, <1>3, <1>5, <1>6 DEF LruNext

\* LruInv holds in every state of the cache and its backend.
LEMMA LruInvariant == LruSpec => []LruInv
  BY LruInitInv, LruStep, PTL DEF LruSpec

\* The cache never lets a client's reference go bad: not when an entry is
\* overwritten, and not when cx_lru_cleanup releases all of them.
THEOREM LruReferencesStayGood == LruSpec => []ReferencesStayGood
<1>1. LruInv => ReferencesStayGood
  BY NullIsNoItem DEF LruInv, RcInv, Counted, Placed, ReferencesStayGood
<1> QED BY <1>1, LruInvariant, PTL

\* The references of the ring leak no item and clean up none twice.
THEOREM LruCleanedOnce == LruSpec => []CleanedOnce
<1>1. LruInv => CleanedOnce
  <2> SUFFICES ASSUME LruInv PROVE CleanedOnce
    OBVIOUS
  <2>1. PICK x \in [Slots -> Nat] : RcInv(x)
    BY DEF LruInv
  <2> QED BY <2>1, PlacedOnce
<1> QED BY <1>1, LruInvariant, PTL

\* Every count is the number of the clients' references and the entries of the
\* ring, for every size of the cache; only the slot that equals the marker of a
\* free entry may be counted too high.
THEOREM LruCountedHolds == LruSpec => []LruCounted
<1>1. LruInv => LruCounted
  <2> SUFFICES ASSUME LruInv, NEW k \in Slots
               PROVE  LET references == HeldIn(k) + Cardinality(Entries(k))
                      IN  IF k = EMPTY_MARKER THEN map.ref_count[k] >= references
                          ELSE map.ref_count[k] = references
    BY DEF LruCounted
  <2>1. PICK x \in [Slots -> Nat] : RcInv(x) /\ RingCounted(x)
    BY DEF LruInv
  <2>2. RingInv
    BY DEF LruInv
  <2>3. /\ held \in [Slots \X Items -> Nat] /\ map.ref_count[k] \in Nat
        /\ map.data[k] \in Items \cup {NULL} /\ x[k] \in Nat
    BY <2>1 DEF RcInv, MapType, TypeOK
  <2>4. \A e \in Items : e # map.data[k] => held[<<k, e>>] = 0
    <3>1. \A e \in Items : held[<<k, e>>] \in Nat /\ (held[<<k, e>>] > 0 => map.data[k] = e)
      BY <2>1, <2>3 DEF RcInv, Counted
    <3> QED BY <3>1
  <2>5. HeldIn(k) = IF map.data[k] \in Items THEN held[<<k, map.data[k]>>] ELSE 0
    BY <2>3, <2>4, HeldIsOne
  <2>6. map.ref_count[k] = HeldIn(k) + x[k] /\ HeldIn(k) \in Nat
    <3>1. CASE map.data[k] = NULL
      BY <2>1, <2>5, <3>1, NullIsNoItem DEF RcInv, Counted
    <3>2. CASE map.data[k] # NULL
      <4>1. map.data[k] \in Items /\ held[<<k, map.data[k]>>] \in Nat
        BY <2>3, <3>2
      <4> QED BY <2>1, <2>5, <3>2, <4>1 DEF RcInv, Counted
    <3> QED BY <3>1, <3>2
  <2>7. CASE k = EMPTY_MARKER
    <3>1. Cardinality(Entries(k)) = 0
      BY <2>2, <2>7, EntriesFinite
    <3> QED BY <2>3, <2>6, <2>7, <3>1
  <2>8. CASE k # EMPTY_MARKER
    BY <2>1, <2>6, <2>8 DEF RingCounted
  <2> QED BY <2>7, <2>8
<1> QED BY <1>1, LruInvariant, PTL

\* The item touched last is in the ring and keeps its count above zero, however
\* many clients release it.
THEOREM LastTouchedStaysHolds == LruSpec => []LastTouchedStays
<1>1. LruInv => LastTouchedStays
  <2> SUFFICES ASSUME LruInv, caching, size > 0, recent # EMPTY_MARKER
               PROVE  /\ \E i \in DOMAIN items : items[i] = recent
                      /\ ~is_empty(map, recent)
    BY DEF LastTouchedStays
  <2>1. PICK i \in DOMAIN items : items[i] = recent
    BY DEF LruInv, RingInv
  <2>2. recent \in Slots
    BY DEF LruInv, RingInv, Keys
  <2>3. PICK x \in [Slots -> Nat] : RcInv(x) /\ RingCounted(x)
    BY DEF LruInv
  <2>4. x[recent] > 0
    <3>1. i \in Entries(recent)
      BY <2>1 DEF Entries
    <3> QED BY <2>2, <2>3, <3>1, EntriesFinite DEF LruInv, RingCounted
  <2>5. map.data[recent] # NULL /\ map.ref_count[recent] > 0
    <3>1. x[recent] # 0
      BY <2>4
    <3> QED BY <2>2, <2>3, <3>1 DEF RcInv, Counted
  <2> QED BY <2>1, <2>5 DEF is_empty
<1> QED BY <1>1, LruInvariant, PTL
=============================================================================
