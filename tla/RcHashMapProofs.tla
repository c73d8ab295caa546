-------------------------- MODULE RcHashMapProofs ---------------------------
(***************************************************************************)
(* Proofs about RcHashMap, for any keys, hash function, table size, window *)
(* of collisions, number of tables, items and references: when clients     *)
(* release by key only keys that collide with no other key, references     *)
(* stay good and no item is leaked or cleaned up twice.                    *)
(*                                                                         *)
(* The parts of the invariant are predicates of the tables ts, the bag h   *)
(* of references and the numbers c of cleanups, so that a put that adds a  *)
(* table is an added table, and then a put.                                *)
(***************************************************************************)
EXTENDS RcHashMap, FiniteSetTheorems, WellFoundedInduction, TLAPS

\* The values of a CxRcMap and of a table.
MapSet   == [ref_count : [Indices -> Nat], data : [Indices -> Items \cup {NULL}]]
TableSet == [keys : [Indices -> Keys \cup {ZeroKey}], values : MapSet]

Key(ts, j, i)   == ts[j].keys[i]
Count(ts, j, i) == ts[j].values.ref_count[i]

\* References that clients hold.
BagOK(h) ==
    /\ DOMAIN h \subseteq Reference
    /\ h \in [DOMAIN h -> Nat \ {0}]

HashType ==
    /\ tables \in Seq(TableSet)
    /\ Len(tables) \in 1 .. MaxTables
    /\ BagOK(held)
    /\ cleaned \in [Items -> Nat]
    /\ given \subseteq Items
    /\ state \in {"open", "broken", "closed"}

\* The count of a slot is the number of references to its key and its item,
\* and nobody has a reference to anything else.
Counted(ts, h) ==
    /\ \A r \in DOMAIN h :
          /\ r[1] \in 1 .. Len(ts)
          /\ Key(ts, r[1], r[2]) = r[3]
          /\ Seen(ts, r[1], r[2]) = r[4]
    /\ \A j \in 1 .. Len(ts), i \in Indices :
          Seen(ts, j, i) = NULL => Count(ts, j, i) = 0
    /\ \A j \in 1 .. Len(ts), i \in Indices :
          Seen(ts, j, i) # NULL =>
              /\ <<j, i, Key(ts, j, i), Seen(ts, j, i)>> \in DOMAIN h
              /\ Count(ts, j, i) = h[<<j, i, Key(ts, j, i), Seen(ts, j, i)>>]

\* No item is in two slots, and one that is in a slot was given to the map and
\* not cleaned up.
Placed(ts, c, g) ==
    /\ \A j, l \in 1 .. Len(ts), i, m \in Indices :
          Seen(ts, j, i) # NULL /\ Seen(ts, j, i) = Seen(ts, l, m) => j = l /\ i = m
    /\ \A j \in 1 .. Len(ts), i \in Indices :
          Seen(ts, j, i) # NULL => Seen(ts, j, i) \in g /\ c[Seen(ts, j, i)] = 0
    /\ \A d \in Items : d \notin g => c[d] = 0

\* An item that was given to the map and is in no slot was cleaned up once.
\* The item of the put that broke the map is still its caller's.
Gone(ts, c, g) ==
    \A d \in g : (\A j \in 1 .. Len(ts), i \in Indices : Seen(ts, j, i) # d) => c[d] = 1

\* Index i is one of those that put and retain look at for key k.
Near(i, k) == \E m \in 0 .. Min({Size, MAX_COLLISIONS}) - 1 : i = (Hash[k] + m) % Size

\* A key that collides with no other key is used in its first place only, and
\* no other key is used there; every key is used near its hash index only.
Homed(ts) ==
    /\ \A a \in Alone :
          /\ Key(ts, 1, Hash[a]) = a \/ Count(ts, 1, Hash[a]) = 0
          /\ \A j \in 1 .. Len(ts), i \in Indices :
                Key(ts, j, i) = a /\ Count(ts, j, i) > 0 => j = 1 /\ i = Hash[a]
    /\ \A j \in 1 .. Len(ts), i \in Indices :
          Count(ts, j, i) > 0 => Near(i, Key(ts, j, i))

HashInv ==
    /\ HashType
    /\ Counted(tables, held)
    /\ Placed(tables, cleaned, given)
    /\ state # "broken" => Gone(tables, cleaned, given)
    /\ Homed(tables)

-----------------------------------------------------------------------------
\* Constants.

\* A nonempty family of subsets of a finite set has a minimal member.
LEMMA MinimalSubset ==
    ASSUME NEW S, IsFiniteSet(S), NEW F \in SUBSET (SUBSET S), F # {}
    PROVE  \E T \in F : \A U \in F : ~(U \subseteq T /\ U # T)
<1>1. IsWellFoundedOn(StrictSubsetOrdering(S), FiniteSubsetsOf(S))
  BY FS_StrictSubsetOrderingWellFounded
<1>2. F \subseteq FiniteSubsetsOf(S)
  BY FS_Subset DEF FiniteSubsetsOf
<1>3. \E T \in F : \A U \in F : ~(<<U, T>> \in StrictSubsetOrdering(S))
  BY <1>1, <1>2, WFMin
<1>4. \A U, T \in F : U \subseteq T /\ U # T => <<U, T>> \in StrictSubsetOrdering(S)
  BY DEF StrictSubsetOrdering
<1> QED BY <1>3, <1>4

\* Every nonempty set of natural numbers has a least element, which is Min: the
\* end of the smallest interval 0 .. m that ends in the set.
LEMMA LeastIn ==
    ASSUME NEW S \in SUBSET Nat, S # {}
    PROVE  Min(S) \in S /\ \A y \in S : Min(S) <= y
<1>1. PICK n \in S : TRUE
  OBVIOUS
<1> DEFINE F == {0 .. m : m \in {l \in S : l <= n}}
<1>2. PICK T \in F : \A U \in F : ~(U \subseteq T /\ U # T)
  <2> DEFINE I == 0 .. n
  <2>1. IsFiniteSet(I)
    BY FS_Interval
  <2>2. F \in SUBSET (SUBSET I) /\ F # {}
    OBVIOUS
  <2> HIDE DEF F, I
  <2> QED BY <2>1, <2>2, MinimalSubset
<1>3. PICK m \in S : m <= n /\ T = 0 .. m
  BY <1>2
<1>4. ASSUME NEW y \in S PROVE m <= y
  <2>1. SUFFICES ASSUME y < m PROVE FALSE
    OBVIOUS
  <2>2. 0 .. y \in F
    BY <1>3, <2>1
  <2>3. 0 .. y \subseteq T /\ m \in T /\ m \notin 0 .. y
    BY <1>3, <2>1
  <2> QED BY <1>2, <2>2, <2>3
<1> QED BY <1>4 DEF Min

\* The window of a lookup: at least one index, and at most MAX_COLLISIONS.
LEMMA WindowSize ==
    /\ Min({Size, MAX_COLLISIONS}) \in Nat \ {0}
    /\ Min({Size, MAX_COLLISIONS}) <= MAX_COLLISIONS
  BY LeastIn, RcHashMapAssumption DEF RcHashMapAssumption

\* The probes of a key that collides with no other key meet no index that
\* another key probes.
LEMMA AloneApart ==
    ASSUME NEW a \in Alone, NEW k \in Keys, k # a, NEW n \in 0 .. MAX_COLLISIONS - 1
    PROVE  (Hash[k] + n) % Size # Hash[a]
<1>1. a \in Keys /\ Hash[a] \in Nat /\ Hash[a] < Size /\ Size \in Nat \ {0} /\ MAX_COLLISIONS \in Nat \ {0}
  BY RcHashMapAssumption DEF RcHashMapAssumption, Alone, Indices
<1>2. (Hash[a] + 0) % Size = Hash[a]
  BY <1>1
<1>3. 0 \in 0 .. MAX_COLLISIONS - 1
  BY <1>1
<1> DEFINE W(x) == {(Hash[x] + m) % Size : m \in 0 .. MAX_COLLISIONS - 1}
<1>4. W(k) \cap W(a) = {}
  BY DEF Alone
<1>5. Hash[a] \in W(a) /\ (Hash[k] + n) % Size \in W(k)
  BY <1>2, <1>3
<1> QED BY <1>4, <1>5

\* A place of a lookup is an index of a table, within the window.
LEMMA PlaceIs ==
    ASSUME HashType, NEW w \in Nat \ {0}, NEW n \in Places(w), NEW k \in Keys
    PROVE  /\ Table(n) \in 1 .. Len(tables)
           /\ Index(k, n) \in Indices
           /\ \E m \in 0 .. w - 1 : Index(k, n) = (Hash[k] + m) % Size
<1> DEFINE L == Len(tables)
           q == n \div L
<1>1. L \in Nat \ {0} /\ n \in Nat /\ n <= w * L - 1 /\ Hash[k] \in Nat /\ Size \in Nat \ {0}
  BY RcHashMapAssumption DEF RcHashMapAssumption, HashType, Places, Indices
<1> HIDE DEF L
<1>2. n % L \in 0 .. L - 1 /\ q \in Nat /\ L * q <= n
  BY <1>1
<1>3. q <= w - 1
  <2>1. SUFFICES ASSUME q >= w PROVE FALSE
    BY <1>1, <1>2
  <2> HIDE DEF q
  <2>2. L * q >= L * w
    BY <1>1, <1>2, <2>1
  <2>3. L * w = w * L
    BY <1>1
  <2> QED BY <1>1, <1>2, <2>2, <2>3
<1>4. (Hash[k] + q) % Size \in 0 .. Size - 1
  BY <1>1, <1>2
<1>5. q \in 0 .. w - 1
  BY <1>1, <1>2, <1>3
<1>6. Table(n) = (n % L) + 1 /\ Index(k, n) = (Hash[k] + q) % Size
  BY DEF Table, Index, L
<1>7. Table(n) \in 1 .. L
  BY <1>1, <1>2, <1>6
<1> HIDE DEF q
<1> QED BY <1>4, <1>5, <1>6, <1>7 DEF Indices, L

\* The first place of a key is its hash index in the first table.
LEMMA FirstPlace ==
    ASSUME HashType, NEW w \in Nat \ {0}, NEW k \in Keys
    PROVE  0 \in Places(w) /\ Table(0) = 1 /\ Index(k, 0) = Hash[k]
<1> DEFINE L == Len(tables)
<1>1. L \in Nat \ {0} /\ Hash[k] \in 0 .. Size - 1 /\ Size \in Nat \ {0}
  BY RcHashMapAssumption DEF RcHashMapAssumption, HashType, Indices
<1> HIDE DEF L
<1>2. 0 % L = 0 /\ 0 \div L = 0
  BY <1>1
<1>3. (Hash[k] + 0) % Size = Hash[k]
  BY <1>1
<1>4. w * L - 1 >= 0 /\ w * L \in Nat
  BY <1>1
<1> QED BY <1>2, <1>3, <1>4 DEF Places, Table, Index, L

\* Division and remainder are determined by the equation between them.
LEMMA DivisionIs ==
    ASSUME NEW m \in Nat, m > 0, NEW k \in Nat, NEW q \in Nat, NEW r \in 0 .. m - 1, k = m * q + r
    PROVE  k \div m = q /\ k % m = r
  OBVIOUS

\* A lookup meets every index within the window in every table.
LEMMA PlaceOf ==
    ASSUME HashType, NEW w \in Nat \ {0}, NEW k \in Keys,
           NEW j \in 1 .. Len(tables), NEW m \in 0 .. w - 1
    PROVE  \E n \in Places(w) : Table(n) = j /\ Index(k, n) = (Hash[k] + m) % Size
<1>1. PICK L \in Nat \ {0} : L = Len(tables)
  BY DEF HashType
<1>2. PICK r \in 0 .. L - 1 : j = r + 1
  <2>1. j - 1 \in 0 .. L - 1 /\ j = (j - 1) + 1
    BY <1>1
  <2> QED BY <2>1
<1>3. PICK p \in Nat : p = L * m
  BY <1>1
<1>4. PICK n \in Nat : n = p + r
  BY <1>1
<1>5. n \div L = m /\ n % L = r
  BY <1>3, <1>4, DivisionIs
<1>6. n <= w * L - 1
  <2>1. PICK e \in Nat : w = m + 1 + e
    <3>1. w - 1 - m \in Nat /\ w = m + 1 + (w - 1 - m)
      OBVIOUS
    <3> QED BY <3>1
  <2>2. PICK f \in Nat : f = L * e
    BY <1>1
  <2>3. w * L = p + L + f
    BY <1>1, <1>3, <2>1, <2>2
  <2> QED BY ONLY L \in Nat, r \in 0 .. L - 1, p \in Nat, f \in Nat, <1>4, <2>3
<1>7. n \in Places(w)
  BY <1>1, <1>6 DEF Places
<1>8. Table(n) = j /\ Index(k, n) = (Hash[k] + m) % Size
  BY <1>1, <1>2, <1>5 DEF Table, Index
<1> QED BY <1>7, <1>8

\* The hash index of a key is near.
LEMMA HashNear ==
    ASSUME NEW k \in Keys
    PROVE  Near(Hash[k], k)
<1>1. Hash[k] \in 0 .. Size - 1 /\ Size \in Nat \ {0}
  BY RcHashMapAssumption DEF RcHashMapAssumption, Indices
<1>2. 0 \in 0 .. Min({Size, MAX_COLLISIONS}) - 1
  BY WindowSize
<1>3. (Hash[k] + 0) % Size = Hash[k]
  BY <1>1
<1> QED BY <1>2, <1>3 DEF Near

-----------------------------------------------------------------------------
\* What the functions do to the slots and to the references.

\* The tables us are ts but for slot i of table j.
SameButAt(ts, us, j, i) ==
    /\ us \in Seq(TableSet)
    /\ Len(us) = Len(ts)
    /\ \A l \in 1 .. Len(ts), m \in Indices : l # j \/ m # i =>
          /\ Key(us, l, m) = Key(ts, l, m)
          /\ Count(us, l, m) = Count(ts, l, m)
          /\ Seen(us, l, m) = Seen(ts, l, m)

\* A client gets one more reference.
LEMMA OneMore ==
    ASSUME NEW h, BagOK(h), NEW r \in Reference
    PROVE  LET g == h (+) SetToBag({r})
           IN  /\ BagOK(g)
               /\ DOMAIN g = DOMAIN h \cup {r}
               /\ r \in DOMAIN h => g[r] = h[r] + 1
               /\ r \notin DOMAIN h => g[r] = 1
               /\ \A e \in DOMAIN h : e # r => g[e] = h[e]
<1> DEFINE g == h (+) SetToBag({r})
<1>1. DOMAIN SetToBag({r}) = {r} /\ SetToBag({r})[r] = 1
  BY DEF SetToBag
<1>2. DOMAIN g = DOMAIN h \cup {r}
  BY <1>1 DEF (+)
<1>3. \A e \in DOMAIN g : g[e] = (IF e \in DOMAIN h THEN h[e] ELSE 0) + (IF e \in {r} THEN SetToBag({r})[e] ELSE 0)
  BY <1>1 DEF (+)
<1>4. g = [e \in DOMAIN g |-> g[e]]
  BY DEF (+)
<1> HIDE DEF g
<1>5. \A e \in DOMAIN h : h[e] \in Nat \ {0}
  BY DEF BagOK
<1>6. \A e \in DOMAIN h : e # r => g[e] = h[e]
  BY <1>2, <1>3, <1>5
<1>7. r \in DOMAIN h => g[r] = h[r] + 1
  BY <1>1, <1>2, <1>3, <1>5
<1>8. r \notin DOMAIN h => g[r] = 1
  BY <1>1, <1>2, <1>3
<1>9. BagOK(g)
  <2>1. \A e \in DOMAIN g : g[e] \in Nat \ {0}
    BY <1>2, <1>5, <1>6, <1>7, <1>8
  <2> QED BY <1>2, <1>4, <2>1 DEF BagOK
<1> QED BY <1>2, <1>6, <1>7, <1>8, <1>9 DEF g

\* A client gives a reference up.
LEMMA OneLess ==
    ASSUME NEW h, BagOK(h), NEW r \in DOMAIN h
    PROVE  LET g == h (-) SetToBag({r})
           IN  /\ BagOK(g)
               /\ h[r] = 1 => DOMAIN g = DOMAIN h \ {r}
               /\ h[r] # 1 => DOMAIN g = DOMAIN h /\ g[r] = h[r] - 1
               /\ \A e \in DOMAIN h : e # r => g[e] = h[e]
<1> DEFINE b == [e \in DOMAIN h |-> IF e \in {r} THEN h[e] - SetToBag({r})[e] ELSE h[e]]
           g == h (-) SetToBag({r})
<1>1. DOMAIN SetToBag({r}) = {r} /\ SetToBag({r})[r] = 1
  BY DEF SetToBag
<1>2. g = [e \in {d \in DOMAIN b : b[d] > 0} |-> b[e]]
  BY <1>1 DEF (-)
<1> HIDE DEF g
<1>3. DOMAIN b = DOMAIN h /\ b[r] = h[r] - 1 /\ \A e \in DOMAIN h : e # r => b[e] = h[e]
  BY <1>1
<1> HIDE DEF b
<1>4. \A e \in DOMAIN h : h[e] \in Nat \ {0}
  BY DEF BagOK
<1>5. DOMAIN g = {d \in DOMAIN b : b[d] > 0} /\ \A e \in DOMAIN g : g[e] = b[e]
  BY <1>2
<1>6. \A e \in DOMAIN h : e # r => e \in DOMAIN g /\ g[e] = h[e]
  BY <1>3, <1>4, <1>5
<1>7. h[r] = 1 => r \notin DOMAIN g
  BY <1>3, <1>5
<1>8. h[r] # 1 => r \in DOMAIN g /\ g[r] = h[r] - 1
  BY <1>3, <1>4, <1>5
<1>9. DOMAIN g \subseteq DOMAIN h
  BY <1>3, <1>5
<1>10. BagOK(g)
  <2>1. \A e \in DOMAIN g : g[e] \in Nat \ {0}
    BY <1>4, <1>6, <1>7, <1>8, <1>9
  <2>2. g = [e \in DOMAIN g |-> g[e]]
    BY <1>2
  <2> QED BY <1>9, <2>1, <2>2 DEF BagOK
<1> QED BY <1>6, <1>7, <1>8, <1>9, <1>10 DEF g

\* The constructors of tables, and their parts.
LEMMA SlotTypes ==
    ASSUME NEW ts \in Seq(TableSet), NEW j \in 1 .. Len(ts), NEW i \in Indices
    PROVE  /\ ts[j] \in TableSet
           /\ ts[j].values \in MapSet
           /\ Key(ts, j, i) \in Keys \cup {ZeroKey}
           /\ Count(ts, j, i) \in Nat
           /\ Seen(ts, j, i) \in Items \cup {NULL}
<1>1. ts[j] \in TableSet
  OBVIOUS
<1> QED BY <1>1 DEF TableSet, MapSet, Key, Count, Seen

\* cx_rc_map_set counts a reference; only an empty slot gets the item.
LEMMA MapSets ==
    ASSUME NEW m \in MapSet, NEW i \in Indices, NEW d \in Items
    PROVE  /\ set(m, i, d) \in MapSet
           /\ set(m, i, d).ref_count = [m.ref_count EXCEPT ![i] = @ + 1]
           /\ set(m, i, d).data =
                 IF m.ref_count[i] = 0 THEN [m.data EXCEPT ![i] = d] ELSE m.data
<1> DEFINE n == IF m.ref_count[i] = 0 THEN [m EXCEPT !.data[i] = d] ELSE m
<1>1. /\ n \in MapSet
      /\ n.ref_count = m.ref_count
      /\ n.data = IF m.ref_count[i] = 0 THEN [m.data EXCEPT ![i] = d] ELSE m.data
  <2>1. CASE m.ref_count[i] = 0
    BY <2>1 DEF MapSet
  <2>2. CASE m.ref_count[i] # 0
    BY <2>2
  <2> QED BY <2>1, <2>2
<1>2. set(m, i, d) = [n EXCEPT !.ref_count[i] = @ + 1]
  BY DEF set, retain, retain_rc, is_empty
<1> HIDE DEF n
<1>3. /\ set(m, i, d) \in MapSet
      /\ set(m, i, d).ref_count = [n.ref_count EXCEPT ![i] = @ + 1]
      /\ set(m, i, d).data = n.data
  BY <1>1, <1>2 DEF MapSet
<1> QED BY <1>1, <1>3

\* cx_rc_map_retain counts a reference to a slot that is not empty.
LEMMA MapRetains ==
    ASSUME NEW m \in MapSet, NEW i \in Indices, m.ref_count[i] # 0
    PROVE  /\ retain(m, i) \in MapSet
           /\ retain(m, i).ref_count = [m.ref_count EXCEPT ![i] = @ + 1]
           /\ retain(m, i).data = m.data
  BY DEF MapSet, retain, retain_rc, is_empty

\* cx_rc_map_release_index uncounts a reference; the last one empties the slot.
LEMMA MapReleases ==
    ASSUME NEW m \in MapSet, NEW i \in Indices, m.ref_count[i] # 0
    PROVE  /\ release_index(m, i) \in MapSet
           /\ release_index(m, i).ref_count = [m.ref_count EXCEPT ![i] = @ - 1]
           /\ release_index(m, i).data =
                 IF m.ref_count[i] = 1 THEN [m.data EXCEPT ![i] = NULL] ELSE m.data
           /\ ReleaseCleans(m, i) = IF m.ref_count[i] = 1 THEN {m.data[i]} ELSE {}
<1>1. m.ref_count[i] \in Nat /\ m.ref_count[i] - 1 \in Nat
  BY DEF MapSet
<1> DEFINE r == release_rc(m, i)
<1>2. /\ r \in MapSet
      /\ r.ref_count = [m.ref_count EXCEPT ![i] = @ - 1]
      /\ r.data = m.data
  BY <1>1 DEF MapSet, release_rc
<1>3. is_empty(r, i) <=> m.ref_count[i] = 1
  BY <1>1, <1>2 DEF is_empty, MapSet
<1>4. release_index(m, i) = IF m.ref_count[i] = 1 THEN [r EXCEPT !.data[i] = NULL] ELSE r
  BY <1>3 DEF release_index
<1>5. ReleaseCleans(m, i) = IF m.ref_count[i] = 1 THEN {m.data[i]} ELSE {}
  BY <1>3 DEF ReleaseCleans
<1> QED BY <1>2, <1>4, <1>5 DEF MapSet

\* The tables after a put, a retain and a release at slot i of table j.
PutTables(ts, j, i, k, d) == [ts EXCEPT ![j].keys[i] = k, ![j].values = set(@, i, d)]
RetainTables(ts, j, i)    == [ts EXCEPT ![j].values = retain(@, i)]
ReleaseTables(ts, j, i)   == [ts EXCEPT ![j].values = release_index(@, i)]

\* A put into a slot writes its key; an empty slot gets the item, and the
\* count goes up by one.
LEMMA PutDoes ==
    ASSUME NEW ts \in Seq(TableSet), NEW j \in 1 .. Len(ts), NEW i \in Indices,
           NEW k \in Keys, NEW d \in Items
    PROVE  LET us == PutTables(ts, j, i, k, d)
           IN  /\ SameButAt(ts, us, j, i)
               /\ Key(us, j, i) = k
               /\ Count(us, j, i) = Count(ts, j, i) + 1
               /\ Seen(us, j, i) = IF Count(ts, j, i) = 0 THEN d ELSE Seen(ts, j, i)
<1> DEFINE m == ts[j].values
           n == set(m, i, d)
           t == [ts[j] EXCEPT !.keys[i] = k, !.values = n]
           us == [ts EXCEPT ![j] = t]
<1>1. ts[j] \in TableSet /\ m \in MapSet /\ m.ref_count[i] \in Nat
  BY SlotTypes DEF Count
<1>2. /\ n \in MapSet
      /\ n.ref_count = [m.ref_count EXCEPT ![i] = @ + 1]
      /\ n.data = IF m.ref_count[i] = 0 THEN [m.data EXCEPT ![i] = d] ELSE m.data
  BY <1>1, MapSets
<1> HIDE DEF n
<1>3. t \in TableSet /\ t.keys = [ts[j].keys EXCEPT ![i] = k] /\ t.values = n
  BY <1>1, <1>2 DEF TableSet
<1>4. PutTables(ts, j, i, k, d) = us
  BY DEF n, PutTables
<1> HIDE DEF t
<1>5. us \in Seq(TableSet) /\ Len(us) = Len(ts) /\ us[j] = t /\ \A l \in 1 .. Len(ts) : l # j => us[l] = ts[l]
  BY <1>3
<1> HIDE DEF us
<1>6. /\ Key(us, j, i) = k
      /\ Count(us, j, i) = Count(ts, j, i) + 1
      /\ Seen(us, j, i) = IF Count(ts, j, i) = 0 THEN d ELSE Seen(ts, j, i)
  BY <1>1, <1>2, <1>3, <1>5 DEF Key, Count, Seen, TableSet, MapSet
<1>7. ASSUME NEW x \in Indices, x # i
      PROVE  /\ Key(us, j, x) = Key(ts, j, x)
             /\ Count(us, j, x) = Count(ts, j, x)
             /\ Seen(us, j, x) = Seen(ts, j, x)
  BY <1>1, <1>2, <1>3, <1>5, <1>7 DEF Key, Count, Seen, TableSet, MapSet
<1>8. SameButAt(ts, us, j, i)
  BY <1>5, <1>7 DEF SameButAt, Key, Count, Seen
<1> QED BY <1>4, <1>6, <1>8

\* A retain of a slot that is not empty counts one more reference.
LEMMA RetainDoes ==
    ASSUME NEW ts \in Seq(TableSet), NEW j \in 1 .. Len(ts), NEW i \in Indices,
           Count(ts, j, i) # 0
    PROVE  LET us == RetainTables(ts, j, i)
           IN  /\ SameButAt(ts, us, j, i)
               /\ Key(us, j, i) = Key(ts, j, i)
               /\ Count(us, j, i) = Count(ts, j, i) + 1
               /\ Seen(us, j, i) = Seen(ts, j, i)
<1> DEFINE m == ts[j].values
           n == retain(m, i)
           t == [ts[j] EXCEPT !.values = n]
           us == [ts EXCEPT ![j] = t]
<1>1. ts[j] \in TableSet /\ m \in MapSet /\ m.ref_count[i] \in Nat \ {0}
  BY SlotTypes DEF Count
<1>2. /\ n \in MapSet
      /\ n.ref_count = [m.ref_count EXCEPT ![i] = @ + 1]
      /\ n.data = m.data
  BY <1>1, MapRetains
<1> HIDE DEF n
<1>3. t \in TableSet /\ t.keys = ts[j].keys /\ t.values = n
  BY <1>1, <1>2 DEF TableSet
<1>4. RetainTables(ts, j, i) = us
  BY DEF n, RetainTables
<1> HIDE DEF t
<1>5. us \in Seq(TableSet) /\ Len(us) = Len(ts) /\ us[j] = t /\ \A l \in 1 .. Len(ts) : l # j => us[l] = ts[l]
  BY <1>3
<1> HIDE DEF us
<1>6. /\ Key(us, j, i) = Key(ts, j, i)
      /\ Count(us, j, i) = Count(ts, j, i) + 1
      /\ Seen(us, j, i) = Seen(ts, j, i)
  BY <1>1, <1>2, <1>3, <1>5 DEF Key, Count, Seen, TableSet, MapSet
<1>7. ASSUME NEW x \in Indices, x # i
      PROVE  /\ Key(us, j, x) = Key(ts, j, x)
             /\ Count(us, j, x) = Count(ts, j, x)
             /\ Seen(us, j, x) = Seen(ts, j, x)
  BY <1>1, <1>2, <1>3, <1>5, <1>7 DEF Key, Count, Seen, TableSet, MapSet
<1>8. SameButAt(ts, us, j, i)
  BY <1>5, <1>7 DEF SameButAt, Key, Count, Seen
<1> QED BY <1>4, <1>6, <1>8

\* A release of a slot that is not empty counts one reference less; the last
\* one empties the slot.
LEMMA ReleaseDoes ==
    ASSUME NEW ts \in Seq(TableSet), NEW j \in 1 .. Len(ts), NEW i \in Indices,
           Count(ts, j, i) # 0
    PROVE  LET us == ReleaseTables(ts, j, i)
           IN  /\ SameButAt(ts, us, j, i)
               /\ Key(us, j, i) = Key(ts, j, i)
               /\ Count(us, j, i) = Count(ts, j, i) - 1
               /\ Seen(us, j, i) = IF Count(ts, j, i) = 1 THEN NULL ELSE Seen(ts, j, i)
               /\ ReleaseCleans(ts[j].values, i) =
                     IF Count(ts, j, i) = 1 THEN {Seen(ts, j, i)} ELSE {}
<1> DEFINE m == ts[j].values
           n == release_index(m, i)
           t == [ts[j] EXCEPT !.values = n]
           us == [ts EXCEPT ![j] = t]
<1>1. ts[j] \in TableSet /\ m \in MapSet /\ m.ref_count[i] \in Nat \ {0}
  BY SlotTypes DEF Count
<1>2. /\ n \in MapSet
      /\ n.ref_count = [m.ref_count EXCEPT ![i] = @ - 1]
      /\ n.data = IF m.ref_count[i] = 1 THEN [m.data EXCEPT ![i] = NULL] ELSE m.data
      /\ ReleaseCleans(m, i) = IF m.ref_count[i] = 1 THEN {m.data[i]} ELSE {}
  BY <1>1, MapReleases
<1> HIDE DEF n
<1>3. t \in TableSet /\ t.keys = ts[j].keys /\ t.values = n
  BY <1>1, <1>2 DEF TableSet
<1>4. ReleaseTables(ts, j, i) = us
  BY DEF n, ReleaseTables
<1> HIDE DEF t
<1>5. us \in Seq(TableSet) /\ Len(us) = Len(ts) /\ us[j] = t /\ \A l \in 1 .. Len(ts) : l # j => us[l] = ts[l]
  BY <1>3
<1> HIDE DEF us
<1>6. /\ Key(us, j, i) = Key(ts, j, i)
      /\ Count(us, j, i) = Count(ts, j, i) - 1
      /\ Seen(us, j, i) = IF Count(ts, j, i) = 1 THEN NULL ELSE Seen(ts, j, i)
  BY <1>1, <1>2, <1>3, <1>5 DEF Key, Count, Seen, TableSet, MapSet
<1>7. ASSUME NEW x \in Indices, x # i
      PROVE  /\ Key(us, j, x) = Key(ts, j, x)
             /\ Count(us, j, x) = Count(ts, j, x)
             /\ Seen(us, j, x) = Seen(ts, j, x)
  BY <1>1, <1>2, <1>3, <1>5, <1>7 DEF Key, Count, Seen, TableSet, MapSet
<1>8. SameButAt(ts, us, j, i)
  BY <1>5, <1>7 DEF SameButAt, Key, Count, Seen
<1>9. ReleaseCleans(ts[j].values, i) = IF Count(ts, j, i) = 1 THEN {Seen(ts, j, i)} ELSE {}
  BY <1>2 DEF Count, Seen
<1> QED BY <1>4, <1>6, <1>8, <1>9

-----------------------------------------------------------------------------
\* How each part of the invariant is kept.

\* The constructors: no item is NULL.
LEMMA NullIsNoItem == NULL \notin Items
  BY RcHashMapAssumption DEF RcHashMapAssumption

\* A slot is empty for the counts exactly when it has no item.
LEMMA EmptyIsNull ==
    ASSUME NEW ts \in Seq(TableSet), NEW h, BagOK(h), Counted(ts, h),
           NEW j \in 1 .. Len(ts), NEW i \in Indices
    PROVE  Count(ts, j, i) = 0 <=> Seen(ts, j, i) = NULL
<1>1. \A e \in DOMAIN h : h[e] \in Nat \ {0}
  BY DEF BagOK
<1> QED BY <1>1 DEF Counted

\* One more reference is counted, to the content of a slot or to the content
\* that an empty slot gets.
LEMMA CountedUp ==
    ASSUME NEW ts \in Seq(TableSet), NEW h, BagOK(h), Counted(ts, h),
           NEW j \in 1 .. Len(ts), NEW i \in Indices, NEW k \in Keys, NEW e \in Items,
           Len(ts) <= MaxTables,
           Count(ts, j, i) # 0 => Key(ts, j, i) = k /\ Seen(ts, j, i) = e,
           NEW us, SameButAt(ts, us, j, i),
           Key(us, j, i) = k, Seen(us, j, i) = e, Count(us, j, i) = Count(ts, j, i) + 1,
           NEW g, g = h (+) SetToBag({<<j, i, k, e>>})
    PROVE  BagOK(g) /\ Counted(us, g)
<1> DEFINE r == <<j, i, k, e>>
<1>1. MaxTables \in Nat /\ j \in 1 .. MaxTables
  BY RcHashMapAssumption DEF RcHashMapAssumption
<1>2. r \in Reference
  BY <1>1 DEF Reference
<1>3. /\ BagOK(g)
      /\ DOMAIN g = DOMAIN h \cup {r}
      /\ r \in DOMAIN h => g[r] = h[r] + 1
      /\ r \notin DOMAIN h => g[r] = 1
      /\ \A q \in DOMAIN h : q # r => g[q] = h[q]
  BY <1>2, OneMore
<1>4. \A q \in DOMAIN h : q[1] \in 1 .. Len(ts) /\ q[2] \in Indices
  BY DEF BagOK, Reference, Counted
<1>5. r[1] = j /\ r[2] = i /\ r[3] = k /\ r[4] = e
  OBVIOUS
<1>6. \A q \in DOMAIN h : q[1] = j /\ q[2] = i => q = r
  <2> SUFFICES ASSUME NEW q \in DOMAIN h, q[1] = j, q[2] = i PROVE q = r
    OBVIOUS
  <2>1. Key(ts, j, i) = q[3] /\ Seen(ts, j, i) = q[4] /\ q \in Reference
    BY DEF Counted, BagOK
  <2>2. q[4] \in Items /\ q = <<q[1], q[2], q[3], q[4]>>
    BY <2>1 DEF Reference
  <2>3. Count(ts, j, i) # 0
    BY <2>1, <2>2, EmptyIsNull, NullIsNoItem
  <2> QED BY <2>1, <2>2, <2>3
<1> HIDE DEF r
<1>7. ASSUME NEW q \in DOMAIN g
      PROVE  /\ q[1] \in 1 .. Len(us)
             /\ Key(us, q[1], q[2]) = q[3]
             /\ Seen(us, q[1], q[2]) = q[4]
  <2>1. CASE q = r
    BY <1>5, <2>1 DEF SameButAt
  <2>2. CASE q # r
    <3>1. q \in DOMAIN h /\ (q[1] # j \/ q[2] # i)
      BY <1>3, <1>6, <2>2
    <3> QED BY <1>4, <3>1 DEF SameButAt, Counted
  <2> QED BY <2>1, <2>2
<1>8. ASSUME NEW l \in 1 .. Len(us), NEW m \in Indices
      PROVE  /\ Seen(us, l, m) = NULL => Count(us, l, m) = 0
             /\ Seen(us, l, m) # NULL =>
                   /\ <<l, m, Key(us, l, m), Seen(us, l, m)>> \in DOMAIN g
                   /\ Count(us, l, m) = g[<<l, m, Key(us, l, m), Seen(us, l, m)>>]
  <2>1. CASE l = j /\ m = i
    <3>1. <<l, m, Key(us, l, m), Seen(us, l, m)>> = r /\ r \in DOMAIN g
      BY <1>3, <2>1 DEF r
    <3>2. CASE Count(ts, j, i) = 0
      <4>1. r \notin DOMAIN h
        BY <1>5, <3>2, EmptyIsNull, NullIsNoItem DEF Counted
      <4>2. g[r] = 1
        BY <1>3, <4>1
      <4> QED BY <2>1, <3>1, <3>2, <4>2, NullIsNoItem
    <3>3. CASE Count(ts, j, i) # 0
      <4>1. r \in DOMAIN h /\ Count(ts, j, i) = h[r]
        BY <3>3, NullIsNoItem DEF Counted, r
      <4>2. g[r] = h[r] + 1
        BY <1>3, <4>1
      <4> QED BY <2>1, <3>1, <4>1, <4>2, NullIsNoItem
    <3> QED BY <3>2, <3>3
  <2>2. CASE l # j \/ m # i
    <3>1. l \in 1 .. Len(ts)
      BY DEF SameButAt
    <3>2. Key(us, l, m) = Key(ts, l, m) /\ Count(us, l, m) = Count(ts, l, m) /\ Seen(us, l, m) = Seen(ts, l, m)
      BY <2>2, <3>1 DEF SameButAt
    <3>3. <<l, m, Key(ts, l, m), Seen(ts, l, m)>> # r
      BY <2>2 DEF r
    <3>4. /\ Seen(ts, l, m) = NULL => Count(ts, l, m) = 0
          /\ Seen(ts, l, m) # NULL =>
                /\ <<l, m, Key(ts, l, m), Seen(ts, l, m)>> \in DOMAIN h
                /\ Count(ts, l, m) = h[<<l, m, Key(ts, l, m), Seen(ts, l, m)>>]
      BY <3>1 DEF Counted
    <3> QED BY <1>3, <3>2, <3>3, <3>4
  <2> QED BY <2>1, <2>2
<1> QED BY <1>3, <1>7, <1>8 DEF Counted

\* One reference less is counted; the last one empties the slot.
LEMMA CountedDown ==
    ASSUME NEW ts \in Seq(TableSet), NEW h, BagOK(h), Counted(ts, h),
           NEW r \in DOMAIN h,
           NEW us, SameButAt(ts, us, r[1], r[2]),
           Key(us, r[1], r[2]) = Key(ts, r[1], r[2]),
           Count(us, r[1], r[2]) = Count(ts, r[1], r[2]) - 1,
           Seen(us, r[1], r[2]) = IF Count(ts, r[1], r[2]) = 1 THEN NULL ELSE Seen(ts, r[1], r[2]),
           NEW g, g = h (-) SetToBag({r})
    PROVE  BagOK(g) /\ Counted(us, g)
<1>1. /\ BagOK(g)
      /\ h[r] = 1 => DOMAIN g = DOMAIN h \ {r}
      /\ h[r] # 1 => DOMAIN g = DOMAIN h /\ g[r] = h[r] - 1
      /\ \A q \in DOMAIN h : q # r => g[q] = h[q]
  BY OneLess
<1>2. \A q \in DOMAIN h : /\ q[1] \in 1 .. Len(ts) /\ q[2] \in Indices
                          /\ q[4] \in Items /\ q = <<q[1], q[2], q[3], q[4]>>
  BY DEF BagOK, Reference, Counted
<1>3. Key(ts, r[1], r[2]) = r[3] /\ Seen(ts, r[1], r[2]) = r[4] /\ r[4] # NULL
  BY <1>2, NullIsNoItem DEF Counted
<1>4. Count(ts, r[1], r[2]) = h[r]
  BY <1>2, <1>3 DEF Counted
<1>5. \A q \in DOMAIN h : q[1] = r[1] /\ q[2] = r[2] => q = r
  BY <1>2, <1>3 DEF Counted
<1>6. ASSUME NEW q \in DOMAIN g
      PROVE  /\ q[1] \in 1 .. Len(us)
             /\ Key(us, q[1], q[2]) = q[3]
             /\ Seen(us, q[1], q[2]) = q[4]
  <2>1. q \in DOMAIN h
    BY <1>1
  <2>2. CASE q = r
    BY <1>1, <1>2, <1>3, <1>4, <2>2 DEF SameButAt
  <2>3. CASE q # r
    <3>1. q[1] # r[1] \/ q[2] # r[2]
      BY <1>5, <2>1, <2>3
    <3> QED BY <1>2, <2>1, <3>1 DEF SameButAt, Counted
  <2> QED BY <2>2, <2>3
<1>7. ASSUME NEW l \in 1 .. Len(us), NEW m \in Indices
      PROVE  /\ Seen(us, l, m) = NULL => Count(us, l, m) = 0
             /\ Seen(us, l, m) # NULL =>
                   /\ <<l, m, Key(us, l, m), Seen(us, l, m)>> \in DOMAIN g
                   /\ Count(us, l, m) = g[<<l, m, Key(us, l, m), Seen(us, l, m)>>]
  <2>1. CASE l = r[1] /\ m = r[2]
    <3>1. CASE h[r] = 1
      BY <1>4, <2>1, <3>1
    <3>2. CASE h[r] # 1
      <4>1. Seen(us, l, m) = r[4] /\ Key(us, l, m) = r[3]
        BY <1>3, <1>4, <2>1, <3>2
      <4>2. <<l, m, Key(us, l, m), Seen(us, l, m)>> = r
        BY <1>2, <2>1, <4>1
      <4>3. r \in DOMAIN g /\ g[r] = h[r] - 1
        BY <1>1, <3>2
      <4> QED BY <1>3, <1>4, <2>1, <4>1, <4>2, <4>3
    <3> QED BY <3>1, <3>2
  <2>2. CASE l # r[1] \/ m # r[2]
    <3>1. l \in 1 .. Len(ts)
      BY DEF SameButAt
    <3>2. Key(us, l, m) = Key(ts, l, m) /\ Count(us, l, m) = Count(ts, l, m) /\ Seen(us, l, m) = Seen(ts, l, m)
      BY <2>2, <3>1 DEF SameButAt
    <3>3. <<l, m, Key(ts, l, m), Seen(ts, l, m)>> # r
      BY <2>2
    <3>4. /\ Seen(ts, l, m) = NULL => Count(ts, l, m) = 0
          /\ Seen(ts, l, m) # NULL =>
                /\ <<l, m, Key(ts, l, m), Seen(ts, l, m)>> \in DOMAIN h
                /\ Count(ts, l, m) = h[<<l, m, Key(ts, l, m), Seen(ts, l, m)>>]
      BY <3>1 DEF Counted
    <3> QED BY <1>1, <3>2, <3>3, <3>4
  <2> QED BY <2>1, <2>2
<1> QED BY <1>1, <1>6, <1>7 DEF Counted

\* An empty slot gets a new item.
LEMMA PlacedNew ==
    ASSUME NEW ts \in Seq(TableSet), NEW c, NEW v \in SUBSET Items, Placed(ts, c, v),
           NEW j \in 1 .. Len(ts), NEW i \in Indices, NEW d \in Items, d \notin v,
           Seen(ts, j, i) = NULL,
           NEW us, SameButAt(ts, us, j, i), Seen(us, j, i) = d
    PROVE  Placed(us, c, v \cup {d}) /\ (Gone(ts, c, v) => Gone(us, c, v \cup {d}))
<1>1. Len(us) = Len(ts) /\ \A l \in 1 .. Len(ts), m \in Indices : l # j \/ m # i => Seen(us, l, m) = Seen(ts, l, m)
  BY DEF SameButAt
<1>2. \A l \in 1 .. Len(ts), m \in Indices : Seen(ts, l, m) # d
  BY NullIsNoItem DEF Placed
<1>3. ASSUME NEW l \in 1 .. Len(us), NEW a \in 1 .. Len(us), NEW m \in Indices, NEW b \in Indices,
             Seen(us, l, m) # NULL, Seen(us, l, m) = Seen(us, a, b)
      PROVE  l = a /\ m = b
  <2>1. CASE l = j /\ m = i
    BY <1>1, <1>2, <1>3, <2>1
  <2>2. CASE a = j /\ b = i
    BY <1>1, <1>2, <1>3, <2>2
  <2>3. CASE ~(l = j /\ m = i) /\ ~(a = j /\ b = i)
    BY <1>1, <1>3, <2>3 DEF Placed
  <2> QED BY <2>1, <2>2, <2>3
<1>4. ASSUME NEW l \in 1 .. Len(us), NEW m \in Indices, Seen(us, l, m) # NULL
      PROVE  Seen(us, l, m) \in v \cup {d} /\ c[Seen(us, l, m)] = 0
  BY <1>1, <1>4 DEF Placed
<1>5. \A e \in Items : e \notin v \cup {d} => c[e] = 0
  BY DEF Placed
<1>6. ASSUME Gone(ts, c, v), NEW e \in v \cup {d},
             \A l \in 1 .. Len(us), m \in Indices : Seen(us, l, m) # e
      PROVE  c[e] = 1
  <2>1. e # d /\ e \in v
    BY <1>1, <1>6
  <2>2. CASE e = NULL
    BY <1>6, <2>1, <2>2, NullIsNoItem
  <2>3. CASE e # NULL
    <3>1. \A l \in 1 .. Len(ts), m \in Indices : Seen(ts, l, m) # e
      BY <1>1, <1>6, <2>3
    <3> QED BY <1>6, <2>1, <3>1 DEF Gone
  <2> QED BY <2>2, <2>3
<1>7. Placed(us, c, v \cup {d})
  BY <1>3, <1>4, <1>5 DEF Placed
<1> QED BY <1>6, <1>7 DEF Gone

\* The items stay where they are; a new one may be cleaned up at once.
LEMMA PlacedSame ==
    ASSUME NEW ts \in Seq(TableSet), NEW c \in [Items -> Nat], NEW v \in SUBSET Items, Placed(ts, c, v),
           NEW us, Len(us) = Len(ts),
           \A l \in 1 .. Len(ts), m \in Indices : Seen(us, l, m) = Seen(ts, l, m)
    PROVE  /\ Placed(us, c, v)
           /\ Gone(ts, c, v) => Gone(us, c, v)
           /\ \A d \in Items \ v :
                 LET b == [e \in Items |-> IF e \in {d} THEN c[e] + 1 ELSE c[e]]
                 IN  /\ Placed(us, b, v \cup {d})
                     /\ Gone(ts, c, v) => Gone(us, b, v \cup {d})
<1>1. Placed(us, c, v) /\ (Gone(ts, c, v) => Gone(us, c, v))
  BY DEF Placed, Gone
<1>2. ASSUME NEW d \in Items \ v, NEW b, b = [e \in Items |-> IF e \in {d} THEN c[e] + 1 ELSE c[e]]
      PROVE  /\ Placed(us, b, v \cup {d})
             /\ Gone(ts, c, v) => Gone(us, b, v \cup {d})
  <2>1. c[d] = 0 /\ b[d] = 1 /\ \A e \in Items : e # d => b[e] = c[e]
    BY <1>2 DEF Placed
  <2>2. \A l \in 1 .. Len(us), m \in Indices : Seen(us, l, m) # NULL => Seen(us, l, m) \in v
    BY DEF Placed
  <2>3. Placed(us, b, v \cup {d})
    <3>1. \A l \in 1 .. Len(us), m \in Indices :
             Seen(us, l, m) # NULL => Seen(us, l, m) \in v \cup {d} /\ b[Seen(us, l, m)] = 0
      BY <1>1, <2>1, <2>2 DEF Placed
    <3>2. \A e \in Items : e \notin v \cup {d} => b[e] = 0
      BY <2>1 DEF Placed
    <3>3. \A j, l \in 1 .. Len(us), i, m \in Indices :
             Seen(us, j, i) # NULL /\ Seen(us, j, i) = Seen(us, l, m) => j = l /\ i = m
      BY <1>1 DEF Placed
    <3> QED BY <3>1, <3>2, <3>3 DEF Placed
  <2>4. Gone(us, c, v) => Gone(us, b, v \cup {d})
    BY <2>1 DEF Gone
  <2> QED BY <1>1, <2>3, <2>4
<1> QED BY <1>1, <1>2

\* A slot is emptied, and its item cleaned up.
LEMMA PlacedDown ==
    ASSUME NEW ts \in Seq(TableSet), NEW c \in [Items -> Nat], NEW v \in SUBSET Items, Placed(ts, c, v),
           NEW j \in 1 .. Len(ts), NEW i \in Indices, Seen(ts, j, i) # NULL,
           NEW us, SameButAt(ts, us, j, i), Seen(us, j, i) = NULL,
           NEW b, \A e \in Items : b[e] = IF e = Seen(ts, j, i) THEN c[e] + 1 ELSE c[e]
    PROVE  Placed(us, b, v) /\ (Gone(ts, c, v) => Gone(us, b, v))
<1> DEFINE d == Seen(ts, j, i)
<1>1. Len(us) = Len(ts) /\ \A l \in 1 .. Len(ts), m \in Indices : l # j \/ m # i => Seen(us, l, m) = Seen(ts, l, m)
  BY DEF SameButAt
<1>2. d \in v /\ d \in Items /\ c[d] = 0
  BY DEF Placed
<1>3. b[d] = 1 /\ \A e \in Items : e # d => b[e] = c[e]
  BY <1>2
<1>4. \A l \in 1 .. Len(us), m \in Indices : Seen(us, l, m) # d
  BY <1>1 DEF Placed
<1>5. ASSUME NEW l \in 1 .. Len(us), NEW m \in Indices, Seen(us, l, m) # NULL
      PROVE  Seen(us, l, m) \in v /\ b[Seen(us, l, m)] = 0
  <2>1. Seen(us, l, m) = Seen(ts, l, m) /\ l \in 1 .. Len(ts)
    BY <1>1, <1>5
  <2>2. Seen(ts, l, m) \in v /\ c[Seen(ts, l, m)] = 0 /\ Seen(ts, l, m) # d
    BY <1>4, <1>5, <2>1 DEF Placed
  <2> HIDE DEF d
  <2> QED BY <1>3, <2>1, <2>2
<1>6. ASSUME NEW l \in 1 .. Len(us), NEW a \in 1 .. Len(us), NEW m \in Indices, NEW q \in Indices,
             Seen(us, l, m) # NULL, Seen(us, l, m) = Seen(us, a, q)
      PROVE  l = a /\ m = q
  BY <1>1, <1>6 DEF Placed
<1>7. \A e \in Items : e \notin v => b[e] = 0
  <2> HIDE DEF d
  <2> QED BY <1>2, <1>3 DEF Placed
<1>8. ASSUME Gone(ts, c, v), NEW e \in v, \A l \in 1 .. Len(us), m \in Indices : Seen(us, l, m) # e
      PROVE  b[e] = 1
  <2>1. CASE e = d
    BY <1>3, <2>1
  <2>2. CASE e # d
    <3>1. \A l \in 1 .. Len(ts), m \in Indices : Seen(ts, l, m) # e
      BY <1>1, <1>8, <2>2
    <3> HIDE DEF d
    <3> QED BY <1>3, <1>8, <2>2, <3>1 DEF Gone
  <2> QED BY <2>1, <2>2
<1>9. Placed(us, b, v)
  BY <1>5, <1>6, <1>7 DEF Placed
<1> QED BY <1>8, <1>9 DEF Gone

\* A key is written near its hash index: into its first place, when it collides
\* with no other, and not into the first place of a key that does.
LEMMA HomedUp ==
    ASSUME NEW ts \in Seq(TableSet), Homed(ts), Len(ts) # 0,
           NEW j \in 1 .. Len(ts), NEW i \in Indices, NEW k \in Keys,
           k \in Alone => j = 1 /\ i = Hash[k],
           \A a \in Alone : a # k => j # 1 \/ i # Hash[a],
           Near(i, k),
           NEW us, SameButAt(ts, us, j, i), Key(us, j, i) = k
    PROVE  Homed(us)
<1>1. /\ Len(us) = Len(ts)
      /\ \A l \in 1 .. Len(ts), m \in Indices : l # j \/ m # i =>
            Key(us, l, m) = Key(ts, l, m) /\ Count(us, l, m) = Count(ts, l, m)
  BY DEF SameButAt
<1>r. \A l \in 1 .. Len(us), m \in Indices : Count(us, l, m) > 0 => Near(m, Key(us, l, m))
  BY <1>1 DEF Homed
<1> SUFFICES ASSUME NEW a \in Alone
    PROVE  /\ Key(us, 1, Hash[a]) = a \/ Count(us, 1, Hash[a]) = 0
           /\ \A l \in 1 .. Len(us), m \in Indices :
                 Key(us, l, m) = a /\ Count(us, l, m) > 0 => l = 1 /\ m = Hash[a]
  BY <1>r DEF Homed
<1>2. 1 \in 1 .. Len(ts) /\ Hash[a] \in Indices
  BY RcHashMapAssumption DEF RcHashMapAssumption, Alone
<1>3. Key(us, 1, Hash[a]) = a \/ Count(us, 1, Hash[a]) = 0
  <2>1. CASE a = k
    BY <2>1
  <2>2. CASE a # k
    <3>1. j # 1 \/ i # Hash[a]
      BY <2>2
    <3> QED BY <1>1, <1>2, <3>1 DEF Homed
  <2> QED BY <2>1, <2>2
<1>4. ASSUME NEW l \in 1 .. Len(us), NEW m \in Indices, Key(us, l, m) = a, Count(us, l, m) > 0
      PROVE  l = 1 /\ m = Hash[a]
  <2>1. CASE l = j /\ m = i
    BY <1>4, <2>1
  <2>2. CASE l # j \/ m # i
    BY <1>1, <1>4, <2>2 DEF Homed
  <2> QED BY <2>1, <2>2
<1> QED BY <1>3, <1>4

\* The keys stay, and no slot that was empty counts a reference.
LEMMA HomedSame ==
    ASSUME NEW ts \in Seq(TableSet), Homed(ts), Len(ts) # 0,
           NEW us, Len(us) = Len(ts),
           \A l \in 1 .. Len(ts), m \in Indices :
               /\ Key(us, l, m) = Key(ts, l, m)
               /\ Count(us, l, m) \in Nat
               /\ Count(ts, l, m) = 0 => Count(us, l, m) = 0
    PROVE  Homed(us)
<1>r. \A l \in 1 .. Len(us), m \in Indices : Count(us, l, m) > 0 => Near(m, Key(us, l, m))
  BY SlotTypes DEF Homed
<1> SUFFICES ASSUME NEW a \in Alone
    PROVE  /\ Key(us, 1, Hash[a]) = a \/ Count(us, 1, Hash[a]) = 0
           /\ \A l \in 1 .. Len(us), m \in Indices :
                 Key(us, l, m) = a /\ Count(us, l, m) > 0 => l = 1 /\ m = Hash[a]
  BY <1>r DEF Homed
<1>1. 1 \in 1 .. Len(ts) /\ Hash[a] \in Indices
  BY RcHashMapAssumption DEF RcHashMapAssumption, Alone
<1>2. \A l \in 1 .. Len(ts), m \in Indices : Count(ts, l, m) \in Nat
  BY SlotTypes
<1>3. Key(us, 1, Hash[a]) = a \/ Count(us, 1, Hash[a]) = 0
  BY <1>1 DEF Homed
<1>4. ASSUME NEW l \in 1 .. Len(us), NEW m \in Indices, Key(us, l, m) = a, Count(us, l, m) > 0
      PROVE  l = 1 /\ m = Hash[a]
  <2>1. Key(ts, l, m) = a /\ Count(ts, l, m) > 0
    BY <1>2, <1>4
  <2> QED BY <2>1 DEF Homed
<1> QED BY <1>3, <1>4

\* extend_hash_map adds a table of empty slots.
LEMMA Extends ==
    ASSUME NEW ts \in Seq(TableSet), Len(ts) # 0,
           NEW h, BagOK(h), NEW c, NEW v \in SUBSET Items,
           Counted(ts, h), Placed(ts, c, v), Homed(ts)
    PROVE  LET us == Append(ts, NewTable)
           IN  /\ us \in Seq(TableSet)
               /\ Len(us) = Len(ts) + 1
               /\ \A m \in Indices : Count(us, Len(us), m) = 0 /\ Seen(us, Len(us), m) = NULL
               /\ Counted(us, h)
               /\ Placed(us, c, v)
               /\ Gone(ts, c, v) => Gone(us, c, v)
               /\ Homed(us)
<1> DEFINE us == Append(ts, NewTable)
<1>1. NewTable \in TableSet
  BY DEF NewTable, TableSet, MapSet, cx_rc_map_init
<1>2. us \in Seq(TableSet) /\ Len(us) = Len(ts) + 1 /\ us[Len(us)] = NewTable
  BY <1>1
<1>3. \A l \in 1 .. Len(ts) : us[l] = ts[l]
  BY <1>1
<1> HIDE DEF us
<1>4. \A m \in Indices : Count(us, Len(us), m) = 0 /\ Seen(us, Len(us), m) = NULL
  BY <1>2 DEF Count, Seen, NewTable, cx_rc_map_init
<1>5. \A l \in 1 .. Len(ts), m \in Indices :
         Key(us, l, m) = Key(ts, l, m) /\ Count(us, l, m) = Count(ts, l, m) /\ Seen(us, l, m) = Seen(ts, l, m)
  BY <1>3 DEF Key, Count, Seen
<1>6. \A l \in 1 .. Len(us) : l = Len(us) \/ l \in 1 .. Len(ts)
  BY <1>2
<1>7. \A q \in DOMAIN h : q[2] \in Indices
  BY DEF BagOK, Reference
<1>8. 1 .. Len(ts) \subseteq 1 .. Len(us)
  BY <1>2
<1>9. Counted(us, h)
  <2>1. \A q \in DOMAIN h : /\ q[1] \in 1 .. Len(us)
                            /\ Key(us, q[1], q[2]) = q[3]
                            /\ Seen(us, q[1], q[2]) = q[4]
    BY <1>5, <1>7, <1>8 DEF Counted
  <2>2. \A l \in 1 .. Len(us), m \in Indices : Seen(us, l, m) = NULL => Count(us, l, m) = 0
    BY <1>4, <1>5, <1>6 DEF Counted
  <2>3. \A l \in 1 .. Len(us), m \in Indices : Seen(us, l, m) # NULL =>
           /\ <<l, m, Key(us, l, m), Seen(us, l, m)>> \in DOMAIN h
           /\ Count(us, l, m) = h[<<l, m, Key(us, l, m), Seen(us, l, m)>>]
    BY <1>4, <1>5, <1>6 DEF Counted
  <2> QED BY <2>1, <2>2, <2>3 DEF Counted
<1>10. Placed(us, c, v)
  <2>1. \A l, a \in 1 .. Len(us), m, b \in Indices :
           Seen(us, l, m) # NULL /\ Seen(us, l, m) = Seen(us, a, b) => l = a /\ m = b
    BY <1>4, <1>5, <1>6 DEF Placed
  <2>2. \A l \in 1 .. Len(us), m \in Indices :
           Seen(us, l, m) # NULL => Seen(us, l, m) \in v /\ c[Seen(us, l, m)] = 0
    BY <1>4, <1>5, <1>6 DEF Placed
  <2> QED BY <2>1, <2>2 DEF Placed
<1>11. Gone(ts, c, v) => Gone(us, c, v)
  BY <1>5, <1>8 DEF Gone
<1>12. Homed(us)
  <2>r. \A l \in 1 .. Len(us), m \in Indices : Count(us, l, m) > 0 => Near(m, Key(us, l, m))
    BY <1>4, <1>5, <1>6 DEF Homed
  <2> SUFFICES ASSUME NEW a \in Alone
      PROVE  /\ Key(us, 1, Hash[a]) = a \/ Count(us, 1, Hash[a]) = 0
             /\ \A l \in 1 .. Len(us), m \in Indices :
                   Key(us, l, m) = a /\ Count(us, l, m) > 0 => l = 1 /\ m = Hash[a]
    BY <2>r DEF Homed
  <2>1. 1 \in 1 .. Len(ts) /\ Hash[a] \in Indices
    BY RcHashMapAssumption DEF RcHashMapAssumption, Alone
  <2>2. Key(us, 1, Hash[a]) = a \/ Count(us, 1, Hash[a]) = 0
    BY <1>5, <2>1 DEF Homed
  <2>3. ASSUME NEW l \in 1 .. Len(us), NEW m \in Indices, Key(us, l, m) = a, Count(us, l, m) > 0
        PROVE  l = 1 /\ m = Hash[a]
    <3>1. l \in 1 .. Len(ts)
      BY <1>4, <1>6, <2>3
    <3> QED BY <1>5, <2>3, <3>1 DEF Homed
  <2> QED BY <2>2, <2>3
<1> QED BY <1>2, <1>4, <1>9, <1>10, <1>11, <1>12 DEF us

-----------------------------------------------------------------------------
\* Init and the actions.

\* The map starts with one table of empty slots.
LEMMA HashInit == Init => HashInv
<1> SUFFICES ASSUME Init PROVE HashInv
  OBVIOUS
<1>1. NewTable \in TableSet
  BY DEF NewTable, TableSet, MapSet, cx_rc_map_init
<1>2. tables \in Seq(TableSet) /\ Len(tables) = 1 /\ tables[1] = NewTable
  BY <1>1 DEF Init
<1>3. \A j \in 1 .. Len(tables), i \in Indices : Count(tables, j, i) = 0 /\ Seen(tables, j, i) = NULL
  BY <1>2 DEF Count, Seen, NewTable, cx_rc_map_init
<1>4. DOMAIN held = {} /\ BagOK(held)
  BY DEF Init, EmptyBag, SetToBag, BagOK
<1>5. HashType
  BY <1>2, <1>4, RcHashMapAssumption DEF HashType, Init, RcHashMapAssumption
<1>6. Counted(tables, held)
  BY <1>3, <1>4 DEF Counted
<1>7. Placed(tables, cleaned, given) /\ Gone(tables, cleaned, given)
  BY <1>3 DEF Placed, Gone, Init
<1>8. Homed(tables)
  <2>1. \A a \in Alone : Hash[a] \in Indices
    BY RcHashMapAssumption DEF RcHashMapAssumption, Alone
  <2> QED BY <1>2, <1>3, <2>1 DEF Homed
<1> QED BY <1>5, <1>6, <1>7, <1>8 DEF HashInv

\* A put into a slot that is empty or has the key keeps the invariant.
LEMMA PutKeeps ==
    ASSUME HashType, state # "broken", state' = state,
           NEW ts \in Seq(TableSet), Len(ts) \in 1 .. MaxTables,
           Counted(ts, held), Placed(ts, cleaned, given), Gone(ts, cleaned, given), Homed(ts),
           NEW j \in 1 .. Len(ts), NEW i \in Indices, NEW k \in Keys, NEW d \in Items \ given,
           Count(ts, j, i) = 0 \/ Key(ts, j, i) = k,
           k \in Alone => j = 1 /\ i = Hash[k],
           \A a \in Alone : a # k => j # 1 \/ i # Hash[a],
           Near(i, k),
           PutAt(ts, j, i, k, d), given' = given \cup {d}
    PROVE  HashInv'
<1> DEFINE e == IF Count(ts, j, i) = 0 THEN d ELSE Seen(ts, j, i)
<1>1. /\ SameButAt(ts, tables', j, i)
      /\ Key(tables', j, i) = k
      /\ Count(tables', j, i) = Count(ts, j, i) + 1
      /\ Seen(tables', j, i) = e
  <2>1. d \in Items /\ tables' = PutTables(ts, j, i, k, d)
    BY DEF PutAt, PutTables
  <2> QED BY <2>1, PutDoes
<1>2. BagOK(held) /\ cleaned \in [Items -> Nat] /\ given \in SUBSET Items
  BY DEF HashType
<1>3. Seen(ts, j, i) \in Items \cup {NULL} /\ Count(ts, j, i) \in Nat
  BY SlotTypes
<1>4. e \in Items
  BY <1>2, <1>3, EmptyIsNull
<1>5. SetCleans(ts[j].values, i, d) = IF Count(ts, j, i) = 0 THEN {} ELSE {d}
  BY DEF SetCleans, is_empty, Count
<1>6. held' = held (+) SetToBag({<<j, i, k, e>>})
  BY <1>1 DEF PutAt
<1> HIDE DEF e
<1>7. BagOK(held') /\ Counted(tables', held')
  <2>1. Len(ts) <= MaxTables
    BY RcHashMapAssumption DEF RcHashMapAssumption
  <2>2. Count(ts, j, i) # 0 => Key(ts, j, i) = k /\ Seen(ts, j, i) = e
    BY DEF e
  <2> QED BY <1>1, <1>2, <1>4, <1>6, <2>1, <2>2, CountedUp
<1>8. Placed(tables', cleaned', given') /\ Gone(tables', cleaned', given') /\ cleaned' \in [Items -> Nat]
  <2>1. CASE Count(ts, j, i) = 0
    <3>1. cleaned' = cleaned
      BY <1>2, <1>5, <2>1 DEF PutAt, Clean
    <3>2. Seen(ts, j, i) = NULL /\ Seen(tables', j, i) = d
      BY <1>1, <1>2, <2>1, EmptyIsNull DEF e
    <3>3. Placed(tables', cleaned, given \cup {d}) /\ Gone(tables', cleaned, given \cup {d})
      BY <1>1, <1>2, <3>2, PlacedNew
    <3> QED BY <1>2, <3>1, <3>3
  <2>2. CASE Count(ts, j, i) # 0
    <3>1. cleaned' = [x \in Items |-> IF x \in {d} THEN cleaned[x] + 1 ELSE cleaned[x]]
      BY <1>5, <2>2 DEF PutAt, Clean
    <3>2. Len(tables') = Len(ts) /\ \A l \in 1 .. Len(ts), m \in Indices : Seen(tables', l, m) = Seen(ts, l, m)
      BY <1>1, <2>2 DEF SameButAt, e
    <3>3. PICK b : b = [x \in Items |-> IF x \in {d} THEN cleaned[x] + 1 ELSE cleaned[x]]
      OBVIOUS
    <3>4. Placed(tables', b, given \cup {d}) /\ Gone(tables', b, given \cup {d})
      BY <1>2, <3>2, <3>3, PlacedSame
    <3>5. cleaned' \in [Items -> Nat]
      BY <1>2, <3>1
    <3>6. cleaned' = b /\ given' = given \cup {d}
      BY <3>1, <3>3
    <3> QED BY <3>4, <3>5, <3>6
  <2> QED BY <2>1, <2>2
<1>9. Homed(tables')
  BY <1>1, HomedUp
<1>10. HashType'
  BY <1>1, <1>2, <1>7, <1>8 DEF HashType, SameButAt
<1> QED BY <1>7, <1>8, <1>9, <1>10 DEF HashInv

\* A key that collides with no other key is put into its first place.
LEMMA AloneStops ==
    ASSUME HashInv, NEW k \in Alone
    PROVE  0 \in PutPlaces(k)
<1>1. k \in Keys
  BY DEF Alone
<1>2. 0 \in Places(Min({Size, MAX_COLLISIONS})) /\ Table(0) = 1 /\ Index(k, 0) = Hash[k]
  BY <1>1, WindowSize, FirstPlace DEF HashInv
<1>3. Key(tables, 1, Hash[k]) = k \/ Count(tables, 1, Hash[k]) = 0
  BY DEF HashInv, Homed
<1> QED BY <1>2, <1>3 DEF PutPlaces, Empty, Match, is_empty, Key, Count

\* cx_rc_hash_map_put into a slot that the search finds.
LEMMA PutStep ==
    ASSUME HashInv, NEW k \in Keys, NEW d \in Items, cx_rc_hash_map_put(k, d)
    PROVE  HashInv'
<1> DEFINE n == Min(PutPlaces(k))
           j == Table(n)
           i == Index(k, n)
<1>1. PutPlaces(k) # {} /\ PutAt(tables, j, i, k, d) /\ state' = state
  BY DEF cx_rc_hash_map_put
<1>2. state = "open" /\ d \notin given /\ given' = given \cup {d}
  BY DEF cx_rc_hash_map_put, Put
<1>3. n \in PutPlaces(k) /\ \A m \in PutPlaces(k) : n <= m
  <2>1. PutPlaces(k) \in SUBSET Nat
    BY DEF PutPlaces, Places
  <2> QED BY <1>1, <2>1, LeastIn
<1>4. n \in Places(Min({Size, MAX_COLLISIONS})) /\ (Empty(k, n) \/ Match(k, n)) /\ n \in Nat
  BY <1>3 DEF PutPlaces, Places
<1> HIDE DEF n
<1>5. HashType
  BY DEF HashInv
<1>6. /\ j \in 1 .. Len(tables)
      /\ i \in Indices
      /\ \E m \in 0 .. Min({Size, MAX_COLLISIONS}) - 1 : i = (Hash[k] + m) % Size
  BY <1>4, <1>5, WindowSize, PlaceIs
<1>n. Near(i, k)
  BY <1>6 DEF Near
<1>7. Count(tables, j, i) = 0 \/ Key(tables, j, i) = k
  BY <1>4 DEF Empty, Match, is_empty, Key, Count
<1>8. ASSUME k \in Alone PROVE j = 1 /\ i = Hash[k]
  <2>1. 0 \in PutPlaces(k)
    BY <1>8, AloneStops
  <2>2. n = 0
    BY <1>3, <1>4, <2>1
  <2> QED BY <1>5, <2>2, WindowSize, FirstPlace
<1>9. ASSUME NEW a \in Alone, a # k PROVE i # Hash[a]
  <2>1. PICK m \in 0 .. Min({Size, MAX_COLLISIONS}) - 1 : i = (Hash[k] + m) % Size
    BY <1>6
  <2>2. m \in 0 .. MAX_COLLISIONS - 1
    BY WindowSize, RcHashMapAssumption DEF RcHashMapAssumption
  <2> QED BY <1>9, <2>1, <2>2, AloneApart
<1> HIDE DEF j, i
<1>10. /\ tables \in Seq(TableSet) /\ Len(tables) \in 1 .. MaxTables
       /\ Counted(tables, held) /\ Placed(tables, cleaned, given)
       /\ Gone(tables, cleaned, given) /\ Homed(tables)
  BY <1>2 DEF HashInv, HashType
<1> QED BY <1>1, <1>2, <1>5, <1>6, <1>7, <1>8, <1>9, <1>10, <1>n, PutKeeps

\* cx_rc_hash_map_put that adds a table: the key collides with others.
LEMMA ExtendStep ==
    ASSUME HashInv, NEW k \in Keys, NEW d \in Items, put_extends(k, d)
    PROVE  HashInv'
<1> DEFINE j == Len(tables) + 1
           i == Hash[k]
<1>1. PICK ts : ts = Append(tables, NewTable)
  OBVIOUS
<1>2. PutPlaces(k) = {} /\ Len(tables) < MaxTables /\ PutAt(ts, j, i, k, d) /\ state' = state
  BY <1>1 DEF put_extends
<1>3. state = "open" /\ d \notin given /\ given' = given \cup {d}
  BY DEF put_extends, Put
<1>4. /\ HashType /\ BagOK(held) /\ given \in SUBSET Items
      /\ tables \in Seq(TableSet) /\ Len(tables) \in 1 .. MaxTables
      /\ Counted(tables, held) /\ Placed(tables, cleaned, given)
      /\ Gone(tables, cleaned, given) /\ Homed(tables)
  BY <1>3 DEF HashInv, HashType
<1>5. /\ ts \in Seq(TableSet)
      /\ Len(ts) = Len(tables) + 1
      /\ \A m \in Indices : Count(ts, Len(ts), m) = 0 /\ Seen(ts, Len(ts), m) = NULL
      /\ Counted(ts, held)
      /\ Placed(ts, cleaned, given)
      /\ Gone(ts, cleaned, given)
      /\ Homed(ts)
  BY <1>1, <1>4, Extends
<1>6. Len(tables) \in Nat /\ MaxTables \in Nat /\ Len(tables) # 0
  BY <1>4, RcHashMapAssumption DEF RcHashMapAssumption
<1>7. j = Len(ts) /\ j \in 1 .. Len(ts) /\ Len(ts) \in 1 .. MaxTables /\ j # 1
  BY <1>2, <1>5, <1>6
<1>8. i \in Indices
  BY RcHashMapAssumption DEF RcHashMapAssumption
<1>9. Count(ts, j, i) = 0
  BY <1>5, <1>7, <1>8
<1>10. k \notin Alone
  BY <1>2, AloneStops
<1>11. Near(i, k)
  BY HashNear
<1> HIDE DEF j, i
<1> QED BY <1>11, <1>2, <1>3, <1>4, <1>5, <1>7, <1>8, <1>9, <1>10, PutKeeps

\* cx_rc_hash_map_retain finds the key in a slot that is not empty.
LEMMA RetainStep ==
    ASSUME HashInv, NEW k \in Keys, cx_rc_hash_map_retain(k)
    PROVE  HashInv'
<1> DEFINE n == Min(RetainPlaces(k))
           j == Table(n)
           i == Index(k, n)
           e == Seen(tables, j, i)
<1>1. /\ state = "open" /\ RetainPlaces(k) # {} /\ ~Empty(k, n)
      /\ tables' = RetainTables(tables, j, i)
      /\ held' = held (+) SetToBag({<<j, i, k, e>>})
      /\ UNCHANGED <<cleaned, given, state>>
  BY DEF cx_rc_hash_map_retain, RetainTables
<1>2. n \in RetainPlaces(k)
  <2>1. RetainPlaces(k) \in SUBSET Nat
    BY DEF RetainPlaces, Places
  <2> QED BY <1>1, <2>1, LeastIn
<1>3. n \in Places(Min({Size, MAX_COLLISIONS})) /\ Match(k, n)
  BY <1>2 DEF RetainPlaces
<1> HIDE DEF n
<1>4. /\ HashType /\ BagOK(held) /\ cleaned \in [Items -> Nat] /\ given \in SUBSET Items
      /\ tables \in Seq(TableSet) /\ Len(tables) \in 1 .. MaxTables
      /\ Counted(tables, held) /\ Placed(tables, cleaned, given)
      /\ Gone(tables, cleaned, given) /\ Homed(tables)
  BY <1>1 DEF HashInv, HashType
<1>5. j \in 1 .. Len(tables) /\ i \in Indices
  BY <1>3, <1>4, WindowSize, PlaceIs
<1>6. Count(tables, j, i) # 0 /\ Key(tables, j, i) = k
  BY <1>1, <1>3 DEF Empty, Match, is_empty, Key, Count
<1> HIDE DEF j, i
<1>7. /\ SameButAt(tables, tables', j, i)
      /\ Key(tables', j, i) = Key(tables, j, i)
      /\ Count(tables', j, i) = Count(tables, j, i) + 1
      /\ Seen(tables', j, i) = Seen(tables, j, i)
  BY <1>1, <1>4, <1>5, <1>6, RetainDoes
<1>8. e \in Items /\ Count(tables, j, i) \in Nat
  BY <1>4, <1>5, <1>6, SlotTypes, EmptyIsNull
<1>9. Len(tables) <= MaxTables /\ Len(tables) # 0
  BY <1>4, RcHashMapAssumption DEF RcHashMapAssumption
<1>10. BagOK(held') /\ Counted(tables', held')
  <2>1. Key(tables', j, i) = k /\ Seen(tables', j, i) = e
    BY <1>6, <1>7
  <2>2. Count(tables, j, i) # 0 => Key(tables, j, i) = k /\ Seen(tables, j, i) = e
    BY <1>6
  <2> HIDE DEF e
  <2> QED BY <1>1, <1>4, <1>5, <1>7, <1>8, <1>9, <2>1, <2>2, CountedUp
<1>11. /\ Len(tables') = Len(tables) /\ tables' \in Seq(TableSet)
       /\ \A l \in 1 .. Len(tables), m \in Indices : Seen(tables', l, m) = Seen(tables, l, m)
  BY <1>7 DEF SameButAt
<1>12. Placed(tables', cleaned, given) /\ Gone(tables', cleaned, given)
  BY <1>4, <1>11, PlacedSame
<1>13. Homed(tables')
  <2>1. ASSUME NEW l \in 1 .. Len(tables), NEW m \in Indices
        PROVE  /\ Key(tables', l, m) = Key(tables, l, m)
               /\ Count(tables', l, m) \in Nat
               /\ Count(tables, l, m) = 0 => Count(tables', l, m) = 0
    <3>1. CASE l = j /\ m = i
      BY <1>6, <1>7, <1>8, <3>1
    <3>2. CASE l # j \/ m # i
      <4>1. Count(tables, l, m) \in Nat
        BY <1>4, SlotTypes
      <4> QED BY <1>7, <3>2, <4>1 DEF SameButAt
    <3> QED BY <3>1, <3>2
  <2> QED BY <1>4, <1>9, <1>11, <2>1, HomedSame
<1>14. HashType'
  BY <1>1, <1>4, <1>10, <1>11 DEF HashType
<1>15. cleaned' = cleaned /\ given' = given
  BY <1>1
<1> QED BY <1>10, <1>12, <1>13, <1>14, <1>15 DEF HashInv

\* A release at the slot of a reference that a client holds.
LEMMA ReleaseKeeps ==
    ASSUME HashInv, state = "open", NEW r \in DOMAIN held,
           ReleaseAt(r[1], r[2]), held' = held (-) SetToBag({r}), UNCHANGED <<given, state>>
    PROVE  HashInv'
<1>1. /\ HashType /\ BagOK(held) /\ cleaned \in [Items -> Nat] /\ given \in SUBSET Items
      /\ tables \in Seq(TableSet) /\ Len(tables) \in 1 .. MaxTables
      /\ Counted(tables, held) /\ Placed(tables, cleaned, given)
      /\ Gone(tables, cleaned, given) /\ Homed(tables)
  BY DEF HashInv, HashType
<1>2. PICK j, i : j = r[1] /\ i = r[2]
  OBVIOUS
<1>3. j \in 1 .. Len(tables) /\ i \in Indices /\ r[4] \in Items /\ Seen(tables, j, i) = r[4]
  BY <1>1, <1>2 DEF Counted, BagOK, Reference
<1>4. Seen(tables, j, i) # NULL /\ Count(tables, j, i) # 0 /\ Count(tables, j, i) \in Nat
  BY <1>1, <1>3, EmptyIsNull, NullIsNoItem, SlotTypes
<1>5. tables' = ReleaseTables(tables, j, i) /\ Clean(ReleaseCleans(tables[j].values, i))
  BY <1>2 DEF ReleaseAt, ReleaseTables
<1>6. /\ SameButAt(tables, tables', j, i)
      /\ Key(tables', j, i) = Key(tables, j, i)
      /\ Count(tables', j, i) = Count(tables, j, i) - 1
      /\ Seen(tables', j, i) = IF Count(tables, j, i) = 1 THEN NULL ELSE Seen(tables, j, i)
      /\ ReleaseCleans(tables[j].values, i) =
            IF Count(tables, j, i) = 1 THEN {Seen(tables, j, i)} ELSE {}
  BY <1>1, <1>3, <1>4, <1>5, ReleaseDoes
<1>7. BagOK(held') /\ Counted(tables', held')
  BY <1>1, <1>2, <1>6, CountedDown
<1>8. Placed(tables', cleaned', given) /\ Gone(tables', cleaned', given) /\ cleaned' \in [Items -> Nat]
  <2>1. CASE Count(tables, j, i) = 1
    <3>1. PICK b : b = [x \in Items |-> IF x \in {Seen(tables, j, i)} THEN cleaned[x] + 1 ELSE cleaned[x]]
      OBVIOUS
    <3>2. cleaned' = b
      BY <1>5, <1>6, <2>1, <3>1 DEF Clean
    <3>3. Placed(tables', b, given) /\ Gone(tables', b, given)
      <4>1. PICK us : us = tables'
        OBVIOUS
      <4>2. SameButAt(tables, us, j, i) /\ Seen(us, j, i) = NULL
        BY <1>6, <2>1, <4>1
      <4>3. \A x \in Items : b[x] = IF x = Seen(tables, j, i) THEN cleaned[x] + 1 ELSE cleaned[x]
        BY <3>1
      <4>4. Placed(us, b, given) /\ (Gone(tables, cleaned, given) => Gone(us, b, given))
        BY <1>1, <1>3, <1>4, <4>2, <4>3, PlacedDown
      <4> QED BY <1>1, <4>1, <4>4
    <3>4. b \in [Items -> Nat]
      BY <1>1, <3>1
    <3> QED BY <3>2, <3>3, <3>4
  <2>2. CASE Count(tables, j, i) # 1
    <3>1. cleaned' = cleaned
      BY <1>1, <1>5, <1>6, <2>2 DEF Clean
    <3>2. Len(tables') = Len(tables) /\ \A l \in 1 .. Len(tables), m \in Indices : Seen(tables', l, m) = Seen(tables, l, m)
      BY <1>6, <2>2 DEF SameButAt
    <3>3. Placed(tables', cleaned, given) /\ Gone(tables', cleaned, given)
      BY <1>1, <3>2, PlacedSame
    <3> QED BY <1>1, <3>1, <3>3
  <2> QED BY <2>1, <2>2
<1>9. Len(tables') = Len(tables) /\ tables' \in Seq(TableSet) /\ Len(tables) # 0
  BY <1>1, <1>6 DEF SameButAt
<1>10. Homed(tables')
  <2>1. ASSUME NEW l \in 1 .. Len(tables), NEW m \in Indices
        PROVE  /\ Key(tables', l, m) = Key(tables, l, m)
               /\ Count(tables', l, m) \in Nat
               /\ Count(tables, l, m) = 0 => Count(tables', l, m) = 0
    <3>1. CASE l = j /\ m = i
      BY <1>4, <1>6, <3>1
    <3>2. CASE l # j \/ m # i
      <4>1. Count(tables, l, m) \in Nat
        BY <1>1, SlotTypes
      <4> QED BY <1>6, <3>2, <4>1 DEF SameButAt
    <3> QED BY <3>1, <3>2
  <2> QED BY <1>1, <1>9, <2>1, HomedSame
<1>11. HashType'
  BY <1>1, <1>7, <1>8, <1>9 DEF HashType
<1>12. given' = given
  OBVIOUS
<1> QED BY <1>7, <1>8, <1>10, <1>11, <1>12 DEF HashInv

\* cx_rc_hash_map_release_key releases the reference of the client, when the
\* key collides with no other: it stops at the first place of the key.
LEMMA ReleaseKeyStep ==
    ASSUME HashInv, KeyReleases \subseteq Alone, NEW r \in DOMAIN held,
           cx_rc_hash_map_release_key(r)
    PROVE  HashInv'
<1> DEFINE k == r[3]
           n == Min(ReleasePlaces(k))
<1>1. k \in Alone /\ k \in Keys
  BY DEF cx_rc_hash_map_release_key, Alone
<1>2. HashType /\ BagOK(held) /\ tables \in Seq(TableSet) /\ Counted(tables, held) /\ Homed(tables)
  BY DEF HashInv, HashType
<1>3. r[1] \in 1 .. Len(tables) /\ r[2] \in Indices /\ Key(tables, r[1], r[2]) = k
      /\ Seen(tables, r[1], r[2]) = r[4] /\ r[4] \in Items
  BY <1>2 DEF Counted, BagOK, Reference
<1>4. Count(tables, r[1], r[2]) > 0
  BY <1>2, <1>3, EmptyIsNull, NullIsNoItem, SlotTypes
<1>5. r[1] = 1 /\ r[2] = Hash[k]
  BY <1>1, <1>2, <1>3, <1>4 DEF Homed
<1>6. 0 \in Places(Size) /\ Table(0) = 1 /\ Index(k, 0) = Hash[k]
  BY <1>1, <1>2, FirstPlace, RcHashMapAssumption DEF RcHashMapAssumption
<1>7. 0 \in ReleasePlaces(k)
  BY <1>3, <1>5, <1>6 DEF ReleasePlaces, Match, Key
<1>8. n = 0
  <2>1. ReleasePlaces(k) \in SUBSET Nat
    BY DEF ReleasePlaces, Places
  <2>2. n \in ReleasePlaces(k) /\ n <= 0
    BY <1>7, <2>1, LeastIn
  <2> HIDE DEF n
  <2> QED BY <2>1, <2>2
<1>9. ReleaseAt(Table(n), Index(k, n))
  BY <1>7 DEF cx_rc_hash_map_release_key
<1>10. ReleaseAt(r[1], r[2])
  <2> HIDE DEF n, k
  <2> QED BY <1>5, <1>6, <1>8, <1>9
<1> QED BY <1>10, ReleaseKeeps DEF cx_rc_hash_map_release_key

\* Every step keeps the invariant.
LEMMA HashNext ==
    ASSUME KeyReleases \subseteq Alone
    PROVE  HashInv /\ [Next]_vars => HashInv'
<1> SUFFICES ASSUME HashInv, [Next]_vars PROVE HashInv'
  OBVIOUS
<1>1. ASSUME NEW k \in Keys, NEW d \in Items, cx_rc_hash_map_put(k, d) PROVE HashInv'
  BY <1>1, PutStep
<1>2. ASSUME NEW k \in Keys, NEW d \in Items, put_extends(k, d) PROVE HashInv'
  BY <1>2, ExtendStep
<1>3. ASSUME NEW k \in Keys, NEW d \in Items, put_extend_fails(k, d) PROVE HashInv'
  <2>1. /\ tables' = tables /\ held' = held /\ cleaned' = cleaned
        /\ given' = given \cup {d} /\ state' = "broken"
    BY <1>3 DEF put_extend_fails, Put
  <2>2. HashType'
    BY <2>1 DEF HashInv, HashType
  <2>3. Placed(tables, cleaned, given \cup {d})
    BY DEF HashInv, Placed
  <2> QED BY <2>1, <2>2, <2>3 DEF HashInv
<1>4. ASSUME NEW k \in Keys, cx_rc_hash_map_retain(k) PROVE HashInv'
  BY <1>4, RetainStep
<1>5. ASSUME NEW r \in DOMAIN held, cx_rc_hash_map_release(r) PROVE HashInv'
  BY <1>5, ReleaseKeeps DEF cx_rc_hash_map_release
<1>6. ASSUME NEW r \in DOMAIN held, cx_rc_hash_map_release_key(r) PROVE HashInv'
  BY <1>6, ReleaseKeyStep
<1>7. ASSUME UNCHANGED <<tables, held, cleaned, given>>, state' \in {state, "closed"}, state # "broken" \/ state' = state
      PROVE HashInv'
  <2>1. HashType'
    BY <1>7 DEF HashInv, HashType
  <2>2. state' # "broken" => Gone(tables, cleaned, given)
    BY <1>7 DEF HashInv
  <2> QED BY <1>7, <2>1, <2>2 DEF HashInv
<1>8. CASE cx_rc_hash_map_cleanup
  BY <1>7, <1>8 DEF cx_rc_hash_map_cleanup
<1>9. CASE UNCHANGED vars
  BY <1>7, <1>9 DEF vars
<1> QED BY <1>1, <1>2, <1>3, <1>4, <1>5, <1>6, <1>8, <1>9 DEF Next, Finished, BagToSet

\* The invariant holds when clients release by key only keys that collide with
\* no other key.
LEMMA HashInvariant ==
    ASSUME KeyReleases \subseteq Alone
    PROVE  Spec => []HashInv
  BY HashInit, HashNext, PTL DEF Spec

-----------------------------------------------------------------------------
\* While a client holds a reference, its slot keeps the key and the item, and
\* the item is not cleaned up, for any number of tables and collisions.
THEOREM ReferencesStayGoodHolds ==
    ASSUME KeyReleases \subseteq Alone
    PROVE  Spec => []ReferencesStayGood
<1>1. HashInv => ReferencesStayGood
  <2> SUFFICES ASSUME HashInv, NEW r \in DOMAIN held
      PROVE  /\ tables[r[1]].keys[r[2]] = r[3]
             /\ Seen(tables, r[1], r[2]) = r[4]
             /\ cleaned[r[4]] = 0
    BY DEF ReferencesStayGood, BagToSet
  <2>1. /\ Key(tables, r[1], r[2]) = r[3] /\ Seen(tables, r[1], r[2]) = r[4]
        /\ r[1] \in 1 .. Len(tables) /\ r[2] \in Indices /\ r[4] \in Items
    BY DEF HashInv, HashType, Counted, BagOK, Reference
  <2>2. cleaned[r[4]] = 0
    BY <2>1, NullIsNoItem DEF HashInv, Placed
  <2> QED BY <2>1, <2>2 DEF Key
<1> QED BY <1>1, HashInvariant, PTL

\* An item that the map took over is in one slot that counts references, or
\* was cleaned up once.
THEOREM CleanedOnceHolds ==
    ASSUME KeyReleases \subseteq Alone
    PROVE  Spec => []CleanedOnce
<1>1. HashInv => CleanedOnce
  <2> SUFFICES ASSUME HashInv, state # "broken", NEW d \in given
      PROVE  Cardinality({s \in Slots : /\ Seen(tables, s[1], s[2]) = d
                                        /\ tables[s[1]].values.ref_count[s[2]] > 0})
                 + cleaned[d] = 1
    BY DEF CleanedOnce
  <2> DEFINE P == {s \in Slots : /\ Seen(tables, s[1], s[2]) = d
                                 /\ tables[s[1]].values.ref_count[s[2]] > 0}
  <2>1. /\ tables \in Seq(TableSet) /\ BagOK(held) /\ d \in Items
        /\ Counted(tables, held) /\ Placed(tables, cleaned, given) /\ Gone(tables, cleaned, given)
    BY DEF HashInv, HashType
  <2>2. Slots = (1 .. Len(tables)) \X Indices
    BY <2>1 DEF Slots
  <2>3. \A j \in 1 .. Len(tables), i \in Indices : Seen(tables, j, i) = d => tables[j].values.ref_count[i] > 0
    <3>1. \A j \in 1 .. Len(tables), i \in Indices : Count(tables, j, i) \in Nat
      BY <2>1, SlotTypes
    <3> QED BY <2>1, <3>1, EmptyIsNull, NullIsNoItem DEF Count
  <2>4. P = {s \in (1 .. Len(tables)) \X Indices : Seen(tables, s[1], s[2]) = d}
    BY <2>2, <2>3
  <2> HIDE DEF P
  <2>5. CASE \E j \in 1 .. Len(tables), i \in Indices : Seen(tables, j, i) = d
    <3>1. PICK j \in 1 .. Len(tables), i \in Indices : Seen(tables, j, i) = d
      BY <2>5
    <3>2. \A s \in (1 .. Len(tables)) \X Indices : Seen(tables, s[1], s[2]) = d => s = <<j, i>>
      <4> SUFFICES ASSUME NEW l \in 1 .. Len(tables), NEW m \in Indices, Seen(tables, l, m) = d
                   PROVE  l = j /\ m = i
        OBVIOUS
      <4> QED BY <2>1, <3>1, NullIsNoItem DEF Placed
    <3>3. P = {<<j, i>>}
      BY <2>4, <3>1, <3>2
    <3>4. cleaned[d] = 0
      BY <2>1, <3>1, NullIsNoItem DEF Placed
    <3>5. Cardinality(P) = 1
      BY <3>3, FS_Singleton
    <3> QED BY <3>4, <3>5 DEF P
  <2>6. CASE ~\E j \in 1 .. Len(tables), i \in Indices : Seen(tables, j, i) = d
    <3>1. P = {}
      BY <2>4, <2>6
    <3>2. Cardinality(P) = 0
      BY <3>1, FS_EmptySet
    <3>3. cleaned[d] = 1
      BY <2>1, <2>6 DEF Gone
    <3> QED BY <3>2, <3>3 DEF P
  <2> QED BY <2>5, <2>6
<1> QED BY <1>1, HashInvariant, PTL

\* Every key that has references is within reach of the probes, however many
\* tables there are; and cx_rc_hash_map_retain finds it, when it collides with
\* no other key.
THEOREM RetainFindsHolds ==
    ASSUME KeyReleases \subseteq Alone
    PROVE  Spec => []RetainFinds
<1>1. HashInv => RetainFinds
  <2> SUFFICES ASSUME HashInv, NEW k \in Keys, Copies(k) # {}
      PROVE  RetainPlaces(k) # {} /\ (k \in Alone => ~Empty(k, Min(RetainPlaces(k))))
    BY DEF RetainFinds
  <2>1. tables \in Seq(TableSet) /\ HashType /\ Homed(tables)
    BY DEF HashInv, HashType
  <2>2. PICK s \in Slots : Key(tables, s[1], s[2]) = k /\ Count(tables, s[1], s[2]) > 0
    BY DEF Copies, Key, Count
  <2>3. s[1] \in 1 .. Len(tables) /\ s[2] \in Indices
    BY <2>1 DEF Slots
  <2>4. RetainPlaces(k) # {}
    <3>1. PICK m \in 0 .. Min({Size, MAX_COLLISIONS}) - 1 : s[2] = (Hash[k] + m) % Size
      BY <2>1, <2>2, <2>3 DEF Homed, Near
    <3>2. PICK n \in Places(Min({Size, MAX_COLLISIONS})) : Table(n) = s[1] /\ Index(k, n) = s[2]
      BY <2>1, <2>3, <3>1, WindowSize, PlaceOf
    <3> QED BY <2>2, <3>2 DEF RetainPlaces, Match, Key
  <2>5. ASSUME k \in Alone PROVE ~Empty(k, Min(RetainPlaces(k)))
    <3>1. s[1] = 1 /\ s[2] = Hash[k]
      BY <2>1, <2>2, <2>3, <2>5 DEF Homed
    <3>2. Key(tables, 1, Hash[k]) = k /\ Count(tables, 1, Hash[k]) # 0
      BY <2>1, <2>2, <2>3, <3>1, SlotTypes
    <3>3. 0 \in Places(Min({Size, MAX_COLLISIONS})) /\ Table(0) = 1 /\ Index(k, 0) = Hash[k]
      BY <2>1, WindowSize, FirstPlace
    <3>4. 0 \in RetainPlaces(k) /\ ~Empty(k, 0)
      BY <3>2, <3>3 DEF RetainPlaces, Match, Empty, is_empty, Key, Count
    <3>5. RetainPlaces(k) \in SUBSET Nat
      BY DEF RetainPlaces, Places
    <3>6. Min(RetainPlaces(k)) \in Nat /\ Min(RetainPlaces(k)) <= 0
      BY <3>4, <3>5, LeastIn
    <3>7. Min(RetainPlaces(k)) = 0
      BY <3>6
    <3> QED BY <3>4, <3>7
  <2> QED BY <2>4, <2>5
<1> QED BY <1>1, HashInvariant, PTL
=============================================================================
