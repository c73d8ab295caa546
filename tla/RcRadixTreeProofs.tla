------------------------- MODULE RcRadixTreeProofs --------------------------
(***************************************************************************)
(* Proofs about RadixTree and RcRadixTree, for every radix, every number   *)
(* of levels and every set of keys.                                        *)
(***************************************************************************)
EXTENDS RcRadixTree, TLAPS, FiniteSetTheorems, SequenceTheorems, WellFoundedInduction

-----------------------------------------------------------------------------
\* Induction and arithmetic.

\* A nonempty family of subsets of a finite set has a minimal member.
LEMMA MinimalSubset ==
    ASSUME NEW S, IsFiniteSet(S), NEW F \in SUBSET (SUBSET S), F # {}
    PROVE  \E T \in F : \A U \in F : ~(U \subseteq T /\ U # T)
<1>1. IsWellFoundedOn(StrictSubsetOrdering(S), FiniteSubsetsOf(S))
  BY FS_StrictSubsetOrderingWellFounded
<1>2. F \subseteq FiniteSubsetsOf(S)
  BY FS_Subset DEF FiniteSubsetsOf
<1>3. \E T \in F : \A U \in F : ~(<<U, T>> \in StrictSubsetOrdering(S))
  BY <1>1, <1>2, WFMin
<1>4. \A U, T \in F : U \subseteq T /\ U # T => <<U, T>> \in StrictSubsetOrdering(S)
  BY DEF StrictSubsetOrdering
<1> QED BY <1>3, <1>4

\* Induction up to m, over the members of a set.
LEMMA UpTo ==
    ASSUME NEW m \in Nat, NEW S, 0 \in S, \A n \in 0 .. m - 1 : n \in S => n + 1 \in S
    PROVE  0 .. m \subseteq S
<1> SUFFICES ASSUME NEW b \in 0 .. m, b \notin S PROVE FALSE
  OBVIOUS
<1> DEFINE I == 0 .. m
           F == {0 .. n : n \in {l \in I : l \notin S}}
<1>1. IsFiniteSet(I)
  BY FS_Interval
<1>2. F \in SUBSET (SUBSET I) /\ F # {}
  OBVIOUS
<1>3. PICK T \in F : \A U \in F : ~(U \subseteq T /\ U # T)
  <2> HIDE DEF F, I
  <2> QED BY <1>1, <1>2, MinimalSubset
<1>4. PICK n \in I : n \notin S /\ T = 0 .. n
  BY <1>3
<1>5. n # 0 /\ n - 1 \in 0 .. m - 1 /\ n = (n - 1) + 1
  BY <1>4
<1>6. n - 1 \notin S
  BY <1>4, <1>5
<1>7. 0 .. (n - 1) \in F
  BY <1>5, <1>6
<1>8. 0 .. (n - 1) \subseteq T /\ n \in T /\ n \notin 0 .. (n - 1)
  BY <1>4, <1>5
<1> QED BY <1>3, <1>7, <1>8

\* The radix and the number of levels.
LEMMA Radix == RADIX_SIZE \in Nat /\ RADIX_SIZE > 1 /\ MaxLevels \in Nat
  BY RadixTreeAssumption DEF RadixTreeAssumption

\* A quotient and a remainder are what they should be.
LEMMA DivMod ==
    ASSUME NEW k \in Nat, NEW m \in Nat, m > 0
    PROVE  /\ k \div m \in Nat /\ k % m \in 0 .. m - 1
           /\ k = (m * (k \div m)) + (k % m)
  OBVIOUS

\* There is one quotient and one remainder.
LEMMA DivModUnique ==
    ASSUME NEW k \in Nat, NEW m \in Nat, m > 0, NEW q \in Nat, NEW r \in 0 .. m - 1, k = m * q + r
    PROVE  k \div m = q /\ k % m = r
  OBVIOUS

\* A digit less on both sides of a comparison with a number that ends in the
\* largest digit.
LEMMA CompareShifted ==
    ASSUME NEW k \in Nat, NEW c \in Nat
    PROVE  /\ c * RADIX_SIZE + RADIX_SIZE - 1 \in Nat
           /\ (c * RADIX_SIZE + RADIX_SIZE - 1) \div RADIX_SIZE = c
           /\ k <= c * RADIX_SIZE + RADIX_SIZE - 1 <=> k \div RADIX_SIZE <= c
<1>1. PICK R \in Nat : R = RADIX_SIZE /\ R > 1
  BY Radix
<1>2. PICK q \in Nat, r \in 0 .. R - 1 : q = k \div R /\ k = R * q + r
  BY <1>1, DivMod
<1>3. PICK p \in Nat : p = c * R /\ p = R * c
  BY <1>1
<1>4. (p + R - 1) \div R = c
  <2>1. p + R - 1 = R * c + (R - 1) /\ R - 1 \in 0 .. R - 1 /\ p + R - 1 \in Nat
    BY <1>1, <1>3
  <2> QED BY <1>1, <2>1, DivModUnique
<1>5. CASE q <= c
  <2>1. PICK e \in Nat : c = q + e
    <3>1. c - q \in Nat /\ c = q + (c - q)
      BY <1>5
    <3> QED BY <3>1
  <2>2. p = R * q + R * e /\ R * e \in Nat /\ R * q \in Nat
    BY <1>1, <1>3, <2>1
  <2>3. k <= p + R - 1
    BY <1>1, <1>2, <2>2
  <2> QED BY <1>1, <1>2, <1>3, <1>4, <1>5, <2>3
<1>6. CASE q > c
  <2>1. PICK e \in Nat : q = c + 1 + e
    <3>1. q - c - 1 \in Nat /\ q = c + 1 + (q - c - 1)
      BY <1>6
    <3> QED BY <3>1
  <2>2. R * q = p + R + R * e /\ R * e \in Nat
    BY <1>1, <1>3, <2>1
  <2>3. ~(k <= p + R - 1)
    BY <1>1, <1>2, <2>2, <1>3
  <2> QED BY <1>1, <1>2, <1>3, <1>4, <1>6, <2>3
<1> QED BY <1>5, <1>6

\* The remainder by a multiple of the radix has the same last digit, and the
\* rest of it is a remainder again.
LEMMA RemainderShifted ==
    ASSUME NEW k \in Nat, NEW c \in Nat
    PROVE  LET low == k % (c * RADIX_SIZE + RADIX_SIZE)
           IN  /\ low \in Nat
               /\ low \div RADIX_SIZE = (k \div RADIX_SIZE) % (c + 1)
               /\ low % RADIX_SIZE = k % RADIX_SIZE
<1>1. PICK R \in Nat : R = RADIX_SIZE /\ R > 1
  BY Radix
<1>2. PICK q \in Nat, r \in 0 .. R - 1 : q = k \div R /\ r = k % R /\ k = R * q + r
  BY <1>1, DivMod
<1>3. PICK p \in Nat, s \in 0 .. c : p = q \div (c + 1) /\ s = q % (c + 1) /\ q = (c + 1) * p + s
  <2>1. c + 1 \in Nat /\ c + 1 > 0 /\ (c + 1) - 1 = c
    OBVIOUS
  <2>2. q \div (c + 1) \in Nat /\ q % (c + 1) \in 0 .. (c + 1) - 1 /\ q = ((c + 1) * (q \div (c + 1))) + (q % (c + 1))
    BY <2>1, DivMod
  <2> QED BY <2>1, <2>2
<1>4. PICK m \in Nat : m = c * R + R /\ m > 0
  BY <1>1
<1>5. PICK low \in Nat : low = R * s + r
  BY <1>1
<1>6. low <= m - 1
  <2>1. PICK e \in Nat : c = s + e
    <3>1. c - s \in Nat /\ c = s + (c - s)
      BY <1>3
    <3> QED BY <3>1
  <2>2. c * R = R * s + R * e /\ R * e \in Nat /\ R * s \in Nat
    BY <1>1, <2>1
  <2> QED BY <1>1, <1>2, <1>4, <1>5, <2>2
<1>7. k = m * p + low
  <2>1. R * q = R * ((c + 1) * p) + R * s
    BY <1>1, <1>3
  <2>2. R * ((c + 1) * p) = m * p
    BY <1>1, <1>4
  <2> QED BY <1>1, <1>2, <1>5, <2>1, <2>2
<1>8. k % m = low
  <2>1. low \in 0 .. m - 1
    BY <1>4, <1>5, <1>6
  <2> QED BY ONLY k \in Nat, <1>4, <1>7, <2>1, DivModUnique
<1>9. low \div R = s /\ low % R = r
  <2>1. s \in Nat /\ r \in 0 .. R - 1 /\ R > 0
    BY <1>1, <1>2, <1>3
  <2> QED BY ONLY <1>1, <1>5, <2>1, DivModUnique
<1> QED BY <1>1, <1>2, <1>3, <1>4, <1>5, <1>8, <1>9

-----------------------------------------------------------------------------
\* Digits.

\* Shifting once more takes away one digit.
LEMMA ShiftedIs ==
    ASSUME NEW key
    PROVE  /\ Shifted(key, 0) = key
           /\ \A n \in 0 .. MaxLevels - 1 : Shifted(key, n + 1) = Shifted(key, n) \div RADIX_SIZE
<1> DEFINE D(m, f) == [i \in 0 .. m |-> IF i = 0 THEN key ELSE f[i - 1] \div RADIX_SIZE]
           S == {m \in 0 .. MaxLevels : \E f : f = D(m, f)}
           rest == CHOOSE f : f = D(MaxLevels, f)
<1>1. 0 \in S
  <2> DEFINE f == [i \in 0 .. 0 |-> key]
  <2>1. f = D(0, f)
    OBVIOUS
  <2> HIDE DEF f, D
  <2> QED BY <2>1, Radix
<1>2. ASSUME NEW m \in 0 .. MaxLevels - 1, m \in S PROVE m + 1 \in S
  <2>1. PICK f : f = D(m, f)
    BY <1>2
  <2>2. PICK x : x = f[m] \div RADIX_SIZE
    OBVIOUS
  <2> DEFINE g == [i \in 0 .. m + 1 |-> IF i = m + 1 THEN x ELSE f[i]]
  <2>3. ASSUME NEW i \in 0 .. m + 1 PROVE g[i] = D(m + 1, g)[i]
    <3>1. CASE i = m + 1
      BY <2>2, <3>1
    <3>2. CASE i # m + 1
      <4>1. i \in 0 .. m /\ g[i] = f[i] /\ (i # 0 => g[i - 1] = f[i - 1])
        BY <3>2
      <4>2. f[i] = IF i = 0 THEN key ELSE f[i - 1] \div RADIX_SIZE
        BY <2>1, <4>1
      <4> HIDE DEF g
      <4> QED BY <4>1, <4>2
    <3> QED BY <3>1, <3>2
  <2>4. g = D(m + 1, g)
    BY <2>3
  <2>5. m + 1 \in 0 .. MaxLevels
    BY Radix
  <2> HIDE DEF g, D
  <2> QED BY <2>4, <2>5
<1>3. MaxLevels \in S
  <2> HIDE DEF S
  <2>1. 0 .. MaxLevels \subseteq S
    BY <1>1, <1>2, Radix, UpTo
  <2> QED BY <2>1, Radix
<1>4. rest = D(MaxLevels, rest)
  <2> HIDE DEF D
  <2> QED BY <1>3
<1>5. \A n : Shifted(key, n) = rest[n]
  BY DEF Shifted
<1> HIDE DEF rest
<1>6. \A i \in 0 .. MaxLevels : rest[i] = IF i = 0 THEN key ELSE rest[i - 1] \div RADIX_SIZE
  BY <1>4
<1>7. Shifted(key, 0) = key
  BY <1>5, <1>6, Radix
<1>8. ASSUME NEW n \in 0 .. MaxLevels - 1
      PROVE  Shifted(key, n + 1) = Shifted(key, n) \div RADIX_SIZE
  <2>1. n + 1 \in 0 .. MaxLevels /\ n + 1 # 0 /\ (n + 1) - 1 = n
    BY Radix
  <2> QED BY <1>5, <1>6, <2>1
<1> QED BY <1>7, <1>8

\* What is left of a number is a number.
LEMMA ShiftedNat ==
    ASSUME NEW k \in Nat
    PROVE  \A n \in 0 .. MaxLevels : Shifted(k, n) \in Nat
<1> DEFINE S == {n \in 0 .. MaxLevels : Shifted(k, n) \in Nat}
<1>1. 0 \in S
  BY ShiftedIs, Radix
<1>2. ASSUME NEW n \in 0 .. MaxLevels - 1, n \in S PROVE n + 1 \in S
  <2>1. Shifted(k, n + 1) = Shifted(k, n) \div RADIX_SIZE
    BY ShiftedIs
  <2>2. Shifted(k, n) \in Nat /\ n + 1 \in 0 .. MaxLevels
    BY <1>2, Radix
  <2>3. Shifted(k, n) \div RADIX_SIZE \in Nat
    BY <2>2, Radix, DivMod
  <2> QED BY <2>1, <2>2, <2>3
<1>3. 0 .. MaxLevels \subseteq S
  <2> HIDE DEF S
  <2> QED BY <1>1, <1>2, Radix, UpTo
<1> QED BY <1>3

\* Shifting first by one digit and then by n.
LEMMA ShiftedTail ==
    ASSUME NEW k \in Nat
    PROVE  \A n \in 0 .. MaxLevels - 1 : Shifted(k \div RADIX_SIZE, n) = Shifted(k, n + 1)
<1>1. CASE MaxLevels = 0
  BY <1>1
<1>2. CASE MaxLevels # 0
  <2> DEFINE q == k \div RADIX_SIZE
             S == {n \in 0 .. MaxLevels - 1 : Shifted(q, n) = Shifted(k, n + 1)}
  <2>1. 0 \in S
    <3>1. 0 \in 0 .. MaxLevels - 1
      BY <1>2, Radix
    <3>2. Shifted(q, 0) = q /\ Shifted(k, 0) = k /\ Shifted(k, 0 + 1) = Shifted(k, 0) \div RADIX_SIZE
      BY <3>1, ShiftedIs
    <3> QED BY <3>1, <3>2
  <2>2. ASSUME NEW n \in 0 .. (MaxLevels - 1) - 1, n \in S PROVE n + 1 \in S
    <3>1. n \in 0 .. MaxLevels - 1 /\ n + 1 \in 0 .. MaxLevels - 1
      BY Radix
    <3>2. /\ Shifted(q, n + 1) = Shifted(q, n) \div RADIX_SIZE
          /\ Shifted(k, (n + 1) + 1) = Shifted(k, n + 1) \div RADIX_SIZE
      BY <3>1, ShiftedIs
    <3> QED BY <2>2, <3>1, <3>2
  <2>3. 0 .. MaxLevels - 1 \subseteq S
    <3>1. MaxLevels - 1 \in Nat
      BY <1>2, Radix
    <3> HIDE DEF S
    <3> QED BY <2>1, <2>2, <3>1, UpTo
  <2> QED BY <2>3
<1> QED BY <1>1, <1>2

\* Nothing is left of nothing.
LEMMA ShiftedZero ==
    ASSUME NEW k \in Nat, NEW m \in 0 .. MaxLevels, Shifted(k, m) = 0
    PROVE  \A n \in m .. MaxLevels : Shifted(k, n) = 0
<1> DEFINE S == {n \in 0 .. MaxLevels : n < m \/ Shifted(k, n) = 0}
<1>1. 0 \in S
  BY Radix
<1>2. ASSUME NEW n \in 0 .. MaxLevels - 1, n \in S PROVE n + 1 \in S
  <2>1. Shifted(k, n + 1) = Shifted(k, n) \div RADIX_SIZE /\ n + 1 \in 0 .. MaxLevels
    BY ShiftedIs, Radix
  <2>2. CASE n + 1 < m
    BY <2>1, <2>2
  <2>3. CASE n + 1 = m
    BY <2>3, <2>1
  <2>4. CASE n + 1 > m
    <3>1. Shifted(k, n) = 0 /\ 0 \div RADIX_SIZE = 0
      BY <1>2, <2>4, Radix
    <3> QED BY <2>1, <3>1
  <2> QED BY <2>2, <2>3, <2>4
<1>3. 0 .. MaxLevels \subseteq S
  <2> HIDE DEF S
  <2> QED BY <1>1, <1>2, Radix, UpTo
<1> QED BY <1>3

\* Two numbers with the same digits are the same.
LEMMA SameDigits ==
    ASSUME NEW j \in Nat, NEW k \in Nat, NEW L \in 0 .. MaxLevels, Shifted(j, L) = Shifted(k, L),
           \A h \in 1 .. L : Digit(j, h) = Digit(k, h)
    PROVE  j = k
<1> DEFINE S == {n \in 0 .. L : Shifted(j, L - n) = Shifted(k, L - n)}
<1>0. L \in Nat /\ L <= MaxLevels
  BY Radix
<1>1. 0 \in S
  BY <1>0
<1>2. ASSUME NEW n \in 0 .. L - 1, n \in S PROVE n + 1 \in S
  <2>1. PICK h \in 0 .. L - 1 : h = L - (n + 1) /\ h + 1 = L - n
    BY <1>0
  <2>2. h \in 0 .. MaxLevels - 1 /\ h + 1 \in 1 .. L /\ (h + 1) - 1 = h /\ h \in 0 .. MaxLevels
    BY <1>0, Radix
  <2>3. PICK a \in Nat, b \in Nat : a = Shifted(j, h) /\ b = Shifted(k, h)
    BY <2>2, ShiftedNat
  <2>4. a \div RADIX_SIZE = b \div RADIX_SIZE
    BY <1>2, <2>1, <2>2, <2>3, ShiftedIs
  <2>5. a % RADIX_SIZE = b % RADIX_SIZE
    BY <2>2, <2>3 DEF Digit
  <2>6. a = b
    <3>1. /\ a = (RADIX_SIZE * (a \div RADIX_SIZE)) + (a % RADIX_SIZE)
          /\ b = (RADIX_SIZE * (b \div RADIX_SIZE)) + (b % RADIX_SIZE)
      BY Radix, DivMod
    <3> QED BY <2>4, <2>5, <3>1
  <2> QED BY <1>0, <2>1, <2>3, <2>6
<1>3. L \in S
  <2> HIDE DEF S
  <2>1. 0 .. L \subseteq S
    BY <1>0, <1>1, <1>2, UpTo
  <2> QED BY <1>0, <2>1
<1>4. Shifted(j, 0) = Shifted(k, 0)
  BY <1>0, <1>3
<1> QED BY <1>4, ShiftedIs

\* A number of L digits that are all as large as possible: what a capacity is.
Full(c, L) ==
    /\ L \in 0 .. MaxLevels
    /\ c \in Nat
    /\ Shifted(c, L) = 0
    /\ \A n \in 0 .. L - 1 : Shifted(c, n) = Shifted(c, n + 1) * RADIX_SIZE + RADIX_SIZE - 1

\* The sizes of such a number.
LEMMA FullNat ==
    ASSUME NEW c, NEW L, Full(c, L)
    PROVE  L \in Nat /\ L <= MaxLevels /\ c \in Nat /\ L \in 0 .. MaxLevels
  BY Radix DEF Full

\* The loops that shift a capacity make one turn for every digit.
LEMMA LevelsIs ==
    ASSUME NEW t, NEW L, Full(t.capacity, L)
    PROVE  Levels(t) = L
<1> DEFINE P(n) == Shifted(t.capacity, n) = 0 /\ (n > 0 => Shifted(t.capacity, n - 1) # 0)
<1>0. L \in Nat /\ L <= MaxLevels /\ t.capacity \in Nat /\ L \in 0 .. MaxLevels
  BY Radix DEF Full
<1>1. ASSUME NEW n \in 0 .. L - 1 PROVE Shifted(t.capacity, n) # 0
  <2>1. n + 1 \in 0 .. MaxLevels
    BY <1>0, Radix
  <2>2. PICK a \in Nat : a = Shifted(t.capacity, n + 1)
    BY <1>0, <2>1, ShiftedNat
  <2>3. a * RADIX_SIZE \in Nat
    BY Radix
  <2>4. Shifted(t.capacity, n) = a * RADIX_SIZE + RADIX_SIZE - 1
    BY <2>2 DEF Full
  <2> QED BY <2>3, <2>4, Radix
<1>2. P(L)
  <2>1. Shifted(t.capacity, L) = 0
    BY DEF Full
  <2>2. L > 0 => L - 1 \in 0 .. L - 1
    BY <1>0
  <2> QED BY <1>1, <2>1, <2>2
<1>3. ASSUME NEW n \in 0 .. MaxLevels, P(n) PROVE n = L
  <2>1. CASE n < L
    <3>1. n \in 0 .. L - 1
      BY <1>0, <2>1
    <3> QED BY <1>1, <1>3, <3>1
  <2>2. CASE n > L
    <3>1. n - 1 \in L .. MaxLevels /\ n > 0
      BY <1>0, <2>2, Radix
    <3>2. Shifted(t.capacity, n - 1) = 0
      BY <1>0, <1>2, <3>1, ShiftedZero
    <3> QED BY <1>3, <3>1, <3>2
  <2> QED BY <1>0, <2>1, <2>2, Radix
<1>4. Levels(t) = CHOOSE n \in 0 .. MaxLevels : P(n)
  BY DEF Levels
<1> HIDE DEF P
<1> QED BY <1>0, <1>2, <1>3, <1>4
\* Induction down from m, over the members of a set.
LEMMA DownFrom ==
    ASSUME NEW m \in Nat, NEW S, m \in S, \A n \in 0 .. m - 1 : n + 1 \in S => n \in S
    PROVE  0 .. m \subseteq S
<1> DEFINE Q == {n \in 0 .. m : m - n \in S}
<1>1. 0 \in Q
  OBVIOUS
<1>2. ASSUME NEW n \in 0 .. m - 1, n \in Q PROVE n + 1 \in Q
  <2>1. PICK i \in 0 .. m - 1 : i = m - (n + 1) /\ i + 1 = m - n
    OBVIOUS
  <2> QED BY <1>2, <2>1
<1>3. 0 .. m \subseteq Q
  <2> HIDE DEF Q
  <2> QED BY <1>1, <1>2, UpTo
<1>4. ASSUME NEW n \in 0 .. m PROVE n \in S
  <2>1. PICK i \in 0 .. m : i = m - n /\ m - i = n
    OBVIOUS
  <2> QED BY <1>3, <2>1
<1> QED BY <1>4

\* A number fits L digits if nothing is left of it after L shifts: the
\* comparison with the capacity tells which keys have a way in the tree.
LEMMA FitsIs ==
    ASSUME NEW c, NEW L, Full(c, L), NEW k \in Nat
    PROVE  k <= c <=> Shifted(k, L) = 0
<1>0. L \in Nat /\ L <= MaxLevels /\ c \in Nat /\ L \in 0 .. MaxLevels
  BY Radix DEF Full
<1> DEFINE S == {n \in 0 .. L : k <= c <=> Shifted(k, n) <= Shifted(c, n)}
<1>1. 0 \in S
  BY <1>0, ShiftedIs
<1>2. ASSUME NEW n \in 0 .. L - 1, n \in S PROVE n + 1 \in S
  <2>1. n \in 0 .. MaxLevels - 1 /\ n + 1 \in 0 .. MaxLevels /\ n \in 0 .. MaxLevels /\ n + 1 \in 0 .. L
    BY <1>0, Radix
  <2>2. PICK a \in Nat, b \in Nat : a = Shifted(k, n) /\ b = Shifted(c, n + 1)
    BY <1>0, <2>1, ShiftedNat
  <2>3. Shifted(k, n + 1) = a \div RADIX_SIZE
    BY <2>1, <2>2, ShiftedIs
  <2>4. Shifted(c, n) = b * RADIX_SIZE + RADIX_SIZE - 1
    BY <2>2 DEF Full
  <2>5. a <= b * RADIX_SIZE + RADIX_SIZE - 1 <=> a \div RADIX_SIZE <= b
    BY CompareShifted
  <2> QED BY <1>2, <2>1, <2>2, <2>3, <2>4, <2>5
<1>3. L \in S
  <2> HIDE DEF S
  <2>1. 0 .. L \subseteq S
    BY <1>0, <1>1, <1>2, UpTo
  <2> QED BY <1>0, <2>1
<1>4. Shifted(c, L) = 0 /\ Shifted(k, L) \in Nat
  BY <1>0, ShiftedNat DEF Full
<1> QED BY <1>3, <1>4

\* A turn of resize adds a largest digit to the capacity.
LEMMA FullLift ==
    ASSUME NEW c, NEW L, Full(c, L), L < MaxLevels
    PROVE  Full(c * RADIX_SIZE + RADIX_SIZE - 1, L + 1)
<1>0. L \in Nat /\ L + 1 \in 0 .. MaxLevels /\ c \in Nat
  BY Radix DEF Full
<1>1. PICK C \in Nat : C = c * RADIX_SIZE + RADIX_SIZE - 1 /\ C \div RADIX_SIZE = c
  BY <1>0, CompareShifted
<1>2. Shifted(C, 0) = C
  BY ShiftedIs
<1>3. \A n \in 0 .. MaxLevels - 1 : Shifted(C, n + 1) = Shifted(c, n)
  BY <1>1, ShiftedTail
<1>4. Shifted(C, L + 1) = 0
  <2>1. L \in 0 .. MaxLevels - 1
    BY <1>0, Radix
  <2> QED BY <1>3, <2>1 DEF Full
<1>5. ASSUME NEW n \in 0 .. (L + 1) - 1
      PROVE  Shifted(C, n) = Shifted(C, n + 1) * RADIX_SIZE + RADIX_SIZE - 1
  <2>1. CASE n = 0
    <3>1. Shifted(C, 0 + 1) = c
      <4>1. 0 \in 0 .. MaxLevels - 1
        BY <1>0, Radix
      <4> QED BY <4>1, <1>3, <1>0, ShiftedIs
    <3> QED BY <1>1, <1>2, <2>1, <3>1
  <2>2. CASE n # 0
    <3>1. PICK m \in 0 .. L - 1 : n = m + 1 /\ m \in 0 .. MaxLevels - 1 /\ m + 1 \in 0 .. MaxLevels - 1
      <4>1. n - 1 \in 0 .. L - 1 /\ n = (n - 1) + 1 /\ n - 1 \in 0 .. MaxLevels - 1 /\ (n - 1) + 1 \in 0 .. MaxLevels - 1
        BY <1>0, <2>2, Radix
      <4> QED BY <4>1
    <3>2. Shifted(C, m + 1) = Shifted(c, m) /\ Shifted(C, (m + 1) + 1) = Shifted(c, m + 1)
      BY <1>3, <3>1
    <3>3. Shifted(c, m) = Shifted(c, m + 1) * RADIX_SIZE + RADIX_SIZE - 1
      BY <3>1 DEF Full
    <3> QED BY <3>1, <3>2, <3>3
  <2> QED BY <2>1, <2>2
<1> QED BY <1>0, <1>1, <1>4, <1>5 DEF Full

\* The remainder of a key by the number of places of the tree has the same
\* digits as the key, as far as the tree looks at them.
LEMMA LowDigits ==
    ASSUME NEW c, NEW L, Full(c, L), NEW k \in Nat
    PROVE  /\ k % (c + 1) \in Nat /\ k % (c + 1) <= c
           /\ \A h \in 1 .. L : Digit(k % (c + 1), h) = Digit(k, h)
<1>0. L \in Nat /\ L <= MaxLevels /\ c \in Nat /\ L \in 0 .. MaxLevels
  BY Radix DEF Full
<1>1. PICK low \in Nat : low = k % (c + 1) /\ low <= c
  <2>1. c + 1 \in Nat /\ c + 1 > 0
    BY <1>0
  <2>2. k % (c + 1) \in 0 .. (c + 1) - 1
    BY <2>1, DivMod
  <2> QED BY <1>0, <2>2
<1> DEFINE S == {n \in 0 .. L : Shifted(low, n) = Shifted(k, n) % (Shifted(c, n) + 1)}
<1>2. 0 \in S
  BY <1>0, <1>1, ShiftedIs
<1>3. ASSUME NEW n \in 0 .. L - 1, n \in S
      PROVE  n + 1 \in S /\ Digit(low, n + 1) = Digit(k, n + 1)
  <2>1. n \in 0 .. MaxLevels - 1 /\ n + 1 \in 0 .. MaxLevels /\ n \in 0 .. MaxLevels /\ n + 1 \in 0 .. L /\ (n + 1) - 1 = n
    BY <1>0, Radix
  <2>2. PICK a \in Nat, b \in Nat : a = Shifted(k, n) /\ b = Shifted(c, n + 1)
    BY <1>0, <2>1, ShiftedNat
  <2>3. Shifted(k, n + 1) = a \div RADIX_SIZE /\ Shifted(low, n + 1) = Shifted(low, n) \div RADIX_SIZE
    BY <2>1, <2>2, ShiftedIs
  <2>4. Shifted(c, n) + 1 = b * RADIX_SIZE + RADIX_SIZE
    <3>1. Shifted(c, n) = b * RADIX_SIZE + RADIX_SIZE - 1
      BY <2>2 DEF Full
    <3>2. b * RADIX_SIZE \in Nat
      BY Radix
    <3> QED BY <3>1, <3>2, Radix
  <2>5. Shifted(low, n) = a % (b * RADIX_SIZE + RADIX_SIZE)
    BY <1>3, <2>2, <2>4
  <2>6. /\ Shifted(low, n) \div RADIX_SIZE = (a \div RADIX_SIZE) % (b + 1)
        /\ Shifted(low, n) % RADIX_SIZE = a % RADIX_SIZE
    BY <2>5, RemainderShifted
  <2>7. Digit(low, n + 1) = Digit(k, n + 1)
    BY <2>1, <2>2, <2>6 DEF Digit
  <2> QED BY <2>1, <2>2, <2>3, <2>6, <2>7
<1>4. 0 .. L \subseteq S
  <2> HIDE DEF S
  <2> QED BY <1>0, <1>2, <1>3, UpTo
<1>5. ASSUME NEW h \in 1 .. L PROVE Digit(low, h) = Digit(k, h)
  <2>1. PICK n \in 0 .. L - 1 : h = n + 1 /\ n \in 0 .. L
    <3>1. h - 1 \in 0 .. L - 1 /\ h = (h - 1) + 1 /\ h - 1 \in 0 .. L
      BY <1>0
    <3> QED BY <3>1
  <2>2. n \in S
    BY <1>4, <2>1
  <2> HIDE DEF S
  <2> QED BY <1>3, <2>1, <2>2
<1> QED BY <1>1, <1>5

\* A digit selects a child of a branch.
LEMMA DigitIn ==
    ASSUME NEW k \in Nat, NEW h \in 1 .. MaxLevels
    PROVE  Digit(k, h) \in Digits
<1>1. h - 1 \in 0 .. MaxLevels
  BY Radix
<1>2. Shifted(k, h - 1) \in Nat
  BY <1>1, ShiftedNat
<1> QED BY <1>2, DivMod, Radix DEF Digit, Digits

\* The digit above the first L tells the keys that fit them from those that
\* need it.
LEMMA TopDigit ==
    ASSUME NEW k \in Nat, NEW L \in 0 .. MaxLevels - 1
    PROVE  /\ Shifted(k, L) = 0 => Digit(k, L + 1) = 0
           /\ Shifted(k, L + 1) = 0 /\ Shifted(k, L) # 0 => Digit(k, L + 1) # 0
<1>1. L \in 0 .. MaxLevels /\ (L + 1) - 1 = L
  BY Radix
<1>2. PICK a \in Nat : a = Shifted(k, L)
  BY <1>1, ShiftedNat
<1>3. Shifted(k, L + 1) = a \div RADIX_SIZE /\ Digit(k, L + 1) = a % RADIX_SIZE
  BY <1>1, <1>2, ShiftedIs DEF Digit
<1>4. a = (RADIX_SIZE * (a \div RADIX_SIZE)) + (a % RADIX_SIZE) /\ a % RADIX_SIZE \in Nat
  BY DivMod, Radix
<1>5. a = 0 => a % RADIX_SIZE = 0
  BY Radix
<1>6. a \div RADIX_SIZE = 0 => a = a % RADIX_SIZE
  <2>1. RADIX_SIZE * 0 = 0
    BY Radix
  <2> QED BY <1>4, <2>1
<1> QED BY <1>2, <1>3, <1>5, <1>6

-----------------------------------------------------------------------------
\* The loops of radix_tree.c, turn by turn: each of the recursive functions
\* of RadixTreeOps exists and is what its definition says.

\* What the loop of resize leaves: a tree that a number of turns produced.
LEMMA ResizeIs ==
    ASSUME NEW t, NEW key
    PROVE  \E up : /\ resize(t, key) = up[MaxLevels]
                   /\ up[0] = t
                   /\ \A n \in 0 .. MaxLevels - 1 :
                         up[n + 1] = IF up[n].capacity < key THEN Lift(up[n]) ELSE up[n]
<1> DEFINE Turn(u) == IF u.capacity < key THEN Lift(u) ELSE u
           D(m, f) == [i \in 0 .. m |-> IF i = 0 THEN t ELSE Turn(f[i - 1])]
           S == {m \in 0 .. MaxLevels : \E f : f = D(m, f)}
           up == CHOOSE f : f = D(MaxLevels, f)
<1>1. 0 \in S
  <2> DEFINE f == [i \in 0 .. 0 |-> t]
  <2>1. f = D(0, f)
    OBVIOUS
  <2> HIDE DEF f, D
  <2> QED BY <2>1, Radix
<1>2. ASSUME NEW m \in 0 .. MaxLevels - 1, m \in S PROVE m + 1 \in S
  <2>1. PICK f : f = D(m, f)
    BY <1>2
  <2>2. PICK x : x = Turn(f[m])
    OBVIOUS
  <2> DEFINE g == [i \in 0 .. m + 1 |-> IF i = m + 1 THEN x ELSE f[i]]
  <2> HIDE DEF Turn
  <2>3. ASSUME NEW i \in 0 .. m + 1 PROVE g[i] = D(m + 1, g)[i]
    <3>1. CASE i = m + 1
      BY <2>2, <3>1
    <3>2. CASE i # m + 1
      <4>1. i \in 0 .. m /\ g[i] = f[i] /\ (i # 0 => g[i - 1] = f[i - 1])
        BY <3>2
      <4>2. f[i] = IF i = 0 THEN t ELSE Turn(f[i - 1])
        BY <2>1, <4>1
      <4> HIDE DEF g
      <4> QED BY <4>1, <4>2
    <3> QED BY <3>1, <3>2
  <2>4. g = D(m + 1, g)
    BY <2>3
  <2>5. m + 1 \in 0 .. MaxLevels
    BY Radix
  <2> HIDE DEF g, D
  <2> QED BY <2>4, <2>5
<1>3. MaxLevels \in S
  <2> HIDE DEF S
  <2>1. 0 .. MaxLevels \subseteq S
    BY Radix, <1>1, <1>2, UpTo
  <2> QED BY <2>1, Radix
<1>4. up = D(MaxLevels, up)
  <2> HIDE DEF D
  <2> QED BY <1>3
<1>5. resize(t, key) = up[MaxLevels]
  BY DEF resize
<1> HIDE DEF up
<1>6. \A i \in 0 .. MaxLevels : up[i] = IF i = 0 THEN t ELSE Turn(up[i - 1])
  <2> HIDE DEF Turn
  <2> QED BY <1>4
<1>7. up[0] = t
  BY <1>6, Radix
<1>8. ASSUME NEW n \in 0 .. MaxLevels - 1
      PROVE  up[n + 1] = IF up[n].capacity < key THEN Lift(up[n]) ELSE up[n]
  <2>1. n + 1 \in 0 .. MaxLevels /\ n + 1 # 0 /\ (n + 1) - 1 = n
    BY Radix
  <2>2. up[n + 1] = Turn(up[n])
    <3> HIDE DEF Turn
    <3> QED BY <1>6, <2>1
  <2> QED BY <2>2
<1> QED BY <1>5, <1>7, <1>8

\* The descent of cx_radix_tree_new_leaf in the tree g that resize left.
LEMMA NewLeafIs ==
    ASSUME NEW t, NEW key, NEW leaf, NEW g, g = resize(t, key), NEW n \in Nat, Levels(g) = n
    PROVE  IF g.root = NULL THEN new_leaf(t, key, leaf) = [g EXCEPT !.root = leaf]
           ELSE \E walk : /\ new_leaf(t, key, leaf) = [g EXCEPT !.children = walk[n].children]
                          /\ walk[0] = [node |-> g.root, children |-> g.children]
                          /\ \A i \in 0 .. n - 1 :
                                walk[i + 1] = Descend(walk[i], key, n - i, leaf)
<1> DEFINE start == [node |-> g.root, children |-> g.children]
           Turn(i, w) == Descend(w, key, n + 1 - i, leaf)
           D(m, f) == [i \in 0 .. m |-> IF i = 0 THEN start ELSE Turn(i, f[i - 1])]
           S == {m \in 0 .. n : \E f : f = D(m, f)}
           walk == CHOOSE f : f = D(n, f)
<1>5. new_leaf(t, key, leaf) = IF g.root = NULL THEN [g EXCEPT !.root = leaf]
                               ELSE [g EXCEPT !.children = walk[n].children]
  BY DEF new_leaf
<1> HIDE DEF start
<1>1. 0 \in S
  <2> DEFINE f == [i \in 0 .. 0 |-> start]
  <2>1. f = D(0, f)
    OBVIOUS
  <2> HIDE DEF f, D
  <2> QED BY <2>1
<1>2. ASSUME NEW m \in 0 .. n - 1, m \in S PROVE m + 1 \in S
  <2>1. PICK f : f = D(m, f)
    BY <1>2
  <2>2. PICK x : x = Turn(m + 1, f[m])
    OBVIOUS
  <2> DEFINE e == [i \in 0 .. m + 1 |-> IF i = m + 1 THEN x ELSE f[i]]
  <2> HIDE DEF Turn
  <2>3. ASSUME NEW i \in 0 .. m + 1 PROVE e[i] = D(m + 1, e)[i]
    <3>1. CASE i = m + 1
      BY <2>2, <3>1
    <3>2. CASE i # m + 1
      <4>1. i \in 0 .. m /\ e[i] = f[i] /\ (i # 0 => e[i - 1] = f[i - 1])
        BY <3>2
      <4>2. f[i] = IF i = 0 THEN start ELSE Turn(i, f[i - 1])
        BY <2>1, <4>1
      <4> HIDE DEF e
      <4> QED BY <4>1, <4>2
    <3> QED BY <3>1, <3>2
  <2>4. e = D(m + 1, e)
    BY <2>3
  <2>5. m + 1 \in 0 .. n
    OBVIOUS
  <2> HIDE DEF e, D
  <2> QED BY <2>4, <2>5
<1>3. n \in S
  <2> HIDE DEF S
  <2>1. 0 .. n \subseteq S
    BY <1>1, <1>2, UpTo
  <2> QED BY <2>1
<1>4. walk = D(n, walk)
  <2> HIDE DEF D
  <2> QED BY <1>3
<1> HIDE DEF walk
<1>6. \A i \in 0 .. n : walk[i] = IF i = 0 THEN start ELSE Turn(i, walk[i - 1])
  <2> HIDE DEF Turn
  <2> QED BY <1>4
<1>7. walk[0] = [node |-> g.root, children |-> g.children]
  BY <1>6 DEF start
<1>8. ASSUME NEW i \in 0 .. n - 1
      PROVE  walk[i + 1] = Descend(walk[i], key, n - i, leaf)
  <2>1. i + 1 \in 0 .. n /\ i + 1 # 0 /\ (i + 1) - 1 = i /\ n + 1 - (i + 1) = n - i
    OBVIOUS
  <2>2. walk[i + 1] = Turn(i + 1, walk[i])
    <3> HIDE DEF Turn
    <3> QED BY <1>6, <2>1
  <2> QED BY <2>1, <2>2
<1> QED BY <1>5, <1>7, <1>8

-----------------------------------------------------------------------------
\* The shape of a tree.

\* What a pointer of the tree may be, by its type.
Pointers == Leaves \cup Nat \cup {NULL}
Trees == [capacity : Nat, root : Pointers, children : Seq([Digits -> Pointers])]

\* x is NULL or a node h levels above the leaves, of a tree with N branches of
\* the heights lv and with leaves from U.
IsNode(x, h, N, U, lv) ==
    \/ x = NULL
    \/ h = 0 /\ x \in U
    \/ h > 0 /\ x \in 1 .. N /\ lv[x] = h

\* The tree has L levels and the branches have the heights lv.
ShapeTypes(t, U, L, lv) ==
    /\ t \in Trees
    /\ U \subseteq Leaves
    /\ Full(t.capacity, L)
    /\ lv \in [1 .. Len(t.children) -> 1 .. L]

\* All nodes below a branch are one level lower.
ShapeNodes(t, U, L, lv) ==
    /\ IsNode(t.root, L, Len(t.children), U, lv)
    /\ L > 0 => t.root # NULL
    /\ \A b \in 1 .. Len(t.children), d \in Digits :
          IsNode(t.children[b][d], lv[b] - 1, Len(t.children), U, lv)

\* No node is below two branches.
ShapeSingle(t, lv) ==
    \A b, c \in 1 .. Len(t.children), d, e \in Digits :
        lv[b] = lv[c] /\ t.children[b][d] = t.children[c][e] /\ t.children[b][d] # NULL
            => b = c /\ d = e

Shape(t, U, L, lv) ==
    ShapeTypes(t, U, L, lv) /\ ShapeNodes(t, U, L, lv) /\ ShapeSingle(t, lv)

\* The invariant of radix_tree.c: the branches can be given heights that fit
\* the pointers between them and to the leaves that are in use.
IsTree(t, U) == \E L : \E lv : Shape(t, U, L, lv)

\* NULL is no leaf and no branch.
LEMMA NullIs == NULL \notin Leaves /\ NULL \notin Nat
  BY RadixTreeAssumption DEF RadixTreeAssumption

\* The types of the parts of a tree.
LEMMA ShapeParts ==
    ASSUME NEW t, NEW U, NEW L, NEW lv, Shape(t, U, L, lv)
    PROVE  /\ L \in Nat /\ L <= MaxLevels /\ L \in 0 .. MaxLevels
           /\ t.capacity \in Nat /\ Full(t.capacity, L)
           /\ t.children \in Seq([Digits -> Pointers])
           /\ Len(t.children) \in Nat
           /\ \A b \in 1 .. Len(t.children) : lv[b] \in 1 .. L /\ lv[b] \in Nat /\ lv[b] > 0
           /\ U \subseteq Leaves
<1>1. Full(t.capacity, L) /\ t \in Trees /\ U \subseteq Leaves /\ lv \in [1 .. Len(t.children) -> 1 .. L]
  BY DEF Shape, ShapeTypes
<1>2. L \in Nat /\ L <= MaxLevels /\ t.capacity \in Nat /\ L \in 0 .. MaxLevels
  BY <1>1, FullNat
<1>3. t.children \in Seq([Digits -> Pointers])
  BY <1>1 DEF Trees
<1> QED BY <1>1, <1>2, <1>3

\* The way to a key starts at the root and goes from child to child.
LEMMA Way ==
    ASSUME NEW t, NEW U, NEW L, NEW lv, Shape(t, U, L, lv)
    PROVE  \A key :
              /\ Reach(t, key, L) = t.root
              /\ \A h \in 0 .. L - 1 :
                    Reach(t, key, h) = IF Reach(t, key, h + 1) = NULL THEN NULL
                                       ELSE t.children[Reach(t, key, h + 1)][Digit(key, h + 1)]
<1> SUFFICES ASSUME NEW key
             PROVE  /\ Reach(t, key, L) = t.root
                    /\ \A h \in 0 .. L - 1 :
                          Reach(t, key, h) = IF Reach(t, key, h + 1) = NULL THEN NULL
                                             ELSE t.children[Reach(t, key, h + 1)][Digit(key, h + 1)]
  OBVIOUS
<1>0. L \in Nat /\ Levels(t) = L
  BY ShapeParts, LevelsIs
<1> DEFINE Turn(i, x) == IF x = NULL THEN NULL ELSE t.children[x][Digit(key, L - i + 1)]
           D(m, f) == [i \in 0 .. m |-> IF i = 0 THEN t.root ELSE Turn(i, f[i - 1])]
           S == {m \in 0 .. L : \E f : f = D(m, f)}
           node == CHOOSE f : f = D(L, f)
<1>1. 0 \in S
  <2> DEFINE f == [i \in 0 .. 0 |-> t.root]
  <2>1. f = D(0, f)
    OBVIOUS
  <2> HIDE DEF f, D
  <2> QED BY <2>1, <1>0
<1>2. ASSUME NEW m \in 0 .. L - 1, m \in S PROVE m + 1 \in S
  <2>1. PICK f : f = D(m, f)
    BY <1>2
  <2>2. PICK x : x = Turn(m + 1, f[m])
    OBVIOUS
  <2> DEFINE g == [i \in 0 .. m + 1 |-> IF i = m + 1 THEN x ELSE f[i]]
  <2> HIDE DEF Turn
  <2>3. ASSUME NEW i \in 0 .. m + 1 PROVE g[i] = D(m + 1, g)[i]
    <3>1. CASE i = m + 1
      BY <2>2, <3>1
    <3>2. CASE i # m + 1
      <4>1. i \in 0 .. m /\ g[i] = f[i] /\ (i # 0 => g[i - 1] = f[i - 1])
        BY <3>2
      <4>2. f[i] = IF i = 0 THEN t.root ELSE Turn(i, f[i - 1])
        BY <2>1, <4>1
      <4> HIDE DEF g
      <4> QED BY <4>1, <4>2
    <3> QED BY <3>1, <3>2
  <2>4. g = D(m + 1, g)
    BY <2>3
  <2>5. m + 1 \in 0 .. L
    BY <1>0
  <2> HIDE DEF g, D
  <2> QED BY <2>4, <2>5
<1>3. L \in S
  <2> HIDE DEF S
  <2>1. 0 .. L \subseteq S
    BY <1>0, <1>1, <1>2, UpTo
  <2> QED BY <2>1, <1>0
<1>4. node = D(L, node)
  <2> HIDE DEF D
  <2> QED BY <1>3
<1>5. \A h : Reach(t, key, h) = node[L - h]
  BY <1>0 DEF Reach
<1> HIDE DEF node
<1>6. \A i \in 0 .. L : node[i] = IF i = 0 THEN t.root ELSE Turn(i, node[i - 1])
  <2> HIDE DEF Turn
  <2> QED BY <1>4
<1>7. Reach(t, key, L) = t.root
  BY <1>0, <1>5, <1>6
<1>8. ASSUME NEW h \in 0 .. L - 1
      PROVE  Reach(t, key, h) = IF Reach(t, key, h + 1) = NULL THEN NULL
                                ELSE t.children[Reach(t, key, h + 1)][Digit(key, h + 1)]
  <2>1. PICK i \in 0 .. L : i = L - h /\ i # 0 /\ i - 1 = L - (h + 1) /\ L - i + 1 = h + 1
    BY <1>0
  <2>2. Reach(t, key, h) = Turn(i, Reach(t, key, h + 1))
    <3> HIDE DEF Turn
    <3> QED BY <1>5, <1>6, <2>1
  <2> QED BY <2>1, <2>2
<1> QED BY <1>7, <1>8

\* One turn.
LEMMA WayDown ==
    ASSUME NEW t, NEW U, NEW L, NEW lv, Shape(t, U, L, lv), NEW key, NEW h \in 0 .. L - 1,
           NEW x, Reach(t, key, h + 1) = x
    PROVE  Reach(t, key, h) = IF x = NULL THEN NULL ELSE t.children[x][Digit(key, h + 1)]
  BY Way

\* The way to a key goes down one level with every turn.
LEMMA ReachNode ==
    ASSUME NEW t, NEW U, NEW L, NEW lv, Shape(t, U, L, lv), NEW k \in Nat, NEW h \in 0 .. L
    PROVE  IsNode(Reach(t, k, h), h, Len(t.children), U, lv)
<1>0. L \in Nat /\ L <= MaxLevels /\ Full(t.capacity, L)
  BY ShapeParts
<1> DEFINE S == {g \in 0 .. L : IsNode(Reach(t, k, g), g, Len(t.children), U, lv)}
<1>1. L \in S
  <2>1. Reach(t, k, L) = t.root
    BY <1>0, Way
  <2> QED BY <1>0, <2>1 DEF Shape, ShapeNodes
<1>2. ASSUME NEW g \in 0 .. L - 1, g + 1 \in S PROVE g \in S
  <2>1. g \in 0 .. L /\ g + 1 \in 1 .. MaxLevels /\ (g + 1) - 1 = g /\ g + 1 > 0
    BY <1>0, Radix
  <2>2. PICK x : x = Reach(t, k, g + 1)
    OBVIOUS
  <2>3. Reach(t, k, g) = IF x = NULL THEN NULL ELSE t.children[x][Digit(k, g + 1)]
    BY <1>0, <2>2, Way
  <2>4. CASE x = NULL
    BY <2>1, <2>3, <2>4 DEF IsNode
  <2>5. CASE x # NULL
    <3>1. x \in 1 .. Len(t.children) /\ lv[x] = g + 1
      BY <1>2, <2>1, <2>2, <2>5 DEF IsNode
    <3>2. Digit(k, g + 1) \in Digits
      BY <2>1, DigitIn
    <3>3. IsNode(t.children[x][Digit(k, g + 1)], g, Len(t.children), U, lv)
      BY <2>1, <3>1, <3>2 DEF Shape, ShapeNodes
    <3> QED BY <2>1, <2>3, <2>5, <3>3
  <2> QED BY <2>4, <2>5
<1>3. 0 .. L \subseteq S
  <2> HIDE DEF S
  <2> QED BY <1>0, <1>1, <1>2, DownFrom
<1> QED BY <1>3

\* A node above the leaves that is not NULL is a branch.
LEMMA ReachBranch ==
    ASSUME NEW t, NEW U, NEW L, NEW lv, Shape(t, U, L, lv), NEW k \in Nat, NEW h \in 1 .. L,
           Reach(t, k, h) # NULL
    PROVE  Reach(t, k, h) \in 1 .. Len(t.children) /\ lv[Reach(t, k, h)] = h
<1>0. L \in Nat /\ h \in 0 .. L /\ h # 0
  BY ShapeParts
<1> QED BY <1>0, ReachNode DEF IsNode

\* A way that ends goes no further.
LEMMA ReachNull ==
    ASSUME NEW t, NEW U, NEW L, NEW lv, Shape(t, U, L, lv), NEW k \in Nat, NEW h \in 0 .. L,
           Reach(t, k, h) = NULL
    PROVE  \A g \in 0 .. h : Reach(t, k, g) = NULL
<1>0. L \in Nat /\ h \in Nat /\ Full(t.capacity, L)
  BY ShapeParts
<1> DEFINE S == {g \in 0 .. h : Reach(t, k, g) = NULL}
<1>1. h \in S
  BY <1>0
<1>2. ASSUME NEW g \in 0 .. h - 1, g + 1 \in S PROVE g \in S
  <2>1. g \in 0 .. L - 1 /\ g \in 0 .. h
    BY <1>0
  <2> QED BY <1>0, <1>2, <2>1, Way
<1>3. 0 .. h \subseteq S
  <2> HIDE DEF S
  <2> QED BY <1>0, <1>1, <1>2, DownFrom
<1> QED BY <1>3

\* Keys whose ways meet have the same digits above.
LEMMA WaysMeet ==
    ASSUME NEW t, NEW U, NEW L, NEW lv, Shape(t, U, L, lv), NEW j \in Nat, NEW k \in Nat,
           NEW h \in 0 .. L, Reach(t, j, h) = Reach(t, k, h), Reach(t, j, h) # NULL
    PROVE  \A g \in h + 1 .. L : Digit(j, g) = Digit(k, g)
<1>0. L \in Nat /\ L <= MaxLevels /\ Full(t.capacity, L) /\ h \in Nat
  BY ShapeParts
<1> DEFINE S == {g \in 0 .. L : g < h \/ (Reach(t, j, g) = Reach(t, k, g) /\ Reach(t, j, g) # NULL)}
<1>1. 0 \in S
  BY <1>0
<1>2. ASSUME NEW g \in 0 .. L - 1, g \in S
      PROVE  g + 1 \in S /\ (g >= h => Digit(j, g + 1) = Digit(k, g + 1))
  <2>1. g + 1 \in 0 .. L /\ g + 1 \in 1 .. L /\ g + 1 \in 1 .. MaxLevels /\ g \in Nat
    BY <1>0, Radix
  <2>2. CASE g < h
    <3>1. g + 1 < h \/ g + 1 = h
      BY <1>0, <2>1, <2>2
    <3>2. ~(g >= h)
      BY <1>0, <2>1, <2>2
    <3> QED BY <2>1, <3>1, <3>2
  <2>3. CASE g >= h
    <3>1. PICK x, y : x = Reach(t, j, g + 1) /\ y = Reach(t, k, g + 1)
      OBVIOUS
    <3>2. Reach(t, j, g) = Reach(t, k, g) /\ Reach(t, j, g) # NULL
      BY <1>0, <1>2, <2>1, <2>3
    <3>3. /\ Reach(t, j, g) = IF x = NULL THEN NULL ELSE t.children[x][Digit(j, g + 1)]
          /\ Reach(t, k, g) = IF y = NULL THEN NULL ELSE t.children[y][Digit(k, g + 1)]
      BY <1>0, <3>1, Way
    <3>4. x # NULL /\ y # NULL
      BY <3>2, <3>3
    <3>5. x \in 1 .. Len(t.children) /\ y \in 1 .. Len(t.children) /\ lv[x] = lv[y]
      BY <2>1, <3>1, <3>4, ReachBranch
    <3>6. Digit(j, g + 1) \in Digits /\ Digit(k, g + 1) \in Digits
      BY <2>1, DigitIn
    <3>7. x = y /\ Digit(j, g + 1) = Digit(k, g + 1)
      <4>1. /\ t.children[x][Digit(j, g + 1)] = t.children[y][Digit(k, g + 1)]
            /\ t.children[x][Digit(j, g + 1)] # NULL
        BY <3>2, <3>3, <3>4
      <4>2. ShapeSingle(t, lv)
        BY DEF Shape
      <4> QED BY <3>5, <3>6, <4>1, <4>2 DEF ShapeSingle
    <3> QED BY <2>1, <3>1, <3>4, <3>7
  <2> QED BY <1>0, <2>1, <2>2, <2>3
<1>3. 0 .. L \subseteq S
  <2> HIDE DEF S
  <2> QED BY <1>0, <1>1, <1>2, UpTo
<1>4. ASSUME NEW g \in h + 1 .. L PROVE Digit(j, g) = Digit(k, g)
  <2>1. PICK i \in 0 .. L - 1 : g = i + 1 /\ i \in 0 .. L /\ i >= h
    <3>1. g - 1 \in 0 .. L - 1 /\ g = (g - 1) + 1 /\ g - 1 \in 0 .. L /\ g - 1 >= h
      BY <1>0
    <3> QED BY <3>1
  <2>2. i \in S
    BY <1>3, <2>1
  <2> HIDE DEF S
  <2> QED BY <1>2, <2>1, <2>2
<1> QED BY <1>4

\* Keys within the capacity whose ways meet and go on alike are the same.
LEMMA SameWay ==
    ASSUME NEW t, NEW U, NEW L, NEW lv, Shape(t, U, L, lv), NEW j \in Nat, NEW k \in Nat,
           j <= t.capacity, k <= t.capacity,
           NEW h \in 0 .. L, Reach(t, j, h) = Reach(t, k, h), Reach(t, j, h) # NULL,
           \A g \in 1 .. h : Digit(j, g) = Digit(k, g)
    PROVE  j = k
<1>0. L \in Nat /\ L \in 0 .. MaxLevels /\ Full(t.capacity, L) /\ h \in Nat
  BY ShapeParts
<1>1. Shifted(j, L) = 0 /\ Shifted(k, L) = 0
  BY <1>0, FitsIs
<1>2. \A g \in h + 1 .. L : Digit(j, g) = Digit(k, g)
  BY WaysMeet
<1>3. \A g \in 1 .. L : Digit(j, g) = Digit(k, g)
  <2>1. \A g \in 1 .. L : g \in 1 .. h \/ g \in h + 1 .. L
    BY <1>0
  <2> QED BY <1>2, <2>1
<1> QED BY <1>0, <1>1, <1>3, SameDigits

\* cx_radix_tree_get finds leaves that are in use, and a different one for
\* every key.
LEMMA GetIs ==
    ASSUME NEW t, NEW U, IsTree(t, U), NEW k \in Nat
    PROVE  /\ get(t, k) \in U \cup {NULL}
           /\ \A j \in Nat : get(t, j) = get(t, k) /\ get(t, k) # NULL => j = k
<1>1. PICK L, lv : Shape(t, U, L, lv)
  BY DEF IsTree
<1>2. L \in Nat /\ t.capacity \in Nat /\ 0 \in 0 .. L
  BY <1>1, ShapeParts
<1>3. get(t, k) \in U \cup {NULL}
  <2>1. IsNode(Reach(t, k, 0), 0, Len(t.children), U, lv)
    BY <1>1, <1>2, ReachNode
  <2> QED BY <2>1 DEF get, IsNode
<1>4. ASSUME NEW j \in Nat, get(t, j) = get(t, k), get(t, k) # NULL
      PROVE  j = k
  <2>1. j <= t.capacity /\ k <= t.capacity /\ Reach(t, j, 0) = Reach(t, k, 0) /\ Reach(t, j, 0) # NULL
    BY <1>2, <1>4 DEF get
  <2>2. \A g \in 1 .. 0 : Digit(j, g) = Digit(k, g)
    OBVIOUS
  <2> QED BY <1>1, <1>2, <2>1, <2>2, SameWay
<1> QED BY <1>3, <1>4

\* The way to a key is the way to the one with the same low digits.
LEMMA LowWay ==
    ASSUME NEW t, NEW U, NEW L, NEW lv, Shape(t, U, L, lv), NEW k \in Nat
    PROVE  \A h \in 0 .. L : Reach(t, k % (t.capacity + 1), h) = Reach(t, k, h)
<1>0. L \in Nat /\ Full(t.capacity, L)
  BY ShapeParts
<1>1. PICK low \in Nat : low = k % (t.capacity + 1) /\ \A h \in 1 .. L : Digit(low, h) = Digit(k, h)
  BY <1>0, LowDigits
<1> DEFINE S == {h \in 0 .. L : Reach(t, low, h) = Reach(t, k, h)}
<1>2. L \in S
  BY <1>0, Way
<1>3. ASSUME NEW h \in 0 .. L - 1, h + 1 \in S PROVE h \in S
  <2>1. h \in 0 .. L /\ h + 1 \in 1 .. L
    BY <1>0
  <2>2. Digit(low, h + 1) = Digit(k, h + 1) /\ Reach(t, low, h + 1) = Reach(t, k, h + 1)
    BY <1>1, <1>3, <2>1
  <2>3. \A key : Reach(t, key, h) = IF Reach(t, key, h + 1) = NULL THEN NULL
                                    ELSE t.children[Reach(t, key, h + 1)][Digit(key, h + 1)]
    BY <1>0, Way
  <2> QED BY <2>1, <2>2, <2>3
<1>4. 0 .. L \subseteq S
  <2> HIDE DEF S
  <2> QED BY <1>0, <1>2, <1>3, DownFrom
<1> QED BY <1>1, <1>4

-----------------------------------------------------------------------------
\* Changes of one pointer.

\* u is the tree t, with N branches, after the assignment of x to child d of
\* branch b.
IsPointerSet(t, u, N, b, d, x) ==
    /\ N = Len(t.children)
    /\ u \in Trees /\ u.capacity = t.capacity /\ u.root = t.root
    /\ Len(u.children) = N
    /\ \A c \in 1 .. N, e \in Digits :
          u.children[c][e] = IF c = b /\ e = d THEN x ELSE t.children[c][e]

\* u is t with a new branch as child d of branch b.
IsBranchAdded(t, u, N, b, d) ==
    /\ N = Len(t.children)
    /\ u \in Trees /\ u.capacity = t.capacity /\ u.root = t.root
    /\ Len(u.children) = N + 1
    /\ \A c \in 1 .. N, e \in Digits :
          u.children[c][e] = IF c = b /\ e = d THEN N + 1 ELSE t.children[c][e]
    /\ \A e \in Digits : u.children[N + 1][e] = NULL

\* u is t with a new branch above its root.
IsLifted(t, u, N) ==
    /\ N = Len(t.children)
    /\ u \in Trees /\ u.capacity = t.capacity * RADIX_SIZE + RADIX_SIZE - 1
    /\ u.root = N + 1
    /\ Len(u.children) = N + 1
    /\ \A c \in 1 .. N : u.children[c] = t.children[c]
    /\ \A e \in Digits : u.children[N + 1][e] = IF e = 0 THEN t.root ELSE NULL

\* The branches after the assignment to one child.
LEMMA SetPointer ==
    ASSUME NEW s \in Seq([Digits -> Pointers]), NEW b \in 1 .. Len(s), NEW d \in Digits,
           NEW x \in Pointers
    PROVE  LET q == [s EXCEPT ![b][d] = x]
           IN  /\ q \in Seq([Digits -> Pointers])
               /\ Len(q) = Len(s)
               /\ \A c \in 1 .. Len(s), e \in Digits :
                     q[c][e] = IF c = b /\ e = d THEN x ELSE s[c][e]
<1>1. s[b] \in [Digits -> Pointers]
  BY ElementOfSeq
<1>2. PICK y : y = [s[b] EXCEPT ![d] = x]
  OBVIOUS
<1>3. y \in [Digits -> Pointers]
  BY <1>1, <1>2
<1>4. [s EXCEPT ![b][d] = x] = [s EXCEPT ![b] = y]
  BY <1>2
<1>5. \A e \in Digits : y[e] = IF e = d THEN x ELSE s[b][e]
  BY <1>1, <1>2
<1>6. PICK q : q = [s EXCEPT ![b] = y]
  OBVIOUS
<1>7. /\ q \in Seq([Digits -> Pointers]) /\ Len(q) = Len(s)
      /\ \A c \in 1 .. Len(s) : q[c] = IF c = b THEN y ELSE s[c]
  BY <1>3, <1>6, ExceptSeq
<1>8. ASSUME NEW c \in 1 .. Len(s), NEW e \in Digits
      PROVE  q[c][e] = IF c = b /\ e = d THEN x ELSE s[c][e]
  BY <1>5, <1>7
<1> QED BY <1>4, <1>6, <1>7, <1>8

\* Two trees that differ in one child: the ways are the same, except below it.
LEMMA Redirect ==
    ASSUME NEW t, NEW U, NEW L, NEW lv, Shape(t, U, L, lv),
           NEW u, NEW V, NEW lu, Shape(u, V, L, lu), u.root = t.root,
           NEW b \in 1 .. Len(t.children), NEW d \in Digits,
           \A c \in 1 .. Len(t.children), e \in Digits :
               (c # b \/ e # d) => u.children[c][e] = t.children[c][e],
           NEW k \in Nat
    PROVE  /\ \A g \in lv[b] .. L : Reach(u, k, g) = Reach(t, k, g)
           /\ ~(Reach(t, k, lv[b]) = b /\ Digit(k, lv[b]) = d)
                  => \A g \in 0 .. L : Reach(u, k, g) = Reach(t, k, g)
           /\ Reach(t, k, lv[b]) = b /\ Digit(k, lv[b]) = d
                  => /\ Reach(u, k, lv[b] - 1) = u.children[b][d]
                     /\ Reach(t, k, lv[b] - 1) = t.children[b][d]
<1>0. L \in Nat /\ L <= MaxLevels /\ lv[b] \in 1 .. L /\ lv[b] \in Nat /\ b # NULL
  BY ShapeParts, NullIs
<1> DEFINE Through == Reach(t, k, lv[b]) = b /\ Digit(k, lv[b]) = d
           S == {g \in 0 .. L : g >= lv[b] \/ ~Through => Reach(u, k, g) = Reach(t, k, g)}
<1>1. L \in S
  BY <1>0, Way
<1>2. ASSUME NEW g \in 0 .. L - 1, g + 1 \in S PROVE g \in S
  <2>1. g \in 0 .. L /\ g + 1 \in 1 .. L /\ g + 1 \in 1 .. MaxLevels /\ g \in Nat
    BY <1>0, Radix
  <2> SUFFICES ASSUME g >= lv[b] \/ ~Through PROVE Reach(u, k, g) = Reach(t, k, g)
    BY <2>1
  <2>2. PICK x : x = Reach(t, k, g + 1)
    OBVIOUS
  <2>3. g + 1 >= lv[b] \/ ~Through
    BY <1>0, <2>1
  <2>4. Reach(u, k, g + 1) = x
    BY <1>2, <2>2, <2>3
  <2>5. Reach(u, k, g) = IF x = NULL THEN NULL ELSE u.children[x][Digit(k, g + 1)]
    <3>1. Reach(u, k, g) = IF Reach(u, k, g + 1) = NULL THEN NULL
                           ELSE u.children[Reach(u, k, g + 1)][Digit(k, g + 1)]
      BY ONLY Shape(u, V, L, lu), g \in 0 .. L - 1, Way
    <3> QED BY ONLY <2>4, <3>1
  <2>6. Reach(t, k, g) = IF x = NULL THEN NULL ELSE t.children[x][Digit(k, g + 1)]
    BY ONLY Shape(t, U, L, lv), g \in 0 .. L - 1, <2>2, WayDown
  <2>7. CASE x = NULL
    BY <2>5, <2>6, <2>7
  <2>8. CASE x # NULL
    <3>1. x \in 1 .. Len(t.children) /\ lv[x] = g + 1
      BY <2>1, <2>2, <2>8, ReachBranch
    <3>2. Digit(k, g + 1) \in Digits
      BY <2>1, DigitIn
    <3>3. x # b \/ Digit(k, g + 1) # d
      BY <1>0, <2>1, <2>2, <3>1
    <3>4. u.children[x][Digit(k, g + 1)] = t.children[x][Digit(k, g + 1)]
      BY <3>1, <3>2, <3>3
    <3> QED BY <2>5, <2>6, <3>4
  <2> QED BY <2>7, <2>8
<1>3. 0 .. L \subseteq S
  <2> HIDE DEF S
  <2> QED BY <1>0, <1>1, <1>2, DownFrom
<1>4. \A g \in lv[b] .. L : g \in 0 .. L /\ g >= lv[b]
  BY <1>0
<1>5. \A g \in lv[b] .. L : Reach(u, k, g) = Reach(t, k, g)
  BY <1>3, <1>4
<1>6. ~Through => \A g \in 0 .. L : Reach(u, k, g) = Reach(t, k, g)
  BY <1>3
<1>7. ASSUME Through
      PROVE  Reach(u, k, lv[b] - 1) = u.children[b][d] /\ Reach(t, k, lv[b] - 1) = t.children[b][d]
  <2>1. PICK g \in 0 .. L - 1 : g = lv[b] - 1 /\ g + 1 = lv[b] /\ g + 1 \in lv[b] .. L
    <3>1. lv[b] - 1 \in 0 .. L - 1 /\ (lv[b] - 1) + 1 = lv[b] /\ (lv[b] - 1) + 1 \in lv[b] .. L
      BY <1>0
    <3> QED BY <3>1
  <2>2. Reach(t, k, g + 1) = b /\ Digit(k, g + 1) = d
    BY <1>7, <2>1
  <2>3. Reach(u, k, g + 1) = b
    BY <1>5, <2>1, <2>2
  <2>4. Reach(u, k, g) = u.children[b][d]
    <3>1. Reach(u, k, g) = IF b = NULL THEN NULL ELSE u.children[b][Digit(k, g + 1)]
      BY ONLY Shape(u, V, L, lu), g \in 0 .. L - 1, <2>3, WayDown
    <3> QED BY <1>0, <2>2, <3>1
  <2>5. Reach(t, k, g) = t.children[b][d]
    <3>1. Reach(t, k, g) = IF b = NULL THEN NULL ELSE t.children[b][Digit(k, g + 1)]
      BY ONLY Shape(t, U, L, lv), g \in 0 .. L - 1, <2>2, WayDown
    <3> QED BY <1>0, <2>2, <3>1
  <2> QED BY <2>1, <2>4, <2>5
<1> QED BY <1>5, <1>6, <1>7

\* The branches after the descent added one below branch b.
LEMMA BranchAdded ==
    ASSUME NEW t \in Trees, NEW b \in 1 .. Len(t.children), NEW d \in Digits, NEW N \in Nat,
           N = Len(t.children)
    PROVE  IsBranchAdded(t, [t EXCEPT !.children = Append([t.children EXCEPT ![b][d] = N + 1], Blank)],
                         N, b, d)
<1>0. t.children \in Seq([Digits -> Pointers])
  BY DEF Trees
<1>1. N + 1 \in Pointers /\ Blank \in [Digits -> Pointers]
  BY DEF Blank, Pointers
<1>2. PICK q : q = [t.children EXCEPT ![b][d] = N + 1]
  OBVIOUS
<1>3. /\ q \in Seq([Digits -> Pointers]) /\ Len(q) = N
      /\ \A c \in 1 .. N, e \in Digits : q[c][e] = IF c = b /\ e = d THEN N + 1 ELSE t.children[c][e]
  BY <1>0, <1>1, <1>2, SetPointer
<1>4. PICK r : r = Append(q, Blank)
  OBVIOUS
<1>5. /\ r \in Seq([Digits -> Pointers]) /\ Len(r) = N + 1
      /\ \A c \in 1 .. N : r[c] = q[c]
      /\ r[N + 1] = Blank
  BY ONLY <1>1, <1>3, <1>4, AppendProperties, N \in Nat
<1>6. PICK u : u = [t EXCEPT !.children = r]
  OBVIOUS
<1>7. u \in Trees /\ u.capacity = t.capacity /\ u.root = t.root /\ u.children = r
  BY <1>5, <1>6 DEF Trees
<1>8. u = [t EXCEPT !.children = Append([t.children EXCEPT ![b][d] = N + 1], Blank)]
  BY ONLY <1>2, <1>4, <1>6
<1>9. \A e \in Digits : r[N + 1][e] = NULL
  BY ONLY <1>5 DEF Blank
<1>10. \A c \in 1 .. N, e \in Digits : r[c][e] = IF c = b /\ e = d THEN N + 1 ELSE t.children[c][e]
  BY ONLY <1>3, <1>5
<1>11. IsBranchAdded(t, u, N, b, d)
  BY ONLY N = Len(t.children), <1>5, <1>7, <1>9, <1>10 DEF IsBranchAdded
<1> QED BY ONLY <1>8, <1>11

\* A new branch below a branch that is more than one level above the leaves:
\* no key finds anything else.
LEMMA AddBranch ==
    ASSUME NEW t, NEW U, NEW L, NEW lv, Shape(t, U, L, lv), NEW N,
           NEW b \in 1 .. N, NEW d \in Digits, t.children[b][d] = NULL, lv[b] > 1,
           NEW u, IsBranchAdded(t, u, N, b, d)
    PROVE  \E lu : /\ Shape(u, U, L, lu)
                   /\ \A k \in Nat : Reach(u, k, 0) = Reach(t, k, 0)
                   /\ \A k \in Nat : Reach(t, k, lv[b]) = b /\ Digit(k, lv[b]) = d
                          => Reach(u, k, lv[b] - 1) = N + 1
<1> USE DEF IsBranchAdded
<1> DEFINE lu == [c \in 1 .. N + 1 |-> IF c = N + 1 THEN lv[b] - 1 ELSE lv[c]]
<1>0. /\ L \in Nat /\ N \in Nat
      /\ lv[b] \in 1 .. L /\ lv[b] \in Nat
      /\ \A c \in 1 .. N : lv[c] \in 1 .. L
  BY ShapeParts
<1>1. (N + 1) # NULL
  BY <1>0, NullIs
<1>8. /\ \A c \in 1 .. N : lu[c] = lv[c] /\ c \in 1 .. N + 1
      /\ lu[N + 1] = lv[b] - 1 /\ N + 1 \in 1 .. N + 1
      /\ \A c \in 1 .. N + 1 : c \in 1 .. N \/ c = N + 1
      /\ \A c \in 1 .. N : c # N + 1
  BY <1>0
<1>9. lu \in [1 .. N + 1 -> 1 .. L]
  BY <1>0
<1> HIDE DEF lu
<1>10. ShapeTypes(u, U, L, lu)
  BY <1>9 DEF ShapeTypes, Shape
<1>11. ASSUME NEW x, NEW h, IsNode(x, h, N, U, lv)
       PROVE  IsNode(x, h, N + 1, U, lu)
  BY <1>8, <1>11 DEF IsNode
<1>12. ShapeNodes(u, U, L, lu)
  <2>1. ShapeNodes(t, U, L, lv)
    BY DEF Shape
  <2>2. IsNode(u.root, L, N + 1, U, lu) /\ (L > 0 => u.root # NULL)
    BY <1>11, <2>1 DEF ShapeNodes
  <2>3. ASSUME NEW c \in 1 .. N, NEW e \in Digits
        PROVE  IsNode(u.children[c][e], lu[c] - 1, N + 1, U, lu)
    <3>1. CASE c = b /\ e = d
      <4>1. u.children[c][e] = N + 1 /\ lu[c] - 1 = lv[b] - 1 /\ lv[b] - 1 > 0
        BY <1>0, <1>8, <3>1
      <4> QED BY <1>8, <4>1 DEF IsNode
    <3>2. CASE c # b \/ e # d
      <4>1. u.children[c][e] = t.children[c][e] /\ lu[c] = lv[c]
        BY <1>8, <3>2
      <4>2. IsNode(t.children[c][e], lv[c] - 1, N, U, lv)
        BY <2>1 DEF ShapeNodes
      <4> QED BY <1>11, <4>1, <4>2
    <3> QED BY <3>1, <3>2
  <2>4. ASSUME NEW e \in Digits
        PROVE  IsNode(u.children[N + 1][e], lu[N + 1] - 1, N + 1, U, lu)
    BY DEF IsNode
  <2> QED BY <1>8, <2>2, <2>3, <2>4 DEF ShapeNodes
<1>13. ShapeSingle(u, lu)
  <2>1. ShapeSingle(t, lv) /\ ShapeNodes(t, U, L, lv)
    BY DEF Shape
  <2>2. \A c \in 1 .. N, e \in Digits : lv[c] = lv[b] => t.children[c][e] # N + 1
    <3> SUFFICES ASSUME NEW c \in 1 .. N, NEW e \in Digits, lv[c] = lv[b], t.children[c][e] = N + 1
                 PROVE  FALSE
      OBVIOUS
    <3>1. IsNode(N + 1, lv[b] - 1, N, U, lv)
      BY <2>1 DEF ShapeNodes
    <3>2. lv[b] - 1 # 0 /\ N + 1 \notin 1 .. N
      BY <1>0
    <3> QED BY <1>1, <3>1, <3>2 DEF IsNode
  <2> SUFFICES ASSUME NEW a \in 1 .. N + 1, NEW c \in 1 .. N + 1, NEW e \in Digits, NEW f \in Digits,
                      lu[a] = lu[c], u.children[a][e] = u.children[c][f], u.children[a][e] # NULL
               PROVE  a = c /\ e = f
    BY DEF ShapeSingle
  <2>3. a \in 1 .. N /\ c \in 1 .. N
    BY <1>8
  <2>4. lv[a] = lv[c]
    BY <1>8, <2>3
  <2>5. CASE a = b /\ e = d
    BY <2>2, <2>3, <2>4, <2>5
  <2>6. CASE c = b /\ f = d
    BY <2>2, <2>3, <2>4, <2>6
  <2>7. CASE (a # b \/ e # d) /\ (c # b \/ f # d)
    <3>1. u.children[a][e] = t.children[a][e] /\ u.children[c][f] = t.children[c][f]
      BY <2>3, <2>7
    <3>2. a \in 1 .. Len(t.children) /\ c \in 1 .. Len(t.children)
      BY <2>3
    <3>3. t.children[a][e] = t.children[c][f] /\ t.children[a][e] # NULL
      BY <3>1
    <3> QED BY ONLY e \in Digits, f \in Digits, <2>1, <2>4, <3>2, <3>3 DEF ShapeSingle
  <2> QED BY <2>5, <2>6, <2>7
<1>14. Shape(u, U, L, lu)
  BY <1>10, <1>12, <1>13 DEF Shape
<1>15. \A c \in 1 .. Len(t.children), e \in Digits : (c # b \/ e # d) => u.children[c][e] = t.children[c][e]
  OBVIOUS
<1>16. ASSUME NEW k \in Nat, Reach(t, k, lv[b]) = b, Digit(k, lv[b]) = d
       PROVE  Reach(u, k, lv[b] - 1) = N + 1 /\ Reach(u, k, 0) = NULL /\ Reach(t, k, 0) = NULL
  <2>1. Reach(u, k, lv[b] - 1) = N + 1 /\ Reach(t, k, lv[b] - 1) = NULL
    <3>1. u.children[b][d] = N + 1
      OBVIOUS
    <3>2. Reach(u, k, lv[b] - 1) = u.children[b][d] /\ Reach(t, k, lv[b] - 1) = t.children[b][d]
      <4>1. b \in 1 .. Len(t.children) /\ u.root = t.root /\ Reach(t, k, lv[b]) = b /\ Digit(k, lv[b]) = d
        BY <1>16
      <4>2. Reach(u, k, lv[b] - 1) = u.children[b][d]
        BY ONLY Shape(t, U, L, lv), d \in Digits, k \in Nat, <1>14, <1>15, <4>1, Redirect
      <4>3. Reach(t, k, lv[b] - 1) = t.children[b][d]
        BY ONLY Shape(t, U, L, lv), d \in Digits, k \in Nat, <1>14, <1>15, <4>1, Redirect
      <4> QED BY <4>2, <4>3
    <3> QED BY <3>1, <3>2
  <2>2. lv[b] - 1 \in 0 .. L /\ 0 \in 0 .. lv[b] - 1
    BY <1>0
  <2>3. Reach(t, k, 0) = NULL
    BY ONLY Shape(t, U, L, lv), k \in Nat, <2>1, <2>2, ReachNull
  <2>4. PICK g \in 0 .. L - 1 : g + 1 = lv[b] - 1 /\ g \in 0 .. L /\ 0 \in 0 .. g /\ g + 1 \in 1 .. MaxLevels
    <3>1. lv[b] - 2 \in 0 .. L - 1 /\ (lv[b] - 2) + 1 = lv[b] - 1 /\ lv[b] - 2 \in 0 .. L /\ 0 \in 0 .. lv[b] - 2
          /\ (lv[b] - 2) + 1 \in 1 .. MaxLevels
      <4>1. L <= MaxLevels
        BY ShapeParts
      <4> QED BY <1>0, <4>1, Radix
    <3> QED BY <3>1
  <2>5. Reach(u, k, g) = u.children[N + 1][Digit(k, g + 1)]
    <3>1. Reach(u, k, g + 1) = N + 1
      BY <2>1, <2>4
    <3>2. Reach(u, k, g) = IF N + 1 = NULL THEN NULL ELSE u.children[N + 1][Digit(k, g + 1)]
      BY ONLY <1>14, g \in 0 .. L - 1, <3>1, WayDown
    <3> QED BY <1>1, <3>2
  <2>6. Reach(u, k, g) = NULL
    BY <2>4, <2>5, DigitIn
  <2>7. Reach(u, k, 0) = NULL
    BY <1>14, <2>4, <2>6, ReachNull
  <2> QED BY <2>1, <2>3, <2>7
<1>17. ASSUME NEW k \in Nat PROVE Reach(u, k, 0) = Reach(t, k, 0)
  <2>1. CASE Reach(t, k, lv[b]) = b /\ Digit(k, lv[b]) = d
    BY <1>16, <2>1
  <2>2. CASE ~(Reach(t, k, lv[b]) = b /\ Digit(k, lv[b]) = d)
    <3>1. \A g \in 0 .. L : Reach(u, k, g) = Reach(t, k, g)
      BY ONLY Shape(t, U, L, lv), b \in 1 .. Len(t.children), d \in Digits, u.root = t.root,
              k \in Nat, <1>14, <1>15, <2>2, Redirect
    <3> QED BY <1>0, <3>1
  <2> QED BY <2>1, <2>2
<1> QED BY <1>14, <1>16, <1>17

\* The tree after the assignment to one child.
LEMMA PointerSet ==
    ASSUME NEW t \in Trees, NEW N, N = Len(t.children), NEW b \in 1 .. N, NEW d \in Digits,
           NEW x \in Pointers
    PROVE  IsPointerSet(t, [t EXCEPT !.children = [t.children EXCEPT ![b][d] = x]], N, b, d, x)
<1>0. t.children \in Seq([Digits -> Pointers])
  BY DEF Trees
<1>1. PICK q : q = [t.children EXCEPT ![b][d] = x]
  OBVIOUS
<1>2. /\ q \in Seq([Digits -> Pointers]) /\ Len(q) = N
      /\ \A c \in 1 .. N, e \in Digits : q[c][e] = IF c = b /\ e = d THEN x ELSE t.children[c][e]
  BY <1>0, <1>1, SetPointer
<1>3. PICK u : u = [t EXCEPT !.children = q]
  OBVIOUS
<1>4. u \in Trees /\ u.capacity = t.capacity /\ u.root = t.root /\ u.children = q
  BY <1>2, <1>3 DEF Trees
<1>5. u = [t EXCEPT !.children = [t.children EXCEPT ![b][d] = x]]
  BY ONLY <1>1, <1>3
<1>6. IsPointerSet(t, u, N, b, d, x)
  BY ONLY N = Len(t.children), <1>2, <1>4 DEF IsPointerSet
<1> QED BY ONLY <1>5, <1>6

\* A leaf that is not in the tree, or NULL, is put below a branch: the only
\* keys that find something else are those whose way ends there.
LEMMA SetLeaf ==
    ASSUME NEW t, NEW U, NEW L, NEW lv, Shape(t, U, L, lv), NEW N,
           NEW b \in 1 .. N, NEW d \in Digits, lv[b] = 1,
           NEW V, V \subseteq Leaves, U \subseteq V, NEW x \in V \cup {NULL}, x \notin U,
           NEW u, IsPointerSet(t, u, N, b, d, x)
    PROVE  /\ Shape(u, V, L, lv)
           /\ \A k \in Nat : Reach(u, k, 0) = IF Reach(t, k, 1) = b /\ Digit(k, 1) = d THEN x
                                              ELSE Reach(t, k, 0)
<1> USE DEF IsPointerSet
<1>0. L \in Nat /\ N \in Nat /\ L > 0
  BY ShapeParts
<1>1. ShapeTypes(u, V, L, lv)
  BY DEF Shape, ShapeTypes
<1>2. \A y, h : IsNode(y, h, N, U, lv) => IsNode(y, h, N, V, lv)
  BY DEF IsNode
<1>3. ShapeNodes(u, V, L, lv)
  <2>1. ShapeNodes(t, U, L, lv)
    BY DEF Shape
  <2>2. IsNode(u.root, L, N, V, lv) /\ (L > 0 => u.root # NULL)
    BY <1>2, <2>1 DEF ShapeNodes
  <2>3. ASSUME NEW c \in 1 .. N, NEW e \in Digits
        PROVE  IsNode(u.children[c][e], lv[c] - 1, N, V, lv)
    <3>1. CASE c = b /\ e = d
      BY <3>1 DEF IsNode
    <3>2. CASE c # b \/ e # d
      <4>1. IsNode(t.children[c][e], lv[c] - 1, N, U, lv)
        BY <2>1 DEF ShapeNodes
      <4> QED BY <1>2, <3>2, <4>1
    <3> QED BY <3>1, <3>2
  <2> QED BY <2>2, <2>3 DEF ShapeNodes
<1>4. ShapeSingle(u, lv)
  <2>1. ShapeSingle(t, lv) /\ ShapeNodes(t, U, L, lv)
    BY DEF Shape
  <2>2. \A c \in 1 .. N, e \in Digits : lv[c] = lv[b] /\ x # NULL => t.children[c][e] # x
    <3> SUFFICES ASSUME NEW c \in 1 .. N, NEW e \in Digits, lv[c] = lv[b], x # NULL, t.children[c][e] = x
                 PROVE  FALSE
      OBVIOUS
    <3>1. IsNode(x, 0, N, U, lv)
      BY <2>1 DEF ShapeNodes
    <3> QED BY <3>1 DEF IsNode
  <2> SUFFICES ASSUME NEW a \in 1 .. N, NEW c \in 1 .. N, NEW e \in Digits, NEW f \in Digits,
                      lv[a] = lv[c], u.children[a][e] = u.children[c][f], u.children[a][e] # NULL
               PROVE  a = c /\ e = f
    BY DEF ShapeSingle
  <2>3. CASE a = b /\ e = d
    BY <2>2, <2>3
  <2>4. CASE c = b /\ f = d
    BY <2>2, <2>4
  <2>5. CASE (a # b \/ e # d) /\ (c # b \/ f # d)
    <3>1. u.children[a][e] = t.children[a][e] /\ u.children[c][f] = t.children[c][f]
      BY <2>5
    <3>2. a \in 1 .. Len(t.children) /\ c \in 1 .. Len(t.children)
      OBVIOUS
    <3>3. t.children[a][e] = t.children[c][f] /\ t.children[a][e] # NULL
      BY <3>1
    <3> QED BY ONLY e \in Digits, f \in Digits, lv[a] = lv[c], <2>1, <3>2, <3>3 DEF ShapeSingle
  <2> QED BY <2>3, <2>4, <2>5
<1>5. Shape(u, V, L, lv)
  BY <1>1, <1>3, <1>4 DEF Shape
<1>6. \A c \in 1 .. Len(t.children), e \in Digits : (c # b \/ e # d) => u.children[c][e] = t.children[c][e]
  OBVIOUS
<1>7. u.children[b][d] = x
  OBVIOUS
<1>8. ASSUME NEW k \in Nat
      PROVE  Reach(u, k, 0) = IF Reach(t, k, 1) = b /\ Digit(k, 1) = d THEN x ELSE Reach(t, k, 0)
  <2>1. CASE Reach(t, k, lv[b]) = b /\ Digit(k, lv[b]) = d
    <3>1. Reach(u, k, lv[b] - 1) = u.children[b][d]
      BY ONLY Shape(t, U, L, lv), b \in 1 .. Len(t.children), d \in Digits, u.root = t.root,
              k \in Nat, <1>5, <1>6, <2>1, Redirect
    <3> QED BY <1>7, <2>1, <3>1
  <2>2. CASE ~(Reach(t, k, lv[b]) = b /\ Digit(k, lv[b]) = d)
    <3>1. \A g \in 0 .. L : Reach(u, k, g) = Reach(t, k, g)
      BY ONLY Shape(t, U, L, lv), b \in 1 .. Len(t.children), d \in Digits, u.root = t.root,
              k \in Nat, <1>5, <1>6, <2>2, Redirect
    <3> QED BY <1>0, <2>2, <3>1
  <2> QED BY <2>1, <2>2
<1> QED BY <1>5, <1>8

\* A leaf that is nowhere in the tree may be recycled.
LEMMA Recycle ==
    ASSUME NEW t, NEW U, NEW L, NEW lv, Shape(t, U, L, lv), NEW r,
           \A b \in 1 .. Len(t.children), d \in Digits : lv[b] = 1 /\ t.children[b][d] = r => r = NULL,
           L = 0 /\ t.root = r => r = NULL
    PROVE  Shape(t, U \ {r}, L, lv)
<1>0. L \in Nat /\ \A b \in 1 .. Len(t.children) : lv[b] \in Nat
  BY ShapeParts
<1>1. \A y, h : IsNode(y, h, Len(t.children), U, lv) /\ (h = 0 /\ y = r => r = NULL)
                 => IsNode(y, h, Len(t.children), U \ {r}, lv)
  BY DEF IsNode
<1>2. ShapeNodes(t, U \ {r}, L, lv)
  <2>1. ShapeNodes(t, U, L, lv)
    BY DEF Shape
  <2>2. IsNode(t.root, L, Len(t.children), U \ {r}, lv) /\ (L > 0 => t.root # NULL)
    BY <1>1, <2>1 DEF ShapeNodes
  <2>3. ASSUME NEW b \in 1 .. Len(t.children), NEW d \in Digits
        PROVE  IsNode(t.children[b][d], lv[b] - 1, Len(t.children), U \ {r}, lv)
    <3>1. IsNode(t.children[b][d], lv[b] - 1, Len(t.children), U, lv)
      BY <2>1 DEF ShapeNodes
    <3>2. lv[b] - 1 = 0 => lv[b] = 1
      BY <1>0
    <3> QED BY <1>1, <3>1, <3>2
  <2> QED BY <2>2, <2>3 DEF ShapeNodes
<1>3. ShapeTypes(t, U \ {r}, L, lv) /\ ShapeSingle(t, lv)
  BY DEF Shape, ShapeTypes
<1> QED BY <1>2, <1>3 DEF Shape

\* The tree after a turn of resize.
LEMMA Lifted ==
    ASSUME NEW t \in Trees, NEW N, N = Len(t.children), NEW u, u = Lift(t)
    PROVE  IsLifted(t, u, N)
<1>0. t.children \in Seq([Digits -> Pointers]) /\ t.root \in Pointers /\ t.capacity \in Nat /\ N \in Nat
  BY DEF Trees
<1>1. PICK top : top = [Blank EXCEPT ![0] = t.root]
  OBVIOUS
<1>2. top \in [Digits -> Pointers] /\ \A e \in Digits : top[e] = IF e = 0 THEN t.root ELSE NULL
  BY <1>0, <1>1 DEF Blank, Pointers
<1>3. PICK r : r = Append(t.children, top)
  OBVIOUS
<1>4. /\ r \in Seq([Digits -> Pointers]) /\ Len(r) = N + 1
      /\ \A c \in 1 .. N : r[c] = t.children[c]
      /\ r[N + 1] = top
  BY ONLY <1>0, <1>2, <1>3, N = Len(t.children), AppendProperties
<1>5. PICK c \in Nat : c = t.capacity * RADIX_SIZE + RADIX_SIZE - 1
  BY <1>0, CompareShifted
<1>6. N + 1 \in Pointers
  BY <1>0 DEF Pointers
<1>7. u = [capacity |-> c, root |-> N + 1, children |-> r]
  BY ONLY u = Lift(t), N = Len(t.children), <1>1, <1>3, <1>5 DEF Lift
<1>8. u \in Trees
  BY ONLY <1>4, <1>5, <1>6, <1>7 DEF Trees
<1> QED BY ONLY N = Len(t.children), <1>0, <1>2, <1>4, <1>5, <1>7, <1>8 DEF IsLifted

\* A turn of resize: no key finds anything else.
LEMMA LiftKeeps ==
    ASSUME NEW t, NEW U, NEW L, NEW lv, Shape(t, U, L, lv), L < MaxLevels,
           NEW N, NEW u, IsLifted(t, u, N)
    PROVE  \E lu : /\ Shape(u, U, L + 1, lu)
                   /\ \A k \in Nat : get(u, k) = get(t, k)
<1> USE DEF IsLifted
<1> DEFINE lu == [c \in 1 .. N + 1 |-> IF c = N + 1 THEN L + 1 ELSE lv[c]]
<1>0. /\ L \in Nat /\ N \in Nat /\ Full(t.capacity, L) /\ t.capacity \in Nat
      /\ \A c \in 1 .. N : lv[c] \in 1 .. L
  BY ShapeParts
<1>1. (N + 1) # NULL /\ 0 \in Digits /\ L \in 0 .. MaxLevels - 1
  BY <1>0, NullIs, Radix DEF Digits
<1>2. /\ \A c \in 1 .. N : lu[c] = lv[c] /\ c \in 1 .. N + 1
      /\ lu[N + 1] = L + 1 /\ N + 1 \in 1 .. N + 1
      /\ \A c \in 1 .. N + 1 : c \in 1 .. N \/ c = N + 1
      /\ \A c \in 1 .. N : c # N + 1
  BY <1>0
<1>3. lu \in [1 .. N + 1 -> 1 .. L + 1]
  BY <1>0
<1> HIDE DEF lu
<1>4. Full(u.capacity, L + 1)
  BY <1>0, FullLift
<1>5. ShapeTypes(u, U, L + 1, lu)
  BY <1>3, <1>4 DEF ShapeTypes, Shape
<1>6. \A x, h : IsNode(x, h, N, U, lv) => IsNode(x, h, N + 1, U, lu)
  BY <1>2 DEF IsNode
<1>7. ShapeNodes(u, U, L + 1, lu)
  <2>1. ShapeNodes(t, U, L, lv)
    BY DEF Shape
  <2>2. IsNode(u.root, L + 1, N + 1, U, lu) /\ u.root # NULL
    BY <1>0, <1>1, <1>2 DEF IsNode
  <2>3. ASSUME NEW c \in 1 .. N, NEW e \in Digits
        PROVE  IsNode(u.children[c][e], lu[c] - 1, N + 1, U, lu)
    <3>1. u.children[c][e] = t.children[c][e] /\ lu[c] = lv[c]
      BY <1>2
    <3>2. IsNode(t.children[c][e], lv[c] - 1, N, U, lv)
      BY <2>1 DEF ShapeNodes
    <3> QED BY <1>6, <3>1, <3>2
  <2>4. ASSUME NEW e \in Digits
        PROVE  IsNode(u.children[N + 1][e], lu[N + 1] - 1, N + 1, U, lu)
    <3>1. lu[N + 1] - 1 = L
      BY <1>0, <1>2
    <3>2. IsNode(t.root, L, N + 1, U, lu)
      BY <1>6, <2>1 DEF ShapeNodes
    <3>3. IsNode(NULL, L, N + 1, U, lu)
      BY DEF IsNode
    <3> QED BY <3>1, <3>2, <3>3
  <2> QED BY <1>2, <2>2, <2>3, <2>4 DEF ShapeNodes
<1>8. ShapeSingle(u, lu)
  <2>1. ShapeSingle(t, lv)
    BY DEF Shape
  <2> SUFFICES ASSUME NEW a \in 1 .. N + 1, NEW c \in 1 .. N + 1, NEW e \in Digits, NEW f \in Digits,
                      lu[a] = lu[c], u.children[a][e] = u.children[c][f], u.children[a][e] # NULL
               PROVE  a = c /\ e = f
    BY DEF ShapeSingle
  <2>2. CASE a = N + 1
    <3>1. c = N + 1
      BY <1>0, <1>2, <2>2
    <3>2. e = 0 /\ f = 0
      BY <2>2, <3>1
    <3> QED BY <2>2, <3>1, <3>2
  <2>3. CASE c = N + 1
    <3>1. a = N + 1
      BY <1>0, <1>2, <2>3
    <3>2. e = 0 /\ f = 0
      BY <2>3, <3>1
    <3> QED BY <2>3, <3>1, <3>2
  <2>4. CASE a # N + 1 /\ c # N + 1
    <3>1. a \in 1 .. N /\ c \in 1 .. N
      BY <1>2, <2>4
    <3>2. a \in 1 .. Len(t.children) /\ c \in 1 .. Len(t.children) /\ lv[a] = lv[c]
      BY <1>2, <3>1
    <3>3. t.children[a][e] = t.children[c][f] /\ t.children[a][e] # NULL
      BY <3>1
    <3> QED BY ONLY e \in Digits, f \in Digits, <2>1, <3>2, <3>3 DEF ShapeSingle
  <2> QED BY <2>2, <2>3, <2>4
<1>9. Shape(u, U, L + 1, lu)
  BY <1>5, <1>7, <1>8 DEF Shape
<1>10. ASSUME NEW k \in Nat
       PROVE  Reach(u, k, L) = IF Digit(k, L + 1) = 0 THEN t.root ELSE NULL
  <2>1. Reach(u, k, L + 1) = N + 1
    BY ONLY <1>9, Way, u.root = N + 1
  <2>2. L \in 0 .. (L + 1) - 1 /\ L + 1 \in 1 .. MaxLevels
    BY <1>0, Radix
  <2>3. Reach(u, k, L) = IF N + 1 = NULL THEN NULL ELSE u.children[N + 1][Digit(k, L + 1)]
    BY ONLY <1>9, <2>1, <2>2, WayDown
  <2>4. Digit(k, L + 1) \in Digits
    BY <2>2, DigitIn
  <2> QED BY <1>1, <2>3, <2>4
<1>11. ASSUME NEW k \in Nat, Digit(k, L + 1) = 0
       PROVE  \A h \in 0 .. L : Reach(u, k, h) = Reach(t, k, h)
  <2> DEFINE S == {h \in 0 .. L : Reach(u, k, h) = Reach(t, k, h)}
  <2>1. L \in S
    <3>1. Reach(t, k, L) = t.root
      BY ONLY Shape(t, U, L, lv), Way
    <3> QED BY <1>0, <1>10, <1>11, <3>1
  <2>2. ASSUME NEW h \in 0 .. L - 1, h + 1 \in S PROVE h \in S
    <3>1. h \in 0 .. L /\ h + 1 \in 1 .. L /\ h + 1 \in 1 .. MaxLevels /\ h \in 0 .. (L + 1) - 1
      BY <1>0, Radix
    <3>2. PICK x : x = Reach(t, k, h + 1)
      OBVIOUS
    <3>3. Reach(u, k, h + 1) = x
      BY <2>2, <3>2
    <3>4. Reach(u, k, h) = IF x = NULL THEN NULL ELSE u.children[x][Digit(k, h + 1)]
      BY ONLY <1>9, <3>1, <3>3, WayDown
    <3>5. Reach(t, k, h) = IF x = NULL THEN NULL ELSE t.children[x][Digit(k, h + 1)]
      BY ONLY Shape(t, U, L, lv), h \in 0 .. L - 1, <3>2, WayDown
    <3>6. x # NULL => x \in 1 .. N
      BY ONLY Shape(t, U, L, lv), k \in Nat, <3>1, <3>2, N = Len(t.children), ReachBranch
    <3>7. Reach(u, k, h) = Reach(t, k, h)
      BY <3>4, <3>5, <3>6
    <3> QED BY <3>1, <3>7
  <2>3. 0 .. L \subseteq S
    <3> HIDE DEF S
    <3> QED BY ONLY <1>0, <2>1, <2>2, DownFrom
  <2> QED BY <2>3
<1>12. ASSUME NEW k \in Nat PROVE get(u, k) = get(t, k)
  <2>0. 0 \in 0 .. L /\ L \in 0 .. L + 1 /\ L \in 0 .. MaxLevels /\ L + 1 \in L .. MaxLevels
    BY <1>0, <1>1, Radix
  <2>1. k <= t.capacity <=> Shifted(k, L) = 0
    BY ONLY <1>0, k \in Nat, FitsIs
  <2>2. k <= u.capacity <=> Shifted(k, L + 1) = 0
    BY ONLY <1>4, k \in Nat, FitsIs
  <2>3. Shifted(k, L) = 0 => Shifted(k, L + 1) = 0
    BY ONLY <2>0, k \in Nat, ShiftedZero
  <2>4. u.capacity \in Nat
    BY <1>4, FullNat
  <2>5. CASE Shifted(k, L) = 0
    <3>1. Digit(k, L + 1) = 0
      BY <1>1, <2>5, TopDigit
    <3>2. Reach(u, k, 0) = Reach(t, k, 0)
      BY <1>11, <2>0, <3>1
    <3> QED BY <1>0, <2>1, <2>2, <2>3, <2>4, <2>5, <3>2 DEF get
  <2>6. CASE Shifted(k, L) # 0 /\ Shifted(k, L + 1) = 0
    <3>1. Digit(k, L + 1) # 0
      BY <1>1, <2>6, TopDigit
    <3>2. Reach(u, k, L) = NULL
      BY <1>10, <3>1
    <3>3. Reach(u, k, 0) = NULL
      BY ONLY k \in Nat, <1>9, <2>0, <3>2, ReachNull
    <3>4. k > t.capacity /\ ~(k > u.capacity)
      BY <1>0, <2>1, <2>2, <2>4, <2>6
    <3> QED BY <3>3, <3>4 DEF get
  <2>7. CASE Shifted(k, L + 1) # 0
    <3>1. k > t.capacity /\ k > u.capacity
      BY <1>0, <2>1, <2>2, <2>3, <2>4, <2>7
    <3> QED BY <3>1 DEF get
  <2> QED BY <2>5, <2>6, <2>7
<1> QED BY <1>9, <1>12

\* The same about Lift.
LEMMA LiftTree ==
    ASSUME NEW t, NEW U, NEW L, NEW lv, Shape(t, U, L, lv), L < MaxLevels
    PROVE  \E lu : Shape(Lift(t), U, L + 1, lu) /\ \A k \in Nat : get(Lift(t), k) = get(t, k)
<1>1. PICK N, u : N = Len(t.children) /\ u = Lift(t)
  OBVIOUS
<1>2. t \in Trees
  BY DEF Shape, ShapeTypes
<1>3. IsLifted(t, u, N)
  BY ONLY <1>1, <1>2, Lifted
<1>4. \E lu : Shape(u, U, L + 1, lu) /\ \A k \in Nat : get(u, k) = get(t, k)
  BY ONLY Shape(t, U, L, lv), L < MaxLevels, <1>3, LiftKeeps
<1> QED BY <1>1, <1>4

\* resize leaves a tree that has room for the key, and no key finds anything
\* else.
LEMMA ResizeKeeps ==
    ASSUME NEW t, NEW U, IsTree(t, U), NEW key \in Nat, Shifted(key, MaxLevels) = 0
    PROVE  \E L, lv : /\ Shape(resize(t, key), U, L, lv)
                      /\ key <= resize(t, key).capacity
                      /\ resize(t, key) = t \/ L > 0
                      /\ \A k \in Nat : get(resize(t, key), k) = get(t, k)
<1>1. PICK up : /\ resize(t, key) = up[MaxLevels]
                /\ up[0] = t
                /\ \A n \in 0 .. MaxLevels - 1 :
                      up[n + 1] = IF up[n].capacity < key THEN Lift(up[n]) ELSE up[n]
  BY ResizeIs
<1> DEFINE Grown(u, n) == \E L, lv : /\ Shape(u, U, L, lv)
                                     /\ key <= u.capacity \/ L >= n
                                     /\ u = t \/ L > 0
                                     /\ \A k \in Nat : get(u, k) = get(t, k)
           S == {n \in 0 .. MaxLevels : Grown(up[n], n)}
<1>2. 0 \in S
  <2>1. PICK L, lv : Shape(t, U, L, lv)
    BY DEF IsTree
  <2>2. L \in Nat /\ L >= 0
    BY <2>1, ShapeParts
  <2>3. Grown(up[0], 0)
    BY <1>1, <2>1, <2>2
  <2> HIDE DEF Grown
  <2> QED BY <2>3, Radix
<1>3. ASSUME NEW n \in 0 .. MaxLevels - 1, n \in S PROVE n + 1 \in S
  <2>1. n + 1 \in 0 .. MaxLevels /\ n \in Nat /\ n < MaxLevels
    BY Radix
  <2>2. PICK u : u = up[n]
    OBVIOUS
  <2>3. PICK L, lv : /\ Shape(u, U, L, lv)
                     /\ key <= u.capacity \/ L >= n
                     /\ u = t \/ L > 0
                     /\ \A k \in Nat : get(u, k) = get(t, k)
    BY <1>3, <2>2
  <2>4. up[n + 1] = IF u.capacity < key THEN Lift(u) ELSE u
    BY <1>1, <2>2
  <2>5. L \in Nat /\ L <= MaxLevels /\ Full(u.capacity, L) /\ u.capacity \in Nat
    BY <2>3, ShapeParts
  <2>6. CASE ~(u.capacity < key)
    <3>1. up[n + 1] = u /\ key <= u.capacity
      BY <2>4, <2>5, <2>6
    <3>2. Grown(up[n + 1], n + 1)
      BY <2>3, <3>1
    <3> HIDE DEF Grown
    <3> QED BY <2>1, <3>2
  <2>7. CASE u.capacity < key
    <3>1. PICK v : v = Lift(u) /\ v = up[n + 1]
      BY <2>4, <2>7
    <3>2. L < MaxLevels
      <4>1. key <= u.capacity <=> Shifted(key, L) = 0
        BY ONLY <2>5, key \in Nat, FitsIs
      <4> QED BY <2>5, <2>7, <4>1, Radix
    <3>6. PICK lu : Shape(v, U, L + 1, lu) /\ \A k \in Nat : get(v, k) = get(u, k)
      <4>1. Shape(u, U, L, lv) /\ v = Lift(u)
        BY <2>3, <3>1
      <4> QED BY ONLY <3>2, <4>1, LiftTree
    <3>7. (L + 1 >= n + 1) /\ L + 1 > 0
      BY <2>1, <2>3, <2>5, <2>7
    <3>8. \A k \in Nat : get(v, k) = get(t, k)
      BY <2>3, <3>6
    <3>9. Grown(v, n + 1)
      BY ONLY <3>6, <3>7, <3>8
    <3> HIDE DEF Grown
    <3> QED BY <2>1, <3>1, <3>9
  <2> QED BY <2>6, <2>7
<1>4. Grown(up[MaxLevels], MaxLevels)
  <2>1. MaxLevels \in S
    <3> HIDE DEF S
    <3>1. 0 .. MaxLevels \subseteq S
      BY ONLY <1>2, <1>3, Radix, UpTo
    <3> QED BY <3>1, Radix
  <2> HIDE DEF Grown
  <2> QED BY <2>1
<1>5. PICK g : g = resize(t, key) /\ g = up[MaxLevels]
  BY <1>1
<1>6. PICK L, lv : /\ Shape(g, U, L, lv)
                   /\ key <= g.capacity \/ L >= MaxLevels
                   /\ g = t \/ L > 0
                   /\ \A k \in Nat : get(g, k) = get(t, k)
  BY <1>4, <1>5
<1>7. key <= g.capacity
  <2>1. L \in Nat /\ L <= MaxLevels /\ Full(g.capacity, L)
    BY <1>6, ShapeParts
  <2>2. key <= g.capacity <=> Shifted(key, L) = 0
    BY ONLY <2>1, key \in Nat, FitsIs
  <2> QED BY <1>6, <2>1, <2>2, Radix
<1> QED BY ONLY <1>5, <1>6, <1>7

-----------------------------------------------------------------------------
\* The operations.

\* A tree with other branches.
WithChildren(g, q) == [g EXCEPT !.children = q]

\* What changes, and what stays.
LEMMA SetChildren ==
    ASSUME NEW g \in Trees, NEW q, NEW t, t = WithChildren(g, q)
    PROVE  /\ t.children = q /\ t.root = g.root /\ t.capacity = g.capacity
           /\ \A r : WithChildren(t, r) = WithChildren(g, r)
  BY DEF Trees, WithChildren

\* The descent in the tree t has reached the node h levels above the leaves.
OnWay(t, w, key, h) ==
    /\ w = [node |-> Reach(t, key, h), children |-> t.children]
    /\ Reach(t, key, h) # NULL

\* A turn of the descent above the last level.  w.node is the node of the way
\* that was reached, and t the tree with the branches w.children.
LEMMA DescendKeeps ==
    ASSUME NEW t, NEW U, NEW L, NEW lv, Shape(t, U, L, lv), NEW key \in Nat, NEW leaf,
           NEW h \in 2 .. L, NEW w, OnWay(t, w, key, h),
           NEW v, v = Descend(w, key, h, leaf)
    PROVE  \E u, lu : /\ Shape(u, U, L, lu)
                      /\ u = WithChildren(t, v.children)
                      /\ OnWay(u, v, key, h - 1)
                      /\ \A k \in Nat : Reach(u, k, 0) = Reach(t, k, 0)
<1>0. /\ L \in Nat /\ L <= MaxLevels /\ t \in Trees /\ h \in 1 .. L /\ h \in 1 .. MaxLevels
      /\ h - 1 \in 0 .. L - 1 /\ (h - 1) + 1 = h /\ h # 1 /\ h > 1
  <2>1. L \in Nat /\ L <= MaxLevels
    BY ShapeParts
  <2>2. t \in Trees
    BY DEF Shape, ShapeTypes
  <2> QED BY <2>1, <2>2, Radix
<1>1. PICK N, d, b : /\ N = Len(t.children) /\ d = Digit(key, h)
                     /\ b = Reach(t, key, h) /\ b # NULL
                     /\ w = [node |-> b, children |-> t.children]
  BY DEF OnWay
<1>2. b \in 1 .. N /\ lv[b] = h
  BY ONLY Shape(t, U, L, lv), key \in Nat, <1>0, <1>1, ReachBranch
<1>3. d \in Digits
  BY <1>0, <1>1, DigitIn
<1>4. N \in Nat
  BY <1>1, ShapeParts
<1>5. CASE t.children[b][d] # NULL
  <2>1. v = [node |-> t.children[b][d], children |-> t.children]
    <3>1. v = [w EXCEPT !.node = t.children[b][d]]
      BY <1>0, <1>1, <1>5 DEF Descend
    <3> QED BY <1>1, <3>1
  <2>2. Reach(t, key, (h - 1) + 1) = b
    BY <1>0, <1>1
  <2>3. Reach(t, key, h - 1) = IF b = NULL THEN NULL ELSE t.children[b][Digit(key, (h - 1) + 1)]
    <3>1. h - 1 \in 0 .. L - 1
      BY <1>0
    <3>2. Reach(t, key, h - 1) = IF Reach(t, key, (h - 1) + 1) = NULL THEN NULL
                                 ELSE t.children[Reach(t, key, (h - 1) + 1)][Digit(key, (h - 1) + 1)]
      BY ONLY Shape(t, U, L, lv), <3>1, Way
    <3> QED BY ONLY <2>2, <3>2
  <2>4. Reach(t, key, h - 1) = t.children[b][d]
    BY <1>0, <1>1, <2>3
  <2>5. t = WithChildren(t, v.children)
    BY <1>0, <2>1 DEF Trees, WithChildren
  <2>6. OnWay(t, v, key, h - 1)
    BY <1>5, <2>1, <2>4 DEF OnWay
  <2> QED BY <2>5, <2>6
<1>6. CASE t.children[b][d] = NULL
  <2>1. PICK q : q = Append([t.children EXCEPT ![b][d] = N + 1], Blank)
    OBVIOUS
  <2>2. v = [node |-> N + 1, children |-> q]
    BY <1>0, <1>1, <1>6, <2>1 DEF Descend
  <2>3. PICK u : u = [t EXCEPT !.children = q]
    OBVIOUS
  <2>4. IsBranchAdded(t, u, N, b, d)
    BY ONLY <1>0, <1>1, <1>2, <1>3, <1>4, <2>1, <2>3, BranchAdded
  <2>5. lv[b] > 1
    BY <1>0, <1>2
  <2>6. PICK lu : /\ Shape(u, U, L, lu)
                  /\ \A k \in Nat : Reach(u, k, 0) = Reach(t, k, 0)
                  /\ \A k \in Nat : Reach(t, k, lv[b]) = b /\ Digit(k, lv[b]) = d
                         => Reach(u, k, lv[b] - 1) = N + 1
    BY ONLY Shape(t, U, L, lv), <1>2, <1>3, <1>6, <2>4, <2>5, AddBranch
  <2>7. Reach(u, key, h - 1) = N + 1
    <3>1. Reach(t, key, lv[b]) = b /\ Digit(key, lv[b]) = d
      BY <1>1, <1>2
    <3> QED BY ONLY key \in Nat, <1>2, <2>6, <3>1
  <2>8. N + 1 # NULL
    BY <1>4, NullIs
  <2>9. u.children = q
    BY <1>0, <2>3 DEF Trees
  <2>10. OnWay(u, v, key, h - 1) /\ u = WithChildren(t, v.children)
    BY ONLY <2>2, <2>3, <2>7, <2>8, <2>9 DEF OnWay, WithChildren
  <2> QED BY ONLY <2>6, <2>10
<1> QED BY <1>5, <1>6

\* The last turn: the leaf is put in its place.
LEMMA DescendLast ==
    ASSUME NEW t, NEW U, NEW L, NEW lv, Shape(t, U, L, lv), L > 0,
           NEW key \in Nat, key <= t.capacity, NEW leaf \in Leaves \cup {NULL}, leaf \notin U,
           NEW w, OnWay(t, w, key, 1),
           NEW u, u = WithChildren(t, Descend(w, key, 1, leaf).children)
    PROVE  /\ Shape(u, U \cup ({leaf} \ {NULL}), L, lv)
           /\ get(u, key) = leaf
           /\ \A k \in Nat : k # key => get(u, k) = get(t, k)
<1>0. /\ L \in Nat /\ L <= MaxLevels /\ t \in Trees /\ 1 \in 1 .. L /\ 1 \in 0 .. L /\ 1 \in 1 .. MaxLevels
      /\ U \subseteq Leaves /\ t.capacity \in Nat
  <2>1. L \in Nat /\ L <= MaxLevels /\ U \subseteq Leaves /\ t.capacity \in Nat
    BY ShapeParts
  <2>2. t \in Trees
    BY DEF Shape, ShapeTypes
  <2> QED BY <2>1, <2>2, Radix
<1>v. PICK V : V = U \cup ({leaf} \ {NULL})
  OBVIOUS
<1>1. PICK N, d, b : /\ N = Len(t.children) /\ d = Digit(key, 1)
                     /\ b = Reach(t, key, 1) /\ b # NULL
                     /\ w = [node |-> b, children |-> t.children]
  BY DEF OnWay
<1>2. b \in 1 .. N /\ lv[b] = 1
  BY ONLY Shape(t, U, L, lv), key \in Nat, <1>0, <1>1, ReachBranch
<1>3. d \in Digits
  BY <1>0, <1>1, DigitIn
<1>4. Descend(w, key, 1, leaf).children = [t.children EXCEPT ![b][d] = leaf]
  BY <1>1 DEF Descend
<1>5. IsPointerSet(t, u, N, b, d, leaf)
  <2>1. leaf \in Pointers
    BY DEF Pointers
  <2>2. u = [t EXCEPT !.children = [t.children EXCEPT ![b][d] = leaf]]
    BY ONLY <1>4, u = WithChildren(t, Descend(w, key, 1, leaf).children) DEF WithChildren
  <2> QED BY ONLY <1>0, <1>1, <1>2, <1>3, <2>1, <2>2, PointerSet
<1>6. V \subseteq Leaves /\ U \subseteq V /\ leaf \in V \cup {NULL}
  BY <1>0, <1>v
<1>7. /\ Shape(u, V, L, lv)
      /\ \A k \in Nat : Reach(u, k, 0) = IF Reach(t, k, 1) = b /\ Digit(k, 1) = d THEN leaf
                                         ELSE Reach(t, k, 0)
  BY ONLY Shape(t, U, L, lv), <1>2, <1>3, <1>5, <1>6, leaf \notin U, SetLeaf
<1>8. u.capacity = t.capacity
  BY <1>5 DEF IsPointerSet
<1>9. get(u, key) = leaf
  <2>1. Reach(u, key, 0) = leaf
    BY ONLY key \in Nat, <1>1, <1>7
  <2> QED BY <1>0, <1>8, <2>1 DEF get
<1>10. ASSUME NEW k \in Nat, k # key PROVE get(u, k) = get(t, k)
  <2>1. CASE k > t.capacity
    BY <1>8, <2>1 DEF get
  <2>2. CASE ~(k > t.capacity)
    <3>1. k <= t.capacity
      BY <1>0, <2>2
    <3>2. ~(Reach(t, k, 1) = b /\ Digit(k, 1) = d)
      <4> SUFFICES ASSUME Reach(t, k, 1) = b, Digit(k, 1) = d PROVE FALSE
        OBVIOUS
      <4>1. Reach(t, key, 1) = Reach(t, k, 1) /\ Reach(t, key, 1) # NULL
        BY <1>1
      <4>2. \A g \in 1 .. 1 : Digit(key, g) = Digit(k, g)
        BY <1>1
      <4>3. key = k
        BY ONLY Shape(t, U, L, lv), key \in Nat, k \in Nat, key <= t.capacity, <1>0, <3>1, <4>1, <4>2, SameWay
      <4> QED BY <1>10, <4>3
    <3>3. Reach(u, k, 0) = Reach(t, k, 0)
      BY <1>7, <3>2
    <3> QED BY <1>8, <3>3 DEF get
  <2> QED BY <2>1, <2>2
<1> QED BY <1>v, <1>7, <1>9, <1>10

\* A tree stays one when more leaves are in use.
LEMMA MoreLeaves ==
    ASSUME NEW t, NEW U, NEW L, NEW lv, Shape(t, U, L, lv), NEW V, U \subseteq V, V \subseteq Leaves
    PROVE  Shape(t, V, L, lv)
<1>1. \A y, h : IsNode(y, h, Len(t.children), U, lv) => IsNode(y, h, Len(t.children), V, lv)
  BY DEF IsNode
<1>2. ShapeNodes(t, V, L, lv)
  <2>1. ShapeNodes(t, U, L, lv)
    BY DEF Shape
  <2> QED BY <1>1, <2>1 DEF ShapeNodes
<1> QED BY <1>2 DEF Shape, ShapeTypes

\* A tree without levels holds at most the leaf of key 0.
LEMMA SingleLeaf ==
    ASSUME NEW t, NEW U, NEW lv, Shape(t, U, 0, lv)
    PROVE  /\ t.capacity = 0
           /\ \A c \in 1 .. Len(t.children) : FALSE
           /\ \A k \in Nat : get(t, k) = IF k = 0 THEN t.root ELSE NULL
<1>1. Full(t.capacity, 0) /\ t.capacity \in Nat
  BY ShapeParts
<1>2. t.capacity = 0
  <2>1. Shifted(t.capacity, 0) = 0
    BY <1>1 DEF Full
  <2> QED BY <1>1, <2>1, ShiftedIs
<1>3. ASSUME NEW c \in 1 .. Len(t.children) PROVE FALSE
  <2>1. lv[c] \in 1 .. 0
    BY ShapeParts
  <2> QED BY <2>1
<1>4. \A k : Reach(t, k, 0) = t.root
  BY Way
<1>5. \A k \in Nat : k > 0 <=> k # 0
  OBVIOUS
<1> QED BY <1>2, <1>3, <1>4, <1>5 DEF get

\* The root of a tree without levels may become another leaf.
LEMMA SetRoot ==
    ASSUME NEW t, NEW U, NEW lv, Shape(t, U, 0, lv), NEW V, V \subseteq Leaves, NEW x \in V \cup {NULL},
           NEW u, u = [t EXCEPT !.root = x]
    PROVE  Shape(u, V, 0, lv) /\ u.root = x /\ u.capacity = t.capacity /\ u.children = t.children
<1>1. t \in Trees
  BY DEF Shape, ShapeTypes
<1>2. u.root = x /\ u.capacity = t.capacity /\ u.children = t.children /\ u \in Trees
  BY <1>1 DEF Trees, Pointers
<1>3. \A c \in 1 .. Len(u.children) : FALSE
  <2>1. \A c \in 1 .. Len(t.children) : FALSE
    BY ONLY Shape(t, U, 0, lv), SingleLeaf
  <2> QED BY <1>2, <2>1
<1>4. ShapeTypes(u, V, 0, lv)
  BY <1>2 DEF Shape, ShapeTypes
<1>5. ShapeNodes(u, V, 0, lv)
  BY <1>2, <1>3 DEF ShapeNodes, IsNode
<1>6. ShapeSingle(u, lv)
  BY <1>3 DEF ShapeSingle
<1> QED BY <1>2, <1>4, <1>5, <1>6 DEF Shape

\* The turns of the descent in a tree of L levels.
IsWalk(g, L, key, leaf, walk) ==
    /\ walk[0] = [node |-> g.root, children |-> g.children]
    /\ \A i \in 0 .. L - 1 : walk[i + 1] = Descend(walk[i], key, L - i, leaf)

\* The whole descent: a tree with levels gets the leaf at the key's place.
LEMMA DescentKeeps ==
    ASSUME NEW g, NEW U, NEW L, NEW lv, Shape(g, U, L, lv), L > 0,
           NEW key \in Nat, key <= g.capacity, NEW leaf \in Leaves \cup {NULL}, leaf \notin U,
           NEW walk, IsWalk(g, L, key, leaf, walk),
           NEW u, u = WithChildren(g, walk[L].children)
    PROVE  /\ IsTree(u, U \cup ({leaf} \ {NULL}))
           /\ get(u, key) = leaf
           /\ \A k \in Nat : k # key => get(u, k) = get(g, k)
<1> USE DEF IsWalk
<1>0. L \in Nat /\ g \in Trees /\ L - 1 \in Nat
  <2>1. L \in Nat
    BY ShapeParts
  <2>2. g \in Trees
    BY DEF Shape, ShapeTypes
  <2> QED BY <2>1, <2>2
<1> DEFINE Down(w, h) == \E t, lt : /\ Shape(t, U, L, lt)
                                    /\ t = WithChildren(g, w.children)
                                    /\ OnWay(t, w, key, h)
                                    /\ \A k \in Nat : Reach(t, k, 0) = Reach(g, k, 0)
           S == {i \in 0 .. L - 1 : Down(walk[i], L - i)}
<1>1. 0 \in S
  <2>1. Reach(g, key, L) = g.root /\ g.root # NULL
    <3>1. Reach(g, key, L) = g.root
      BY ONLY Shape(g, U, L, lv), Way
    <3> QED BY <3>1 DEF Shape, ShapeNodes
  <2>2. g = WithChildren(g, walk[0].children)
    BY <1>0 DEF Trees, WithChildren
  <2>3. OnWay(g, walk[0], key, L)
    BY <2>1 DEF OnWay
  <2>4. Down(walk[0], L)
    BY ONLY Shape(g, U, L, lv), <2>2, <2>3
  <2>5. L - 0 = L /\ 0 \in 0 .. L - 1
    BY <1>0
  <2> HIDE DEF Down
  <2> QED BY <2>4, <2>5
<1>2. ASSUME NEW i \in 0 .. (L - 1) - 1, i \in S PROVE i + 1 \in S
  <2>1. i \in 0 .. L - 1 /\ i + 1 \in 0 .. L - 1 /\ L - i \in 2 .. L /\ (L - i) - 1 = L - (i + 1)
    BY <1>0
  <2>2. PICK w, v, h : /\ w = walk[i] /\ v = walk[i + 1]
                       /\ h \in 2 .. L /\ h = L - i /\ h - 1 = L - (i + 1)
    BY <2>1
  <2>3. v = Descend(w, key, h, leaf)
    BY <2>1, <2>2
  <2>4. PICK t, lt : /\ Shape(t, U, L, lt)
                     /\ t = WithChildren(g, w.children)
                     /\ OnWay(t, w, key, h)
                     /\ \A k \in Nat : Reach(t, k, 0) = Reach(g, k, 0)
    BY <1>2, <2>2
  <2>5. PICK q, lq : /\ Shape(q, U, L, lq)
                     /\ q = WithChildren(t, v.children)
                     /\ OnWay(q, v, key, h - 1)
                     /\ \A k \in Nat : Reach(q, k, 0) = Reach(t, k, 0)
    <3>1. Shape(t, U, L, lt) /\ OnWay(t, w, key, h) /\ h \in 2 .. L
      BY <2>2, <2>4
    <3> QED BY ONLY key \in Nat, <2>3, <3>1, DescendKeeps
  <2>6. q = WithChildren(g, v.children)
    BY ONLY <1>0, <2>4, <2>5, SetChildren
  <2>7. Down(v, h - 1)
    BY ONLY <2>4, <2>5, <2>6
  <2> HIDE DEF Down
  <2> QED BY <2>1, <2>2, <2>7
<1>3. Down(walk[L - 1], 1)
  <2>1. L - 1 \in S
    <3> HIDE DEF S
    <3>1. 0 .. L - 1 \subseteq S
      BY ONLY <1>0, <1>1, <1>2, UpTo
    <3> QED BY <1>0, <3>1
  <2>2. L - (L - 1) = 1
    BY <1>0
  <2> HIDE DEF Down
  <2> QED BY <2>1, <2>2
<1>4. PICK w, v : w = walk[L - 1] /\ v = walk[L] /\ v = Descend(w, key, 1, leaf)
  <2>1. L - 1 \in 0 .. L - 1 /\ (L - 1) + 1 = L /\ L - (L - 1) = 1
    BY <1>0
  <2> QED BY <2>1
<1>5. PICK t, lt : /\ Shape(t, U, L, lt)
                   /\ t = WithChildren(g, w.children)
                   /\ OnWay(t, w, key, 1)
                   /\ \A k \in Nat : Reach(t, k, 0) = Reach(g, k, 0)
  BY <1>3, <1>4
<1>6. t.capacity = g.capacity /\ u = WithChildren(t, Descend(w, key, 1, leaf).children)
  <2>1. u = WithChildren(g, Descend(w, key, 1, leaf).children)
    BY <1>4
  <2>2. t.capacity = g.capacity /\ \A r : WithChildren(t, r) = WithChildren(g, r)
    BY ONLY <1>0, <1>5, SetChildren
  <2> QED BY ONLY <2>1, <2>2
<1>7. /\ Shape(u, U \cup ({leaf} \ {NULL}), L, lt)
      /\ get(u, key) = leaf
      /\ \A k \in Nat : k # key => get(u, k) = get(t, k)
  <2>1. Shape(t, U, L, lt) /\ OnWay(t, w, key, 1) /\ key <= t.capacity
    BY <1>5, <1>6
  <2> QED BY ONLY L > 0, key \in Nat, leaf \in Leaves \cup {NULL}, leaf \notin U,
                  <1>6, <2>1, DescendLast
<1>8. \A k \in Nat : get(t, k) = get(g, k)
  BY <1>5, <1>6 DEF get
<1> QED BY ONLY <1>7, <1>8 DEF IsTree

\* cx_radix_tree_new_leaf: the key finds the new leaf afterwards, or the tree
\* was a single leaf and stays as it is.  No other key finds anything else.
LEMMA NewLeafKeeps ==
    ASSUME NEW t, NEW U, IsTree(t, U), NEW key \in Nat, Shifted(key, MaxLevels) = 0,
           NEW leaf \in Leaves \cup {NULL}, leaf \notin U,
           NEW u, u = new_leaf(t, key, leaf)
    PROVE  /\ IsTree(u, U \cup ({leaf} \ {NULL}))
           /\ get(u, key) = leaf \/ (u = t /\ get(t, key) # NULL)
           /\ \A k \in Nat : k # key => get(u, k) = get(t, k)
<1>1. PICK g : g = resize(t, key)
  OBVIOUS
<1>2. PICK L, lv : /\ Shape(g, U, L, lv)
                   /\ key <= g.capacity
                   /\ g = t \/ L > 0
                   /\ \A k \in Nat : get(g, k) = get(t, k)
  BY <1>1, ResizeKeeps
<1>3. L \in Nat /\ Levels(g) = L /\ U \subseteq Leaves /\ g.capacity \in Nat /\ g \in Trees
  <2>1. Shape(g, U, L, lv)
    BY <1>2
  <2>2. L \in Nat /\ Full(g.capacity, L) /\ U \subseteq Leaves /\ g.capacity \in Nat
    BY ONLY <2>1, ShapeParts
  <2>3. Levels(g) = L
    BY ONLY <2>2, LevelsIs
  <2> QED BY <2>1, <2>2, <2>3 DEF Shape, ShapeTypes
<1>4. PICK V : V = U \cup ({leaf} \ {NULL})
  OBVIOUS
<1>5. V \subseteq Leaves /\ leaf \in V \cup {NULL} /\ U \subseteq V
  BY <1>3, <1>4
<1>6. IF g.root = NULL THEN u = [g EXCEPT !.root = leaf]
      ELSE \E walk : /\ u = [g EXCEPT !.children = walk[L].children]
                     /\ walk[0] = [node |-> g.root, children |-> g.children]
                     /\ \A i \in 0 .. L - 1 : walk[i + 1] = Descend(walk[i], key, L - i, leaf)
  BY ONLY u = new_leaf(t, key, leaf), <1>1, <1>3, NewLeafIs
<1>7. CASE L = 0
  <2>1. Shape(g, U, 0, lv) /\ g = t
    BY <1>2, <1>7
  <2>2. g.capacity = 0 /\ \A k \in Nat : get(g, k) = IF k = 0 THEN g.root ELSE NULL
    BY ONLY <2>1, SingleLeaf
  <2>3. key = 0
    BY <1>2, <2>2
  <2>4. CASE g.root = NULL
    <3>1. u = [g EXCEPT !.root = leaf]
      BY <1>6, <2>4
    <3>2. Shape(u, V, 0, lv) /\ u.root = leaf
      BY ONLY <1>5, <2>1, <3>1, SetRoot
    <3>3. \A k \in Nat : get(u, k) = IF k = 0 THEN u.root ELSE NULL
      BY ONLY <3>2, SingleLeaf
    <3>4. IsTree(u, V)
      BY ONLY <3>2 DEF IsTree
    <3>5. get(u, key) = leaf /\ \A k \in Nat : k # key => get(u, k) = get(t, k)
      BY <2>1, <2>2, <2>3, <3>2, <3>3
    <3> QED BY <1>4, <3>4, <3>5
  <2>5. CASE g.root # NULL
    <3>1. PICK walk : /\ u = [g EXCEPT !.children = walk[L].children]
                      /\ walk[0] = [node |-> g.root, children |-> g.children]
      BY <1>6, <2>5
    <3>2. walk[L].children = g.children
      BY <1>7, <3>1
    <3>3. u = g
      BY ONLY <1>3, <3>1, <3>2 DEF Trees
    <3>4. Shape(g, V, L, lv)
      BY ONLY <1>2, <1>5, MoreLeaves
    <3>5. IsTree(u, V)
      BY ONLY <3>3, <3>4 DEF IsTree
    <3>6. get(t, key) # NULL
      BY <2>1, <2>2, <2>3, <2>5
    <3> QED BY <1>4, <2>1, <3>3, <3>5, <3>6
  <2> QED BY <2>4, <2>5
<1>8. CASE L # 0
  <2>1. L > 0 /\ Shape(g, U, L, lv) /\ key <= g.capacity
    BY <1>2, <1>3, <1>8
  <2>2. g.root # NULL
    BY <2>1 DEF Shape, ShapeNodes
  <2>3. PICK walk : /\ u = [g EXCEPT !.children = walk[L].children]
                    /\ walk[0] = [node |-> g.root, children |-> g.children]
                    /\ \A i \in 0 .. L - 1 : walk[i + 1] = Descend(walk[i], key, L - i, leaf)
    BY <1>6, <2>2
  <2>5. IsWalk(g, L, key, leaf, walk) /\ u = WithChildren(g, walk[L].children)
    BY ONLY <2>3 DEF IsWalk, WithChildren
  <2>4. /\ IsTree(u, U \cup ({leaf} \ {NULL}))
        /\ get(u, key) = leaf
        /\ \A k \in Nat : k # key => get(u, k) = get(g, k)
    BY ONLY key \in Nat, leaf \in Leaves \cup {NULL}, leaf \notin U, <2>1, <2>5, DescentKeeps
  <2> QED BY ONLY <1>2, <2>4
<1> QED BY <1>7, <1>8

\* cx_radix_tree_delete clears the pointer of the one key that has the same
\* digits as far as the tree goes, and recycles the leaf that this key found.
LEMMA DeleteKeeps ==
    ASSUME NEW t, NEW U, IsTree(t, U), NEW key \in Nat, NEW u, u = delete(t, key),
           NEW r, r = DeleteRecycles(t, key), NEW low, low = key % (t.capacity + 1)
    PROVE  /\ IsTree(u, U \ {r})
           /\ low \in Nat /\ (key <= t.capacity => low = key)
           /\ get(t, low) = r
           /\ get(u, low) = NULL
           /\ \A k \in Nat : k # low => get(u, k) = get(t, k)
<1>1. PICK L, lv : Shape(t, U, L, lv)
  BY DEF IsTree
<1>2. L \in Nat /\ L <= MaxLevels /\ Full(t.capacity, L) /\ U \subseteq Leaves /\ t.capacity \in Nat
  BY <1>1, ShapeParts
<1>3. t \in Trees
  BY <1>1 DEF Shape, ShapeTypes
<1>4. Levels(t) = L
  BY ONLY <1>2, LevelsIs
<1>5. low \in Nat /\ low <= t.capacity /\ \A h \in 1 .. L : Digit(low, h) = Digit(key, h)
  BY ONLY <1>2, key \in Nat, low = key % (t.capacity + 1), LowDigits
<1>6. key <= t.capacity => low = key
  BY <1>2
<1>7. \A h \in 0 .. L : Reach(t, low, h) = Reach(t, key, h)
  BY ONLY <1>1, key \in Nat, low = key % (t.capacity + 1), LowWay
<1>8. 0 \in 0 .. L /\ r = Reach(t, key, 0) /\ get(t, low) = r
  <2>1. ~(low > t.capacity)
    BY <1>2, <1>5
  <2>2. 0 \in 0 .. L
    BY <1>2
  <2> QED BY <1>7, <2>1, <2>2 DEF get, DeleteRecycles
<1>9. CASE L = 0
  <2>1. u = [t EXCEPT !.root = NULL] /\ Shape(t, U, 0, lv)
    BY <1>1, <1>4, <1>9 DEF delete
  <2>2. t.capacity = 0 /\ \A k \in Nat : get(t, k) = IF k = 0 THEN t.root ELSE NULL
    BY ONLY <2>1, SingleLeaf
  <2>3. Shape(u, U, 0, lv) /\ u.root = NULL
    BY ONLY <1>2, <2>1, SetRoot
  <2>4. /\ \A c \in 1 .. Len(u.children) : FALSE
        /\ \A k \in Nat : get(u, k) = IF k = 0 THEN u.root ELSE NULL
    BY ONLY <2>3, SingleLeaf
  <2>5. Shape(u, U \ {r}, 0, lv)
    BY ONLY <2>3, <2>4, Recycle
  <2>6. low = 0
    BY <1>5, <2>2
  <2> QED BY <1>5, <1>6, <1>8, <2>2, <2>3, <2>4, <2>5, <2>6 DEF IsTree
<1>10. CASE L # 0 /\ Reach(t, key, 1) = NULL
  <2>1. u = t
    BY <1>4, <1>10 DEF delete
  <2>2. 1 \in 0 .. L /\ 0 \in 0 .. 1
    BY <1>2, <1>10
  <2>3. Reach(t, key, 0) = NULL
    BY ONLY <1>1, <1>10, <2>2, key \in Nat, ReachNull
  <2>4. U \ {r} = U
    BY <1>2, <1>8, <2>3, NullIs
  <2> QED BY <1>5, <1>6, <1>8, <2>1, <2>3, <2>4
<1>11. CASE L # 0 /\ Reach(t, key, 1) # NULL
  <2>1. PICK N, b, d : N = Len(t.children) /\ b = Reach(t, key, 1) /\ d = Digit(key, 1)
    OBVIOUS
  <2>2. 1 \in 1 .. L /\ 1 \in 0 .. L /\ 1 \in 1 .. MaxLevels /\ 0 \in 0 .. L - 1 /\ L > 0
    BY <1>2, <1>11, Radix
  <2>3. b \in 1 .. N /\ lv[b] = 1 /\ b # NULL
    BY ONLY <1>1, <1>11, <2>1, <2>2, key \in Nat, ReachBranch
  <2>4. d \in Digits
    BY <2>1, <2>2, DigitIn
  <2>5. IsPointerSet(t, u, N, b, d, NULL)
    <3>1. u = [t EXCEPT !.children[b][d] = NULL]
      BY <1>4, <1>11, <2>1 DEF delete
    <3>2. u = [t EXCEPT !.children = [t.children EXCEPT ![b][d] = NULL]]
      BY ONLY <3>1, <1>3 DEF Trees
    <3>3. NULL \in Pointers
      BY DEF Pointers
    <3> QED BY ONLY <1>3, <2>1, <2>3, <2>4, <3>2, <3>3, PointerSet
  <2>6. /\ Shape(u, U, L, lv)
        /\ \A k \in Nat : Reach(u, k, 0) = IF Reach(t, k, 1) = b /\ Digit(k, 1) = d THEN NULL
                                           ELSE Reach(t, k, 0)
    <3>1. NULL \notin U /\ U \subseteq U /\ NULL \in U \cup {NULL}
      BY <1>2, NullIs
    <3> QED BY ONLY <1>1, <1>2, <2>3, <2>4, <2>5, <3>1, SetLeaf
  <2>7. r = t.children[b][d]
    <3>1. Reach(t, key, 0 + 1) = b
      BY <2>1
    <3>2. Reach(t, key, 0) = IF b = NULL THEN NULL ELSE t.children[b][Digit(key, 0 + 1)]
      BY ONLY <1>1, <2>2, <3>1, WayDown
    <3> QED BY <1>8, <2>1, <2>3, <3>2
  <2>8. Shape(u, U \ {r}, L, lv)
    <3>1. ASSUME NEW c \in 1 .. Len(u.children), NEW e \in Digits, lv[c] = 1, u.children[c][e] = r
          PROVE  r = NULL
      <4>1. c \in 1 .. N /\ c \in 1 .. Len(t.children) /\ b \in 1 .. Len(t.children)
        BY <2>1, <2>3, <2>5 DEF IsPointerSet
      <4>2. CASE c = b /\ e = d
        BY <2>4, <2>5, <3>1, <4>1, <4>2 DEF IsPointerSet
      <4>3. CASE c # b \/ e # d
        <5>1. t.children[c][e] = r
          BY <2>5, <3>1, <4>1, <4>3 DEF IsPointerSet
        <5>2. lv[c] = lv[b] /\ t.children[c][e] = t.children[b][d]
          BY <2>3, <2>7, <3>1, <5>1
        <5>3. ShapeSingle(t, lv)
          BY <1>1 DEF Shape
        <5>4. t.children[c][e] # NULL => c = b /\ e = d
          BY ONLY e \in Digits, <2>4, <4>1, <5>2, <5>3 DEF ShapeSingle
        <5> QED BY <4>3, <5>1, <5>4
      <4> QED BY <4>2, <4>3
    <3> QED BY ONLY <1>11, <2>6, <3>1, Recycle
  <2>9. u.capacity = t.capacity
    BY <2>5 DEF IsPointerSet
  <2>10. get(u, low) = NULL
    <3>1. Reach(t, low, 1) = b /\ Digit(low, 1) = d
      BY <1>5, <1>7, <2>1, <2>2
    <3>2. Reach(u, low, 0) = NULL
      BY ONLY <1>5, <2>6, <3>1
    <3> QED BY <3>2 DEF get
  <2>11. ASSUME NEW k \in Nat, k # low PROVE get(u, k) = get(t, k)
    <3>1. CASE k > t.capacity
      BY <2>9, <3>1 DEF get
    <3>2. CASE ~(k > t.capacity)
      <4>1. k <= t.capacity
        BY <1>2, <3>2
      <4>2. ~(Reach(t, k, 1) = b /\ Digit(k, 1) = d)
        <5> SUFFICES ASSUME Reach(t, k, 1) = b, Digit(k, 1) = d PROVE FALSE
          OBVIOUS
        <5>1. Reach(t, low, 1) = Reach(t, k, 1) /\ Reach(t, low, 1) # NULL
          BY <1>7, <2>1, <2>2, <2>3
        <5>2. \A g \in 1 .. 1 : Digit(low, g) = Digit(k, g)
          BY <1>5, <2>1, <2>2
        <5>3. low = k
          BY ONLY k \in Nat, <1>1, <1>5, <2>2, <4>1, <5>1, <5>2, SameWay
        <5> QED BY <2>11, <5>3
      <4>3. Reach(u, k, 0) = Reach(t, k, 0)
        BY <2>6, <4>2
      <4> QED BY <2>9, <4>3 DEF get
    <3> QED BY <3>1, <3>2
  <2>12. IsTree(u, U \ {r})
    BY ONLY <2>8 DEF IsTree
  <2> QED BY ONLY <1>5, <1>6, <1>8, <2>10, <2>11, <2>12
<1> QED BY <1>9, <1>10, <1>11

-----------------------------------------------------------------------------
\* The radix tree.

\* Whoever uses the tree, it is one as long as no pool of branches failed.
TreeInv ==
    /\ broken \in BOOLEAN
    /\ counted \in BOOLEAN
    /\ counted => ~broken
    /\ ~broken => IsTree(tree, inUse)

\* Keys are numbers with at most MaxLevels digits.
LEMMA KeyIs == \A k \in Keys : k \in Nat /\ Shifted(k, MaxLevels) = 0
  BY RadixTreeAssumption DEF RadixTreeAssumption

\* cx_radix_tree_init leaves an empty tree.
LEMMA InitTree ==
    /\ IsTree(cx_radix_tree_init, {})
    /\ \A k \in Nat : get(cx_radix_tree_init, k) = NULL
<1> DEFINE t == [capacity |-> 0, root |-> NULL, children |-> <<>>]
           lv == [c \in 1 .. 0 |-> 0]
<1>1. cx_radix_tree_init = t
  BY DEF cx_radix_tree_init
<1>2. t \in Trees /\ Len(t.children) = 0
  BY DEF Trees, Pointers
<1>3. t.capacity = 0 /\ t.root = NULL
  OBVIOUS
<1>4. lv \in [1 .. 0 -> 1 .. 0]
  OBVIOUS
<1>5. Full(0, 0)
  <2>1. Shifted(0, 0) = 0
    BY ShiftedIs
  <2> QED BY <2>1, Radix DEF Full
<1> HIDE DEF t, lv
<1>6. ShapeTypes(t, {}, 0, lv)
  BY <1>2, <1>3, <1>4, <1>5 DEF ShapeTypes
<1>7. \A c \in 1 .. Len(t.children) : FALSE
  BY <1>2
<1>8. ShapeNodes(t, {}, 0, lv) /\ ShapeSingle(t, lv)
  BY <1>3, <1>7 DEF ShapeNodes, ShapeSingle, IsNode
<1>9. Shape(t, {}, 0, lv)
  BY <1>6, <1>8 DEF Shape
<1>10. IsTree(t, {})
  BY ONLY <1>9 DEF IsTree
<1>11. \A k \in Nat : get(t, k) = NULL
  BY ONLY <1>3, <1>9, SingleLeaf
<1> QED BY <1>1, <1>10, <1>11

\* What a call does to the tree: the keys other than the last one, and in a
\* delete the one with its low digits, find what they found.
Untouched ==
    \A k \in Keys : ~broken' /\ get(tree', k) # get(tree, k) =>
        \/ k = last'
        \/ k = last' % (tree.capacity + 1) /\ get(tree', k) = NULL /\ inUse' \subseteq inUse

\* A step that puts a leaf, or NULL, in the place of a key.
LEMMA PutStep ==
    ASSUME IsTree(tree, inUse), NEW key \in Keys, NEW leaf \in Leaves \cup {NULL}, leaf \notin inUse,
           tree' = new_leaf(tree, key, leaf), last' = key
    PROVE  /\ IsTree(tree', inUse \cup ({leaf} \ {NULL}))
           /\ get(tree', key) = leaf \/ (tree' = tree /\ get(tree, key) # NULL)
           /\ \A k \in Keys : k # key => get(tree', k) = get(tree, k)
           /\ Untouched
<1>1. key \in Nat /\ Shifted(key, MaxLevels) = 0 /\ Keys \subseteq Nat
  BY KeyIs
<1>2. /\ IsTree(tree', inUse \cup ({leaf} \ {NULL}))
      /\ get(tree', key) = leaf \/ (tree' = tree /\ get(tree, key) # NULL)
      /\ \A k \in Nat : k # key => get(tree', k) = get(tree, k)
  BY <1>1, NewLeafKeeps
<1> QED BY <1>1, <1>2 DEF Untouched

\* A step that deletes a key.
LEMMA DeleteStep ==
    ASSUME IsTree(tree, inUse), NEW key \in Keys, tree' = delete(tree, key),
           inUse' = inUse \ {DeleteRecycles(tree, key)}, last' = key
    PROVE  /\ IsTree(tree', inUse')
           /\ get(tree, key) # NULL =>
                 /\ get(tree', key) = NULL
                 /\ DeleteRecycles(tree, key) = get(tree, key)
                 /\ \A k \in Keys : k # key => get(tree', k) = get(tree, k)
           /\ Untouched
<1>1. key \in Nat /\ Keys \subseteq Nat
  BY KeyIs
<1>2. PICK low, r : low = key % (tree.capacity + 1) /\ r = DeleteRecycles(tree, key)
  OBVIOUS
<1>3. /\ IsTree(tree', inUse \ {r})
      /\ low \in Nat /\ (key <= tree.capacity => low = key)
      /\ get(tree, low) = r
      /\ get(tree', low) = NULL
      /\ \A k \in Nat : k # low => get(tree', k) = get(tree, k)
  BY ONLY IsTree(tree, inUse), tree' = delete(tree, key), <1>1, <1>2, DeleteKeeps
<1>4. Untouched
  <2>1. inUse' \subseteq inUse
    OBVIOUS
  <2> SUFFICES ASSUME NEW k \in Keys, get(tree', k) # get(tree, k)
               PROVE  k = last' % (tree.capacity + 1) /\ get(tree', k) = NULL /\ inUse' \subseteq inUse
    BY DEF Untouched
  <2>2. k = low
    BY <1>1, <1>3
  <2> QED BY <1>2, <1>3, <2>1, <2>2
<1>5. ASSUME get(tree, key) # NULL
      PROVE  /\ get(tree', key) = NULL
             /\ DeleteRecycles(tree, key) = get(tree, key)
             /\ \A k \in Keys : k # key => get(tree', k) = get(tree, k)
  <2>1. key <= tree.capacity
    <3>1. ~(key > tree.capacity)
      BY <1>5 DEF get
    <3>2. tree.capacity \in Nat
      BY ShapeParts DEF IsTree
    <3> QED BY <1>1, <3>1, <3>2
  <2> QED BY <1>1, <1>2, <1>3, <2>1
<1>6. inUse' = inUse \ {r}
  BY <1>2
<1> QED BY <1>3, <1>4, <1>5, <1>6

\* Every step keeps the tree one, and touches no other key.
LEMMA TreeStep ==
    ASSUME TreeInv, [RcNext]_<<vars, countVars>>
    PROVE  TreeInv' /\ (UNCHANGED vars \/ Untouched)
<1>0. /\ broken \in BOOLEAN /\ counted \in BOOLEAN /\ (counted => ~broken)
      /\ ~broken => IsTree(tree, inUse)
  BY DEF TreeInv
<1>1. CASE UNCHANGED vars /\ counted' = counted
  BY <1>1 DEF TreeInv, vars
<1>2. ASSUME counted, NEW k \in Keys, NEW d \in Items, NEW l \in Leaves, cx_rc_radix_tree_put(k, d, l)
      PROVE  TreeInv' /\ Untouched
  <2>1. /\ IsTree(tree, inUse) /\ l \in Leaves \cup {NULL} /\ l \notin inUse
        /\ tree' = new_leaf(tree, k, l) /\ last' = k
    BY <1>0, <1>2 DEF cx_rc_radix_tree_put
  <2>2. IsTree(tree', inUse \cup ({l} \ {NULL})) /\ Untouched
    BY ONLY k \in Keys, <2>1, PutStep
  <2>3. inUse' = inUse \cup ({l} \ {NULL}) /\ broken' = broken /\ counted' = counted
    BY <1>2, NullIs DEF cx_rc_radix_tree_put
  <2> QED BY <1>0, <2>2, <2>3 DEF TreeInv
<1>3. ASSUME counted, NEW k \in Keys, NEW d \in Items, cx_rc_radix_tree_release(k, d), LastReference(get(tree, k))
      PROVE  TreeInv' /\ Untouched
  <2>1. /\ IsTree(tree, inUse) /\ tree' = delete(tree, k)
        /\ inUse' = inUse \ {DeleteRecycles(tree, k)} /\ last' = k
    BY <1>0, <1>3 DEF cx_rc_radix_tree_release
  <2>2. IsTree(tree', inUse') /\ Untouched
    BY ONLY k \in Keys, <2>1, DeleteStep
  <2>3. broken' = broken /\ counted' = counted
    BY <1>3 DEF cx_rc_radix_tree_release
  <2> QED BY <1>0, <2>2, <2>3 DEF TreeInv
<1>4. ASSUME counted, NEW k \in Keys, NEW d \in Items, cx_rc_radix_tree_release(k, d), ~LastReference(get(tree, k))
      PROVE  TreeInv' /\ Untouched
  <2>1. tree' = tree /\ inUse' = inUse /\ broken' = broken /\ counted' = counted
    BY <1>4 DEF cx_rc_radix_tree_release
  <2> QED BY <1>0, <2>1 DEF TreeInv, Untouched
<1>5. ASSUME NEW key \in Keys, NEW leaf \in Leaves, cx_radix_tree_put(key, leaf), counted' = counted, ~counted
      PROVE  TreeInv' /\ Untouched
  <2>1. /\ IsTree(tree, inUse) /\ leaf \in Leaves \cup {NULL} /\ leaf \notin inUse
        /\ tree' = new_leaf(tree, key, leaf) /\ last' = key
    BY <1>0, <1>5 DEF cx_radix_tree_put
  <2>2. /\ IsTree(tree', inUse \cup ({leaf} \ {NULL})) /\ Untouched
        /\ get(tree', key) = leaf \/ tree' = tree
    BY ONLY key \in Keys, <2>1, PutStep
  <2>3. IsTree(tree', inUse')
    <3>1. CASE get(tree', key) = leaf
      <4>1. inUse' = inUse \cup ({leaf} \ {NULL})
        BY <1>5, <3>1, NullIs DEF cx_radix_tree_put
      <4> QED BY <2>2, <4>1
    <3>2. CASE get(tree', key) # leaf
      <4>1. inUse' = inUse /\ tree' = tree
        BY <1>5, <2>2, <3>2 DEF cx_radix_tree_put
      <4> QED BY <2>1, <4>1
    <3> QED BY <3>1, <3>2
  <2>4. broken' = broken
    BY <1>5 DEF cx_radix_tree_put
  <2> QED BY <1>0, <1>5, <2>2, <2>3, <2>4 DEF TreeInv
<1>6. ASSUME NEW key \in Keys, put_leaf_fails(key), counted' = counted, ~counted
      PROVE  TreeInv' /\ Untouched
  <2>0. IsTree(tree, inUse)
    BY <1>0, <1>6 DEF put_leaf_fails
  <2>1. /\ NULL \in Leaves \cup {NULL} /\ NULL \notin inUse
        /\ tree' = new_leaf(tree, key, NULL) /\ last' = key
    <3>1. inUse \subseteq Leaves
      BY <2>0, ShapeParts DEF IsTree
    <3> QED BY <1>6, <3>1, NullIs DEF put_leaf_fails
  <2>2. IsTree(tree', inUse \cup ({NULL} \ {NULL})) /\ Untouched
    BY ONLY key \in Keys, <2>0, <2>1, PutStep
  <2>3. inUse' = inUse \cup ({NULL} \ {NULL}) /\ broken' = broken
    BY <1>6 DEF put_leaf_fails
  <2> QED BY <1>0, <1>6, <2>2, <2>3 DEF TreeInv
<1>7. ASSUME NEW key \in Keys, resize_fails(key) \/ descend_fails(key), counted' = counted, ~counted
      PROVE  TreeInv' /\ Untouched
  <2>1. broken' = TRUE
    BY <1>7 DEF resize_fails, descend_fails
  <2> QED BY <1>0, <1>7, <2>1 DEF TreeInv, Untouched
<1>8. ASSUME NEW key \in Keys, cx_radix_tree_delete(key), counted' = counted, ~counted
      PROVE  TreeInv' /\ Untouched
  <2>1. /\ IsTree(tree, inUse) /\ tree' = delete(tree, key)
        /\ inUse' = inUse \ {DeleteRecycles(tree, key)} /\ last' = key
    BY <1>0, <1>8 DEF cx_radix_tree_delete
  <2>2. IsTree(tree', inUse') /\ Untouched
    BY ONLY key \in Keys, <2>1, DeleteStep
  <2>3. broken' = broken
    BY <1>8 DEF cx_radix_tree_delete
  <2> QED BY <1>0, <1>8, <2>2, <2>3 DEF TreeInv
<1>9. CASE UNCHANGED <<vars, countVars>>
  BY <1>1, <1>9 DEF countVars
<1>10. CASE counted /\ RcNext
  <2>1. ASSUME NEW k \in Keys, NEW d \in Items,
               put_found(k, d) \/ cx_rc_radix_tree_retain_value(k, d)
        PROVE  UNCHANGED vars /\ counted' = counted
    BY <2>1 DEF put_found, cx_rc_radix_tree_retain_value, vars
  <2>2. ASSUME NEW k \in Keys, cx_rc_radix_tree_retain(k) \/ cx_rc_radix_tree_cleanup \/ Closed
        PROVE  UNCHANGED vars /\ counted' = counted
    BY <2>2 DEF cx_rc_radix_tree_retain, cx_rc_radix_tree_cleanup, Closed, vars, countVars
  <2>3. cx_rc_radix_tree_cleanup \/ Closed => UNCHANGED vars /\ counted' = counted
    BY DEF cx_rc_radix_tree_cleanup, Closed, vars, countVars
  <2> QED BY <1>1, <1>2, <1>3, <1>4, <1>10, <2>1, <2>2, <2>3 DEF RcNext
<1>11. CASE ~counted /\ RcNext
  <2>1. Next /\ counted' = counted
    BY <1>11 DEF RcNext, countVars
  <2>2. Finished => UNCHANGED vars
    BY DEF Finished, vars
  <2> QED BY <1>1, <1>5, <1>6, <1>7, <1>8, <1>11, <2>1, <2>2 DEF Next
<1> QED BY <1>9, <1>10, <1>11

\* The tree is one at first.
LEMMA TreeInit == RcInit => TreeInv
  BY InitTree DEF RcInit, Init, TreeInv

\* The pointers of the tree always fit the heights of its branches, and no
\* node is below two branches.
THEOREM TreeInvHolds == RcSpec => []TreeInv
<1>1. TreeInv /\ [RcNext]_<<vars, countVars>> => TreeInv'
  BY TreeStep
<1> QED BY TreeInit, <1>1, PTL DEF RcSpec

\* LeavesNotShared holds of every use of the tree: no two keys find the same
\* leaf, for every radix, every set of keys and every order of puts and
\* deletes.
THEOREM LeavesNotSharedHolds == RcSpec => []LeavesNotShared
<1>1. TreeInv => LeavesNotShared
  <2> SUFFICES ASSUME TreeInv, ~broken, NEW j \in Keys, NEW k \in Keys, j # k, get(tree, j) # NULL
               PROVE  get(tree, j) # get(tree, k)
    BY DEF LeavesNotShared
  <2>1. IsTree(tree, inUse) /\ j \in Nat /\ k \in Nat
    BY KeyIs DEF TreeInv
  <2> QED BY <2>1, GetIs
<1> QED BY TreeInvHolds, <1>1, PTL

\* OthersUntouched holds of every use of the tree: a put changes what its own
\* key finds, a delete what the one key with the same low digits finds, also
\* when the tree grows by several levels.
THEOREM OthersUntouchedHolds == RcSpec => OthersUntouched
<1>1. TreeInv /\ [RcNext]_<<vars, countVars>> => [Untouched]_vars
  BY TreeStep
<1>2. RcSpec => [][Untouched]_vars
  BY TreeInvHolds, <1>1, PTL DEF RcSpec
<1> QED BY <1>2 DEF OthersUntouched, Untouched

-----------------------------------------------------------------------------
\* The reference counts.

\* The types of the counts, the items and the references.
CountTypes ==
    /\ rc \in [Leaves -> Nat]
    /\ data \in [Leaves -> Items \cup {NULL}]
    /\ held \in [Keys \X Items -> Nat]
    /\ addr \in [Items -> Leaves \cup {NULL}]
    /\ cleaned \in [Items -> Nat]
    /\ given \subseteq Items

\* A key that is not found is not held.  The leaf a key finds holds an item
\* that was put, its count is the number of references to that item, and no
\* other item of the key is held.
KeyInv(k) ==
    LET l == get(tree, k)
    IN  IF l = NULL THEN \A d \in Items : held[<<k, d>>] = 0
        ELSE /\ data[l] \in given /\ addr[data[l]] = l
             /\ rc[l] = held[<<k, data[l]>>] /\ rc[l] > 0
             /\ \A d \in Items : d # data[l] => held[<<k, d>>] = 0

CountInv ==
    /\ CountTypes
    /\ ~counted => \A r \in Keys \X Items : held[r] = 0
    /\ counted => \A k \in Keys : KeyInv(k)

\* The leaf of a key that is found, and the leaves of the others.
LEMMA Found ==
    ASSUME TreeInv, CountInv, counted, NEW k \in Keys, NEW l, l = get(tree, k), l # NULL
    PROVE  /\ l \in Leaves /\ l \in inUse
           /\ data[l] \in Items /\ data[l] \in given /\ addr[data[l]] = l
           /\ rc[l] \in Nat /\ rc[l] > 0 /\ rc[l] = held[<<k, data[l]>>]
           /\ \A d \in Items : d # data[l] => held[<<k, d>>] = 0
           /\ \A j \in Keys : j # k => get(tree, j) # l
<1>1. IsTree(tree, inUse) /\ k \in Nat /\ Keys \subseteq Nat
  BY KeyIs DEF TreeInv
<1>2. inUse \subseteq Leaves
  BY <1>1, ShapeParts DEF IsTree
<1>3. get(tree, k) \in inUse \cup {NULL} /\ \A j \in Nat : get(tree, j) = get(tree, k) /\ get(tree, k) # NULL => j = k
  BY <1>1, GetIs
<1>4. l \in Leaves /\ l \in inUse /\ \A j \in Keys : j # k => get(tree, j) # l
  BY <1>1, <1>2, <1>3
<1>5. KeyInv(k) /\ CountTypes
  BY DEF CountInv
<1> QED BY <1>4, <1>5 DEF KeyInv, CountTypes

\* A client that holds a reference holds the item its key finds.
LEMMA HeldIsFound ==
    ASSUME CountInv, counted, NEW k \in Keys, NEW d \in Items, held[<<k, d>>] > 0
    PROVE  get(tree, k) # NULL /\ data[get(tree, k)] = d
<1>1. KeyInv(k)
  BY DEF CountInv
<1>2. held[<<k, d>>] # 0
  OBVIOUS
<1> QED BY <1>1, <1>2 DEF KeyInv

\* One more reference to a key that is found.
LEMMA RetainStep ==
    ASSUME TreeInv, CountInv, counted, NEW k \in Keys, NEW l, l = get(tree, k), l # NULL,
           rc' = [rc EXCEPT ![l] = @ + 1],
           held' = [held EXCEPT ![<<k, data[l]>>] = @ + 1],
           UNCHANGED <<vars, counted, data, addr>>,
           CountTypes => cleaned' \in [Items -> Nat] /\ given \subseteq given' /\ given' \subseteq Items
    PROVE  CountInv'
<1>0. CountTypes /\ tree' = tree /\ \A j \in Keys : KeyInv(j)
  BY DEF CountInv, vars
<1>1. /\ l \in Leaves /\ data[l] \in Items /\ data[l] \in given /\ addr[data[l]] = l
      /\ rc[l] \in Nat /\ rc[l] > 0 /\ rc[l] = held[<<k, data[l]>>]
      /\ \A d \in Items : d # data[l] => held[<<k, d>>] = 0
      /\ \A j \in Keys : j # k => get(tree, j) # l
  BY ONLY TreeInv, CountInv, counted, k \in Keys, l = get(tree, k), l # NULL, Found
<1>2. held[<<k, data[l]>>] \in Nat /\ <<k, data[l]>> \in Keys \X Items
  BY <1>0, <1>1 DEF CountTypes
<1>3. CountTypes'
  <2>1. rc' \in [Leaves -> Nat]
    BY <1>0, <1>1 DEF CountTypes
  <2>2. held' \in [Keys \X Items -> Nat]
    BY <1>0, <1>2 DEF CountTypes
  <2> QED BY <1>0, <2>1, <2>2 DEF CountTypes
<1>4. held'[<<k, data[l]>>] = held[<<k, data[l]>>] + 1 /\ rc'[l] = rc[l] + 1
  BY <1>0, <1>1, <1>2 DEF CountTypes
<1>5. \A j \in Keys, d \in Items : <<j, d>> # <<k, data[l]>> => held'[<<j, d>>] = held[<<j, d>>]
  BY <1>0 DEF CountTypes
<1>6. \A m \in Leaves : m # l => rc'[m] = rc[m]
  BY <1>0 DEF CountTypes
<1>7. ASSUME NEW j \in Keys PROVE KeyInv(j)'
  <2>1. CASE j = k
    <3>1. data'[l] \in given' /\ addr'[data'[l]] = l /\ data' = data
      BY <1>0, <1>1
    <3>2. rc'[l] = held'[<<k, data[l]>>] /\ rc'[l] > 0
      BY <1>1, <1>4
    <3>3. \A d \in Items : d # data[l] => held'[<<k, d>>] = 0
      BY <1>1, <1>5
    <3>4. get(tree', k) = l
      BY <1>0
    <3> QED BY <2>1, <3>1, <3>2, <3>3, <3>4 DEF KeyInv
  <2>2. CASE j # k
    <3>1. KeyInv(j) /\ \A d \in Items : held'[<<j, d>>] = held[<<j, d>>]
      BY <1>0, <1>5, <2>2
    <3>2. CASE get(tree, j) = NULL
      BY <1>0, <3>1, <3>2 DEF KeyInv
    <3>3. CASE get(tree, j) # NULL
      <4>1. PICK m : m = get(tree, j) /\ m = get(tree', j)
        BY <1>0
      <4>2. m \in Leaves /\ data[m] \in Items
        BY ONLY TreeInv, CountInv, counted, j \in Keys, <3>3, <4>1, Found
      <4>3. rc'[m] = rc[m]
        BY <1>1, <1>6, <2>2, <4>1, <4>2
      <4> QED BY <1>0, <3>1, <3>3, <4>1, <4>2, <4>3 DEF KeyInv
    <3> QED BY <3>2, <3>3
  <2> QED BY <2>1, <2>2
<1>8. counted' = counted
  OBVIOUS
<1> QED BY <1>3, <1>7, <1>8 DEF CountInv

\* cx_rc_radix_tree_put with a new leaf.
LEMMA PutCounts ==
    ASSUME TreeInv, CountInv, counted, NEW k \in Keys, NEW d \in Items, NEW l \in Leaves,
           cx_rc_radix_tree_put(k, d, l)
    PROVE  /\ CountInv'
           /\ get(tree', k) = l /\ rc'[l] = 1 /\ data'[l] = d
           /\ \A j \in Keys : j # k =>
                 /\ get(tree', j) = get(tree, j)
                 /\ get(tree, j) # NULL => rc'[get(tree, j)] = rc[get(tree, j)]
                                           /\ data'[get(tree, j)] = data[get(tree, j)]
<1>0. /\ CountTypes /\ d \notin given /\ get(tree, k) = NULL /\ \A j \in Keys : KeyInv(j)
      /\ counted' = counted /\ given' = given \cup {d} /\ cleaned' = cleaned
  BY DEF CountInv, cx_rc_radix_tree_put
<1>1. /\ IsTree(tree, inUse) /\ l \in Leaves \cup {NULL} /\ l \notin inUse
      /\ tree' = new_leaf(tree, k, l) /\ last' = k
  BY DEF TreeInv, cx_rc_radix_tree_put
<1>2. get(tree', k) = l /\ \A j \in Keys : j # k => get(tree', j) = get(tree, j)
  <2>1. /\ get(tree', k) = l \/ (tree' = tree /\ get(tree, k) # NULL)
        /\ \A j \in Keys : j # k => get(tree', j) = get(tree, j)
    BY ONLY k \in Keys, <1>1, PutStep
  <2> QED BY <1>0, <2>1
<1>3. addr' = [addr EXCEPT ![d] = l] /\ rc' = [rc EXCEPT ![l] = 1] /\ data' = [data EXCEPT ![l] = d]
  <2>1. NewLeafReturns(tree, k, l) = l
    BY <1>0 DEF NewLeafReturns
  <2>2. addr' = [addr EXCEPT ![d] = l]
    BY <2>1 DEF cx_rc_radix_tree_put
  <2>3. addr'[d] = l
    BY <1>0, <2>2 DEF CountTypes
  <2> QED BY <2>2, <2>3 DEF cx_rc_radix_tree_put
<1>4. held' = [held EXCEPT ![<<k, d>>] = @ + 1] /\ <<k, d>> \in Keys \X Items /\ held[<<k, d>>] = 0
  BY <1>0 DEF cx_rc_radix_tree_put, KeyInv
<1>5. /\ rc'[l] = 1 /\ data'[l] = d /\ addr'[d] = l /\ held'[<<k, d>>] = 1
      /\ \A m \in Leaves : m # l => rc'[m] = rc[m] /\ data'[m] = data[m]
      /\ \A e \in Items : e # d => addr'[e] = addr[e]
      /\ \A j \in Keys, e \in Items : <<j, e>> # <<k, d>> => held'[<<j, e>>] = held[<<j, e>>]
  <2>1. held'[<<k, d>>] = 1
    BY <1>0, <1>4 DEF CountTypes
  <2> QED BY <1>0, <1>3, <1>4, <2>1 DEF CountTypes
<1>6. CountTypes'
  <2>1. held' \in [Keys \X Items -> Nat]
    BY <1>0, <1>4 DEF CountTypes
  <2>2. rc' \in [Leaves -> Nat] /\ data' \in [Leaves -> Items \cup {NULL}] /\ addr' \in [Items -> Leaves \cup {NULL}]
    BY <1>0, <1>3 DEF CountTypes
  <2> QED BY <1>0, <2>1, <2>2 DEF CountTypes
<1>7. ASSUME NEW j \in Keys, j # k, get(tree, j) # NULL
      PROVE  /\ get(tree, j) \in Leaves /\ get(tree, j) # l
             /\ data[get(tree, j)] \in given /\ data[get(tree, j)] # d /\ data[get(tree, j)] \in Items
  <2>1. PICK m : m = get(tree, j)
    OBVIOUS
  <2>2. m \in Leaves /\ m \in inUse /\ data[m] \in Items /\ data[m] \in given
    BY ONLY TreeInv, CountInv, counted, <1>7, <2>1, Found
  <2> QED BY <1>0, <1>1, <2>1, <2>2
<1>8. ASSUME NEW j \in Keys PROVE KeyInv(j)'
  <2>1. CASE j = k
    <3>1. \A e \in Items : e # d => held'[<<k, e>>] = 0
      BY <1>0, <1>5 DEF KeyInv
    <3>2. l # NULL
      BY NullIs
    <3> QED BY <1>0, <1>2, <1>5, <2>1, <3>1, <3>2 DEF KeyInv
  <2>2. CASE j # k
    <3>1. KeyInv(j) /\ (\A e \in Items : held'[<<j, e>>] = held[<<j, e>>]) /\ get(tree', j) = get(tree, j)
      BY <1>0, <1>2, <1>5, <2>2
    <3>2. CASE get(tree, j) = NULL
      BY <3>1, <3>2 DEF KeyInv
    <3>3. CASE get(tree, j) # NULL
      <4>1. PICK m : m = get(tree, j) /\ m = get(tree', j)
        BY <3>1
      <4>2. m \in Leaves /\ m # l /\ data[m] \in given /\ data[m] # d /\ data[m] \in Items
        BY <1>7, <2>2, <3>3, <4>1
      <4>3. rc'[m] = rc[m] /\ data'[m] = data[m] /\ addr'[data[m]] = addr[data[m]] /\ data[m] \in given'
        BY <1>0, <1>5, <4>2
      <4> QED BY <3>1, <3>3, <4>1, <4>2, <4>3 DEF KeyInv
    <3> QED BY <3>2, <3>3
  <2> QED BY <2>1, <2>2
<1>9. CountInv'
  BY <1>0, <1>6, <1>8 DEF CountInv
<1>10. ASSUME NEW j \in Keys, j # k, get(tree, j) # NULL
       PROVE  rc'[get(tree, j)] = rc[get(tree, j)] /\ data'[get(tree, j)] = data[get(tree, j)]
  BY <1>5, <1>7, <1>10
<1> QED BY <1>2, <1>5, <1>9, <1>10

\* cx_rc_radix_tree_release.
LEMMA ReleaseCounts ==
    ASSUME TreeInv, CountInv, counted, NEW k \in Keys, NEW d \in Items,
           cx_rc_radix_tree_release(k, d), NEW l, l = get(tree, k)
    PROVE  /\ CountInv'
           /\ l \in Leaves /\ l # NULL /\ data[l] = d
           /\ IF rc[l] = 1 THEN get(tree', k) = NULL /\ rc' = rc
              ELSE tree' = tree /\ rc' = [rc EXCEPT ![l] = @ - 1]
           /\ \A j \in Keys : j # k => get(tree', j) = get(tree, j)
<1>0. /\ CountTypes /\ held[<<k, d>>] > 0 /\ \A j \in Keys : KeyInv(j)
      /\ counted' = counted /\ given' = given /\ data' = data /\ addr' = addr
      /\ held' = [held EXCEPT ![<<k, d>>] = @ - 1] /\ <<k, d>> \in Keys \X Items
  BY DEF CountInv, cx_rc_radix_tree_release
<1>1. l # NULL /\ data[l] = d
  BY <1>0, HeldIsFound
<1>2. /\ l \in Leaves /\ d \in given /\ addr[d] = l
      /\ rc[l] \in Nat /\ rc[l] > 0 /\ rc[l] = held[<<k, d>>]
      /\ \A e \in Items : e # d => held[<<k, e>>] = 0
      /\ \A j \in Keys : j # k => get(tree, j) # l
  <2>1. /\ l \in Leaves /\ data[l] \in given /\ addr[data[l]] = l
        /\ rc[l] \in Nat /\ rc[l] > 0 /\ rc[l] = held[<<k, data[l]>>]
        /\ \A e \in Items : e # data[l] => held[<<k, e>>] = 0
        /\ \A j \in Keys : j # k => get(tree, j) # l
    BY ONLY TreeInv, CountInv, counted, k \in Keys, l = get(tree, k), <1>1, Found
  <2> QED BY <1>1, <2>1
<1>3. held'[<<k, d>>] = held[<<k, d>>] - 1
      /\ \A j \in Keys, e \in Items : <<j, e>> # <<k, d>> => held'[<<j, e>>] = held[<<j, e>>]
  BY <1>0 DEF CountTypes
<1>4. held' \in [Keys \X Items -> Nat]
  <2>1. held[<<k, d>>] - 1 \in Nat
    BY <1>2
  <2> QED BY <1>0, <2>1 DEF CountTypes
<1>5. CASE rc[l] = 1
  <2>1. /\ tree' = delete(tree, k) /\ inUse' = inUse \ {DeleteRecycles(tree, k)} /\ last' = k
        /\ rc' = rc /\ cleaned' = [cleaned EXCEPT ![data[l]] = @ + 1]
    BY <1>5 DEF cx_rc_radix_tree_release, LastReference
  <2>2. get(tree', k) = NULL /\ \A j \in Keys : j # k => get(tree', j) = get(tree, j)
    <3>1. IsTree(tree, inUse) /\ get(tree, k) # NULL
      BY <1>1 DEF TreeInv
    <3> QED BY ONLY k \in Keys, <2>1, <3>1, DeleteStep
  <2>3. CountTypes'
    <3>1. cleaned' \in [Items -> Nat]
      BY <1>0, <1>1, <2>1 DEF CountTypes
    <3> QED BY <1>0, <1>4, <2>1, <3>1 DEF CountTypes
  <2>4. ASSUME NEW j \in Keys PROVE KeyInv(j)'
    <3>1. CASE j = k
      <4>1. \A e \in Items : held'[<<k, e>>] = 0
        BY <1>2, <1>3, <1>5
      <4> QED BY <2>2, <3>1, <4>1 DEF KeyInv
    <3>2. CASE j # k
      <4>1. KeyInv(j) /\ (\A e \in Items : held'[<<j, e>>] = held[<<j, e>>]) /\ get(tree', j) = get(tree, j)
        BY <1>0, <1>3, <2>2, <3>2
      <4>2. get(tree, j) # NULL => data[get(tree, j)] \in Items
        BY <1>0, <4>1 DEF KeyInv, CountTypes
      <4> QED BY <1>0, <2>1, <4>1, <4>2 DEF KeyInv
    <3> QED BY <3>1, <3>2
  <2>5. CountInv'
    BY <1>0, <2>3, <2>4 DEF CountInv
  <2> QED BY <1>1, <1>2, <1>5, <2>1, <2>2, <2>5
<1>6. CASE rc[l] # 1
  <2>1. tree' = tree /\ rc' = [rc EXCEPT ![l] = @ - 1] /\ cleaned' = cleaned
    BY <1>6 DEF cx_rc_radix_tree_release, LastReference
  <2>2. CountTypes'
    <3>1. rc' \in [Leaves -> Nat]
      <4>1. rc[l] - 1 \in Nat
        BY <1>2
      <4> QED BY <1>0, <2>1, <4>1 DEF CountTypes
    <3> QED BY <1>0, <1>4, <2>1, <3>1 DEF CountTypes
  <2>3. rc'[l] = rc[l] - 1 /\ \A m \in Leaves : m # l => rc'[m] = rc[m]
    BY <1>0, <1>2, <2>1 DEF CountTypes
  <2>4. ASSUME NEW j \in Keys PROVE KeyInv(j)'
    <3>1. CASE j = k
      <4>1. \A e \in Items : e # d => held'[<<k, e>>] = 0
        BY <1>2, <1>3
      <4>2. rc'[l] > 0 /\ rc'[l] = held'[<<k, d>>]
        BY <1>2, <1>3, <1>6, <2>3
      <4>3. get(tree', k) = l /\ data'[l] = d /\ d \in given' /\ addr'[d] = l
        BY <1>0, <1>1, <1>2, <2>1
      <4> QED BY <1>1, <3>1, <4>1, <4>2, <4>3 DEF KeyInv
    <3>2. CASE j # k
      <4>1. KeyInv(j) /\ (\A e \in Items : held'[<<j, e>>] = held[<<j, e>>]) /\ get(tree', j) = get(tree, j)
        BY <1>0, <1>3, <2>1, <3>2
      <4>2. CASE get(tree, j) = NULL
        BY <4>1, <4>2 DEF KeyInv
      <4>3. CASE get(tree, j) # NULL
        <5>1. PICK m : m = get(tree, j) /\ m = get(tree', j)
          BY <4>1
        <5>2. m \in Leaves /\ data[m] \in Items
          BY ONLY TreeInv, CountInv, counted, j \in Keys, <4>3, <5>1, Found
        <5>3. rc'[m] = rc[m]
          BY <1>2, <2>3, <3>2, <5>1, <5>2
        <5> QED BY <1>0, <4>1, <4>3, <5>1, <5>2, <5>3 DEF KeyInv
      <4> QED BY <4>2, <4>3
    <3> QED BY <3>1, <3>2
  <2>5. CountInv'
    BY <1>0, <2>2, <2>4 DEF CountInv
  <2> QED BY <1>1, <1>2, <1>6, <2>1, <2>5
<1> QED BY <1>5, <1>6

\* Every step keeps the counts right.
LEMMA CountStep ==
    ASSUME TreeInv, CountInv, [RcNext]_<<vars, countVars>>
    PROVE  CountInv'
<1>1. CASE UNCHANGED <<vars, counted, rc, data, held, addr, cleaned, given>>
  BY <1>1 DEF CountInv, CountTypes, KeyInv, vars
<1>2. CASE ~counted /\ UNCHANGED countVars
  BY <1>2 DEF CountInv, CountTypes, countVars
<1>3. ASSUME counted, NEW k \in Keys, NEW d \in Items, put_found(k, d) PROVE CountInv'
  <2>1. PICK l : l = get(tree, k)
    OBVIOUS
  <2>2. /\ l # NULL /\ rc' = [rc EXCEPT ![l] = @ + 1] /\ held' = [held EXCEPT ![<<k, data[l]>>] = @ + 1]
        /\ UNCHANGED <<vars, counted, data, addr>> /\ cleaned' = [cleaned EXCEPT ![d] = @ + 1]
        /\ given' = given \cup {d}
    BY <1>3, <2>1 DEF put_found
  <2>3. CountTypes => cleaned' \in [Items -> Nat] /\ given \subseteq given' /\ given' \subseteq Items
    BY <2>2 DEF CountTypes
  <2> QED BY ONLY TreeInv, CountInv, counted, k \in Keys, <2>1, <2>2, <2>3, RetainStep
<1>4. ASSUME counted, NEW k \in Keys, cx_rc_radix_tree_retain(k) PROVE CountInv'
  <2>1. PICK l : l = get(tree, k)
    OBVIOUS
  <2>2. /\ l # NULL /\ rc' = [rc EXCEPT ![l] = @ + 1] /\ held' = [held EXCEPT ![<<k, data[l]>>] = @ + 1]
        /\ UNCHANGED <<vars, counted, data, addr>> /\ cleaned' = cleaned /\ given' = given
    BY <1>4, <2>1 DEF cx_rc_radix_tree_retain
  <2>3. CountTypes => cleaned' \in [Items -> Nat] /\ given \subseteq given' /\ given' \subseteq Items
    BY <2>2 DEF CountTypes
  <2> QED BY ONLY TreeInv, CountInv, counted, k \in Keys, <2>1, <2>2, <2>3, RetainStep
<1>5. ASSUME counted, NEW k \in Keys, NEW d \in Items, cx_rc_radix_tree_retain_value(k, d) PROVE CountInv'
  <2>1. PICK l : l = get(tree, k)
    OBVIOUS
  <2>2. l # NULL /\ data[l] = d
    <3>1. held[<<k, d>>] > 0
      BY <1>5 DEF cx_rc_radix_tree_retain_value
    <3> QED BY ONLY CountInv, counted, k \in Keys, d \in Items, <2>1, <3>1, HeldIsFound
  <2>3. addr[d] = l
    <3>1. addr[data[l]] = l
      BY ONLY TreeInv, CountInv, counted, k \in Keys, <2>1, <2>2, Found
    <3> QED BY <2>2, <3>1
  <2>4. /\ rc' = [rc EXCEPT ![l] = @ + 1] /\ held' = [held EXCEPT ![<<k, data[l]>>] = @ + 1]
        /\ UNCHANGED <<vars, counted, data, addr>> /\ cleaned' = cleaned /\ given' = given
    BY <1>5, <2>2, <2>3 DEF cx_rc_radix_tree_retain_value
  <2>5. CountTypes => cleaned' \in [Items -> Nat] /\ given \subseteq given' /\ given' \subseteq Items
    BY <2>4 DEF CountTypes
  <2> QED BY ONLY TreeInv, CountInv, counted, k \in Keys, <2>1, <2>2, <2>4, <2>5, RetainStep
<1>6. cx_rc_radix_tree_cleanup \/ Closed \/ UNCHANGED <<vars, countVars>>
        => UNCHANGED <<vars, counted, rc, data, held, addr, cleaned, given>>
  BY DEF cx_rc_radix_tree_cleanup, Closed, countVars
<1>7. CASE counted /\ RcNext
  BY <1>1, <1>3, <1>4, <1>5, <1>6, <1>7, PutCounts, ReleaseCounts DEF RcNext
<1>8. CASE ~counted /\ RcNext
  BY <1>2, <1>8 DEF RcNext
<1>9. counted \in BOOLEAN
  BY DEF TreeInv
<1> QED BY <1>1, <1>6, <1>7, <1>8, <1>9

\* The counts are right at first.
LEMMA CountInit == RcInit => CountInv
<1> SUFFICES ASSUME RcInit PROVE CountInv
  OBVIOUS
<1>1. CountTypes /\ \A r \in Keys \X Items : held[r] = 0
  BY DEF RcInit, CountTypes
<1>2. ASSUME NEW k \in Keys PROVE get(tree, k) = NULL
  BY InitTree, KeyIs DEF RcInit, Init
<1>3. ASSUME NEW k \in Keys PROVE KeyInv(k)
  BY <1>1, <1>2 DEF KeyInv
<1> QED BY <1>1, <1>3 DEF CountInv

\* The count of every leaf that a key finds is the number of references that
\* clients hold to the item in it.
THEOREM CountInvHolds == RcSpec => [](TreeInv /\ CountInv)
<1>1. TreeInv /\ CountInv /\ [RcNext]_<<vars, countVars>> => TreeInv' /\ CountInv'
  BY TreeStep, CountStep
<1> QED BY TreeInit, CountInit, <1>1, PTL DEF RcSpec

\* AddressStays holds: the address that was handed out for an item is the leaf
\* its key finds and holds that item until the last client released it,
\* however the tree grows and whatever leaves are recycled.
THEOREM AddressStaysHolds == RcSpec => []AddressStays
<1>1. TreeInv /\ CountInv => AddressStays
  <2> SUFFICES ASSUME TreeInv, CountInv, NEW k \in Keys, NEW d \in Items, held[<<k, d>>] > 0
               PROVE  addr[d] \in inUse /\ data[addr[d]] = d /\ addr[d] = get(tree, k)
    BY DEF AddressStays
  <2>1. counted
    <3>1. <<k, d>> \in Keys \X Items /\ held[<<k, d>>] # 0
      OBVIOUS
    <3> QED BY <3>1 DEF CountInv, TreeInv
  <2>2. PICK l : l = get(tree, k)
    OBVIOUS
  <2>3. l # NULL /\ data[l] = d
    BY <2>1, <2>2, HeldIsFound
  <2>4. l \in inUse /\ addr[data[l]] = l
    BY ONLY TreeInv, CountInv, k \in Keys, <2>1, <2>2, <2>3, Found
  <2> QED BY <2>2, <2>3, <2>4
<1> QED BY CountInvHolds, <1>1, PTL

-----------------------------------------------------------------------------
\* The refinement of RcMap.

\* The counts and the contents that the keys show.
RefCounts == [k \in Keys |-> IF Present(k) THEN rc[get(tree, k)] ELSE 0]
Contents  == [k \in Keys |-> IF Present(k) THEN data[get(tree, k)] ELSE NULL]

View(R, D) == [ref_count |-> R, data |-> D]

\* What the functions of rc_map.c do to such a view.
LEMMA ViewOps ==
    ASSUME NEW R, NEW D, R = [k \in Keys |-> R[k]], D = [k \in Keys |-> D[k]], NEW k \in Keys, NEW d
    PROVE  /\ R[k] = 0 => /\ Map!set(View(R, D), k, d) = View([R EXCEPT ![k] = R[k] + 1], [D EXCEPT ![k] = d])
                          /\ Map!SetCleans(View(R, D), k, d) = {}
           /\ R[k] - 1 = 0 => /\ Map!release_index(View(R, D), k)
                                    = View([R EXCEPT ![k] = R[k] - 1], [D EXCEPT ![k] = NULL])
                              /\ Map!ReleaseCleans(View(R, D), k) = {D[k]}
           /\ R[k] - 1 # 0 => /\ Map!release_index(View(R, D), k) = View([R EXCEPT ![k] = R[k] - 1], D)
                              /\ Map!ReleaseCleans(View(R, D), k) = {}
<1> USE DEF View, Map!is_empty
<1>1. R[k] = 0 => /\ Map!set(View(R, D), k, d) = View([R EXCEPT ![k] = R[k] + 1], [D EXCEPT ![k] = d])
                  /\ Map!SetCleans(View(R, D), k, d) = {}
  BY DEF Map!set, Map!retain_rc, Map!SetCleans
<1>3. PICK r : r = Map!release_rc(View(R, D), k)
  OBVIOUS
<1>4. r = View([R EXCEPT ![k] = R[k] - 1], D) /\ r.ref_count[k] = R[k] - 1
  BY <1>3 DEF Map!release_rc
<1>5. R[k] - 1 = 0 => Map!release_index(View(R, D), k) = View([R EXCEPT ![k] = R[k] - 1], [D EXCEPT ![k] = NULL])
  BY <1>3, <1>4 DEF Map!release_index
<1>6. R[k] - 1 # 0 => Map!release_index(View(R, D), k) = View([R EXCEPT ![k] = R[k] - 1], D)
  BY <1>3, <1>4 DEF Map!release_index
<1>7. Map!ReleaseCleans(View(R, D), k) = IF R[k] - 1 = 0 THEN {D[k]} ELSE {}
  BY <1>3, <1>4 DEF Map!ReleaseCleans
<1> QED BY <1>1, <1>5, <1>6, <1>7

\* The same for a slot in use.
LEMMA UsedSlot ==
    ASSUME NEW R, NEW D, R = [k \in Keys |-> R[k]], D = [k \in Keys |-> D[k]], NEW k \in Keys, R[k] # 0
    PROVE  /\ \A d : /\ Map!set(View(R, D), k, d) = View([R EXCEPT ![k] = R[k] + 1], D)
                     /\ Map!SetCleans(View(R, D), k, d) = {d}
           /\ Map!retain(View(R, D), k) = View([R EXCEPT ![k] = R[k] + 1], D)
           /\ ~Map!is_empty(View(R, D), k)
<1>1. ~Map!is_empty(View(R, D), k)
  BY DEF View, Map!is_empty
<1>2. Map!retain(View(R, D), k) = View([R EXCEPT ![k] = R[k] + 1], D)
  BY DEF View, Map!is_empty, Map!retain_rc, Map!retain
<1>3. ASSUME NEW d PROVE Map!set(View(R, D), k, d) = Map!retain(View(R, D), k)
  BY <1>1 DEF Map!set
<1>4. ASSUME NEW d PROVE Map!SetCleans(View(R, D), k, d) = {d}
  BY <1>1 DEF Map!SetCleans
<1> QED BY <1>1, <1>2, <1>3, <1>4

\* The view is what it should be.
LEMMA ViewIs ==
    /\ MapView = View(RefCounts, Contents)
    /\ RefCounts = [k \in Keys |-> RefCounts[k]] /\ Contents = [k \in Keys |-> Contents[k]]
    /\ \A k \in Keys : counted /\ get(tree, k) # NULL
                           => RefCounts[k] = rc[get(tree, k)] /\ Contents[k] = data[get(tree, k)]
    /\ \A k \in Keys : ~counted \/ get(tree, k) = NULL => RefCounts[k] = 0 /\ Contents[k] = NULL
  BY DEF MapView, View, RefCounts, Contents, Present

\* The same in the state after a step.
LEMMA ViewIsNext ==
    /\ MapView' = View(RefCounts', Contents')
    /\ RefCounts' = [k \in Keys |-> RefCounts'[k]] /\ Contents' = [k \in Keys |-> Contents'[k]]
    /\ \A k \in Keys : counted' /\ get(tree', k) # NULL
                           => RefCounts'[k] = rc'[get(tree', k)] /\ Contents'[k] = data'[get(tree', k)]
    /\ \A k \in Keys : ~counted' \/ get(tree', k) = NULL => RefCounts'[k] = 0 /\ Contents'[k] = NULL
  BY DEF MapView, View, RefCounts, Contents, Present

\* One more reference to a key that is found is one more to its slot.
LEMMA RetainView ==
    ASSUME TreeInv, CountInv, counted, NEW k \in Keys, NEW l, l = get(tree, k), l # NULL,
           rc' = [rc EXCEPT ![l] = @ + 1], UNCHANGED <<tree, counted, data>>
    PROVE  /\ RefCounts[k] # 0 /\ Contents[k] = data[l]
           /\ RefCounts' = [RefCounts EXCEPT ![k] = RefCounts[k] + 1]
           /\ Contents' = Contents
<1>1. /\ l \in Leaves /\ rc[l] \in Nat /\ rc[l] > 0
      /\ \A j \in Keys : j # k => get(tree, j) # l
  BY Found
<1>2. rc'[l] = rc[l] + 1 /\ \A m \in Leaves : m # l => rc'[m] = rc[m]
  BY <1>1 DEF CountInv, CountTypes
<1>3. RefCounts[k] = rc[l] /\ Contents[k] = data[l] /\ RefCounts'[k] = rc'[l] /\ Contents'[k] = data[l]
  BY ViewIs, ViewIsNext
<1>4. ASSUME NEW j \in Keys, j # k PROVE RefCounts'[j] = RefCounts[j] /\ Contents'[j] = Contents[j]
  <2>1. CASE get(tree, j) = NULL
    BY <2>1, ViewIs, ViewIsNext
  <2>2. CASE get(tree, j) # NULL
    <3>1. get(tree, j) \in Leaves
      BY <1>4, <2>2, Found
    <3>2. rc'[get(tree, j)] = rc[get(tree, j)]
      BY <1>1, <1>2, <1>4, <3>1
    <3> QED BY <2>2, <3>2, ViewIs, ViewIsNext
  <2> QED BY <2>1, <2>2
<1>5. RefCounts' = [RefCounts EXCEPT ![k] = RefCounts[k] + 1]
  BY <1>2, <1>3, <1>4, ViewIs, ViewIsNext
<1>6. Contents' = Contents
  BY <1>3, <1>4, ViewIs, ViewIsNext
<1> QED BY <1>1, <1>3, <1>5, <1>6

\* A put with a new leaf fills an empty slot.
LEMMA PutView ==
    ASSUME TreeInv, CountInv, counted, NEW k \in Keys, NEW d \in Items, NEW l \in Leaves,
           cx_rc_radix_tree_put(k, d, l)
    PROVE  /\ RefCounts[k] = 0
           /\ RefCounts' = [RefCounts EXCEPT ![k] = RefCounts[k] + 1]
           /\ Contents' = [Contents EXCEPT ![k] = d]
<1>1. /\ get(tree', k) = l /\ rc'[l] = 1 /\ data'[l] = d
      /\ \A j \in Keys : j # k =>
            /\ get(tree', j) = get(tree, j)
            /\ get(tree, j) # NULL => rc'[get(tree, j)] = rc[get(tree, j)]
                                      /\ data'[get(tree, j)] = data[get(tree, j)]
  BY PutCounts
<1>2. get(tree, k) = NULL /\ counted' = counted /\ l # NULL
  BY NullIs DEF cx_rc_radix_tree_put
<1>3. RefCounts[k] = 0 /\ RefCounts'[k] = 1 /\ Contents'[k] = d
  BY <1>1, <1>2, ViewIs, ViewIsNext
<1>4. ASSUME NEW j \in Keys, j # k PROVE RefCounts'[j] = RefCounts[j] /\ Contents'[j] = Contents[j]
  <2>1. CASE get(tree, j) = NULL
    BY <1>1, <1>2, <1>4, <2>1, ViewIs, ViewIsNext
  <2>2. CASE get(tree, j) # NULL
    BY <1>1, <1>2, <1>4, <2>2, ViewIs, ViewIsNext
  <2> QED BY <2>1, <2>2
<1>5. RefCounts' = [RefCounts EXCEPT ![k] = RefCounts[k] + 1]
  BY <1>3, <1>4, ViewIs, ViewIsNext
<1>6. Contents' = [Contents EXCEPT ![k] = d]
  BY <1>3, <1>4, ViewIs, ViewIsNext
<1> QED BY <1>3, <1>5, <1>6

\* A release takes one reference, and the last one empties the slot.
LEMMA ReleaseView ==
    ASSUME TreeInv, CountInv, counted, NEW k \in Keys, NEW d \in Items,
           cx_rc_radix_tree_release(k, d), NEW l, l = get(tree, k)
    PROVE  /\ RefCounts[k] = rc[l] /\ rc[l] \in Nat /\ Contents[k] = d /\ data[l] = d
           /\ RefCounts' = [RefCounts EXCEPT ![k] = RefCounts[k] - 1]
           /\ Contents' = IF rc[l] = 1 THEN [Contents EXCEPT ![k] = NULL] ELSE Contents
<1>1. /\ l \in Leaves /\ l # NULL /\ data[l] = d
      /\ IF rc[l] = 1 THEN get(tree', k) = NULL /\ rc' = rc
         ELSE tree' = tree /\ rc' = [rc EXCEPT ![l] = @ - 1]
      /\ \A j \in Keys : j # k => get(tree', j) = get(tree, j)
  BY ReleaseCounts
<1>2. counted' = counted /\ data' = data
  BY DEF cx_rc_radix_tree_release
<1>3. rc[l] \in Nat /\ \A j \in Keys : j # k => get(tree, j) # l
  BY <1>1, Found
<1>4. RefCounts[k] = rc[l] /\ Contents[k] = d
  BY <1>1, ViewIs
<1>5. \A m \in Leaves : m # l => rc'[m] = rc[m]
  BY <1>1 DEF CountInv, CountTypes
<1>6. RefCounts'[k] = rc[l] - 1 /\ Contents'[k] = IF rc[l] = 1 THEN NULL ELSE d
  <2>1. CASE rc[l] = 1
    BY <1>1, <2>1, ViewIsNext
  <2>2. CASE rc[l] # 1
    <3>1. rc'[l] = rc[l] - 1 /\ get(tree', k) = l
      BY <1>1, <2>2 DEF CountInv, CountTypes
    <3> QED BY <1>1, <1>2, <2>2, <3>1, ViewIsNext
  <2> QED BY <2>1, <2>2
<1>7. ASSUME NEW j \in Keys, j # k PROVE RefCounts'[j] = RefCounts[j] /\ Contents'[j] = Contents[j]
  <2>1. CASE get(tree, j) = NULL
    BY <1>1, <1>2, <1>7, <2>1, ViewIs, ViewIsNext
  <2>2. CASE get(tree, j) # NULL
    <3>1. get(tree, j) \in Leaves
      BY <1>7, <2>2, Found
    <3>2. rc'[get(tree, j)] = rc[get(tree, j)]
      BY <1>3, <1>5, <1>7, <3>1
    <3> QED BY <1>1, <1>2, <1>7, <2>2, <3>2, ViewIs, ViewIsNext
  <2> QED BY <2>1, <2>2
<1>8. RefCounts' = [RefCounts EXCEPT ![k] = RefCounts[k] - 1]
  BY <1>4, <1>6, <1>7, ViewIs, ViewIsNext
<1>9. Contents' = IF rc[l] = 1 THEN [Contents EXCEPT ![k] = NULL] ELSE Contents
  <2>1. CASE rc[l] = 1
    BY <1>6, <1>7, <2>1, ViewIs, ViewIsNext
  <2>2. CASE rc[l] # 1
    BY <1>4, <1>6, <1>7, <2>2, ViewIs, ViewIsNext
  <2> QED BY <2>1, <2>2
<1> QED BY <1>1, <1>3, <1>4, <1>8, <1>9

\* The cleanup function is called for no item, or for one.
LEMMA CleanIs ==
    ASSUME CountTypes, NEW d \in Items
    PROVE  /\ cleaned' = cleaned => Map!Clean({})
           /\ cleaned' = [cleaned EXCEPT ![d] = @ + 1] => Map!Clean({d})
<1>1. cleaned \in [Items -> Nat]
  BY DEF CountTypes
<1>2. cleaned' = cleaned => Map!Clean({})
  BY <1>1 DEF Map!Clean
<1>3. cleaned' = [cleaned EXCEPT ![d] = @ + 1] => Map!Clean({d})
  BY <1>1 DEF Map!Clean
<1> QED BY <1>2, <1>3

\* Every step is a step of the map or none.
LEMMA MapStep ==
    ASSUME TreeInv, CountInv, [RcNext]_<<vars, countVars>>
    PROVE  [Map!RcNext \/ Map!Finished]_(Map!rcVars)
<1> DEFINE R == RefCounts
           D == Contents
<1>0. CountTypes /\ counted \in BOOLEAN
  BY DEF CountInv, TreeInv
<1>1. MapView = View(R, D) /\ R = [k \in Keys |-> R[k]] /\ D = [k \in Keys |-> D[k]] /\ MapView' = View(R', D')
  BY ViewIs, ViewIsNext
<1>2. ASSUME UNCHANGED <<tree, counted, rc, data>> PROVE MapView' = MapView
  BY <1>2 DEF MapView, Present
<1>3. CASE UNCHANGED <<vars, countVars>>
  <2>1. UNCHANGED <<tree, counted, rc, data>> /\ UNCHANGED <<held, cleaned, given, open>>
    BY <1>3 DEF vars, countVars
  <2> QED BY <1>2, <2>1 DEF Map!rcVars
<1>4. CASE ~counted /\ RcNext
  <2>1. UNCHANGED countVars
    BY <1>4 DEF RcNext
  <2>2. counted' = counted /\ UNCHANGED <<held, cleaned, given, open>>
    BY <2>1 DEF countVars
  <2>3. MapView' = MapView
    BY <1>4, <2>2 DEF MapView, Present
  <2> QED BY <2>2, <2>3 DEF Map!rcVars
<1>5. ASSUME counted, NEW k \in Keys, NEW d \in Items, put_found(k, d) PROVE Map!cx_rc_map_set(k, d)
  <2>1. PICK l : l = get(tree, k)
    OBVIOUS
  <2>2. /\ open /\ d \notin given /\ HeldIn(k) < MaxRefs
        /\ l # NULL /\ rc' = [rc EXCEPT ![l] = @ + 1] /\ held' = [held EXCEPT ![<<k, data[l]>>] = @ + 1]
        /\ UNCHANGED <<tree, counted, data>> /\ cleaned' = [cleaned EXCEPT ![d] = @ + 1]
        /\ given' = given \cup {d} /\ open' = open
    BY <1>5, <2>1 DEF put_found, vars
  <2>3. R[k] # 0 /\ D[k] = data[l] /\ R' = [R EXCEPT ![k] = R[k] + 1] /\ D' = D
    BY ONLY TreeInv, CountInv, k \in Keys, <1>5, <2>1, <2>2, RetainView
  <2>4. /\ Map!set(View(R, D), k, d) = View([R EXCEPT ![k] = R[k] + 1], D)
        /\ Map!SetCleans(View(R, D), k, d) = {d}
    <3>1. R[k] # 0
      BY <2>3
    <3> QED BY ONLY k \in Keys, <1>1, <3>1, UsedSlot
  <2>5. MapView' = Map!set(MapView, k, d) /\ Map!SetCleans(MapView, k, d) = {d}
    BY ONLY <1>1, <2>3, <2>4
  <2>6. Map!Clean(Map!SetCleans(MapView, k, d))
    BY ONLY d \in Items, <1>0, <2>2, <2>5, CleanIs
  <2>7. MapView'.data[k] = data[l]
    BY ONLY <1>1, <2>3 DEF View
  <2>8. held' = [held EXCEPT ![<<k, MapView'.data[k]>>] = @ + 1]
    BY ONLY <2>2, <2>7
  <2> QED BY ONLY <2>2, <2>5, <2>6, <2>8 DEF Map!cx_rc_map_set, HeldIn
<1>6. ASSUME counted, NEW k \in Keys, NEW d \in Items, NEW l \in Leaves, cx_rc_radix_tree_put(k, d, l)
      PROVE  Map!cx_rc_map_set(k, d)
  <2>1. /\ open /\ d \notin given /\ HeldIn(k) < MaxRefs
        /\ held' = [held EXCEPT ![<<k, d>>] = @ + 1] /\ cleaned' = cleaned
        /\ given' = given \cup {d} /\ open' = open
    BY <1>6 DEF cx_rc_radix_tree_put
  <2>2. R[k] = 0 /\ R' = [R EXCEPT ![k] = R[k] + 1] /\ D' = [D EXCEPT ![k] = d]
    BY ONLY TreeInv, CountInv, <1>6, PutView
  <2>3. /\ Map!set(View(R, D), k, d) = View([R EXCEPT ![k] = R[k] + 1], [D EXCEPT ![k] = d])
        /\ Map!SetCleans(View(R, D), k, d) = {}
    BY ONLY k \in Keys, <1>1, <2>2, ViewOps
  <2>4. MapView' = Map!set(MapView, k, d) /\ Map!SetCleans(MapView, k, d) = {}
    BY ONLY <1>1, <2>2, <2>3
  <2>5. Map!Clean(Map!SetCleans(MapView, k, d))
    BY ONLY d \in Items, <1>0, <2>1, <2>4, CleanIs
  <2>6. MapView'.data[k] = d
    <3>1. D'[k] = d
      BY ONLY k \in Keys, <1>1, <2>2
    <3> QED BY ONLY <1>1, <3>1 DEF View
  <2>7. held' = [held EXCEPT ![<<k, MapView'.data[k]>>] = @ + 1]
    BY ONLY <2>1, <2>6
  <2> QED BY ONLY <2>1, <2>4, <2>5, <2>7 DEF Map!cx_rc_map_set, HeldIn
<1>7. ASSUME counted, NEW k \in Keys, cx_rc_radix_tree_retain(k) PROVE Map!cx_rc_map_retain(k)
  <2>1. PICK l : l = get(tree, k)
    OBVIOUS
  <2>2. /\ open /\ HeldIn(k) < MaxRefs
        /\ l # NULL /\ rc' = [rc EXCEPT ![l] = @ + 1] /\ held' = [held EXCEPT ![<<k, data[l]>>] = @ + 1]
        /\ UNCHANGED <<tree, counted, data>> /\ UNCHANGED <<cleaned, given, open>>
    BY <1>7, <2>1 DEF cx_rc_radix_tree_retain, vars
  <2>3. R[k] # 0 /\ D[k] = data[l] /\ R' = [R EXCEPT ![k] = R[k] + 1] /\ D' = D
    BY ONLY TreeInv, CountInv, k \in Keys, <1>7, <2>1, <2>2, RetainView
  <2>4. /\ Map!retain(View(R, D), k) = View([R EXCEPT ![k] = R[k] + 1], D)
        /\ ~Map!is_empty(View(R, D), k)
    <3>1. R[k] # 0
      BY <2>3
    <3> QED BY ONLY k \in Keys, <1>1, <3>1, UsedSlot
  <2>5. MapView' = Map!retain(MapView, k) /\ ~Map!is_empty(MapView, k)
    BY ONLY <1>1, <2>3, <2>4
  <2>6. MapView.data[k] = data[l]
    BY ONLY <1>1, <2>3 DEF View
  <2> QED BY ONLY <2>2, <2>5, <2>6 DEF Map!cx_rc_map_retain, HeldIn
<1>8. ASSUME counted, NEW k \in Keys, NEW d \in Items, cx_rc_radix_tree_retain_value(k, d)
      PROVE  Map!cx_rc_map_retain_value(k, d)
  <2>1. PICK l : l = get(tree, k)
    OBVIOUS
  <2>2. /\ open /\ held[<<k, d>>] > 0 /\ HeldIn(k) < MaxRefs
        /\ rc' = [rc EXCEPT ![addr[d]] = @ + 1] /\ held' = [held EXCEPT ![<<k, d>>] = @ + 1]
        /\ UNCHANGED <<tree, counted, data>> /\ UNCHANGED <<cleaned, given, open>>
    BY <1>8 DEF cx_rc_radix_tree_retain_value, vars
  <2>3. l # NULL /\ data[l] = d
    BY ONLY CountInv, <1>8, <2>1, <2>2, HeldIsFound
  <2>4. addr[data[l]] = l
    BY ONLY TreeInv, CountInv, <1>8, <2>1, <2>3, Found
  <2>5. rc' = [rc EXCEPT ![l] = @ + 1]
    BY ONLY <2>2, <2>3, <2>4
  <2>6. R[k] # 0 /\ R' = [R EXCEPT ![k] = R[k] + 1] /\ D' = D
    BY ONLY TreeInv, CountInv, <1>8, <2>1, <2>2, <2>3, <2>5, RetainView
  <2>7. Map!retain(View(R, D), k) = View([R EXCEPT ![k] = R[k] + 1], D)
    BY ONLY k \in Keys, <1>1, <2>6, UsedSlot
  <2>8. MapView' = Map!retain(MapView, k)
    BY ONLY <1>1, <2>6, <2>7
  <2> QED BY ONLY <2>2, <2>8 DEF Map!cx_rc_map_retain_value, HeldIn
<1>9. ASSUME counted, NEW k \in Keys, NEW d \in Items, cx_rc_radix_tree_release(k, d)
      PROVE  Map!cx_rc_map_release_index(k, d)
  <2>1. PICK l : l = get(tree, k)
    OBVIOUS
  <2>2. /\ open /\ held[<<k, d>>] > 0 /\ held' = [held EXCEPT ![<<k, d>>] = @ - 1]
        /\ UNCHANGED <<given, open>>
        /\ cleaned' = IF rc[l] = 1 THEN [cleaned EXCEPT ![data[l]] = @ + 1] ELSE cleaned
    BY <1>9, <2>1 DEF cx_rc_radix_tree_release, LastReference
  <2>3. /\ R[k] = rc[l] /\ rc[l] \in Nat /\ D[k] = d /\ data[l] = d
        /\ R' = [R EXCEPT ![k] = R[k] - 1]
        /\ D' = IF rc[l] = 1 THEN [D EXCEPT ![k] = NULL] ELSE D
    BY ONLY TreeInv, CountInv, <1>9, <2>1, ReleaseView
  <2>4. CASE rc[l] = 1
    <3>1. R[k] - 1 = 0
      BY <2>3, <2>4
    <3>2. /\ Map!release_index(View(R, D), k) = View([R EXCEPT ![k] = R[k] - 1], [D EXCEPT ![k] = NULL])
          /\ Map!ReleaseCleans(View(R, D), k) = {D[k]}
      BY ONLY k \in Keys, <1>1, <3>1, ViewOps
    <3>3. MapView' = Map!release_index(MapView, k) /\ Map!ReleaseCleans(MapView, k) = {d}
      BY ONLY <1>1, <2>3, <2>4, <3>2
    <3>4. Map!Clean({d})
      BY ONLY d \in Items, <1>0, <2>2, <2>3, <2>4, CleanIs
    <3>5. Map!Clean(Map!ReleaseCleans(MapView, k))
      BY ONLY <3>3, <3>4
    <3> QED BY ONLY <2>2, <3>3, <3>5 DEF Map!cx_rc_map_release_index
  <2>5. CASE rc[l] # 1
    <3>1. R[k] - 1 # 0
      BY <2>3, <2>5
    <3>2. /\ Map!release_index(View(R, D), k) = View([R EXCEPT ![k] = R[k] - 1], D)
          /\ Map!ReleaseCleans(View(R, D), k) = {}
      BY ONLY k \in Keys, <1>1, <3>1, ViewOps
    <3>3. MapView' = Map!release_index(MapView, k) /\ Map!ReleaseCleans(MapView, k) = {}
      BY ONLY <1>1, <2>3, <2>5, <3>2
    <3>4. Map!Clean({})
      BY ONLY d \in Items, <1>0, <2>2, <2>5, CleanIs
    <3>5. Map!Clean(Map!ReleaseCleans(MapView, k))
      BY ONLY <3>3, <3>4
    <3> QED BY ONLY <2>2, <3>3, <3>5 DEF Map!cx_rc_map_release_index
  <2> QED BY <2>4, <2>5
<1>10. cx_rc_radix_tree_cleanup => Map!cx_rc_map_cleanup
  <2> SUFFICES ASSUME cx_rc_radix_tree_cleanup PROVE Map!cx_rc_map_cleanup
    OBVIOUS
  <2>1. /\ open /\ open' = FALSE /\ \A r \in Keys \X Items : held[r] = 0
        /\ UNCHANGED <<held, cleaned, given>> /\ UNCHANGED <<tree, counted, rc, data>>
    BY DEF cx_rc_radix_tree_cleanup, vars
  <2>2. MapView' = MapView
    BY <1>2, <2>1
  <2> QED BY <2>1, <2>2 DEF Map!cx_rc_map_cleanup
<1>11. Closed => UNCHANGED <<vars, countVars>>
  BY DEF Closed
<1>12. CASE counted /\ RcNext
  BY ONLY <1>3, <1>5, <1>6, <1>7, <1>8, <1>9, <1>10, <1>11, <1>12 DEF RcNext, Map!RcNext
<1> QED BY <1>0, <1>3, <1>4, <1>12

\* The reference-counted radix tree implements the reference-counted map: a
\* put is a set of the key's slot, a release a release of it, and what the
\* tree does to its branches and leaves changes nothing the clients see.
THEOREM ImplementsRcMapHolds == RcSpec => ImplementsRcMap
<1>1. RcInit => Map!Init
  <2> SUFFICES ASSUME RcInit PROVE Map!Init
    OBVIOUS
  <2>1. \A k \in Keys : get(tree, k) = NULL
    BY InitTree, KeyIs DEF RcInit, Init
  <2>2. MapView = Map!cx_rc_map_init(Keys)
    BY <2>1 DEF MapView, Present, Map!cx_rc_map_init
  <2> QED BY <2>2 DEF RcInit, Map!Init
<1>2. TreeInv /\ CountInv /\ [RcNext]_<<vars, countVars>> => [Map!RcNext \/ Map!Finished]_(Map!rcVars)
  BY MapStep
<1>3. RcSpec => Map!Spec
  BY <1>1, <1>2, CountInvHolds, PTL DEF RcSpec, Map!Spec
<1> QED BY <1>3 DEF ImplementsRcMap
=============================================================================
