---------------------------- MODULE UnicodeProofs ----------------------------
(***************************************************************************)
(* Proofs about Unicode: the functions on one character, for every code    *)
(* point and not only for those of the run; the generated tables, for all  *)
(* files and radixes; and the loops over strings, for all texts and all    *)
(* bytes.  The code points of Unicode are the numbers below 0x110000,      *)
(* which is 272 * 4096.                                                    *)
(***************************************************************************)
EXTENDS Unicode, TLAPS, FiniteSetTheorems, SequenceTheorems, WellFoundedInduction

\* The length of an encoded code point is the one its leading byte announces.
LEMMA EncodedLength ==
    ASSUME NEW cp \in Nat, cp < 272 * 4096
    PROVE  /\ Len(Encoded(cp)) = utf8_len_map(Encoded(cp)[1])
           /\ Len(Encoded(cp)) \in 1 .. 4
<1> DEFINE s == Encoded(cp)
<1>1. CASE cp < 128
  BY <1>1 DEF Encoded, utf8_len_map
<1>2. CASE cp >= 128 /\ cp < 2048
  <2>1. Len(s) = 2 /\ s[1] = 192 + (cp \div 64)
    BY <1>2 DEF Encoded
  <2>2. cp \div 64 \in 0 .. 31
    BY <1>2
  <2>3. utf8_len_map(192 + (cp \div 64)) = 2
    BY <2>2 DEF utf8_len_map
  <2> QED BY <2>1, <2>3
<1>3. CASE cp >= 2048 /\ cp < 16 * 4096
  <2>1. Len(s) = 3 /\ s[1] = 224 + (cp \div 4096)
    BY <1>3 DEF Encoded
  <2>2. cp \div 4096 \in 0 .. 15
    BY <1>3
  <2>3. utf8_len_map(224 + (cp \div 4096)) = 3
    BY <2>2 DEF utf8_len_map
  <2> QED BY <2>1, <2>3
<1>4. CASE cp >= 16 * 4096
  <2>1. Len(s) = 4 /\ s[1] = 240 + (cp \div (64 * 4096))
    BY <1>4 DEF Encoded
  <2>2. cp \div (64 * 4096) \in 0 .. 4
    BY <1>4
  <2>3. utf8_len_map(240 + (cp \div (64 * 4096))) = 4
    BY <2>2 DEF utf8_len_map
  <2> QED BY <2>1, <2>3
<1> QED BY <1>1, <1>2, <1>3, <1>4

\* cx_utf8_csize of the bytes of a code point, followed by any others that the
\* length covers, is the number of its bytes.
THEOREM SizeOfEncoded ==
    ASSUME NEW cp \in Nat, cp < 272 * 4096, NEW length \in Nat, length >= Len(Encoded(cp))
    PROVE  cx_utf8_csize(Encoded(cp), length) = Len(Encoded(cp))
  BY EncodedLength DEF cx_utf8_csize

\* A code point whose last byte is missing is never taken for a shorter one.
THEOREM CutIsSeen ==
    ASSUME NEW cp \in Nat, cp < 272 * 4096, NEW length \in Nat, length < Len(Encoded(cp))
    PROVE  cx_utf8_csize(Encoded(cp), length) = 0 /\ cx_utf8_cp(Encoded(cp), length) = -1
<1>1. cx_utf8_csize(Encoded(cp), length) = 0
  BY EncodedLength DEF cx_utf8_csize
<1> QED BY <1>1 DEF cx_utf8_cp

\* cx_utf8_cp gives back every code point of Unicode from the bytes the standard
\* gives it: its masks and shifts drop no bit and mix no two bytes.
THEOREM DecodesEncoded ==
    ASSUME NEW cp \in Nat, cp < 272 * 4096
    PROVE  cx_utf8_cp(Encoded(cp), Len(Encoded(cp))) = cp
<1> DEFINE s == Encoded(cp)
<1>1. cx_utf8_csize(s, Len(s)) = Len(s)
  BY SizeOfEncoded, EncodedLength
<1>2. CASE cp < 128
  <2>1. s = <<cp>> /\ Len(s) = 1
    BY <1>2 DEF Encoded
  <2> QED BY <1>1, <2>1 DEF cx_utf8_cp
<1>3. CASE cp >= 128 /\ cp < 2048
  <2>1. s = <<192 + (cp \div 64), 128 + (cp % 64)>> /\ Len(s) = 2
    BY <1>3 DEF Encoded
  <2>2. (192 + (cp \div 64)) % 32 = cp \div 64 /\ Payload(128 + (cp % 64)) = cp % 64
    BY <1>3 DEF Payload
  <2>3. cx_utf8_cp(s, Len(s)) = (s[1] % 32) * 64 + Payload(s[2])
    BY <1>1, <2>1 DEF cx_utf8_cp
  <2> QED BY <2>1, <2>2, <2>3
<1>4. CASE cp >= 2048 /\ cp < 16 * 4096
  <2>1. /\ s = <<224 + (cp \div 4096), 128 + ((cp \div 64) % 64), 128 + (cp % 64)>>
        /\ Len(s) = 3
    BY <1>4 DEF Encoded
  <2>2. /\ (224 + (cp \div 4096)) % 16 = cp \div 4096
        /\ Payload(128 + ((cp \div 64) % 64)) = (cp \div 64) % 64
        /\ Payload(128 + (cp % 64)) = cp % 64
    BY <1>4 DEF Payload
  <2>3. cx_utf8_cp(s, Len(s)) = (s[1] % 16) * 4096 + Payload(s[2]) * 64 + Payload(s[3])
    BY <1>1, <2>1 DEF cx_utf8_cp
  <2> QED BY <2>1, <2>2, <2>3
<1>5. CASE cp >= 16 * 4096
  <2>1. /\ s = <<240 + (cp \div (64 * 4096)), 128 + ((cp \div 4096) % 64),
                 128 + ((cp \div 64) % 64), 128 + (cp % 64)>>
        /\ Len(s) = 4
    BY <1>5 DEF Encoded
  <2>2. /\ (240 + (cp \div (64 * 4096))) % 8 = cp \div (64 * 4096)
        /\ Payload(128 + ((cp \div 4096) % 64)) = (cp \div 4096) % 64
        /\ Payload(128 + ((cp \div 64) % 64)) = (cp \div 64) % 64
        /\ Payload(128 + (cp % 64)) = cp % 64
    BY <1>5 DEF Payload
  <2>3. cx_utf8_cp(s, Len(s)) = (s[1] % 8) * (64 * 4096) + Payload(s[2]) * 4096
                                + Payload(s[3]) * 64 + Payload(s[4])
    BY <1>1, <2>1 DEF cx_utf8_cp
  <2> QED BY <2>1, <2>2, <2>3
<1> QED BY <1>2, <1>3, <1>4, <1>5

\* A code point is encoded in bytes.
LEMMA EncodedBytes ==
    ASSUME NEW cp \in Nat, cp < 272 * 4096
    PROVE  Encoded(cp) \in Seq(Byte)
<1>1. CASE cp < 128
  BY <1>1 DEF Encoded, Byte
<1>2. CASE cp >= 128 /\ cp < 2048
  <2>1. 192 + (cp \div 64) \in Byte /\ 128 + (cp % 64) \in Byte
    BY <1>2 DEF Byte
  <2>2. Encoded(cp) = <<192 + (cp \div 64), 128 + (cp % 64)>>
    BY <1>2 DEF Encoded
  <2> QED BY <2>1, <2>2
<1>3. CASE cp >= 2048 /\ cp < 16 * 4096
  <2>1. /\ 224 + (cp \div 4096) \in Byte
        /\ 128 + ((cp \div 64) % 64) \in Byte
        /\ 128 + (cp % 64) \in Byte
    BY <1>3 DEF Byte
  <2>2. Encoded(cp) = <<224 + (cp \div 4096), 128 + ((cp \div 64) % 64), 128 + (cp % 64)>>
    BY <1>3 DEF Encoded
  <2> QED BY <2>1, <2>2
<1>4. CASE cp >= 16 * 4096
  <2>1. /\ 240 + (cp \div (64 * 4096)) \in Byte
        /\ 128 + ((cp \div 4096) % 64) \in Byte
        /\ 128 + ((cp \div 64) % 64) \in Byte
        /\ 128 + (cp % 64) \in Byte
    BY <1>4 DEF Byte
  <2>2. Encoded(cp) = <<240 + (cp \div (64 * 4096)), 128 + ((cp \div 4096) % 64),
                        128 + ((cp \div 64) % 64), 128 + (cp % 64)>>
    BY <1>4 DEF Encoded
  <2> QED BY <2>1, <2>2
<1> QED BY <1>1, <1>2, <1>3, <1>4

\* The first byte of a character gives its UTF-16 units, and is a tab's if the
\* character is one.
LEMMA EncodedFirst ==
    ASSUME NEW cp \in Nat, cp < 272 * 4096
    PROVE  /\ utf16_len_map(Encoded(cp)[1]) = IF cp < 2048 THEN 1 ELSE 2
           /\ Encoded(cp)[1] = 9 => cp = 9
<1>1. CASE cp < 128
  BY <1>1 DEF Encoded, utf16_len_map
<1>2. CASE cp >= 128 /\ cp < 2048
  <2>1. Encoded(cp)[1] = 192 + (cp \div 64)
    BY <1>2 DEF Encoded
  <2>2. PICK q \in 0 .. 31 : q = cp \div 64
    BY <1>2
  <2>3. utf16_len_map(192 + q) = 1
    BY DEF utf16_len_map
  <2> QED BY <1>2, <2>1, <2>2, <2>3
<1>3. CASE cp >= 2048 /\ cp < 16 * 4096
  <2>1. Encoded(cp)[1] = 224 + (cp \div 4096)
    BY <1>3 DEF Encoded
  <2>2. PICK q \in 0 .. 15 : q = cp \div 4096
    BY <1>3
  <2>3. utf16_len_map(224 + q) = 2
    BY DEF utf16_len_map
  <2> QED BY <1>3, <2>1, <2>2, <2>3
<1>4. CASE cp >= 16 * 4096
  <2>1. Encoded(cp)[1] = 240 + (cp \div (64 * 4096))
    BY <1>4 DEF Encoded
  <2>2. PICK q \in 0 .. 4 : q = cp \div (64 * 4096)
    BY <1>4
  <2>3. utf16_len_map(240 + q) = 2
    BY DEF utf16_len_map
  <2> QED BY <1>4, <2>1, <2>2, <2>3
<1> QED BY <1>1, <1>2, <1>3, <1>4

\* cx_utf8_cp looks at the bytes of the first character and at no others.
LEMMA DecodesPrefix ==
    ASSUME NEW cp \in Nat, cp < 272 * 4096, NEW s,
           \A j \in 1 .. Len(Encoded(cp)) : s[j] = Encoded(cp)[j]
    PROVE  cx_utf8_cp(s, Len(Encoded(cp))) = cp
<1>1. PICK e : e = Encoded(cp)
  OBVIOUS
<1>2. PICK c \in 1 .. 4 : c = Len(e)
  BY <1>1, EncodedLength
<1>3. \A j \in 1 .. c : s[j] = e[j]
  BY <1>1, <1>2
<1>4. utf8_len_map(e[1]) = c
  BY <1>1, <1>2, EncodedLength
<1>5. s[1] = e[1] /\ (c >= 2 => s[2] = e[2]) /\ (c >= 3 => s[3] = e[3]) /\ (c >= 4 => s[4] = e[4])
  BY ONLY c \in 1 .. 4, <1>3
<1>6. cx_utf8_csize(s, c) = c /\ cx_utf8_csize(e, c) = c
  BY <1>4, <1>5 DEF cx_utf8_csize
<1>7. cx_utf8_cp(s, c) = cx_utf8_cp(e, c)
  <2>1. CASE c = 1
    BY ONLY <1>5, <1>6, <2>1 DEF cx_utf8_cp
  <2>2. CASE c = 2
    BY ONLY <1>5, <1>6, <2>2 DEF cx_utf8_cp
  <2>3. CASE c = 3
    BY ONLY <1>5, <1>6, <2>3 DEF cx_utf8_cp
  <2>4. CASE c = 4
    BY ONLY <1>5, <1>6, <2>4 DEF cx_utf8_cp
  <2> QED BY <2>1, <2>2, <2>3, <2>4
<1>8. cx_utf8_cp(e, c) = cp
  BY <1>1, <1>2, DecodesEncoded
<1> QED BY <1>1, <1>2, <1>7, <1>8

-----------------------------------------------------------------------------
\* Induction and arithmetic.

\* A nonempty family of subsets of a finite set has a minimal member.
LEMMA MinimalSubset ==
    ASSUME NEW S, IsFiniteSet(S), NEW F \in SUBSET (SUBSET S), F # {}
    PROVE  \E T \in F : \A U \in F : ~(U \subseteq T /\ U # T)
<1>1. IsWellFoundedOn(StrictSubsetOrdering(S), FiniteSubsetsOf(S))
  BY FS_StrictSubsetOrderingWellFounded
<1>2. F \subseteq FiniteSubsetsOf(S)
  BY FS_Subset DEF FiniteSubsetsOf
<1>3. \E T \in F : \A U \in F : ~(<<U, T>> \in StrictSubsetOrdering(S))
  BY <1>1, <1>2, WFMin
<1>4. \A U, T \in F : U \subseteq T /\ U # T => <<U, T>> \in StrictSubsetOrdering(S)
  BY DEF StrictSubsetOrdering
<1> QED BY <1>3, <1>4

\* Induction up to m, over the members of a set.
LEMMA UpTo ==
    ASSUME NEW m \in Nat, NEW S, 0 \in S, \A n \in 0 .. m - 1 : n \in S => n + 1 \in S
    PROVE  0 .. m \subseteq S
<1> SUFFICES ASSUME NEW b \in 0 .. m, b \notin S PROVE FALSE
  OBVIOUS
<1> DEFINE I == 0 .. m
           F == {0 .. n : n \in {l \in I : l \notin S}}
<1>1. IsFiniteSet(I)
  BY FS_Interval
<1>2. F \in SUBSET (SUBSET I) /\ F # {}
  OBVIOUS
<1>3. PICK T \in F : \A U \in F : ~(U \subseteq T /\ U # T)
  <2> HIDE DEF F, I
  <2> QED BY <1>1, <1>2, MinimalSubset
<1>4. PICK n \in I : n \notin S /\ T = 0 .. n
  BY <1>3
<1>5. n # 0 /\ n - 1 \in 0 .. m - 1 /\ n = (n - 1) + 1
  BY <1>4
<1>6. n - 1 \notin S
  BY <1>4, <1>5
<1>7. 0 .. (n - 1) \in F
  BY <1>5, <1>6
<1>8. 0 .. (n - 1) \subseteq T /\ n \in T /\ n \notin 0 .. (n - 1)
  BY <1>4, <1>5
<1> QED BY <1>3, <1>7, <1>8

\* A quotient and a remainder are what they should be.
LEMMA DivMod ==
    ASSUME NEW k \in Nat, NEW m \in Nat, m > 0
    PROVE  /\ k \div m \in Nat /\ k % m \in 0 .. m - 1
           /\ k = (m * (k \div m)) + (k % m)
  OBVIOUS

\* There is one quotient and one remainder.
LEMMA DivModUnique ==
    ASSUME NEW k \in Nat, NEW m \in Nat, m > 0, NEW q \in Nat, NEW r \in 0 .. m - 1, k = m * q + r
    PROVE  k \div m = q /\ k % m = r
  OBVIOUS

\* A bounded set of numbers that is not empty has a largest member.
LEMMA MaxIs ==
    ASSUME NEW S, S \in SUBSET Nat, S # {}, NEW m \in Nat, \A y \in S : y <= m
    PROVE  Max(S) \in S /\ \A y \in S : y <= Max(S)
<1> DEFINE F == {{y \in S : y >= x} : x \in S}
<1>1. IsFiniteSet(S)
  BY FS_BoundedSetOfNaturals
<1>2. F \in SUBSET (SUBSET S) /\ F # {}
  OBVIOUS
<1>3. PICK T \in F : \A U \in F : ~(U \subseteq T /\ U # T)
  <2> HIDE DEF F
  <2> QED BY ONLY <1>1, <1>2, MinimalSubset
<1>4. PICK x \in S : T = {y \in S : y >= x}
  BY <1>3
<1>5. ASSUME NEW z \in S, z > x PROVE FALSE
  <2>1. {y \in S : y >= z} \in F
    OBVIOUS
  <2>2. {y \in S : y >= z} \subseteq T /\ x \in T /\ x \notin {y \in S : y >= z}
    <3>1. x \in Nat /\ z \in Nat /\ \A y \in S : y \in Nat
      OBVIOUS
    <3>2. \A y \in S : y >= z => y >= x
      BY <1>5, <3>1
    <3>3. x >= x /\ ~(x >= z)
      BY <1>5, <3>1
    <3> QED BY <1>4, <3>2, <3>3
  <2> QED BY <1>3, <2>1, <2>2
<1>6. \E a \in S : \A y \in S : a >= y
  BY <1>5
<1>7. Max(S) \in S /\ \A y \in S : Max(S) >= y
  BY <1>6 DEF Max
<1> QED BY <1>7

\* Every nonempty set of natural numbers has a least element, which is Min: the
\* end of the smallest interval 0 .. m that ends in the set.
LEMMA LeastIn ==
    ASSUME NEW S \in SUBSET Nat, S # {}
    PROVE  Min(S) \in S /\ \A y \in S : Min(S) <= y
<1>1. PICK n \in S : TRUE
  OBVIOUS
<1> DEFINE F == {0 .. m : m \in {l \in S : l <= n}}
<1>2. PICK T \in F : \A U \in F : ~(U \subseteq T /\ U # T)
  <2> DEFINE I == 0 .. n
  <2>1. IsFiniteSet(I)
    BY FS_Interval
  <2>2. F \in SUBSET (SUBSET I) /\ F # {}
    OBVIOUS
  <2> HIDE DEF F, I
  <2> QED BY <2>1, <2>2, MinimalSubset
<1>3. PICK m \in S : m <= n /\ T = 0 .. m
  BY <1>2
<1>4. ASSUME NEW y \in S PROVE m <= y
  <2>1. SUFFICES ASSUME y < m PROVE FALSE
    OBVIOUS
  <2>2. 0 .. y \in F
    BY <1>3, <2>1
  <2>3. 0 .. y \subseteq T /\ m \in T /\ m \notin 0 .. y
    BY <1>3, <2>1
  <2> QED BY <1>2, <2>2, <2>3
<1> QED BY <1>4 DEF Min

\* Induction from m downwards: all numbers from m on are in a set, and a smaller
\* one is if all that are larger are.
LEMMA Backwards ==
    ASSUME NEW m \in Nat, NEW S, \A i \in Nat : i >= m => i \in S,
           \A i \in 0 .. m - 1 : (\A j \in Nat : j > i => j \in S) => i \in S
    PROVE  \A i \in Nat : i \in S
<1> DEFINE T == {k \in 0 .. m : \A i \in Nat : i >= m - k => i \in S}
<1>1. 0 \in T
  OBVIOUS
<1>2. ASSUME NEW k \in 0 .. m - 1, k \in T PROVE k + 1 \in T
  <2>1. \A i \in Nat : i >= m - k => i \in S
    BY <1>2
  <2>2. PICK h \in 0 .. m - 1 : h = m - (k + 1)
    OBVIOUS
  <2>3. \A j \in Nat : j > h => j \in S
    BY <2>1, <2>2
  <2>4. h \in S
    BY <2>3
  <2>5. \A i \in Nat : i >= m - (k + 1) => i = h \/ i > h
    BY <2>2
  <2> QED BY <2>3, <2>4, <2>5
<1>3. m \in T
  <2> HIDE DEF T
  <2>1. 0 .. m \subseteq T
    BY <1>1, <1>2, UpTo
  <2> QED BY <2>1
<1> QED BY <1>3

\* A definition by recursion: the value at d is given if d is in stop, and made
\* of the value at next[d], which has a smaller rank, if not.
Descends(D, V, m, rank, stop, next, base, G) ==
    /\ m \in Nat
    /\ \A d \in D : rank[d] \in 0 .. m /\ base[d] \in V
    /\ \A d \in D \ stop : next[d] \in D /\ rank[next[d]] < rank[d]
    /\ \A d \in D \ stop : \A v \in V : G[d][v] \in V

\* The function it defines.
Recurs(f, D, V, stop, next, base, G) ==
    /\ f \in [D -> V]
    /\ \A d \in D : f[d] = IF d \in stop THEN base[d] ELSE G[d][f[next[d]]]

\* Such a definition defines a function.
LEMMA Recursion ==
    ASSUME NEW D, NEW V, NEW L, NEW rank, NEW stop, NEW next, NEW base, NEW G,
           Descends(D, V, L, rank, stop, next, base, G)
    PROVE  \E f : Recurs(f, D, V, stop, next, base, G)
<1> USE DEF Descends
<1> DEFINE Good(f, m) == \A d \in D : rank[d] <= m =>
                            f[d] = IF d \in stop THEN base[d] ELSE G[d][f[next[d]]]
           S == {m \in 0 .. L : \E f \in [D -> V] : Good(f, m)}
<1>1. 0 \in S
  <2> DEFINE f == [d \in D |-> base[d]]
  <2>1. f \in [D -> V]
    OBVIOUS
  <2>2. Good(f, 0)
    OBVIOUS
  <2> HIDE DEF Good, f
  <2> QED BY <2>1, <2>2
<1>2. ASSUME NEW m \in 0 .. L - 1, m \in S PROVE m + 1 \in S
  <2>1. PICK f \in [D -> V] : Good(f, m)
    BY <1>2
  <2> DEFINE g == [d \in D |-> IF rank[d] <= m THEN f[d] ELSE
                              IF d \in stop THEN base[d] ELSE G[d][f[next[d]]]]
  <2>2. g \in [D -> V]
    OBVIOUS
  <2>3. Good(g, m + 1)
    <3> SUFFICES ASSUME NEW d \in D, rank[d] <= m + 1
                 PROVE  g[d] = IF d \in stop THEN base[d] ELSE G[d][g[next[d]]]
      OBVIOUS
    <3>1. CASE d \in stop
      BY <2>1, <3>1
    <3>2. CASE d \notin stop
      <4>1. next[d] \in D /\ rank[next[d]] < rank[d] /\ rank[d] \in 0 .. L /\ rank[next[d]] \in 0 .. L
        BY <3>2
      <4>2. rank[next[d]] <= m
        BY <4>1
      <4>3. g[next[d]] = f[next[d]]
        BY <4>1, <4>2
      <4>4. g[d] = G[d][f[next[d]]]
        BY <2>1, <3>2
      <4> HIDE DEF g
      <4> QED BY <3>2, <4>3, <4>4
    <3> QED BY <3>1, <3>2
  <2> HIDE DEF g, Good
  <2> QED BY <2>2, <2>3
<1>3. L \in S
  <2> HIDE DEF S
  <2>1. 0 .. L \subseteq S
    BY <1>1, <1>2, UpTo
  <2> QED BY <2>1
<1>4. PICK f \in [D -> V] : Good(f, L)
  BY <1>3
<1>5. \A d \in D : rank[d] <= L
  OBVIOUS
<1>6. \A d \in D : f[d] = IF d \in stop THEN base[d] ELSE G[d][f[next[d]]]
  BY <1>4, <1>5
<1> QED BY <1>6 DEF Recurs

\* A loop: f[k] is the value after k turns.
Iterates(f, m, v0, F) == f[0] = v0 /\ \A k \in 1 .. m : f[k] = F[k][f[k - 1]]

\* A loop of any number of turns has values.
LEMMA IterateExists ==
    ASSUME NEW V, NEW m \in Nat, NEW v0 \in V, NEW F, \A k \in 1 .. m : \A v \in V : F[k][v] \in V
    PROVE  \E f \in [0 .. m -> V] : Iterates(f, m, v0, F)
<1> DEFINE D == 0 .. m
           rank == [k \in D |-> k]
           stop == {0}
           next == [k \in D |-> k - 1]
           base == [k \in D |-> v0]
<1>1. Descends(D, V, m, rank, stop, next, base, F)
  BY DEF Descends
<1>2. \E f : Recurs(f, D, V, stop, next, base, F)
  <2> HIDE DEF D, rank, stop, next, base
  <2> QED BY ONLY <1>1, Recursion
<1>3. PICK f : Recurs(f, D, V, stop, next, base, F)
  BY <1>2
<1>4. f \in [0 .. m -> V]
  BY <1>3 DEF Recurs
<1>5. f[0] = v0
  BY <1>3 DEF Recurs
<1>6. ASSUME NEW k \in 1 .. m PROVE f[k] = F[k][f[k - 1]]
  <2>1. k \in D /\ k \notin stop /\ next[k] = k - 1
    OBVIOUS
  <2> HIDE DEF D, stop, next, base
  <2> QED BY <1>3, <2>1 DEF Recurs
<1> QED BY <1>4, <1>5, <1>6 DEF Iterates

-----------------------------------------------------------------------------
\* The generated tables.

\* A line gives no range or one of two code points.
LEMMA RangeIs ==
    ASSUME NEW line \in Lines
    PROVE  \/ parse_range(line) = <<>>
           \/ \E a, b \in Nat : parse_range(line) = <<a, b>>
<1>1. line.first \in Nat \cup {None} /\ line.last \in Nat \cup {None}
  BY TableAssumption DEF TableAssumption
<1>2. CASE line.first = None \/ line.class \notin Accepted
  BY <1>2 DEF parse_range
<1>3. CASE ~(line.first = None \/ line.class \notin Accepted)
  <2>1. parse_range(line) = <<line.first, IF line.last = None THEN line.first ELSE line.last>>
    BY <1>3 DEF parse_range
  <2>2. line.first \in Nat /\ (IF line.last = None THEN line.first ELSE line.last) \in Nat
    BY <1>1, <1>3
  <2> QED BY <2>1, <2>2
<1> QED BY <1>2, <1>3

\* The code points of a file are below the one that find_max returns.
LEMMA FileMax ==
    ASSUME NEW f \in Seq(Lines)
    PROVE  find_max(f) \in Nat /\ \A cp \in generate_flat_table(f) : cp \in Nat /\ cp < find_max(f)
<1> DEFINE R(i) == Range(parse_range(f[i]))
           S == {n \in 0 .. Len(f) : \E m \in Nat : \A i \in 1 .. n : \A x \in R(i) : x <= m}
           A == {0} \cup UNION {R(i) : i \in DOMAIN f}
<1>0. Len(f) \in Nat /\ DOMAIN f = 1 .. Len(f) /\ \A i \in 1 .. Len(f) : f[i] \in Lines
  OBVIOUS
<1>1. ASSUME NEW i \in 1 .. Len(f)
      PROVE  R(i) \in SUBSET Nat /\ \E m \in Nat : \A x \in R(i) : x <= m
  <2>1. CASE parse_range(f[i]) = <<>>
    BY <2>1 DEF Range
  <2>2. CASE \E a, b \in Nat : parse_range(f[i]) = <<a, b>>
    <3>1. PICK a, b \in Nat : parse_range(f[i]) = <<a, b>>
      BY <2>2
    <3>2. R(i) \subseteq {a, b}
      BY <3>1 DEF Range
    <3>3. a + b \in Nat /\ a <= a + b /\ b <= a + b
      OBVIOUS
    <3> QED BY <3>2, <3>3
  <2> QED BY <1>0, <2>1, <2>2, RangeIs
<1>2. 0 \in S
  BY <1>0
<1>3. ASSUME NEW n \in 0 .. Len(f) - 1, n \in S PROVE n + 1 \in S
  <2>1. PICK m \in Nat : \A i \in 1 .. n : \A x \in R(i) : x <= m
    BY <1>3
  <2>2. n + 1 \in 1 .. Len(f)
    BY <1>0
  <2>3. PICK k \in Nat : \A x \in R(n + 1) : x <= k
    BY <1>1, <2>2
  <2>4. ASSUME NEW i \in 1 .. n + 1, NEW x \in R(i) PROVE x <= m + k
    <3>1. x \in Nat /\ i \in 1 .. Len(f)
      BY <1>0, <1>1, <2>2
    <3>2. CASE i = n + 1
      BY <2>3, <3>1, <3>2
    <3>3. CASE i # n + 1
      <4>1. i \in 1 .. n
        BY <3>3
      <4> QED BY <2>1, <3>1, <4>1
    <3> QED BY <3>2, <3>3
  <2>5. m + k \in Nat /\ n + 1 \in 0 .. Len(f)
    BY <1>0, <2>2
  <2> QED BY <2>4, <2>5
<1>4. Len(f) \in S
  <2> HIDE DEF S
  <2>1. 0 .. Len(f) \subseteq S
    BY <1>0, <1>2, <1>3, UpTo
  <2> QED BY <1>0, <2>1
<1>5. PICK m \in Nat : \A i \in 1 .. Len(f) : \A x \in R(i) : x <= m
  BY <1>4
<1>6. A \in SUBSET Nat /\ A # {} /\ \A y \in A : y <= m
  BY <1>0, <1>1, <1>5
<1>7. Max(A) \in A /\ \A y \in A : y <= Max(A)
  <2> HIDE DEF A
  <2> QED BY <1>6, MaxIs
<1>8. find_max(f) = 1 + Max(A) /\ Max(A) \in Nat
  BY <1>6, <1>7 DEF find_max
<1>9. ASSUME NEW cp \in generate_flat_table(f) PROVE cp \in Nat /\ cp <= Max(A)
  <2>1. PICK i \in DOMAIN f : cp \in LET r == parse_range(f[i]) IN IF r = <<>> THEN {} ELSE r[1] .. r[2]
    BY DEF generate_flat_table
  <2>2. PICK a, b \in Nat : parse_range(f[i]) = <<a, b>>
    BY <1>0, <2>1, RangeIs
  <2>3. cp \in a .. b /\ b \in R(i)
    BY <2>1, <2>2 DEF Range
  <2>4. b \in A
    BY <2>3
  <2> HIDE DEF A
  <2>5. b <= Max(A)
    BY <1>7, <2>4
  <2>6. PICK mx \in Nat : mx = Max(A)
    BY <1>8
  <2>7. cp \in Nat /\ cp <= b /\ b <= mx
    BY <2>2, <2>3, <2>5, <2>6
  <2>8. cp <= mx
    BY <2>2, <2>6, <2>7
  <2> QED BY <2>6, <2>7, <2>8
<1> HIDE DEF A
<1>10. find_max(f) \in Nat
  BY <1>8
<1>11. ASSUME NEW cp \in generate_flat_table(f) PROVE cp \in Nat /\ cp < find_max(f)
  <2>1. PICK mx \in Nat : mx = Max(A)
    BY <1>8
  <2>2. cp \in Nat /\ cp <= mx
    BY <1>9, <2>1
  <2> QED BY <1>8, <2>1, <2>2
<1> QED BY <1>10, <1>11

\* The size of a block is a multiple of 8.
LEMMA BlockSize == \E w \in Nat : w > 0 /\ 2^Radix = 8 * w /\ 2^Radix \div 8 = w /\ UINT8_MAX \in Nat
<1>1. PICK n \in Nat : n = 2^Radix /\ n >= 8 /\ n % 8 = 0
  BY TableAssumption DEF TableAssumption
<1>2. n \div 8 \in Nat /\ n \div 8 > 0 /\ n = 8 * (n \div 8)
  BY <1>1
<1>3. UINT8_MAX \in Nat
  BY TableAssumption DEF TableAssumption
<1> QED BY <1>1, <1>2, <1>3

\* Numbers of the members of a finite set of numbers, in ascending order.
LEMMA Ranks ==
    ASSUME NEW M, M \subseteq Nat, IsFiniteSet(M)
    PROVE  /\ Cardinality(M) \in Nat
           /\ \A i \in M : Cardinality({j \in M : j < i}) \in Nat
           /\ \A i \in M : Cardinality({j \in M : j < i}) < Cardinality(M)
           /\ \A i, h \in M : Cardinality({j \in M : j < i}) = Cardinality({j \in M : j < h}) => i = h
<1> DEFINE B(i) == {j \in M : j < i}
<1>1. Cardinality(M) \in Nat
  BY FS_CardinalityType
<1>2. ASSUME NEW i \in M
      PROVE  IsFiniteSet(B(i)) /\ Cardinality(B(i)) \in Nat /\ Cardinality(B(i)) < Cardinality(M)
  <2>1. B(i) \in SUBSET M /\ i \in Nat /\ i \notin B(i)
    OBVIOUS
  <2> HIDE DEF B
  <2>2. /\ IsFiniteSet(B(i)) /\ Cardinality(B(i)) <= Cardinality(M)
        /\ Cardinality(M) = Cardinality(B(i)) => M = B(i)
    BY ONLY IsFiniteSet(M), <2>1, FS_Subset
  <2>3. Cardinality(B(i)) \in Nat
    BY <2>2, FS_CardinalityType
  <2>4. Cardinality(M) # Cardinality(B(i))
    BY <2>1, <2>2
  <2> QED BY <1>1, <2>2, <2>3, <2>4
<1>3. ASSUME NEW i \in M, NEW h \in M, i < h PROVE Cardinality(B(i)) # Cardinality(B(h))
  <2>1. B(i) \in SUBSET B(h) /\ i \in B(h) /\ i \notin B(i)
    <3>1. i \in Nat /\ h \in Nat /\ \A j \in M : j \in Nat
      OBVIOUS
    <3>2. \A j \in M : j < i => j < h
      BY <1>3, <3>1
    <3>3. i \notin B(i)
      BY <3>1
    <3> QED BY <1>3, <3>2, <3>3
  <2>2. IsFiniteSet(B(h))
    BY <1>2
  <2> HIDE DEF B
  <2>3. Cardinality(B(h)) = Cardinality(B(i)) => B(h) = B(i)
    BY ONLY <2>1, <2>2, FS_Subset
  <2> QED BY <2>1, <2>3
<1>4. ASSUME NEW i \in M, NEW h \in M, Cardinality(B(i)) = Cardinality(B(h)) PROVE i = h
  <2>1. i \in Nat /\ h \in Nat
    OBVIOUS
  <2>2. i < h \/ h < i \/ i = h
    BY <2>1
  <2> HIDE DEF B
  <2> QED BY <1>3, <1>4, <2>2
<1> QED BY <1>1, <1>2, <1>4

\* Reading a table that print_radix_table wrote.
LEMMA LookupIs ==
    ASSUME NEW flat, NEW size \in Nat, \A x \in flat : x \in Nat /\ x < size,
           NEW t, t = print_radix_table(flat, size, Radix), Fits(t), NEW cp \in Nat
    PROVE  table_lookup(t, cp) <=> cp \in flat
<1> DEFINE n        == 2^Radix
           w        == n \div 8
           blocks   == 0 .. ((size \div n) + (IF size % n = 0 THEN 0 ELSE 1)) - 1
           full     == {i \in blocks : AllSet(flat, size, n, i)}
           null     == {i \in blocks : AllUnset(flat, size, n, i)}
           mixed    == blocks \ (full \cup null)
           TBL(i)   == Cardinality({j \in mixed : j < i})
           TBL_FULL == Cardinality(mixed)
           TBL_NULL == TBL_FULL + (IF full = {} THEN 0 ELSE 1)
           copies   == TBL_NULL + (IF null = {} THEN 0 ELSE 1)
           bytes(c, k) ==
              IF c < TBL_FULL
              THEN {b \in 0 .. 7 : (CHOOSE i \in mixed : TBL(i) = c) * n + k * 8 + b \in flat}
              ELSE IF c < TBL_NULL THEN 0 .. 7 ELSE {}
           entry(i) == IF i \in full THEN TBL_FULL ELSE IF i \in null THEN TBL_NULL ELSE TBL(i)
<1>0. w \in Nat /\ w > 0 /\ UINT8_MAX \in Nat
  BY BlockSize
<1>1. n \in Nat /\ n = 8 * w /\ n > 0
  BY BlockSize
<1>2. t = [tbl    |-> [p \in 1 .. copies * w |-> bytes((p - 1) \div w, (p - 1) % w)],
           lookup |-> [i \in blocks |-> entry(i) % (UINT8_MAX + 1)],
           size   |-> size,
           radix  |-> Radix]
  BY DEF print_radix_table
<1>3. /\ t.tbl = [p \in 1 .. copies * w |-> bytes((p - 1) \div w, (p - 1) % w)]
      /\ t.lookup = [i \in blocks |-> entry(i) % (UINT8_MAX + 1)]
      /\ t.size = size /\ 2^t.radix = n /\ (2^t.radix) \div 8 = w
  <2> HIDE DEF blocks, copies, bytes, entry, w
  <2>1. t.radix = Radix
    BY <1>2
  <2>2. 2^t.radix = n /\ (2^t.radix) \div 8 = w
    BY ONLY <2>1 DEF n, w
  <2> QED BY <1>2, <2>2
<1> HIDE DEF n, w
<1>4. CASE ~(cp < size)
  BY <1>3, <1>4 DEF table_lookup
<1>5. CASE cp < size
  <2>1. PICK i \in Nat, r \in 0 .. n - 1 : i = cp \div n /\ r = cp % n /\ cp = n * i + r
    <3>1. cp \div n \in Nat /\ cp % n \in 0 .. n - 1 /\ cp = (n * (cp \div n)) + (cp % n)
      BY ONLY cp \in Nat, <1>1, DivMod
    <3> QED BY <3>1
  <2>2. PICK k \in Nat, b \in 0 .. 7 : k = r \div 8 /\ b = r % 8 /\ r = 8 * k + b
    <3>1. r \in Nat
      BY ONLY <1>1, <2>1
    <3>2. r \div 8 \in Nat /\ r % 8 \in 0 .. 7 /\ r = 8 * (r \div 8) + (r % 8)
      BY ONLY <3>1
    <3> QED BY ONLY <3>2
  <2>3. k <= w - 1
    BY <1>0, <1>1, <2>1, <2>2
  <2>4. cp % 8 = b
    <3>1. PICK m \in Nat : m = w * i
      BY <1>0
    <3>2. n * i = 8 * m
      BY <1>0, <1>1, <3>1
    <3>3. cp = 8 * (m + k) + b
      BY <2>1, <2>2, <3>1, <3>2
    <3> QED BY <2>2, <3>1, <3>3
  <2>5. i \in blocks
    <3>1. PICK q \in Nat, z \in 0 .. n - 1 : q = size \div n /\ z = size % n /\ size = n * q + z
      <4>1. size \div n \in Nat /\ size % n \in 0 .. n - 1 /\ size = (n * (size \div n)) + (size % n)
        BY ONLY size \in Nat, <1>1, DivMod
      <4> QED BY <4>1
    <3>2. i <= q /\ (i = q => z # 0)
      <4>1. ASSUME i > q PROVE FALSE
        <5>1. PICK e \in Nat : i = q + 1 + e
          <6>1. i - (q + 1) \in Nat /\ i = q + 1 + (i - (q + 1))
            BY <2>1, <3>1, <4>1
          <6> QED BY <6>1
        <5>2. n * i = n * q + n + n * e /\ n * e \in Nat /\ n * q \in Nat
          BY <1>1, <5>1
        <5> QED BY <1>1, <1>5, <2>1, <3>1, <5>2
      <4>2. ASSUME i = q, z = 0 PROVE FALSE
        <5>1. n * i \in Nat
          BY <1>1
        <5> QED BY <1>5, <2>1, <3>1, <4>2, <5>1
      <4> QED BY <2>1, <3>1, <4>1, <4>2
    <3> QED BY <2>1, <3>1, <3>2
  <2>6. mixed \subseteq Nat /\ IsFiniteSet(mixed) /\ full \subseteq blocks /\ null \subseteq blocks
    <3>1. PICK top \in Int : blocks = 0 .. top - 1
      <4>1. size \div n \in Nat
        BY ONLY size \in Nat, <1>1, DivMod
      <4>2. (size \div n) + (IF size % n = 0 THEN 0 ELSE 1) \in Int
        BY <4>1
      <4> QED BY <4>2
    <3>2. IsFiniteSet(blocks) /\ blocks \subseteq Nat
      BY <3>1, FS_Interval
    <3>3. mixed \in SUBSET blocks
      OBVIOUS
    <3> HIDE DEF mixed, blocks
    <3>4. IsFiniteSet(mixed)
      BY ONLY <3>2, <3>3, FS_Subset
    <3> QED BY <3>2, <3>3, <3>4
  <2>7. PICK M : M = mixed
    OBVIOUS
  <2>8. /\ TBL_FULL \in Nat
        /\ \A j \in mixed : TBL(j) \in Nat /\ TBL(j) < TBL_FULL
        /\ \A j, h \in mixed : TBL(j) = TBL(h) => j = h
    <3> HIDE DEF mixed
    <3> QED BY <2>6, Ranks
  <2> HIDE DEF TBL, TBL_FULL
  <2>9. PICK c : c = entry(i)
    OBVIOUS
  <2>10. /\ c \in Nat /\ c < copies
         /\ bytes(c, k) = IF i \in full THEN 0 .. 7 ELSE IF i \in null THEN {}
                          ELSE {a \in 0 .. 7 : i * n + k * 8 + a \in flat}
    <3>1. CASE i \in full
      <4>1. full # {} /\ c = TBL_FULL
        BY <2>9, <3>1
      <4> HIDE DEF full, null, blocks, mixed
      <4> QED BY <2>8, <3>1, <4>1
    <3>2. CASE i \notin full /\ i \in null
      <4>1. null # {} /\ c = TBL_NULL
        BY <2>9, <3>2
      <4> HIDE DEF full, null, blocks, mixed
      <4> QED BY <2>8, <3>2, <4>1
    <3>3. CASE i \notin full /\ i \notin null
      <4>1. i \in mixed /\ c = TBL(i)
        BY <2>5, <2>9, <3>3
      <4> HIDE DEF full, null, blocks, mixed
      <4>2. c \in Nat /\ c < TBL_FULL /\ c < copies
        BY <2>8, <4>1
      <4>3. (CHOOSE j \in mixed : TBL(j) = c) = i
        BY <2>8, <4>1
      <4> QED BY <3>3, <4>2, <4>3
    <3> QED BY <3>1, <3>2, <3>3
  <2>11. copies \in Nat
    <3> HIDE DEF full, null, blocks, mixed
    <3> QED BY <2>8
  <2>12. cp \in flat <=> IF i \in full THEN TRUE ELSE IF i \in null THEN FALSE ELSE i * n + k * 8 + b \in flat
    <3>1. r \in 0 .. n - 1 /\ i * n + r = cp /\ i * n + r < size
      <4>1. n * i = i * n
        BY ONLY i \in Nat, <1>1
      <4>2. i * n + r = cp
        BY ONLY <2>1, <4>1
      <4> QED BY ONLY r \in 0 .. n - 1, <1>5, <4>2
    <3>2. CASE i \in full
      <4>1. AllSet(flat, size, n, i)
        BY <3>2
      <4> QED BY <3>1, <3>2, <4>1 DEF AllSet
    <3>3. CASE i \notin full /\ i \in null
      <4>1. AllUnset(flat, size, n, i)
        BY <3>3
      <4> QED BY <3>1, <3>3, <4>1 DEF AllUnset
    <3>4. CASE i \notin full /\ i \notin null
      <4>1. PICK m \in Nat : m = i * n
        BY <1>1
      <4>2. m + k * 8 + b = m + r
        BY <2>2, <4>1
      <4>3. i * n + k * 8 + b = cp
        BY <3>1, <4>1, <4>2
      <4> QED BY <3>4, <4>3
    <3> QED BY <3>2, <3>3, <3>4
  <2> HIDE DEF full, null, blocks, mixed, copies, bytes, entry
  <2>13. c % (UINT8_MAX + 1) = c
    <3>1. Len(t.tbl) = copies * w
      <4>1. copies * w \in Nat
        BY <1>0, <2>11
      <4> QED BY <1>3, <4>1
    <3>2. copies * w <= (UINT8_MAX + 1) * w
      BY ONLY Fits(t), <1>3, <3>1 DEF Fits
    <3>3. copies <= UINT8_MAX + 1
      BY <1>0, <2>11, <3>2
    <3> QED BY <1>0, <2>10, <2>11, <3>3
  <2>14. t.lookup[cp \div (2^t.radix)] = c
    <3>1. t.lookup[i] = entry(i) % (UINT8_MAX + 1)
      BY <1>3, <2>5
    <3> QED BY <1>3, <2>1, <2>9, <2>13, <3>1
  <2>15. (c * (2^t.radix)) \div 8 = c * w
    <3>1. PICK m \in Nat : m = c * w
      BY <1>0, <2>10
    <3>2. c * n = 8 * m
      BY <1>0, <1>1, <2>10, <3>1
    <3>3. (8 * m) \div 8 = m
      BY <3>1
    <3> QED BY <1>3, <3>1, <3>2, <3>3
  <2>16. (cp % (2^t.radix)) \div 8 = k
    BY <1>3, <2>1, <2>2
  <2>17. PICK p \in Nat : p = c * w + k + 1 /\ p - 1 = w * c + k
    BY <1>0, <2>2, <2>10
  <2>18. p \in 1 .. copies * w
    <3>1. PICK e \in Nat : copies = c + 1 + e
      <4>1. copies - (c + 1) \in Nat /\ copies = c + 1 + (copies - (c + 1))
        BY <2>10, <2>11
      <4> QED BY <4>1
    <3>2. copies * w = c * w + w + e * w /\ e * w \in Nat /\ c * w \in Nat
      BY <1>0, <2>10, <3>1
    <3> QED BY <1>0, <2>2, <2>3, <2>17, <3>2
  <2>19. (p - 1) \div w = c /\ (p - 1) % w = k
    <3>1. k \in 0 .. w - 1 /\ p - 1 \in Nat
      BY <1>0, <2>2, <2>3, <2>17, <2>18
    <3> QED BY <1>0, <2>10, <2>17, <3>1, DivModUnique
  <2>20. t.tbl[p] = bytes(c, k)
    BY <1>3, <2>18, <2>19
  <2>21. table_lookup(t, cp) <=> b \in bytes(c, k)
    <3>1. table_lookup(t, cp) <=> b \in t.tbl[c * w + k + 1]
      BY <1>3, <1>5, <2>4, <2>14, <2>15, <2>16 DEF table_lookup
    <3> QED BY <2>17, <2>20, <3>1
  <2> QED BY <2>2, <2>10, <2>12, <2>21
<1> QED BY <1>4, <1>5

\* The files are made of lines; once the build was run, the tables are those
\* of the files.
TableInv ==
    /\ file = [double |-> file.double, zero |-> file.zero]
    /\ file.double \in Seq(Lines) /\ file.zero \in Seq(Lines)
    /\ table # None =>
          table = [double |-> codegen(file.double, Radix), zero |-> codegen(file.zero, Radix)]

\* The files are empty at first, and there are no tables.
LEMMA TableInit == Init => TableInv
  BY DEF Init, TableInv

\* Lines are added before the build and not after it.
LEMMA TableNext == TableInv /\ [Next]_vars => TableInv'
<1> SUFFICES ASSUME TableInv, [Next]_vars PROVE TableInv'
  OBVIOUS
<1>1. ASSUME NEW f \in {"double", "zero"}, NEW line \in Lines, add_line(f, line) PROVE TableInv'
  <2>1. table = None /\ table' = table /\ file' = [file EXCEPT ![f] = Append(@, line)]
    BY <1>1 DEF add_line
  <2>2. CASE f = "double"
    <3>1. file' = [double |-> Append(file.double, line), zero |-> file.zero]
      BY <2>1, <2>2 DEF TableInv
    <3>2. Append(file.double, line) \in Seq(Lines)
      BY DEF TableInv
    <3>3. file.double \in Seq(Lines) /\ file.zero \in Seq(Lines)
      BY DEF TableInv
    <3>4. file'.double \in Seq(Lines) /\ file'.zero \in Seq(Lines)
      BY <3>1, <3>2, <3>3
    <3>5. file' = [double |-> file'.double, zero |-> file'.zero]
      BY <3>1
    <3> QED BY <2>1, <3>4, <3>5 DEF TableInv
  <2>3. CASE f = "zero"
    <3>1. file' = [double |-> file.double, zero |-> Append(file.zero, line)]
      BY <2>1, <2>3 DEF TableInv
    <3>2. Append(file.zero, line) \in Seq(Lines)
      BY DEF TableInv
    <3>3. file.double \in Seq(Lines) /\ file.zero \in Seq(Lines)
      BY DEF TableInv
    <3>4. file'.double \in Seq(Lines) /\ file'.zero \in Seq(Lines)
      BY <3>1, <3>2, <3>3
    <3>5. file' = [double |-> file'.double, zero |-> file'.zero]
      BY <3>1
    <3> QED BY <2>1, <3>4, <3>5 DEF TableInv
  <2> QED BY <2>2, <2>3
<1>2. CASE build
  BY <1>2 DEF build, TableInv
<1>3. CASE UNCHANGED <<file, table>>
  BY <1>3 DEF TableInv
<1>4. CASE \E cp \in CodePoints : type(cp)
  BY <1>3, <1>4 DEF type
<1>5. CASE cut
  BY <1>3, <1>5 DEF cut
<1>6. CASE \E b \in Stray : stray(b)
  BY <1>3, <1>6 DEF stray
<1>7. CASE UNCHANGED vars
  BY <1>3, <1>7 DEF vars
<1> QED BY <1>1, <1>2, <1>4, <1>5, <1>6, <1>7 DEF Next

\* The files and the tables belong together.
LEMMA TableInvariant == Spec => []TableInv
  BY TableInit, TableNext, PTL DEF Spec

\* A table that a byte can number says what its file says.
LEMMA LookupExact ==
    ASSUME NEW f \in Seq(Lines), NEW t, t = codegen(f, Radix), Fits(t), NEW cp \in Nat
    PROVE  table_lookup(t, cp) <=> cp \in generate_flat_table(f)
<1>1. PICK flat : flat = generate_flat_table(f)
  OBVIOUS
<1>2. PICK size \in Nat : size = find_max(f) /\ \A x \in flat : x \in Nat /\ x < size
  BY <1>1, FileMax
<1>3. t = print_radix_table(flat, size, Radix)
  BY <1>1, <1>2 DEF codegen
<1> QED BY ONLY cp \in Nat, t = codegen(f, Radix), Fits(t), <1>1, <1>2, <1>3, LookupIs

\* TablesExact holds for files of any number of lines and blocks of any size:
\* what table_lookup reads of a code point is what the lines say.
THEOREM TablesExactHolds == Spec => []TablesExact
<1>1. TableInv => TablesExact
  <2> SUFFICES ASSUME TableInv, table # None, NEW f \in {"double", "zero"}, Fits(table[f]),
                      NEW cp \in 0 .. find_max(file[f]) + 2^Radix
               PROVE  table_lookup(table[f], cp) <=> cp \in generate_flat_table(file[f])
    BY DEF TablesExact
  <2>1. file[f] \in Seq(Lines) /\ table[f] = codegen(file[f], Radix)
    <3>1. table = [double |-> codegen(file.double, Radix), zero |-> codegen(file.zero, Radix)]
      BY DEF TableInv
    <3>2. file.double \in Seq(Lines) /\ file.zero \in Seq(Lines)
      BY DEF TableInv
    <3>3. CASE f = "double"
      BY <3>1, <3>2, <3>3
    <3>4. CASE f = "zero"
      BY <3>1, <3>2, <3>4
    <3> QED BY <3>3, <3>4
  <2>2. cp \in Nat
    <3>1. PICK m : m = find_max(file[f]) + 2^Radix
      OBVIOUS
    <3> QED OBVIOUS
  <2> QED BY ONLY <2>1, <2>2, Fits(table[f]), LookupExact
<1> QED BY <1>1, TableInvariant, PTL

-----------------------------------------------------------------------------
\* The loops over a string.

\* The sizes of characters are small numbers.
LEMMA LenMap ==
    ASSUME NEW b \in Byte
    PROVE  utf8_len_map(b) \in 0 .. 4 /\ utf16_len_map(b) \in 0 .. 2
  BY DEF Byte, utf8_len_map, utf16_len_map

\* The values of the loop of cx_utf8_clen and cx_utf8_16len.
LEMMA SumLeadsIs ==
    ASSUME NEW s \in Seq(Byte), NEW weight \in [Byte -> Nat]
    PROVE  \E from \in [Nat -> Nat \cup {-1}] :
              /\ SumLeads(s, weight) = from[0]
              /\ \A i \in Nat : i >= Len(s) => from[i] = 0
              /\ \A i \in 0 .. Len(s) - 1 :
                    LET n == utf8_len_map(s[i + 1])
                    IN  from[i] = IF n = 0 \/ from[i + n] = -1 THEN -1
                                  ELSE from[i + n] + weight[s[i + 1]]
<1> DEFINE L == Len(s)
           n(i) == utf8_len_map(s[i + 1])
           V == Nat \cup {-1}
           D(f) == [i \in Nat |-> IF i >= Len(s) THEN 0
                                  ELSE IF n(i) = 0 \/ f[i + n(i)] = -1 THEN -1
                                  ELSE f[i + n(i)] + weight[s[i + 1]]]
           from == CHOOSE f : f = D(f)
<1>1. \A i \in 0 .. L - 1 : n(i) \in 0 .. 4 /\ weight[s[i + 1]] \in Nat
  <2> TAKE i \in 0 .. L - 1
  <2>1. s[i + 1] \in Byte
    OBVIOUS
  <2> QED BY <2>1, LenMap
<1>2. \E f \in [Nat -> V] : f = D(f)
  <2> DEFINE rank == [i \in Nat |-> IF i >= L THEN 0 ELSE L - i]
             stop == {i \in Nat : i >= L \/ n(i) = 0}
             next == [i \in Nat |-> i + n(i)]
             base == [i \in Nat |-> IF i >= L THEN 0 ELSE -1]
             G == [i \in Nat |-> [v \in V |-> IF v = -1 THEN -1 ELSE v + weight[s[i + 1]]]]
  <2>1. \A i \in Nat : rank[i] \in 0 .. L /\ base[i] \in V
    OBVIOUS
  <2>2. \A i \in Nat \ stop : next[i] \in Nat /\ rank[next[i]] < rank[i]
    <3> TAKE i \in Nat \ stop
    <3>1. i < L /\ n(i) \in 1 .. 4
      BY <1>1
    <3>2. PICK k \in 1 .. 4 : k = n(i)
      BY <3>1
    <3>3. next[i] = i + k
      BY <3>2
    <3> HIDE DEF next, n
    <3> QED BY <3>1, <3>3
  <2>3. \A i \in Nat \ stop : \A v \in V : G[i][v] \in V
    <3> TAKE i \in Nat \ stop
    <3> TAKE v \in V
    <3>1. weight[s[i + 1]] \in Nat
      BY <1>1
    <3> QED BY <3>1
  <2>4. \E f : Recurs(f, Nat, V, stop, next, base, G)
    <3>1. L \in Nat
      OBVIOUS
    <3> HIDE DEF L, rank, stop, next, base, G, V
    <3>2. Descends(Nat, V, L, rank, stop, next, base, G)
      BY ONLY <2>1, <2>2, <2>3, <3>1 DEF Descends
    <3> QED BY ONLY <3>2, Recursion
  <2>5. PICK f \in [Nat -> V] : \A i \in Nat : f[i] = IF i \in stop THEN base[i] ELSE G[i][f[next[i]]]
    <3> HIDE DEF L, rank, stop, next, base, G, V
    <3> QED BY ONLY <2>4 DEF Recurs
  <2>6. ASSUME NEW i \in Nat PROVE f[i] = D(f)[i]
    <3>1. CASE i >= L \/ n(i) = 0
      <4>1. f[i] = base[i]
        BY <2>5, <3>1
      <4> QED BY <3>1, <4>1
    <3>2. CASE ~(i >= L \/ n(i) = 0)
      <4>1. f[i] = G[i][f[next[i]]] /\ next[i] = i + n(i) /\ next[i] \in Nat
        BY <2>2, <2>5, <3>2
      <4>2. f[i + n(i)] \in V
        BY <4>1
      <4>3. G[i][f[i + n(i)]] = IF f[i + n(i)] = -1 THEN -1 ELSE f[i + n(i)] + weight[s[i + 1]]
        BY <4>2
      <4> QED BY <3>2, <4>1, <4>3
    <3> QED BY <3>1, <3>2
  <2>7. f = D(f)
    BY <2>6
  <2> QED BY <2>7
<1>3. from = D(from)
  <2> HIDE DEF D
  <2> QED BY <1>2
<1>4. SumLeads(s, weight) = from[0]
  BY DEF SumLeads
<1> HIDE DEF from
<1>5. \A i \in Nat : from[i] = D(from)[i]
  BY <1>3
<1>6. ASSUME NEW i \in Nat, i >= L PROVE from[i] = 0
  BY <1>5, <1>6
<1>7. ASSUME NEW i \in 0 .. L - 1
      PROVE  from[i] = IF n(i) = 0 \/ from[i + n(i)] = -1 THEN -1
                       ELSE from[i + n(i)] + weight[s[i + 1]]
  <2>1. i \in Nat /\ ~(i >= L)
    OBVIOUS
  <2> QED BY <1>5, <2>1
<1>8. \A i \in Nat : from[i] \in V
  <2> DEFINE S == {i \in Nat : from[i] \in V}
  <2>1. \A i \in Nat : i >= L => i \in S
    BY <1>6
  <2>2. ASSUME NEW i \in 0 .. L - 1, \A j \in Nat : j > i => j \in S PROVE i \in S
    <3>1. PICK k \in 0 .. 4 : k = n(i)
      BY <1>1
    <3>2. PICK w \in Nat : w = weight[s[i + 1]]
      BY <1>1
    <3>3. from[i] = IF k = 0 \/ from[i + k] = -1 THEN -1 ELSE from[i + k] + w
      BY <1>7, <3>1, <3>2
    <3>4. k = 0 \/ from[i + k] \in V
      BY <2>2, <3>1
    <3> QED BY <3>3, <3>4
  <2>3. L \in Nat
    OBVIOUS
  <2>4. \A i \in Nat : i \in S
    <3> HIDE DEF L, S
    <3> QED BY ONLY <2>1, <2>2, <2>3, Backwards
  <2> QED BY <2>4
<1>9. from \in [Nat -> V]
  BY <1>3, <1>8
<1> QED BY <1>4, <1>6, <1>7, <1>9

\* One turn of the loop of cx_utf8_bidx.
Turn(s, v) ==
    IF v = -1 \/ v >= Len(s) THEN v
    ELSE IF utf8_len_map(s[v + 1]) = 0 THEN -1 ELSE v + utf8_len_map(s[v + 1])

\* The values of byte_index in the loop of cx_utf8_bidx.
LEMMA SkipCharsIs ==
    ASSUME NEW s \in Seq(Byte), NEW m \in Nat
    PROVE  \E at \in [0 .. m -> Nat \cup {-1}] :
              /\ at[0] = 0
              /\ \A k \in 1 .. m : at[k] = Turn(s, at[k - 1])
              /\ \A k \in 0 .. m : SkipChars(s, k) = at[k]
<1> DEFINE V == Nat \cup {-1}
           F == [k \in 1 .. m |-> [v \in V |-> Turn(s, v)]]
           D(l, f) == [i \in 0 .. l |->
                          IF i = 0 THEN 0
                          ELSE IF f[i - 1] = -1 \/ f[i - 1] >= Len(s) THEN f[i - 1]
                          ELSE IF utf8_len_map(s[f[i - 1] + 1]) = 0 THEN -1
                          ELSE f[i - 1] + utf8_len_map(s[f[i - 1] + 1])]
<1>1. ASSUME NEW v \in V PROVE Turn(s, v) \in V
  <2>1. CASE v = -1 \/ v >= Len(s)
    BY <2>1 DEF Turn
  <2>2. CASE ~(v = -1 \/ v >= Len(s))
    <3>1. s[v + 1] \in Byte /\ v \in Nat
      BY <2>2
    <3>2. PICK k \in 0 .. 4 : k = utf8_len_map(s[v + 1])
      BY <3>1, LenMap
    <3> QED BY <2>2, <3>1, <3>2 DEF Turn
  <2> QED BY <2>1, <2>2
<1>2. PICK at \in [0 .. m -> V] : Iterates(at, m, 0, F)
  <2>1. \A k \in 1 .. m : \A v \in V : F[k][v] \in V
    BY <1>1
  <2>2. 0 \in V
    OBVIOUS
  <2> HIDE DEF V, F
  <2> QED BY <2>1, <2>2, IterateExists
<1>3. at[0] = 0
  BY <1>2 DEF Iterates
<1>4. ASSUME NEW k \in 1 .. m PROVE at[k] = Turn(s, at[k - 1])
  <2>1. at[k] = F[k][at[k - 1]] /\ at[k - 1] \in V
    BY <1>2 DEF Iterates
  <2> QED BY <2>1
<1>5. ASSUME NEW l \in 0 .. m PROVE SkipChars(s, l) = at[l]
  <2> DEFINE f == [i \in 0 .. l |-> at[i]]
             g == CHOOSE h : h = D(l, h)
  <2>1. f = D(l, f)
    <3>1. ASSUME NEW i \in 0 .. l PROVE f[i] = D(l, f)[i]
      <4>1. CASE i = 0
        BY <1>3, <4>1
      <4>2. CASE i # 0
        <5>1. at[i] = Turn(s, at[i - 1]) /\ f[i] = at[i] /\ f[i - 1] = at[i - 1]
          BY <1>4, <4>2
        <5> HIDE DEF f
        <5> QED BY <4>2, <5>1 DEF Turn
      <4> QED BY <4>1, <4>2
    <3> QED BY <3>1
  <2>2. g = D(l, g)
    <3> HIDE DEF D, f
    <3> QED BY <2>1
  <2>3. SkipChars(s, l) = g[l]
    BY DEF SkipChars
  <2> HIDE DEF g
  <2>4. \A i \in 0 .. l : g[i] = IF i = 0 THEN 0 ELSE Turn(s, g[i - 1])
    BY <2>2 DEF Turn
  <2>5. g[l] = at[l]
    <3> DEFINE S == {k \in 0 .. l : g[k] = at[k]}
    <3>1. 0 \in S
      BY <1>3, <2>4
    <3>2. ASSUME NEW k \in 0 .. l - 1, k \in S PROVE k + 1 \in S
      <4>1. k + 1 \in 1 .. m /\ (k + 1) - 1 = k /\ k + 1 \in 0 .. l /\ k + 1 # 0
        OBVIOUS
      <4>2. at[k + 1] = Turn(s, at[k]) /\ g[k + 1] = Turn(s, g[k])
        BY <1>4, <2>4, <4>1
      <4> QED BY <3>2, <4>1, <4>2
    <3>3. l \in Nat
      OBVIOUS
    <3>4. 0 .. l \subseteq S
      <4> HIDE DEF S
      <4> QED BY <3>1, <3>2, <3>3, UpTo
    <3>5. l \in 0 .. l
      OBVIOUS
    <3> QED BY <3>4, <3>5
  <2> QED BY <2>3, <2>5
<1> QED BY <1>3, <1>4, <1>5

\* Sums add up.
LEMMA SumTextIs ==
    ASSUME NEW m \in Nat, NEW w, \A k \in 1 .. m : w[k] \in Nat
    PROVE  /\ SumText(w, 0) = 0
           /\ \A k \in 0 .. m : SumText(w, k) \in Nat
           /\ \A k \in 1 .. m : SumText(w, k) = SumText(w, k - 1) + w[k]
<1> DEFINE F == [k \in 1 .. m |-> [v \in Nat |-> v + w[k]]]
           D(l, f) == [k \in 0 .. l |-> IF k = 0 THEN 0 ELSE f[k - 1] + w[k]]
<1>1. PICK sum \in [0 .. m -> Nat] : Iterates(sum, m, 0, F)
  <2>1. \A k \in 1 .. m : \A v \in Nat : F[k][v] \in Nat
    OBVIOUS
  <2> HIDE DEF F
  <2> QED BY <2>1, IterateExists
<1>2. sum[0] = 0
  BY <1>1 DEF Iterates
<1>3. ASSUME NEW k \in 1 .. m PROVE sum[k] = sum[k - 1] + w[k]
  <2>1. sum[k] = F[k][sum[k - 1]]
    <3> HIDE DEF F
    <3> QED BY <1>1 DEF Iterates
  <2>2. sum[k - 1] \in Nat
    BY <1>1
  <2> QED BY <2>1, <2>2
<1>4. ASSUME NEW l \in 0 .. m PROVE SumText(w, l) = sum[l]
  <2> DEFINE f == [i \in 0 .. l |-> sum[i]]
             g == CHOOSE h : h = D(l, h)
  <2>1. f = D(l, f)
    <3>1. ASSUME NEW i \in 0 .. l PROVE f[i] = D(l, f)[i]
      <4>1. CASE i = 0
        BY <1>2, <4>1
      <4>2. CASE i # 0
        <5>1. sum[i] = sum[i - 1] + w[i] /\ f[i] = sum[i] /\ f[i - 1] = sum[i - 1]
          BY <1>3, <4>2
        <5> HIDE DEF f
        <5> QED BY <4>2, <5>1
      <4> QED BY <4>1, <4>2
    <3> QED BY <3>1
  <2>2. g = D(l, g)
    <3> HIDE DEF D, f
    <3> QED BY <2>1
  <2>3. SumText(w, l) = g[l]
    BY DEF SumText
  <2> HIDE DEF g
  <2>4. \A i \in 0 .. l : g[i] = IF i = 0 THEN 0 ELSE g[i - 1] + w[i]
    BY <2>2
  <2>5. g[l] = sum[l]
    <3> DEFINE S == {k \in 0 .. l : g[k] = sum[k]}
    <3>1. 0 \in S
      BY <1>2, <2>4
    <3>2. ASSUME NEW k \in 0 .. l - 1, k \in S PROVE k + 1 \in S
      <4>1. k + 1 \in 1 .. m /\ (k + 1) - 1 = k /\ k + 1 \in 0 .. l /\ k + 1 # 0
        OBVIOUS
      <4>2. sum[k + 1] = sum[k] + w[k + 1] /\ g[k + 1] = g[k] + w[k + 1]
        BY <1>3, <2>4, <4>1
      <4> QED BY <3>2, <4>1, <4>2
    <3>3. l \in Nat
      OBVIOUS
    <3>4. 0 .. l \subseteq S
      <4> HIDE DEF S
      <4> QED BY <3>1, <3>2, <3>3, UpTo
    <3>5. l \in 0 .. l
      OBVIOUS
    <3> QED BY <3>4, <3>5
  <2> QED BY <2>3, <2>5
<1>5. SumText(w, 0) = 0
  BY <1>2, <1>4
<1>6. \A k \in 0 .. m : SumText(w, k) \in Nat
  BY <1>4
<1>7. ASSUME NEW k \in 1 .. m PROVE SumText(w, k) = SumText(w, k - 1) + w[k]
  <2>1. k \in 0 .. m /\ k - 1 \in 0 .. m
    OBVIOUS
  <2> QED BY <1>3, <1>4, <2>1
<1> QED BY <1>5, <1>6, <1>7

\* The loops of unicode-width.c take a character if all its bytes are there.
LEMMA CharSizeIs ==
    ASSUME NEW s \in Seq(Byte), NEW i \in 0 .. Len(s) - 1
    PROVE  LET n == utf8_len_map(s[i + 1])
           IN  /\ n \in 0 .. 4
               /\ CharSize(s, i) = IF i + n > Len(s) THEN 0 ELSE n
               /\ CharSize(s, i) = 0 => CharAt(s, i) = -1
               /\ CharSize(s, i) # 0 => CharAt(s, i) \in Nat
<1> DEFINE n == utf8_len_map(s[i + 1])
<1>1. s[i + 1] \in Byte /\ Rest(s, i) \in Seq(Byte) /\ Len(Rest(s, i)) = Len(s) - i
  BY DEF Rest
<1>2. Rest(s, i)[1] = s[i + 1]
  BY DEF Rest
<1>3. n \in 0 .. 4
  BY <1>1, LenMap
<1>4. CharSize(s, i) = IF i + n > Len(s) THEN 0 ELSE n
  BY <1>2, <1>3 DEF CharSize, cx_utf8_csize
<1>5. PICK r : r = Rest(s, i)
  OBVIOUS
<1>6. r \in Seq(Byte) /\ Len(r) = Len(s) - i /\ utf8_len_map(r[1]) = n
  BY <1>1, <1>2, <1>5
<1>7. PICK c \in 0 .. 4 : c = CharSize(s, i)
  BY <1>3, <1>4
<1>8. cx_utf8_csize(r, c) = c
  BY <1>3, <1>4, <1>6, <1>7 DEF cx_utf8_csize
<1>9. CharAt(s, i) = cx_utf8_cp(r, c)
  BY <1>5, <1>7 DEF CharAt
<1>10. c = 0 => cx_utf8_cp(r, c) = -1
  BY <1>8 DEF cx_utf8_cp
<1>11. ASSUME c # 0 PROVE cx_utf8_cp(r, c) \in Nat
  <2>1. \A j \in 1 .. c : r[j] \in Nat
    <3>1. c <= Len(r)
      BY <1>3, <1>4, <1>6, <1>7
    <3>2. ASSUME NEW j \in 1 .. c PROVE r[j] \in Nat
      <4>1. j \in 1 .. Len(r)
        BY <1>6, <3>1
      <4>2. r[j] \in Byte
        BY <1>6, <4>1
      <4>3. \A b \in Byte : b \in Nat
        BY DEF Byte
      <4> QED BY ONLY <4>2, <4>3
    <3> QED BY <3>2
  <2>2. \A x \in Nat : Payload(x) \in Nat
    BY DEF Payload
  <2>3. CASE c = 1
    BY <1>8, <2>1, <2>3 DEF cx_utf8_cp
  <2>4. CASE c = 2
    <3>1. cx_utf8_cp(r, c) = (r[1] % 32) * 64 + Payload(r[2])
      BY <1>8, <2>4 DEF cx_utf8_cp
    <3>2. 1 \in 1 .. c /\ 2 \in 1 .. c
      BY <2>4
    <3>3. r[1] \in Nat /\ Payload(r[2]) \in Nat
      BY ONLY <2>1, <2>2, <3>2
    <3> QED BY ONLY <3>1, <3>3
  <2>5. CASE c = 3
    <3>1. cx_utf8_cp(r, c) = (r[1] % 16) * 4096 + Payload(r[2]) * 64 + Payload(r[3])
      BY <1>8, <2>5 DEF cx_utf8_cp
    <3>2. 1 \in 1 .. c /\ 2 \in 1 .. c /\ 3 \in 1 .. c
      BY <2>5
    <3>3. r[1] \in Nat /\ Payload(r[2]) \in Nat /\ Payload(r[3]) \in Nat
      BY ONLY <2>1, <2>2, <3>2
    <3> QED BY ONLY <3>1, <3>3
  <2>6. CASE c = 4
    <3>1. cx_utf8_cp(r, c) = (r[1] % 8) * (64 * 4096) + Payload(r[2]) * 4096
                             + Payload(r[3]) * 64 + Payload(r[4])
      BY <1>8, <2>6 DEF cx_utf8_cp
    <3>2. 1 \in 1 .. c /\ 2 \in 1 .. c /\ 3 \in 1 .. c /\ 4 \in 1 .. c
      BY <2>6
    <3>3. r[1] \in Nat /\ Payload(r[2]) \in Nat /\ Payload(r[3]) \in Nat /\ Payload(r[4]) \in Nat
      BY ONLY <2>1, <2>2, <3>2
    <3>4. PICK a \in Nat : a = r[1] % 8
      BY ONLY <3>3
    <3>5. PICK p2, p3, p4 \in Nat : p2 = Payload(r[2]) /\ p3 = Payload(r[3]) /\ p4 = Payload(r[4])
      BY ONLY <3>3
    <3>6. a * (64 * 4096) + p2 * 4096 + p3 * 64 + p4 \in Nat
      BY ONLY a \in Nat, p2 \in Nat, p3 \in Nat, p4 \in Nat
    <3> QED BY ONLY <3>1, <3>4, <3>5, <3>6
  <2> QED BY <1>11, <2>3, <2>4, <2>5, <2>6
<1> QED BY <1>3, <1>4, <1>7, <1>9, <1>10, <1>11

\* A character takes no, one or two columns.
LEMMA WidthNat == \A cp : cx_cp_width(cp) \in Nat
  BY DEF cx_cp_width

\* The values of the loop of cx_utf8_cols.
LEMMA ColsIs ==
    ASSUME NEW s \in Seq(Byte)
    PROVE  \E from \in [Nat -> Nat \cup {-1}] :
              /\ cx_utf8_cols(s) = from[0]
              /\ \A i \in Nat : i >= Len(s) => from[i] = 0
              /\ \A i \in 0 .. Len(s) - 1 :
                    LET n == CharSize(s, i)
                    IN  from[i] = IF n = 0 \/ from[i + n] = -1 THEN -1
                                  ELSE from[i + n] + cx_cp_width(CharAt(s, i))
<1> DEFINE L == Len(s)
           n(i) == CharSize(s, i)
           w(i) == cx_cp_width(CharAt(s, i))
           V == Nat \cup {-1}
           D(f) == [i \in Nat |-> IF i >= Len(s) THEN 0
                                  ELSE IF CharAt(s, i) < 0 \/ f[i + CharSize(s, i)] = -1 THEN -1
                                  ELSE f[i + CharSize(s, i)] + cx_cp_width(CharAt(s, i))]
           from == CHOOSE f : f = D(f)
<1>1. L \in Nat
  OBVIOUS
<1>2. \A i \in 0 .. L - 1 : n(i) \in 0 .. 4 /\ (CharAt(s, i) < 0 <=> n(i) = 0)
  <2> TAKE i \in 0 .. L - 1
  <2>1. PICK k \in 0 .. 4 : n(i) = IF i + k > L THEN 0 ELSE k
    BY CharSizeIs
  <2>2. n(i) \in 0 .. 4
    BY <2>1
  <2>3. (n(i) = 0 => CharAt(s, i) = -1) /\ (n(i) # 0 => CharAt(s, i) \in Nat)
    BY CharSizeIs
  <2> HIDE DEF n
  <2> QED BY <2>2, <2>3
<1>3. \A i : w(i) \in Nat
  BY WidthNat
<1>4. cx_utf8_cols(s) = from[0]
  BY DEF cx_utf8_cols
<1> HIDE DEF n, w, L
<1>5. \E f \in [Nat -> V] : f = D(f)
  <2> DEFINE rank == [i \in Nat |-> IF i >= L THEN 0 ELSE L - i]
             stop == {i \in Nat : i >= L \/ n(i) = 0}
             next == [i \in Nat |-> i + n(i)]
             base == [i \in Nat |-> IF i >= L THEN 0 ELSE -1]
             G == [i \in Nat |-> [v \in V |-> IF v = -1 THEN -1 ELSE v + w(i)]]
  <2>1. \A i \in Nat : rank[i] \in 0 .. L /\ base[i] \in V
    BY <1>1
  <2>2. \A i \in Nat \ stop : next[i] \in Nat /\ rank[next[i]] < rank[i]
    <3> TAKE i \in Nat \ stop
    <3>1. i < L /\ n(i) \in 1 .. 4
      BY <1>1, <1>2
    <3>2. PICK k \in 1 .. 4 : k = n(i)
      BY <3>1
    <3>3. next[i] = i + k
      BY <3>2
    <3> HIDE DEF next
    <3> QED BY <1>1, <3>1, <3>3
  <2>3. \A i \in Nat \ stop : \A v \in V : G[i][v] \in V
    <3> TAKE i \in Nat \ stop
    <3> TAKE v \in V
    <3>1. w(i) \in Nat
      BY <1>3
    <3> QED BY <3>1
  <2>4. \E f : Recurs(f, Nat, V, stop, next, base, G)
    <3> HIDE DEF rank, stop, next, base, G, V
    <3>1. Descends(Nat, V, L, rank, stop, next, base, G)
      BY ONLY <1>1, <2>1, <2>2, <2>3 DEF Descends
    <3> QED BY ONLY <3>1, Recursion
  <2>5. PICK f \in [Nat -> V] : \A i \in Nat : f[i] = IF i \in stop THEN base[i] ELSE G[i][f[next[i]]]
    <3> HIDE DEF rank, stop, next, base, G, V
    <3> QED BY ONLY <2>4 DEF Recurs
  <2>6. ASSUME NEW i \in Nat PROVE f[i] = D(f)[i]
    <3>1. CASE i >= L
      <4>1. f[i] = 0
        BY <2>5, <3>1
      <4> QED BY <3>1, <4>1 DEF L
    <3>2. CASE ~(i >= L) /\ n(i) = 0
      <4>1. f[i] = -1
        BY <2>5, <3>2
      <4>2. CharAt(s, i) < 0
        BY <1>1, <1>2, <3>2
      <4> QED BY <3>2, <4>1, <4>2 DEF L
    <3>3. CASE ~(i >= L \/ n(i) = 0)
      <4>1. f[i] = G[i][f[next[i]]] /\ next[i] = i + n(i) /\ next[i] \in Nat
        BY <2>2, <2>5, <3>3
      <4>2. f[i + n(i)] \in V
        BY <4>1
      <4>3. G[i][f[i + n(i)]] = IF f[i + n(i)] = -1 THEN -1 ELSE f[i + n(i)] + w(i)
        BY <4>2
      <4>4. ~(CharAt(s, i) < 0)
        BY <1>1, <1>2, <3>3
      <4>5. f[i] = IF f[i + n(i)] = -1 THEN -1 ELSE f[i + n(i)] + w(i)
        BY <4>1, <4>3
      <4> QED BY ONLY i \in Nat, <3>3, <4>4, <4>5 DEF n, w, L
    <3> QED BY <3>1, <3>2, <3>3
  <2>7. f = D(f)
    BY <2>6
  <2> QED BY <2>7
<1>6. from = D(from)
  <2> HIDE DEF D
  <2> QED BY <1>5
<1> HIDE DEF from
<1>7. \A i \in Nat : from[i] = D(from)[i]
  BY <1>6
<1>8. ASSUME NEW i \in Nat, i >= L PROVE from[i] = 0
  BY <1>7, <1>8 DEF L
<1>9. ASSUME NEW i \in 0 .. L - 1
      PROVE  from[i] = IF n(i) = 0 \/ from[i + n(i)] = -1 THEN -1 ELSE from[i + n(i)] + w(i)
  <2>1. i \in Nat /\ ~(i >= Len(s))
    BY <1>1 DEF L
  <2>2. CharAt(s, i) < 0 <=> n(i) = 0
    BY <1>2
  <2>3. from[i] = IF CharAt(s, i) < 0 \/ from[i + n(i)] = -1 THEN -1 ELSE from[i + n(i)] + w(i)
    BY <1>7, <2>1 DEF n, w
  <2> QED BY <2>2, <2>3
<1>10. \A i \in Nat : from[i] \in V
  <2> DEFINE S == {i \in Nat : from[i] \in V}
  <2>1. \A i \in Nat : i >= L => i \in S
    BY <1>8
  <2>2. ASSUME NEW i \in 0 .. L - 1, \A j \in Nat : j > i => j \in S PROVE i \in S
    <3>1. PICK k \in 0 .. 4 : k = n(i)
      BY <1>2
    <3>2. PICK x \in Nat : x = w(i)
      BY <1>3
    <3>3. from[i] = IF k = 0 \/ from[i + k] = -1 THEN -1 ELSE from[i + k] + x
      BY <1>9, <3>1, <3>2
    <3>4. k = 0 \/ from[i + k] \in V
      BY <1>1, <2>2, <3>1
    <3>5. i \in Nat
      BY <1>1
    <3> QED BY <3>3, <3>4, <3>5
  <2>3. \A i \in Nat : i \in S
    <3> HIDE DEF S
    <3> QED BY ONLY <1>1, <2>1, <2>2, Backwards
  <2> QED BY <2>3
<1>11. from \in [Nat -> V]
  BY <1>6, <1>10
<1> QED BY <1>4, <1>8, <1>9, <1>11 DEF n, w, L

\* The values of the loop of cx_utf8_colidx.
LEMMA ColidxIs ==
    ASSUME NEW s \in Seq(Byte), NEW tab_size \in Nat \ {0}
    PROVE  \E from :
              /\ \A col : cx_utf8_colidx(s, col, tab_size) = from[<<0, col>>]
              /\ \A i \in Nat, c \in Nat : i >= Len(s) => from[<<i, c>>] = i
              /\ \A i \in 0 .. Len(s) - 1, c \in Nat :
                    LET n     == CharSize(s, i)
                        width == cx_cp_width(CharAt(s, i))
                    IN  IF s[i + 1] = 9 THEN \E d \in Nat : from[<<i, c>>] = from[<<i + 1, d>>]
                        ELSE from[<<i, c>>] = IF n = 0 THEN -1 ELSE IF c < width THEN i
                                              ELSE from[<<i + n, c - width>>]
<1> DEFINE L == Len(s)
           n(i) == CharSize(s, i)
           w(i) == cx_cp_width(CharAt(s, i))
           up(c) == ((c \div tab_size) + 1) * tab_size
           tab(i) == s[i + 1] = 9
           P == Nat \X Nat
           D(f) == [at \in Nat \X Nat |->
                       IF at[1] >= Len(s) THEN at[1]
                       ELSE IF s[at[1] + 1] = 9
                       THEN f[<<at[1] + 1, ((at[2] \div tab_size) + 1) * tab_size>>]
                       ELSE IF CharAt(s, at[1]) < 0 THEN -1
                       ELSE IF at[2] < cx_cp_width(CharAt(s, at[1])) THEN at[1]
                       ELSE f[<<at[1] + CharSize(s, at[1]),
                                at[2] - cx_cp_width(CharAt(s, at[1]))>>]]
           from == CHOOSE f : f = D(f)
<1>1. L \in Nat
  OBVIOUS
<1>2. \A i \in 0 .. L - 1 : n(i) \in 0 .. 4 /\ (CharAt(s, i) < 0 <=> n(i) = 0)
  <2> TAKE i \in 0 .. L - 1
  <2>1. PICK k \in 0 .. 4 : n(i) = IF i + k > L THEN 0 ELSE k
    BY CharSizeIs
  <2>2. n(i) \in 0 .. 4
    BY <2>1
  <2>3. (n(i) = 0 => CharAt(s, i) = -1) /\ (n(i) # 0 => CharAt(s, i) \in Nat)
    BY CharSizeIs
  <2> HIDE DEF n
  <2> QED BY <2>2, <2>3
<1>3. \A i : w(i) \in Nat
  BY WidthNat
<1>4. \A col : cx_utf8_colidx(s, col, tab_size) = from[<<0, col>>]
  BY DEF cx_utf8_colidx
<1>5. \A c \in Nat : up(c) \in Nat
  <2> TAKE c \in Nat
  <2>1. PICK q \in Nat : q = c \div tab_size
    OBVIOUS
  <2>2. (q + 1) * tab_size \in Nat
    OBVIOUS
  <2> QED BY <2>1, <2>2
<1> HIDE DEF n, w, L, up, tab
<1>6. \E f : f = D(f)
  <2> DEFINE rank == [p \in P |-> IF p[1] >= L THEN 0 ELSE L - p[1]]
             stop == {p \in P : p[1] >= L \/ (~tab(p[1]) /\ (n(p[1]) = 0 \/ p[2] < w(p[1])))}
             next == [p \in P |-> IF tab(p[1]) THEN <<p[1] + 1, up(p[2])>>
                                  ELSE <<p[1] + n(p[1]), p[2] - w(p[1])>>]
             base == [p \in P |-> IF p[1] >= L THEN p[1] ELSE IF n(p[1]) = 0 THEN -1 ELSE p[1]]
             G == [p \in P |-> [v \in Int |-> v]]
  <2>1. \A p \in P : rank[p] \in 0 .. L /\ base[p] \in Int
    BY <1>1
  <2>2. ASSUME NEW p \in P \ stop PROVE next[p] \in P /\ rank[next[p]] < rank[p]
    <3>1. PICK i \in Nat, c \in Nat : p = <<i, c>>
      OBVIOUS
    <3>2. ~(i >= L) /\ (tab(i) \/ (n(i) # 0 /\ ~(c < w(i))))
      BY <3>1
    <3>3. rank[p] = L - i
      BY <3>1, <3>2
    <3>4. \E j \in Nat, d \in Nat : next[p] = <<j, d>> /\ j > i
      <4>1. CASE tab(i)
        <5>1. next[p] = <<i + 1, up(c)>>
          BY <3>1, <4>1
        <5>2. up(c) \in Nat
          BY ONLY c \in Nat, <1>5
        <5>3. i + 1 \in Nat /\ i + 1 > i
          BY ONLY i \in Nat
        <5> HIDE DEF next
        <5> QED BY ONLY <5>1, <5>2, <5>3
      <4>2. CASE ~tab(i)
        <5>1. next[p] = <<i + n(i), c - w(i)>>
          BY <3>1, <4>2
        <5>2. PICK k \in 1 .. 4 : k = n(i)
          BY <1>1, <1>2, <3>2, <4>2
        <5>3. PICK x \in Nat : x = w(i)
          BY <1>3
        <5> HIDE DEF next
        <5> QED BY <3>2, <4>2, <5>1, <5>2, <5>3
      <4> QED BY <4>1, <4>2
    <3>5. PICK j \in Nat, d \in Nat : next[p] = <<j, d>> /\ j > i
      BY <3>4
    <3>6. <<j, d>> \in P /\ rank[<<j, d>>] = IF j >= L THEN 0 ELSE L - j
      OBVIOUS
    <3> HIDE DEF next, rank
    <3> QED BY <1>1, <3>2, <3>3, <3>5, <3>6
  <2>3. \A p \in P \ stop : \A v \in Int : G[p][v] \in Int
    OBVIOUS
  <2>4. \E f : Recurs(f, P, Int, stop, next, base, G)
    <3> HIDE DEF rank, stop, next, base, G, P
    <3>1. Descends(P, Int, L, rank, stop, next, base, G)
      BY ONLY <1>1, <2>1, <2>2, <2>3 DEF Descends
    <3> QED BY ONLY <3>1, Recursion
  <2>5. PICK f \in [P -> Int] : \A p \in P : f[p] = IF p \in stop THEN base[p] ELSE G[p][f[next[p]]]
    <3> HIDE DEF rank, stop, next, base, G, P
    <3> QED BY ONLY <2>4 DEF Recurs
  <2>6. \A p \in P \ stop : f[p] = f[next[p]]
    <3> TAKE p \in P \ stop
    <3>1. f[next[p]] \in Int
      BY <2>2
    <3> QED BY <2>5, <3>1
  <2>7. ASSUME NEW p \in P PROVE f[p] = D(f)[p]
    <3>1. PICK i \in Nat, c \in Nat : p = <<i, c>>
      OBVIOUS
    <3>2. PICK y : y = D(f)[p]
      OBVIOUS
    <3>3. y = IF i >= L THEN i ELSE IF tab(i) THEN f[<<i + 1, up(c)>>]
              ELSE IF CharAt(s, i) < 0 THEN -1
              ELSE IF c < w(i) THEN i ELSE f[<<i + n(i), c - w(i)>>]
      BY <3>1, <3>2 DEF L, tab, up, w, n
    <3> HIDE DEF D
    <3>4. CASE i >= L
      <4>1. p \in stop /\ base[p] = i
        BY <3>1, <3>4
      <4> QED BY <2>5, <3>2, <3>3, <3>4, <4>1
    <3>5. CASE ~(i >= L) /\ tab(i)
      <4>1. p \in P \ stop /\ next[p] = <<i + 1, up(c)>>
        BY <3>1, <3>5
      <4> HIDE DEF stop, next
      <4> QED BY <2>6, <3>2, <3>3, <3>5, <4>1
    <3>6. CASE ~(i >= L) /\ ~tab(i) /\ n(i) = 0
      <4>1. p \in stop /\ base[p] = -1
        BY <3>1, <3>6
      <4>2. CharAt(s, i) < 0
        BY <1>1, <1>2, <3>6
      <4> QED BY <2>5, <3>2, <3>3, <3>6, <4>1, <4>2
    <3>7. CASE ~(i >= L) /\ ~tab(i) /\ n(i) # 0
      <4>1. ~(CharAt(s, i) < 0)
        BY <1>1, <1>2, <3>7
      <4>2. CASE c < w(i)
        <5>1. p \in stop /\ base[p] = i
          BY <3>1, <3>7, <4>2
        <5> QED BY <2>5, <3>2, <3>3, <3>7, <4>1, <4>2, <5>1
      <4>3. CASE ~(c < w(i))
        <5>1. p \in P \ stop /\ next[p] = <<i + n(i), c - w(i)>>
          BY <3>1, <3>7, <4>3
        <5> HIDE DEF stop, next
        <5> QED BY <2>6, <3>2, <3>3, <3>7, <4>1, <4>3, <5>1
      <4> QED BY <4>2, <4>3
    <3> QED BY <3>4, <3>5, <3>6, <3>7
  <2>8. f = D(f)
    BY <2>7
  <2> QED BY <2>8
<1>7. from = D(from)
  <2> HIDE DEF D
  <2> QED BY <1>6
<1> HIDE DEF from
<1>8. ASSUME NEW i \in Nat, NEW c \in Nat
      PROVE  from[<<i, c>>] = IF i >= L THEN i ELSE IF tab(i) THEN from[<<i + 1, up(c)>>]
                              ELSE IF CharAt(s, i) < 0 THEN -1
                              ELSE IF c < w(i) THEN i ELSE from[<<i + n(i), c - w(i)>>]
  <2>1. <<i, c>> \in Nat \X Nat
    OBVIOUS
  <2>2. from[<<i, c>>] = D(from)[<<i, c>>]
    BY <1>7
  <2> QED BY <2>1, <2>2 DEF L, tab, up, w, n
<1>9. ASSUME NEW i \in Nat, NEW c \in Nat, i >= L PROVE from[<<i, c>>] = i
  BY <1>8, <1>9
<1>10. ASSUME NEW i \in 0 .. L - 1, NEW c \in Nat
      PROVE  IF tab(i) THEN \E d \in Nat : from[<<i, c>>] = from[<<i + 1, d>>]
             ELSE from[<<i, c>>] = IF n(i) = 0 THEN -1 ELSE IF c < w(i) THEN i
                                   ELSE from[<<i + n(i), c - w(i)>>]
  <2>1. i \in Nat /\ ~(i >= L)
    BY <1>1
  <2>2. CharAt(s, i) < 0 <=> n(i) = 0
    BY <1>2
  <2> QED BY <1>5, <1>8, <2>1, <2>2
<1> QED BY <1>4, <1>9, <1>10 DEF n, w, L, tab

-----------------------------------------------------------------------------
\* Any bytes.

\* The steps of the loops on any bytes.
LEMMA DamageSeenOf ==
    ASSUME str \in Seq(Byte), Columns \subseteq Nat, TAB_SIZE \in Nat \ {0}
    PROVE  DamageSeen
<1> DEFINE L == Len(str)
           adv(i) == utf8_len_map(str[i + 1])
           size(i) == CharSize(str, i)
           width(i) == cx_cp_width(CharAt(str, i))
           tab(i) == str[i + 1] = 9
<1>1. L \in Nat
  OBVIOUS
<1>2. PICK at \in [0 .. L -> Nat \cup {-1}] :
         /\ at[0] = 0
         /\ \A k \in 1 .. L : at[k] = Turn(str, at[k - 1])
         /\ \A k \in 0 .. L : SkipChars(str, k) = at[k]
  BY <1>1, SkipCharsIs
<1>3. PICK count \in [Nat -> Nat \cup {-1}] :
         /\ cx_utf8_clen(str) = count[0]
         /\ \A i \in Nat : i >= L => count[i] = 0
         /\ \A i \in 0 .. L - 1 :
               count[i] = IF adv(i) = 0 \/ count[i + adv(i)] = -1 THEN -1 ELSE count[i + adv(i)] + 1
  <2> DEFINE one == [b \in Byte |-> 1]
  <2>1. one \in [Byte -> Nat]
    OBVIOUS
  <2>2. \A i \in 0 .. L - 1 : one[str[i + 1]] = 1
    <3> TAKE i \in 0 .. L - 1
    <3>1. str[i + 1] \in Byte
      OBVIOUS
    <3> QED BY <3>1
  <2>3. cx_utf8_clen(str) = SumLeads(str, one)
    BY DEF cx_utf8_clen
  <2> HIDE DEF one
  <2>4. PICK f \in [Nat -> Nat \cup {-1}] :
           /\ SumLeads(str, one) = f[0]
           /\ \A i \in Nat : i >= L => f[i] = 0
           /\ \A i \in 0 .. L - 1 :
                 f[i] = IF adv(i) = 0 \/ f[i + adv(i)] = -1 THEN -1 ELSE f[i + adv(i)] + one[str[i + 1]]
    BY <2>1, SumLeadsIs
  <2> QED BY <2>2, <2>3, <2>4
<1>4. PICK cols \in [Nat -> Nat \cup {-1}] :
         /\ cx_utf8_cols(str) = cols[0]
         /\ \A i \in Nat : i >= L => cols[i] = 0
         /\ \A i \in 0 .. L - 1 :
               cols[i] = IF size(i) = 0 \/ cols[i + size(i)] = -1 THEN -1
                         ELSE cols[i + size(i)] + width(i)
  BY ColsIs
<1>5. PICK from :
         /\ \A col : cx_utf8_colidx(str, col, TAB_SIZE) = from[<<0, col>>]
         /\ \A i \in Nat, c \in Nat : i >= L => from[<<i, c>>] = i
         /\ \A i \in 0 .. L - 1, c \in Nat :
               IF tab(i) THEN \E d \in Nat : from[<<i, c>>] = from[<<i + 1, d>>]
               ELSE from[<<i, c>>] = IF size(i) = 0 THEN -1 ELSE IF c < width(i) THEN i
                                     ELSE from[<<i + size(i), c - width(i)>>]
  BY ColidxIs
<1>6. \A i : width(i) \in Nat
  BY WidthNat
<1>7. ASSUME NEW i \in 0 .. L - 1
      PROVE  adv(i) \in 0 .. 4 /\ size(i) = (IF i + adv(i) > L THEN 0 ELSE adv(i))
             /\ (tab(i) => adv(i) = 1)
  BY CharSizeIs DEF utf8_len_map
<1>8. \A v : Turn(str, v) = IF v = -1 \/ v >= L THEN v ELSE IF adv(v) = 0 THEN -1 ELSE v + adv(v)
  BY DEF Turn
<1>9. PICK index : index = [n \in 0 .. L |-> cx_utf8_bidx(str, n)]
  OBVIOUS
<1>10. \A n \in 0 .. L : index[n] = IF at[n] > L THEN -1 ELSE at[n]
  BY <1>2, <1>9 DEF cx_utf8_bidx
<1>11. ASSUME /\ \A n \in 0 .. L : index[n] \in -1 .. L
              /\ \A n \in 1 .. L : index[n] # -1 => index[n - 1] < index[n] \/ index[n] = L
              /\ \A n \in 0 .. count[0] - 1 : index[n] \in 0 .. L - 1
              /\ count[0] <= L
              /\ cols[0] >= 0 <=> count[0] >= 0 /\ index[count[0]] = L
              /\ \A column \in Columns : from[<<0, column>>] \in {index[n] : n \in 0 .. L}
      PROVE  DamageSeen
  <2>1. cx_utf8_clen(str) = count[0] /\ cx_utf8_cols(str) = cols[0]
    BY <1>3, <1>4
  <2>2. \A col : cx_utf8_colidx(str, col, TAB_SIZE) = from[<<0, col>>]
    BY <1>5
  <2>3. \A n \in 0 .. L : index[n] = cx_utf8_bidx(str, n)
    BY <1>9
  <2>4. count[0] \in Nat \cup {-1}
    OBVIOUS
  <2> HIDE DEF L
  <2>5. \A n \in 0 .. L : cx_utf8_bidx(str, n) \in -1 .. L
    BY ONLY <1>11, <2>3
  <2>6. ASSUME NEW n \in 1 .. L, cx_utf8_bidx(str, n) # -1
        PROVE  cx_utf8_bidx(str, n - 1) < cx_utf8_bidx(str, n) \/ cx_utf8_bidx(str, n) = L
    <3>1. n \in 0 .. L /\ n - 1 \in 0 .. L
      BY ONLY <1>1, n \in 1 .. L
    <3> QED BY ONLY n \in 1 .. L, <1>11, <2>3, <2>6, <3>1
  <2>7. ASSUME NEW n \in 0 .. count[0] - 1 PROVE cx_utf8_bidx(str, n) \in 0 .. L - 1
    <3>1. n \in 0 .. L
      BY ONLY n \in 0 .. count[0] - 1, <1>1, <1>11, <2>4
    <3> QED BY ONLY n \in 0 .. count[0] - 1, <1>11, <2>3, <3>1
  <2>8. cols[0] >= 0 <=> count[0] >= 0 /\ cx_utf8_bidx(str, count[0]) = L
    <3>1. count[0] >= 0 => count[0] \in 0 .. L
      BY ONLY <1>1, <1>11, <2>4
    <3> QED BY ONLY <1>11, <2>3, <3>1
  <2>9. ASSUME NEW column \in Columns
        PROVE  from[<<0, column>>] \in {cx_utf8_bidx(str, n) : n \in 0 .. L}
    <3>1. PICK n \in 0 .. L : from[<<0, column>>] = index[n]
      BY ONLY column \in Columns, <1>11
    <3> QED BY ONLY n \in 0 .. L, <2>3, <3>1
  <2> QED BY ONLY <2>1, <2>2, <2>5, <2>6, <2>7, <2>8, <2>9 DEF DamageSeen, L
<1> HIDE DEF L, adv, size, width, tab
\* One step of the walk over the characters.
<1>12. ASSUME NEW n \in 0 .. L - 1
      PROVE  /\ at[n] \in Nat \cup {-1} /\ at[n + 1] \in Nat \cup {-1}
             /\ at[n] = -1 \/ at[n] >= L => at[n + 1] = at[n]
             /\ at[n] # -1 /\ at[n] < L =>
                   at[n] \in 0 .. L - 1 /\ at[n + 1] = IF adv(at[n]) = 0 THEN -1 ELSE at[n] + adv(at[n])
  <2>1. n \in 0 .. L /\ n + 1 \in 1 .. L /\ n + 1 \in 0 .. L /\ (n + 1) - 1 = n
    BY <1>1
  <2>2. at[n] \in Nat \cup {-1} /\ at[n + 1] \in Nat \cup {-1}
    BY <2>1
  <2>3. at[n + 1] = Turn(str, at[n])
    BY <1>2, <2>1
  <2> QED BY <1>1, <1>8, <2>2, <2>3
<1>13. \A n \in 0 .. L : index[n] \in -1 .. L
  <2> TAKE n \in 0 .. L
  <2>1. at[n] \in Nat \cup {-1}
    OBVIOUS
  <2> QED BY <1>1, <1>10, <2>1
<1>14. ASSUME NEW n \in 1 .. L, index[n] # -1 PROVE index[n - 1] < index[n] \/ index[n] = L
  <2>1. PICK k \in 0 .. L - 1 : k = n - 1 /\ n = k + 1
    BY <1>1
  <2>2. at[n] <= L /\ at[n] # -1 /\ index[n] = at[n] /\ at[n] \in Nat
    BY <1>1, <1>12, <1>14, <1>10, <2>1
  <2>3. CASE at[k] = -1 \/ at[k] >= L
    BY <1>1, <1>12, <1>10, <2>1, <2>2, <2>3
  <2>4. CASE ~(at[k] = -1 \/ at[k] >= L)
    <3>1. at[k] \in 0 .. L - 1 /\ at[k] < L
      BY <1>1, <1>12, <2>4
    <3>2. PICK d \in 0 .. 4 : d = adv(at[k])
      BY <1>7, <3>1
    <3>3. at[n] = IF d = 0 THEN -1 ELSE at[k] + d
      BY <1>12, <2>1, <2>4, <3>1, <3>2
    <3>4. index[k] = at[k]
      BY <1>1, <1>10, <3>1
    <3> QED BY <2>1, <2>2, <3>1, <3>2, <3>3, <3>4
  <2> QED BY <2>3, <2>4
\* Every turn reads at least one byte.
<1>15. \A n \in 0 .. L : at[n] = -1 \/ at[n] >= L \/ at[n] >= n
  <2> DEFINE S == {n \in 0 .. L : at[n] = -1 \/ at[n] >= L \/ at[n] >= n}
  <2>1. 0 \in S
    BY <1>1, <1>2
  <2>2. ASSUME NEW n \in 0 .. L - 1, n \in S PROVE n + 1 \in S
    <3>1. CASE at[n] = -1 \/ at[n] >= L
      BY <1>1, <1>12, <3>1
    <3>2. CASE ~(at[n] = -1 \/ at[n] >= L)
      <4>1. at[n] \in 0 .. L - 1 /\ at[n] >= n
        BY <1>1, <1>12, <2>2, <3>2
      <4>2. PICK d \in 0 .. 4 : d = adv(at[n])
        BY <1>7, <4>1
      <4>3. at[n + 1] = IF d = 0 THEN -1 ELSE at[n] + d
        BY <1>1, <1>12, <3>2, <4>1, <4>2
      <4> QED BY <1>1, <4>1, <4>2, <4>3
    <3> QED BY <3>1, <3>2
  <2>3. 0 .. L \subseteq S
    <3> HIDE DEF S
    <3> QED BY ONLY <1>1, <2>1, <2>2, UpTo
  <2> QED BY <2>3
\* What the first byte of a character says of the count.
<1>16. ASSUME NEW i \in 0 .. L - 1
       PROVE  \E d \in 0 .. 4 :
                 /\ d = adv(i) /\ size(i) = (IF i + d > L THEN 0 ELSE d)
                 /\ count[i] = (IF d = 0 \/ count[i + d] = -1 THEN -1 ELSE count[i + d] + 1)
                 /\ count[i + d] \in Nat \cup {-1} /\ i + d \in Nat
                 /\ count[i] # 0
  <2>1. PICK d \in 0 .. 4 : d = adv(i)
    BY <1>7
  <2>2. size(i) = IF i + d > L THEN 0 ELSE d
    BY <1>7, <2>1
  <2>3. count[i] = IF d = 0 \/ count[i + d] = -1 THEN -1 ELSE count[i + d] + 1
    BY <1>3, <2>1
  <2>4. i + d \in Nat
    BY <1>1
  <2>5. count[i + d] \in Nat \cup {-1}
    BY <2>4
  <2>6. count[i] # 0
    BY <2>3, <2>5
  <2> QED BY <2>1, <2>2, <2>3, <2>4, <2>5, <2>6
<1>17. ASSUME NEW n \in 0 .. L, count[0] >= n
       PROVE  /\ at[n] \in Nat /\ count[at[n]] = count[0] - n
              /\ cols[0] >= 0 <=> cols[at[n]] >= 0 /\ at[n] <= L
  <2> DEFINE Q(k) == /\ at[k] \in Nat /\ count[at[k]] = count[0] - k
                     /\ cols[0] >= 0 <=> cols[at[k]] >= 0 /\ at[k] <= L
             S == {k \in 0 .. L : count[0] >= k => Q(k)}
  <2>1. 0 \in S
    <3>1. count[0] \in Nat \cup {-1}
      OBVIOUS
    <3> QED BY <1>1, <1>2, <3>1
  <2>2. ASSUME NEW k \in 0 .. L - 1, k \in S PROVE k + 1 \in S
    <3> SUFFICES ASSUME count[0] >= k + 1 PROVE Q(k + 1)
      BY <1>1
    <3>1. count[0] \in Nat \cup {-1} /\ k \in Nat
      BY <1>1
    <3>2. Q(k)
      BY <2>2, <3>1
    <3>3. at[k] < L /\ count[at[k]] >= 1
      BY <1>1, <1>3, <3>1, <3>2
    <3>4. PICK i \in 0 .. L - 1 : i = at[k]
      BY <1>1, <3>2, <3>3
    <3>5. PICK d \in 0 .. 4 :
             /\ d = adv(i) /\ size(i) = (IF i + d > L THEN 0 ELSE d)
             /\ count[i] = (IF d = 0 \/ count[i + d] = -1 THEN -1 ELSE count[i + d] + 1)
             /\ count[i + d] \in Nat \cup {-1} /\ i + d \in Nat
      BY <1>16
    <3>6. d # 0 /\ count[i + d] = count[i] - 1
      BY <3>3, <3>4, <3>5
    <3>7. at[k + 1] = i + d
      BY <1>1, <1>12, <3>3, <3>4, <3>5, <3>6
    <3>8. count[at[k + 1]] = count[0] - (k + 1)
      BY <3>1, <3>2, <3>4, <3>6, <3>7
    <3>9. cols[i] >= 0 <=> cols[i + d] >= 0 /\ i + d <= L
      <4>1. cols[i] = IF size(i) = 0 \/ cols[i + size(i)] = -1 THEN -1
                      ELSE cols[i + size(i)] + width(i)
        BY <1>4
      <4>2. PICK w \in Nat : w = width(i)
        BY <1>6
      <4>3. cols[i + d] \in Nat \cup {-1}
        BY <3>5
      <4>4. CASE i + d > L
        BY <1>1, <3>5, <4>1, <4>4
      <4>5. CASE i + d <= L
        <5>1. size(i) = d
          BY <1>1, <3>5, <4>5
        <5>2. cols[i] = IF cols[i + d] = -1 THEN -1 ELSE cols[i + d] + w
          BY <3>6, <4>1, <4>2, <5>1
        <5> QED BY <4>3, <4>5, <5>2
      <4> QED BY <1>1, <3>5, <4>4, <4>5
    <3> QED BY <1>1, <3>2, <3>4, <3>5, <3>7, <3>8, <3>9
  <2>3. 0 .. L \subseteq S
    <3> HIDE DEF S
    <3> QED BY ONLY <1>1, <2>1, <2>2, UpTo
  <2> QED BY <1>17, <2>3
<1>18. count[0] <= L
  <2>1. L \in 0 .. L /\ count[0] \in Nat \cup {-1}
    BY <1>1
  <2>2. ASSUME count[0] > L PROVE FALSE
    <3>1. at[L] \in Nat /\ count[at[L]] = count[0] - L
      BY <1>1, <1>17, <2>1, <2>2
    <3>2. at[L] < L
      BY <1>1, <1>3, <2>1, <2>2, <3>1
    <3>3. at[L] = -1 \/ at[L] >= L \/ at[L] >= L
      BY <1>15, <2>1
    <3> QED BY ONLY <1>1, <3>1, <3>2, <3>3
  <2> QED BY ONLY <1>1, <2>1, <2>2
<1>19. ASSUME NEW n \in 0 .. count[0] - 1 PROVE index[n] \in 0 .. L - 1
  <2>1. count[0] \in Nat \cup {-1}
    OBVIOUS
  <2>2. n \in 0 .. L /\ count[0] >= n /\ count[0] - n >= 1
    BY <1>1, <1>18, <2>1
  <2>3. at[n] \in Nat /\ count[at[n]] >= 1
    BY <1>17, <2>2
  <2>4. at[n] < L
    BY <1>1, <1>3, <2>3
  <2> QED BY <1>1, <1>10, <2>2, <2>3, <2>4
<1>20. cols[0] >= 0 <=> count[0] >= 0 /\ index[count[0]] = L
  <2>1. CASE count[0] = -1
    <3> DEFINE S == {i \in Nat : count[i] = -1 => cols[i] = -1}
    <3>1. \A i \in Nat : i >= L => i \in S
      BY <1>3
    <3>2. ASSUME NEW i \in 0 .. L - 1, \A j \in Nat : j > i => j \in S PROVE i \in S
      <4>1. PICK d \in 0 .. 4 :
               /\ d = adv(i) /\ size(i) = (IF i + d > L THEN 0 ELSE d)
               /\ count[i] = (IF d = 0 \/ count[i + d] = -1 THEN -1 ELSE count[i + d] + 1)
               /\ count[i + d] \in Nat \cup {-1} /\ i + d \in Nat
        BY <1>16
      <4>2. cols[i] = IF size(i) = 0 \/ cols[i + size(i)] = -1 THEN -1
                      ELSE cols[i + size(i)] + width(i)
        BY <1>4
      <4>3. i \in Nat
        BY <1>1
      <4>4. CASE size(i) = 0
        BY <4>2, <4>3, <4>4
      <4>5. CASE size(i) # 0
        <5>1. size(i) = d /\ d # 0 /\ i + d > i
          BY <1>1, <4>1, <4>5
        <5>2. i + d \in S
          BY <3>2, <4>1, <5>1
        <5> QED BY <4>1, <4>2, <4>3, <5>1, <5>2
      <4> QED BY <4>4, <4>5
    <3>3. \A i \in Nat : i \in S
      <4> HIDE DEF S
      <4> QED BY ONLY <1>1, <3>1, <3>2, Backwards
    <3>4. cols[0] = -1
      BY <2>1, <3>3
    <3> QED BY <2>1, <3>4
  <2>2. CASE count[0] # -1
    <3>1. PICK c \in 0 .. L : c = count[0]
      <4>1. count[0] \in Nat \cup {-1}
        OBVIOUS
      <4> QED BY <1>1, <1>18, <2>2, <4>1
    <3>2. /\ at[c] \in Nat /\ count[at[c]] = 0
          /\ cols[0] >= 0 <=> cols[at[c]] >= 0 /\ at[c] <= L
      BY <1>1, <1>17, <3>1
    <3>3. at[c] >= L
      <4> SUFFICES ASSUME ~(at[c] >= L) PROVE FALSE
        OBVIOUS
      <4>1. at[c] \in 0 .. L - 1
        BY <1>1, <3>2
      <4>2. count[at[c]] # 0
        BY <1>16, <4>1
      <4> QED BY <3>2, <4>2
    <3>4. cols[at[c]] = 0
      BY <1>4, <3>2, <3>3
    <3>5. index[c] = L <=> at[c] <= L
      BY <1>1, <1>10, <3>2, <3>3
    <3> QED BY <1>1, <3>1, <3>2, <3>4, <3>5
  <2> QED BY <2>1, <2>2
<1>21. ASSUME NEW column \in Columns PROVE from[<<0, column>>] \in {index[n] : n \in 0 .. L}
  <2> DEFINE I == {index[n] : n \in 0 .. L}
             S == {i \in Nat : (\E n \in 0 .. L : at[n] = i) /\ i <= L => \A c \in Nat : from[<<i, c>>] \in I}
  <2>1. \A i \in Nat : i >= L => i \in S
    <3> SUFFICES ASSUME NEW i \in Nat, i = L, NEW n \in 0 .. L, at[n] = i, NEW c \in Nat
                 PROVE  from[<<i, c>>] \in I
      BY <1>1
    <3>1. from[<<i, c>>] = i
      BY <1>1, <1>5
    <3>2. index[n] = i
      BY <1>1, <1>10
    <3> QED BY <3>1, <3>2
  <2>2. ASSUME NEW i \in 0 .. L - 1, \A j \in Nat : j > i => j \in S PROVE i \in S
    <3>1. i \in Nat /\ i < L
      BY <1>1
    <3> SUFFICES ASSUME NEW n \in 0 .. L, at[n] = i, NEW c \in Nat PROVE from[<<i, c>>] \in I
      BY <3>1
    <3>2. index[n] = i
      BY <1>1, <1>10, <3>1
    <3>3. n \in 0 .. L - 1 /\ n + 1 \in 0 .. L
      BY <1>1, <1>15, <3>1
    <3>4. PICK d \in 0 .. 4 : d = adv(i) /\ size(i) = (IF i + d > L THEN 0 ELSE d) /\ (tab(i) => d = 1)
      BY <1>7
    <3>5. at[n + 1] = IF d = 0 THEN -1 ELSE i + d
      BY <1>12, <3>1, <3>3, <3>4
    <3>6. CASE size(i) = 0
      <4>1. d = 0 \/ i + d > L
        BY <1>1, <3>4, <3>6
      <4>2. index[n + 1] = -1
        BY <1>1, <1>10, <3>1, <3>3, <3>5, <4>1
      <4>3. ~tab(i)
        BY <1>1, <3>1, <3>4, <4>1
      <4>4. from[<<i, c>>] = -1
        BY <1>5, <3>6, <4>3
      <4> QED BY <3>3, <4>2, <4>4
    <3>7. CASE size(i) # 0
      <4>1. size(i) = d /\ d # 0 /\ i + d <= L /\ i + d > i /\ i + d \in Nat
        BY <1>1, <3>1, <3>4, <3>7
      <4>2. i + d \in S /\ at[n + 1] = i + d
        BY <2>2, <3>5, <4>1
      <4>3. \A e \in Nat : from[<<i + d, e>>] \in I
        BY <3>3, <4>1, <4>2
      <4>4. CASE tab(i)
        <5>1. PICK e \in Nat : from[<<i, c>>] = from[<<i + 1, e>>]
          BY <1>5, <4>4
        <5> QED BY <3>4, <4>3, <4>4, <5>1
      <4>5. CASE ~tab(i)
        <5>1. from[<<i, c>>] = IF c < width(i) THEN i ELSE from[<<i + d, c - width(i)>>]
          BY <1>5, <3>7, <4>1, <4>5
        <5>2. ~(c < width(i)) => c - width(i) \in Nat
          BY <1>6
        <5> HIDE DEF I
        <5>3. i \in I
          BY <3>2 DEF I
        <5> QED BY <4>3, <5>1, <5>2, <5>3
      <4> QED BY <4>4, <4>5
    <3> QED BY <3>6, <3>7
  <2>3. \A i \in Nat : i \in S
    <3> HIDE DEF S
    <3> QED BY ONLY <1>1, <2>1, <2>2, Backwards
  <2>4. 0 \in 0 .. L /\ at[0] = 0 /\ 0 <= L /\ column \in Nat
    BY <1>1, <1>2
  <2> QED BY <2>3, <2>4
<1> QED BY ONLY <1>11, <1>13, <1>14, <1>18, <1>19, <1>20, <1>21

-----------------------------------------------------------------------------
\* The text and its encoding.

\* The characters of the text t are at the byte indices off of s.
Spells(off, s, t) ==
    /\ off \in [0 .. Len(t) -> 0 .. Len(s)]
    /\ off[0] = 0 /\ off[Len(t)] = Len(s)
    /\ \A n \in 0 .. Len(t) - 1 :
          /\ off[n + 1] = off[n] + Len(Encoded(t[n + 1]))
          /\ \A j \in 1 .. Len(Encoded(t[n + 1])) : s[off[n] + j] = Encoded(t[n + 1])[j]

\* Typing a character adds it behind the others.
LEMMA SpellsTyped ==
    ASSUME NEW s \in Seq(Byte), NEW t, t \in Seq(Nat), NEW off, Spells(off, s, t),
           NEW cp \in Nat, cp < 272 * 4096
    PROVE  \E o : Spells(o, s \o Encoded(cp), Append(t, cp))
<1> DEFINE e == Encoded(cp)
           N == Len(t)
           s2 == s \o e
           t2 == Append(t, cp)
           o == [n \in 0 .. N + 1 |-> IF n = N + 1 THEN Len(s) + Len(e) ELSE off[n]]
<1>1. e \in Seq(Byte) /\ Len(e) \in 1 .. 4
  BY EncodedBytes, EncodedLength
<1> HIDE DEF e
<1>2. /\ N \in Nat /\ Len(t2) = N + 1 /\ Len(s) \in Nat /\ Len(s2) = Len(s) + Len(e)
      /\ t2[N + 1] = cp /\ \A n \in 1 .. N : t2[n] = t[n]
      /\ \A j \in 1 .. Len(s) : s2[j] = s[j]
      /\ \A j \in 1 .. Len(e) : s2[Len(s) + j] = e[j]
  <2>1. /\ N \in Nat /\ Len(t2) = N + 1
        /\ t2[N + 1] = cp /\ \A n \in 1 .. N : t2[n] = t[n]
    BY ONLY t \in Seq(Nat), cp \in Nat
  <2>2. /\ Len(s) \in Nat /\ Len(s2) = Len(s) + Len(e)
        /\ \A j \in 1 .. Len(s) : s2[j] = s[j]
    BY ONLY s \in Seq(Byte), <1>1
  <2>3. ASSUME NEW j \in 1 .. Len(e) PROVE s2[Len(s) + j] = e[j]
    BY ONLY s \in Seq(Byte), j \in 1 .. Len(e), <1>1
  <2> QED BY ONLY <2>1, <2>2, <2>3
<1>3. /\ off \in [0 .. N -> 0 .. Len(s)]
      /\ off[0] = 0 /\ off[N] = Len(s)
      /\ \A n \in 0 .. N - 1 :
            /\ off[n + 1] = off[n] + Len(Encoded(t[n + 1]))
            /\ \A j \in 1 .. Len(Encoded(t[n + 1])) : s[off[n] + j] = Encoded(t[n + 1])[j]
  BY DEF Spells
<1> HIDE DEF N, s2, t2
<1>4. \A n \in 0 .. N : o[n] = off[n] /\ off[n] \in 0 .. Len(s)
  BY <1>2, <1>3
<1>5. o[N + 1] = Len(s) + Len(e)
  BY <1>2
<1>6. o \in [0 .. N + 1 -> 0 .. Len(s2)]
  <2>1. ASSUME NEW n \in 0 .. N + 1 PROVE o[n] \in 0 .. Len(s2)
    <3>1. CASE n = N + 1
      BY <1>1, <1>2, <1>5, <3>1
    <3>2. CASE n # N + 1
      <4>1. n \in 0 .. N
        BY <1>2, <3>2
      <4>2. o[n] = off[n] /\ off[n] \in 0 .. Len(s)
        <5> HIDE DEF o
        <5> QED BY ONLY <1>4, <4>1
      <4> HIDE DEF o
      <4> QED BY ONLY <1>1, <1>2, <4>2
    <3> QED BY <3>1, <3>2
  <2> QED BY <2>1
<1> HIDE DEF o
<1>7. ASSUME NEW n \in 0 .. N
      PROVE  /\ o[n + 1] = o[n] + Len(Encoded(t2[n + 1]))
             /\ \A j \in 1 .. Len(Encoded(t2[n + 1])) : s2[o[n] + j] = Encoded(t2[n + 1])[j]
  <2>1. CASE n = N
    <3>1. o[n] = Len(s) /\ Encoded(t2[n + 1]) = e
      BY <1>2, <1>3, <1>4, <2>1 DEF e
    <3> QED BY <1>2, <1>5, <2>1, <3>1
  <2>2. CASE n # N
    <3>1. n \in 0 .. N - 1 /\ n + 1 \in 0 .. N /\ n + 1 \in 1 .. N
      BY <1>2, <2>2
    <3>2. PICK x : x = Encoded(t[n + 1])
      OBVIOUS
    <3>3. t[n + 1] \in Nat
      BY <3>1 DEF N
    <3>4. Encoded(t2[n + 1]) = x
      BY <1>2, <3>1, <3>2
    <3>5. o[n + 1] = off[n + 1] /\ o[n] = off[n] /\ off[n] \in Nat /\ off[n + 1] \in 0 .. Len(s)
      BY <1>2, <1>4, <3>1
    <3>6. off[n + 1] = off[n] + Len(x) /\ \A j \in 1 .. Len(x) : s[off[n] + j] = x[j]
      BY <1>3, <3>1, <3>2
    <3>7. ASSUME NEW j \in 1 .. Len(x) PROVE s2[off[n] + j] = x[j]
      <4>1. PICK l : l = Len(x)
        OBVIOUS
      <4>2. l \in Int
        BY <3>2, <4>1 DEF Encoded
      <4>3. off[n] + j \in 1 .. Len(s)
        BY ONLY j \in 1 .. Len(x), <1>2, <3>5, <3>6, <4>1, <4>2
      <4>4. s[off[n] + j] = x[j]
        BY <3>6
      <4>5. s2[off[n] + j] = s[off[n] + j]
        BY ONLY <1>2, <4>3
      <4> QED BY ONLY <4>4, <4>5
    <3> QED BY <3>4, <3>5, <3>6, <3>7
  <2> QED BY <2>1, <2>2
<1>8. o[0] = 0
  BY <1>2, <1>3, <1>4
<1>9. Spells(o, s2, t2)
  <2>1. \A n \in 0 .. Len(t2) - 1 : n \in 0 .. N
    BY <1>2
  <2> QED BY <1>2, <1>5, <1>6, <1>7, <1>8, <2>1 DEF Spells
<1> QED BY <1>9 DEF s2, t2, e

\* The string is made of bytes, the text of code points, and as long as nothing
\* is damaged the string is the encoding of the text.
TextInv ==
    /\ str \in Seq(Byte)
    /\ text \in Seq(CodePoints)
    /\ damage \in Nat
    /\ damage = 0 => \E off : Spells(off, str, text)

\* The empty text has an empty encoding.
LEMMA TextInit == Init => TextInv
<1> SUFFICES ASSUME Init PROVE TextInv
  OBVIOUS
<1>1. str = <<>> /\ text = <<>> /\ damage = 0
  BY DEF Init
<1> DEFINE off == [n \in 0 .. 0 |-> 0]
<1>2. Spells(off, str, text)
  BY <1>1 DEF Spells
<1> HIDE DEF off
<1> QED BY <1>1, <1>2 DEF TextInv

\* Characters are typed behind an undamaged text only.
LEMMA TextNext == TextInv /\ [Next]_vars => TextInv'
<1> SUFFICES ASSUME TextInv, [Next]_vars PROVE TextInv'
  OBVIOUS
<1> USE DEF TextInv
<1>1. CASE UNCHANGED <<text, str, damage>>
  BY <1>1
<1>2. ASSUME NEW cp \in CodePoints, type(cp) PROVE TextInv'
  <2>1. damage = 0 /\ text' = Append(text, cp) /\ str' = str \o Encoded(cp) /\ damage' = damage
    BY <1>2 DEF type
  <2>2. cp \in Nat /\ cp < 272 * 4096
    BY UnicodeAssumption DEF UnicodeAssumption
  <2>3. text \in Seq(Nat)
    <3>1. CodePoints \subseteq Nat
      BY UnicodeAssumption DEF UnicodeAssumption
    <3>2. Len(text) \in Nat /\ text \in [1 .. Len(text) -> CodePoints]
      OBVIOUS
    <3>3. text \in [1 .. Len(text) -> Nat]
      BY ONLY <3>1, <3>2
    <3> QED BY ONLY <3>2, <3>3, SeqDef
  <2>4. PICK off : Spells(off, str, text)
    BY <2>1
  <2>5. \E o : Spells(o, str', text')
    BY ONLY TextInv, <2>1, <2>2, <2>3, <2>4, SpellsTyped DEF TextInv
  <2>6. str' \in Seq(Byte) /\ text' \in Seq(CodePoints)
    BY <2>1, <2>2, EncodedBytes
  <2> QED BY <2>1, <2>5, <2>6
<1>3. CASE cut
  <2>1. str # <<>> /\ str' = Front(str) /\ damage' = damage + 1 /\ text' = text
    BY <1>3 DEF cut
  <2>2. Front(str) \in Seq(Byte)
    BY <2>1 DEF Front
  <2> QED BY <2>1, <2>2
<1>4. ASSUME NEW b \in Stray, stray(b) PROVE TextInv'
  <2>1. str' = Append(str, b) /\ damage' = damage + 1 /\ text' = text
    BY <1>4 DEF stray
  <2>2. b \in Byte
    BY UnicodeAssumption DEF UnicodeAssumption
  <2> QED BY <2>1, <2>2
<1>5. CASE \E f \in {"double", "zero"}, line \in Lines : add_line(f, line)
  BY <1>1, <1>5 DEF add_line
<1>6. CASE build
  BY <1>1, <1>6 DEF build
<1>7. CASE UNCHANGED vars
  BY <1>1, <1>7 DEF vars
<1> QED BY <1>2, <1>3, <1>4, <1>5, <1>6, <1>7 DEF Next

\* The string and the text belong together.
LEMMA TextInvariant == Spec => []TextInv
  BY TextInit, TextNext, PTL DEF Spec

\* DamageSeen holds for all strings of bytes: the loops of cx_utf8_clen,
\* cx_utf8_bidx, cx_utf8_cols and cx_utf8_colidx stop at the same characters.
THEOREM DamageSeenHolds == Spec => []DamageSeen
<1>1. TextInv => DamageSeen
  <2>1. Columns \subseteq Nat /\ TAB_SIZE \in Nat \ {0}
    BY UnicodeAssumption DEF UnicodeAssumption
  <2> QED BY <2>1, DamageSeenOf DEF TextInv
<1> QED BY <1>1, TextInvariant, PTL

-----------------------------------------------------------------------------
\* Well-formed texts.

\* cx_cp_width is the width the files give.
LEMMA WidthIs ==
    ASSUME TableInv, table # None, Fits(table.double), Fits(table.zero), NEW cp \in Nat
    PROVE  cx_cp_width(cp) = Width(cp)
<1>1. file.double \in Seq(Lines) /\ file.zero \in Seq(Lines)
  BY DEF TableInv
<1>2. table.double = codegen(file.double, Radix) /\ table.zero = codegen(file.zero, Radix)
  BY DEF TableInv
<1>3. table_lookup(table.double, cp) <=> cp \in generate_flat_table(file.double)
  BY ONLY cp \in Nat, Fits(table.double), <1>1, <1>2, LookupExact
<1>4. table_lookup(table.zero, cp) <=> cp \in generate_flat_table(file.zero)
  BY ONLY cp \in Nat, Fits(table.zero), <1>1, <1>2, LookupExact
<1> QED BY <1>3, <1>4 DEF cx_cp_width, Width

\* The loops find the characters of a text where they are.
LEMMA SpelledChars ==
    ASSUME NEW s \in Seq(Byte), NEW t, t \in Seq(Nat), \A k \in 1 .. Len(t) : t[k] < 272 * 4096,
           NEW off, Spells(off, s, t), NEW n \in 0 .. Len(t) - 1
    PROVE  /\ off[n] \in 0 .. Len(s) - 1 /\ off[n + 1] \in 0 .. Len(s)
           /\ utf8_len_map(s[off[n] + 1]) \in 1 .. 4
           /\ off[n + 1] = off[n] + utf8_len_map(s[off[n] + 1])
           /\ CharSize(s, off[n]) = utf8_len_map(s[off[n] + 1])
           /\ CharAt(s, off[n]) = t[n + 1]
           /\ s[off[n] + 1] = Encoded(t[n + 1])[1]
<1> DEFINE L == Len(s)
<1>1. PICK cp \in Nat : cp = t[n + 1] /\ cp < 272 * 4096
  <2>1. n + 1 \in 1 .. Len(t)
    OBVIOUS
  <2> QED BY <2>1
<1>2. PICK e : e = Encoded(cp)
  OBVIOUS
<1>3. e \in Seq(Byte) /\ Len(e) \in 1 .. 4 /\ Len(e) = utf8_len_map(e[1])
  BY <1>1, <1>2, EncodedBytes, EncodedLength
<1>4. off[n] \in 0 .. L /\ off[n + 1] \in 0 .. L /\ L \in Nat
  <2>1. n \in 0 .. Len(t) /\ n + 1 \in 0 .. Len(t) /\ L \in Nat
    OBVIOUS
  <2>2. off \in [0 .. Len(t) -> 0 .. L]
    BY DEF Spells
  <2> HIDE DEF L
  <2> QED BY ONLY <2>1, <2>2
<1>5. off[n + 1] = off[n] + Len(e) /\ \A j \in 1 .. Len(e) : s[off[n] + j] = e[j]
  BY <1>1, <1>2 DEF Spells
<1>6. PICK i : i = off[n]
  OBVIOUS
<1>7. PICK c \in 1 .. 4 : c = Len(e)
  BY <1>3
<1> HIDE DEF L
<1>8. i \in 0 .. L - 1 /\ i + c <= L
  BY ONLY c \in 1 .. 4, <1>4, <1>5, <1>6, <1>7
<1>9. s[i + 1] = e[1]
  BY <1>5, <1>6, <1>7
<1>10. utf8_len_map(s[i + 1]) = c
  BY <1>3, <1>7, <1>9
<1>11. CharSize(s, i) = c
  <2>1. CharSize(s, i) = IF i + c > L THEN 0 ELSE c
    BY <1>8, <1>10, CharSizeIs DEF L
  <2> QED BY <1>8, <2>1, <1>4
<1>12. CharAt(s, i) = cp
  <2>1. CharAt(s, i) = cx_utf8_cp(Rest(s, i), c)
    BY <1>11 DEF CharAt
  <2>2. ASSUME NEW j \in 1 .. c PROVE Rest(s, i)[j] = e[j]
    <3>1. s[i + j] = e[j]
      BY <1>5, <1>6, <1>7
    <3>2. Rest(s, i)[j] = s[i + j]
      BY <1>4, <1>8 DEF Rest, L
    <3> QED BY <3>1, <3>2
  <2> QED BY <1>1, <1>2, <1>7, <2>1, <2>2, DecodesPrefix
<1> QED BY <1>1, <1>2, <1>4, <1>5, <1>6, <1>7, <1>8, <1>9, <1>10, <1>11, <1>12 DEF L

\* A sum that is taken from the end is the sum.
LEMMA SumBackwards ==
    ASSUME NEW m \in Nat, NEW w, \A k \in 1 .. m : w[k] \in Nat, NEW g, g[m] = 0,
           \A n \in 0 .. m - 1 : g[n] = IF g[n + 1] = -1 THEN -1 ELSE g[n + 1] + w[n + 1]
    PROVE  g[0] = SumText(w, m)
<1> DEFINE W(k) == SumText(w, k)
           S == {k \in 0 .. m : g[m - k] \in Nat /\ g[m - k] + W(m - k) = W(m)}
<1>1. W(0) = 0 /\ (\A k \in 0 .. m : W(k) \in Nat) /\ \A k \in 1 .. m : W(k) = W(k - 1) + w[k]
  BY SumTextIs
<1> HIDE DEF W
<1>2. 0 \in S
  <2>1. m - 0 = m /\ m \in 0 .. m
    OBVIOUS
  <2> QED BY <1>1, <2>1
<1>3. ASSUME NEW k \in 0 .. m - 1, k \in S PROVE k + 1 \in S
  <2>1. PICK n \in 0 .. m - 1 : n = m - (k + 1) /\ n + 1 = m - k
    OBVIOUS
  <2>2. g[n + 1] \in Nat /\ g[n + 1] + W(n + 1) = W(m)
    BY <1>3, <2>1
  <2>3. n + 1 \in 1 .. m /\ n \in 0 .. m /\ n + 1 \in 0 .. m /\ (n + 1) - 1 = n
    OBVIOUS
  <2>4. w[n + 1] \in Nat /\ W(n + 1) = W(n) + w[n + 1] /\ W(n) \in Nat /\ W(n + 1) \in Nat
    BY <1>1, <2>3
  <2>5. g[n] = g[n + 1] + w[n + 1]
    BY <2>2
  <2>6. g[n] \in Nat /\ g[n] + W(n) = W(m)
    BY ONLY <2>2, <2>4, <2>5
  <2> QED BY <2>1, <2>6
<1>4. m \in S
  <2> HIDE DEF S
  <2>1. 0 .. m \subseteq S
    BY <1>2, <1>3, UpTo
  <2> QED BY <2>1
<1>5. m - m = 0
  OBVIOUS
<1>6. g[0] \in Nat /\ g[0] + W(0) = W(m)
  BY <1>4, <1>5
<1>7. g[0] = W(m)
  BY <1>1, <1>6
<1> QED BY <1>7 DEF W

\* The steps of the loops on the encoding of a text.
LEMMA TextMeasuredOf ==
    ASSUME TextInv, TableInv, damage = 0
    PROVE  TextMeasured
<1> DEFINE L == Len(str)
           N == Len(text)
           lead(i) == str[i + 1]
           adv(i) == utf8_len_map(str[i + 1])
<1>1. str \in Seq(Byte) /\ L \in Nat /\ N \in Nat
  BY DEF TextInv
<1>2. \A k \in 1 .. N : text[k] \in Nat /\ text[k] < 272 * 4096
  <2>1. text \in Seq(CodePoints)
    BY DEF TextInv
  <2>2. \A k \in 1 .. N : text[k] \in CodePoints
    BY <2>1
  <2> QED BY <2>2, UnicodeAssumption DEF UnicodeAssumption
<1>3. text \in Seq(Nat)
  <2>1. N \in Nat /\ text = [k \in 1 .. N |-> text[k]]
    BY DEF TextInv
  <2>2. text \in [1 .. N -> Nat]
    BY ONLY <1>2, <2>1
  <2> QED BY ONLY <2>1, <2>2, SeqDef
<1>4. PICK off : Spells(off, str, text)
  BY DEF TextInv
<1>5. off[0] = 0 /\ off[N] = L /\ \A n \in 0 .. N : off[n] \in 0 .. L
  BY <1>4 DEF Spells
<1>6. \A n \in 0 .. N - 1 :
         /\ off[n] \in 0 .. L - 1 /\ adv(off[n]) \in 1 .. 4
         /\ off[n + 1] = off[n] + adv(off[n])
         /\ CharSize(str, off[n]) = adv(off[n])
         /\ CharAt(str, off[n]) = text[n + 1]
         /\ lead(off[n]) = Encoded(text[n + 1])[1]
  BY ONLY <1>1, <1>2, <1>3, <1>4, SpelledChars
<1>7. \A n \in 0 .. N - 1 : off[n + 1] = off[n] + Len(Encoded(text[n + 1]))
  BY <1>4 DEF Spells
<1>8. \A n \in 0 .. N - 1 : n + 1 \in 1 .. N /\ n \in 0 .. N /\ n + 1 \in 0 .. N /\ (n + 1) - 1 = n
  BY <1>1
<1> DEFINE Weighs(weight, w) == \A k \in 1 .. N : w[k] = weight[lead(off[k - 1])]
\* The loop of cx_utf8_clen and cx_utf8_16len.
<1>9. ASSUME NEW weight \in [Byte -> Nat], NEW w, Weighs(weight, w)
      PROVE  SumLeads(str, weight) = SumText(w, N)
  <2>1. PICK from \in [Nat -> Nat \cup {-1}] :
              /\ SumLeads(str, weight) = from[0]
              /\ \A i \in Nat : i >= L => from[i] = 0
              /\ \A i \in 0 .. L - 1 : from[i] = IF adv(i) = 0 \/ from[i + adv(i)] = -1 THEN -1
                                                 ELSE from[i + adv(i)] + weight[lead(i)]
    BY <1>1, SumLeadsIs
  <2> DEFINE g == [n \in 0 .. N |-> from[off[n]]]
  <2>2. \A k \in 1 .. N : w[k] \in Nat
    <3> TAKE k \in 1 .. N
    <3>1. k - 1 \in 0 .. N - 1
      BY <1>1
    <3>2. off[k - 1] \in 0 .. L - 1
      BY <1>6, <3>1
    <3>3. lead(off[k - 1]) \in Byte
      BY <1>1, <3>2
    <3> HIDE DEF lead
    <3> QED BY <1>9, <3>3
  <2>3. g[N] = 0 /\ g[0] = from[0]
    BY <1>1, <1>5, <2>1
  <2>4. ASSUME NEW n \in 0 .. N - 1 PROVE g[n] = IF g[n + 1] = -1 THEN -1 ELSE g[n + 1] + w[n + 1]
    <3>1. g[n] = from[off[n]] /\ g[n + 1] = from[off[n + 1]]
      BY <1>8
    <3>2. PICK i \in 0 .. L - 1 : i = off[n]
      BY <1>6
    <3>3. adv(i) # 0 /\ off[n + 1] = i + adv(i)
      BY <1>6, <3>2
    <3>4. w[n + 1] = weight[lead(i)]
      BY <1>8, <1>9, <3>2
    <3>5. from[i] = IF adv(i) = 0 \/ from[i + adv(i)] = -1 THEN -1 ELSE from[i + adv(i)] + weight[lead(i)]
      BY <2>1
    <3> HIDE DEF g, adv, lead
    <3> QED BY ONLY <3>1, <3>2, <3>3, <3>4, <3>5
  <2> HIDE DEF g, N
  <2>5. g[0] = SumText(w, N)
    BY ONLY <1>1, <2>2, <2>3, <2>4, SumBackwards
  <2> QED BY ONLY <2>1, <2>3, <2>5
<1>10. cx_utf8_clen(str) = N
  <2> DEFINE one == [b \in Byte |-> 1]
             w == [k \in 1 .. N |-> 1]
  <2>1. one \in [Byte -> Nat] /\ \A b \in Byte : one[b] = 1
    OBVIOUS
  <2>2. \A k \in 1 .. N : w[k] = 1 /\ w[k] \in Nat
    OBVIOUS
  <2>3. cx_utf8_clen(str) = SumLeads(str, one)
    BY DEF cx_utf8_clen
  <2> HIDE DEF one, w
  <2>4. Weighs(one, w)
    <3> TAKE k \in 1 .. N
    <3>1. k - 1 \in 0 .. N - 1
      BY <1>1
    <3>2. off[k - 1] \in 0 .. L - 1
      BY <1>6, <3>1
    <3>3. lead(off[k - 1]) \in Byte
      BY <1>1, <3>2
    <3> QED BY <2>1, <2>2, <3>3
  <2>5. SumLeads(str, one) = SumText(w, N)
    BY <1>9, <2>1, <2>4
  <2> DEFINE S == {n \in 0 .. N : SumText(w, n) = n}
  <2>6. /\ SumText(w, 0) = 0
        /\ \A k \in 1 .. N : SumText(w, k) = SumText(w, k - 1) + w[k]
    BY ONLY <1>1, <2>2, SumTextIs
  <2>7. 0 \in S
    BY <1>1, <2>6
  <2>8. ASSUME NEW n \in 0 .. N - 1, n \in S PROVE n + 1 \in S
    <3>1. SumText(w, n + 1) = SumText(w, n) + w[n + 1] /\ w[n + 1] = 1
      BY <1>8, <2>2, <2>6
    <3> QED BY <1>8, <2>8, <3>1
  <2>9. 0 .. N \subseteq S
    <3> HIDE DEF S, N
    <3> QED BY ONLY <1>1, <2>7, <2>8, UpTo
  <2>10. N \in 0 .. N
    BY <1>1
  <2> QED BY <2>3, <2>5, <2>9, <2>10
<1>11. cx_utf8_16len(str) = SumText(Units, N)
  <2> DEFINE weight == [b \in Byte |-> utf16_len_map(b)]
  <2>1. weight \in [Byte -> Nat]
    BY LenMap
  <2>2. \A b \in Byte : weight[b] = utf16_len_map(b)
    OBVIOUS
  <2>3. cx_utf8_16len(str) = SumLeads(str, weight)
    BY DEF cx_utf8_16len
  <2> HIDE DEF weight
  <2>4. Weighs(weight, Units)
    <3> TAKE k \in 1 .. N
    <3>1. PICK n \in 0 .. N - 1 : n = k - 1 /\ k = n + 1
      BY <1>1
    <3>2. off[n] \in 0 .. L - 1 /\ lead(off[n]) = Encoded(text[k])[1]
      BY <1>6, <3>1
    <3>3. lead(off[n]) \in Byte
      BY <1>1, <3>2
    <3>4. utf16_len_map(Encoded(text[k])[1]) = IF text[k] < 2048 THEN 1 ELSE 2
      BY <1>2, EncodedFirst
    <3>5. Units[k] = IF text[k] < 2048 THEN 1 ELSE 2
      BY <1>3 DEF Units
    <3> HIDE DEF lead
    <3> QED BY <2>2, <3>1, <3>2, <3>3, <3>4, <3>5
  <2> QED BY <1>9, <2>1, <2>3, <2>4
\* The loop of cx_utf8_bidx.
<1>12. \A n \in 0 .. N : cx_utf8_bidx(str, n) = off[n]
  <2>1. PICK at \in [0 .. N -> Nat \cup {-1}] :
           /\ at[0] = 0
           /\ \A k \in 1 .. N : at[k] = Turn(str, at[k - 1])
           /\ \A k \in 0 .. N : SkipChars(str, k) = at[k]
    BY <1>1, SkipCharsIs
  <2> DEFINE S == {n \in 0 .. N : at[n] = off[n]}
  <2>2. 0 \in S
    BY <1>1, <1>5, <2>1
  <2>3. ASSUME NEW n \in 0 .. N - 1, n \in S PROVE n + 1 \in S
    <3>1. at[n + 1] = Turn(str, off[n])
      BY <1>8, <2>1, <2>3
    <3>2. PICK i \in 0 .. L - 1 : i = off[n]
      BY <1>6
    <3>3. PICK d \in 1 .. 4 : d = adv(i)
      BY <1>6, <3>2
    <3>4. off[n + 1] = i + d
      BY <1>6, <3>2, <3>3
    <3>5. Turn(str, i) = i + d
      BY <1>1, <3>3 DEF Turn
    <3> QED BY <1>8, <3>1, <3>2, <3>4, <3>5
  <2>4. 0 .. N \subseteq S
    <3> HIDE DEF S, N
    <3> QED BY ONLY <1>1, <2>2, <2>3, UpTo
  <2>5. ASSUME NEW n \in 0 .. N PROVE cx_utf8_bidx(str, n) = off[n]
    <3>1. SkipChars(str, n) = off[n]
      BY <2>1, <2>4
    <3>2. ~(off[n] > L)
      BY <1>1, <1>5
    <3> QED BY <3>1, <3>2 DEF cx_utf8_bidx
  <2> QED BY <2>5
<1>13. \A n \in 0 .. N : off[n] = SumText(Bytes, n)
  <2>1. \A k \in 1 .. N : Bytes[k] = Len(Encoded(text[k])) /\ Bytes[k] \in Nat
    <3> TAKE k \in 1 .. N
    <3>1. Bytes[k] = Len(Encoded(text[k]))
      BY <1>3 DEF Bytes
    <3>2. Len(Encoded(text[k])) \in 1 .. 4
      BY <1>2, EncodedLength
    <3> QED BY <3>1, <3>2
  <2>2. /\ SumText(Bytes, 0) = 0
        /\ \A k \in 1 .. N : SumText(Bytes, k) = SumText(Bytes, k - 1) + Bytes[k]
    BY ONLY <1>1, <2>1, SumTextIs
  <2> DEFINE S == {n \in 0 .. N : off[n] = SumText(Bytes, n)}
  <2>3. 0 \in S
    BY <1>1, <1>5, <2>2
  <2>4. ASSUME NEW n \in 0 .. N - 1, n \in S PROVE n + 1 \in S
    <3>1. SumText(Bytes, n + 1) = SumText(Bytes, n) + Bytes[n + 1]
      BY <1>8, <2>2
    <3>2. off[n + 1] = off[n] + Bytes[n + 1]
      BY <1>7, <1>8, <2>1
    <3> QED BY <1>8, <2>4, <3>1, <3>2
  <2>5. 0 .. N \subseteq S
    <3> HIDE DEF S, N
    <3> QED BY ONLY <1>1, <2>3, <2>4, UpTo
  <2> QED BY <2>5
\* The columns.
<1>14. ASSUME table # None, Fits(table.double), Fits(table.zero)
       PROVE  /\ \A k \in 1 .. N : Widths[k] \in Nat
              /\ \A n \in 0 .. N - 1 : cx_cp_width(CharAt(str, off[n])) = Widths[n + 1]
  <2>1. \A k \in 1 .. N : Widths[k] = Width(text[k])
    BY <1>3 DEF Widths
  <2>2. \A k \in 1 .. N : Width(text[k]) \in Nat
    BY DEF Width
  <2>3. \A k \in 1 .. N : cx_cp_width(text[k]) = Width(text[k])
    BY ONLY TableInv, <1>2, <1>14, WidthIs
  <2> QED BY <1>6, <1>8, <2>1, <2>2, <2>3
<1>15. ASSUME table # None, Fits(table.double), Fits(table.zero)
       PROVE  cx_utf8_cols(str) = SumText(Widths, N)
  <2>1. PICK from \in [Nat -> Nat \cup {-1}] :
           /\ cx_utf8_cols(str) = from[0]
           /\ \A i \in Nat : i >= L => from[i] = 0
           /\ \A i \in 0 .. L - 1 :
                 from[i] = IF CharSize(str, i) = 0 \/ from[i + CharSize(str, i)] = -1 THEN -1
                           ELSE from[i + CharSize(str, i)] + cx_cp_width(CharAt(str, i))
    BY <1>1, ColsIs
  <2> DEFINE g == [n \in 0 .. N |-> from[off[n]]]
  <2>2. g[N] = 0 /\ g[0] = from[0]
    BY <1>1, <1>5, <2>1
  <2>3. ASSUME NEW n \in 0 .. N - 1
        PROVE  g[n] = IF g[n + 1] = -1 THEN -1 ELSE g[n + 1] + Widths[n + 1]
    <3>1. g[n] = from[off[n]] /\ g[n + 1] = from[off[n + 1]]
      BY <1>8
    <3>2. PICK i \in 0 .. L - 1 : i = off[n]
      BY <1>6
    <3>3. PICK d \in 1 .. 4 : d = CharSize(str, i)
      BY <1>6, <3>2
    <3>4. off[n + 1] = i + d
      BY <1>6, <3>2, <3>3
    <3>5. Widths[n + 1] = cx_cp_width(CharAt(str, i))
      BY <1>14, <1>15, <3>2
    <3>6. from[i] = IF d = 0 \/ from[i + d] = -1 THEN -1
                    ELSE from[i + d] + cx_cp_width(CharAt(str, i))
      BY <2>1, <3>3
    <3>7. d # 0
      OBVIOUS
    <3> HIDE DEF g
    <3> QED BY ONLY <3>1, <3>2, <3>4, <3>5, <3>6, <3>7
  <2>4. \A k \in 1 .. N : Widths[k] \in Nat
    BY <1>14, <1>15
  <2> HIDE DEF g, N
  <2>5. g[0] = SumText(Widths, N)
    BY ONLY <1>1, <2>2, <2>3, <2>4, SumBackwards
  <2> QED BY ONLY <2>1, <2>2, <2>5
<1>16. ASSUME table # None, Fits(table.double), Fits(table.zero), 9 \notin Range(text),
              NEW column \in Columns
       PROVE  LET beyond == {n \in 0 .. N - 1 : SumText(Widths, n + 1) > column}
                  n      == IF beyond = {} THEN N ELSE Min(beyond)
              IN  n \in 0 .. N /\ cx_utf8_colidx(str, column, TAB_SIZE) = off[n]
  <2> DEFINE W(n) == SumText(Widths, n)
             beyond == {n \in 0 .. N - 1 : SumText(Widths, n + 1) > column}
             m == IF beyond = {} THEN N ELSE Min(beyond)
  <2>0. column \in Nat /\ TAB_SIZE \in Nat \ {0}
    BY UnicodeAssumption DEF UnicodeAssumption
  <2>1. PICK from :
           /\ \A col : cx_utf8_colidx(str, col, TAB_SIZE) = from[<<0, col>>]
           /\ \A i \in Nat, c \in Nat : i >= L => from[<<i, c>>] = i
           /\ \A i \in 0 .. L - 1, c \in Nat :
                 IF lead(i) = 9 THEN \E d \in Nat : from[<<i, c>>] = from[<<i + 1, d>>]
                 ELSE from[<<i, c>>] = IF CharSize(str, i) = 0 THEN -1
                                       ELSE IF c < cx_cp_width(CharAt(str, i)) THEN i
                                       ELSE from[<<i + CharSize(str, i), c - cx_cp_width(CharAt(str, i))>>]
    BY <1>1, <2>0, ColidxIs
  <2>2. \A k \in 1 .. N : Widths[k] \in Nat
    BY <1>14, <1>16
  <2>3. W(0) = 0 /\ (\A k \in 0 .. N : W(k) \in Nat) /\ \A k \in 1 .. N : W(k) = W(k - 1) + Widths[k]
    BY ONLY <1>1, <2>2, SumTextIs
  <2>4. /\ m \in 0 .. N
        /\ \A n \in 0 .. N - 1 : n < m => W(n + 1) <= column
        /\ m # N => m \in 0 .. N - 1 /\ W(m + 1) > column
    <3>1. beyond \in SUBSET Nat /\ beyond \subseteq 0 .. N - 1
      BY <1>1
    <3>2. ASSUME NEW n \in 0 .. N - 1, n \notin beyond PROVE W(n + 1) <= column
      <4>1. W(n + 1) \in Nat
        BY <1>8, <2>3
      <4>2. ~(W(n + 1) > column)
        BY <3>2
      <4> HIDE DEF W
      <4> QED BY <2>0, <4>1, <4>2
    <3>3. \A n \in beyond : W(n + 1) > column
      OBVIOUS
    <3>4. CASE beyond = {}
      <4>1. m = N
        BY <3>4
      <4> HIDE DEF beyond, W
      <4> QED BY <1>1, <3>2, <3>4, <4>1
    <3>5. CASE beyond # {}
      <4>1. PICK x : x = Min(beyond)
        OBVIOUS
      <4>2. x \in beyond /\ \A y \in beyond : x <= y
        <5> HIDE DEF beyond
        <5> QED BY ONLY <3>1, <3>5, <4>1, LeastIn
      <4>3. m = x
        BY <3>5, <4>1
      <4>4. x \in 0 .. N - 1
        BY <3>1, <4>2
      <4>5. ASSUME NEW n \in 0 .. N - 1, n < x PROVE n \notin beyond
        <5> HIDE DEF beyond
        <5>1. ~(x <= n)
          BY <1>1, <4>4, <4>5
        <5> QED BY <4>2, <5>1
      <4> HIDE DEF beyond, W, m
      <4>6. \A n \in 0 .. N - 1 : n < x => W(n + 1) <= column
        BY ONLY <3>2, <4>5
      <4>7. W(x + 1) > column
        BY ONLY <3>3, <4>2
      <4>8. x \in 0 .. N
        BY <1>1, <4>4
      <4> QED BY ONLY <4>3, <4>4, <4>6, <4>7, <4>8
    <3> QED BY <3>4, <3>5
  <2> HIDE DEF W, m, beyond
  <2>5. ASSUME NEW n \in 0 .. N - 1, NEW c \in Nat
        PROVE  from[<<off[n], c>>] = IF c < Widths[n + 1] THEN off[n]
                                     ELSE from[<<off[n + 1], c - Widths[n + 1]>>]
    <3>1. PICK i \in 0 .. L - 1 : i = off[n]
      BY <1>6
    <3>2. PICK d \in 1 .. 4 : d = CharSize(str, i)
      BY <1>6, <3>1
    <3>3. off[n + 1] = i + d
      BY <1>6, <3>1, <3>2
    <3>4. Widths[n + 1] = cx_cp_width(CharAt(str, i))
      BY <1>14, <1>16, <3>1
    <3>5. lead(i) # 9
      <4>1. n + 1 \in DOMAIN text
        BY <1>3, <1>8
      <4>2. text[n + 1] # 9
        BY <1>16, <4>1 DEF Range
      <4>3. lead(i) = Encoded(text[n + 1])[1]
        BY <1>6, <3>1
      <4>4. text[n + 1] \in Nat /\ text[n + 1] < 272 * 4096
        BY <1>2, <1>8
      <4> HIDE DEF lead
      <4> QED BY ONLY <4>2, <4>3, <4>4, EncodedFirst
    <3>6. from[<<i, c>>] = IF d = 0 THEN -1 ELSE IF c < cx_cp_width(CharAt(str, i)) THEN i
                           ELSE from[<<i + d, c - cx_cp_width(CharAt(str, i))>>]
      BY <2>1, <3>2, <3>5
    <3>7. d # 0
      OBVIOUS
    <3> QED BY ONLY <3>1, <3>3, <3>4, <3>6, <3>7
  <2>6. W(m) <= column /\ from[<<0, column>>] = from[<<off[m], column - W(m)>>]
    <3> DEFINE S == {n \in 0 .. N : n <= m =>
                        W(n) <= column /\ from[<<0, column>>] = from[<<off[n], column - W(n)>>]}
    <3>1. 0 \in S
      <4>1. column - W(0) = column
        BY <2>0, <2>3
      <4> QED BY <1>1, <1>5, <2>0, <2>3, <4>1
    <3>2. ASSUME NEW n \in 0 .. N - 1, n \in S PROVE n + 1 \in S
      <4> SUFFICES ASSUME n + 1 <= m
                   PROVE  /\ W(n + 1) <= column
                          /\ from[<<0, column>>] = from[<<off[n + 1], column - W(n + 1)>>]
        BY <1>8
      <4>1. n < m /\ n <= m
        BY <1>1, <2>4
      <4>2. W(n) <= column /\ from[<<0, column>>] = from[<<off[n], column - W(n)>>]
        BY <3>2, <4>1
      <4>3. W(n + 1) <= column
        BY <2>4, <4>1
      <4>4. PICK a \in Nat, x \in Nat : a = W(n) /\ x = Widths[n + 1] /\ W(n + 1) = a + x
        <5>1. n + 1 \in 1 .. N /\ n \in 0 .. N /\ (n + 1) - 1 = n
          BY ONLY n \in 0 .. N - 1, <1>8
        <5> QED BY ONLY <2>2, <2>3, <5>1
      <4>5. column - a \in Nat /\ ~(column - a < x) /\ (column - a) - x = column - (a + x)
        BY ONLY a \in Nat, x \in Nat, <2>0, <4>2, <4>3, <4>4
      <4>6. from[<<off[n], column - a>>] = from[<<off[n + 1], (column - a) - x>>]
        BY <2>5, <4>4, <4>5
      <4> QED BY ONLY <4>2, <4>3, <4>4, <4>5, <4>6
    <3>3. 0 .. N \subseteq S
      <4> HIDE DEF S, N
      <4> QED BY ONLY <1>1, <3>1, <3>2, UpTo
    <3>4. m \in S /\ m <= m
      BY <1>1, <2>4, <3>3
    <3> QED BY <3>4
  <2>7. from[<<off[m], column - W(m)>>] = off[m]
    <3>1. W(m) \in Nat /\ column - W(m) \in Nat
      BY <2>0, <2>3, <2>4, <2>6
    <3>2. CASE m = N
      <4>1. off[m] = L /\ L >= L
        BY <1>1, <1>5, <3>2
      <4> QED BY <1>1, <2>1, <3>1, <4>1
    <3>3. CASE m # N
      <4>1. m \in 0 .. N - 1 /\ W(m + 1) > column
        BY <2>4, <3>3
      <4>2. PICK a \in Nat, x \in Nat : a = W(m) /\ x = Widths[m + 1] /\ W(m + 1) = a + x
        BY <1>8, <2>2, <2>3, <4>1
      <4>3. column - a < x
        BY ONLY a \in Nat, x \in Nat, <2>0, <4>1, <4>2
      <4> QED BY <2>5, <3>1, <4>1, <4>2, <4>3
    <3> QED BY <3>2, <3>3
  <2>8. cx_utf8_colidx(str, column, TAB_SIZE) = off[m]
    BY <2>1, <2>6, <2>7
  <2> QED BY ONLY <2>4, <2>8 DEF m, beyond
<1>17. ASSUME NEW n \in 0 .. N
       PROVE  /\ cx_utf8_bidx(str, n) = SumText(Bytes, n)
              /\ n < N => CharAt(str, cx_utf8_bidx(str, n)) = text[n + 1]
  <2>1. cx_utf8_bidx(str, n) = off[n] /\ off[n] = SumText(Bytes, n)
    BY <1>12, <1>13
  <2>2. n < N => n \in 0 .. N - 1
    BY <1>1
  <2> QED BY ONLY <1>6, <2>1, <2>2
<1>18. ASSUME table # None, Fits(table.double), Fits(table.zero), 9 \notin Range(text),
              NEW column \in Columns
       PROVE  LET beyond == {n \in 0 .. N - 1 : SumText(Widths, n + 1) > column}
                  n      == IF beyond = {} THEN N ELSE Min(beyond)
              IN  cx_utf8_colidx(str, column, TAB_SIZE) = cx_utf8_bidx(str, n)
  <2> DEFINE beyond == {n \in 0 .. N - 1 : SumText(Widths, n + 1) > column}
             m == IF beyond = {} THEN N ELSE Min(beyond)
  <2>1. m \in 0 .. N /\ cx_utf8_colidx(str, column, TAB_SIZE) = off[m]
    BY ONLY column \in Columns, <1>16, <1>18
  <2> HIDE DEF beyond, m
  <2>2. cx_utf8_colidx(str, column, TAB_SIZE) = cx_utf8_bidx(str, m)
    BY ONLY <1>12, <2>1
  <2> QED BY ONLY <2>2 DEF beyond, m
<1> QED BY ONLY <1>10, <1>11, <1>15, <1>17, <1>18 DEF TextMeasured

\* TextMeasured holds for all texts, tables and columns: on the encoding of a
\* text the loops read every character once, whole and as it was typed.
THEOREM TextMeasuredHolds == Spec => []TextMeasured
<1>1. damage # 0 => TextMeasured
  BY DEF TextMeasured
<1>2. TextInv /\ TableInv => TextMeasured
  BY <1>1, TextMeasuredOf
<1> QED BY <1>2, TextInvariant, TableInvariant, PTL
==============================================================================
